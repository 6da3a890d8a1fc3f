------------------------------- MODULE MCLive -------------------------------
(***************************************************************************)
(* Under fairness: the fleet, with one agent and one command, and the      *)
(* terminals.  They share no state: `focus` names the one that moves in a  *)
(* behaviour, the other one stays where it began.                          *)
(***************************************************************************)
EXTENDS Fleet, Terminals

MCIdOf == [q \in Requests |-> q]
MCTimes == 1 .. MaxTime

VARIABLE focus

liveVars == <<focus, fleetVars, termVars>>

LiveInit == focus \in {"fleet", "terminals"} /\ FleetInit /\ TermInit

FleetMoves(Move) == focus = "fleet" /\ Move /\ UNCHANGED <<focus, termVars>>
TermMoves(Move) == focus = "terminals" /\ Move /\ UNCHANGED <<focus, fleetVars>>

LiveNext == FleetMoves(FleetNext) \/ TermMoves(TermNext)

\* FleetFairness and TermFairness.
LiveFairness ==
    /\ \A d \in Devices : /\ WF_liveVars(FleetMoves(AgentStep(d)))
                          /\ WF_liveVars(FleetMoves(Serve(d) \/ Refuse(d)))
    /\ WF_liveVars(FleetMoves(Restart /\ UNCHANGED <<agentVars, netVars>>))
    /\ WF_liveVars(TermMoves(StartJob))
    /\ \A s \in Sessions :
         /\ WF_liveVars(TermMoves(ReadEnds(s))) /\ WF_liveVars(TermMoves(WriteEnds(s)))
         /\ WF_liveVars(TermMoves(TakeInput(s))) /\ WF_liveVars(TermMoves(SshConnects(s)))

LiveSpec == LiveInit /\ [][LiveNext]_liveVars /\ LiveFairness
=============================================================================
