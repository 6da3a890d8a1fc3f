------------------------------ MODULE MCFleet ------------------------------
(* Small fleets for TLC.  The requests carry distinct command_ids.         *)
EXTENDS Fleet, TLC

CONSTANTS d1, q1, q2

MCDevices == {d1}
MCRequests == {q1, q2}
MCIdOf == [q \in Requests |-> q]
MCTimes == 1 .. MaxTime
=============================================================================
