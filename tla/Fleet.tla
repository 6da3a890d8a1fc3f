------------------------------- MODULE Fleet -------------------------------
(***************************************************************************)
(* The fleet: the registry (FleetRegistry), the agents (FleetAgent) and    *)
(* HTTP between them.  A heartbeat can be refused, time out before or      *)
(* after the server handles it, or lose its answer; a call that timed out  *)
(* on the agent may still be handled later (a stray).                      *)
(***************************************************************************)
EXTENDS FleetRegistry

CONSTANTS
    NoCommand, OfflineMax, MaxTime,
    MaxFaults     \* bound on network faults and agent reboots

VARIABLES
    loop, offline, clock, call, executed, received, forgotten,
    strays,       \* heartbeats nobody waits for that the server may yet handle
    applied,      \* history: heartbeats of each device the server handled
    faults

A == INSTANCE FleetAgent

agentVars == <<loop, offline, clock, call, executed, received, forgotten>>
netVars == <<strays, applied, faults>>
fleetVars == <<vars, agentVars, netVars>>

ASSUME FleetAssumption ==
    /\ NoCommand \notin Requests
    /\ OfflineMax \in Nat \ {0}
    /\ MaxTime \in Nat \ {0} /\ Times = 1 .. MaxTime
    /\ MaxFaults \in Nat

FleetInit ==
    /\ Init
    /\ A!AgentInit
    /\ strays = {}
    /\ applied = [d \in Devices |-> {}]
    /\ faults = 0

----------------------------------------------------------------------------

AgentStep(d) == A!Step(d) /\ UNCHANGED <<vars, netVars>>

CallEnds(d, stage, cmd) ==
    /\ call' = [call EXCEPT ![d].stage = stage, ![d].cmd = cmd]
    /\ UNCHANGED <<loop, offline, clock, executed, received, forgotten>>

Requested(d) == call[d].stage = "request"

Apply(d, t) == applied' = [applied EXCEPT ![d] = @ \cup {t}]

\* The server handles heartbeat t of d and dies or answers with an error.
HeartbeatFails(d, t) ==
    HeartbeatUpsertFails(d, t) \/ HeartbeatMarkFails(d, t) \/ HeartbeatDies(d, t)

\* receive_heartbeat, with the answer on its way back.
Serve(d) ==
    /\ Requested(d)
    /\ \/ HeartbeatNoop(d, call[d].time) /\ CallEnds(d, "answered", NoCommand)
       \/ HeartbeatCommand(d, call[d].time) /\ CallEnds(d, "answered", Head(pending[d]))
       \/ HeartbeatFails(d, call[d].time) /\ CallEnds(d, "failed", NoCommand)
    /\ Apply(d, call[d].time)
    /\ UNCHANGED <<strays, faults>>

\* No controller listens.
Refuse(d) ==
    /\ Requested(d)
    /\ ~up
    /\ CallEnds(d, "failed", NoCommand)
    /\ UNCHANGED <<vars, netVars>>

Fault == faults < MaxFaults /\ faults' = faults + 1

\* The call times out; the request is lost or reaches the server later.
Timeout(d) ==
    /\ Requested(d)
    /\ Fault
    /\ CallEnds(d, "failed", NoCommand)
    /\ strays' \in {strays, strays \cup {<<d, call[d].time>>}}
    /\ UNCHANGED <<vars, applied>>

\* The server has handled the call and its answer does not arrive.
LoseAnswer(d) ==
    /\ call[d].stage = "answered"
    /\ loop[d] # "execute"
    /\ Fault
    /\ CallEnds(d, "failed", NoCommand)
    /\ UNCHANGED <<vars, strays, applied>>

AgentReboot(d) ==
    /\ Fault
    /\ A!Reboot(d)
    /\ strays' \in {strays, IF Requested(d) THEN strays \cup {<<d, call[d].time>>} ELSE strays}
    /\ UNCHANGED <<vars, applied>>

\* A late heartbeat is handled like any other; nobody reads the answer.
ServeStray(d, t) ==
    /\ <<d, t>> \in strays
    /\ \/ HeartbeatNoop(d, t) \/ HeartbeatCommand(d, t) \/ HeartbeatFails(d, t)
    /\ Apply(d, t)
    /\ strays' = strays \ {<<d, t>>}
    /\ UNCHANGED <<agentVars, faults>>

\* `fleet heartbeat` on the device of d sends a heartbeat of its own and only
\* prints the command it gets: as bad as a lost answer, and counted as one.
PrintHeartbeat(d) ==
    /\ Fault
    /\ \/ HeartbeatNoop(d, A!Now(d)) \/ HeartbeatCommand(d, A!Now(d))
       \/ HeartbeatFails(d, A!Now(d))
    /\ UNCHANGED <<agentVars, strays, applied>>

\* The requests of operators and what happens to the controller's process.
Controller ==
    /\ \/ \E d \in Devices : Register(d) \/ RemoveDevice(d) \/ DeploySkip(d)
       \/ \E d \in Devices, q \in Requests : QueueCommand(d, q) \/ DeployOne(d, q)
       \/ \E targets \in SUBSET Devices : DeployStart(targets)
       \/ Crash
       \/ Restart
    /\ UNCHANGED <<agentVars, netVars>>

FleetNext ==
    \/ \E d \in Devices :
          \/ AgentStep(d) \/ AgentReboot(d)
          \/ Serve(d) \/ Refuse(d) \/ Timeout(d) \/ LoseAnswer(d)
          \/ PrintHeartbeat(d) \/ \E t \in Times : ServeStray(d, t)
    \/ Controller

\* The loop runs in a thread of its own and waits at most heartbeat_interval;
\* a call ends within its timeout; the init system restarts the controller.
FleetFairness ==
    /\ \A d \in Devices : WF_fleetVars(AgentStep(d)) /\ WF_fleetVars(Serve(d) \/ Refuse(d))
    /\ WF_fleetVars(Restart /\ UNCHANGED <<agentVars, netVars>>)

FleetSpec == FleetInit /\ [][FleetNext]_fleetVars
FairFleetSpec == FleetSpec /\ FleetFairness

----------------------------------------------------------------------------

\* Every variable of the agents and of the network stays in its type.
FleetTypeOK ==
    /\ TypeOK
    /\ A!AgentTypeOK
    /\ strays \subseteq Devices \X (1 .. MaxTime)
    /\ applied \in [Devices -> SUBSET (1 .. MaxTime)]
    /\ faults \in 0 .. MaxFaults

\* No command is executed twice, by one agent or by two, though heartbeats
\* are repeated, handled late, and answered by a restarted controller.
ExecutedAtMostOnce ==
    \A d, e \in Devices : \A i \in DOMAIN executed[d], j \in DOMAIN executed[e] :
        executed[d][i] = executed[e][j] => d = e /\ i = j

\* Without SQLite errors an agent executes its commands in the order in which
\* they were queued, whichever of their answers were lost on the way.
ExecutedInOrder ==
    dbErrors = 0 => \A d \in Devices : InOrder(executed[d])

\* While nothing has failed, no command gets lost between the registry and
\* the agent: what was answered is executed or about to be.
NothingLostWithoutFaults ==
    faults = 0 /\ crashes = 0 /\ dbErrors = 0 =>
        \A d \in Devices : Range(handed[d]) \subseteq Range(executed[d]) \cup {call[d].cmd}

\* "so historical telemetry is not lost": a payload leaves the offline queue
\* only after the server has handled it, unless the queue overflowed or the
\* agent died.
TelemetryIsKept ==
    [][\A d \in Devices : Range(offline[d]) \subseteq
           Range(offline'[d]) \cup applied[d] \cup forgotten'[d]]_fleetVars

Queued(q) == \E d \in Devices : q \in Range(pending[d])

\* A command in the queue of a device does not stay there for ever: the
\* device's heartbeats fetch it, unless it is removed or lost in a crash.
QueuedIsFetched == \A q \in Requests : Queued(q) ~> ~Queued(q)

\* Once connections succeed again, the offline queue drains completely.
OfflineDrains == \A d \in Devices : offline[d] # <<>> ~> offline[d] = <<>>

\* "processes any command returned in the response": when the agent starts a
\* new cycle it has executed every command of every answer it received.
ReturnedIsProcessed ==
    \A d \in Devices : loop[d] = "flush" /\ call[d].stage = "none" =>
        received[d] \subseteq Range(executed[d])
=============================================================================
