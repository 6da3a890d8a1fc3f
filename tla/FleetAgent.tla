----------------------------- MODULE FleetAgent -----------------------------
(***************************************************************************)
(* The heartbeat loop of the fleet agents (bmt_ai_os/fleet/agent.py), one  *)
(* agent per device.  Each cycle flushes the offline queue, sends a fresh  *)
(* heartbeat and executes the command of its answer.  An agent has at most *)
(* one HTTP call outstanding; what the network and the server do with the  *)
(* call is the composing module's business (Fleet).                        *)
(***************************************************************************)
EXTENDS Naturals, Sequences, Functions

CONSTANTS
    Devices,
    Requests,     \* the commands an answer may carry
    NoCommand,    \* an answer whose action is null
    OfflineMax,   \* _OFFLINE_QUEUE_MAX
    MaxTime       \* bound on timestamps: a clock that reaches it stands still

VARIABLES
    loop,      \* where the loop of each agent is
    offline,   \* _offline_queue: the timestamps of the queued payloads
    clock,     \* timestamp of the last payload built
    call,      \* the outstanding HTTP call
    executed,  \* history: commands each agent executed, in order
    received,  \* history: commands in the answers this process has received
    forgotten  \* history: payloads evicted by maxlen or lost with the process

agentVars == <<loop, offline, clock, call, executed, received, forgotten>>

Stages == {"none", "request", "answered", "failed"}

NoCall == [stage |-> "none", time |-> 0, cmd |-> NoCommand]

AgentInit ==
    /\ loop = [d \in Devices |-> "flush"]
    /\ offline = [d \in Devices |-> <<>>]
    /\ clock = [d \in Devices |-> 0]
    /\ call = [d \in Devices |-> NoCall]
    /\ executed = [d \in Devices |-> <<>>]
    /\ received = [d \in Devices |-> {}]
    /\ forgotten = [d \in Devices |-> {}]

\* The timestamp of a payload built now.
Now(d) == IF clock[d] < MaxTime THEN clock[d] + 1 ELSE clock[d]

Post(d, t) ==
    /\ call[d].stage = "none"
    /\ call' = [call EXCEPT ![d] = [NoCall EXCEPT !.stage = "request", !.time = t]]

HangUp(d) == call' = [call EXCEPT ![d] = NoCall]

Receive(d) ==
    received' = [received EXCEPT ![d] = @ \cup ({call[d].cmd} \ {NoCommand})]

\* Faulty: the payload is removed before it is sent.
FlushPop(d) ==
    /\ loop[d] = "flush"
    /\ offline[d] # <<>>
    /\ Post(d, Head(offline[d]))
    /\ offline' = [offline EXCEPT ![d] = Tail(@)]
    /\ UNCHANGED <<loop, clock, executed, received, forgotten>>

\* _flush_offline_queue: the oldest payload is posted, not yet removed.
FlushPost(d) ==
    /\ loop[d] = "flush"
    /\ offline[d] # <<>>
    /\ Post(d, Head(offline[d]))
    /\ UNCHANGED <<loop, offline, clock, executed, received, forgotten>>

\* Faulty: the payload stays in the queue.
FlushKeeps(d) ==
    /\ loop[d] = "flush"
    /\ call[d].stage = "answered"
    /\ Receive(d)
    /\ HangUp(d)
    /\ UNCHANGED <<loop, offline, clock, executed, forgotten>>

\* The answer's status is checked and its body is not read.
FlushAnswered(d) ==
    /\ loop[d] = "flush"
    /\ call[d].stage = "answered"
    /\ offline' = [offline EXCEPT ![d] = Tail(@)]
    /\ Receive(d)
    /\ HangUp(d)
    /\ UNCHANGED <<loop, clock, executed, forgotten>>

\* The flush stops at the first failure; the heartbeat is tried all the same.
FlushFailed(d) ==
    /\ loop[d] = "flush"
    /\ call[d].stage = "failed"
    /\ loop' = [loop EXCEPT ![d] = "send"]
    /\ HangUp(d)
    /\ UNCHANGED <<offline, clock, executed, received, forgotten>>

FlushDone(d) ==
    /\ loop[d] = "flush"
    /\ call[d].stage = "none"
    /\ offline[d] = <<>>
    /\ loop' = [loop EXCEPT ![d] = "send"]
    /\ UNCHANGED <<offline, clock, call, executed, received, forgotten>>

\* send_heartbeat
SendPost(d) ==
    /\ loop[d] = "send"
    /\ Post(d, Now(d))
    /\ clock' = [clock EXCEPT ![d] = Now(d)]
    /\ UNCHANGED <<loop, offline, executed, received, forgotten>>

\* Faulty: the body of the answer is not read here either.
SendAnsweredUnread(d) ==
    /\ loop[d] = "send"
    /\ call[d].stage = "answered"
    /\ Receive(d)
    /\ HangUp(d)
    /\ loop' = [loop EXCEPT ![d] = "flush"]
    /\ UNCHANGED <<offline, clock, executed, forgotten>>

SendAnswered(d) ==
    /\ loop[d] = "send"
    /\ call[d].stage = "answered"
    /\ Receive(d)
    /\ loop' = [loop EXCEPT ![d] = "execute"]
    /\ UNCHANGED <<offline, clock, call, executed, forgotten>>

\* execute_command: a command that fails is logged, one that is null ignored.
Execute(d) ==
    /\ loop[d] = "execute"
    /\ executed' = IF call[d].cmd = NoCommand THEN executed
                   ELSE [executed EXCEPT ![d] = Append(@, call[d].cmd)]
    /\ loop' = [loop EXCEPT ![d] = "flush"]
    /\ HangUp(d)
    /\ UNCHANGED <<offline, clock, received, forgotten>>

\* _enqueue_offline: a full deque drops its oldest payload.
EnqueueOffline(d, t) ==
    IF Len(offline[d]) < OfflineMax
    THEN /\ offline' = [offline EXCEPT ![d] = Append(@, t)]
         /\ UNCHANGED forgotten
    ELSE /\ offline' = [offline EXCEPT ![d] = Append(Tail(@), t)]
         /\ forgotten' = [forgotten EXCEPT ![d] = @ \cup {Head(offline[d])}]

\* Faulty: the exception ends the loop.
SendFailedEndsLoop(d) ==
    /\ loop[d] = "send"
    /\ call[d].stage = "failed"
    /\ loop' = [loop EXCEPT ![d] = "ended"]
    /\ HangUp(d)
    /\ UNCHANGED <<offline, clock, executed, received, forgotten>>

\* A heartbeat that failed, whether or not the server saw it: another payload
\* is built and queued.
SendFailed(d) ==
    /\ loop[d] = "send"
    /\ call[d].stage = "failed"
    /\ clock' = [clock EXCEPT ![d] = Now(d)]
    /\ EnqueueOffline(d, Now(d))
    /\ loop' = [loop EXCEPT ![d] = "flush"]
    /\ HangUp(d)
    /\ UNCHANGED <<executed, received>>

\* The agent's process dies and is started again: the queue was in memory.
Reboot(d) ==
    /\ offline' = [offline EXCEPT ![d] = <<>>]
    /\ forgotten' = [forgotten EXCEPT ![d] = @ \cup Range(offline[d])]
    /\ loop' = [loop EXCEPT ![d] = "flush"]
    /\ received' = [received EXCEPT ![d] = {}]
    /\ HangUp(d)
    /\ UNCHANGED <<clock, executed>>

\* One iteration of the loop, between two waits for the network.
Step(d) ==
    \/ FlushPost(d) \/ FlushAnswered(d) \/ FlushFailed(d) \/ FlushDone(d)
    \/ SendPost(d) \/ SendAnswered(d) \/ SendFailed(d) \/ Execute(d)

Calls == [stage : Stages, time : 0 .. MaxTime, cmd : Requests \cup {NoCommand}]

AgentTypeOK ==
    /\ loop \in [Devices -> {"flush", "send", "execute"}]
    /\ offline \in [Devices -> Seq(1 .. MaxTime)]
    /\ \A d \in Devices : Len(offline[d]) <= OfflineMax
    /\ executed \in [Devices -> Seq(Requests)]
    /\ clock \in [Devices -> 0 .. MaxTime]
    /\ call \in [Devices -> Calls]
    /\ received \in [Devices -> SUBSET Requests]
    /\ forgotten \in [Devices -> SUBSET (1 .. MaxTime)]
=============================================================================
