----------------------------- MODULE FleetProofs -----------------------------
(***************************************************************************)
(* What is proved of the fleet as a whole: the registry, the agents and    *)
(* the network between them (module Fleet), for any number of devices,     *)
(* requests, faults, SQLite errors and crashes.                            *)
(*                                                                         *)
(* A step of the fleet is a step of the registry, or leaves it alone, so   *)
(* what is proved of the registry holds in the fleet.  The rest of the     *)
(* argument relates what each agent has executed, and the answer it is     *)
(* waiting for, to what the registry has handed out.                       *)
(***************************************************************************)
EXTENDS Fleet, FleetRegistryProofs

----------------------------------------------------------------------------
(* Types.                                                                  *)

\* The network keeps real heartbeats only.
NetTyped ==
    /\ strays \subseteq Devices \X Times
    /\ applied \in [Devices -> SUBSET Times]
    /\ faults \in 0 .. MaxFaults

\* How far a call can be, given where the loop of its agent is: a command is
\* executed from an answer; the payload being flushed is the oldest one of the
\* queue; an answer was sent by a server that handled the payload; without an
\* answer there is no command.
Fit(d) ==
    /\ loop[d] = "execute" => call[d].stage = "answered"
    /\ call[d].stage # "none" => call[d].time \in Times
    /\ loop[d] = "flush" /\ call[d].stage # "none" =>
          offline[d] # <<>> /\ Head(offline[d]) = call[d].time
    /\ call[d].stage = "answered" => call[d].time \in applied[d]
    /\ call[d].stage # "answered" => call[d].cmd = NoCommand

CallsFit == \A d \in Devices : Fit(d)

AgentsTyped == A!AgentTypeOK /\ NetTyped /\ CallsFit

LEMMA NoCallFacts ==
    /\ A!NoCall \in A!Calls
    /\ A!NoCall.stage = "none" /\ A!NoCall.cmd = NoCommand /\ A!NoCall.time = 0
  BY FleetAssumption DEF A!NoCall, A!Calls, A!Stages

\* A call that a step ends.
LEMMA CallEndsFacts ==
    ASSUME AgentsTyped, NEW d \in Devices, NEW stage \in A!Stages,
           NEW cmd \in Requests \cup {NoCommand}, CallEnds(d, stage, cmd)
    PROVE  /\ call' \in [Devices -> A!Calls]
           /\ \A e \in Devices \ {d} : call'[e] = call[e]
           /\ call'[d].stage = stage /\ call'[d].cmd = cmd /\ call'[d].time = call[d].time
<1>1. call \in [Devices -> A!Calls] /\ call[d] \in A!Calls
  BY DEF AgentsTyped, A!AgentTypeOK
<1>2. call'[d] = [call[d] EXCEPT !.stage = stage, !.cmd = cmd]
      /\ \A e \in Devices \ {d} : call'[e] = call[e]
  BY <1>1 DEF CallEnds
<1>3. /\ call'[d] \in A!Calls
      /\ call'[d].stage = stage /\ call'[d].cmd = cmd /\ call'[d].time = call[d].time
  BY <1>1, <1>2 DEF A!Calls
<1>4. call' \in [Devices -> A!Calls]
  BY <1>1, <1>2, <1>3 DEF CallEnds
<1> QED
  BY <1>2, <1>3, <1>4

\* A call that an agent begins or hangs up.
LEMMA PostFacts ==
    ASSUME AgentsTyped, NEW d \in Devices, NEW t \in Times, A!Post(d, t)
    PROVE  /\ call' \in [Devices -> A!Calls]
           /\ \A e \in Devices \ {d} : call'[e] = call[e]
           /\ call[d].stage = "none"
           /\ call'[d].stage = "request" /\ call'[d].cmd = NoCommand /\ call'[d].time = t
<1>1. call \in [Devices -> A!Calls] /\ call[d] \in A!Calls /\ t \in 0 .. MaxTime
  BY FleetAssumption DEF AgentsTyped, A!AgentTypeOK
<1>2. call'[d] = [A!NoCall EXCEPT !.stage = "request", !.time = t]
      /\ \A e \in Devices \ {d} : call'[e] = call[e]
  BY <1>1 DEF A!Post
<1>3. /\ call'[d] \in A!Calls
      /\ call'[d].stage = "request" /\ call'[d].cmd = NoCommand /\ call'[d].time = t
  BY <1>1, <1>2, NoCallFacts DEF A!Calls, A!Stages
<1>4. call' \in [Devices -> A!Calls]
  BY <1>1, <1>2, <1>3 DEF A!Post
<1> QED
  BY <1>2, <1>3, <1>4 DEF A!Post

LEMMA HangUpFacts ==
    ASSUME AgentsTyped, NEW d \in Devices, A!HangUp(d)
    PROVE  /\ call' \in [Devices -> A!Calls]
           /\ \A e \in Devices \ {d} : call'[e] = call[e]
           /\ call'[d].stage = "none" /\ call'[d].cmd = NoCommand
  BY NoCallFacts DEF AgentsTyped, A!AgentTypeOK, A!HangUp

\* A step of d disturbs the calls of no other device.
LEMMA OthersFit ==
    ASSUME CallsFit, NEW d \in Devices, Fit(d)',
           \A e \in Devices \ {d} :
              /\ loop'[e] = loop[e] /\ call'[e] = call[e] /\ offline'[e] = offline[e]
              /\ applied[e] \subseteq applied'[e]
    PROVE  CallsFit'
<1>1. ASSUME NEW e \in Devices \ {d} PROVE Fit(e)'
  <2>1. Fit(e)
    BY DEF CallsFit
  <2> QED
    BY <2>1 DEF Fit
<1> QED
  BY <1>1 DEF CallsFit

\* The timestamp of a payload built now is one.
LEMMA NowIsATime == AgentsTyped => \A d \in Devices : A!Now(d) \in Times
<1> SUFFICES ASSUME AgentsTyped, NEW d \in Devices PROVE A!Now(d) \in Times
  OBVIOUS
<1>1. clock[d] \in 0 .. MaxTime /\ MaxTime \in Nat \ {0} /\ Times = 1 .. MaxTime
  BY FleetAssumption DEF AgentsTyped, A!AgentTypeOK
<1> QED
  BY <1>1 DEF A!Now

\* The queue after a payload has been added, with the oldest one dropped when the
\* queue is full.
LEMMA EnqueueOfflineFacts ==
    ASSUME AgentsTyped, NEW d \in Devices, NEW t \in Times, A!EnqueueOffline(d, t)
    PROVE  /\ offline' \in [Devices -> Seq(1 .. MaxTime)]
           /\ \A e \in Devices \ {d} : offline'[e] = offline[e] /\ forgotten'[e] = forgotten[e]
           /\ Len(offline'[d]) <= OfflineMax
           /\ forgotten' \in [Devices -> SUBSET (1 .. MaxTime)]
           /\ Range(offline[d]) \subseteq Range(offline'[d]) \cup forgotten'[d]
<1> DEFINE T == 1 .. MaxTime
<1>1. /\ offline \in [Devices -> Seq(T)] /\ offline[d] \in Seq(T)
      /\ Len(offline[d]) <= OfflineMax /\ OfflineMax \in Nat \ {0} /\ t \in T
      /\ forgotten \in [Devices -> SUBSET (T)]
  BY FleetAssumption DEF AgentsTyped, A!AgentTypeOK
<1> HIDE DEF T
<1>2. CASE Len(offline[d]) < OfflineMax
  <2>1. /\ offline' = [offline EXCEPT ![d] = Append(@, t)] /\ forgotten' = forgotten
    BY <1>2 DEF A!EnqueueOffline
  <2>2. /\ Append(offline[d], t) \in Seq(T)
        /\ Range(Append(offline[d], t)) = Range(offline[d]) \cup {t}
    BY <1>1, AppendRange
  <2>3. Len(Append(offline[d], t)) <= OfflineMax
    BY <1>1, <1>2
  <2>4. offline'[d] = Append(offline[d], t) /\ \A e \in Devices \ {d} : offline'[e] = offline[e]
    BY <1>1, <2>1
  <2>5. offline' \in [Devices -> Seq(T)]
    BY <1>1, <2>1, <2>2
  <2> QED
    BY <1>1, <2>1, <2>2, <2>3, <2>4, <2>5 DEF T
<1>3. CASE ~(Len(offline[d]) < OfflineMax)
  <2> DEFINE rest == Tail(offline[d])
             first == Head(offline[d])
  <2>1. offline[d] # <<>> /\ Len(offline[d]) = OfflineMax
    BY <1>1, <1>3
  <2>2. /\ rest \in Seq(T) /\ first \in T
        /\ Range(offline[d]) \subseteq Range(rest) \cup {first}
    BY <1>1, <2>1, TailFacts
  <2>3. Len(rest) = OfflineMax - 1
    BY <1>1, <2>1
  <2>4. /\ offline' = [offline EXCEPT ![d] = Append(Tail(@), t)]
        /\ forgotten' = [forgotten EXCEPT ![d] = @ \cup {first}]
    BY <1>3 DEF A!EnqueueOffline
  <2>5. offline'[d] = Append(rest, t) /\ forgotten'[d] = forgotten[d] \cup {first}
    BY <1>1, <2>4
  <2> HIDE DEF rest, first
  <2>6. Append(rest, t) \in Seq(T) /\ Range(Append(rest, t)) = Range(rest) \cup {t}
    BY <1>1, <2>2, AppendRange
  <2>7. Len(Append(rest, t)) <= OfflineMax
    BY <1>1, <2>2, <2>3
  <2>8. offline' \in [Devices -> Seq(T)]
    BY <1>1, <2>4, <2>5, <2>6
  <2>9. forgotten' \in [Devices -> SUBSET (T)]
    BY <1>1, <2>2, <2>4
  <2> QED
    <3>1. \A e \in Devices \ {d} : offline'[e] = offline[e] /\ forgotten'[e] = forgotten[e]
      BY <1>1, <2>4
    <3>2. Range(offline[d]) \subseteq Range(offline'[d]) \cup forgotten'[d]
      BY <2>2, <2>5, <2>6
    <3>3. Len(offline'[d]) <= OfflineMax
      BY <2>5, <2>7
    <3> QED
      BY <2>8, <2>9, <3>1, <3>2, <3>3 DEF T
<1> QED
  BY <1>2, <1>3 DEF T

LEMMA AgentsTypedInit == FleetInit => AgentsTyped
<1> SUFFICES ASSUME FleetInit PROVE AgentsTyped
  OBVIOUS
<1>1. A!AgentTypeOK
  <2>1. \A d \in Devices : Len(offline[d]) = 0 /\ offline[d] \in Seq(1 .. MaxTime)
    BY DEF FleetInit, A!AgentInit
  <2> QED
    BY <2>1, NoCallFacts, FleetAssumption DEF FleetInit, A!AgentInit, A!AgentTypeOK
<1>2. NetTyped
  BY FleetAssumption DEF FleetInit, NetTyped
<1>3. CallsFit
  BY NoCallFacts DEF FleetInit, A!AgentInit, CallsFit, Fit
<1> QED
  BY <1>1, <1>2, <1>3 DEF AgentsTyped

\* The loop of one agent.
LEMMA AgentStepTyped ==
    ASSUME AgentsTyped, NEW d \in Devices, AgentStep(d)
    PROVE  AgentsTyped'
<1>1. /\ offline \in [Devices -> Seq(1 .. MaxTime)] /\ \A e \in Devices : Len(offline[e]) <= OfflineMax
      /\ executed \in [Devices -> Seq(Requests)]
      /\ loop \in [Devices -> {"flush", "send", "execute"}]
      /\ clock \in [Devices -> 0 .. MaxTime] /\ call \in [Devices -> A!Calls]
      /\ received \in [Devices -> SUBSET Requests]
      /\ forgotten \in [Devices -> SUBSET (1 .. MaxTime)]
      /\ Times = 1 .. MaxTime /\ OfflineMax \in Nat
      /\ CallsFit /\ Fit(d)
  BY FleetAssumption DEF AgentsTyped, A!AgentTypeOK, CallsFit
<1>2. NetTyped' /\ applied' = applied
  BY DEF AgentStep, netVars, AgentsTyped, NetTyped
<1>3. /\ A!Now(d) \in Times
      /\ call[d].cmd \in Requests \cup {NoCommand}
  BY <1>1, NowIsATime DEF A!Calls
<1>4. CASE A!FlushPost(d)
  <2> DEFINE t == Head(offline[d])
  <2>1. offline[d] # <<>> /\ A!Post(d, t) /\ loop[d] = "flush"
        /\ UNCHANGED <<loop, offline, clock, executed, received, forgotten>>
    BY <1>4 DEF A!FlushPost
  <2>2. t \in Times
    <3>1. offline[d] \in Seq(Times)
      BY <1>1
    <3> QED
      BY <2>1, <3>1, TailFacts
  <2> HIDE DEF t
  <2>3. /\ call' \in [Devices -> A!Calls] /\ \A e \in Devices \ {d} : call'[e] = call[e]
        /\ call'[d].stage = "request" /\ call'[d].cmd = NoCommand /\ call'[d].time = t
    BY <2>1, <2>2, PostFacts
  <2>4. Fit(d)'
    BY <2>1, <2>2, <2>3 DEF Fit, t
  <2> QED
    BY <1>1, <1>2, <2>1, <2>3, <2>4, OthersFit DEF AgentsTyped, A!AgentTypeOK
<1>5. CASE A!FlushAnswered(d)
  <2>1. /\ loop[d] = "flush" /\ call[d].stage = "answered" /\ A!HangUp(d) /\ A!Receive(d)
        /\ offline' = [offline EXCEPT ![d] = Tail(@)]
        /\ UNCHANGED <<loop, clock, executed, forgotten>>
    BY <1>5 DEF A!FlushAnswered
  <2>2. offline[d] # <<>> /\ offline[d] \in Seq(1 .. MaxTime)
    BY <1>1, <2>1 DEF Fit
  <2>3. Tail(offline[d]) \in Seq(1 .. MaxTime) /\ Len(Tail(offline[d])) <= OfflineMax
    BY <1>1, <2>2
  <2>4. /\ offline' \in [Devices -> Seq(1 .. MaxTime)] /\ \A e \in Devices : Len(offline'[e]) <= OfflineMax
        /\ \A e \in Devices \ {d} : offline'[e] = offline[e]
    BY <1>1, <2>1, <2>3
  <2>5. /\ call' \in [Devices -> A!Calls] /\ \A e \in Devices \ {d} : call'[e] = call[e]
        /\ call'[d].stage = "none" /\ call'[d].cmd = NoCommand
    BY <2>1, HangUpFacts
  <2>6. received' \in [Devices -> SUBSET Requests]
    BY <1>1, <1>3, <2>1 DEF A!Receive
  <2>7. Fit(d)'
    BY <2>1, <2>5 DEF Fit
  <2> QED
    BY <1>1, <1>2, <2>1, <2>4, <2>5, <2>6, <2>7, OthersFit DEF AgentsTyped, A!AgentTypeOK
<1>6. CASE A!FlushFailed(d)
  <2>1. /\ loop' = [loop EXCEPT ![d] = "send"] /\ A!HangUp(d)
        /\ UNCHANGED <<offline, clock, executed, received, forgotten>>
    BY <1>6 DEF A!FlushFailed
  <2>2. /\ call' \in [Devices -> A!Calls] /\ \A e \in Devices \ {d} : call'[e] = call[e]
        /\ call'[d].stage = "none" /\ call'[d].cmd = NoCommand
    BY <2>1, HangUpFacts
  <2>3. /\ loop' \in [Devices -> {"flush", "send", "execute"}] /\ loop'[d] = "send"
        /\ \A e \in Devices \ {d} : loop'[e] = loop[e]
    BY <1>1, <2>1
  <2>4. Fit(d)'
    BY <2>2, <2>3 DEF Fit
  <2> QED
    BY <1>1, <1>2, <2>1, <2>2, <2>3, <2>4, OthersFit DEF AgentsTyped, A!AgentTypeOK
<1>7. CASE A!FlushDone(d)
  <2>1. /\ loop' = [loop EXCEPT ![d] = "send"] /\ call[d].stage = "none"
        /\ UNCHANGED <<offline, clock, call, executed, received, forgotten>>
    BY <1>7 DEF A!FlushDone
  <2>2. /\ loop' \in [Devices -> {"flush", "send", "execute"}] /\ loop'[d] = "send"
        /\ \A e \in Devices \ {d} : loop'[e] = loop[e]
    BY <1>1, <2>1
  <2>3. Fit(d)'
    BY <1>1, <2>1, <2>2 DEF Fit
  <2> QED
    BY <1>1, <1>2, <2>1, <2>2, <2>3, OthersFit DEF AgentsTyped, A!AgentTypeOK
<1>8. CASE A!SendPost(d)
  <2>1. /\ loop[d] = "send" /\ A!Post(d, A!Now(d)) /\ clock' = [clock EXCEPT ![d] = A!Now(d)]
        /\ UNCHANGED <<loop, offline, executed, received, forgotten>>
    BY <1>8 DEF A!SendPost
  <2>2. /\ call' \in [Devices -> A!Calls] /\ \A e \in Devices \ {d} : call'[e] = call[e]
        /\ call'[d].stage = "request" /\ call'[d].cmd = NoCommand /\ call'[d].time = A!Now(d)
    BY <1>3, <2>1, PostFacts
  <2>3. clock' \in [Devices -> 0 .. MaxTime]
    BY <1>1, <1>3, <2>1
  <2>4. Fit(d)'
    BY <1>3, <2>1, <2>2 DEF Fit
  <2> QED
    BY <1>1, <1>2, <2>1, <2>2, <2>3, <2>4, OthersFit DEF AgentsTyped, A!AgentTypeOK
<1>9. CASE A!SendAnswered(d)
  <2>1. /\ loop' = [loop EXCEPT ![d] = "execute"] /\ call[d].stage = "answered" /\ A!Receive(d)
        /\ UNCHANGED <<offline, clock, call, executed, forgotten>>
    BY <1>9 DEF A!SendAnswered
  <2>2. /\ loop' \in [Devices -> {"flush", "send", "execute"}] /\ loop'[d] = "execute"
        /\ \A e \in Devices \ {d} : loop'[e] = loop[e]
    BY <1>1, <2>1
  <2>3. received' \in [Devices -> SUBSET Requests]
    BY <1>1, <1>3, <2>1 DEF A!Receive
  <2>4. Fit(d)'
    BY <1>1, <1>2, <2>1, <2>2 DEF Fit
  <2> QED
    BY <1>1, <1>2, <2>1, <2>2, <2>3, <2>4, OthersFit DEF AgentsTyped, A!AgentTypeOK
<1>10. CASE A!SendFailed(d)
  <2>1. /\ loop' = [loop EXCEPT ![d] = "flush"] /\ A!HangUp(d)
        /\ A!EnqueueOffline(d, A!Now(d)) /\ clock' = [clock EXCEPT ![d] = A!Now(d)]
        /\ UNCHANGED <<executed, received>>
    BY <1>10 DEF A!SendFailed
  <2>2. /\ call' \in [Devices -> A!Calls] /\ \A e \in Devices \ {d} : call'[e] = call[e]
        /\ call'[d].stage = "none" /\ call'[d].cmd = NoCommand
    BY <2>1, HangUpFacts
  <2>3. /\ loop' \in [Devices -> {"flush", "send", "execute"}] /\ loop'[d] = "flush"
        /\ \A e \in Devices \ {d} : loop'[e] = loop[e]
    BY <1>1, <2>1
  <2>4. /\ offline' \in [Devices -> Seq(1 .. MaxTime)] /\ Len(offline'[d]) <= OfflineMax
        /\ \A e \in Devices \ {d} : offline'[e] = offline[e]
        /\ forgotten' \in [Devices -> SUBSET (1 .. MaxTime)]
    BY <1>3, <2>1, EnqueueOfflineFacts
  <2>5. clock' \in [Devices -> 0 .. MaxTime]
    BY <1>1, <1>3, <2>1
  <2>6. \A e \in Devices : Len(offline'[e]) <= OfflineMax
    BY <1>1, <2>4
  <2>7. Fit(d)'
    BY <2>2, <2>3 DEF Fit
  <2> QED
    BY <1>1, <1>2, <2>1, <2>2, <2>3, <2>4, <2>5, <2>6, <2>7, OthersFit DEF AgentsTyped, A!AgentTypeOK
<1>11. CASE A!Execute(d)
  <2>1. /\ loop' = [loop EXCEPT ![d] = "flush"] /\ A!HangUp(d)
        /\ executed' = IF call[d].cmd = NoCommand THEN executed
                       ELSE [executed EXCEPT ![d] = Append(@, call[d].cmd)]
        /\ UNCHANGED <<offline, clock, received, forgotten>>
    BY <1>11 DEF A!Execute
  <2>2. /\ call' \in [Devices -> A!Calls] /\ \A e \in Devices \ {d} : call'[e] = call[e]
        /\ call'[d].stage = "none" /\ call'[d].cmd = NoCommand
    BY <2>1, HangUpFacts
  <2>3. /\ loop' \in [Devices -> {"flush", "send", "execute"}] /\ loop'[d] = "flush"
        /\ \A e \in Devices \ {d} : loop'[e] = loop[e]
    BY <1>1, <2>1
  <2>4. call[d].cmd # NoCommand => Append(executed[d], call[d].cmd) \in Seq(Requests)
    BY <1>1, <1>3, AppendRange
  <2>5. executed' \in [Devices -> Seq(Requests)]
    BY <1>1, <2>1, <2>4
  <2>6. Fit(d)'
    BY <2>2, <2>3 DEF Fit
  <2> QED
    BY <1>1, <1>2, <2>1, <2>2, <2>3, <2>5, <2>6, OthersFit DEF AgentsTyped, A!AgentTypeOK
<1> QED
  BY <1>4, <1>5, <1>6, <1>7, <1>8, <1>9, <1>10, <1>11 DEF AgentStep, A!Step

\* A step of the network: what becomes of a call, or of one the agent has given up.
LEMMA NetStepTyped ==
    ASSUME TypeOK, AgentsTyped, NEW d \in Devices,
           \/ AgentReboot(d) \/ Serve(d) \/ Refuse(d) \/ Timeout(d) \/ LoseAnswer(d)
           \/ PrintHeartbeat(d) \/ \E t \in Times : ServeStray(d, t)
    PROVE  AgentsTyped'
<1>1. /\ offline \in [Devices -> Seq(1 .. MaxTime)] /\ \A e \in Devices : Len(offline[e]) <= OfflineMax
      /\ loop \in [Devices -> {"flush", "send", "execute"}]
      /\ call \in [Devices -> A!Calls]
      /\ received \in [Devices -> SUBSET Requests]
      /\ forgotten \in [Devices -> SUBSET (1 .. MaxTime)]
      /\ Times = 1 .. MaxTime /\ OfflineMax \in Nat /\ MaxFaults \in Nat
      /\ A!AgentTypeOK /\ NetTyped /\ CallsFit /\ Fit(d)
      /\ applied \in [Devices -> SUBSET Times] /\ strays \subseteq Devices \X Times
      /\ faults \in 0 .. MaxFaults
  BY FleetAssumption DEF AgentsTyped, A!AgentTypeOK, NetTyped, CallsFit
<1>2. Fault => faults' \in 0 .. MaxFaults
  BY <1>1 DEF Fault
<1>3. Requested(d) => <<d, call[d].time>> \in Devices \X Times
  BY <1>1 DEF Requested, Fit
\* A call that ends without an answer.
<1>4. ASSUME Requested(d), CallEnds(d, "failed", NoCommand), NetTyped',
             \A e \in Devices : applied[e] \subseteq applied'[e]
      PROVE  AgentsTyped'
  <2>1. /\ call' \in [Devices -> A!Calls] /\ \A e \in Devices \ {d} : call'[e] = call[e]
        /\ call'[d].stage = "failed" /\ call'[d].cmd = NoCommand /\ call'[d].time = call[d].time
    BY <1>4, CallEndsFacts DEF A!Stages
  <2>2. UNCHANGED <<loop, offline, clock, executed, received, forgotten>> /\ call[d].stage = "request"
    BY <1>4 DEF CallEnds, Requested
  <2>3. Fit(d)'
    BY <1>1, <2>1, <2>2 DEF Fit
  <2> QED
    BY <1>1, <1>4, <2>1, <2>2, <2>3, OthersFit DEF AgentsTyped, A!AgentTypeOK
<1>5. CASE AgentReboot(d)
  <2>1. /\ offline' = [offline EXCEPT ![d] = <<>>] /\ loop' = [loop EXCEPT ![d] = "flush"]
        /\ forgotten' = [forgotten EXCEPT ![d] = @ \cup A!Range(offline[d])]
        /\ received' = [received EXCEPT ![d] = {}]
        /\ A!HangUp(d) /\ UNCHANGED <<clock, executed, applied>>
        /\ strays' \subseteq strays \cup (IF Requested(d) THEN {<<d, call[d].time>>} ELSE {})
        /\ Fault
    BY <1>5 DEF AgentReboot, A!Reboot
  <2>2. /\ call' \in [Devices -> A!Calls] /\ \A e \in Devices \ {d} : call'[e] = call[e]
        /\ call'[d].stage = "none" /\ call'[d].cmd = NoCommand
    BY <2>1, HangUpFacts
  <2>3. /\ loop' \in [Devices -> {"flush", "send", "execute"}] /\ loop'[d] = "flush"
        /\ \A e \in Devices \ {d} : loop'[e] = loop[e] /\ offline'[e] = offline[e]
    BY <1>1, <2>1
  <2>4. Fit(d)'
    BY <2>2, <2>3 DEF Fit
  <2>5. CallsFit'
    BY <1>1, <2>1, <2>2, <2>3, <2>4, OthersFit
  <2>6. <<>> \in Seq(1 .. MaxTime) /\ Len(<<>>) = 0
    BY EmptyFacts
  <2>7. /\ offline' \in [Devices -> Seq(1 .. MaxTime)]
        /\ \A e \in Devices : Len(offline'[e]) <= OfflineMax
    BY <1>1, <2>1, <2>6
  <2>8. A!Range(offline[d]) \subseteq 1 .. MaxTime
    <3>1. offline[d] \in Seq(Times)
      BY <1>1
    <3>2. \A i \in DOMAIN offline[d] : offline[d][i] \in Times
      BY <3>1
    <3> QED
      BY <1>1, <3>2 DEF A!Range
  <2>9. forgotten' \in [Devices -> SUBSET (1 .. MaxTime)] /\ received' \in [Devices -> SUBSET Requests]
    BY <1>1, <2>1, <2>8
  <2>10. NetTyped'
    BY <1>1, <1>2, <1>3, <2>1 DEF NetTyped
  <2> QED
    BY <1>1, <2>1, <2>2, <2>3, <2>5, <2>7, <2>9, <2>10 DEF AgentsTyped, A!AgentTypeOK
<1>6. CASE Serve(d)
  <2>1. Requested(d) /\ Apply(d, call[d].time) /\ UNCHANGED <<strays, faults>>
    BY <1>6 DEF Serve
  <2>2. call[d].time \in Times
    BY <1>3, <2>1
  <2>3. /\ NetTyped' /\ \A e \in Devices : applied[e] \subseteq applied'[e]
        /\ call[d].time \in applied'[d]
    BY <1>1, <2>1, <2>2 DEF Apply, NetTyped
  <2>4. CASE CallEnds(d, "failed", NoCommand)
    BY <1>4, <2>1, <2>3, <2>4
  <2>5. ASSUME NEW cmd \in Requests \cup {NoCommand}, CallEnds(d, "answered", cmd)
        PROVE  AgentsTyped'
    <3>1. /\ call' \in [Devices -> A!Calls] /\ \A e \in Devices \ {d} : call'[e] = call[e]
          /\ call'[d].stage = "answered" /\ call'[d].time = call[d].time
      BY <2>5, CallEndsFacts DEF A!Stages
    <3>2. UNCHANGED <<loop, offline, clock, executed, received, forgotten>> /\ call[d].stage = "request"
      BY <2>1, <2>5 DEF CallEnds, Requested
    <3>3. Fit(d)'
      BY <1>1, <2>3, <3>1, <3>2 DEF Fit
    <3> QED
      BY <1>1, <2>3, <3>1, <3>2, <3>3, OthersFit DEF AgentsTyped, A!AgentTypeOK
  <2>6. HeartbeatCommand(d, call[d].time) => Head(pending[d]) \in Requests
    <3>1. pending[d] \in Seq(Requests)
      BY DEF TypeOK
    <3> QED
      BY <3>1, TailFacts DEF HeartbeatCommand
  <2> QED
    BY <1>6, <2>4, <2>5, <2>6 DEF Serve
<1>7. CASE Refuse(d)
  BY <1>1, <1>4, <1>7 DEF Refuse, netVars, NetTyped
<1>8. CASE Timeout(d)
  <2>1. NetTyped'
    BY <1>1, <1>2, <1>3, <1>8 DEF Timeout, NetTyped
  <2> QED
    BY <1>4, <1>8, <2>1 DEF Timeout
<1>9. CASE LoseAnswer(d)
  <2>1. /\ call[d].stage = "answered" /\ loop[d] # "execute" /\ Fault
        /\ CallEnds(d, "failed", NoCommand) /\ UNCHANGED <<strays, applied>>
    BY <1>9 DEF LoseAnswer
  <2>2. NetTyped'
    BY <1>1, <1>2, <2>1 DEF NetTyped
  <2>3. /\ call' \in [Devices -> A!Calls] /\ \A e \in Devices \ {d} : call'[e] = call[e]
        /\ call'[d].stage = "failed" /\ call'[d].cmd = NoCommand /\ call'[d].time = call[d].time
    BY <2>1, CallEndsFacts DEF A!Stages
  <2>4. UNCHANGED <<loop, offline, clock, executed, received, forgotten>>
    BY <2>1 DEF CallEnds
  <2>5. Fit(d)'
    BY <1>1, <2>1, <2>3, <2>4 DEF Fit
  <2> QED
    BY <1>1, <2>1, <2>2, <2>3, <2>4, <2>5, OthersFit DEF AgentsTyped, A!AgentTypeOK
<1>10. CASE PrintHeartbeat(d) \/ \E t \in Times : ServeStray(d, t)
  <2>1. UNCHANGED agentVars /\ NetTyped' /\ \A e \in Devices : applied[e] \subseteq applied'[e]
    <3>1. CASE PrintHeartbeat(d)
      BY <1>1, <1>2, <3>1 DEF PrintHeartbeat, NetTyped
    <3>2. ASSUME NEW t \in Times, ServeStray(d, t)
          PROVE  UNCHANGED agentVars /\ NetTyped' /\ \A e \in Devices : applied[e] \subseteq applied'[e]
      BY <1>1, <3>2 DEF ServeStray, Apply, NetTyped
    <3> QED
      BY <1>10, <3>1, <3>2
  <2>2. Fit(d)'
    BY <1>1, <2>1 DEF Fit, agentVars
  <2>3. CallsFit'
    BY <1>1, <2>1, <2>2, OthersFit DEF agentVars
  <2> QED
    BY <1>1, <2>1, <2>3 DEF AgentsTyped, A!AgentTypeOK, agentVars
<1> QED
  BY <1>5, <1>6, <1>7, <1>8, <1>9, <1>10

\* A step of the fleet is a step of the registry or leaves it alone.
LEMMA FleetStepsTheRegistry == AgentsTyped /\ [FleetNext]_fleetVars => [Next]_vars
<1> SUFFICES ASSUME AgentsTyped, [FleetNext]_fleetVars PROVE Next \/ UNCHANGED vars
  OBVIOUS
<1>1. ASSUME NEW d \in Devices, NEW t \in Times,
             HeartbeatNoop(d, t) \/ HeartbeatCommand(d, t) \/ HeartbeatFails(d, t)
      PROVE  Next
  BY <1>1 DEF HeartbeatFails, Next
<1>2. ASSUME NEW d \in Devices,
             AgentStep(d) \/ AgentReboot(d) \/ Refuse(d) \/ Timeout(d) \/ LoseAnswer(d)
      PROVE  UNCHANGED vars
  BY <1>2 DEF AgentStep, AgentReboot, Refuse, Timeout, LoseAnswer
<1>3. ASSUME NEW d \in Devices, Serve(d) PROVE Next
  <2>1. call[d].time \in Times
    BY <1>3 DEF Serve, Requested, AgentsTyped, CallsFit, Fit
  <2> QED
    BY <1>1, <1>3, <2>1 DEF Serve
<1>4. ASSUME NEW d \in Devices, PrintHeartbeat(d) PROVE Next
  BY <1>1, <1>4, NowIsATime DEF PrintHeartbeat
<1>5. ASSUME NEW d \in Devices, NEW t \in Times, ServeStray(d, t) PROVE Next
  BY <1>1, <1>5 DEF ServeStray
<1>6. CASE Controller
  BY <1>6 DEF Controller, Next
<1>7. CASE UNCHANGED fleetVars
  BY <1>7 DEF fleetVars
<1> QED
  BY <1>2, <1>3, <1>4, <1>5, <1>6, <1>7 DEF FleetNext

LEMMA AgentsTypedStep == TypeOK /\ AgentsTyped /\ [FleetNext]_fleetVars => AgentsTyped'
<1> SUFFICES ASSUME TypeOK, AgentsTyped, [FleetNext]_fleetVars PROVE AgentsTyped'
  OBVIOUS
<1>1. CASE UNCHANGED <<agentVars, netVars>>
  BY <1>1 DEF agentVars, netVars, AgentsTyped, A!AgentTypeOK, NetTyped, CallsFit, Fit
<1>2. CASE Controller \/ UNCHANGED fleetVars
  BY <1>1, <1>2 DEF Controller, fleetVars
<1> QED
  BY <1>2, AgentStepTyped, NetStepTyped DEF FleetNext

\* The fleet runs the registry: what is proved of every behaviour of the registry
\* on its own holds whatever the agents and the network do with its heartbeats.
\* And every variable of the agents and of the network stays in its type.
THEOREM FleetRunsTheRegistry == FleetSpec => Spec /\ []AgentsTyped
<1>1. FleetInit => Init /\ AgentsTyped /\ TypeOK
  BY AgentsTypedInit, TypeInit DEF FleetInit
<1>2. TypeOK /\ AgentsTyped /\ [FleetNext]_fleetVars => TypeOK' /\ AgentsTyped' /\ [Next]_vars
  BY AgentsTypedStep, FleetStepsTheRegistry, TypeStep
<1> QED
  BY <1>1, <1>2, PTL DEF FleetSpec, Spec

\* Types of the whole fleet.
THEOREM FleetTypeCorrect == FleetSpec => []FleetTypeOK
<1>1. TypeOK /\ AgentsTyped => FleetTypeOK
  BY FleetAssumption DEF FleetTypeOK, AgentsTyped, NetTyped
<1> QED
  BY <1>1, FleetRunsTheRegistry, TypeCorrect, PTL

\* In the fleet, too, a request is in one place at a time and without SQLite errors
\* the database mirrors the cache.
LEMMA RegistryInFleet ==
    FleetSpec => [](TypeOK /\ AgentsTyped /\ OnePlace /\ Mirror)
  BY FleetRunsTheRegistry, TypeCorrect, OnePlaceAlways, MirrorAlways, PTL

----------------------------------------------------------------------------
(* What agents execute.                                                    *)

\* The invariant behind ExecutedAtMostOnce: an agent has executed only what its
\* device was answered, and an answer it has yet to execute is not among that.
ExecutedAt(d) ==
    /\ Range(executed[d]) \subseteq Range(handed[d])
    /\ IsInjective(executed[d])
    /\ call[d].stage = "answered" /\ call[d].cmd # NoCommand =>
          call[d].cmd \in Range(handed[d]) /\ call[d].cmd \notin Range(executed[d])

ExecutedInv == \A d \in Devices : ExecutedAt(d)

\* The answers a device got stay among its answers.
LEMMA HandedGrows ==
    ASSUME TypeOK, [Next]_vars, NEW d \in Devices
    PROVE  Range(handed[d]) \subseteq Range(handed'[d])
<1>1. ASSUME NEW e \in Devices, NEW t \in Times, HeartbeatCommand(e, t)
      PROVE  Range(handed[d]) \subseteq Range(handed'[d])
  <2>1. /\ handed \in [Devices -> Seq(Requests)] /\ pending[e] \in Seq(Requests)
        /\ pending[e] # <<>> /\ handed' = [handed EXCEPT ![e] = Append(@, Head(pending[e]))]
    BY <1>1 DEF TypeOK, HeartbeatCommand
  <2>2. Head(pending[e]) \in Requests
    BY <2>1, TailFacts
  <2>3. CASE d = e
    <3>1. handed'[d] = Append(handed[d], Head(pending[e]))
      BY <2>1, <2>3
    <3> QED
      BY <2>1, <2>2, <3>1, AppendRange
  <2>4. CASE d # e
    BY <2>1, <2>4
  <2> QED
    BY <2>3, <2>4
<1>2. CASE UNCHANGED handed
  BY <1>2
<1> QED
  BY <1>1, <1>2
  DEF Next, Register, RemoveDevice, DeploySkip, QueueCommand, DeployOne, Enqueue, HeartbeatNoop,
      HeartbeatUpsertFails, HeartbeatMarkFails, HeartbeatDies, DeployStart, Crash, Restart,
      history, vars

\* A step in which no command reaches d: its call is as it was, or carries none.
NoNewCommand(d) ==
    call'[d] = call[d] \/ call'[d].stage # "answered" \/ call'[d].cmd = NoCommand

\* What a step can do to the commands on their way: a command is executed, an
\* answer of the registry carries one to its device, or neither.
LEMMA CommandFlow ==
    ASSUME TypeOK, AgentsTyped, [FleetNext]_fleetVars
    PROVE  \/ UNCHANGED executed /\ \A d \in Devices : NoNewCommand(d)
           \/ \E d \in Devices : A!Execute(d) /\ UNCHANGED vars
           \/ \E d \in Devices, t \in Times :
                 HeartbeatCommand(d, t) /\ CallEnds(d, "answered", Head(pending[d]))
<1> DEFINE Neither == UNCHANGED executed /\ \A e \in Devices : NoNewCommand(e)
           Executes == \E d \in Devices : A!Execute(d) /\ UNCHANGED vars
           Carries == \E d \in Devices, t \in Times :
                         HeartbeatCommand(d, t) /\ CallEnds(d, "answered", Head(pending[d]))
<1>1. ASSUME NEW d \in Devices, A!HangUp(d), UNCHANGED executed PROVE Neither
  BY <1>1, HangUpFacts DEF NoNewCommand
<1>2. ASSUME NEW d \in Devices, NEW stage \in A!Stages, CallEnds(d, stage, NoCommand) PROVE Neither
  BY ZenonT(60), <1>2, CallEndsFacts DEF CallEnds, NoNewCommand
<1>3. ASSUME UNCHANGED <<call, executed>> PROVE Neither
  BY <1>3 DEF NoNewCommand
<1>4. ASSUME NEW d \in Devices, AgentStep(d) PROVE Neither \/ Executes
  <2>1. CASE A!FlushPost(d) \/ A!SendPost(d)
    <3>1. PICK t : A!Post(d, t) /\ UNCHANGED executed
      BY <2>1 DEF A!FlushPost, A!SendPost
    <3>2. call \in [Devices -> A!Calls]
      BY DEF AgentsTyped, A!AgentTypeOK
    <3>3. call' = [call EXCEPT ![d] = [A!NoCall EXCEPT !.stage = "request", !.time = t]]
      BY <3>1 DEF A!Post
    <3>4. call'[d].stage = "request" /\ \A e \in Devices \ {d} : call'[e] = call[e]
      BY <3>2, <3>3 DEF A!NoCall
    <3> QED
      BY <3>1, <3>4 DEF NoNewCommand
  <2>2. CASE A!FlushAnswered(d) \/ A!FlushFailed(d) \/ A!SendFailed(d)
    BY <1>1, <2>2 DEF A!FlushAnswered, A!FlushFailed, A!SendFailed
  <2>3. CASE A!FlushDone(d) \/ A!SendAnswered(d)
    BY <1>3, <2>3 DEF A!FlushDone, A!SendAnswered
  <2>4. CASE A!Execute(d)
    BY <1>4, <2>4 DEF AgentStep
  <2> QED
    BY <1>4, <2>1, <2>2, <2>3, <2>4 DEF AgentStep, A!Step
<1>5. ASSUME NEW d \in Devices, Serve(d) PROVE Neither \/ Carries
  <2>1. call[d].time \in Times
    BY <1>5 DEF Serve, Requested, AgentsTyped, CallsFit, Fit
  <2> QED
    BY <1>2, <1>5, <2>1 DEF Serve, A!Stages
<1>6. ASSUME NEW d \in Devices, Refuse(d) \/ Timeout(d) \/ LoseAnswer(d) PROVE Neither
  BY <1>2, <1>6 DEF Refuse, Timeout, LoseAnswer, A!Stages
<1>7. ASSUME NEW d \in Devices, AgentReboot(d) PROVE Neither
  BY <1>1, <1>7 DEF AgentReboot, A!Reboot
<1>8. ASSUME UNCHANGED agentVars PROVE Neither
  BY <1>3, <1>8 DEF agentVars
<1>9. ASSUME NEW d \in Devices, PrintHeartbeat(d) \/ \E t \in Times : ServeStray(d, t) PROVE Neither
  BY <1>8, <1>9 DEF PrintHeartbeat, ServeStray
<1>10. ASSUME Controller \/ UNCHANGED fleetVars PROVE Neither
  BY <1>8, <1>10 DEF Controller, fleetVars
<1> QED
  BY <1>4, <1>5, <1>6, <1>7, <1>9, <1>10 DEF FleetNext

\* A step in which no command moves.
LEMMA ExecutedUncommanded ==
    ASSUME ExecutedInv, UNCHANGED executed, \A d \in Devices : NoNewCommand(d),
           \A d \in Devices : Range(handed[d]) \subseteq Range(handed'[d])
    PROVE  ExecutedInv'
<1>1. ASSUME NEW e \in Devices PROVE ExecutedAt(e)'
  BY DEF ExecutedInv, ExecutedAt, NoNewCommand
<1> QED
  BY <1>1 DEF ExecutedInv

\* The answer that is executed moves to what was executed.
LEMMA ExecuteKeeps ==
    ASSUME AgentsTyped, ExecutedInv, NEW d \in Devices, A!Execute(d), UNCHANGED handed
    PROVE  ExecutedInv'
<1> DEFINE q == call[d].cmd
<1>1. /\ call[d].stage = "answered" /\ q \in Requests \cup {NoCommand} /\ ExecutedAt(d)
      /\ executed \in [Devices -> Seq(Requests)] /\ executed[d] \in Seq(Requests)
  BY DEF A!Execute, AgentsTyped, CallsFit, Fit, A!AgentTypeOK, A!Calls, ExecutedInv
<1>2. /\ \A e \in Devices \ {d} : call'[e] = call[e]
      /\ call'[d].stage = "none"
  BY HangUpFacts DEF A!Execute
<1>3. CASE q = NoCommand
  BY <1>2, <1>3, ExecutedUncommanded DEF A!Execute, NoNewCommand
<1>4. CASE q # NoCommand
  <2>1. executed' = [executed EXCEPT ![d] = Append(@, q)]
    BY <1>4 DEF A!Execute
  <2>2. executed'[d] = Append(executed[d], q) /\ \A e \in Devices \ {d} : executed'[e] = executed[e]
    BY <1>1, <2>1
  <2> HIDE DEF q
  <2>3. q \in Requests /\ q \in Range(handed[d]) /\ q \notin Range(executed[d])
    BY <1>1, <1>4 DEF ExecutedAt, q
  <2>4. /\ Range(executed'[d]) = Range(executed[d]) \cup {q}
        /\ IsInjective(executed'[d])
    BY <1>1, <2>2, <2>3, AppendRange, AppendInjective DEF ExecutedAt
  <2>5. ExecutedAt(d)'
    BY <1>1, <1>2, <2>3, <2>4 DEF ExecutedAt
  <2>6. \A e \in Devices \ {d} : ExecutedAt(e)'
    BY <1>2, <2>2 DEF ExecutedInv, ExecutedAt
  <2> QED
    BY <2>5, <2>6 DEF ExecutedInv
<1> QED
  BY <1>3, <1>4

\* The registry answers the head of a queue, which nobody was answered before.
LEMMA ServeKeeps ==
    ASSUME TypeOK, AgentsTyped, OnePlace, ExecutedInv, NEW d \in Devices, NEW t \in Times,
           HeartbeatCommand(d, t), CallEnds(d, "answered", Head(pending[d])),
           \A e \in Devices : Range(handed[e]) \subseteq Range(handed'[e])
    PROVE  ExecutedInv'
<1> DEFINE q == Head(pending[d])
<1>1. /\ handed \in [Devices -> Seq(Requests)] /\ pending[d] \in Seq(Requests)
      /\ pending[d] # <<>> /\ handed' = [handed EXCEPT ![d] = Append(@, q)]
  BY DEF TypeOK, HeartbeatCommand
<1>2. q \in Requests /\ q \in Range(pending[d])
  BY <1>1, TailFacts
<1>3. q \notin Range(handed[d])
  BY <1>2 DEF OnePlace, AnsweredOnce, Settled
<1>4. q \in Range(handed'[d])
  <2>1. handed'[d] = Append(handed[d], q)
    BY <1>1
  <2> QED
    BY <1>1, <1>2, <2>1, AppendRange
<1>5. /\ UNCHANGED executed /\ \A e \in Devices \ {d} : call'[e] = call[e]
      /\ call'[d].cmd = q
  BY <1>2, CallEndsFacts DEF CallEnds, A!Stages
<1> HIDE DEF q
<1>6. ExecutedAt(d)'
  BY <1>3, <1>4, <1>5 DEF ExecutedInv, ExecutedAt
<1>7. \A e \in Devices \ {d} : ExecutedAt(e)'
  BY <1>5 DEF ExecutedInv, ExecutedAt
<1> QED
  BY <1>6, <1>7 DEF ExecutedInv

LEMMA ExecutedStep ==
    TypeOK /\ AgentsTyped /\ OnePlace /\ ExecutedInv /\ [FleetNext]_fleetVars => ExecutedInv'
<1> SUFFICES ASSUME TypeOK, AgentsTyped, OnePlace, ExecutedInv, [FleetNext]_fleetVars
             PROVE  ExecutedInv'
  OBVIOUS
<1>1. \A d \in Devices : Range(handed[d]) \subseteq Range(handed'[d])
  BY FleetStepsTheRegistry, HandedGrows
<1>2. CASE UNCHANGED executed /\ \A d \in Devices : NoNewCommand(d)
  BY <1>1, <1>2, ExecutedUncommanded
<1>3. ASSUME NEW d \in Devices, A!Execute(d), UNCHANGED vars PROVE ExecutedInv'
  BY <1>3, ExecuteKeeps DEF vars, history
<1>4. ASSUME NEW d \in Devices, NEW t \in Times, HeartbeatCommand(d, t),
             CallEnds(d, "answered", Head(pending[d]))
      PROVE  ExecutedInv'
  BY <1>1, <1>4, ServeKeeps
<1> QED
  BY <1>2, <1>3, <1>4, CommandFlow

LEMMA ExecutedInit == FleetInit => ExecutedInv
  BY EmptyFacts, NoCallFacts DEF FleetInit, Init, A!AgentInit, ExecutedInv, ExecutedAt

THEOREM ExecutedAlways == FleetSpec => []ExecutedInv
<1>1. FleetInit => ExecutedInv
  BY ExecutedInit
<1>2. (TypeOK /\ AgentsTyped /\ OnePlace /\ Mirror) /\ ExecutedInv /\ [FleetNext]_fleetVars => ExecutedInv'
  BY ExecutedStep
<1> QED
  BY <1>1, <1>2, RegistryInFleet, PTL DEF FleetSpec

\* No command is executed twice, by one agent or by two, in a fleet of any size:
\* whatever heartbeats are repeated, handled late, answered by a restarted
\* controller or printed by the command line.
THEOREM CommandsRunAtMostOnce == FleetSpec => []ExecutedAtMostOnce
<1>1. OnePlace /\ ExecutedInv => ExecutedAtMostOnce
  <2> SUFFICES ASSUME OnePlace, ExecutedInv, NEW d \in Devices, NEW e \in Devices,
                      NEW i \in DOMAIN executed[d], NEW j \in DOMAIN executed[e],
                      executed[d][i] = executed[e][j]
               PROVE  d = e /\ i = j
    BY DEF ExecutedAtMostOnce
  <2>1. executed[d][i] \in Range(handed[d]) /\ executed[e][j] \in Range(handed[e])
    BY DEF ExecutedInv, ExecutedAt, Range
  <2>2. d = e
    BY <2>1 DEF OnePlace, AnsweredOnce
  <2> QED
    BY <2>2 DEF ExecutedInv, ExecutedAt, IsInjective
<1> QED
  BY <1>1, ExecutedAlways, RegistryInFleet, PTL

----------------------------------------------------------------------------
(* Telemetry.                                                              *)

\* What the step of a behaviour may do to the offline queue of d.
Kept(d) == Range(offline[d]) \subseteq Range(offline'[d]) \cup applied[d] \cup forgotten'[d]

LEMMA AgentKeepsTelemetry ==
    ASSUME AgentsTyped, NEW d \in Devices, A!Step(d) \/ A!Reboot(d), NEW e \in Devices
    PROVE  Kept(e)
<1>1. /\ offline \in [Devices -> Seq(Times)] /\ offline[d] \in Seq(Times)
      /\ forgotten \in [Devices -> SUBSET Times] /\ Fit(d)
  BY FleetAssumption DEF AgentsTyped, A!AgentTypeOK, CallsFit
<1>2. CASE A!FlushAnswered(d)
  <2>1. /\ offline' = [offline EXCEPT ![d] = Tail(@)]
        /\ loop[d] = "flush" /\ call[d].stage = "answered"
    BY <1>2 DEF A!FlushAnswered
  <2>2. offline[d] # <<>> /\ Head(offline[d]) \in applied[d]
    BY <1>1, <2>1 DEF Fit
  <2>3. Range(offline[d]) \subseteq Range(Tail(offline[d])) \cup {Head(offline[d])}
    BY <1>1, <2>2, TailFacts
  <2>4. CASE e = d
    <3>1. offline'[d] = Tail(offline[d])
      BY <1>1, <2>1
    <3> QED
      BY <2>2, <2>3, <2>4, <3>1 DEF Kept
  <2>5. CASE e # d
    BY <1>1, <2>1, <2>5 DEF Kept
  <2> QED
    BY <2>4, <2>5
<1>3. CASE A!SendFailed(d)
  <2>1. A!EnqueueOffline(d, A!Now(d)) /\ A!Now(d) \in Times
    BY <1>3, NowIsATime DEF A!SendFailed
  <2>2. /\ \A f \in Devices \ {d} : offline'[f] = offline[f]
        /\ Range(offline[d]) \subseteq Range(offline'[d]) \cup forgotten'[d]
    BY <2>1, EnqueueOfflineFacts
  <2> QED
    BY <2>2 DEF Kept
<1>4. CASE A!Reboot(d)
  <2>1. /\ offline' = [offline EXCEPT ![d] = <<>>]
        /\ forgotten' = [forgotten EXCEPT ![d] = @ \cup Range(offline[d])]
    BY <1>4 DEF A!Reboot, A!Range, Range
  <2>2. CASE e = d
    <3>1. forgotten'[d] = forgotten[d] \cup Range(offline[d])
      BY <1>1, <2>1
    <3> QED
      BY <2>2, <3>1 DEF Kept
  <2>3. CASE e # d
    BY <1>1, <2>1, <2>3 DEF Kept
  <2> QED
    BY <2>2, <2>3
<1>5. CASE UNCHANGED offline
  BY <1>5 DEF Kept
<1> QED
  BY <1>2, <1>3, <1>4, <1>5
  DEF A!Step, A!FlushPost, A!FlushFailed, A!FlushDone, A!SendPost, A!SendAnswered, A!Execute

\* A payload leaves the offline queue of an agent only after the server has handled
\* it, or because the queue overflowed or the agent died: no lost answer, late
\* heartbeat or crash of the controller takes one away.
THEOREM TelemetryOutlivesFailures == FleetSpec => TelemetryIsKept
<1>1. ASSUME AgentsTyped, [FleetNext]_fleetVars, NEW e \in Devices PROVE Kept(e)
  <2>1. CASE \E d \in Devices : AgentStep(d) \/ AgentReboot(d)
    BY <1>1, <2>1, AgentKeepsTelemetry DEF AgentStep, AgentReboot
  <2>2. CASE UNCHANGED offline
    BY <2>2 DEF Kept
  <2> QED
    BY <1>1, <2>1, <2>2
    DEF FleetNext, Serve, Refuse, Timeout, LoseAnswer, PrintHeartbeat, ServeStray, CallEnds,
        Controller, agentVars, fleetVars
<1>2. AgentsTyped /\ [FleetNext]_fleetVars =>
        [\A d \in Devices : Range(offline[d]) \subseteq
           Range(offline'[d]) \cup applied[d] \cup forgotten'[d]]_fleetVars
  BY <1>1 DEF Kept
<1> QED
  BY <1>2, FleetRunsTheRegistry, PTL DEF FleetSpec, TelemetryIsKept

----------------------------------------------------------------------------
(* The order in which commands are executed.                               *)

Older(S, T) == \A q \in S, r \in T : stamp[q] < stamp[r]

\* What the registry keeps for ExecutedInOrder: the queue is in the order of its
\* requests, and whatever a device was answered is older than what its queue and
\* its pending rows, from which a restart loads the queue, still hold.
QueueOrdered(d) ==
    /\ InOrder(pending[d])
    /\ Older(Range(handed[d]), Range(pending[d]) \cup PendingRows(d))

QueuesOrdered == dbErrors = 0 => \A d \in Devices : QueueOrdered(d)

\* SQLite errors are counted, never forgotten.
LEMMA DbErrorsStay == TypeOK /\ [Next]_vars /\ dbErrors' = 0 => dbErrors = 0 /\ ~DbFails
<1> SUFFICES ASSUME TypeOK, [Next]_vars, dbErrors' = 0 PROVE dbErrors = 0 /\ ~DbFails
  OBVIOUS
<1>1. dbErrors \in Nat
  BY RegistryAssumption DEF TypeOK
<1>2. ~DbFails
  BY <1>1 DEF DbFails
<1>3. UNCHANGED dbErrors
  BY <1>2 DEF Next, Register, RemoveDevice, DeploySkip, QueueCommand, DeployOne, Inserted,
       HeartbeatNoop, HeartbeatCommand, HeartbeatUpsertFails, HeartbeatMarkFails,
       HeartbeatDies, DeployStart, Crash, Restart, DbOk, vars
<1> QED
  BY <1>2, <1>3

\* Queues and rows may shrink.
LEMMA OrderShrinks ==
    ASSUME \A d \in Devices : QueueOrdered(d), UNCHANGED <<stamp, handed>>,
           \A d \in Devices : /\ pending'[d] = pending[d] \/ pending'[d] = <<>>
                              /\ PendingRows(d)' \subseteq PendingRows(d)
    PROVE  \A d \in Devices : QueueOrdered(d)'
<1> SUFFICES ASSUME NEW d \in Devices PROVE QueueOrdered(d)'
  OBVIOUS
<1>1. Range(pending'[d]) \subseteq Range(pending[d])
  BY EmptyFacts
<1>2. InOrder(pending[d])'
  <2>1. CASE pending'[d] = pending[d]
    BY <2>1 DEF QueueOrdered, InOrder
  <2>2. CASE pending'[d] = <<>>
    BY <2>2 DEF InOrder
  <2> QED
    BY <2>1, <2>2
<1> QED
  BY <1>1, <1>2 DEF QueueOrdered, Older

\* A request made now is younger than all others.
LEMMA EnqueueOrdered ==
    ASSUME TypeOK, OnePlace, \A e \in Devices : QueueOrdered(e),
           NEW d \in Devices, NEW q \in Requests, Enqueue(d, q), Inserted(d, q)
    PROVE  \A e \in Devices : QueueOrdered(e)'
<1>1. /\ stamp[q] = 0 /\ stamp' = [stamp EXCEPT ![q] = issued + 1] /\ UNCHANGED handed
      /\ pending' = [pending EXCEPT ![d] = Append(@, q)]
      /\ pending \in [Devices -> Seq(Requests)] /\ handed \in [Devices -> Seq(Requests)]
      /\ issued \in Nat /\ stamp \in [Requests -> 0 .. issued]
  BY DEF Enqueue, TypeOK
<1>2. \A e \in Devices : q \notin Range(pending[e]) /\ q \notin Range(handed[e])
  BY <1>1 DEF OnePlace, UnissuedIsNowhere
<1>3. /\ \A r \in Requests \ {q} : stamp'[r] = stamp[r] /\ stamp[r] < issued + 1
      /\ stamp'[q] = issued + 1
  BY <1>1
<1> SUFFICES ASSUME NEW e \in Devices PROVE QueueOrdered(e)'
  OBVIOUS
<1>4. pending[e] \in Seq(Requests) /\ handed[e] \in Seq(Requests) /\ InOrder(pending[e])
  BY <1>1 DEF QueueOrdered
<1>5. InOrder(pending[e])'
  <2>1. CASE e = d
    <3>1. pending'[e] = Append(pending[e], q)
      BY <1>1, <2>1
    <3> QED
      BY <1>1, <1>2, <1>4, <3>1, AppendInOrder DEF InOrder
  <2>2. CASE e # d
    <3>1. pending'[e] = pending[e]
      BY <1>1, <2>2
    <3>2. \A i \in DOMAIN pending[e] : pending[e][i] \in Requests \ {q}
      BY <1>2, <1>4 DEF Range
    <3> QED
      BY <1>3, <1>4, <3>1, <3>2 DEF InOrder
  <2> QED
    BY <2>1, <2>2
<1>6. Range(pending'[e]) \subseteq Range(pending[e]) \cup {q}
  <2>1. CASE e = d
    <3>1. pending'[e] = Append(pending[e], q)
      BY <1>1, <2>1
    <3> QED
      BY <1>4, <3>1, AppendRange
  <2>2. CASE e # d
    BY <1>1, <2>2
  <2> QED
    BY <2>1, <2>2
<1>7. PendingRows(e)' \subseteq PendingRows(e) \cup {q}
  BY DEF Inserted, PendingRows
<1>8. /\ Range(handed[e]) \subseteq Requests \ {q}
      /\ Range(pending[e]) \cup PendingRows(e) \subseteq Requests
  BY <1>2, <1>4 DEF Range, PendingRows, TypeOK, Row
<1>9. Older(Range(handed[e]), Range(pending[e]) \cup PendingRows(e))'
  BY <1>1, <1>3, <1>6, <1>7, <1>8 DEF QueueOrdered, Older
<1> QED
  BY <1>5, <1>9 DEF QueueOrdered

\* The head of a queue in order is older than what follows it.
LEMMA HeadIsOldest ==
    ASSUME NEW s \in Seq(Requests), s # <<>>, InOrder(s)
    PROVE  \A r \in Range(Tail(s)) : stamp[Head(s)] < stamp[r]
<1>1. /\ Len(s) \in Nat \ {0} /\ DOMAIN s = 1 .. Len(s) /\ Head(s) = s[1]
      /\ DOMAIN Tail(s) = 1 .. Len(s) - 1
      /\ \A i \in 1 .. Len(s) - 1 : Tail(s)[i] = s[i + 1]
  OBVIOUS
<1>2. 1 \in 1 .. Len(s) /\ \A i \in 1 .. Len(s) - 1 : i + 1 \in 1 .. Len(s) /\ 1 < i + 1
  BY <1>1
<1> QED
  BY <1>1, <1>2 DEF InOrder, Range

\* pop(0) answers the oldest request of the queue, and the mark settles its row.
LEMMA CommandOrdered ==
    ASSUME TypeOK, OnePlace, Mirror, dbErrors = 0, \A e \in Devices : QueueOrdered(e),
           NEW d \in Devices, NEW t \in Times, HeartbeatCommand(d, t)
    PROVE  \A e \in Devices : QueueOrdered(e)'
<1> DEFINE q == Head(pending[d])
<1>1. /\ pending[d] # <<>> /\ pending' = [pending EXCEPT ![d] = Tail(@)]
      /\ MarkDelivered(q) /\ UNCHANGED stamp /\ up
      /\ handed' = [handed EXCEPT ![d] = Append(@, q)]
  BY DEF HeartbeatCommand, ApplyHeartbeat
<1>2. /\ pending \in [Devices -> Seq(Requests)] /\ handed \in [Devices -> Seq(Requests)]
      /\ pending[d] \in Seq(Requests) /\ handed[d] \in Seq(Requests)
      /\ pending'[d] = Tail(pending[d]) /\ handed'[d] = Append(handed[d], q)
      /\ \A e \in Devices \ {d} : pending'[e] = pending[e] /\ handed'[e] = handed[e]
  BY <1>1 DEF TypeOK
<1>3. /\ q \in Requests /\ q \in Range(pending[d])
      /\ \A e \in Devices : Range(pending'[e]) \subseteq Range(pending[e])
  BY <1>1, PopFacts
<1>4. /\ \A r \in Range(Tail(pending[d])) : stamp[q] < stamp[r]
      /\ InOrder(Tail(pending[d]))
  <2>1. InOrder(pending[d])
    BY DEF QueueOrdered
  <2> QED
    BY <1>1, <1>2, <2>1, TailInOrder, HeadIsOldest
<1>5. Range(handed'[d]) = Range(handed[d]) \cup {q}
  <2> HIDE DEF q
  <2> QED
    BY <1>2, <1>3, AppendRange
<1>6. \A r \in rows' : r.status = "pending" => r \in rows /\ r.req # q
  <2> HIDE DEF q
  <2> QED
    BY <1>1, <1>3, MarkFacts
<1>7. \A e \in Devices : PendingRows(e) \subseteq Range(pending[e])
  BY <1>1 DEF Mirror, TablesMirrorCache, PendingRows
<1>8. \A e \in Devices : PendingRows(e)' \subseteq PendingRows(e) \ {q}
  BY <1>6 DEF PendingRows
<1> HIDE DEF q
<1>9. QueueOrdered(d)'
  <2>1. InOrder(pending[d])'
    BY <1>1, <1>2, <1>4 DEF InOrder
  <2>2. PendingRows(d)' \subseteq Range(Tail(pending[d]))
    <3>1. Range(pending[d]) \subseteq Range(Tail(pending[d])) \cup {q}
      BY <1>1, <1>2, TailFacts DEF q
    <3> QED
      BY <1>7, <1>8, <3>1
  <2>3. Range(Tail(pending[d])) \subseteq Range(pending[d])
    BY <1>2, <1>3
  <2> QED
    BY <1>1, <1>2, <1>4, <1>5, <2>1, <2>2, <2>3 DEF QueueOrdered, Older
<1>10. ASSUME NEW e \in Devices \ {d} PROVE QueueOrdered(e)'
  <2>1. pending'[e] = pending[e] /\ handed'[e] = handed[e] /\ PendingRows(e)' \subseteq PendingRows(e)
    BY <1>2, <1>8
  <2> QED
    BY <1>1, <2>1 DEF QueueOrdered, Older, InOrder
<1> QED
  BY <1>9, <1>10

\* A restarted controller loads the pending rows in the order of their ids.
LEMMA RestartOrdered ==
    ASSUME \A e \in Devices : QueueOrdered(e), Restart
    PROVE  \A e \in Devices : QueueOrdered(e)'
<1>1. /\ UNCHANGED <<rows, stamp, handed>>
      /\ \A d \in Devices : IF d \in rowDevices THEN Loads(pending'[d], d) ELSE pending'[d] = <<>>
  BY DEF Restart, dbVars, history
<1> SUFFICES ASSUME NEW e \in Devices PROVE QueueOrdered(e)'
  OBVIOUS
<1>2. PendingRows(e)' = PendingRows(e)
  BY <1>1 DEF PendingRows
<1>3. Range(pending'[e]) \subseteq PendingRows(e) /\ InOrder(pending'[e])
  <2>1. CASE e \in rowDevices
    BY <1>1, <2>1 DEF Loads
  <2>2. CASE e \notin rowDevices
    BY <1>1, <2>2, EmptyFacts DEF InOrder
  <2> QED
    BY <2>1, <2>2
<1>4. InOrder(pending[e])'
  BY <1>1, <1>3 DEF InOrder
<1> QED
  BY <1>1, <1>2, <1>3, <1>4 DEF QueueOrdered, Older

LEMMA QueuesOrderedStep ==
    TypeOK /\ OnePlace /\ Mirror /\ QueuesOrdered /\ [Next]_vars => QueuesOrdered'
<1> SUFFICES ASSUME TypeOK, OnePlace, Mirror, QueuesOrdered, [Next]_vars, dbErrors' = 0
             PROVE  \A e \in Devices : QueueOrdered(e)'
  BY DEF QueuesOrdered
<1> USE DEF cacheVars, dbVars, history
<1>1. dbErrors = 0 /\ ~DbFails /\ \A e \in Devices : QueueOrdered(e)
  BY DbErrorsStay DEF QueuesOrdered
<1> DEFINE Goal == \A e \in Devices : QueueOrdered(e)'
<1>2. ASSUME UNCHANGED <<stamp, handed, rows, pending>> PROVE Goal
  BY <1>1, <1>2, OrderShrinks DEF PendingRows
<1>3. ASSUME NEW d \in Devices, Register(d) \/ DeploySkip(d) PROVE Goal
  BY <1>2, <1>3 DEF Register, DeploySkip
<1>4. ASSUME NEW d \in Devices, RemoveDevice(d) PROVE Goal
  <2>1. /\ \A e \in Devices : pending'[e] = pending[e] \/ pending'[e] = <<>>
        /\ UNCHANGED <<stamp, handed>> /\ rows' \subseteq rows
    BY <1>1, <1>4 DEF RemoveDevice, TypeOK, DeleteDevice
  <2>2. \A e \in Devices : PendingRows(e)' \subseteq PendingRows(e)
    BY <2>1 DEF PendingRows
  <2> QED
    BY <1>1, <2>1, <2>2, OrderShrinks
<1>5. ASSUME NEW d \in Devices, NEW q \in Requests, QueueCommand(d, q) \/ DeployOne(d, q) PROVE Goal
  BY <1>1, <1>5, EnqueueOrdered DEF QueueCommand, DeployOne
<1>6. ASSUME NEW d \in Devices, NEW t \in Times, HeartbeatNoop(d, t) PROVE Goal
  BY <1>2, <1>6 DEF HeartbeatNoop, ApplyHeartbeat
<1>7. ASSUME NEW d \in Devices, NEW t \in Times, HeartbeatCommand(d, t) PROVE Goal
  BY <1>1, <1>7, CommandOrdered
<1>8. ASSUME NEW d \in Devices, NEW t \in Times, HeartbeatUpsertFails(d, t) \/ HeartbeatMarkFails(d, t)
      PROVE  Goal
  BY <1>1, <1>8 DEF HeartbeatUpsertFails, HeartbeatMarkFails
<1>9. ASSUME LoseCache, UNCHANGED <<rows, stamp, handed>> PROVE Goal
  <2>1. \A e \in Devices : pending'[e] = <<>> /\ PendingRows(e)' \subseteq PendingRows(e)
    BY <1>9 DEF LoseCache, PendingRows
  <2> QED
    BY <1>1, <1>9, <2>1, OrderShrinks
<1>10. ASSUME NEW d \in Devices, NEW t \in Times, HeartbeatDies(d, t) PROVE Goal
  BY <1>9, <1>10 DEF HeartbeatDies
<1>11. CASE Crash
  BY <1>9, <1>11 DEF Crash
<1>12. CASE Restart
  BY <1>1, <1>12, RestartOrdered
<1>13. ASSUME NEW targets \in SUBSET Devices, DeployStart(targets) PROVE Goal
  BY <1>2, <1>13 DEF DeployStart
<1>14. CASE UNCHANGED vars
  BY <1>2, <1>14 DEF vars
<1> QED
  BY <1>3, <1>4, <1>5, <1>6, <1>7, <1>8, <1>10, <1>11, <1>12, <1>13, <1>14 DEF Next

LEMMA QueuesOrderedAlways == Spec => []QueuesOrdered
<1>1. Init => QueuesOrdered
  BY EmptyFacts DEF Init, QueuesOrdered, QueueOrdered, InOrder, Older
<1>2. TypeOK /\ OnePlace /\ Mirror /\ QueuesOrdered /\ [Next]_vars => QueuesOrdered'
  BY QueuesOrderedStep
<1> QED
  BY <1>1, <1>2, TypeCorrect, OnePlaceAlways, MirrorAlways, PTL DEF Spec

\* The invariant behind ExecutedInOrder: an agent has executed its commands in
\* order, and the one of the answer it has yet to execute is the youngest.
ExecutionAt(d) ==
    /\ InOrder(executed[d])
    /\ call[d].stage = "answered" /\ call[d].cmd # NoCommand =>
          Older(Range(executed[d]), {call[d].cmd})

ExecutionOrdered == dbErrors = 0 => \A d \in Devices : ExecutionAt(d)

LEMMA AppendYoungest ==
    ASSUME NEW s \in Seq(Requests), NEW q \in Requests, InOrder(s), Older(Range(s), {q})
    PROVE  InOrder(Append(s, q))
<1>1. /\ DOMAIN s = 1 .. Len(s) /\ Len(s) \in Nat
      /\ DOMAIN Append(s, q) = 1 .. Len(s) + 1
      /\ \A i \in 1 .. Len(s) : Append(s, q)[i] = s[i]
      /\ Append(s, q)[Len(s) + 1] = q
  OBVIOUS
<1>2. ASSUME NEW i \in 1 .. Len(s) + 1, NEW j \in 1 .. Len(s) + 1, i < j
      PROVE  stamp[Append(s, q)[i]] < stamp[Append(s, q)[j]]
  <2>1. i \in 1 .. Len(s)
    BY <1>1, <1>2
  <2>2. CASE j \in 1 .. Len(s)
    BY <1>1, <1>2, <2>1, <2>2 DEF InOrder
  <2>3. CASE j = Len(s) + 1
    BY <1>1, <2>1, <2>3 DEF Older, Range
  <2> QED
    BY <1>1, <2>2, <2>3
<1> QED
  BY <1>1, <1>2 DEF InOrder

\* A request that was answered keeps the time at which it was made.
LEMMA StampsStay ==
    ASSUME TypeOK, OnePlace, [Next]_vars, NEW d \in Devices, NEW q \in Range(handed[d])
    PROVE  stamp'[q] = stamp[q]
<1>1. q \in Requests /\ stamp[q] # 0 /\ stamp \in [Requests -> 0 .. issued]
  <2>1. handed[d] \in Seq(Requests)
    BY DEF TypeOK
  <2> QED
    BY <2>1 DEF TypeOK, Range, OnePlace, UnissuedIsNowhere
<1>2. ASSUME NEW e \in Devices, NEW r \in Requests, Enqueue(e, r) PROVE stamp'[q] = stamp[q]
  BY <1>1, <1>2 DEF Enqueue
<1>3. CASE UNCHANGED stamp
  BY <1>3
<1> QED
  BY <1>2, <1>3
  DEF Next, Register, RemoveDevice, DeploySkip, QueueCommand, DeployOne, HeartbeatNoop, ApplyHeartbeat,
      HeartbeatCommand, HeartbeatUpsertFails, HeartbeatMarkFails, HeartbeatDies, DeployStart,
      Crash, Restart, history, vars

LEMMA ExecutionStep ==
    /\ TypeOK /\ AgentsTyped /\ OnePlace /\ QueuesOrdered /\ ExecutedInv /\ ExecutionOrdered
    /\ [FleetNext]_fleetVars
    => ExecutionOrdered'
<1> SUFFICES ASSUME TypeOK, AgentsTyped, OnePlace, QueuesOrdered, ExecutedInv, ExecutionOrdered,
                    [FleetNext]_fleetVars, dbErrors' = 0, NEW d \in Devices
             PROVE  ExecutionAt(d)'
  BY DEF ExecutionOrdered
<1>1. /\ [Next]_vars /\ dbErrors = 0 /\ \A e \in Devices : QueueOrdered(e) /\ ExecutionAt(e)
      /\ executed \in [Devices -> Seq(Requests)] /\ executed[d] \in Seq(Requests)
      /\ handed[d] \in Seq(Requests)
  BY FleetStepsTheRegistry, DbErrorsStay
  DEF QueuesOrdered, ExecutionOrdered, AgentsTyped, A!AgentTypeOK, TypeOK
<1>2. /\ Range(executed[d]) \subseteq Range(handed[d])
      /\ \A q \in Range(handed[d]) : stamp'[q] = stamp[q]
  BY <1>1, StampsStay DEF ExecutedInv, ExecutedAt
<1>3. executed'[d] = executed[d] => InOrder(executed[d])'
  <2>1. \A i \in DOMAIN executed[d] : stamp'[executed[d][i]] = stamp[executed[d][i]]
    BY <1>2 DEF Range
  <2> QED
    BY <1>1, <2>1 DEF ExecutionAt, InOrder
<1>4. CASE UNCHANGED executed /\ NoNewCommand(d)
  <2>1. CASE call'[d] = call[d] /\ call[d].stage = "answered" /\ call[d].cmd # NoCommand
    <3>1. call[d].cmd \in Range(handed[d])
      BY <2>1 DEF ExecutedInv, ExecutedAt
    <3> QED
      BY <1>1, <1>2, <1>3, <1>4, <2>1, <3>1 DEF ExecutionAt, Older
  <2> QED
    BY <1>3, <1>4, <2>1 DEF NoNewCommand, ExecutionAt
<1>5. ASSUME NEW e \in Devices, A!Execute(e), UNCHANGED vars PROVE ExecutionAt(d)'
  <2>1. UNCHANGED stamp
    BY <1>5 DEF vars, history
  <2>2. call'[e].stage = "none" /\ (e # d => call'[d] = call[d])
    BY <1>5, HangUpFacts DEF A!Execute
  <2>3. CASE executed'[d] = executed[d]
    BY <1>1, <1>3, <2>1, <2>2, <2>3 DEF ExecutionAt, Older
  <2>4. CASE e = d /\ call[d].cmd # NoCommand
    <3> DEFINE q == call[d].cmd
    <3>1. q \in Requests /\ call[d].stage = "answered"
      BY <1>5, <2>4 DEF A!Execute, AgentsTyped, A!AgentTypeOK, A!Calls, CallsFit, Fit
    <3>2. executed'[d] = Append(executed[d], q)
      BY <1>1, <1>5, <2>4 DEF A!Execute
    <3> HIDE DEF q
    <3>3. InOrder(executed[d]) /\ Older(Range(executed[d]), {q})
      BY <1>1, <2>4, <3>1 DEF ExecutionAt, q
    <3>4. InOrder(Append(executed[d], q))
      BY <1>1, <3>1, <3>3, AppendYoungest
    <3>5. InOrder(executed[d])'
      BY <2>1, <3>2, <3>4 DEF InOrder
    <3> QED
      BY <2>2, <2>4, <3>5 DEF ExecutionAt
  <2> QED
    BY <1>1, <1>5, <2>3, <2>4 DEF A!Execute
<1>6. ASSUME NEW e \in Devices, NEW t \in Times, HeartbeatCommand(e, t),
             CallEnds(e, "answered", Head(pending[e]))
      PROVE  ExecutionAt(d)'
  <2>1. /\ pending[e] \in Seq(Requests) /\ pending[e] # <<>> /\ UNCHANGED <<stamp, executed>>
    BY <1>6 DEF TypeOK, HeartbeatCommand, ApplyHeartbeat, CallEnds
  <2>2. Head(pending[e]) \in Requests /\ Head(pending[e]) \in Range(pending[e])
    BY <2>1, TailFacts
  <2>3. CASE e = d
    <3>1. call'[d].cmd = Head(pending[d])
      BY <1>6, <2>2, <2>3, CallEndsFacts DEF A!Stages
    <3>2. Older(Range(executed[d]), {Head(pending[d])})
      BY <1>1, <1>2, <2>2, <2>3 DEF QueueOrdered, Older
    <3> QED
      BY <1>3, <2>1, <3>1, <3>2 DEF ExecutionAt, Older
  <2>4. CASE e # d
    <3>1. call'[d] = call[d]
      BY <1>6, <2>2, <2>4, CallEndsFacts DEF A!Stages
    <3> QED
      BY <1>1, <1>3, <2>1, <3>1 DEF ExecutionAt, Older
  <2> QED
    BY <2>3, <2>4
<1> QED
  BY <1>4, <1>5, <1>6, CommandFlow

\* Without SQLite errors an agent executes its commands in the order in which they
\* were queued: the registry answers the oldest one, a restart reloads the others in
\* the order of their rows, and an agent has one answer at a time to execute.
THEOREM CommandsRunInOrder == FleetSpec => []ExecutedInOrder
<1>1. FleetInit => ExecutionOrdered
  BY NoCallFacts DEF FleetInit, A!AgentInit, ExecutionOrdered, ExecutionAt, InOrder
<1>2. (TypeOK /\ AgentsTyped /\ OnePlace /\ Mirror) /\ QueuesOrdered /\ ExecutedInv /\ ExecutionOrdered
      /\ [FleetNext]_fleetVars => ExecutionOrdered'
  BY ExecutionStep
<1>3. ExecutionOrdered => ExecutedInOrder
  BY DEF ExecutionOrdered, ExecutionAt, ExecutedInOrder
<1>4. FleetSpec => []QueuesOrdered
  BY FleetRunsTheRegistry, QueuesOrderedAlways, PTL
<1> QED
  BY <1>1, <1>2, <1>3, <1>4, RegistryInFleet, ExecutedAlways, PTL DEF FleetSpec

----------------------------------------------------------------------------
(* While nothing fails.                                                    *)

Calm == faults = 0 /\ crashes = 0 /\ dbErrors = 0

\* The invariant behind NothingLostWithoutFaults: while nothing has failed the
\* controller is up, no heartbeat is late, no agent has a payload in its offline
\* queue (whose answers are not read), and what was answered is executed, or is the
\* command of the answer its agent has yet to execute.
CalmAt(d) ==
    /\ offline[d] = <<>> /\ call[d].stage # "failed"
    /\ Range(handed[d]) \subseteq Range(executed[d]) \cup {call[d].cmd}

CalmInv == Calm => up /\ strays = {} /\ \A d \in Devices : CalmAt(d)

\* What has failed stays failed: the counters only grow.
LEMMA CalmBefore ==
    TypeOK /\ AgentsTyped /\ [FleetNext]_fleetVars /\ Calm' =>
        Calm /\ ~Fault /\ ~DbFails /\ ~LoseCache
<1> SUFFICES ASSUME TypeOK, AgentsTyped, [FleetNext]_fleetVars, Calm'
             PROVE  Calm /\ ~Fault /\ ~DbFails /\ ~LoseCache
  OBVIOUS
<1>1. dbErrors = 0 /\ ~DbFails /\ [Next]_vars
  BY DbErrorsStay, FleetStepsTheRegistry DEF Calm
<1>2. faults \in Nat /\ crashes \in Nat
  BY RegistryAssumption, FleetAssumption DEF TypeOK, AgentsTyped, NetTyped
<1>3. ~Fault /\ ~LoseCache
  BY <1>2 DEF Calm, Fault, LoseCache
<1>4. UNCHANGED crashes
  BY <1>1, <1>3 DEF Next, Register, RemoveDevice, DeploySkip, QueueCommand, DeployOne, Enqueue, HeartbeatNoop,
       HeartbeatCommand, HeartbeatUpsertFails, HeartbeatMarkFails, HeartbeatDies,
       DeployStart, Crash, Restart, vars
<1>5. UNCHANGED faults
  BY <1>3 DEF FleetNext, AgentStep, AgentReboot, Serve, Refuse, Timeout, LoseAnswer, PrintHeartbeat,
       ServeStray, Controller, netVars, fleetVars
<1> QED
  BY <1>1, <1>3, <1>4, <1>5 DEF Calm

\* A step of an agent while nothing fails: nothing is queued, and a command leaves
\* the call only by being executed.
LEMMA CalmAgent ==
    ASSUME TypeOK, AgentsTyped, NEW d \in Devices, A!Step(d), \A e \in Devices : CalmAt(e),
           UNCHANGED handed
    PROVE  \A e \in Devices : CalmAt(e)'
<1>1. /\ Fit(d) /\ CalmAt(d) /\ call[d] \in A!Calls
      /\ executed \in [Devices -> Seq(Requests)] /\ executed[d] \in Seq(Requests)
  BY DEF AgentsTyped, CallsFit, A!AgentTypeOK
<1>2. loop[d] = "flush" => call[d].stage = "none"
  BY <1>1 DEF CalmAt, Fit
<1>3. CASE A!FlushDone(d) \/ A!SendAnswered(d)
  BY <1>3 DEF A!FlushDone, A!SendAnswered, CalmAt
<1>4. CASE A!SendPost(d)
  <2>1. A!Post(d, A!Now(d)) /\ UNCHANGED <<offline, executed>>
    BY <1>4 DEF A!SendPost
  <2>2. /\ \A e \in Devices \ {d} : call'[e] = call[e]
        /\ call[d].stage = "none" /\ call'[d].stage = "request" /\ call'[d].cmd = NoCommand
    BY <2>1, NowIsATime, PostFacts
  <2>3. call[d].cmd = NoCommand
    BY <1>1, <2>2 DEF Fit
  <2> QED
    BY <2>1, <2>2, <2>3 DEF CalmAt
<1>5. CASE A!Execute(d)
  <2>1. /\ UNCHANGED offline
        /\ \A e \in Devices \ {d} : call'[e] = call[e]
        /\ call'[d].stage = "none" /\ call'[d].cmd = NoCommand
    BY <1>5, HangUpFacts DEF A!Execute
  <2>2. \A e \in Devices \ {d} : CalmAt(e)'
    BY <1>1, <1>5, <2>1 DEF A!Execute, CalmAt
  <2>3. CASE call[d].cmd = NoCommand
    BY <1>1, <1>5, <2>1, <2>2, <2>3 DEF A!Execute, CalmAt
  <2>4. CASE call[d].cmd # NoCommand
    <3> DEFINE q == call[d].cmd
    <3>1. q \in Requests /\ executed'[d] = Append(executed[d], q)
      BY <1>1, <1>5, <2>4 DEF A!Execute, A!Calls
    <3> HIDE DEF q
    <3>2. Range(executed'[d]) = Range(executed[d]) \cup {q}
      BY <1>1, <3>1, AppendRange
    <3>3. Range(handed[d]) \subseteq Range(executed[d]) \cup {q}
      BY <1>1 DEF CalmAt, q
    <3> QED
      BY <1>1, <2>1, <2>2, <3>2, <3>3 DEF CalmAt
  <2> QED
    BY <2>3, <2>4
<1> QED
  BY <1>1, <1>2, <1>3, <1>4, <1>5
  DEF A!Step, A!FlushPost, A!FlushAnswered, A!FlushFailed, A!SendFailed, CalmAt

\* An answer while nothing fails: the call has carried no command so far.
LEMMA CalmServe ==
    ASSUME TypeOK, AgentsTyped, NEW d \in Devices, Serve(d), \A e \in Devices : CalmAt(e),
           ~DbFails, ~LoseCache
    PROVE  \A e \in Devices : CalmAt(e)'
<1>1. /\ call[d].stage = "request" /\ call[d].cmd = NoCommand /\ CalmAt(d)
      /\ handed \in [Devices -> Seq(Requests)] /\ pending[d] \in Seq(Requests)
      /\ handed[d] \in Seq(Requests)
  BY DEF Serve, Requested, AgentsTyped, CallsFit, Fit, TypeOK
<1>2. Range(handed[d]) \subseteq Range(executed[d])
  <2>1. NoCommand \notin Range(handed[d])
    BY <1>1, FleetAssumption DEF Range
  <2> QED
    BY <1>1, <2>1 DEF CalmAt
<1>3. CASE HeartbeatNoop(d, call[d].time) /\ CallEnds(d, "answered", NoCommand)
  <2>1. /\ \A e \in Devices \ {d} : call'[e] = call[e]
        /\ call'[d].stage = "answered"
    BY <1>3, CallEndsFacts DEF A!Stages
  <2>2. UNCHANGED <<handed, offline, executed>>
    BY <1>3 DEF HeartbeatNoop, CallEnds
  <2> QED
    BY <1>1, <1>2, <2>1, <2>2 DEF CalmAt
<1>4. CASE HeartbeatCommand(d, call[d].time) /\ CallEnds(d, "answered", Head(pending[d]))
  <2> DEFINE q == Head(pending[d])
  <2>1. /\ pending[d] # <<>> /\ handed' = [handed EXCEPT ![d] = Append(@, q)]
        /\ UNCHANGED <<offline, executed>>
    BY <1>4 DEF HeartbeatCommand, CallEnds
  <2>2. q \in Requests
    BY <1>1, <2>1, TailFacts
  <2>3. /\ \A e \in Devices \ {d} : call'[e] = call[e]
        /\ call'[d].stage = "answered" /\ call'[d].cmd = q
    BY <1>4, <2>2, CallEndsFacts DEF A!Stages
  <2>4. handed'[d] = Append(handed[d], q) /\ \A e \in Devices \ {d} : handed'[e] = handed[e]
    BY <1>1, <2>1
  <2> HIDE DEF q
  <2>5. Range(handed'[d]) = Range(handed[d]) \cup {q}
    BY <1>1, <2>2, <2>4, AppendRange
  <2> QED
    BY <1>1, <1>2, <2>1, <2>3, <2>4, <2>5 DEF CalmAt
<1> QED
  BY <1>3, <1>4 DEF Serve, HeartbeatFails, HeartbeatUpsertFails, HeartbeatMarkFails, HeartbeatDies

LEMMA CalmStep ==
    TypeOK /\ AgentsTyped /\ CalmInv /\ [FleetNext]_fleetVars => CalmInv'
<1> SUFFICES ASSUME TypeOK, AgentsTyped, CalmInv, [FleetNext]_fleetVars, Calm'
             PROVE  up' /\ strays' = {} /\ \A d \in Devices : CalmAt(d)'
  BY DEF CalmInv
<1>1. /\ up /\ strays = {} /\ \A d \in Devices : CalmAt(d)
      /\ ~Fault /\ ~DbFails /\ ~LoseCache
  BY CalmBefore DEF CalmInv
<1> DEFINE Goal == up' /\ strays' = {} /\ \A d \in Devices : CalmAt(d)'
<1>2. ASSUME NEW d \in Devices, AgentStep(d) PROVE Goal
  <2>1. A!Step(d) /\ UNCHANGED <<up, strays, handed>>
    BY <1>2 DEF AgentStep, vars, history, netVars
  <2> QED
    BY <1>1, <2>1, CalmAgent
<1>3. ASSUME NEW d \in Devices, Serve(d) PROVE Goal
  <2>1. UNCHANGED <<up, strays>>
    BY <1>1, <1>3 DEF Serve, HeartbeatNoop, HeartbeatCommand, HeartbeatFails, HeartbeatUpsertFails,
         HeartbeatMarkFails, HeartbeatDies
  <2> QED
    BY <1>1, <1>3, <2>1, CalmServe
<1>4. ASSUME NEW d \in Devices
      PROVE  /\ ~AgentReboot(d) /\ ~Refuse(d) /\ ~Timeout(d) /\ ~LoseAnswer(d) /\ ~PrintHeartbeat(d)
             /\ \A t \in Times : ~ServeStray(d, t)
  BY <1>1 DEF AgentReboot, Refuse, Timeout, LoseAnswer, PrintHeartbeat, ServeStray
<1>5. CASE Controller
  <2>1. UNCHANGED <<handed, strays, offline, call, executed>> /\ up'
    BY <1>1, <1>5 DEF Controller, Register, RemoveDevice, DeploySkip, QueueCommand, DeployOne, Enqueue,
         DeployStart, Crash, Restart, history, agentVars, netVars
  <2> QED
    BY <1>1, <2>1 DEF CalmAt
<1>6. CASE UNCHANGED fleetVars
  BY <1>1, <1>6 DEF fleetVars, vars, history, agentVars, netVars, CalmAt
<1> QED
  BY <1>2, <1>3, <1>4, <1>5, <1>6 DEF FleetNext

\* While nothing has failed, no command gets lost between the registry and the
\* agents: what was answered is executed or is about to be.
THEOREM NoCommandIsLost == FleetSpec => []NothingLostWithoutFaults
<1>1. FleetInit => CalmInv
  BY EmptyFacts, NoCallFacts DEF FleetInit, Init, A!AgentInit, CalmInv, CalmAt
<1>2. (TypeOK /\ AgentsTyped /\ OnePlace /\ Mirror) /\ CalmInv /\ [FleetNext]_fleetVars => CalmInv'
  BY CalmStep
<1>3. CalmInv => NothingLostWithoutFaults
  BY DEF CalmInv, CalmAt, Calm, NothingLostWithoutFaults
<1> QED
  BY <1>1, <1>2, <1>3, RegistryInFleet, PTL DEF FleetSpec
=============================================================================
