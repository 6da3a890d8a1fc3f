----------------------------- MODULE Supervisor -----------------------------
(***************************************************************************)
(* The controller's health thread (bmt_ai_os/controller/main.py,           *)
(* _health_loop and restart_service) and its per-service circuit breakers  *)
(* (controller/health.py).  Each round checks every service and then, in   *)
(* the same order, decides for every failed one whether to restart it.     *)
(*                                                                         *)
(* Time is counted in units of health_interval.  A restart takes up to     *)
(* RestartMax units, while which the breakers of the other services age.   *)
(***************************************************************************)
EXTENDS Integers, Sequences

CONSTANTS
    Services,      \* the names of config.services
    Order,         \* config.services: the order in which they are visited
    MaxRestarts,   \* max_restarts: failed checks before a restart
    Threshold,     \* circuit_breaker_threshold
    ResetTimeout,  \* circuit_breaker_reset
    RestartMax     \* longest `docker compose restart` (its timeout is 120 s)

ASSUME SupervisorAssumption ==
    /\ Order \in Seq(Services)
    /\ \A s \in Services : \E i \in DOMAIN Order : Order[i] = s
    /\ \A i, j \in DOMAIN Order : Order[i] = Order[j] => i = j
    /\ Order # <<>>
    /\ MaxRestarts \in Nat
    /\ Threshold \in Nat \ {0}
    /\ ResetTimeout \in Nat \ {0}
    /\ RestartMax \in Nat

VARIABLES
    responds,      \* external: the service answers its health check with 200
    phase, pos,    \* where the thread is, and at which service
    healthy,       \* results: outcome of this round's checks
    consecutive,   \* _consecutive_failures
    failureCount,  \* failure_count of each breaker
    circuit,       \* state of each breaker
    age,           \* time since last_failure_time, up to ResetTimeout
    attempts       \* history: restarts tried through a closed breaker since
                   \* the service was last healthy

breakerVars == <<failureCount, circuit, age>>
vars == <<responds, phase, pos, healthy, consecutive, breakerVars, attempts>>

\* Counters are only compared with the two thresholds: they stop counting at
\* CountMax, and ages stop at ResetTimeout.
CountMax == Threshold + MaxRestarts
Capped(n, bound) == IF n < bound THEN n ELSE bound

Visited == Order[pos]

Init ==
    /\ responds \in [Services -> BOOLEAN]
    /\ phase = "check" /\ pos = 1
    /\ healthy = [s \in Services |-> TRUE]
    /\ consecutive = [s \in Services |-> 0]
    /\ failureCount = [s \in Services |-> 0]
    /\ circuit = [s \in Services |-> "closed"]
    /\ age = [s \in Services |-> ResetTimeout]
    /\ attempts = [s \in Services |-> 0]

----------------------------------------------------------------------------
(* check_all                                                               *)

\* Go on to the next service, and from the last one to the next phase.
Advance(next) ==
    IF pos < Len(Order) THEN pos' = pos + 1 /\ UNCHANGED phase
    ELSE pos' = 1 /\ phase' = next

RecordSuccess(s) ==
    /\ failureCount' = [failureCount EXCEPT ![s] = 0]
    /\ circuit' = [circuit EXCEPT ![s] = "closed"]
    /\ UNCHANGED age

\* Faulty: one failure too late.
RecordFailureLate(s) ==
    /\ failureCount' = [failureCount EXCEPT ![s] = Capped(@ + 1, CountMax)]
    /\ circuit' = [circuit EXCEPT ![s] = IF failureCount[s] >= Threshold THEN "open" ELSE @]
    /\ age' = [age EXCEPT ![s] = 0]

\* Faulty: the breaker opens when the first restart is due.
RecordFailureEarly(s) ==
    /\ failureCount' = [failureCount EXCEPT ![s] = Capped(@ + 1, CountMax)]
    /\ circuit' = [circuit EXCEPT ![s] = IF failureCount[s] + 1 >= MaxRestarts THEN "open" ELSE @]
    /\ age' = [age EXCEPT ![s] = 0]

\* Every failure restarts the clock, also that of an open breaker.
RecordFailure(s) ==
    /\ failureCount' = [failureCount EXCEPT ![s] = Capped(@ + 1, CountMax)]
    /\ circuit' = [circuit EXCEPT ![s] = IF failureCount[s] + 1 >= Threshold THEN "open" ELSE @]
    /\ age' = [age EXCEPT ![s] = 0]

CheckHealthy ==
    /\ phase = "check"
    /\ responds[Visited]
    /\ healthy' = [healthy EXCEPT ![Visited] = TRUE]
    /\ consecutive' = [consecutive EXCEPT ![Visited] = 0]
    /\ RecordSuccess(Visited)
    /\ attempts' = [attempts EXCEPT ![Visited] = 0]
    /\ Advance("decide")
    /\ UNCHANGED responds

CheckUnhealthy ==
    /\ phase = "check"
    /\ ~responds[Visited]
    /\ healthy' = [healthy EXCEPT ![Visited] = FALSE]
    /\ consecutive' = [consecutive EXCEPT ![Visited] = Capped(@ + 1, CountMax)]
    /\ RecordFailure(Visited)
    /\ Advance("decide")
    /\ UNCHANGED <<responds, attempts>>

----------------------------------------------------------------------------
(* needs_restart, allow_restart and restart_service                        *)

IsDue(s) == ~healthy[s] /\ consecutive[s] >= MaxRestarts

AllowRestart(s) == circuit[s] = "open" => age[s] >= ResetTimeout

NoRestart ==
    /\ phase = "decide"
    /\ ~(IsDue(Visited) /\ AllowRestart(Visited))
    /\ Advance("wait")
    /\ UNCHANGED <<responds, healthy, consecutive, breakerVars, attempts>>

\* needs_restart has said yes: an open breaker becomes half open, and the
\* restart takes some time.
Restarts(s) ==
    /\ phase = "decide"
    /\ IsDue(s) /\ AllowRestart(s)
    /\ circuit' = [circuit EXCEPT ![s] = IF @ = "open" THEN "half_open" ELSE @]
    /\ attempts' = [attempts EXCEPT ![s] = IF circuit[s] = "closed" THEN @ + 1 ELSE @]
    /\ \E n \in 0 .. RestartMax : age' = [v \in Services |-> Capped(age[v] + n, ResetTimeout)]
    /\ UNCHANGED <<responds, healthy, failureCount>>

RestartSucceeds ==
    /\ Restarts(Visited)
    /\ consecutive' = [consecutive EXCEPT ![Visited] = 0]
    /\ Advance("wait")

\* compose reports an error: the failures are kept, the next round tries again.
RestartFails ==
    /\ Restarts(Visited)
    /\ Advance("wait")
    /\ UNCHANGED consecutive

\* compose exceeds its timeout: TimeoutExpired is caught nowhere and ends the
\* thread.
RestartTimesOut ==
    /\ Restarts(Visited)
    /\ phase' = "dead"
    /\ UNCHANGED <<pos, consecutive>>

\* _shutdown_event.wait(timeout=health_interval)
Wait ==
    /\ phase = "wait"
    /\ phase' = "check" /\ pos' = 1
    /\ age' = [s \in Services |-> Capped(age[s] + 1, ResetTimeout)]
    /\ UNCHANGED <<responds, healthy, consecutive, failureCount, circuit, attempts>>

\* Services fail and recover, with or without a restart.
Turn(s) ==
    /\ responds' = [responds EXCEPT ![s] = ~@]
    /\ UNCHANGED <<phase, pos, healthy, consecutive, breakerVars, attempts>>

Thread ==
    \/ CheckHealthy \/ CheckUnhealthy
    \/ NoRestart \/ RestartSucceeds \/ RestartFails \/ RestartTimesOut
    \/ Wait

Next == Thread \/ \E s \in Services : Turn(s)

\* The thread is scheduled; nothing is assumed of the services.
Spec == Init /\ [][Next]_vars /\ WF_vars(Thread)

----------------------------------------------------------------------------

\* Every variable stays in its type, and the two counters of failures, which
\* different events reset, agree: no restart is due to a failure that the
\* breaker does not count.
TypeOK ==
    /\ responds \in [Services -> BOOLEAN] /\ healthy \in [Services -> BOOLEAN]
    /\ phase \in {"check", "decide", "wait", "dead"}
    /\ pos \in DOMAIN Order
    /\ consecutive \in [Services -> 0 .. CountMax]
    /\ failureCount \in [Services -> 0 .. CountMax]
    /\ circuit \in [Services -> {"closed", "open", "half_open"}]
    /\ age \in [Services -> 0 .. ResetTimeout]
    /\ attempts \in [Services -> Nat]
    /\ \A s \in Services : consecutive[s] <= failureCount[s]

\* The breaker is closed exactly while fewer than Threshold checks in a row
\* have failed.  So a half-open breaker never outlives the next check: it
\* allows one test restart, then closes or opens again.
ClosedWhileFewFailures ==
    \A s \in Services : circuit[s] = "closed" <=> failureCount[s] < Threshold

\* "stop restarting a persistently failing service": one outage is answered
\* with at most Threshold - MaxRestarts restarts before the breaker opens,
\* even when compose fails each time.
RestartsAreLimited ==
    \A s \in Services :
        attempts[s] <= IF MaxRestarts < Threshold THEN Threshold - Capped(MaxRestarts, Threshold)
                       ELSE 0

\* A service that keeps failing has been restarted during this outage, if the
\* breaker leaves room for it and the thread lives.
FailingIsRestarted ==
    MaxRestarts < Threshold =>
        \A s \in Services : <>[]~responds[s] => <>[](attempts[s] > 0) \/ <>(phase = "dead")

\* "Seconds before the circuit breaker resets (allows retry)": an open breaker
\* does not stay open for ever (unless the thread has died).
OpenBreakerResets ==
    \A s \in Services : circuit[s] = "open" ~> (circuit[s] # "open" \/ phase = "dead")

\* "periodically check services and auto-restart": the thread goes on.
ThreadSurvives == phase # "dead"
=============================================================================
