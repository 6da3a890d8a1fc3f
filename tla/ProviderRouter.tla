--------------------------- MODULE ProviderRouter ---------------------------
(***************************************************************************)
(* The fallback chain of the LLM providers (bmt_ai_os/providers/router.py) *)
(* and its per-provider circuit breakers (providers/circuit_breaker.py).   *)
(*                                                                         *)
(* Requests are coroutines of one event loop.  A coroutine suspends only   *)
(* while it waits for a provider: the breaker's lock is never contended,   *)
(* because nothing is awaited while it is held.  So what a request does    *)
(* between two waits is one action: it records the outcome of its call,    *)
(* skips the providers that are not available and calls the next one.      *)
(*                                                                         *)
(* A provider is its position in fallback_chain, among those that are      *)
(* registered and enabled.                                                 *)
(***************************************************************************)
EXTENDS Naturals, FiniteSets

CONSTANTS
    N,                \* length of the fallback chain
    Requests,         \* requests that may be in progress at once
    FailureThreshold, \* failure_threshold
    HalfOpenMax       \* half_open_max_requests

ASSUME RouterAssumption ==
    /\ N \in Nat
    /\ FailureThreshold \in Nat \ {0}
    /\ HalfOpenMax \in Nat \ {0}

Providers == 1 .. N

VARIABLES
    breaker,   \* the breaker of each provider
    at,        \* the provider each request is waiting for, 0 if for none
    probes,    \* history: the test requests of each half-open breaker
    cancelled  \* history: a request was cancelled while it waited

routerVars == <<breaker, at, probes, cancelled>>

\* cooled: cooldown_seconds have passed since _last_failure_time.  Failures
\* are only compared with the threshold and are not counted beyond it.
Closed == [state |-> "closed", failures |-> 0, cooled |-> TRUE, attempts |-> 0]

RouterInit ==
    /\ breaker = [p \in Providers |-> Closed]
    /\ at = [r \in Requests |-> 0]
    /\ probes = [p \in Providers |-> {}]
    /\ cancelled = FALSE

----------------------------------------------------------------------------
(* ProviderCircuitBreaker                                                  *)

\* Faulty: the attempts of the last half-open period are kept.
ObservedKeepsAttempts(b) ==
    IF b.state = "open" /\ b.cooled THEN [b EXCEPT !.state = "half_open"] ELSE b

\* Reading the property `state` turns a cooled open breaker half open.
Observed(b) ==
    IF b.state = "open" /\ b.cooled THEN [b EXCEPT !.state = "half_open", !.attempts = 0]
    ELSE b

IsAvailable(b) ==
    \/ Observed(b).state = "closed"
    \/ Observed(b).state = "half_open" /\ Observed(b).attempts < HalfOpenMax

\* record_half_open_attempt, before the call.
Tried(b) ==
    IF Observed(b).state = "half_open" THEN [Observed(b) EXCEPT !.attempts = @ + 1]
    ELSE Observed(b)

\* Faulty: a half-open breaker that fails is not opened again.
FailedStaysHalfOpen(b) ==
    [b EXCEPT !.failures = IF @ < FailureThreshold THEN @ + 1 ELSE @,
              !.cooled = FALSE,
              !.state = IF b.state = "closed" /\ b.failures + 1 >= FailureThreshold THEN "open"
                        ELSE @]

\* Faulty: one failure too late.
FailedLate(b) ==
    [b EXCEPT !.failures = IF @ < FailureThreshold THEN @ + 1 ELSE @,
              !.cooled = FALSE,
              !.state = IF @ = "half_open" \/ b.failures >= FailureThreshold THEN "open" ELSE @]

\* record_failure
Failed(b) ==
    [b EXCEPT !.failures = IF @ < FailureThreshold THEN @ + 1 ELSE @,
              !.cooled = FALSE,
              !.state = IF @ = "half_open" \/ b.failures + 1 >= FailureThreshold THEN "open"
                        ELSE @]

\* record_success leaves _last_failure_time alone.
Succeeded(b) == [b EXCEPT !.state = "closed", !.failures = 0, !.attempts = 0]

----------------------------------------------------------------------------
(* ProviderRouter._route                                                   *)

\* A breaker that is not half open has no test requests.
Current(p, r, b) ==
    IF b.state # "half_open" THEN {}
    ELSE IF at'[r] = p THEN probes[p] \cup {r}
    ELSE probes[p] \ {r}

\* r goes on with the providers from position `from` on, finding breakers bs:
\* it calls the first one that is available, or ends when there is none.
Continue(r, bs, from) ==
    LET ready == {p \in Providers : p >= from /\ IsAvailable(bs[p])}
        Called(p) == p \in ready /\ \A q \in ready : p <= q
        Passed(p) == p >= from /\ \A q \in ready : p < q
    IN /\ \/ ready = {} /\ at' = [at EXCEPT ![r] = 0]
          \/ \E p \in ready : Called(p) /\ at' = [at EXCEPT ![r] = p]
       /\ breaker' = [p \in Providers |-> IF Called(p) THEN Tried(bs[p])
                                          ELSE IF Passed(p) THEN Observed(bs[p])
                                          ELSE bs[p]]
       /\ probes' = [p \in Providers |-> Current(p, r, breaker'[p])]
       /\ UNCHANGED cancelled

\* chat or embed
Start(r) == at[r] = 0 /\ Continue(r, breaker, 1)

\* The call raises, times out, or finds its provider unregistered.
CallFails(r) ==
    /\ at[r] # 0
    /\ Continue(r, [breaker EXCEPT ![at[r]] = Failed(@)], at[r] + 1)

CallSucceeds(r) ==
    /\ at[r] # 0
    /\ breaker' = [breaker EXCEPT ![at[r]] = Succeeded(@)]
    /\ probes' = [probes EXCEPT ![at[r]] = {}]
    /\ at' = [at EXCEPT ![r] = 0]
    /\ UNCHANGED cancelled

\* CancelledError is not an Exception: nothing is recorded.
Cancel(r) ==
    /\ at[r] # 0
    /\ at' = [at EXCEPT ![r] = 0]
    /\ probes' = [probes EXCEPT ![at[r]] = @ \ {r}]
    /\ cancelled' = TRUE
    /\ UNCHANGED breaker

----------------------------------------------------------------------------

\* cooldown_seconds pass without a failure of p.
Cool(p) ==
    /\ ~breaker[p].cooled
    /\ breaker' = [breaker EXCEPT ![p].cooled = TRUE]
    /\ UNCHANGED <<at, probes, cancelled>>

\* The metrics read the state of the breaker.
ReadState(p) ==
    /\ breaker' = [breaker EXCEPT ![p] = Observed(@)]
    /\ UNCHANGED <<at, probes, cancelled>>

\* reset
Reset(p) ==
    /\ breaker' = [breaker EXCEPT ![p] = Closed]
    /\ probes' = [probes EXCEPT ![p] = {}]
    /\ UNCHANGED <<at, cancelled>>

RouterNext ==
    \/ \E r \in Requests : Start(r) \/ CallSucceeds(r) \/ CallFails(r) \/ Cancel(r)
    \/ \E p \in Providers : Cool(p) \/ ReadState(p) \/ Reset(p)

\* wait_for ends every call within its timeout, and time passes.
RouterFairness ==
    /\ \A r \in Requests : WF_routerVars(CallSucceeds(r) \/ CallFails(r))
    /\ \A p \in Providers : WF_routerVars(Cool(p))

RouterSpec == RouterInit /\ [][RouterNext]_routerVars /\ RouterFairness

----------------------------------------------------------------------------

\* Every variable stays in its type.
RouterTypeOK ==
    /\ breaker \in [Providers -> [state : {"closed", "open", "half_open"},
                                  failures : 0 .. FailureThreshold,
                                  cooled : BOOLEAN,
                                  attempts : 0 .. HalfOpenMax]]
    /\ at \in [Requests -> 0 .. N]
    /\ probes \in [Providers -> SUBSET Requests]
    /\ cancelled \in BOOLEAN

\* A breaker is closed exactly while it has counted fewer failures than the
\* threshold, also when calls it let through before it opened end after it
\* has opened, cooled or closed again.
ClosedWhileFewCallsFail ==
    \A p \in Providers :
        breaker[p].state = "closed" <=> breaker[p].failures < FailureThreshold

\* Unless a request was cancelled, a half-open breaker that admits no more
\* requests has a test request waiting whose outcome will move it on: it can
\* not be stuck.
ExhaustedIsProbed ==
    ~cancelled =>
        \A p \in Providers :
            breaker[p].state = "half_open" /\ breaker[p].attempts >= HalfOpenMax =>
                \E r \in probes[p] : at[r] = p

\* "seconds to skip an unhealthy provider": a provider is available again and
\* again, unless a request was cancelled.
AvailableAgain ==
    \A p \in Providers : []<>(IsAvailable(breaker[p]) \/ cancelled)
=============================================================================
