------------------------------- MODULE Providers -------------------------------
(***************************************************************************)
(* The registry of language model providers and the requests it serves     *)
(* (bmt_ai_os/providers/registry.py, controller/discovery.py,              *)
(* provider_routes.py, openai_compat.py and tool_executor.py).             *)
(*                                                                         *)
(* Requests take turns on one event loop.  They give it up while a         *)
(* provider answers, while it streams and while a tool runs; the injection *)
(* of a persona or of retrieved text does not.  What a provider says is    *)
(* left out, but for whether it asks for a tool.                           *)
(***************************************************************************)
EXTENDS Integers, Sequences, SequencesExt, Folding

CONSTANTS
    Candidates,     \* _CANDIDATE_PORTS: the names discovery looks for, in order
    Requests,       \* requests that may be in progress together
    MaxIters,       \* _MAX_ITERS, the rounds of chat_with_tools
    HistoryLen,     \* maxlen of _health_history
    MaxErrors       \* bound: the error count is not followed further

LLMs == Range(Candidates)

\* No name is listed twice, nor taken for no name.
ASSUME ProvidersAssumption ==
    /\ Candidates \in Seq(LLMs) /\ Len(Candidates) = Cardinality(LLMs) /\ "none" \notin LLMs
    /\ {MaxIters, HistoryLen, MaxErrors} \subseteq Nat \ {0} /\ MaxErrors > HistoryLen

VARIABLES
    order,    \* the names in ProviderRegistry._providers
    active,   \* _active_name
    history,  \* _health_history: for each name whether it was healthy
    errors,   \* _error_state[name]["count"]
    request   \* what each request waits for

registry == <<order, active>>
trend == <<history, errors>>
providerVars == <<registry, trend, request>>

\* names: the providers checked; rounds: of chat_with_tools; status: of the last
\* answer.
Served(status) == [step |-> "idle", names |-> <<>>, rounds |-> 0, status |-> status]

ProvidersInit ==
    /\ order = <<>> /\ active = "none"
    /\ history = [n \in LLMs |-> <<>>]
    /\ errors = [n \in LLMs |-> 0]
    /\ request = [r \in Requests |-> Served(0)]

NoRequest(r) == request[r].step = "idle"
Await(r, step) == request' = [request EXCEPT ![r] = [Served(0) EXCEPT !.step = step]]
Answer(r, status) == request' = [request EXCEPT ![r] = Served(status)]

----------------------------------------------------------------------------
(* ProviderRegistry and its routes.                                        *)

\* The first name that is registered becomes the active one.
Register(names) ==
    /\ order' = order \o Kept(names, LLMs, LLMs \ Range(order))
    /\ active' = IF active = "none" /\ names # <<>> THEN Head(names) ELSE active

\* Faulty: an active provider that is removed stays active.
UnregisterOnly(n) ==
    /\ order' = Kept(order, LLMs, LLMs \ {n})
    /\ UNCHANGED active

Unregister(n) ==
    /\ order' = Kept(order, LLMs, LLMs \ {n})
    /\ active' = IF active # n THEN active ELSE IF order' = <<>> THEN "none" ELSE Head(order')

\* _register_providers at the start, or a provider of a plugin.
RegisterOne(n) == Register(<<n>>) /\ UNCHANGED <<trend, request>>

UnregisterOne(n) == n \in Range(order) /\ Unregister(n) /\ UNCHANGED <<trend, request>>

\* run_discovery.  Nothing is read before the ports have been probed, and
\* nothing awaited after that.
Discover(found) ==
    /\ Register(Kept(Candidates, LLMs, found \ Range(order)))
    /\ UNCHANGED <<trend, request>>

\* A list that does not name exactly the registered providers is refused.
Reorder(names) ==
    /\ Range(names) = Range(order) /\ order' = names
    /\ UNCHANGED <<active, trend, request>>

SetActive(n) ==
    /\ n \in Range(order) /\ active' = n
    /\ UNCHANGED <<order, trend, request>>

\* list_providers reads the names and waits for all of their health checks.
ListStart(r) ==
    /\ NoRequest(r) /\ order # <<>>
    /\ request' = [request EXCEPT ![r].step = "list", ![r].names = order]
    /\ UNCHANGED <<registry, trend>>

\* Faulty: a provider that is healthy again keeps its count.
RecordAll(names, healthy) ==
    /\ history' = [n \in LLMs |-> IF n \notin names THEN history[n] ELSE
                     LET h == Append(history[n], n \in healthy)
                     IN SubSeq(h, IF Len(h) > HistoryLen THEN 2 ELSE 1, Len(h))]
    /\ errors' = [n \in LLMs |-> IF n \in names \ healthy /\ errors[n] < MaxErrors
                                 THEN errors[n] + 1 ELSE errors[n]]

Record(names, healthy) ==
    /\ history' = [n \in LLMs |-> IF n \notin names THEN history[n] ELSE
                     LET h == Append(history[n], n \in healthy)
                     IN SubSeq(h, IF Len(h) > HistoryLen THEN 2 ELSE 1, Len(h))]
    /\ errors' = [n \in LLMs |-> IF n \in healthy THEN 0 ELSE
                    IF n \in names /\ errors[n] < MaxErrors THEN errors[n] + 1 ELSE errors[n]]

ListEnd(r) ==
    /\ request[r].step = "list"
    /\ \E healthy \in SUBSET Range(request[r].names) : Record(Range(request[r].names), healthy)
    /\ Answer(r, 200)
    /\ UNCHANGED registry

----------------------------------------------------------------------------
(* The OpenAI-compatible endpoints.                                        *)

\* A handler up to its call of the active provider.  ProviderError is neither a
\* RuntimeError nor a LookupError, so the answer without a provider is not the 503
\* of the handlers.
Call(r, step) ==
    /\ NoRequest(r)
    /\ IF active = "none" THEN Answer(r, 500) ELSE Await(r, step)
    /\ UNCHANGED <<registry, trend>>

ChatCompletions(r) == Call(r, "call") \/ Call(r, "stream")
Completions(r) == Call(r, "call") \/ Call(r, "stream")
Embeddings(r) == Call(r, "call")
ChatWithTools(r) == Call(r, "tools")

\* list_models catches what get_active raises.
ListModels(r) ==
    /\ NoRequest(r)
    /\ IF active = "none" THEN Answer(r, 200) ELSE Await(r, "call")
    /\ UNCHANGED <<registry, trend>>

\* Errors of the operating system are answered 502 (by list_models, which has an
\* empty list for them, 200); a ProviderError, which is what the clients raise, is
\* not caught here either.
CallFails(r) ==
    /\ request[r].step \in {"call", "tools"}
    /\ Answer(r, 502) \/ Answer(r, 500)
    /\ UNCHANGED <<registry, trend>>

CallAnswers(r) ==
    /\ request[r].step \in {"call", "tools"}
    /\ Answer(r, 200)
    /\ UNCHANGED <<registry, trend>>

\* The status of a stream has been sent when the provider is asked: an error
\* cuts it off without [DONE].
StreamEnds(r) == request[r].step = "stream" /\ Answer(r, 200) /\ UNCHANGED <<registry, trend>>
StreamBreaks(r) == request[r].step = "stream" /\ Answer(r, 0) /\ UNCHANGED <<registry, trend>>

\* chat_with_tools: the reply contains a tool call.
AsksTool(r) ==
    /\ request[r].step = "tools"
    /\ request' = [request EXCEPT ![r].step = "execute"]
    /\ UNCHANGED <<registry, trend>>

\* execute_tool never raises: the text of an error is a result as well.  After the
\* last round the reply that asked for the tool is the answer.
ExecuteTool(r) ==
    /\ request[r].step = "execute"
    /\ IF request[r].rounds + 1 < MaxIters
       THEN request' = [request EXCEPT ![r].rounds = @ + 1, ![r].step = "tools"]
       ELSE Answer(r, 200)
    /\ UNCHANGED <<registry, trend>>

----------------------------------------------------------------------------
(* The routes that ask one provider.                                       *)

\* chat_with_provider and list_provider_models.
AskNamed(r, n) ==
    /\ NoRequest(r)
    /\ IF n \in Range(order) THEN Await(r, "named") ELSE Answer(r, 404)
    /\ UNCHANGED <<registry, trend>>

\* Here a ProviderError is caught, and an unknown model told apart.
NamedAnswers(r) ==
    /\ request[r].step = "named"
    /\ \E status \in {200, 404, 502} : Answer(r, status)
    /\ UNCHANGED <<registry, trend>>

\* get_active_provider: its health check is not recorded.
AskActive(r) ==
    /\ NoRequest(r)
    /\ IF active = "none" THEN Answer(r, 503) ELSE Await(r, "health")
    /\ UNCHANGED <<registry, trend>>

ActiveAnswers(r) == request[r].step = "health" /\ Answer(r, 200) /\ UNCHANGED <<registry, trend>>

ProvidersNext ==
    \/ \E n \in LLMs : RegisterOne(n) \/ UnregisterOne(n) \/ SetActive(n)
    \/ \E found \in SUBSET LLMs : Discover(found)
    \/ \E p \in [DOMAIN order -> DOMAIN order] : Reorder([i \in DOMAIN order |-> order[p[i]]])
    \/ \E r \in Requests :
         \/ ListStart(r) \/ ListEnd(r)
         \/ ChatCompletions(r) \/ Completions(r) \/ Embeddings(r) \/ ChatWithTools(r) \/ ListModels(r)
         \/ CallFails(r) \/ CallAnswers(r) \/ StreamEnds(r) \/ StreamBreaks(r)
         \/ AsksTool(r) \/ ExecuteTool(r)
         \/ NamedAnswers(r) \/ AskActive(r) \/ ActiveAnswers(r)
         \/ \E n \in LLMs : AskNamed(r, n)

ProvidersSpec == ProvidersInit /\ [][ProvidersNext]_providerVars

----------------------------------------------------------------------------
\* The active provider is a registered one.
ProvidersTypeOK ==
    /\ order \in Seq(LLMs) /\ Len(order) = Cardinality(Range(order))
    /\ active = "none" <=> order = <<>>
    /\ order # <<>> => active \in Range(order)
    /\ \A n \in LLMs : errors[n] \in 0 .. MaxErrors /\ Len(history[n]) <= HistoryLen

\* The health checks of overlapping requests are counted one by one: the error
\* count of a provider is the number of its checks since it was last healthy, as
\* far as the history reaches.
HealthIsCounted ==
    \A n \in LLMs :
        LET h == history[n]
            run == CHOOSE k \in 0 .. Len(h) :
                     /\ \A i \in Len(h) - k + 1 .. Len(h) : ~h[i]
                     /\ k < Len(h) => h[Len(h) - k]
        IN IF run < HistoryLen THEN errors[n] = run ELSE errors[n] >= run

=============================================================================
