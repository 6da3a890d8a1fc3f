------------------------------- MODULE Clients -------------------------------
(***************************************************************************)
(* The clients of the language model services (bmt_ai_os/providers/        *)
(* ollama.py, vllm.py, llamacpp.py, openai_provider.py, groq_provider.py,  *)
(* anthropic_provider.py and gemini_provider.py): which failed requests    *)
(* they repeat, and what a caller gets in the end.  Calls share no more    *)
(* than a pool of connections, so one at a time will do.                   *)
(*                                                                         *)
(* What a request comes to: "ok"; "empty", an answer without embeddings or *)
(* choices; "unknown", status 404; "limited", status 429; "dated", 429     *)
(* with a date in Retry-After; "refused", another 4xx; "broken", 5xx;      *)
(* "cut", an error of the connection, and "late", the total timeout,       *)
(* before the headers have come; "torn" and "slow", the same two while the *)
(* body is read.                                                           *)
(***************************************************************************)
EXTENDS Naturals, Sequences, SequencesExt

CONSTANTS
    Retries,      \* max_retries and _MAX_RETRIES
    MaxTexts      \* bound on the texts of one embedding call

ASSUME ClientsAssumption == Retries \in Nat \ {0} /\ MaxTexts \in Nat \ {0}

Outcomes == {"ok", "empty", "unknown", "limited", "dated", "refused", "broken",
             "cut", "late", "torn", "slow"}

\* An exception of the service or the connection becomes a ProviderError, while
\* the total timeout of aiohttp is a TimeoutError, which nothing translates.
Translated(o) == IF o \in {"late", "slow"} THEN "TimeoutError" ELSE "ProviderError"

----------------------------------------------------------------------------
(* How each client handles its requests.  tries: requests for one text at  *)
(* most; curable: the outcomes after which it asks again; texts: embeddings*)
(* come in one request, one request each, or not at all.                   *)

Ollama == [tries |-> 1, curable |-> {}, texts |-> "batch"]

LlamaCpp == [tries |-> 1, curable |-> {}, texts |-> "batch"]

VLLM == [tries |-> 1, curable |-> {}, texts |-> "batch"]

\* _request_with_retry is over when the headers have come: what happens to the
\* body is not cured.
OpenAI == [tries |-> Retries + 1, curable |-> {"limited", "broken", "cut", "late"},
           texts |-> "batch"]

Groq == [OpenAI EXCEPT !.texts = "none"]

\* A date in retry-after is ignored here.
Anthropic == [tries |-> Retries, curable |-> {"limited", "dated"}, texts |-> "none"]

Gemini == [tries |-> Retries + 1, curable |-> {"limited", "dated"}, texts |-> "each"]

ClientOf == [ollama |-> Ollama, llamacpp |-> LlamaCpp, vllm |-> VLLM, openai |-> OpenAI,
             groq |-> Groq, anthropic |-> Anthropic, gemini |-> Gemini]

ClientNames == DOMAIN ClientOf
Compatible == {"openai", "groq"}

\* The exception of a call whose last request came to o.
Raised(c, o) ==
    IF c \notin Compatible THEN Translated(o)
    ELSE CASE o \in OpenAI.curable -> "ConnectionError"
           [] o = "dated" -> "ValueError"
           [] o = "torn" -> "ClientError"
           [] o = "slow" -> "TimeoutError"
           [] o = "empty" -> "IndexError"
           [] OTHER -> "RuntimeError"

----------------------------------------------------------------------------

VARIABLES
    provider,   \* the client that is called
    talk      \* what it is doing

clientVars == <<provider, talk>>

\* texts: those still to be embedded, 1 for other calls; log: what the requests
\* for the current text came to; other: vLLM's client asks Ollama instead.
Silent == [op |-> "none", step |-> "idle", texts |-> 0, log |-> <<>>, other |-> FALSE,
           result |-> "none"]

Config == ClientOf[provider]

ClientsInit == provider \in ClientNames /\ talk = Silent

Ask(op, n) ==
    /\ talk.step = "idle"
    /\ n = 1 \/ (op = "embed" /\ Config.texts = "each")
    /\ op = "embed" => Config.texts # "none"
    /\ ~(op = "stream" /\ provider \in Compatible)
    /\ talk' = [Silent EXCEPT !.op = op, !.step = "asked", !.texts = n]
    /\ UNCHANGED provider

\* Anthropic and Groq have no embeddings.
NoEmbeddings ==
    /\ talk.step = "idle" /\ Config.texts = "none"
    /\ talk' = [Silent EXCEPT !.op = "embed", !.result = "ProviderError"]
    /\ UNCHANGED provider

\* chat returns the coroutine _stream_chat(...) without awaiting it: the caller
\* iterates over it and fails before anything is sent.
StreamsNothing ==
    /\ talk.step = "idle" /\ provider \in Compatible
    /\ talk' = [Silent EXCEPT !.op = "stream", !.result = "TypeError"]
    /\ UNCHANGED provider

\* An answer counts when its status is 200, there is an embedding in it where one
\* was asked for, and llama-server says it is "ok".  The OpenAI-style clients take
\* the first choice of a chat without looking whether there is one.
Good(o) ==
    \/ o = "ok"
    \/ /\ o = "empty"
       /\ \/ talk.op = "stream"
          \/ talk.op = "chat" /\ provider \notin Compatible
          \/ talk.op = "health" /\ provider # "llamacpp"

\* Faulty: the last attempt is followed by another.
GivesUpLate(o) ==
    talk.op = "stream" \/ o \notin Config.curable \/ Len(talk.log) = Config.tries

\* Streams are not asked for again, nor Gemini's list of models.
GivesUp(o) ==
    \/ talk.op = "stream" \/ (talk.op = "health" /\ provider = "gemini")
    \/ o \notin Config.curable
    \/ Len(talk.log) + 1 = Config.tries

Answered(o) ==
    /\ talk.step = "asked" /\ Good(o)
    /\ talk' = IF talk.op = "stream" THEN [talk EXCEPT !.log = Append(@, o), !.step = "reading"]
               ELSE IF talk.texts > 1 THEN [talk EXCEPT !.texts = @ - 1, !.log = <<>>]
               ELSE [talk EXCEPT !.log = Append(@, o), !.step = "idle", !.texts = 0,
                                 !.result = "answer"]
    /\ UNCHANGED provider

\* The client sleeps, as Retry-After says or for twice as long as the last time,
\* and asks again.  (It may sleep after its last attempt too.)
Backoff(o) ==
    /\ talk.step = "asked" /\ ~Good(o) /\ ~GivesUp(o)
    /\ talk' = [talk EXCEPT !.log = Append(@, o), !.step = "asleep"]
    /\ UNCHANGED provider

AskAgain ==
    /\ talk.step = "asleep"
    /\ talk' = [talk EXCEPT !.step = "asked"]
    /\ UNCHANGED provider

\* VLLMProvider.embed turns to Ollama, but not after a TimeoutError.
TurnsToOllama(o) ==
    provider = "vllm" /\ talk.op = "embed" /\ ~talk.other /\ Raised(provider, o) = "ProviderError"

AskOllama(o) ==
    /\ talk.step = "asked" /\ ~Good(o) /\ TurnsToOllama(o)
    /\ talk' = [talk EXCEPT !.other = TRUE]
    /\ UNCHANGED provider

\* OpenAI's client hands on an empty list of embeddings when it was given a list
\* of texts, and fails with an IndexError when it was given one text.
NothingEmbedded ==
    /\ talk.step = "asked" /\ talk.op = "embed" /\ provider \in Compatible
    /\ talk' = [talk EXCEPT !.log = Append(@, "empty"), !.step = "idle", !.result = "nothing"]
    /\ UNCHANGED provider

\* health_check makes an answer of every exception; that of the OpenAI-style clients
\* does not read the body.
GiveUp(o) ==
    /\ talk.step = "asked" /\ ~Good(o) /\ GivesUp(o) /\ ~TurnsToOllama(o)
    /\ ~(o \in {"torn", "slow"} /\ talk.op = "health" /\ provider \in Compatible)
    /\ talk' = [talk EXCEPT !.log = Append(@, o), !.step = "idle", !.result =
                   IF talk.op = "health" THEN "unhealthy" ELSE Raised(provider, o)]
    /\ UNCHANGED provider

EndOfStream ==
    /\ talk.step = "reading"
    /\ talk' = [talk EXCEPT !.step = "idle", !.texts = 0, !.result = "answer"]
    /\ UNCHANGED provider

\* The stream breaks off after some of it has been delivered.
BrokenStream(o) ==
    /\ talk.step = "reading" /\ o \in {"cut", "late"}
    /\ talk' = [talk EXCEPT !.log = Append(@, o), !.step = "idle", !.result = Raised(provider, o)]
    /\ UNCHANGED provider

ClientsNext ==
    \/ \E op \in {"chat", "stream", "embed", "health"}, n \in 1 .. MaxTexts : Ask(op, n)
    \/ NoEmbeddings \/ StreamsNothing \/ AskAgain \/ NothingEmbedded \/ EndOfStream
    \/ \E o \in Outcomes :
          Answered(o) \/ Backoff(o) \/ AskOllama(o) \/ GiveUp(o) \/ BrokenStream(o)

ClientsSpec == ClientsInit /\ [][ClientsNext]_clientVars

----------------------------------------------------------------------------
\* Every variable stays in its type.
ClientsTypeOK ==
    /\ provider \in ClientNames
    /\ talk.op \in {"none", "chat", "stream", "embed", "health"}
    /\ talk.step \in {"idle", "asked", "asleep", "reading"}
    /\ talk.texts \in 0 .. MaxTexts /\ talk.log \in Seq(Outcomes) /\ talk.other \in BOOLEAN
    /\ talk.result \in {"none", "answer", "nothing", "unhealthy", "ProviderError", "TimeoutError",
                        "ConnectionError", "RuntimeError", "ValueError", "TypeError",
                        "ClientError", "IndexError"}

\* A client asks again only after an outcome that its service may get over, and
\* at most as often as it is told to; a call that succeeds has an answer to every
\* request it was split into, and when it asked for embeddings none of these was
\* empty; and a call that fails has seen an outcome that no repetition cures (for
\* the OpenAI-style clients also an error in the body), or has used all of its
\* attempts.  The empty list that the OpenAI client returns without an error when
\* the service sends no embeddings is no answer here ("nothing"), and that several
\* texts bring one embedding each is looked at by no client.
RetriesAreSound ==
    LET log == talk.log
        once == talk.op = "stream" \/ (talk.op = "health" /\ provider = "gemini")
        limit == IF once THEN 1 ELSE Config.tries
    IN /\ talk.step \in {"asked", "asleep"} => Len(log) < limit
       /\ \A i \in 1 .. Len(log) - 1 :
             IF talk.op = "stream" THEN i = 1 /\ Good(log[i]) ELSE log[i] \in Config.curable
       /\ talk.result = "answer" => /\ talk.texts = 0 /\ Good(Last(log))
                                    /\ talk.op = "embed" => Last(log) = "ok"
       /\ talk.result \notin {"none", "answer"} /\ log # <<>> /\ Last(log) \in Config.curable
             => once \/ Len(log) = limit

=============================================================================
