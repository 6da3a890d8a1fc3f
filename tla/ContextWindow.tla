--------------------------- MODULE ContextWindow ---------------------------
(***************************************************************************)
(* A stored conversation and the context built from it for a model, within *)
(* a budget of tokens (bmt_ai_os/memory/store.py and memory/context.py).   *)
(* A text is the number of its words.                                      *)
(***************************************************************************)
EXTENDS Integers, Sequences, SequencesExt, Folding

CONSTANTS
    Reserve,      \* _SUMMARY_TOKEN_RESERVE
    RecentTurns,  \* recent_turns: the messages kept as they are
    Budgets,      \* values of max_tokens
    MessageWords, \* lengths of a message
    MaxMessages   \* bound on the messages of the conversation

ASSUME ContextAssumption ==
    {Reserve, RecentTurns, MaxMessages} \cup Budgets \cup MessageWords \subseteq Nat

Message == [role : {"system", "user", "summary"}, words : Nat]

VARIABLES
    exists,    \* the conversation has a row
    messages,  \* its messages
    context,   \* the context built from them, if they have not changed since
    budget     \* the budget it was built for, 0 if there is none

contextVars == <<exists, messages, context, budget>>

ContextInit ==
    /\ exists = FALSE /\ messages = <<>>
    /\ context = <<>> /\ budget = 0

----------------------------------------------------------------------------
(* ConversationStore                                                       *)

Forget == context' = <<>> /\ budget' = 0

StoreCreate ==
    /\ ~exists
    /\ exists' = TRUE
    /\ UNCHANGED <<messages, context, budget>>

\* A message for a conversation that does not exist is refused.
AddMessage(role, words) ==
    /\ exists
    /\ Len(messages) < MaxMessages
    /\ messages' = Append(messages, [role |-> role, words |-> words])
    /\ Forget
    /\ UNCHANGED exists

\* The messages go with their conversation.
StoreDelete ==
    /\ exists
    /\ exists' = FALSE
    /\ messages' = <<>>
    /\ Forget

----------------------------------------------------------------------------
(* Tokens: round(words * 1.3), with Python's rounding of halves to even.   *)

Rounded(tenths) ==
    LET q == tenths \div 10
        r == tenths % 10
    IN IF r > 5 \/ (r = 5 /\ q % 2 = 1) THEN q + 1 ELSE q

EstimateTokens(words) == Rounded(13 * words)

MessageTokens(m) == EstimateTokens(m.words) + 4

CountTokens(ms) == Total([m \in Message |-> MessageTokens(m)], ms)

\* The messages of some roles, in their order.
Those(ms, roles) == Kept(ms, Message, {m \in Message : m.role \in roles})

System(ms) == Those(ms, {"system"})
Spoken(ms) == Those(ms, {"user", "summary"})

\* A heading of two words, then each message with its role.
SummaryWords(older) == 2 + Total([m \in Message |-> 1 + m.words], older)

AtMost(a, b) == IF a < b THEN a ELSE b
AtLeast(a, b) == IF a > b THEN a ELSE b

\* The number of words a summary may have.
SummaryLimit(room) == AtLeast(1, (10 * AtMost(Reserve, room \div 3)) \div 13 - 4)

\* The longest suffix that fits; the oldest messages are dropped one by one.
Trimmed(recent, room) ==
    CHOOSE s \in Suffixes(recent) :
        /\ CountTokens(s) <= room \/ s = <<>>
        /\ \A t \in Suffixes(recent) : Len(t) > Len(s) => CountTokens(t) > room

\* The messages but the latest RecentTurns become one summary.
Split(ms) == AtLeast(0, Len(ms) - RecentTurns)

Summary(ms, room) ==
    LET older == SubSeq(ms, 1, Split(ms))
    IN IF older = <<>> THEN <<>>
       ELSE <<[role |-> "summary", words |-> AtMost(SummaryWords(older), SummaryLimit(room))]>>

Recent(ms) == SubSeq(ms, Split(ms) + 1, Len(ms))

\* Faulty: the tokens of the summary are not counted.
CompactUncounted(ms, room) == Summary(ms, room) \o Trimmed(Recent(ms), room)

Compact(ms, room) ==
    Summary(ms, room) \o Trimmed(Recent(ms), room - CountTokens(Summary(ms, room)))

Context(ms, tokens) ==
    LET room == tokens - CountTokens(System(ms))
    IN IF room <= 0 THEN System(ms)
       ELSE IF CountTokens(Spoken(ms)) <= room THEN ms
       ELSE System(ms) \o Compact(Spoken(ms), room)

BuildContext(tokens) ==
    /\ context' = Context(messages, tokens)
    /\ budget' = tokens
    /\ UNCHANGED <<exists, messages>>

ContextNext ==
    \/ StoreCreate \/ StoreDelete
    \/ \E role \in {"system", "user"}, w \in MessageWords : AddMessage(role, w)
    \/ \E b \in Budgets : BuildContext(b)

ContextSpec == ContextInit /\ [][ContextNext]_contextVars

----------------------------------------------------------------------------
ContextTypeOK ==
    /\ exists \in BOOLEAN /\ (~exists => messages = <<>>)
    /\ messages \in Seq([role : {"system", "user"}, words : MessageWords])
    /\ Len(messages) <= MaxMessages
    /\ context \in Seq(Message)
    /\ budget \in Budgets \cup {0}

\* The shortest summary, of one word.
LeastSummary == MessageTokens([role |-> "summary", words |-> 1])

\* A context stays within its budget as soon as that has room for the system
\* messages and the shortest summary; it has all system messages, and what it
\* has of the others are the latest ones, in their order.
ContextFits ==
    /\ budget >= CountTokens(System(messages)) + LeastSummary => CountTokens(context) <= budget
    /\ budget > 0 => System(context) = System(messages)
    /\ Those(context, {"user"}) \in Suffixes(Spoken(messages))
=============================================================================
