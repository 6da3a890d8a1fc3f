--------------------------- MODULE Conversations ---------------------------
(***************************************************************************)
(* Conversation history with its full-text index, and the consolidation of *)
(* old conversations into memories (bmt_ai_os/controller/                  *)
(* conversation_routes.py and memory/dreaming.py).                         *)
(*                                                                         *)
(* Conversations and memories live in two SQLite databases.  Every route   *)
(* is one transaction; a consolidation is one transaction per step, in     *)
(* another process, so that conversations are created and deleted between  *)
(* its steps.  The index is an FTS5 table over the content of the table    *)
(* conversations: it keeps words and row numbers only and reads all columns *)
(* from the row of conversations with the same number.                     *)
(*                                                                         *)
(* Bound: one consolidation at a time.  Nothing in the code keeps a second *)
(* one from starting; two that overlap may remember a conversation twice.  *)
(***************************************************************************)
EXTENDS Naturals, FiniteSets, Sequences

CONSTANTS
    Ids,       \* conversation ids, in the order in which they are generated
    Titles,    \* words a title consists of
    MaxSize    \* bound on the messages of a conversation

ASSUME ConversationsAssumption == IsFiniteSet(Ids) /\ Ids \subseteq Nat /\ MaxSize \in Nat

VARIABLES
    conv,      \* conversations and messages
    fresh,     \* the ids not generated so far
    index,     \* conversations_fts: the words of each of its rows
    pass,      \* the consolidation under way, one at a time
    memory,    \* consolidated_memories
    size,      \* history: the messages each conversation was created with
    missed     \* history: conversations deleted while a pass had them listed

memoryVars == <<conv, fresh, index, pass, memory, size, missed>>

NoPass == [step |-> "idle", todo |-> {}, done |-> {}, messages |-> 0]

Stored == DOMAIN conv

MemoryInit ==
    /\ conv = <<>>
    /\ fresh = Ids
    /\ index = <<>>
    /\ pass = NoPass
    /\ memory = <<>>
    /\ size = [i \in Ids |-> 0]
    /\ missed = {}

----------------------------------------------------------------------------
(* The routes.                                                             *)

\* SQLite gives a new row the number after the largest one in use.
NextRow == CHOOSE n \in 1 .. Cardinality(Ids) :
               /\ \A i \in Stored : conv[i].row < n
               /\ n = 1 \/ \E i \in Stored : conv[i].row = n - 1

\* An id is the time in milliseconds: a second conversation of the same
\* millisecond is refused by the primary key and leaves no trace.
CreateConversation(i, t, n) ==
    /\ i \in fresh
    /\ fresh' = fresh \ {i}
    /\ conv' = [c \in Stored \cup {i} |->
                  IF c = i THEN [row |-> NextRow, title |-> t, messages |-> n, old |-> FALSE]
                  ELSE conv[c]]
    /\ index' = Append(index, t)
    /\ size' = [size EXCEPT ![i] = n]
    /\ UNCHANGED <<pass, memory, missed>>

\* The row of conversations is deleted first, so the deletion from the index,
\* which looks for the id in that row, finds nothing.
DeleteConversation(i) ==
    /\ i \in Stored
    /\ conv' = [c \in Stored \ {i} |-> conv[c]]
    /\ missed' = IF i \in pass.todo THEN missed \cup {i} ELSE missed
    /\ UNCHANGED <<fresh, index, pass, memory, size>>

\* The rows of the index that have the word.
Matches(t) == {n \in DOMAIN index : index[n] = t}

\* What a search answers; a row that is gone makes SQLite report an error.
Search(t) == {i \in Stored : conv[i].row \in Matches(t)}

\* Nothing updates a conversation once it is created: with time it gets old.
Age(i) ==
    /\ i \in Stored
    /\ conv' = [conv EXCEPT ![i].old = TRUE]
    /\ UNCHANGED <<fresh, index, pass, memory, size, missed>>

----------------------------------------------------------------------------
(* MemoryConsolidator.consolidate                                          *)

FetchOldConversations ==
    /\ pass = NoPass
    /\ pass' = [NoPass EXCEPT !.step = "listed", !.todo = {i \in Stored : conv[i].old}]
    /\ UNCHANGED <<conv, fresh, index, memory, size, missed>>

FetchConsolidatedIds ==
    /\ pass.step = "listed"
    /\ pass' = [pass EXCEPT !.step = "next", !.done = {memory[k].id : k \in DOMAIN memory}]
    /\ UNCHANGED <<conv, fresh, index, memory, size, missed>>

\* Faulty: conversations that were consolidated before are not skipped.
PendingAll == pass.todo

Pending == pass.todo \ pass.done

\* Conversations are taken oldest first.  One that was deleted meanwhile has no
\* messages.
FetchMessages ==
    /\ pass.step = "next"
    /\ \E i \in Pending :
         /\ \A j \in Pending : i <= j
         /\ pass' = [pass EXCEPT !.step = "write", !.todo = Pending,
                                 !.messages = IF i \in Stored THEN conv[i].messages ELSE 0]
    /\ UNCHANGED <<conv, fresh, index, memory, size, missed>>

First == CHOOSE i \in pass.todo : \A j \in pass.todo : i <= j

\* The summary shows the first three messages and the last two.
Sampled(n) == IF n < 5 THEN n ELSE 5

WriteMemory ==
    /\ pass.step = "write"
    /\ memory' = Append(memory, [id |-> First, messages |-> pass.messages, sample |-> Sampled(pass.messages)])
    /\ pass' = [pass EXCEPT !.step = "next", !.todo = @ \ {First}, !.messages = 0]
    /\ UNCHANGED <<conv, fresh, index, size, missed>>

\* The error is noted and the pass goes on.
WriteMemoryFails ==
    /\ pass.step = "write"
    /\ pass' = [pass EXCEPT !.step = "next", !.todo = @ \ {First}, !.messages = 0]
    /\ UNCHANGED <<conv, fresh, index, memory, size, missed>>

PassEnds ==
    /\ pass.step = "next"
    /\ Pending = {}
    /\ pass' = NoPass
    /\ UNCHANGED <<conv, fresh, index, memory, size, missed>>

\* The process that consolidates dies, or cannot read the database.
PassDies ==
    /\ pass # NoPass
    /\ pass' = NoPass
    /\ UNCHANGED <<conv, fresh, index, memory, size, missed>>

MemoryNext ==
    \/ \E i \in Ids :
         \/ /\ \A j \in fresh : i <= j
            /\ \E t \in Titles, n \in 0 .. MaxSize : CreateConversation(i, t, n)
         \/ DeleteConversation(i)
         \/ Age(i)
    \/ FetchOldConversations \/ FetchConsolidatedIds \/ FetchMessages
    \/ WriteMemory \/ WriteMemoryFails \/ PassEnds \/ PassDies

MemorySpec == MemoryInit /\ [][MemoryNext]_memoryVars

----------------------------------------------------------------------------
MemoryTypeOK ==
    /\ Stored \subseteq Ids \ fresh
    /\ \A i, j \in Stored : conv[i].row = conv[j].row => i = j
    /\ pass.step \in {"idle", "listed", "next", "write"}
    /\ pass.todo \subseteq Ids
    /\ \A k \in DOMAIN memory : memory[k].sample <= memory[k].messages

\* A conversation is consolidated at most once, however many passes are made
\* and wherever they are cut off, and its memory covers all its messages unless
\* it was deleted in the course of the pass.
MemoriesAreSound ==
    /\ \A k, l \in DOMAIN memory : memory[k].id = memory[l].id => k = l
    /\ \A k \in DOMAIN memory :
          memory[k].messages = size[memory[k].id] \/ memory[k].id \in missed

\* search_conversations: "Full-text search over conversation titles."  As long as
\* none has been deleted, a search answers exactly the conversations whose title
\* has the word.
SearchesAreExact ==
    Stored = Ids \ fresh => \A t \in Titles : Search(t) = {i \in Stored : conv[i].title = t}

\* Conversations are found and remembered as they are.
HistoryIsSound == SearchesAreExact /\ MemoriesAreSound
=============================================================================
