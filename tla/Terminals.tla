------------------------------- MODULE Terminals -------------------------------
(***************************************************************************)
(* Terminals over WebSocket: a shell on a pseudo terminal                  *)
(* (bmt_ai_os/controller/terminal_ws.py) and a proxied SSH session         *)
(* (controller/ssh_ws.py).                                                 *)
(*                                                                         *)
(* Both share the default executor of the event loop, whose threads serve  *)
(* jobs in the order in which they are handed in.  A terminal keeps one of *)
(* them in os.read until its shell writes something, and needs another one *)
(* to write what the client types; an SSH session needs one to connect,    *)
(* and for reads that do not block.                                        *)
(*                                                                         *)
(* A client's message is "typed" when its bytes, or its text that is no    *)
(* JSON, go to the shell; "control" when its text is a JSON object, which  *)
(* the handler keeps to itself; "json" when its text is another JSON value *)
(* (a 5 typed alone) or a resize without numbers, at which _read_ws ends   *)
(* with an exception.                                                      *)
(***************************************************************************)
EXTENDS Integers, Sequences, SequencesExt, FiniteSets

CONSTANTS
    PtySessions, SshSessions,  \* the connections clients make, each one once
    Workers,                   \* threads of the executor: min(32, cpus + 4)
    MaxInput                   \* bound: the messages of any two clients together

ASSUME TerminalsAssumption ==
    Workers \in Nat \ {0} /\ MaxInput \in Nat /\ PtySessions \cap SshSessions = {}

Sessions == PtySessions \cup SshSessions

VARIABLES
    step,     \* where the handler of each connection is
    client,   \* external: the client is connected
    sent,     \* external: the kinds of the messages the client has sent
    taken,    \* how many of them _read_ws has received
    got,      \* external: which of them the shell has received
    shell,    \* external: the shell, or the remote one
    output,   \* external: there is output to read
    queue,    \* the executor's jobs waiting for a thread
    running   \* the executor's jobs that have one

input == <<sent, taken, got>>
executor == <<queue, running>>
termVars == <<step, client, input, shell, output, executor>>

Kinds == {"typed", "control", "json"}

Job(s, op) == [session |-> s, op |-> op]

TermInit ==
    /\ step = [s \in Sessions |-> "none"] /\ client = [s \in Sessions |-> FALSE]
    /\ sent = [s \in Sessions |-> <<>>] /\ got = sent /\ taken = [s \in Sessions |-> 0]
    /\ shell = [s \in Sessions |-> "none"] /\ output = [s \in Sessions |-> FALSE]
    /\ queue = <<>> /\ running = {}

----------------------------------------------------------------------------
(* The clients and the shells.                                             *)

ClientSends(s) ==
    /\ client[s] /\ step[s] = "open" /\ Len(sent[s]) < MaxInput
    /\ \A t \in Sessions \ {s} : Len(sent[s]) + Len(sent[t]) < MaxInput
    /\ \E kind \in Kinds : sent' = [sent EXCEPT ![s] = Append(@, kind)]
    /\ UNCHANGED <<step, client, taken, got, shell, output, executor>>

ClientLeaves(s) ==
    /\ client[s] /\ client' = [client EXCEPT ![s] = FALSE]
    /\ UNCHANGED <<step, input, shell, output, executor>>

\* What runs in a terminal prints something.
ShellPrints(s) ==
    /\ shell[s] \in {"running", "held"}
    /\ output' = [output EXCEPT ![s] = TRUE]
    /\ UNCHANGED <<step, client, input, shell, executor>>

\* A shell that has ended may leave a process behind that keeps its terminal open.
ShellExits(s) ==
    /\ shell[s] = "running"
    /\ \E left \in {"exited", "held"} : shell' = [shell EXCEPT ![s] = left]
    /\ UNCHANGED <<step, client, input, output, executor>>

----------------------------------------------------------------------------
(* Connecting.                                                             *)

\* terminal_ws: a connection without a valid token is closed, as is one for
\* which no shell can be started.  A new shell prints its prompt.
OpenPty(s) ==
    /\ s \in PtySessions /\ step[s] = "none"
    /\ \/ /\ step' = [step EXCEPT ![s] = "open"] /\ client' = [client EXCEPT ![s] = TRUE]
          /\ shell' = [shell EXCEPT ![s] = "running"] /\ output' = [output EXCEPT ![s] = TRUE]
          /\ queue' = Append(queue, Job(s, "read"))
       \/ /\ step' = [step EXCEPT ![s] = "closed"]
          /\ UNCHANGED <<client, shell, output, queue>>
    /\ UNCHANGED <<input, running>>

\* ssh_ws up to the connection; the wait for a password ends after 30 s.
OpenSsh(s) ==
    /\ s \in SshSessions /\ step[s] = "none"
    /\ \/ /\ step' = [step EXCEPT ![s] = "connecting"] /\ client' = [client EXCEPT ![s] = TRUE]
          /\ queue' = Append(queue, Job(s, "connect"))
       \/ /\ step' = [step EXCEPT ![s] = "closed"]
          /\ UNCHANGED <<client, queue>>
    /\ UNCHANGED <<input, shell, output, running>>

SshConnects(s) ==
    /\ Job(s, "connect") \in running
    /\ running' = running \ {Job(s, "connect")}
    /\ \/ /\ step' = [step EXCEPT ![s] = "open"] /\ shell' = [shell EXCEPT ![s] = "running"]
          /\ output' = [output EXCEPT ![s] = TRUE] /\ queue' = Append(queue, Job(s, "read"))
       \/ /\ step' = [step EXCEPT ![s] = "closed"] /\ UNCHANGED <<shell, output, queue>>
    /\ UNCHANGED <<client, input>>

----------------------------------------------------------------------------
(* The executor.                                                           *)

StartJob ==
    /\ queue # <<>> /\ Cardinality(running) < Workers
    /\ running' = running \cup {Head(queue)} /\ queue' = Tail(queue)
    /\ UNCHANGED <<step, client, input, shell, output>>

\* Both reads end without data when the shell is gone; that of an SSH session
\* also when there is nothing to read, and is tried again after 10 ms.  What was
\* read cannot be sent to a client that has left, which ends the reader.
ReadEnds(s) ==
    LET more == output[s] \/ (s \in SshSessions /\ shell[s] = "running")
        ends == shell[s] = "exited" \/ (s \in SshSessions /\ shell[s] = "held")
    IN /\ Job(s, "read") \in running
       /\ more \/ ends
       /\ running' = running \ {Job(s, "read")}
       /\ output' = [output EXCEPT ![s] = FALSE]
       /\ \/ step[s] # "open" /\ UNCHANGED <<queue, step>>
          \/ /\ step[s] = "open" /\ more
             /\ queue' = Append(queue, Job(s, "read")) /\ UNCHANGED step
          \/ /\ step[s] = "open" /\ (~more \/ (output[s] /\ ~client[s]))
             /\ step' = [step EXCEPT ![s] = "closing"] /\ UNCHANGED queue
    /\ UNCHANGED <<client, input, shell>>

Writing(s) == Job(s, "write") \in running \cup {queue[i] : i \in DOMAIN queue}

\* Faulty: the next message is taken before the last one has been written.
ReadyForNext(s) == TRUE

\* Faulty: a lock on the terminal keeps a write waiting until a read is over.
ReadyWithLock(s) == ~Writing(s) /\ Job(s, "read") \notin running

\* _read_ws awaits the write of a message before it receives the next one.
ReadyForInput(s) == ~Writing(s)

\* A message to an SSH session is written without the executor, and dropped when
\* the channel does not take it.
Forward(s) ==
    \/ /\ s \in PtySessions /\ queue' = Append(queue, Job(s, "write"))
       /\ UNCHANGED <<got, output>>
    \/ /\ s \in SshSessions /\ UNCHANGED queue
       /\ \/ /\ got' = [got EXCEPT ![s] = Append(@, taken'[s])]
             /\ output' = [output EXCEPT ![s] = shell[s] = "running"]
          \/ UNCHANGED <<got, output>>

\* Faulty: control messages are written as well.
ForwardAll(s, kind) == kind # "json" /\ Forward(s) /\ UNCHANGED step

\* What _read_ws does with a message.
Handle(s, kind) ==
    \/ kind = "typed" /\ Forward(s) /\ UNCHANGED step
    \/ kind = "control" /\ UNCHANGED <<step, queue, got, output>>
    \/ /\ kind = "json" /\ step' = [step EXCEPT ![s] = "closing"]
       /\ UNCHANGED <<queue, got, output>>

TakeInput(s) ==
    /\ step[s] = "open" /\ taken[s] < Len(sent[s]) /\ ReadyForInput(s)
    /\ taken' = [taken EXCEPT ![s] = @ + 1]
    /\ Handle(s, sent[s][taken'[s]])
    /\ UNCHANGED <<client, sent, shell, running>>

\* os.write takes what _read_ws received last, and the terminal echoes it.  An error
\* ends _read_ws.
WriteEnds(s) ==
    /\ Job(s, "write") \in running
    /\ running' = running \ {Job(s, "write")}
    /\ IF shell[s] # "exited"
       THEN /\ got' = [got EXCEPT ![s] = Append(@, taken[s])]
            /\ output' = [output EXCEPT ![s] = TRUE] /\ UNCHANGED step
       ELSE /\ step' = [step EXCEPT ![s] = IF @ = "open" THEN "closing" ELSE @]
            /\ UNCHANGED <<got, output>>
    /\ UNCHANGED <<client, sent, taken, shell, queue>>

\* _read_ws receives the disconnect when it has taken what came before.
NoticeLeft(s) ==
    /\ step[s] = "open" /\ ~client[s] /\ taken[s] = Len(sent[s]) /\ ~Writing(s)
    /\ step' = [step EXCEPT ![s] = "closing"]
    /\ UNCHANGED <<client, input, shell, output, executor>>

----------------------------------------------------------------------------
(* The finally block.                                                      *)

\* terminate, and kill after 3 s; closing an SSH client ends the remote shell.
Stopped(s) == IF shell[s] = "running" THEN {"exited", "held"} ELSE {shell[s]}

\* Both tasks are cancelled.  That withdraws the job a task waits for, if no thread
\* has begun with it yet; one that has begun keeps its thread.
Close(s) ==
    /\ step[s] = "closing" /\ step' = [step EXCEPT ![s] = "closed"]
    /\ queue' = RemoveFirst(RemoveFirst(queue, Job(s, "read")), Job(s, "write"))
    /\ client' = [client EXCEPT ![s] = FALSE]
    /\ \E left \in Stopped(s) : shell' = [shell EXCEPT ![s] = left]
    /\ UNCHANGED <<input, output, running>>

\* Every connection has been closed.
AllClosed == (\A s \in Sessions : step[s] = "closed") /\ UNCHANGED termVars

TermNext ==
    \/ StartJob \/ AllClosed
    \/ \E s \in Sessions :
         \/ ClientSends(s) \/ ClientLeaves(s) \/ ShellPrints(s) \/ ShellExits(s)
         \/ OpenPty(s) \/ OpenSsh(s) \/ SshConnects(s)
         \/ ReadEnds(s) \/ WriteEnds(s) \/ TakeInput(s) \/ NoticeLeft(s) \/ Close(s)

TermSpec == TermInit /\ [][TermNext]_termVars

\* The threads of the executor and the event loop run; clients and shells may do
\* nothing.
TermFairness ==
    /\ WF_termVars(StartJob)
    /\ \A s \in Sessions :
         /\ WF_termVars(SshConnects(s)) /\ WF_termVars(ReadEnds(s))
         /\ WF_termVars(WriteEnds(s)) /\ WF_termVars(TakeInput(s))

TermFairSpec == TermSpec /\ TermFairness

----------------------------------------------------------------------------
TermTypeOK ==
    /\ step \in [Sessions -> {"none", "connecting", "open", "closing", "closed"}]
    /\ shell \in [Sessions -> {"none", "running", "exited", "held"}]
    /\ Cardinality(running) <= Workers
    /\ \A s \in Sessions :
         sent[s] \in Seq(Kinds) /\ taken[s] <= Len(sent[s]) /\ Len(sent[s]) <= MaxInput

\* What the connection's shell has of the messages its client sent: only what was
\* typed, in its order and nothing twice; and while the connection is open nothing
\* that was typed into a terminal is missing but what a thread is still to write.
\* (An SSH channel that takes no data loses it.)
InputIsOrderly(s) ==
    /\ \A i \in DOMAIN got[s] : sent[s][got[s][i]] = "typed"
    /\ \A i, j \in DOMAIN got[s] : i < j => got[s][i] < got[s][j]
    /\ s \in PtySessions /\ step[s] = "open" =>
         \A n \in 1 .. taken[s] :
            sent[s][n] = "typed" => n \in Range(got[s]) \/ (n = taken[s] /\ Writing(s))

\* A shell receives what its client typed, although the writes are done by threads
\* and control messages come in between; and no shell, and no job that still waits
\* for a thread, outlives its connection.
SessionsAreOrderly ==
    \A s \in Sessions :
        /\ InputIsOrderly(s)
        /\ step[s] = "closed" => /\ shell[s] # "running"
                                 /\ \A i \in DOMAIN queue : queue[i].session # s

\* Every thread of the executor waits for the output of a terminal.
Exhausted == Cardinality({s \in PtySessions : Job(s, "read") \in running}) = Workers

\* What is typed into a terminal reaches its shell in the end, unless the connection
\* ends, or from some time on every thread is held by a terminal, open or closed,
\* that prints nothing.
TypedIsWritten ==
    \A s \in PtySessions, n \in 1 .. MaxInput :
        [](step[s] = "open" /\ n <= Len(sent[s]) /\ sent[s][n] = "typed"
           => <>(n \in Range(got[s]) \/ step[s] # "open" \/ []Exhausted))

=============================================================================
