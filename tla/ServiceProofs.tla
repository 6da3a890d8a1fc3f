--------------------------- MODULE ServiceProofs ----------------------------
(***************************************************************************)
(* What is proved of the services behind the API: training jobs (module    *)
(* TrainingJobs) and the training pipeline (TrainingPipeline), personas    *)
(* (Personas), conversations and their memories (Conversations), the calls to*)
(* providers (Clients) and their health checks (Providers), for every number*)
(* of jobs, callers, records, presets, conversations, attempts and requests.*)
(*                                                                         *)
(* Where a property is not inductive, the invariant behind it says what the*)
(* steps in progress still rely on: the row an update has read, the records*)
(* prepare_dataset has read so far, the list a consolidation works through,*)
(* the outcomes a call has noted.                                          *)
(***************************************************************************)
EXTENDS TrainingJobs, TrainingPipeline, Personas, Conversations, Clients, Providers, FoldingProofs,
        FiniteSetTheorems, SequenceTheorems, TLAPS

----------------------------------------------------------------------------
(* Training jobs: types.                                                   *)

Row == [status : JobStatus \cup {"none"}, progress : BOOLEAN, started : BOOLEAN, finished : BOOLEAN]

Update == [step : {"idle", "read", "write"}, job : Jobs \cup {"none"},
           want : JobStatus \cup {"none"}, seen : Row]

\* A call in progress is for a job, and wants a status.
JobsTyped ==
    /\ job \in [Jobs -> Row]
    /\ call \in [Callers -> Update]
    /\ \A c \in Callers : call[c].step # "idle" => call[c].job \in Jobs /\ call[c].want \in JobStatus
    /\ raced \subseteq Jobs

LEMMA NothingIsTyped == NoJob \in Row /\ NoUpdate \in Update
<1>1. NoJob \in Row
  BY DEF NoJob, Row
<1> QED
  BY <1>1 DEF NoUpdate, Update

\* What the write of an update makes of the row of its job.
LEMMA WrittenRow ==
    ASSUME JobsTyped, NEW c \in Callers, UpdateWrite(c)
    PROVE  LET j == call[c].job IN
           /\ j \in Jobs /\ job' \in [Jobs -> Row]
           /\ \A k \in Jobs \ {j} : job'[k] = job[k]
           /\ job'[j].status = call[c].want
           /\ job'[j].started = (call[c].seen.started \/ call[c].want = "running")
           /\ job'[j].finished = (call[c].seen.finished \/ call[c].want \in Ended)
<1> DEFINE j == call[c].job
           t == Times(call[c].seen, call[c].want)
<1>1. j \in Jobs /\ job \in [Jobs -> Row] /\ call[c].want \in JobStatus /\ call[c].seen \in Row
  BY DEF UpdateWrite, JobsTyped, Update
<1>2. /\ t.started = (call[c].seen.started \/ call[c].want = "running")
      /\ t.finished = (call[c].seen.finished \/ call[c].want \in Ended)
  BY DEF Times
<1>3. t.started \in BOOLEAN /\ t.finished \in BOOLEAN
  BY <1>1, <1>2 DEF Row
<1> HIDE DEF t
<1>4. job' = [job EXCEPT ![j].status = call[c].want,
                         ![j].started = t.started, ![j].finished = t.finished]
  BY DEF UpdateWrite, t
<1>5. /\ DOMAIN job' = Jobs
      /\ \A k \in Jobs \ {j} : job'[k] = job[k]
      /\ job'[j] = [job[j] EXCEPT !.status = call[c].want,
                                  !.started = t.started, !.finished = t.finished]
  BY <1>1, <1>4
<1>6. job[j] \in Row
  BY <1>1
<1>7. job'[j] \in Row
  BY <1>1, <1>3, <1>5, <1>6 DEF Row
<1>8. /\ job'[j].status = call[c].want
      /\ job'[j].started = t.started /\ job'[j].finished = t.finished
  BY <1>5, <1>6 DEF Row
<1>9. job' \in [Jobs -> Row]
  BY <1>1, <1>4, <1>5, <1>7
<1> QED
  BY <1>1, <1>2, <1>5, <1>8, <1>9

\* A new row is pending and has no times.
LEMMA CreatedRow ==
    ASSUME JobsTyped, CreateJob
    PROVE  /\ job' \in [Jobs -> Row]
           /\ \E n \in Jobs : /\ job[n] = NoJob
                              /\ \A k \in Jobs \ {n} : job'[k] = job[k]
                              /\ job'[n].status = "pending"
                              /\ job'[n].started = FALSE /\ job'[n].finished = FALSE
<1> DEFINE n == CHOOSE j \in {j \in Jobs : job[j] = NoJob} : TRUE
<1>1. n \in Jobs /\ job[n] = NoJob
  BY DEF CreateJob
<1>2. job' = [job EXCEPT ![n].status = "pending"]
  BY DEF CreateJob
<1> HIDE DEF n
<1>3. job \in [Jobs -> Row] /\ job[n] \in Row
  BY <1>1 DEF JobsTyped
<1>4. job'[n] = [job[n] EXCEPT !.status = "pending"] /\ \A k \in Jobs \ {n} : job'[k] = job[k]
  BY <1>1, <1>2, <1>3
<1>5. job'[n] \in Row
  BY <1>3, <1>4 DEF Row, JobStatus
<1>6. /\ job'[n].status = "pending"
      /\ job'[n].started = job[n].started /\ job'[n].finished = job[n].finished
  BY <1>3, <1>4 DEF Row
<1>7. job[n].started = FALSE /\ job[n].finished = FALSE
  BY <1>1 DEF NoJob
<1> QED
  BY <1>1, <1>2, <1>3, <1>4, <1>5, <1>6, <1>7

\* Progress changes nothing else of a row.
LEMMA ProgressedRow ==
    ASSUME JobsTyped, NEW j \in Jobs, UpdateProgress(j)
    PROVE  /\ job' \in [Jobs -> Row]
           /\ \A k \in Jobs : /\ job'[k].status = job[k].status
                              /\ job'[k].started = job[k].started
                              /\ job'[k].finished = job[k].finished
                              /\ job[k] = NoJob => job'[k] = job[k]
<1>1. job \in [Jobs -> Row] /\ job[j] \in Row /\ job[j] # NoJob
  BY DEF JobsTyped, UpdateProgress
<1>2. job'[j] = [job[j] EXCEPT !.progress = TRUE] /\ \A k \in Jobs \ {j} : job'[k] = job[k]
  BY <1>1 DEF UpdateProgress
<1>3. /\ job'[j] \in Row /\ job'[j].status = job[j].status
      /\ job'[j].started = job[j].started /\ job'[j].finished = job[j].finished
  BY <1>1, <1>2 DEF Row
<1>4. job' \in [Jobs -> Row]
  BY <1>1, <1>2, <1>3 DEF UpdateProgress
<1> QED
  BY <1>1, <1>2, <1>3, <1>4

\* What the first step of an update leaves.
LEMMA ReadCall ==
    ASSUME JobsTyped, NEW c \in Callers, UpdateRead(c)
    PROVE  /\ call' \in [Callers -> Update]
           /\ \A d \in Callers \ {c} : call'[d] = call[d]
           /\ call'[c] # NoUpdate =>
                 /\ call'[c].step = "write" /\ call'[c].job = call[c].job
                 /\ call'[c].want = call[c].want /\ call'[c].seen = job[call[c].job]
                 /\ call[c].want \in Transitions(job[call[c].job].status)
<1>1. call \in [Callers -> Update] /\ call[c] \in Update /\ job[call[c].job] \in Row
  BY DEF JobsTyped, UpdateRead
<1>2. CASE call[c].want \in Transitions(job[call[c].job].status)
  <2>1. /\ call'[c] = [call[c] EXCEPT !.step = "write", !.seen = job[call[c].job]]
        /\ \A d \in Callers \ {c} : call'[d] = call[d]
    BY <1>1, <1>2 DEF UpdateRead
  <2>2. call'[c] \in Update
    BY <1>1, <2>1 DEF Update
  <2>3. /\ call'[c].step = "write" /\ call'[c].job = call[c].job
        /\ call'[c].want = call[c].want /\ call'[c].seen = job[call[c].job]
    BY <1>1, <2>1 DEF Update
  <2> QED
    BY <1>1, <1>2, <2>1, <2>2, <2>3 DEF UpdateRead
<1>3. CASE call[c].want \notin Transitions(job[call[c].job].status)
  BY <1>1, <1>3, NothingIsTyped DEF UpdateRead
<1> QED
  BY <1>2, <1>3

\* A call that begins: what it is for, and whether it overlaps another one.
LEMMA BegunCall ==
    ASSUME JobsTyped, NEW c \in Callers, NEW j \in Jobs, NEW want \in JobStatus,
           Begin(c, j, "read", want)
    PROVE  /\ call' \in [Callers -> Update]
           /\ \A d \in Callers \ {c} : call'[d] = call[d]
           /\ call[c] = NoUpdate
           /\ call'[c].step = "read" /\ call'[c].job = j /\ call'[c].want = want
           /\ raced' \subseteq Jobs /\ raced \subseteq raced'
           /\ \A d \in Callers : call[d].job = j => j \in raced'
           /\ job' = job
<1>1. call \in [Callers -> Update] /\ call[c] = NoUpdate /\ NoUpdate \in Update
  BY NothingIsTyped DEF JobsTyped, Begin
<1>2. /\ call'[c] = [NoUpdate EXCEPT !.step = "read", !.job = j, !.want = want]
      /\ \A d \in Callers \ {c} : call'[d] = call[d]
  BY <1>1 DEF Begin
<1>3. /\ call'[c] \in Update
      /\ call'[c].step = "read" /\ call'[c].job = j /\ call'[c].want = want
  BY <1>1, <1>2 DEF Update
<1>4. call' \in [Callers -> Update]
  BY <1>1, <1>2, <1>3 DEF Begin
<1>5. raced' = IF \E d \in Callers : call[d].job = j THEN raced \cup {j} ELSE raced
  BY DEF Begin
<1> QED
  BY <1>1, <1>2, <1>3, <1>4, <1>5 DEF Begin, JobsTyped

LEMMA JobsTypedInit == JobInit => JobsTyped
<1> SUFFICES ASSUME JobInit PROVE JobsTyped
  OBVIOUS
<1>1. \A c \in Callers : call[c].step = "idle"
  BY DEF JobInit, NoUpdate
<1> QED
  BY <1>1, NothingIsTyped DEF JobInit, JobsTyped

LEMMA JobsTypedStep == JobsTyped /\ [JobNext]_jobVars => JobsTyped'
<1> SUFFICES ASSUME JobsTyped, [JobNext]_jobVars PROVE JobsTyped'
  OBVIOUS
<1>1. CASE CreateJob
  BY <1>1, CreatedRow DEF CreateJob, JobsTyped
<1>2. CASE Scrape \/ UNCHANGED jobVars
  BY <1>2 DEF Scrape, jobVars, JobsTyped
<1>3. ASSUME NEW j \in Jobs, UpdateProgress(j) PROVE JobsTyped'
  BY <1>3, ProgressedRow DEF UpdateProgress, JobsTyped
<1>4. ASSUME NEW j \in Jobs, NEW c \in Callers, NEW s \in JobStatus, Begin(c, j, "read", s)
      PROVE  JobsTyped'
  BY <1>4, BegunCall DEF JobsTyped
<1>5. ASSUME NEW c \in Callers, UpdateRead(c) PROVE JobsTyped'
  <2>1. call'[c].step # "idle" => call'[c].job \in Jobs /\ call'[c].want \in JobStatus
    <3>1. NoUpdate.step = "idle"
      BY DEF NoUpdate
    <3>2. call[c].step # "idle"
      BY <1>5 DEF UpdateRead
    <3> QED
      BY <1>5, <3>1, <3>2, ReadCall DEF JobsTyped
  <2> QED
    BY <1>5, <2>1, ReadCall DEF UpdateRead, JobsTyped
<1>6. ASSUME NEW c \in Callers, UpdateWrite(c) PROVE JobsTyped'
  <2>1. /\ call' = [call EXCEPT ![c] = NoUpdate] /\ raced' = raced
        /\ NoUpdate.step = "idle" /\ NoUpdate \in Update
    BY <1>6, NothingIsTyped DEF UpdateWrite, NoUpdate
  <2>2. job' \in [Jobs -> Row]
    BY <1>6, WrittenRow
  <2> QED
    BY <2>1, <2>2 DEF JobsTyped
<1> QED
  BY <1>1, <1>2, <1>3, <1>4, <1>5, <1>6 DEF JobNext, CancelJob, BeginUpdate, JobStatus

----------------------------------------------------------------------------
(* Training jobs: the times.                                               *)

TimesAgree(row) ==
    /\ row.finished <=> row.status \in Ended
    /\ row.status = "running" => row.started
    /\ row.status \in {"completed", "failed"} => row.started /\ row.finished

\* The invariant behind TimesMatchStatus: an update computes the times from the
\* row it has read, so that row, which may be out of date, must agree as well, and
\* allow the transition.
TimesInv ==
    /\ \A j \in Jobs : TimesAgree(job[j])
    /\ \A c \in Callers : call[c].step = "write" =>
          TimesAgree(call[c].seen) /\ call[c].want \in Transitions(call[c].seen.status)

LEMMA TimesInit == JobInit => TimesInv
  BY DEF JobInit, TimesInv, TimesAgree, NoJob, NoUpdate, Ended

LEMMA TimesStep == JobsTyped /\ TimesInv /\ [JobNext]_jobVars => TimesInv'
<1> SUFFICES ASSUME JobsTyped, TimesInv, [JobNext]_jobVars PROVE TimesInv'
  OBVIOUS
<1>1. CASE CreateJob
  BY <1>1, CreatedRow DEF CreateJob, TimesInv, TimesAgree, Ended
<1>2. CASE Scrape \/ UNCHANGED jobVars
  BY <1>2 DEF Scrape, jobVars, TimesInv
<1>3. ASSUME NEW j \in Jobs, UpdateProgress(j) PROVE TimesInv'
  BY <1>3, ProgressedRow DEF UpdateProgress, TimesInv, TimesAgree
<1>4. ASSUME NEW j \in Jobs, NEW c \in Callers, NEW s \in JobStatus, Begin(c, j, "read", s)
      PROVE  TimesInv'
  BY <1>4, BegunCall DEF TimesInv
<1>5. ASSUME NEW c \in Callers, UpdateRead(c) PROVE TimesInv'
  <2>1. /\ NoUpdate.step = "idle" /\ call[c].job \in Jobs /\ job' = job
    BY <1>5 DEF NoUpdate, UpdateRead, JobsTyped
  <2>2. call'[c].step = "write" =>
           TimesAgree(call'[c].seen) /\ call'[c].want \in Transitions(call'[c].seen.status)
    BY <1>5, <2>1, ReadCall DEF TimesInv
  <2> QED
    BY <1>5, <2>1, <2>2, ReadCall DEF TimesInv
<1>6. ASSUME NEW c \in Callers, UpdateWrite(c) PROVE TimesInv'
  <2> DEFINE j == call[c].job
  <2>1. /\ j \in Jobs
        /\ \A k \in Jobs \ {j} : job'[k] = job[k]
        /\ job'[j].status = call[c].want
        /\ job'[j].started = (call[c].seen.started \/ call[c].want = "running")
        /\ job'[j].finished = (call[c].seen.finished \/ call[c].want \in Ended)
    BY <1>6, WrittenRow
  <2>2. TimesAgree(call[c].seen) /\ call[c].want \in Transitions(call[c].seen.status)
    BY <1>6 DEF TimesInv, UpdateWrite
  <2>3. \/ call[c].seen.status = "pending" /\ call[c].want \in {"running", "cancelled"}
        \/ call[c].seen.status = "running" /\ call[c].want \in Ended
    BY <2>2 DEF Transitions
  <2>4. TimesAgree(job'[j])
    BY <2>1, <2>2, <2>3 DEF TimesAgree, Ended
  <2>5. \A d \in Callers : call'[d] = call[d] \/ call'[d].step = "idle"
    BY <1>6 DEF UpdateWrite, NoUpdate, JobsTyped
  <2> QED
    BY <2>1, <2>4, <2>5 DEF TimesInv
<1> QED
  BY <1>1, <1>2, <1>3, <1>4, <1>5, <1>6 DEF JobNext, CancelJob, BeginUpdate, JobStatus

\* A job has its times exactly when its status says so, for any number of callers
\* whose updates overlap in any way: each writes a row that agrees with itself.
THEOREM JobTimesAgree == JobSpec => []TimesMatchStatus
<1>1. JobInit => JobsTyped /\ TimesInv
  BY JobsTypedInit, TimesInit
<1>2. (JobsTyped /\ TimesInv) /\ [JobNext]_jobVars => (JobsTyped /\ TimesInv)'
  BY JobsTypedStep, TimesStep
<1>3. TimesInv => TimesMatchStatus
  BY DEF TimesInv, TimesMatchStatus, TimesAgree, HasDuration
<1> QED
  BY <1>1, <1>2, <1>3, PTL DEF JobSpec

----------------------------------------------------------------------------
(* Training jobs: their ends.                                              *)

\* The invariant behind EndedStaysEnded: two calls are in progress for one job
\* only when they have overlapped, and otherwise the status an update has read is
\* still the job's when it writes.
SeenIsCurrent ==
    \A c \in Callers : call[c].step # "idle" /\ call[c].job \notin raced =>
        /\ \A d \in Callers \ {c} : call[d].step # "idle" => call[d].job # call[c].job
        /\ call[c].step = "write" => call[c].seen.status = job[call[c].job].status

LEMMA SeenInit == JobInit => SeenIsCurrent
  BY DEF JobInit, SeenIsCurrent, NoUpdate

LEMMA SeenStep ==
    JobsTyped /\ TimesInv /\ SeenIsCurrent /\ [JobNext]_jobVars => SeenIsCurrent'
<1> SUFFICES ASSUME JobsTyped, TimesInv, SeenIsCurrent, [JobNext]_jobVars PROVE SeenIsCurrent'
  OBVIOUS
<1>1. \A c \in Callers : call[c].step = "write" => call[c].seen.status \in {"pending", "running"}
  BY DEF TimesInv, Transitions
\* A status that an update has read is that of a job there is.
<1>2. CASE CreateJob
  <2>1. PICK n \in Jobs : /\ job[n] = NoJob
                          /\ \A k \in Jobs \ {n} : job'[k] = job[k]
    BY <1>2, CreatedRow
  <2>2. job[n].status = "none" /\ call' = call /\ raced' = raced
    BY <1>2, <2>1 DEF NoJob, CreateJob
  <2>3. ASSUME NEW c \in Callers, call[c].step = "write", call[c].job \notin raced
        PROVE  call[c].seen.status = job'[call[c].job].status
    <3>1. call[c].job \in Jobs /\ call[c].seen.status = job[call[c].job].status
      BY <2>3 DEF SeenIsCurrent, JobsTyped
    <3>2. call[c].job # n
      BY <1>1, <2>2, <2>3, <3>1
    <3> QED
      BY <2>1, <3>1, <3>2
  <2> QED
    BY <2>2, <2>3 DEF SeenIsCurrent
<1>3. CASE Scrape \/ UNCHANGED jobVars
  BY <1>3 DEF Scrape, jobVars, SeenIsCurrent
<1>4. ASSUME NEW j \in Jobs, UpdateProgress(j) PROVE SeenIsCurrent'
  <2>1. call' = call /\ raced' = raced /\ \A k \in Jobs : job'[k].status = job[k].status
    BY <1>4, ProgressedRow DEF UpdateProgress
  <2>2. \A c \in Callers : call[c].step = "write" => call[c].job \in Jobs
    BY DEF JobsTyped
  <2> QED
    BY <2>1, <2>2 DEF SeenIsCurrent
<1>5. ASSUME NEW j \in Jobs, NEW c \in Callers, NEW s \in JobStatus, Begin(c, j, "read", s)
      PROVE  SeenIsCurrent'
  <2>1. /\ \A d \in Callers \ {c} : call'[d] = call[d]
        /\ call'[c].step = "read" /\ call'[c].job = j
        /\ raced \subseteq raced' /\ job' = job
        /\ \A d \in Callers : call[d].job = j => j \in raced'
    BY <1>5, BegunCall
  <2>2. ASSUME NEW a \in Callers, call'[a].step # "idle", call'[a].job \notin raced'
        PROVE  /\ \A d \in Callers \ {a} : call'[d].step # "idle" => call'[d].job # call'[a].job
               /\ call'[a].step = "write" => call'[a].seen.status = job'[call'[a].job].status
    <3>1. CASE a = c
      BY <2>1, <2>2, <3>1
    <3>2. CASE a # c
      BY <2>1, <2>2, <3>2 DEF SeenIsCurrent
    <3> QED
      BY <3>1, <3>2
  <2> QED
    BY <2>2 DEF SeenIsCurrent
<1>6. ASSUME NEW c \in Callers, UpdateRead(c) PROVE SeenIsCurrent'
  <2>1. /\ \A d \in Callers \ {c} : call'[d] = call[d]
        /\ call'[c].step # "idle" =>
              /\ call'[c].job = call[c].job /\ call'[c].seen = job[call[c].job]
        /\ call[c].step # "idle" /\ job' = job /\ raced' = raced
    <3>1. NoUpdate.step = "idle"
      BY DEF NoUpdate
    <3>2. call[c].step # "idle" /\ job' = job /\ raced' = raced
      BY <1>6 DEF UpdateRead
    <3>3. /\ \A d \in Callers \ {c} : call'[d] = call[d]
          /\ call'[c] # NoUpdate =>
                call'[c].job = call[c].job /\ call'[c].seen = job[call[c].job]
      BY <1>6, ReadCall
    <3> QED
      BY <3>1, <3>2, <3>3
  <2> QED
    BY <2>1 DEF SeenIsCurrent
\* Only the job of the caller is written, and its call is over.
<1>7. ASSUME NEW c \in Callers, UpdateWrite(c) PROVE SeenIsCurrent'
  <2>1. /\ \A d \in Callers \ {c} : call'[d] = call[d]
        /\ call'[c].step = "idle" /\ raced' = raced /\ call[c].step = "write"
    BY <1>7 DEF UpdateWrite, NoUpdate, JobsTyped
  <2>2. \A k \in Jobs \ {call[c].job} : job'[k] = job[k]
    BY <1>7, WrittenRow
  <2>3. ASSUME NEW d \in Callers \ {c}, call[d].step = "write", call[d].job \notin raced
        PROVE  job'[call[d].job] = job[call[d].job]
    <3>1. call[d].job # call[c].job /\ call[d].job \in Jobs
      BY <2>1, <2>3 DEF SeenIsCurrent, JobsTyped
    <3> QED
      BY <2>2, <3>1
  <2> QED
    BY <2>1, <2>3 DEF SeenIsCurrent
<1> QED
  BY <1>2, <1>3, <1>4, <1>5, <1>6, <1>7 DEF JobNext, CancelJob, BeginUpdate, JobStatus

\* One step keeps the status of a job that has ended.
LEMMA EndedStep ==
    ASSUME JobsTyped, TimesInv, SeenIsCurrent, [JobNext]_jobVars,
           NEW j \in Jobs, job[j].status \in Ended, j \notin raced
    PROVE  job'[j].status = job[j].status
<1>1. CASE CreateJob
  <2>1. PICK n \in Jobs : job[n] = NoJob /\ \A k \in Jobs \ {n} : job'[k] = job[k]
    BY <1>1, CreatedRow
  <2>2. job[n].status \notin Ended
    BY <2>1 DEF NoJob, Ended
  <2> QED
    BY <2>1, <2>2
<1>2. ASSUME NEW k \in Jobs, UpdateProgress(k) PROVE job'[j].status = job[j].status
  BY <1>2, ProgressedRow
<1>3. ASSUME NEW c \in Callers, UpdateWrite(c) PROVE job'[j].status = job[j].status
  <2>1. call[c].step = "write" /\ call[c].seen.status \in {"pending", "running"}
    BY <1>3 DEF UpdateWrite, TimesInv, Transitions
  <2>2. j # call[c].job
    BY <2>1 DEF SeenIsCurrent, Ended
  <2> QED
    BY <1>3, <2>2, WrittenRow
<1>4. CASE job' = job
  BY <1>4
<1> QED
  BY <1>1, <1>2, <1>3, <1>4
  DEF JobNext, CancelJob, BeginUpdate, Begin, UpdateRead, Scrape, jobVars

JobInv == JobsTyped /\ TimesInv /\ SeenIsCurrent

LEMMA JobInvAlways == JobSpec => []JobInv
<1>1. JobInit => JobInv
  BY JobsTypedInit, TimesInit, SeenInit DEF JobInv
<1>2. JobInv /\ [JobNext]_jobVars => JobInv'
  BY JobsTypedStep, TimesStep, SeenStep DEF JobInv
<1> QED
  BY <1>1, <1>2, PTL DEF JobSpec

\* A job that has ended keeps its status while no two updates of it have
\* overlapped, whatever workers and routes ask for.
THEOREM EndsAreFinal == JobSpec => EndedStaysEnded
<1>1. JobInv /\ [JobNext]_jobVars =>
         [\A j \in Jobs : job[j].status \in Ended /\ j \notin raced =>
              job'[j].status = job[j].status]_jobVars
  BY EndedStep DEF JobInv
<1> QED
  BY <1>1, JobInvAlways, PTL DEF JobSpec, EndedStaysEnded

----------------------------------------------------------------------------
(* Training jobs: their counters.                                          *)

\* The jobs that have ended so; only jobs there are can have, and these are finite.
EndedWith(s) == {j \in Jobs : job[j].status = s}
Existing == {j \in Jobs : job[j] # NoJob}

\* The invariant behind EndsAreCountedOnce.
CountersInv ==
    /\ IsFiniteSet(Existing)
    /\ counts \in [Ended -> Nat] /\ exported \in [Ended -> Nat]
    /\ EndsAreCountedOnce

LEMMA CountIsNat ==
    ASSUME IsFiniteSet(Existing), NEW s \in Ended
    PROVE  CountByStatus(s) \in Nat /\ IsFiniteSet(EndedWith(s))
<1>1. EndedWith(s) \in SUBSET Existing
  BY DEF EndedWith, Existing, NoJob, Ended
<1>2. IsFiniteSet(EndedWith(s))
  BY <1>1, FS_Subset
<1>3. Cardinality(EndedWith(s)) \in Nat
  BY <1>2, FS_CardinalityType
<1> QED
  BY <1>2, <1>3 DEF CountByStatus, EndedWith

\* Jobs are created one at a time and never deleted.
LEMMA ExistingStaysFinite ==
    JobsTyped /\ IsFiniteSet(Existing) /\ [JobNext]_jobVars => IsFiniteSet(Existing)'
<1> SUFFICES ASSUME JobsTyped, IsFiniteSet(Existing), [JobNext]_jobVars
             PROVE  IsFiniteSet(Existing')
  OBVIOUS
<1>1. CASE CreateJob
  <2>1. PICK n \in Jobs : \A k \in Jobs \ {n} : job'[k] = job[k]
    BY <1>1, CreatedRow
  <2>2. IsFiniteSet(Existing \cup {n})
    BY FS_AddElement
  <2>3. Existing' \in SUBSET (Existing \cup {n})
    BY <2>1 DEF Existing
  <2> QED
    BY <2>2, <2>3, FS_Subset
<1>2. ASSUME NEW j \in Jobs, UpdateProgress(j) PROVE IsFiniteSet(Existing')
  <2>1. Existing' \in SUBSET Existing
    BY <1>2, ProgressedRow DEF Existing
  <2> QED
    BY <2>1, FS_Subset
<1>3. ASSUME NEW c \in Callers, UpdateWrite(c) PROVE IsFiniteSet(Existing')
  <2>1. IsFiniteSet(Existing \cup {call[c].job})
    BY FS_AddElement
  <2>2. Existing' \in SUBSET (Existing \cup {call[c].job})
    BY <1>3, WrittenRow DEF Existing
  <2> QED
    BY <2>1, <2>2, FS_Subset
<1>4. CASE job' = job
  BY <1>4 DEF Existing
<1> QED
  BY <1>1, <1>2, <1>3, <1>4
  DEF JobNext, CancelJob, BeginUpdate, Begin, UpdateRead, Scrape, jobVars

\* Until updates overlap, a step can only add to the jobs that ended so.
LEMMA CountsGrow ==
    ASSUME JobInv, [JobNext]_jobVars, IsFiniteSet(Existing), raced = {}, NEW s \in Ended
    PROVE  CountByStatus(s) <= CountByStatus(s)'
<1>1. EndedWith(s) \in SUBSET EndedWith(s)'
  BY EndedStep DEF JobInv, EndedWith
<1>2. IsFiniteSet(Existing)'
  BY ExistingStaysFinite DEF JobInv
<1>3. IsFiniteSet(EndedWith(s)')
  <2>1. EndedWith(s)' \in SUBSET (Existing')
    BY DEF EndedWith, Existing, NoJob, Ended
  <2> QED
    BY <1>2, <2>1, FS_Subset
<1>4. Cardinality(EndedWith(s)) <= Cardinality(EndedWith(s)')
  BY <1>1, <1>3, FS_Subset
<1> QED
  BY <1>4 DEF CountByStatus, EndedWith

LEMMA RacedGrows == JobsTyped /\ [JobNext]_jobVars => raced \subseteq raced'
  BY DEF JobNext, CreateJob, Scrape, UpdateProgress, CancelJob, BeginUpdate, Begin, UpdateRead,
         UpdateWrite, jobVars

LEMMA CountersStep == JobInv /\ CountersInv /\ [JobNext]_jobVars => CountersInv'
<1> SUFFICES ASSUME JobInv, CountersInv, [JobNext]_jobVars PROVE CountersInv'
  OBVIOUS
<1>1. IsFiniteSet(Existing) /\ IsFiniteSet(Existing)'
  BY ExistingStaysFinite DEF JobInv, CountersInv
\* A scrape brings both to the number of jobs there are.
<1>2. CASE Scrape
  <2>1. /\ job' = job /\ raced = {} /\ raced' = raced
        /\ counts \in [Ended -> Nat] /\ exported \in [Ended -> Nat]
        /\ \A s \in Ended : exported[s] <= CountByStatus(s) /\ counts[s] = exported[s]
    BY <1>2 DEF Scrape, CountersInv, EndsAreCountedOnce
  <2>2. /\ exported' = [s \in Ended |-> IF CountByStatus(s) > counts[s]
                                        THEN exported[s] + CountByStatus(s) - counts[s]
                                        ELSE exported[s]]
        /\ counts' = [s \in Ended |-> IF CountByStatus(s) > 0 THEN CountByStatus(s) ELSE counts[s]]
    BY <1>2 DEF Scrape, ScrapeCounts
  <2>3. \A s \in Ended : CountByStatus(s) \in Nat /\ CountByStatus(s)' = CountByStatus(s)
    BY <1>1, <2>1, CountIsNat DEF CountByStatus
  <2>4. ASSUME NEW s \in Ended
        PROVE  exported'[s] = CountByStatus(s) /\ counts'[s] = CountByStatus(s)
    <3> HIDE DEF CountByStatus
    <3> DEFINE n == CountByStatus(s)
               x == exported[s]
    <3>1. x \in Nat /\ n \in Nat /\ x <= n /\ counts[s] = x
      BY <2>1, <2>3
    <3>2. /\ exported'[s] = IF n > x THEN x + n - x ELSE x
          /\ counts'[s] = IF n > 0 THEN n ELSE x
      BY <2>2, <3>1
    <3> QED
      BY <3>1, <3>2
  <2>5. counts' \in [Ended -> Nat] /\ exported' \in [Ended -> Nat]
    BY <2>2, <2>3, <2>4
  <2>6. EndsAreCountedOnce'
    BY <2>3, <2>4 DEF EndsAreCountedOnce
  <2> QED
    BY <1>1, <2>5, <2>6 DEF CountersInv
\* The other steps leave the counters, and the jobs that ended do not get fewer.
<1>3. CASE UNCHANGED exports
  <2>1. counts' = counts /\ exported' = exported
    BY <1>3 DEF exports
  <2>2. ASSUME raced' = {}, NEW s \in Ended
        PROVE  exported'[s] <= CountByStatus(s)' /\ counts'[s] = exported'[s]
    <3>1. raced = {}
      BY <2>2, RacedGrows DEF JobInv
    <3>2. exported[s] <= CountByStatus(s) /\ counts[s] = exported[s] /\ exported[s] \in Nat
      BY <3>1 DEF CountersInv, EndsAreCountedOnce
    <3>3. CountByStatus(s) <= CountByStatus(s)'
      BY <1>1, <3>1, CountsGrow
    <3>4. CountByStatus(s) \in Nat /\ CountByStatus(s)' \in Nat
      <4>1. CountByStatus(s) \in Nat
        BY <1>1, CountIsNat
      <4>2. EndedWith(s)' \in SUBSET (Existing')
        BY DEF EndedWith, Existing, NoJob, Ended
      <4>3. IsFiniteSet(EndedWith(s)')
        BY <1>1, <4>2, FS_Subset
      <4>4. Cardinality(EndedWith(s)') \in Nat
        BY <4>3, FS_CardinalityType
      <4> QED
        BY <4>1, <4>4 DEF CountByStatus, EndedWith
    <3> QED
      BY <2>1, <3>2, <3>3, <3>4
  <2> QED
    BY <1>1, <2>1, <2>2 DEF CountersInv, EndsAreCountedOnce
<1> QED
  BY <1>2, <1>3
  DEF JobNext, CreateJob, UpdateProgress, CancelJob, BeginUpdate, Begin, UpdateRead,
      UpdateWrite, jobVars

\* Unless updates of a job overlapped, the exported counters never exceed the
\* numbers of jobs that ended so, and are what the last scrape remembers: a scrape
\* counts every end once, however many of them there were since the last one.
THEOREM EndsCountedOnce == JobSpec => []EndsAreCountedOnce
<1>1. JobInit => CountersInv
  <2> SUFFICES ASSUME JobInit PROVE CountersInv
    OBVIOUS
  <2>1. Existing = {}
    BY DEF JobInit, Existing
  <2>2. IsFiniteSet(Existing)
    BY <2>1, FS_EmptySet
  <2>3. \A s \in Ended : CountByStatus(s) \in Nat
    BY <2>2, CountIsNat
  <2> QED
    BY <2>2, <2>3 DEF JobInit, CountersInv, EndsAreCountedOnce
<1>2. JobInv /\ CountersInv /\ [JobNext]_jobVars => CountersInv'
  BY CountersStep
<1>3. CountersInv => EndsAreCountedOnce
  BY DEF CountersInv
<1> QED
  BY <1>1, <1>2, <1>3, JobInvAlways, PTL DEF JobSpec

\* The rest of JobTypeOK: the table has a row for every job and no other, no more
\* durations are remembered than it has rows, and an update writes a row that is
\* there.
RowsFit ==
    /\ \A c \in Callers : call[c].step = "write" => job[call[c].job] # NoJob
    /\ rows \in Seq(Jobs) /\ Range(rows) = Existing
    /\ durations \in 0 .. Len(rows)

\* No step but the creation of a job changes which jobs there are.
LEMMA ExistingStays ==
    ASSUME JobsTyped, RowsFit, [JobNext]_jobVars, ~CreateJob
    PROVE  Existing' = Existing
<1>1. ASSUME NEW j \in Jobs, UpdateProgress(j) PROVE Existing' = Existing
  <2>1. job \in [Jobs -> Row] /\ job[j] \in Row /\ job[j] # NoJob
    BY <1>1 DEF JobsTyped, UpdateProgress
  <2>2. job'[j] = [job[j] EXCEPT !.progress = TRUE] /\ \A k \in Jobs \ {j} : job'[k] = job[k]
    BY <1>1, <2>1 DEF UpdateProgress
  <2>3. job'[j].progress = TRUE /\ NoJob.progress = FALSE
    BY <2>1, <2>2 DEF Row, NoJob
  <2> QED
    BY <2>1, <2>2, <2>3 DEF Existing
<1>2. ASSUME NEW c \in Callers, UpdateWrite(c) PROVE Existing' = Existing
  <2>1. /\ call[c].job \in Jobs /\ job'[call[c].job].status = call[c].want
        /\ \A k \in Jobs \ {call[c].job} : job'[k] = job[k]
    BY <1>2, WrittenRow
  <2>2. job[call[c].job] # NoJob /\ call[c].want \in JobStatus
    BY <1>2 DEF RowsFit, UpdateWrite, JobsTyped
  <2>3. job'[call[c].job] # NoJob
    BY <2>1, <2>2 DEF NoJob, JobStatus
  <2> QED
    BY <2>1, <2>2, <2>3 DEF Existing
<1>3. CASE job' = job
  BY <1>3 DEF Existing
<1> QED
  BY <1>1, <1>2, <1>3
  DEF JobNext, CancelJob, BeginUpdate, Begin, UpdateRead, Scrape, jobVars

LEMMA RowsStep == JobsTyped /\ RowsFit /\ [JobNext]_jobVars => RowsFit'
<1> SUFFICES ASSUME JobsTyped, RowsFit, [JobNext]_jobVars PROVE RowsFit'
  OBVIOUS
<1>0. Len(rows) \in Nat /\ durations \in Nat
  BY DEF RowsFit
\* A new job gets a row of its own at the end.
<1>1. CASE CreateJob
  <2> DEFINE n == CHOOSE j \in {j \in Jobs : job[j] = NoJob} : TRUE
  <2>1. n \in Jobs /\ job[n] = NoJob
    BY <1>1 DEF CreateJob
  <2>2. job' = [job EXCEPT ![n].status = "pending"] /\ rows' = Append(rows, n)
        /\ call' = call /\ durations' = durations
    BY <1>1 DEF CreateJob, exports
  <2> HIDE DEF n
  <2>3. job \in [Jobs -> Row] /\ job[n] \in Row
    BY <2>1 DEF JobsTyped
  <2>4. job'[n] = [job[n] EXCEPT !.status = "pending"] /\ \A k \in Jobs \ {n} : job'[k] = job[k]
    BY <2>1, <2>2, <2>3
  <2>5. job'[n].status = "pending" /\ NoJob.status = "none"
    BY <2>3, <2>4 DEF Row, NoJob
  <2>6. job'[n] # NoJob
    BY <2>5
  <2>7. Existing' = Existing \cup {n}
    BY <2>1, <2>4, <2>6 DEF Existing
  <2>8. \A c \in Callers : call'[c].step = "write" => job'[call'[c].job] # NoJob
    <3> SUFFICES ASSUME NEW c \in Callers, call[c].step = "write" PROVE job'[call[c].job] # NoJob
      BY <2>2
    <3>1. call[c].job \in Jobs /\ job[call[c].job] # NoJob
      BY DEF RowsFit, JobsTyped
    <3> QED
      BY <2>4, <2>6, <3>1
  <2>9. rows \in Seq(Jobs) /\ Range(rows) = Existing /\ durations \in 0 .. Len(rows)
    BY DEF RowsFit
  <2>10. Range(Append(rows, n)) = Range(rows) \cup {n}
    BY <2>1, <2>9, RangeFacts
  <2>11. rows' \in Seq(Jobs) /\ Len(rows') = Len(rows) + 1
    BY <2>1, <2>2, <2>9
  <2>12. Range(rows') = Existing'
    BY <2>2, <2>7, <2>9, <2>10
  <2>13. durations' \in 0 .. Len(rows')
    BY <1>0, <2>2, <2>9, <2>11
  <2> QED
    BY <2>8, <2>11, <2>12, <2>13 DEF RowsFit
\* A scrape remembers as many durations as the rows that have one.
<1>2. CASE Scrape
  <2> DEFINE list == CompletedDurations
             new == SubSeq(list, durations + 1, Len(list))
  <2>1. durations' = durations + Len(new) /\ job' = job /\ call' = call /\ rows' = rows
    BY <1>2 DEF Scrape, ScrapeDurations
  <2>2. rows \in Seq(Jobs) /\ durations \in 0 .. Len(rows)
    BY DEF RowsFit
  <2>3. list \in Seq(Jobs) /\ Len(list) <= Len(rows)
    <3>1. Selects(Jobs, {j \in Jobs : HasDuration(j)})
      BY KeptFacts
    <3> QED
      BY <2>2, <3>1, KeptShorter DEF CompletedDurations, Selects
  <2> HIDE DEF list
  <2>4. Len(list) \in Nat
    BY <2>3
  <2>5. Len(new) = IF durations < Len(list) THEN Len(list) - durations ELSE 0
    BY <1>0, <2>3, <2>4
  <2> HIDE DEF new
  <2>6. durations' \in 0 .. Len(rows)
    BY <1>0, <2>1, <2>2, <2>3, <2>4, <2>5
  <2> QED
    BY <2>1, <2>6 DEF RowsFit, Existing
\* The other steps leave the table, and an update that is to write has read a job
\* that is there.
<1>3. CASE ~CreateJob /\ ~Scrape
  <2>1. rows' = rows /\ durations' = durations
    BY <1>3 DEF JobNext, UpdateProgress, CancelJob, BeginUpdate, Begin, UpdateRead, UpdateWrite,
                jobVars, exports
  <2>2. Existing' = Existing
    BY <1>3, ExistingStays
  <2>3. ASSUME NEW c \in Callers, call'[c].step = "write" PROVE job'[call'[c].job] # NoJob
    <3>0. \A j \in Jobs : job[j] # NoJob => job'[j] # NoJob
      BY <2>2 DEF Existing
    <3>1. CASE call'[c] = call[c]
      <4>1. call[c].job \in Jobs /\ job[call[c].job] # NoJob
        BY <2>3, <3>1 DEF RowsFit, JobsTyped
      <4> QED
        BY <3>0, <3>1, <4>1
    <3>2. CASE UpdateRead(c)
      <4>1. call'[c] # NoUpdate
        BY <2>3 DEF NoUpdate
      <4>2. /\ call'[c].job = call[c].job /\ call[c].job \in Jobs
            /\ call[c].want \in Transitions(job[call[c].job].status)
        BY <3>2, <4>1, ReadCall DEF JobsTyped, UpdateRead
      <4>3. job[call[c].job].status # "none"
        BY <4>2 DEF Transitions
      <4>4. job[call[c].job] # NoJob
        BY <4>3 DEF NoJob
      <4> QED
        BY <3>0, <4>2, <4>4
    <3>3. ASSUME NEW d \in Callers, NEW j \in Jobs, NEW s \in JobStatus, Begin(d, j, "read", s)
          PROVE  job'[call'[c].job] # NoJob
      <4>1. call'[d].step = "read" /\ \A e \in Callers \ {d} : call'[e] = call[e]
        BY <3>3, BegunCall
      <4>2. call'[c] = call[c]
        BY <2>3, <4>1
      <4> QED
        BY <3>1, <4>2
    <3>4. ASSUME NEW d \in Callers, UpdateWrite(d) PROVE job'[call'[c].job] # NoJob
      <4>1. call' = [call EXCEPT ![d] = NoUpdate] /\ DOMAIN call = Callers
        BY <3>4 DEF UpdateWrite, JobsTyped
      <4>2. call'[c] = call[c]
        BY <2>3, <4>1 DEF NoUpdate
      <4> QED
        BY <3>1, <4>2
    <3>5. ASSUME NEW d \in Callers, d # c, UpdateRead(d) PROVE job'[call'[c].job] # NoJob
      <4>1. call'[c] = call[c]
        BY <3>5, ReadCall
      <4> QED
        BY <3>1, <4>1
    <3>6. CASE (\E j \in Jobs : UpdateProgress(j)) \/ UNCHANGED jobVars
      BY <3>1, <3>6 DEF UpdateProgress, jobVars
    <3> QED
      BY <1>3, <3>2, <3>3, <3>4, <3>5, <3>6 DEF JobNext, CancelJob, BeginUpdate, JobStatus
  <2> QED
    BY <2>1, <2>2, <2>3 DEF RowsFit
<1> QED
  BY <1>1, <1>2, <1>3

\* Every job there is has its row in the table, and none is there for another.
THEOREM JobTypeCorrect == JobSpec => []JobTypeOK
<1>1. JobInit => RowsFit
  <2> SUFFICES ASSUME JobInit PROVE RowsFit
    OBVIOUS
  <2>1. Existing = {} /\ rows = <<>> /\ durations = 0 /\ \A c \in Callers : call[c].step = "idle"
    BY DEF JobInit, Existing, NoUpdate
  <2>2. rows \in Seq(Jobs) /\ Range(rows) = {} /\ Len(rows) = 0
    BY <2>1, RangeFacts
  <2> QED
    BY <2>1, <2>2 DEF RowsFit
<1>2. JobsTyped /\ RowsFit => JobTypeOK
  BY DEF JobsTyped, RowsFit, JobTypeOK, Row, Update, Existing
<1> QED
  BY <1>1, <1>2, JobsTypedInit, JobsTypedStep, RowsStep, PTL DEF JobSpec


----------------------------------------------------------------------
(* The training pipeline.                                                  *)

\* What a file may hold when the first so many records have been read.
Readings == {r \in Seq(Nat) \X Nat : KeepsFirst(r[1], r[2])}
Records == Len(source.records)
Explained == {d \in Seq(Nat) : \E n \in 0 .. Records : <<d, n>> \in Readings}
Complete == {d \in Seq(Nat) : <<d, Records>> \in Readings}

\* The steps that broke, and those that leave something behind when they do.
Broken == {b.op : b \in breaks}
Leaving == {b.op : b \in {c \in breaks : c.at = 1 \/ c.how = "killed"}}

\* prepare_dataset has written what it has read so far, and counted it.
PrepareFits ==
    /\ inCall.op = "prepare" =>
          /\ prepared.is = "partial" /\ inCall.at \in 1 .. Records + 1
          /\ <<prepared.data, inCall.at - 1>> \in Readings
          /\ stats.total = Len(prepared.data) /\ stats.total + stats.skipped = inCall.at - 1
    /\ stats.whole =>
          /\ inCall.op # "prepare" /\ prepared.is = "whole" /\ prepared.data \in Complete
          /\ stats.total = Len(prepared.data) /\ stats.total + stats.skipped = Records

\* What is handed on is explained; a trainer has loaded something before it trains.
DataFits ==
    /\ {prepared.data, trainer.loaded, adapter.data, merged.data, fp16.data, gguf.data, served.data}
          \subseteq Explained
    /\ prepared.is # "absent" /\ inCall.op # "prepare" /\ "prepare" \notin Broken => prepared.data \in Complete
    /\ trainer.configured /\ "prepare" \notin Broken => trainer.loaded \in Complete
    /\ inCall.op = "train" /\ inCall.at # 1 => trainer.configured
    /\ adapter.is = "whole" /\ "prepare" \notin Broken => adapter.data \in Complete
    /\ merged.is = "whole" /\ "prepare" \notin Broken => merged.data \in Complete
    /\ fp16.is = "whole" /\ "prepare" \notin Broken => fp16.data \in Complete
    /\ gguf.is = "whole" /\ "prepare" \notin Broken => gguf.data \in Complete
    /\ served.is = "whole" /\ "prepare" \notin Broken => served.data \in Complete

\* A partial file is being written, or a step that broke explains it.
PartsFit ==
    LET between == {"train", "merge", "convert"} \cap Broken # {}
    IN /\ adapter.is = "partial" => "train" \in Broken \/ In("train", 3)
       /\ merged.is = "partial" => between \/ In("merge", 2)
       /\ fp16.is = "partial" => between \/ In("convert", 1)
       /\ gguf.is = "partial" => between \/ In("convert", 2)
       /\ served.is = "partial" => between

LeftFits ==
    /\ trainer.status = "completed" \/ In("train", 4) =>
          adapter = [is |-> "whole", data |-> trainer.loaded]
    /\ inCall.op \in {"convert", "register"} => inCall.at \in {1, 2}
    /\ inCall.op = "train" => trainer.status # "completed"
    /\ fp16.is # "absent" => "convert" \in Leaving \/ inCall.op = "convert"
    /\ modelfile => "register" \in Leaving \/ inCall.op = "register"

PipelineInv == PipelineTypeOK /\ PrepareFits /\ DataFits /\ PartsFit /\ LeftFits

\* Reading one more record adds its number to the file if it yields a text.
LEMMA ReadingFacts ==
    /\ <<<<>>, 0>> \in Readings
    /\ \A d \in Seq(Nat), n \in Nat : <<d, n>> \in Readings =>
          <<IF Yields(n + 1) = "text" THEN Append(d, n + 1) ELSE d, n + 1>> \in Readings
<1>1. <<<<>>, 0>> \in Readings
  <2>1. <<>> \in Seq(Nat) /\ DOMAIN <<>> = {} /\ {i \in 1 .. 0 : Yields(i) = "text"} = {}
    OBVIOUS
  <2>2. KeepsFirst(<<>>, 0)
    BY <2>1 DEF KeepsFirst, Range
  <2> DEFINE r == <<<<>>, 0>>
  <2>3. r \in Seq(Nat) \X Nat /\ r[1] = <<>> /\ r[2] = 0
    BY <2>1
  <2> HIDE DEF r
  <2>4. r \in Readings
    BY <2>2, <2>3 DEF Readings
  <2> QED
    BY <2>4 DEF r
<1>2. ASSUME NEW d \in Seq(Nat), NEW n \in Nat, <<d, n>> \in Readings
      PROVE  <<IF Yields(n + 1) = "text" THEN Append(d, n + 1) ELSE d, n + 1>> \in Readings
  <2>1. /\ Range(d) = {i \in 1 .. n : Yields(i) = "text"}
        /\ \A i, j \in DOMAIN d : i < j => d[i] < d[j]
    BY <1>2 DEF Readings, KeepsFirst
  <2>2. DOMAIN d = 1 .. Len(d) /\ Len(d) \in Nat /\ \A i \in 1 .. Len(d) : d[i] \in 1 .. n
    BY <2>1 DEF Range
  <2>3. CASE Yields(n + 1) # "text"
    <3>1. {i \in 1 .. n : Yields(i) = "text"} = {i \in 1 .. n + 1 : Yields(i) = "text"}
      BY <2>3
    <3> QED
      BY <2>1, <2>3, <3>1 DEF Readings, KeepsFirst
  <2>4. CASE Yields(n + 1) = "text"
    <3> DEFINE e == Append(d, n + 1)
    <3>1. /\ e \in Seq(Nat) /\ DOMAIN e = 1 .. Len(d) + 1 /\ e[Len(d) + 1] = n + 1
          /\ \A i \in 1 .. Len(d) : e[i] = d[i]
      BY <2>2
    <3> HIDE DEF e
    <3>2. Range(e) = Range(d) \cup {n + 1}
      BY <2>2, <3>1 DEF Range
    <3>3. {i \in 1 .. n + 1 : Yields(i) = "text"} = {i \in 1 .. n : Yields(i) = "text"} \cup {n + 1}
      BY <2>4
    <3>4. ASSUME NEW i \in DOMAIN e, NEW j \in DOMAIN e, i < j PROVE e[i] < e[j]
      <4>1. i \in 1 .. Len(d) /\ (j \in 1 .. Len(d) \/ j = Len(d) + 1)
        BY <2>2, <3>1, <3>4
      <4>2. CASE j \in 1 .. Len(d)
        BY <2>1, <2>2, <3>1, <3>4, <4>1, <4>2
      <4>3. CASE j = Len(d) + 1
        BY <2>2, <3>1, <4>1, <4>3
      <4> QED
        BY <4>1, <4>2, <4>3
    <3>5. KeepsFirst(e, n + 1)
      BY <2>1, <3>2, <3>3, <3>4 DEF KeepsFirst
    <3>6. <<e, n + 1>> \in Readings
      BY <3>1, <3>5 DEF Readings
    <3> QED
      BY <2>4, <3>6 DEF e
  <2> QED
    BY <2>3, <2>4
<1> QED
  BY <1>1, <1>2

\* A file that loses its end, as when its writer is killed, is explained still.
LEMMA CutFacts ==
    ASSUME NEW d \in Explained, NEW n \in 0 .. Len(d), Records \in Nat
    PROVE  SubSeq(d, 1, n) \in Explained
<1>1. PICK m \in 0 .. Records : <<d, m>> \in Readings
  BY DEF Explained
<1>2. d \in Seq(Nat) /\ Len(d) \in Nat /\ DOMAIN d = 1 .. Len(d) /\ m \in Nat
  BY DEF Explained
<1>3. /\ Range(d) = {i \in 1 .. m : Yields(i) = "text"}
      /\ \A i, j \in DOMAIN d : i < j => d[i] < d[j]
  BY <1>1 DEF Readings, KeepsFirst
<1>4. \A i \in 1 .. Len(d) : d[i] \in 1 .. m /\ Yields(d[i]) = "text"
  <2>1. \A i \in 1 .. Len(d) : d[i] \in Range(d)
    BY <1>2 DEF Range
  <2> QED
    BY <1>3, <2>1
<1> DEFINE e == SubSeq(d, 1, n)
<1>5. /\ e \in Seq(Nat) /\ DOMAIN e = 1 .. n
      /\ \A i \in 1 .. n : e[i] = d[i]
  BY <1>2
<1>6. CASE n = 0
  <2>1. e = <<>>
    BY <1>5, <1>6
  <2>2. <<<<>>, 0>> \in Readings /\ 0 \in 0 .. Records /\ <<>> \in Seq(Nat)
    BY ReadingFacts
  <2> QED
    BY <2>1, <2>2 DEF Explained
<1>7. CASE n # 0
  <2>1. n \in 1 .. Len(d) /\ d[n] \in 1 .. m /\ d[n] \in 0 .. Records
    <3>1. n \in 1 .. Len(d)
      BY <1>2, <1>7
    <3>2. d[n] \in 1 .. m
      BY <1>4, <3>1
    <3> QED
      BY <3>1, <3>2
  <2> HIDE DEF e
  <2>2. Range(e) = {i \in 1 .. d[n] : Yields(i) = "text"}
    <3>1. ASSUME NEW i \in 1 .. n PROVE e[i] \in 1 .. d[n] /\ Yields(e[i]) = "text"
      <4>1. d[i] \in 1 .. m /\ Yields(d[i]) = "text" /\ e[i] = d[i]
        BY <1>2, <1>4, <1>5, <2>1
      <4>2. i = n \/ d[i] < d[n]
        BY <1>2, <1>3, <2>1
      <4> QED
        BY <2>1, <4>1, <4>2
    <3>2. ASSUME NEW i \in 1 .. d[n], Yields(i) = "text" PROVE \E k \in 1 .. n : e[k] = i
      <4>1. i \in 1 .. m
        BY <2>1
      <4>2. PICK k \in DOMAIN d : d[k] = i
        BY <1>3, <3>2, <4>1 DEF Range
      <4>3. ~(n < k)
        BY <1>2, <1>3, <2>1, <4>2
      <4> QED
        BY <1>2, <1>5, <2>1, <4>2, <4>3
    <3>3. Range(e) = {e[i] : i \in 1 .. n}
      BY <1>5 DEF Range
    <3>4. {e[i] : i \in 1 .. n} \subseteq {i \in 1 .. d[n] : Yields(i) = "text"}
      BY <3>1
    <3>5. {i \in 1 .. d[n] : Yields(i) = "text"} \subseteq {e[i] : i \in 1 .. n}
      BY <3>2
    <3> QED
      BY <3>3, <3>4, <3>5
  <2>3. \A i, j \in DOMAIN e : i < j => e[i] < e[j]
    BY <1>2, <1>3, <1>5, <2>1
  <2>4. <<e, d[n]>> \in Readings
    <3>1. KeepsFirst(e, d[n]) /\ e \in Seq(Nat) /\ d[n] \in Nat
      BY <1>5, <2>1, <2>2, <2>3 DEF KeepsFirst
    <3> QED
      BY <3>1 DEF Readings
  <2> QED
    BY <1>5, <2>1, <2>4 DEF Explained, e
<1> QED
  BY <1>6, <1>7

PrepareActs == PrepareStart \/ PrepareRecord \/ PrepareRaises \/ PrepareEnds
TrainerActs ==
    \/ NewTrainer \/ ConfigureTrainer \/ Train \/ Configured \/ ConfigureRaises
    \/ Evaluate \/ Trained \/ AdapterSaved \/ Completed \/ TrainRaises
ExportActs ==
    \/ MergeStart \/ MergeSaves \/ MergeEnds \/ MergeRaises
    \/ ConvertStart \/ Fp16Written \/ Fp16Fails \/ Quantized \/ QuantizeFails
    \/ RegisterStart \/ ModelfileWritten \/ ModelfileFails \/ Registered \/ RegisterFails

\* The actions, by the state they are about.
LEMMA ActsAreAll == PipelineNext <=> PrepareActs \/ TrainerActs \/ ExportActs \/ Killed
  BY DEF PipelineNext, PrepareActs, TrainerActs, ExportActs

\* How a call goes: nothing replaces the dataset, and what broke is remembered.
LEMMA CallFacts ==
    ASSUME PipelineNext
    PROVE  /\ source' = source /\ breaks \subseteq breaks'
           /\ breaks' = breaks \/ \E how \in {"raised", "killed"} : Breaks(how)
<1>1. CASE PrepareActs
  BY <1>1 DEF PrepareActs, PrepareStart, PrepareRecord, PrepareRaises, PrepareEnds,
              Starts, GoesOn, Ends, Breaks
<1>2. CASE TrainerActs
  BY <1>2 DEF TrainerActs, NewTrainer, ConfigureTrainer, Train, Configured, ConfigureRaises, Evaluate,
              Trained, AdapterSaved, Completed, TrainRaises, Starts, GoesOn, Ends, Breaks
<1>3. CASE ExportActs
  BY <1>3 DEF ExportActs, MergeStart, MergeSaves, MergeEnds, MergeRaises, ConvertStart, Fp16Written,
              Fp16Fails, Quantized, QuantizeFails, RegisterStart, ModelfileWritten, ModelfileFails,
              Registered, RegisterFails, Starts, GoesOn, Ends, Breaks
<1>4. CASE Killed
  BY <1>4 DEF Killed, Breaks
<1> QED
  BY <1>1, <1>2, <1>3, <1>4, ActsAreAll

\* What a reading may hold stays, and what broke stays broken.
LEMMA Lasting ==
    ASSUME source' = source, breaks \subseteq breaks'
    PROVE  /\ Readings' = Readings /\ Records' = Records
           /\ Explained' = Explained /\ Complete' = Complete
           /\ Broken \subseteq Broken' /\ Leaving \subseteq Leaving'
<1>1. Records' = Records
  BY DEF Records
<1>2. ASSUME NEW d, NEW n PROVE KeepsFirst(d, n)' <=> KeepsFirst(d, n)
  BY DEF KeepsFirst, Yields, RawYields
<1>3. Readings' = Readings
  BY <1>2 DEF Readings
<1>4. Explained' = Explained /\ Complete' = Complete
  BY <1>1, <1>3 DEF Explained, Complete
<1>5. Broken \subseteq Broken' /\ Leaving \subseteq Leaving'
  BY DEF Broken, Leaving
<1> QED
  BY <1>1, <1>3, <1>4, <1>5

\* A call that breaks ends, and is remembered with how far it was.
LEMMA BreakFacts ==
    ASSUME NEW how \in {"raised", "killed"}, Breaks(how)
    PROVE  /\ inCall' = NoCall /\ inCall.op \in Broken'
           /\ inCall.at = 1 \/ how = "killed" => inCall.op \in Leaving'
<1> DEFINE b == [op |-> inCall.op, at |-> inCall.at, how |-> how]
<1>1. b \in breaks' /\ b.op = inCall.op /\ b.at = inCall.at /\ b.how = how /\ inCall' = NoCall
  BY DEF Breaks
<1> HIDE DEF b
<1> QED
  BY <1>1 DEF Broken, Leaving

Calls == [op : {"none", "prepare", "configure", "train", "merge", "convert", "register"}, at : Nat]
Trainers ==
    [status : {"none", "pending", "configuring", "training", "evaluating", "completed", "failed"},
     configured : BOOLEAN, loaded : Seq(Nat)]
Tallies == [total : Nat, skipped : Nat, whole : BOOLEAN]

\* The types, one by one.
LEMMA TypeParts ==
    PipelineTypeOK <=>
      /\ source \in Datasets /\ modelfile \in BOOLEAN
      /\ prepared \in Artifacts /\ adapter \in Artifacts /\ merged \in Artifacts
      /\ fp16 \in Artifacts /\ gguf \in Artifacts /\ served \in Artifacts
      /\ stats \in Tallies /\ trainer \in Trainers /\ inCall \in Calls
  BY DEF PipelineTypeOK, Tallies, Trainers, Calls

\* What a variable begins with, or is set back to, has its type.
LEMMA StartTypes ==
    /\ NoCall \in Calls /\ NoStats \in Tallies /\ NoTrainer \in Trainers
    /\ NoArtifact \in Artifacts /\ PartOfOne \in Artifacts
  BY DEF NoCall, NoStats, NoTrainer, NoArtifact, PartOfOne, Calls, Tallies, Trainers, Artifacts

\* A call is one of those a script can make.
LEMMA CallTypes ==
    ASSUME inCall \in Calls, PipelineNext
    PROVE  inCall' \in Calls
<1>1. ASSUME NEW op \in {"prepare", "configure", "train", "merge", "convert", "register"},
             NEW n \in {1, 2}
      PROVE  [op |-> op, at |-> n] \in Calls
  BY DEF Calls
<1>2. [inCall EXCEPT !.at = @ + 1] \in Calls
  BY DEF Calls
<1>3. CASE PrepareActs
  BY <1>1, <1>2, <1>3, StartTypes DEF PrepareActs, PrepareStart, PrepareRecord, PrepareRaises, PrepareEnds,
              Starts, GoesOn, Ends, Breaks
<1>4. CASE TrainerActs
  BY <1>1, <1>2, <1>4, StartTypes DEF TrainerActs, NewTrainer, ConfigureTrainer, Train, Configured,
              ConfigureRaises, Evaluate, Trained, AdapterSaved, Completed, TrainRaises, Starts, GoesOn,
              Ends, Breaks
<1>5. CASE ExportActs
  BY <1>1, <1>2, <1>5, StartTypes
     DEF ExportActs, MergeStart, MergeSaves, MergeEnds, MergeRaises, ConvertStart, Fp16Written,
         Fp16Fails, Quantized, QuantizeFails, RegisterStart, ModelfileWritten, ModelfileFails,
         Registered, RegisterFails, Starts, GoesOn, Ends, Breaks
<1>6. CASE Killed
  BY <1>6, StartTypes DEF Killed, Breaks
<1> QED
  BY <1>3, <1>4, <1>5, <1>6, ActsAreAll

\* Every step keeps the types.
LEMMA PipelineTypes ==
    ASSUME PipelineTypeOK, PipelineNext
    PROVE  PipelineTypeOK'
<1>1. /\ source' = source /\ inCall' \in Calls
      /\ source \in Datasets /\ modelfile \in BOOLEAN
      /\ prepared \in Artifacts /\ adapter \in Artifacts /\ merged \in Artifacts
      /\ fp16 \in Artifacts /\ gguf \in Artifacts /\ served \in Artifacts
      /\ stats \in Tallies /\ trainer \in Trainers /\ inCall \in Calls
  BY CallFacts, CallTypes, TypeParts
<1>2. CASE PrepareActs
  <2>1. adapter' = adapter /\ trainer' = trainer
        /\ UNCHANGED <<merged, fp16, gguf, modelfile, served>>
    BY <1>2 DEF PrepareActs, PrepareStart, PrepareRecord, PrepareRaises, PrepareEnds, exportVars
  <2>2. prepared' \in Artifacts
    <3>1. [prepared EXCEPT !.is = "whole"] \in Artifacts
      BY <1>1 DEF Artifacts
    <3>2. [prepared EXCEPT !.data = Append(@, inCall.at)] \in Artifacts
      <4>1. Append(prepared.data, inCall.at) \in Seq(Nat)
        BY <1>1 DEF Artifacts, Calls
      <4>2. \A d \in Seq(Nat) : [prepared EXCEPT !.data = d] \in Artifacts
        BY <1>1 DEF Artifacts
      <4> QED
        BY <4>1, <4>2
    <3> QED
      BY <1>1, <1>2, <3>1, <3>2, StartTypes
      DEF PrepareActs, PrepareStart, PrepareRecord, PrepareRaises, PrepareEnds, Calls
  <2>3. stats' \in Tallies
    <3>1. /\ [stats EXCEPT !.whole = TRUE] \in Tallies
          /\ [stats EXCEPT !.total = @ + 1] \in Tallies /\ [stats EXCEPT !.skipped = @ + 1] \in Tallies
      <4>1. stats.total + 1 \in Nat /\ stats.skipped + 1 \in Nat
        BY <1>1 DEF Tallies
      <4>2. \A n \in Nat : [stats EXCEPT !.total = n] \in Tallies /\ [stats EXCEPT !.skipped = n] \in Tallies
        BY <1>1 DEF Tallies
      <4>3. [stats EXCEPT !.whole = TRUE] \in Tallies
        BY <1>1 DEF Tallies
      <4> QED
        BY <4>1, <4>2, <4>3
    <3> QED
      BY <1>1, <1>2, <3>1, StartTypes
      DEF PrepareActs, PrepareStart, PrepareRecord, PrepareRaises, PrepareEnds
  <2>4. modelfile' \in BOOLEAN
    BY <1>1, <2>1
  <2> QED
    BY <1>1, <2>1, <2>2, <2>3, <2>4, TypeParts DEF PipelineTypeOK, Artifacts, Tallies, Trainers, Calls
<1>3. CASE TrainerActs
  <2>1. prepared' = prepared /\ stats' = stats /\ UNCHANGED <<merged, fp16, gguf, modelfile, served>>
    BY <1>3 DEF TrainerActs, NewTrainer, ConfigureTrainer, Train, Configured, ConfigureRaises, Evaluate,
                Trained, AdapterSaved, Completed, TrainRaises, exportVars
  <2>2. trainer' \in Trainers
    <3>1. ASSUME NEW x \in {"configuring", "training", "evaluating", "completed", "failed"}
          PROVE  [trainer EXCEPT !.status = x] \in Trainers
      BY <1>1 DEF Trainers
    <3>2. [NoTrainer EXCEPT !.status = "pending"] \in Trainers
      BY StartTypes DEF Trainers
    <3>3. ASSUME NEW x \in {"configuring", "training"}, NEW d \in {trainer.loaded, prepared.data}
          PROVE  [status |-> x, configured |-> TRUE, loaded |-> d] \in Trainers
      BY <1>1 DEF Trainers, Artifacts
    <3>4. CASE Configured
      BY <3>3, <3>4 DEF Configured
    <3>5. CASE ~Configured
      BY <1>1, <1>3, <3>1, <3>2, <3>5
      DEF TrainerActs, NewTrainer, ConfigureTrainer, Train, ConfigureRaises, Evaluate, Trained,
          AdapterSaved, Completed, TrainRaises
    <3> QED
      BY <3>4, <3>5
  <2>3. adapter' \in Artifacts
    <3>1. [is |-> "whole", data |-> trainer.loaded] \in Artifacts
      BY <1>1 DEF Trainers, Artifacts
    <3> QED
      BY <1>1, <1>3, <3>1, StartTypes
      DEF TrainerActs, NewTrainer, ConfigureTrainer, Train, Configured, ConfigureRaises, Evaluate,
          Trained, AdapterSaved, Completed, TrainRaises
  <2>4. modelfile' \in BOOLEAN
    BY <1>1, <2>1
  <2> QED
    BY <1>1, <2>1, <2>2, <2>3, <2>4, TypeParts DEF PipelineTypeOK, Artifacts, Tallies, Trainers, Calls
<1>4. CASE ExportActs
  <2>1. prepared' = prepared /\ stats' = stats /\ adapter' = adapter /\ trainer' = trainer
    BY <1>4 DEF ExportActs, MergeStart, MergeSaves, MergeEnds, MergeRaises, ConvertStart, Fp16Written,
         Fp16Fails, Quantized, QuantizeFails, RegisterStart, ModelfileWritten, ModelfileFails,
         Registered, RegisterFails
  <2>2. merged' \in Artifacts /\ fp16' \in Artifacts /\ gguf' \in Artifacts /\ served' \in Artifacts
    BY <1>1, <1>4, StartTypes
    DEF ExportActs, MergeStart, MergeSaves, MergeEnds, MergeRaises, ConvertStart, Fp16Written,
        Fp16Fails, Quantized, QuantizeFails, RegisterStart, ModelfileWritten, ModelfileFails,
        Registered, RegisterFails, exportVars
  <2>3. modelfile' \in BOOLEAN
    BY <1>1, <1>4
    DEF ExportActs, MergeStart, MergeSaves, MergeEnds, MergeRaises, ConvertStart, Fp16Written,
        Fp16Fails, Quantized, QuantizeFails, RegisterStart, ModelfileWritten, ModelfileFails,
        Registered, RegisterFails, exportVars
  <2> QED
    BY <1>1, <2>1, <2>2, <2>3, TypeParts DEF PipelineTypeOK, Artifacts, Tallies, Trainers, Calls
<1>5. CASE Killed
  <2>1. /\ adapter' = adapter /\ trainer' = NoTrainer /\ stats' = NoStats
        /\ UNCHANGED <<merged, fp16, gguf, modelfile, served>>
    BY <1>5 DEF Killed, exportVars
  <2>2. prepared' \in Artifacts
    <3>1. \A n \in 0 .. Len(prepared.data) : SubSeq(prepared.data, 1, n) \in Seq(Nat)
      BY <1>1 DEF Artifacts
    <3>2. \A d \in Seq(Nat) : [prepared EXCEPT !.data = d] \in Artifacts
      BY <1>1 DEF Artifacts
    <3> QED
      BY <1>1, <1>5, <3>1, <3>2 DEF Killed
  <2>3. modelfile' \in BOOLEAN
    BY <1>1, <2>1
  <2> QED
    BY <1>1, <2>1, <2>2, <2>3, StartTypes, TypeParts
    DEF PipelineTypeOK, Artifacts, Tallies, Trainers, Calls
<1> QED
  BY <1>2, <1>3, <1>4, <1>5, ActsAreAll

\* prepare_dataset counts and writes what it reads, record by record.
LEMMA PrepareKeeps ==
    ASSUME PipelineTypeOK, PrepareFits, PipelineNext
    PROVE  PrepareFits'
<1>1. /\ Readings' = Readings /\ Records' = Records /\ Complete' = Complete
  BY CallFacts, Lasting
<1>2. Records \in Nat /\ inCall.at \in Nat /\ stats.total \in Nat /\ stats.skipped \in Nat
      /\ prepared.data \in Seq(Nat) /\ prepared \in Artifacts /\ stats \in Tallies /\ inCall \in Calls
  BY PipelineAssumption DEF PipelineTypeOK, Records, Artifacts, Tallies, Calls
<1>3. CASE PrepareStart
  <2>1. /\ inCall'.op = "prepare" /\ inCall'.at = 1 /\ prepared'.is = "partial" /\ prepared'.data = <<>>
        /\ stats'.total = 0 /\ stats'.skipped = 0 /\ ~stats'.whole
    BY <1>3 DEF PrepareStart, Starts, PartOfOne, NoStats
  <2> QED
    BY <1>1, <1>2, <2>1, ReadingFacts DEF PrepareFits
<1>4. CASE PrepareRecord
  <2>1. /\ inCall.op = "prepare" /\ inCall.at \in 1 .. Records /\ ~stats.whole /\ prepared.is = "partial"
        /\ <<prepared.data, inCall.at - 1>> \in Readings
        /\ stats.total = Len(prepared.data) /\ stats.total + stats.skipped = inCall.at - 1
    BY <1>2, <1>4 DEF PrepareRecord, PrepareFits, Records, Tallies
  <2>2. inCall'.op = "prepare" /\ inCall'.at = inCall.at + 1
    BY <1>2, <1>4 DEF PrepareRecord, GoesOn, Calls
  <2>3. <<IF Yields(inCall.at) = "text" THEN Append(prepared.data, inCall.at) ELSE prepared.data, inCall.at>>
          \in Readings
    <3>1. inCall.at - 1 \in Nat /\ (inCall.at - 1) + 1 = inCall.at
      BY <2>1
    <3> QED
      BY <1>2, <2>1, <3>1, ReadingFacts
  <2>4. (stats.total + 1) + stats.skipped = inCall.at /\ stats.total + (stats.skipped + 1) = inCall.at
    <3>1. \A a, b, c \in Nat : a + b = c - 1 => (a + 1) + b = c /\ a + (b + 1) = c
      OBVIOUS
    <3>2. stats.total + stats.skipped = inCall.at - 1
      BY <2>1
    <3>3. stats.total \in Nat /\ stats.skipped \in Nat /\ inCall.at \in Nat
      BY <1>2
    <3> QED
      BY <3>1, <3>2, <3>3
  <2>5. CASE Yields(inCall.at) = "text"
    <3>1. /\ prepared'.data = Append(prepared.data, inCall.at) /\ prepared'.is = "partial"
          /\ stats'.total = stats.total + 1 /\ stats'.skipped = stats.skipped /\ ~stats'.whole
      BY <1>2, <1>4, <2>1, <2>5 DEF PrepareRecord, Artifacts, Tallies
    <3>2. Len(prepared'.data) = Len(prepared.data) + 1
      BY <1>2, <3>1
    <3>3. inCall'.at - 1 = inCall.at /\ inCall'.at \in 1 .. Records + 1
      BY <1>2, <2>1, <2>2
    <3>4. stats'.total + stats'.skipped = inCall.at
      BY <2>4, <3>1
    <3> QED
      BY <1>1, <2>1, <2>2, <2>3, <2>5, <3>1, <3>2, <3>3, <3>4 DEF PrepareFits
  <2>6. CASE Yields(inCall.at) # "text"
    <3>1. /\ prepared' = prepared
          /\ stats'.total = stats.total /\ stats'.skipped = stats.skipped + 1 /\ ~stats'.whole
      BY <1>2, <1>4, <2>1, <2>6 DEF PrepareRecord, Tallies
    <3>2. inCall'.at - 1 = inCall.at /\ inCall'.at \in 1 .. Records + 1
      BY <1>2, <2>1, <2>2
    <3>3. stats'.total + stats'.skipped = inCall.at
      BY <2>4, <3>1
    <3> QED
      BY <1>1, <2>1, <2>2, <2>3, <2>6, <3>1, <3>2, <3>3 DEF PrepareFits
  <2> QED
    BY <2>5, <2>6
<1>5. CASE PrepareRaises
  BY <1>5 DEF PrepareRaises, Breaks, NoCall, PrepareFits
<1>6. CASE PrepareEnds
  <2>1. /\ inCall.op = "prepare" /\ inCall.at - 1 = Records
        /\ <<prepared.data, inCall.at - 1>> \in Readings
        /\ stats.total = Len(prepared.data) /\ stats.total + stats.skipped = inCall.at - 1
    BY <1>2, <1>6 DEF PrepareEnds, PrepareFits, Records
  <2>2. /\ inCall'.op = "none" /\ prepared'.is = "whole" /\ prepared'.data = prepared.data
        /\ stats'.total = stats.total /\ stats'.skipped = stats.skipped
    BY <1>2, <1>6 DEF PrepareEnds, Ends, NoCall, Artifacts, Tallies
  <2> QED
    BY <1>1, <1>2, <2>1, <2>2 DEF PrepareFits, Complete
<1>7. CASE TrainerActs \/ ExportActs
  <2>1. UNCHANGED <<prepared, stats>> /\ inCall.op # "prepare" /\ inCall'.op # "prepare"
    <3>1. CASE TrainerActs
      BY <1>2, <3>1 DEF TrainerActs, NewTrainer, ConfigureTrainer, Train, Configured, ConfigureRaises, Evaluate,
                Trained, AdapterSaved, Completed, TrainRaises, Starts, In, GoesOn, Ends, Breaks, NoCall, Calls
    <3>2. CASE ExportActs
      BY <1>2, <3>2 DEF ExportActs, MergeStart, MergeSaves, MergeEnds, MergeRaises, ConvertStart, Fp16Written,
           Fp16Fails, Quantized, QuantizeFails, RegisterStart, ModelfileWritten, ModelfileFails,
           Registered, RegisterFails, Starts, In, GoesOn, Ends, Breaks, NoCall, Calls
    <3> QED
      BY <1>7, <3>1, <3>2
  <2> QED
    BY <1>1, <2>1 DEF PrepareFits
<1>8. CASE Killed
  BY <1>8 DEF Killed, Breaks, NoCall, NoStats, PrepareFits
<1> QED
  BY <1>3, <1>4, <1>5, <1>6, <1>7, <1>8, ActsAreAll DEF PrepareActs

\* What an empty file holds is explained.
LEMMA EmptyIsExplained ==
    ASSUME Records \in Nat
    PROVE  <<>> \in Explained
  BY ReadingFacts DEF Explained

\* What a step hands on is what it was given, or nothing.
LEMMA DataKeeps ==
    ASSUME PipelineTypeOK, PrepareFits, PrepareFits', DataFits, PipelineNext
    PROVE  DataFits'
<1>1. Explained' = Explained /\ Complete' = Complete /\ Broken \subseteq Broken' /\ Records' = Records
      /\ Readings' = Readings
  BY CallFacts, Lasting
<1>2. Records \in Nat /\ <<>> \in Explained /\ Complete \subseteq Explained /\ inCall \in Calls
      /\ prepared \in Artifacts /\ trainer \in Trainers /\ adapter \in Artifacts
  <2>1. Records \in Nat
    BY PipelineAssumption DEF PipelineTypeOK, Records
  <2>2. Complete \subseteq Explained
    BY <2>1 DEF Complete, Explained
  <2> QED
    BY <2>1, <2>2, EmptyIsExplained, TypeParts
<1>3. NoArtifact.is = "absent" /\ NoArtifact.data = <<>> /\ PartOfOne.is = "partial" /\ PartOfOne.data = <<>>
      /\ ~NoTrainer.configured /\ NoTrainer.loaded = <<>>
  BY DEF NoArtifact, PartOfOne, NoTrainer
<1>4. CASE PrepareActs
  <2>1. UNCHANGED <<trainer, adapter, merged, fp16, gguf, served>> /\ inCall'.op \in {"prepare", "none"}
    BY <1>2, <1>4 DEF PrepareActs, PrepareStart, PrepareRecord, PrepareRaises, PrepareEnds, exportVars,
                Starts, GoesOn, Ends, Breaks, NoCall, Calls
  <2>2. prepared'.data \in Explained
    <3>1. CASE inCall'.op = "prepare"
      <4>1. /\ <<prepared.data, inCall.at - 1>>' \in Readings /\ inCall'.at \in 1 .. Records + 1
            /\ prepared' \in Artifacts
        BY <1>1, <3>1, PipelineTypes DEF PrepareFits, PipelineTypeOK
      <4>2. inCall'.at - 1 \in 0 .. Records /\ prepared'.data \in Seq(Nat)
        BY <1>2, <4>1 DEF Artifacts
      <4> QED
        BY <4>1, <4>2 DEF Explained
    <3>2. CASE inCall'.op = "none"
      <4>1. prepared'.data = prepared.data
        <5>1. CASE PrepareRaises \/ PrepareEnds
          BY <1>2, <5>1 DEF PrepareRaises, PrepareEnds, Artifacts
        <5>2. CASE PrepareStart \/ PrepareRecord
          BY <1>2, <3>2, <5>2 DEF PrepareStart, PrepareRecord, Starts, GoesOn, Calls
        <5> QED
          BY <1>4, <5>1, <5>2 DEF PrepareActs
      <4> QED
        BY <4>1 DEF DataFits
    <3> QED
      BY <2>1, <3>1, <3>2
  <2>3. prepared'.is # "absent" /\ inCall'.op # "prepare" /\ "prepare" \notin Broken' => prepared'.data \in Complete
    <3>1. CASE PrepareRaises
      <4>1. inCall.op = "prepare" /\ inCall.op \in Broken'
        BY <3>1, BreakFacts DEF PrepareRaises
      <4> QED
        BY <4>1
    <3>2. CASE PrepareEnds
      <4>1. prepared'.data = prepared.data /\ inCall.at = Records + 1 /\ <<prepared.data, inCall.at - 1>> \in Readings
        <5>1. inCall.op = "prepare" /\ inCall.at > Records /\ prepared' = [prepared EXCEPT !.is = "whole"]
          BY <3>2 DEF PrepareEnds, Records
        <5>2. inCall.at \in 1 .. Records + 1 /\ <<prepared.data, inCall.at - 1>> \in Readings
          BY <5>1 DEF PrepareFits
        <5>3. inCall.at = Records + 1
          BY <1>2, <5>1, <5>2
        <5> QED
          BY <1>2, <5>1, <5>2, <5>3 DEF Artifacts
      <4>2. inCall.at - 1 = Records /\ prepared.data \in Seq(Nat)
        BY <1>2, <4>1 DEF Artifacts
      <4> QED
        BY <4>1, <4>2 DEF Complete
    <3>3. CASE PrepareStart \/ PrepareRecord
      BY <1>2, <3>3 DEF PrepareStart, PrepareRecord, Starts, GoesOn, Calls
    <3> QED
      BY <1>4, <3>1, <3>2, <3>3 DEF PrepareActs
  <2> QED
    BY <1>1, <2>1, <2>2, <2>3 DEF DataFits
<1>5. CASE TrainerActs
  <2>1. /\ UNCHANGED <<prepared, merged, fp16, gguf, served>> /\ inCall.op # "prepare" /\ inCall'.op # "prepare"
    BY <1>2, <1>5 DEF TrainerActs, NewTrainer, ConfigureTrainer, Train, Configured, ConfigureRaises, Evaluate,
        Trained, AdapterSaved, Completed, TrainRaises, exportVars, Starts, In, GoesOn, Ends, Breaks, NoCall, Calls
  <2>2. /\ trainer'.loaded \in Explained
        /\ trainer'.configured /\ "prepare" \notin Broken => trainer'.loaded \in Complete
        /\ trainer.configured /\ ~NewTrainer => trainer'.configured
    <3>1. CASE NewTrainer
      <4>1. ~trainer'.configured /\ trainer'.loaded = <<>>
        BY <1>3, <3>1, StartTypes DEF NewTrainer, NoTrainer
      <4> QED
        BY <1>2, <3>1, <4>1
    <3>2. CASE Configured
      <4>1. \/ trainer.configured /\ trainer'.loaded = trainer.loaded
            \/ prepared.is # "absent" /\ trainer'.loaded = prepared.data
        BY <3>2 DEF Configured
      <4>2. trainer'.configured
        BY <3>2 DEF Configured
      <4> QED
        BY <2>1, <4>1, <4>2 DEF DataFits
    <3>3. CASE ~NewTrainer /\ ~Configured
      <4>1. trainer'.configured = trainer.configured /\ trainer'.loaded = trainer.loaded
        BY <1>2, <1>5, <3>3
        DEF TrainerActs, ConfigureTrainer, Train, ConfigureRaises, Evaluate, Trained, AdapterSaved, Completed,
            TrainRaises, Trainers
      <4> QED
        BY <4>1 DEF DataFits
    <3> QED
      BY <3>1, <3>2, <3>3
  <2>3. inCall'.op = "train" /\ inCall'.at # 1 => trainer'.configured
    <3>1. CASE NewTrainer
      BY <1>2, <3>1 DEF NewTrainer, NoCall
    <3>2. CASE Train
      BY <2>2, <3>2 DEF Train, NewTrainer, NoCall
    <3>3. CASE Configured
      BY <3>3 DEF Configured
    <3>4. CASE ~NewTrainer /\ ~Train /\ ~Configured
      <4>1. inCall'.op = "train" => inCall.op = "train" /\ inCall.at # 1
        BY <1>2, <1>5, <3>4
        DEF TrainerActs, ConfigureTrainer, ConfigureRaises, Evaluate, Trained, AdapterSaved, Completed,
            TrainRaises, Starts, In, GoesOn, Ends, Breaks, NoCall, Calls
      <4> QED
        BY <2>2, <3>4, <4>1 DEF DataFits
    <3> QED
      BY <3>1, <3>2, <3>3, <3>4
  <2>4. /\ adapter'.data \in Explained
        /\ adapter'.is = "whole" /\ "prepare" \notin Broken => adapter'.data \in Complete
    <3>1. CASE AdapterSaved
      <4>1. adapter'.data = trainer.loaded /\ trainer.configured
        BY <3>1 DEF AdapterSaved, In, DataFits
      <4> QED
        BY <4>1 DEF DataFits
    <3>2. CASE NewTrainer \/ Trained
      BY <1>2, <1>3, <3>2 DEF NewTrainer, Trained
    <3>3. CASE ~AdapterSaved /\ ~NewTrainer /\ ~Trained
      <4>1. adapter' = adapter
        BY <1>5, <3>3
        DEF TrainerActs, ConfigureTrainer, Train, Configured, ConfigureRaises, Evaluate, Completed, TrainRaises
      <4> QED
        BY <4>1 DEF DataFits
    <3> QED
      BY <3>1, <3>2, <3>3
  <2> QED
    BY <1>1, <2>1, <2>2, <2>3, <2>4 DEF DataFits
<1>6. CASE ExportActs
  <2>1. /\ UNCHANGED <<prepared, trainer, adapter>> /\ inCall.op # "prepare"
        /\ inCall'.op \in {"none", "merge", "convert", "register"}
    BY <1>2, <1>6
    DEF ExportActs, MergeStart, MergeSaves, MergeEnds, MergeRaises, ConvertStart, Fp16Written,
        Fp16Fails, Quantized, QuantizeFails, RegisterStart, ModelfileWritten, ModelfileFails,
        Registered, RegisterFails, Starts, In, GoesOn, Ends, Breaks, NoCall, Calls
  <2>2. /\ merged' \in {merged, adapter, PartOfOne} /\ fp16' \in {fp16, merged, PartOfOne, NoArtifact}
        /\ gguf' \in {gguf, fp16, PartOfOne} /\ served' \in {served, gguf}
    BY <1>6
    DEF ExportActs, MergeStart, MergeSaves, MergeEnds, MergeRaises, ConvertStart, Fp16Written,
        Fp16Fails, Quantized, QuantizeFails, RegisterStart, ModelfileWritten, ModelfileFails,
        Registered, RegisterFails, exportVars
  <2>3. ASSUME NEW a \in {adapter, merged, fp16, gguf, served, PartOfOne, NoArtifact}
        PROVE  a.data \in Explained /\ (a.is = "whole" /\ "prepare" \notin Broken => a.data \in Complete)
    BY <1>2, <1>3 DEF DataFits
  <2>4. ASSUME NEW a \in {merged', fp16', gguf', served'}
        PROVE  a.data \in Explained /\ (a.is = "whole" /\ "prepare" \notin Broken => a.data \in Complete)
    BY <2>2, <2>3
  <2> QED
    BY <1>1, <2>1, <2>4 DEF DataFits
<1>7. CASE Killed
  <2>1. /\ UNCHANGED <<adapter, merged, fp16, gguf, served>> /\ trainer' = NoTrainer /\ inCall'.op = "none"
        /\ inCall.op \in Broken'
    BY <1>7, BreakFacts DEF Killed, exportVars, NoCall
  <2>2. /\ prepared'.data \in Explained
        /\ inCall.op # "prepare" => prepared' = prepared
    <3>1. PICK n \in 0 .. Len(prepared.data) :
            prepared' = IF inCall.op = "prepare"
                        THEN [prepared EXCEPT !.data = SubSeq(@, 1, n)] ELSE prepared
      BY <1>7 DEF Killed
    <3>2. SubSeq(prepared.data, 1, n) \in Explained
      BY <1>2, CutFacts DEF DataFits
    <3>3. [prepared EXCEPT !.data = SubSeq(@, 1, n)].data = SubSeq(prepared.data, 1, n)
      BY <1>2 DEF Artifacts
    <3> QED
      BY <3>1, <3>2, <3>3 DEF DataFits
  <2> QED
    BY <1>1, <1>2, <1>3, <2>1, <2>2 DEF DataFits
<1> QED
  BY <1>4, <1>5, <1>6, <1>7, ActsAreAll

\* A file stays in parts only if the step that was writing it broke.
LEMMA PartsKeep ==
    ASSUME PipelineTypeOK, PartsFit, PipelineNext
    PROVE  PartsFit'
<1>1. /\ Broken \subseteq Broken' /\ inCall \in Calls
      /\ NoArtifact.is = "absent" /\ PartOfOne.is = "partial" /\ NoCall.op = "none"
  BY CallFacts, Lasting, TypeParts DEF NoArtifact, PartOfOne, NoCall
<1>2. CASE PrepareActs
  <2>1. /\ UNCHANGED <<adapter, merged, fp16, gguf, served>>
        /\ inCall.op \in {"none", "prepare"}
    BY <1>1, <1>2 DEF PrepareActs, PrepareStart, PrepareRecord, PrepareRaises, PrepareEnds, exportVars, Starts
  <2> QED
    BY <1>1, <2>1 DEF PartsFit, In
<1>3. CASE TrainerActs
  <2>1. UNCHANGED <<merged, fp16, gguf, served>> /\ inCall.op \in {"none", "configure", "train"}
    BY <1>1, <1>3 DEF TrainerActs, NewTrainer, ConfigureTrainer, Train, Configured, ConfigureRaises, Evaluate,
        Trained, AdapterSaved, Completed, TrainRaises, exportVars, Starts, In
  <2>2. adapter'.is = "partial" => "train" \in Broken' \/ (In("train", 3))'
    <3>1. CASE NewTrainer \/ AdapterSaved
      BY <1>1, <3>1 DEF NewTrainer, AdapterSaved
    <3>2. CASE Trained
      BY <1>1, <3>2 DEF Trained, In, GoesOn, Calls
    <3>3. CASE TrainRaises
      <4>1. "train" \in Broken'
        BY <3>3, BreakFacts DEF TrainRaises
      <4> QED
        BY <4>1
    <3>4. CASE ConfigureTrainer \/ Train \/ Configured \/ ConfigureRaises \/ Evaluate \/ Completed
      <4>1. adapter' = adapter /\ (~In("train", 3) \/ inCall' = inCall)
        BY <1>1, <3>4 DEF ConfigureTrainer, Train, Configured, ConfigureRaises, Evaluate, Completed, Starts, In
      <4> QED
        BY <1>1, <4>1 DEF PartsFit, In
    <3> QED
      BY <1>3, <3>1, <3>2, <3>3, <3>4 DEF TrainerActs
  <2>3. ~In("merge", 2) /\ ~In("convert", 1) /\ ~In("convert", 2)
    BY <2>1 DEF In
  <2> QED
    BY <1>1, <2>1, <2>2, <2>3 DEF PartsFit
<1>4. CASE MergeStart \/ MergeSaves \/ MergeEnds \/ MergeRaises
  <2>1. /\ UNCHANGED <<adapter, fp16, gguf, served>> /\ inCall.op \in {"none", "merge"}
    BY <1>1, <1>4 DEF MergeStart, MergeSaves, MergeEnds, MergeRaises, exportVars, Starts, In
  <2>2. \/ MergeRaises /\ merged' = merged /\ "merge" \in Broken'
        \/ merged' = merged /\ ~In("merge", 2)
        \/ (In("merge", 2))'
        \/ merged' = adapter
    BY <1>1, <1>4, BreakFacts DEF MergeStart, MergeSaves, MergeEnds, MergeRaises, exportVars, Starts, In, GoesOn, Calls
  <2>3. ~In("train", 3) /\ ~In("convert", 1) /\ ~In("convert", 2)
    BY <2>1 DEF In
  <2> QED
    BY <1>1, <2>1, <2>2, <2>3 DEF PartsFit
<1>5. CASE ConvertStart \/ Fp16Written \/ Fp16Fails \/ Quantized \/ QuantizeFails
  <2>1. /\ UNCHANGED <<adapter, merged, served>> /\ inCall.op \in {"none", "convert"}
    BY <1>1, <1>5 DEF ConvertStart, Fp16Written, Fp16Fails, Quantized, QuantizeFails, exportVars, Starts, In
  <2>2. ~In("train", 3) /\ ~In("merge", 2)
    BY <2>1 DEF In
  <2>3. CASE Fp16Fails \/ QuantizeFails
    <3>1. "convert" \in Broken'
      BY <2>3, BreakFacts DEF Fp16Fails, QuantizeFails, In
    <3> QED
      BY <1>1, <2>1, <2>2, <3>1 DEF PartsFit
  <2>4. CASE ConvertStart
    <3>1. (In("convert", 1))' /\ gguf' = gguf /\ ~In("convert", 2)
      BY <1>1, <2>4 DEF ConvertStart, Starts, In
    <3> QED
      BY <1>1, <2>1, <2>2, <3>1 DEF PartsFit
  <2>5. CASE Fp16Written
    <3>1. (In("convert", 2))' /\ fp16' = merged
      BY <1>1, <2>5 DEF Fp16Written, In, GoesOn, Calls
    <3> QED
      BY <1>1, <2>1, <2>2, <3>1 DEF PartsFit
  <2>6. CASE Quantized
    <3>1. gguf' = fp16 /\ fp16'.is = "absent" /\ ~In("convert", 1)
      BY <1>1, <2>6 DEF Quantized, In
    <3> QED
      BY <1>1, <2>1, <2>2, <3>1 DEF PartsFit
  <2> QED
    BY <1>5, <2>3, <2>4, <2>5, <2>6
<1>6. CASE RegisterStart \/ ModelfileWritten \/ ModelfileFails \/ Registered \/ RegisterFails
  <2>1. /\ UNCHANGED <<adapter, merged, fp16, gguf>> /\ inCall.op \in {"none", "register"}
        /\ served' \in {served, gguf}
    BY <1>1, <1>6 DEF RegisterStart, ModelfileWritten, ModelfileFails, Registered, RegisterFails, exportVars, Starts, In
  <2>2. ~In("train", 3) /\ ~In("merge", 2) /\ ~In("convert", 1) /\ ~In("convert", 2)
    BY <2>1 DEF In
  <2> QED
    BY <1>1, <2>1, <2>2 DEF PartsFit
<1>7. CASE Killed
  <2>1. UNCHANGED <<adapter, merged, fp16, gguf, served>> /\ inCall.op \in Broken'
    BY <1>7, BreakFacts DEF Killed, exportVars
  <2> QED
    BY <1>1, <2>1 DEF PartsFit, In
<1> QED
  BY <1>2, <1>3, <1>4, <1>5, <1>6, <1>7, ActsAreAll DEF ExportActs

\* What a step leaves behind is written down as its failure.
LEMMA LeftKeep ==
    ASSUME PipelineTypeOK, LeftFits, PipelineNext
    PROVE  LeftFits'
<1>1. /\ Leaving \subseteq Leaving' /\ inCall \in Calls /\ trainer \in Trainers
      /\ NoArtifact.is = "absent" /\ NoCall.op = "none"
  BY CallFacts, Lasting, TypeParts DEF NoArtifact, NoCall
<1>2. CASE PrepareActs
  <2>1. /\ UNCHANGED <<trainer, adapter, fp16, modelfile>>
        /\ inCall.op \in {"none", "prepare"} /\ inCall'.op \in {"none", "prepare"}
    BY <1>1, <1>2 DEF PrepareActs, PrepareStart, PrepareRecord, PrepareRaises, PrepareEnds, exportVars, Starts,
       GoesOn, Ends, Breaks, Calls
  <2> QED
    BY <1>1, <2>1 DEF LeftFits, In
<1>3. CASE TrainerActs
  <2>1. /\ UNCHANGED <<fp16, modelfile>> /\ inCall.op \in {"none", "configure", "train"}
        /\ inCall'.op \in {"none", "configure", "train"}
    BY <1>1, <1>3 DEF TrainerActs, NewTrainer, ConfigureTrainer, Train, Configured, ConfigureRaises, Evaluate,
        Trained, AdapterSaved, Completed, TrainRaises, exportVars, Starts, In, GoesOn, Ends, Breaks, Calls
  <2>2. /\ trainer'.status = "completed" \/ (In("train", 4))' =>
              adapter' = [is |-> "whole", data |-> trainer'.loaded]
        /\ inCall'.op = "train" => trainer'.status # "completed"
    <3>1. CASE NewTrainer
      BY <1>1, <3>1 DEF NewTrainer, NoTrainer, In
    <3>2. CASE ConfigureTrainer \/ Train \/ Configured
      <4>1. trainer'.status # "completed" /\ ~(In("train", 4))'
        BY <1>1, <3>2 DEF ConfigureTrainer, Train, Configured, Trainers, Starts, In, GoesOn, Ends, Calls
      <4> QED
        BY <4>1
    <3>3. CASE ConfigureRaises
      BY <1>1, <3>3 DEF ConfigureRaises, Breaks, In, LeftFits
    <3>4. CASE Evaluate \/ Trained \/ TrainRaises
      <4>1. trainer'.status # "completed" /\ ~(In("train", 4))'
        BY <1>1, <3>4 DEF Evaluate, Trained, TrainRaises, Trainers, In, GoesOn, Breaks, Calls, LeftFits
      <4> QED
        BY <4>1
    <3>5. CASE AdapterSaved
      <4>1. trainer' = trainer /\ adapter' = [is |-> "whole", data |-> trainer.loaded] /\ inCall.op = "train"
        BY <3>5 DEF AdapterSaved, In
      <4> QED
        BY <4>1 DEF LeftFits
    <3>6. CASE Completed
      <4>1. In("train", 4) /\ trainer'.loaded = trainer.loaded /\ adapter' = adapter /\ inCall'.op = "none"
        BY <1>1, <3>6 DEF Completed, Ends, Trainers
      <4> QED
        BY <4>1 DEF LeftFits
    <3> QED
      BY <1>3, <3>1, <3>2, <3>3, <3>4, <3>5, <3>6 DEF TrainerActs
  <2> QED
    BY <1>1, <2>1, <2>2 DEF LeftFits
<1>4. CASE MergeStart \/ MergeSaves \/ MergeEnds \/ MergeRaises
  <2>1. /\ UNCHANGED <<trainer, adapter, fp16, modelfile>>
        /\ inCall.op \in {"none", "merge"} /\ inCall'.op \in {"none", "merge"}
    BY <1>1, <1>4 DEF MergeStart, MergeSaves, MergeEnds, MergeRaises, exportVars, Starts, In, GoesOn, Ends, Breaks, Calls
  <2> QED
    BY <1>1, <2>1 DEF LeftFits, In
<1>5. CASE ConvertStart \/ Fp16Written \/ Fp16Fails \/ Quantized \/ QuantizeFails
  <2>1. /\ UNCHANGED <<trainer, adapter, modelfile>> /\ inCall.op \in {"none", "convert"}
        /\ inCall'.op = "none" \/ (inCall'.op = "convert" /\ inCall'.at \in {1, 2})
    BY <1>1, <1>5 DEF ConvertStart, Fp16Written, Fp16Fails, Quantized, QuantizeFails, exportVars, Starts, In,
       GoesOn, Ends, Breaks, Calls
  <2>2. fp16'.is # "absent" => "convert" \in Leaving' \/ inCall'.op = "convert"
    <3>1. CASE Fp16Fails
      <4>1. "convert" \in Leaving'
        BY <3>1, BreakFacts DEF Fp16Fails, In
      <4> QED
        BY <4>1
    <3>2. CASE ConvertStart \/ Fp16Written \/ Quantized \/ QuantizeFails
      BY <1>1, <3>2 DEF ConvertStart, Fp16Written, Quantized, QuantizeFails, Starts, In, GoesOn, Calls
    <3> QED
      BY <1>5, <3>1, <3>2
  <2> QED
    BY <1>1, <2>1, <2>2 DEF LeftFits, In
<1>6. CASE RegisterStart \/ ModelfileWritten \/ ModelfileFails \/ Registered \/ RegisterFails
  <2>1. /\ UNCHANGED <<trainer, adapter, fp16>> /\ inCall.op \in {"none", "register"}
        /\ inCall'.op = "none" \/ (inCall'.op = "register" /\ inCall'.at \in {1, 2})
    BY <1>1, <1>6 DEF RegisterStart, ModelfileWritten, ModelfileFails, Registered, RegisterFails, exportVars, Starts,
       In, GoesOn, Ends, Breaks, Calls
  <2>2. modelfile' => "register" \in Leaving' \/ inCall'.op = "register"
    <3>1. CASE ModelfileFails
      <4>1. "register" \in Leaving'
        BY <3>1, BreakFacts DEF ModelfileFails, In
      <4> QED
        BY <4>1
    <3>2. CASE RegisterStart \/ ModelfileWritten
      BY <1>1, <3>2 DEF RegisterStart, ModelfileWritten, Starts, In, GoesOn, Calls
    <3>3. CASE Registered \/ RegisterFails
      BY <3>3 DEF Registered, RegisterFails
    <3> QED
      BY <1>6, <3>1, <3>2, <3>3
  <2> QED
    BY <1>1, <2>1, <2>2 DEF LeftFits, In
<1>7. CASE Killed
  <2>1. /\ UNCHANGED <<adapter, fp16, modelfile>> /\ inCall'.op = "none" /\ trainer'.status = "none"
        /\ inCall.op \in Leaving'
    BY <1>1, <1>7, BreakFacts DEF Killed, exportVars, NoTrainer
  <2> QED
    BY <1>1, <2>1 DEF LeftFits, In
<1> QED
  BY <1>2, <1>3, <1>4, <1>5, <1>6, <1>7, ActsAreAll DEF ExportActs

\* Every step keeps the invariant.
LEMMA PipelineStep == PipelineInv /\ [PipelineNext]_pipelineVars => PipelineInv'
<1>1. CASE PipelineNext
  BY <1>1, PipelineTypes, PrepareKeeps, DataKeeps, PartsKeep, LeftKeep DEF PipelineInv
<1>2. ASSUME PipelineInv, UNCHANGED pipelineVars PROVE PipelineInv'
  <2>1. UNCHANGED <<source, prepared, stats, trainer, adapter, merged, fp16, gguf, modelfile, served, inCall, breaks>>
    BY <1>2 DEF pipelineVars, exportVars
  <2>2. Readings' = Readings /\ Records' = Records /\ Explained' = Explained /\ Complete' = Complete
    BY <2>1, Lasting
  <2>3. Broken' = Broken /\ Leaving' = Leaving
    BY <2>1 DEF Broken, Leaving
  <2>4. PipelineTypeOK'
    BY <1>2, <2>1 DEF PipelineInv, PipelineTypeOK
  <2>5. PrepareFits'
    BY <1>2, <2>1, <2>2 DEF PipelineInv, PrepareFits
  <2>6. DataFits'
    BY <1>2, <2>1, <2>2, <2>3 DEF PipelineInv, DataFits
  <2>7. PartsFit' /\ LeftFits'
    BY <1>2, <2>1, <2>3 DEF PipelineInv, PartsFit, LeftFits, In
  <2> QED
    BY <2>4, <2>5, <2>6, <2>7 DEF PipelineInv
<1> QED
  BY <1>1, <1>2

\* Every file is what the steps that made it say it is.
THEOREM PipelineAlways == PipelineSpec => []PipelineInv
<1>1. PipelineInit => PipelineInv
  <2> SUFFICES ASSUME PipelineInit PROVE PipelineInv
    OBVIOUS
  <2>1. /\ NoCall.op = "none" /\ ~NoStats.whole /\ NoTrainer.status = "none" /\ ~NoTrainer.configured
        /\ NoTrainer.loaded = <<>> /\ NoArtifact.is = "absent" /\ NoArtifact.data = <<>>
    BY DEF NoCall, NoStats, NoTrainer, NoArtifact
  <2>2. PipelineTypeOK
    BY StartTypes, TypeParts DEF PipelineInit
  <2>3. Records \in Nat
    BY <2>2, PipelineAssumption DEF PipelineTypeOK, Records
  <2>4. PrepareFits
    BY <2>1 DEF PipelineInit, PrepareFits
  <2>5. DataFits
    BY <2>1, <2>3, EmptyIsExplained DEF PipelineInit, DataFits
  <2>6. PartsFit /\ LeftFits
    BY <2>1 DEF PipelineInit, PartsFit, LeftFits, In
  <2> QED
    BY <2>2, <2>4, <2>5, <2>6 DEF PipelineInv
<1> QED
  BY <1>1, PipelineStep, PTL DEF PipelineSpec

\* A prepared dataset is complete, the model served is explained by the steps that
\* broke, and nothing is left over without a failure, for any dataset and any
\* sequence of calls and breaks.
THEOREM PipelineStaysSound == PipelineSpec => []PipelineIsSound
<1>1. PipelineInv => PipelineIsSound
  <2> SUFFICES ASSUME PipelineInv PROVE PipelineIsSound
    OBVIOUS
  <2>1. \A d \in Complete : KeepsAll(d)
    BY DEF Complete, Readings, Records, KeepsAll
  <2>2. \A d \in Explained : \E n \in 0 .. Len(source.records) : KeepsFirst(d, n)
    BY DEF Explained, Readings, Records
  <2>3. \A op \in Broken : Broke(op)
    BY DEF Broken, Broke
  <2>4. PreparedIsComplete
    BY <2>1 DEF PipelineInv, PrepareFits, PreparedIsComplete, Records
  <2>5. ServedIsExplained
    <3>1. served.data \in Explained
      BY DEF PipelineInv, DataFits
    <3>2. served.is = "whole" => served.data \in Complete \/ "prepare" \in Broken
      BY DEF PipelineInv, DataFits
    <3>3. served.is = "partial" => {"train", "merge", "convert"} \cap Broken # {}
      BY DEF PipelineInv, PartsFit
    <3> QED
      BY <2>1, <2>2, <2>3, <3>1, <3>2, <3>3 DEF ServedIsExplained
  <2>6. NothingIsLeftOver
    <3>1. \A op \in Leaving : \E b \in breaks : b.op = op /\ (b.at = 1 \/ b.how = "killed")
      BY DEF Leaving
    <3> QED
      BY <3>1 DEF PipelineInv, LeftFits, NothingIsLeftOver, NoCall
  <2> QED
    BY <2>4, <2>5, <2>6 DEF PipelineIsSound
<1> QED
  BY <1>1, PipelineAlways, PTL

----------------------------------------------------------------------
(* Personas.                                                               *)

\* The invariant behind SavedIsTold: nobody but the file routes replaces a file
\* that is there, and they keep the history.
EditsStay == \A p \in Presets : edited[p] # "none" => agentSoul[p] = edited[p]

PersonaInv == PersonasTypeOK /\ EditsStay

\* The workspace the routes find is one there is, and names are told apart.
LEMMA WorkspaceFacts ==
    ASSUME PersonasTypeOK
    PROVE  /\ Workspace \in Workspaces /\ AssemblerWorkspace \in Workspaces
           /\ env.name \in Homes /\ Cached \in Workspaces
           /\ Homes \subseteq Workspaces /\ Presets \subseteq Homes /\ Presets \subseteq Texts
           /\ "none" \notin Presets /\ "none" \notin Workspaces
  BY PersonasAssumption
     DEF PersonasTypeOK, Workspace, AssemblerWorkspace, Cached, Workspaces, Homes, Texts, Blank

\* Every step keeps the types, and a file a user has edited as it was edited.
LEMMA PersonaStep == PersonaInv /\ [PersonaNext]_personaVars => PersonaInv'
<1> SUFFICES ASSUME PersonaInv, [PersonaNext]_personaVars PROVE PersonaInv'
  OBVIOUS
<1>1. /\ env \in [explicit : BOOLEAN, name : Homes]
      /\ soul \in [Workspaces -> Texts \cup Blank]
      /\ agentSoul \in [Presets -> Texts \cup {"none", "blank"}]
      /\ edited \in [Presets -> Texts \cup {"none", "blank"}]
      /\ activated \in Presets \cup {"none"} /\ assembler \in Workspaces \cup {"none"}
      /\ \A p \in Presets : edited[p] # "none" => agentSoul[p] = edited[p]
  BY DEF PersonaInv, PersonasTypeOK, EditsStay
<1>2. /\ Workspace \in Workspaces /\ env.name \in Homes /\ Cached \in Workspaces
      /\ Homes \subseteq Workspaces /\ Presets \subseteq Homes /\ Presets \subseteq Texts
      /\ "none" \notin Presets
  BY WorkspaceFacts DEF PersonaInv
<1> USE DEF PersonaInv, PersonasTypeOK, EditsStay
<1>3. CASE Prompted
  BY <1>1, <1>2, <1>3 DEF Prompted
<1>4. ASSUME NEW t \in Texts, SaveSoul(t) PROVE PersonaInv'
  BY <1>1, <1>2, <1>4 DEF SaveSoul, Left, Blank
<1>5. ASSUME NEW p \in Presets, PersonaSet(p) PROVE PersonaInv'
  <2>1. Target(p) \in Workspaces
    BY <1>2 DEF Target, Workspaces
  <2> QED
    BY <1>1, <1>2, <1>5, <2>1 DEF PersonaSet, Left, Blank
<1>6. ASSUME NEW p \in Presets, Activate(p) PROVE PersonaInv'
  BY <1>1, <1>2, <1>6 DEF Activate, Left
<1>7. CASE Scaffold
  <2>1. /\ DOMAIN agentSoul' = Presets /\ UNCHANGED <<env, soul, activated, assembler, edited>>
        /\ \A p \in Presets : IF agentSoul[p] # "none" THEN agentSoul'[p] = agentSoul[p]
                              ELSE agentSoul'[p] \in {"none", "blank", p}
    BY <1>1, <1>7 DEF Scaffold
  <2> QED
    BY <1>1, <1>2, <1>7, <2>1 DEF Scaffold
<1>8. ASSUME NEW p \in Presets, NEW t \in Texts, WriteSoul(p, t) PROVE PersonaInv'
  BY <1>1, <1>2, <1>8 DEF WriteSoul, Left
<1>9. ASSUME NEW p \in Presets, DeleteSoul(p) PROVE PersonaInv'
  BY <1>1, <1>2, <1>9 DEF DeleteSoul
<1>10. ASSUME NEW w \in Workspaces, RemoveWorkspace(w) PROVE PersonaInv'
  BY <1>1, <1>2, <1>10 DEF RemoveWorkspace, Blank
<1>11. CASE RestartPersonas
  BY <1>1, <1>2, <1>11 DEF RestartPersonas
<1>12. CASE UNCHANGED personaVars
  BY <1>1, <1>12 DEF personaVars
<1> QED
  BY <1>3, <1>4, <1>5, <1>6, <1>7, <1>8, <1>9, <1>10, <1>11, <1>12 DEF PersonaNext

\* Every variable stays in its type and an edited file stays as it was edited.
THEOREM PersonasAlways == PersonaSpec => []PersonaInv
<1>1. PersonaInit => PersonaInv
  BY DEF PersonaInit, PersonaInv, PersonasTypeOK, EditsStay, Blank
<1> QED
  BY <1>1, PersonaStep, PTL DEF PersonaSpec

\* A chat is told what was saved, whichever persona was edited, activated or
\* scaffolded in between, for any list of presets.
THEOREM WhatIsSavedIsTold == PersonaSpec => []SavedIsTold
<1>1. PersonaInv => SavedIsTold
  <2> SUFFICES ASSUME PersonaInv PROVE SavedIsTold
    OBVIOUS
  <2>1. ASSUME NEW p \in Presets, edited[p] # "none"
        PROVE  /\ agentSoul[p] = edited[p]
               /\ activated = p /\ edited[p] # "blank" => Told = edited[p]
    <3>1. agentSoul[p] = edited[p] /\ agentSoul[p] # "none"
      BY <2>1 DEF PersonaInv, EditsStay
    <3>2. agentSoul[p] # "nodir" /\ p # "none"
      BY PersonasAssumption DEF PersonaInv, PersonasTypeOK, Texts, Blank
    <3> QED
      BY <3>1, <3>2 DEF Told, IsActive, Blank
  <2>2. ASSUME activated = "none", assembler \in {"none", Workspace}, soul[Workspace] \notin Blank
        PROVE  Told = soul[Workspace]
    <3>1. Cached = Workspace
      BY <2>2 DEF Cached, Workspace, AssemblerWorkspace
    <3> QED
      BY <2>2, <3>1 DEF Told, IsActive, Assembled
  <2> QED
    BY <2>1, <2>2 DEF SavedIsTold
<1> QED
  BY <1>1, PersonasAlways, PTL

----------------------------------------------------------------------
(* Conversations and memories.                                             *)

\* A row of conversations keeps what its conversation was created with.
StoredTyped ==
    /\ fresh \subseteq Ids /\ Stored \subseteq Ids \ fresh
    /\ conv = [i \in Stored |-> conv[i]]
    /\ \A i \in Stored :
          /\ conv[i] \in [row : {conv[i].row}, title : Titles, messages : 0 .. MaxSize, old : BOOLEAN]
          /\ conv[i].messages = size[i]
    /\ size \in [Ids -> 0 .. MaxSize]
    /\ index \in Seq(Titles)

\* As long as none was deleted the rows are numbered one by one, in the table and
\* in the index.
RowsAreIndexed ==
    Stored = Ids \ fresh =>
        /\ Len(index) = Cardinality(Stored)
        /\ \A i \in Stored : conv[i].row \in 1 .. Len(index) /\ index[conv[i].row] = conv[i].title
        /\ \A n \in 1 .. Len(index) : \E i \in Stored : conv[i].row = n

PassTyped ==
    /\ pass \in [step : {"idle", "listed", "next", "write"}, todo : SUBSET (Ids \ fresh),
                 done : SUBSET Ids, messages : 0 .. MaxSize]
    /\ memory \in Seq([id : Ids \ fresh, messages : 0 .. MaxSize, sample : 0 .. MaxSize])
    /\ pass.step = "idle" => pass = NoPass

Remembered == {memory[k].id : k \in DOMAIN memory}

\* What a pass still has to do is stored or was deleted while it was listed, and
\* nothing it will write has a memory yet; the messages it has read are those of
\* the conversation it writes next.
PassIsSound ==
    /\ pass.todo \subseteq Stored \cup missed
    /\ pass.step = "next" => pass.todo \cap Remembered \subseteq pass.done
    /\ pass.step = "write" =>
          /\ pass.todo \cap Remembered = {}
          /\ \E i \in pass.todo :
                /\ \A j \in pass.todo : i <= j
                /\ pass.messages = size[i] \/ i \in missed

ConvInv == StoredTyped /\ RowsAreIndexed /\ PassTyped /\ PassIsSound /\ MemoriesAreSound

\* The next row number is that after the last row as long as none was deleted.
LEMMA NextRowFacts ==
    ASSUME StoredTyped, RowsAreIndexed, Stored = Ids \ fresh, NEW i \in fresh
    PROVE  NextRow = Len(index) + 1
<1>1. IsFiniteSet(Stored) /\ Cardinality(Stored) < Cardinality(Ids) /\ Cardinality(Ids) \in Nat
  <2>1. Stored \subseteq Ids /\ i \in Ids \ Stored /\ IsFiniteSet(Ids)
    BY ConversationsAssumption DEF StoredTyped
  <2>2. IsFiniteSet(Stored) /\ Cardinality(Stored) <= Cardinality(Ids)
        /\ (Cardinality(Ids) = Cardinality(Stored) => Ids = Stored)
    BY <2>1, FS_Subset
  <2>3. Cardinality(Stored) \in Nat /\ Cardinality(Ids) \in Nat
    BY <2>1, <2>2, FS_CardinalityType
  <2> QED
    BY <2>1, <2>2, <2>3
<1> DEFINE P(n) == /\ \A c \in Stored : conv[c].row < n
                   /\ n = 1 \/ \E c \in Stored : conv[c].row = n - 1
<1>2. Len(index) \in Nat /\ Len(index) + 1 \in 1 .. Cardinality(Ids)
  BY <1>1 DEF RowsAreIndexed, StoredTyped
<1>3. P(Len(index) + 1)
  <2>1. \A c \in Stored : conv[c].row < Len(index) + 1
    BY <1>2 DEF RowsAreIndexed
  <2>2. Len(index) # 0 => \E c \in Stored : conv[c].row = Len(index) + 1 - 1
    BY <1>2 DEF RowsAreIndexed
  <2> QED
    BY <1>2, <2>1, <2>2
<1>4. \A n \in 1 .. Cardinality(Ids) : P(n) => n = Len(index) + 1
  <2> SUFFICES ASSUME NEW n \in 1 .. Cardinality(Ids), P(n) PROVE n = Len(index) + 1
    OBVIOUS
  <2>1. n <= Len(index) + 1
    <3>1. CASE n = 1
      BY <1>2, <3>1
    <3>2. CASE \E c \in Stored : conv[c].row = n - 1
      BY <1>1, <1>2, <3>2 DEF RowsAreIndexed
    <3> QED
      BY <3>1, <3>2
  <2>2. ~(n < Len(index) + 1)
    BY <1>1, <1>2 DEF RowsAreIndexed
  <2> QED
    BY <1>1, <1>2, <2>1, <2>2
<1>5. NextRow = CHOOSE n \in 1 .. Cardinality(Ids) : P(n)
  BY DEF NextRow
<1> HIDE DEF P
<1> QED
  BY <1>2, <1>3, <1>4, <1>5

\* A new conversation gets the row that its title gets in the index.
LEMMA CreateKeeps ==
    ASSUME ConvInv, NEW i \in Ids, NEW t \in Titles, NEW n \in 0 .. MaxSize, CreateConversation(i, t, n)
    PROVE  ConvInv'
<1> DEFINE row == [row |-> NextRow, title |-> t, messages |-> n, old |-> FALSE]
<1>1. /\ i \in fresh /\ fresh' = fresh \ {i} /\ fresh \subseteq Ids /\ Stored \subseteq Ids \ fresh
      /\ conv' = [c \in Stored \cup {i} |-> IF c = i THEN row ELSE conv[c]]
      /\ index' = Append(index, t) /\ size' = [size EXCEPT ![i] = n]
      /\ UNCHANGED <<pass, memory, missed>>
  BY DEF CreateConversation, ConvInv, StoredTyped
<1>2. row.row = NextRow /\ row.title = t /\ row.messages = n
      /\ row \in [row : {row.row}, title : Titles, messages : 0 .. MaxSize, old : BOOLEAN]
  OBVIOUS
<1> HIDE DEF row
<1>3. /\ Stored' = Stored \cup {i} /\ conv'[i] = row /\ i \notin Stored
      /\ \A c \in Stored : conv'[c] = conv[c]
      /\ conv' = [c \in Stored' |-> conv'[c]]
  BY <1>1 DEF Stored
<1>4. /\ size \in [Ids -> 0 .. MaxSize] /\ size' \in [Ids -> 0 .. MaxSize] /\ size'[i] = n
      /\ \A c \in Ids \ {i} : size'[c] = size[c]
  BY <1>1 DEF ConvInv, StoredTyped
<1>5. /\ index \in Seq(Titles) /\ index' \in Seq(Titles) /\ Len(index') = Len(index) + 1
      /\ Len(index) \in Nat /\ index'[Len(index) + 1] = t
      /\ \A k \in 1 .. Len(index) : index'[k] = index[k]
  BY <1>1 DEF ConvInv, StoredTyped
<1>6. StoredTyped'
  <2>1. ASSUME NEW c \in Stored'
        PROVE  /\ conv'[c] \in [row : {conv'[c].row}, title : Titles, messages : 0 .. MaxSize, old : BOOLEAN]
               /\ conv'[c].messages = size'[c]
    <3>1. CASE c = i
      BY <1>2, <1>3, <1>4, <3>1
    <3>2. CASE c # i
      <4>1. c \in Stored /\ conv'[c] = conv[c] /\ size'[c] = size[c]
        BY <1>1, <1>3, <1>4, <2>1, <3>2
      <4> QED
        BY <4>1 DEF ConvInv, StoredTyped
    <3> QED
      BY <3>1, <3>2
  <2>2. fresh' \subseteq Ids /\ Stored' \subseteq Ids \ fresh'
    BY <1>1, <1>3
  <2> QED
    BY <1>3, <1>4, <1>5, <2>1, <2>2 DEF StoredTyped
<1>7. RowsAreIndexed'
  <2> SUFFICES ASSUME Stored' = Ids \ fresh'
               PROVE  /\ Len(index') = Cardinality(Stored')
                      /\ \A c \in Stored' : conv'[c].row \in 1 .. Len(index')
                                            /\ index'[conv'[c].row] = conv'[c].title
                      /\ \A k \in 1 .. Len(index') : \E c \in Stored' : conv'[c].row = k
    BY DEF RowsAreIndexed
  <2>1. Stored = Ids \ fresh
    BY <1>1, <1>3
  <2>2. NextRow = Len(index) + 1 /\ RowsAreIndexed
    BY <1>1, <2>1, NextRowFacts DEF ConvInv
  <2>3. Len(index') = Cardinality(Stored')
    <3>1. IsFiniteSet(Stored)
      BY <1>1, FS_Subset, ConversationsAssumption
    <3>2. Cardinality(Stored \cup {i}) = Cardinality(Stored) + 1
      BY <1>3, <3>1, FS_AddElement
    <3>3. Len(index) = Cardinality(Stored)
      BY <2>1, <2>2 DEF RowsAreIndexed
    <3> QED
      BY <1>3, <1>5, <3>2, <3>3
  <2>4. ASSUME NEW c \in Stored'
        PROVE  conv'[c].row \in 1 .. Len(index') /\ index'[conv'[c].row] = conv'[c].title
    <3>1. CASE c = i
      BY <1>2, <1>3, <1>5, <2>2, <3>1
    <3>2. CASE c # i
      <4>1. c \in Stored /\ conv'[c] = conv[c]
        BY <1>3, <2>4, <3>2
      <4>2. conv[c].row \in 1 .. Len(index) /\ index[conv[c].row] = conv[c].title
        BY <2>1, <2>2, <4>1 DEF RowsAreIndexed
      <4> QED
        BY <1>5, <4>1, <4>2
    <3> QED
      BY <3>1, <3>2
  <2>5. ASSUME NEW k \in 1 .. Len(index') PROVE \E c \in Stored' : conv'[c].row = k
    <3>1. CASE k = Len(index) + 1
      BY <1>2, <1>3, <2>2, <3>1
    <3>2. CASE k # Len(index) + 1
      <4>1. k \in 1 .. Len(index)
        BY <1>5, <3>2
      <4>2. PICK c \in Stored : conv[c].row = k
        BY <2>1, <2>2, <4>1 DEF RowsAreIndexed
      <4> QED
        BY <1>3, <4>2
    <3> QED
      BY <3>1, <3>2
  <2> QED
    BY <2>3, <2>4, <2>5
<1>8. PassTyped'
  <2>1. Ids \ fresh \subseteq Ids \ fresh'
    BY <1>1
  <2> DEFINE M == [id : Ids \ fresh, messages : 0 .. MaxSize, sample : 0 .. MaxSize]
             N == [id : Ids \ fresh', messages : 0 .. MaxSize, sample : 0 .. MaxSize]
  <2>2. M \subseteq N
    BY <2>1
  <2> HIDE DEF M, N
  <2>3. memory' \in Seq(N)
    <3>1. memory \in Seq(M) /\ memory' = memory
      BY <1>1 DEF ConvInv, PassTyped, M
    <3> QED
      BY <2>2, <3>1
  <2>4. pass' \in [step : {"idle", "listed", "next", "write"}, todo : SUBSET (Ids \ fresh'),
                   done : SUBSET Ids, messages : 0 .. MaxSize]
    BY <1>1, <2>1 DEF ConvInv, PassTyped
  <2> QED
    BY <1>1, <2>3, <2>4 DEF ConvInv, PassTyped, N
<1>9. /\ \A c \in Ids \ fresh : size'[c] = size[c] /\ pass.todo \subseteq Ids \ fresh
      /\ \A k \in DOMAIN memory : memory[k].id \in Ids \ fresh
  <2>1. \A c \in Ids \ fresh : size'[c] = size[c]
    BY <1>1, <1>4
  <2>2. pass.todo \subseteq Ids \ fresh
    BY DEF ConvInv, PassTyped
  <2>3. \A k \in DOMAIN memory : memory[k].id \in Ids \ fresh
    <3> DEFINE M == [id : Ids \ fresh, messages : 0 .. MaxSize, sample : 0 .. MaxSize]
    <3>1. memory \in Seq(M) /\ \A m \in M : m.id \in Ids \ fresh
      BY DEF ConvInv, PassTyped
    <3> HIDE DEF M
    <3> QED
      BY <3>1
  <2> QED
    BY <2>1, <2>2, <2>3
<1>10. PassIsSound'
  BY <1>1, <1>3, <1>9 DEF ConvInv, PassIsSound, Remembered
<1>11. MemoriesAreSound'
  BY <1>1, <1>9 DEF ConvInv, MemoriesAreSound
<1> QED
  BY <1>6, <1>7, <1>8, <1>10, <1>11 DEF ConvInv

\* A conversation is deleted, and noted when a pass has it listed.
LEMMA DeleteKeeps == ASSUME ConvInv, NEW i \in Ids, DeleteConversation(i) PROVE ConvInv'
<1>1. /\ i \in Stored /\ fresh \subseteq Ids /\ Stored \subseteq Ids \ fresh
      /\ conv' = [c \in Stored \ {i} |-> conv[c]]
      /\ missed' = IF i \in pass.todo THEN missed \cup {i} ELSE missed
      /\ UNCHANGED <<fresh, index, pass, memory, size>>
  BY DEF DeleteConversation, ConvInv, StoredTyped
<1>2. /\ Stored' = Stored \ {i} /\ \A c \in Stored' : conv'[c] = conv[c]
      /\ conv' = [c \in Stored' |-> conv'[c]]
  BY <1>1 DEF Stored
<1>3. StoredTyped'
  BY <1>1, <1>2 DEF ConvInv, StoredTyped
<1>4. RowsAreIndexed'
  BY <1>1, <1>2 DEF RowsAreIndexed
<1>5. PassTyped'
  BY <1>1 DEF ConvInv, PassTyped
<1>6. PassIsSound' /\ MemoriesAreSound'
  <2>1. missed \subseteq missed' /\ (Stored \cup missed) \cap pass.todo \subseteq Stored' \cup missed'
    BY <1>1, <1>2
  <2> QED
    BY <1>1, <2>1 DEF ConvInv, PassIsSound, MemoriesAreSound, Remembered
<1> QED
  BY <1>3, <1>4, <1>5, <1>6 DEF ConvInv

\* Getting old changes nothing but the mark a pass looks for.
LEMMA AgeKeeps == ASSUME ConvInv, NEW i \in Ids, Age(i) PROVE ConvInv'
<1>1. /\ i \in Stored /\ conv' = [conv EXCEPT ![i].old = TRUE]
      /\ UNCHANGED <<fresh, index, pass, memory, size, missed>>
  BY DEF Age
<1> DEFINE r == [conv[i] EXCEPT !.old = TRUE]
<1>2. /\ r \in [row : {conv[i].row}, title : Titles, messages : 0 .. MaxSize, old : BOOLEAN]
      /\ r.row = conv[i].row /\ r.title = conv[i].title /\ r.messages = conv[i].messages
  BY <1>1 DEF ConvInv, StoredTyped
<1>3. conv' = [conv EXCEPT ![i] = r]
  BY <1>1
<1> HIDE DEF r
<1>4. /\ Stored' = Stored /\ conv'[i] = r /\ \A c \in Stored \ {i} : conv'[c] = conv[c]
      /\ conv' = [c \in Stored' |-> conv'[c]]
  BY <1>1, <1>3 DEF Stored, ConvInv, StoredTyped
<1>5. ASSUME NEW c \in Stored
      PROVE  /\ conv'[c] \in [row : {conv'[c].row}, title : Titles, messages : 0 .. MaxSize, old : BOOLEAN]
             /\ conv'[c].row = conv[c].row /\ conv'[c].title = conv[c].title
             /\ conv'[c].messages = conv[c].messages
  <2>1. CASE c = i
    BY <1>2, <1>4, <2>1
  <2>2. CASE c # i
    BY <1>4, <2>2 DEF ConvInv, StoredTyped
  <2> QED
    BY <2>1, <2>2
<1>6. StoredTyped'
  BY <1>1, <1>4, <1>5 DEF ConvInv, StoredTyped
<1>7. RowsAreIndexed'
  <2> SUFFICES ASSUME Stored = Ids \ fresh
               PROVE  /\ Len(index) = Cardinality(Stored)
                      /\ \A c \in Stored : conv'[c].row \in 1 .. Len(index)
                                            /\ index[conv'[c].row] = conv'[c].title
                      /\ \A k \in 1 .. Len(index) : \E c \in Stored : conv'[c].row = k
    BY <1>1, <1>4 DEF RowsAreIndexed
  <2>1. /\ Len(index) = Cardinality(Stored)
        /\ \A c \in Stored : conv[c].row \in 1 .. Len(index) /\ index[conv[c].row] = conv[c].title
        /\ \A k \in 1 .. Len(index) : \E c \in Stored : conv[c].row = k
    BY DEF ConvInv, RowsAreIndexed
  <2>2. \A c \in Stored : conv'[c].row = conv[c].row /\ conv'[c].title = conv[c].title
    BY <1>5
  <2>3. \A k \in 1 .. Len(index) : \E c \in Stored : conv'[c].row = k
    BY <2>1, <2>2
  <2> QED
    BY <2>1, <2>2, <2>3
<1>8. PassTyped' /\ PassIsSound' /\ MemoriesAreSound'
  BY <1>1, <1>4 DEF ConvInv, PassTyped, PassIsSound, MemoriesAreSound, Remembered
<1> QED
  BY <1>6, <1>7, <1>8 DEF ConvInv

\* The steps of a pass change only the pass, but for the memory it writes.
LEMMA FetchKeeps ==
    ASSUME ConvInv, FetchOldConversations \/ FetchConsolidatedIds \/ FetchMessages
    PROVE  ConvInv'
<1>1. UNCHANGED <<conv, fresh, index, memory, size, missed>> /\ Stored' = Stored
  BY DEF FetchOldConversations, FetchConsolidatedIds, FetchMessages, Stored
<1> DEFINE Passes == [step : {"idle", "listed", "next", "write"}, todo : SUBSET (Ids \ fresh),
                      done : SUBSET Ids, messages : 0 .. MaxSize]
<1>2. pass \in Passes /\ Stored \subseteq Ids \ fresh /\ fresh \subseteq Ids
  BY DEF ConvInv, PassTyped, StoredTyped
<1>3. /\ pass' \in Passes /\ pass'.step \in {"listed", "next", "write"}
      /\ pass'.todo \subseteq Stored \cup missed
      /\ pass'.step = "next" => pass'.todo \cap Remembered \subseteq pass'.done
      /\ pass'.step = "write" =>
            /\ pass'.todo \cap Remembered = {}
            /\ \E i \in pass'.todo :
                  /\ \A j \in pass'.todo : i <= j
                  /\ pass'.messages = size[i] \/ i \in missed
  <2>1. CASE FetchOldConversations
    <3> DEFINE old == {i \in Stored : conv[i].old}
    <3>1. old \in SUBSET (Ids \ fresh) /\ old \subseteq Stored
      BY <1>2
    <3>2. pass' = [NoPass EXCEPT !.step = "listed", !.todo = old]
      BY <2>1 DEF FetchOldConversations
    <3> HIDE DEF old
    <3>3. pass' \in Passes /\ pass'.todo = old /\ pass'.step = "listed"
      <4>1. NoPass \in Passes
        BY ConversationsAssumption DEF NoPass
      <4> QED
        BY <3>1, <3>2, <4>1
    <3> QED
      BY <3>1, <3>3
  <2>2. CASE FetchConsolidatedIds
    <3>1. Remembered \in SUBSET Ids
      <4> DEFINE M == [id : Ids \ fresh, messages : 0 .. MaxSize, sample : 0 .. MaxSize]
      <4>1. memory \in Seq(M) /\ \A m \in M : m.id \in Ids
        BY DEF ConvInv, PassTyped
      <4> HIDE DEF M
      <4> QED
        BY <4>1 DEF Remembered
    <3>2. pass' = [pass EXCEPT !.step = "next", !.done = Remembered]
      BY <2>2 DEF FetchConsolidatedIds, Remembered
    <3>3. pass' \in Passes /\ pass'.todo = pass.todo /\ pass'.step = "next" /\ pass'.done = Remembered
      BY <1>2, <3>1, <3>2
    <3> QED
      BY <3>3 DEF ConvInv, PassIsSound
  <2>3. CASE FetchMessages
    <3>1. PICK i \in Pending :
             /\ \A j \in Pending : i <= j
             /\ pass' = [pass EXCEPT !.step = "write", !.todo = Pending,
                                     !.messages = IF i \in Stored THEN conv[i].messages ELSE 0]
      BY <2>3 DEF FetchMessages
    <3> DEFINE n == IF i \in Stored THEN conv[i].messages ELSE 0
    <3>2. /\ n \in 0 .. MaxSize /\ Pending \in SUBSET (Ids \ fresh) /\ Pending \subseteq Stored \cup missed
          /\ n = size[i] \/ i \in missed
      <4>1. Pending \subseteq pass.todo /\ pass.todo \in SUBSET (Ids \ fresh)
        BY <1>2 DEF Pending
      <4>2. Pending \subseteq Stored \cup missed
        BY <4>1 DEF ConvInv, PassIsSound
      <4>3. i \in Stored => conv[i].messages \in 0 .. MaxSize /\ conv[i].messages = size[i]
        BY DEF ConvInv, StoredTyped
      <4>4. n \in 0 .. MaxSize
        BY <4>3, ConversationsAssumption
      <4> QED
        BY <4>1, <4>2, <4>3, <4>4
    <3>3. pass.step = "next" /\ Pending \cap Remembered = {}
      BY <2>3 DEF FetchMessages, Pending, ConvInv, PassIsSound
    <3> HIDE DEF n
    <3>4. pass' = [pass EXCEPT !.step = "write", !.todo = Pending, !.messages = n]
      BY <3>1 DEF n
    <3>5. pass' \in Passes /\ pass'.todo = Pending /\ pass'.step = "write" /\ pass'.messages = n
      BY <1>2, <3>2, <3>4
    <3> QED
      BY <3>1, <3>2, <3>3, <3>5
  <2> QED
    BY <2>1, <2>2, <2>3
<1>4. StoredTyped' /\ RowsAreIndexed' /\ MemoriesAreSound'
  BY <1>1 DEF ConvInv, StoredTyped, RowsAreIndexed, MemoriesAreSound
<1>5. PassTyped'
  BY <1>1, <1>3 DEF ConvInv, PassTyped
<1>6. PassIsSound'
  BY <1>1, <1>3 DEF PassIsSound, Remembered
<1> QED
  BY <1>4, <1>5, <1>6 DEF ConvInv

\* A pass ends, or its process dies.
LEMMA EndKeeps == ASSUME ConvInv, PassEnds \/ PassDies PROVE ConvInv'
<1>1. pass' = NoPass /\ UNCHANGED <<conv, fresh, index, memory, size, missed>> /\ Stored' = Stored
  BY DEF PassEnds, PassDies, Stored
<1>2. /\ NoPass \in [step : {"idle", "listed", "next", "write"}, todo : SUBSET (Ids \ fresh),
                     done : SUBSET Ids, messages : 0 .. MaxSize]
      /\ NoPass.step = "idle" /\ NoPass.todo = {}
  BY ConversationsAssumption DEF NoPass
<1>3. StoredTyped' /\ RowsAreIndexed' /\ MemoriesAreSound'
  BY <1>1 DEF ConvInv, StoredTyped, RowsAreIndexed, MemoriesAreSound
<1>4. PassTyped' /\ PassIsSound'
  BY <1>1, <1>2 DEF ConvInv, PassTyped, PassIsSound
<1> QED
  BY <1>3, <1>4 DEF ConvInv

\* The conversation that comes first has no memory yet and gets one, or none.
LEMMA WriteMemoryKeeps == ASSUME ConvInv, WriteMemory \/ WriteMemoryFails PROVE ConvInv'
<1> DEFINE M == [id : Ids \ fresh, messages : 0 .. MaxSize, sample : 0 .. MaxSize]
           Passes == [step : {"idle", "listed", "next", "write"}, todo : SUBSET (Ids \ fresh),
                      done : SUBSET Ids, messages : 0 .. MaxSize]
           m == [id |-> First, messages |-> pass.messages, sample |-> Sampled(pass.messages)]
           rest == pass.todo \ {First}
<1>1. /\ pass.step = "write" /\ UNCHANGED <<conv, fresh, index, size, missed>> /\ Stored' = Stored
      /\ pass' = [pass EXCEPT !.step = "next", !.todo = rest, !.messages = 0]
      /\ memory' = Append(memory, m) \/ memory' = memory
  BY DEF WriteMemory, WriteMemoryFails, Stored
<1>2. /\ pass \in Passes /\ memory \in Seq(M) /\ Stored \subseteq Ids \ fresh
      /\ pass.todo \subseteq Ids \ fresh /\ pass.messages \in 0 .. MaxSize
  BY DEF ConvInv, PassTyped, StoredTyped
<1>3. /\ First \in pass.todo
      /\ pass.messages = size[First] \/ First \in missed
      /\ pass.todo \cap Remembered = {} /\ pass.todo \subseteq Stored \cup missed
  <2>1. PICK i \in pass.todo : /\ \A j \in pass.todo : i <= j
                               /\ pass.messages = size[i] \/ i \in missed
    BY <1>1 DEF ConvInv, PassIsSound
  <2>2. First \in pass.todo /\ \A j \in pass.todo : First <= j
    BY <2>1 DEF First
  <2>3. First = i
    <3>1. First <= i /\ i <= First /\ First \in Nat /\ i \in Nat
      BY <1>2, <2>1, <2>2, ConversationsAssumption
    <3> QED
      BY <3>1
  <2> QED
    BY <1>1, <2>1, <2>3 DEF ConvInv, PassIsSound
<1>4. m \in M /\ m.id = First /\ m.messages = pass.messages
  <2>1. Sampled(pass.messages) \in 0 .. MaxSize
    BY <1>2, ConversationsAssumption DEF Sampled
  <2>2. First \in Ids \ fresh
    BY <1>2, <1>3
  <2> QED
    BY <1>2, <2>1, <2>2
<1>5. pass' \in Passes /\ pass'.step = "next" /\ pass'.todo = rest
  <2>1. 0 \in 0 .. MaxSize /\ rest \in SUBSET (Ids \ fresh)
    BY <1>2, ConversationsAssumption
  <2> HIDE DEF rest
  <2> QED
    BY <1>1, <1>2, <2>1
<1> HIDE DEF M, m
<1>6. /\ memory' \in Seq(M)
      /\ \A k \in DOMAIN memory' : \/ k \in DOMAIN memory /\ memory'[k] = memory[k]
                                   \/ k = Len(memory) + 1 /\ memory'[k] = m
      /\ Len(memory) + 1 \notin DOMAIN memory
  <2>1. CASE memory' = memory
    BY <1>2, <2>1
  <2>2. CASE memory' = Append(memory, m)
    BY <1>2, <1>4, <2>2
  <2> QED
    BY <1>1, <2>1, <2>2
<1>7. StoredTyped' /\ RowsAreIndexed'
  BY <1>1 DEF ConvInv, StoredTyped, RowsAreIndexed
<1>8. PassTyped'
  BY <1>1, <1>5, <1>6 DEF PassTyped, M
<1>9. Remembered' \subseteq Remembered \cup {First}
  BY <1>4, <1>6 DEF Remembered
<1>10. PassIsSound'
  <2>1. pass'.todo \subseteq Stored' \cup missed' /\ pass'.todo \cap Remembered' = {}
    BY <1>1, <1>3, <1>5, <1>9
  <2> QED
    BY <1>5, <2>1 DEF PassIsSound
<1>11. MemoriesAreSound'
  <2>1. ASSUME NEW k \in DOMAIN memory', NEW l \in DOMAIN memory', memory'[k].id = memory'[l].id
        PROVE  k = l
    <3>1. \A j \in DOMAIN memory : memory[j].id # First
      <4>1. First \notin Remembered
        BY <1>3
      <4> QED
        BY <4>1 DEF Remembered
    <3> QED
      BY <1>4, <1>6, <2>1, <3>1 DEF ConvInv, MemoriesAreSound
  <2>2. ASSUME NEW k \in DOMAIN memory'
        PROVE  memory'[k].messages = size'[memory'[k].id] \/ memory'[k].id \in missed'
    BY <1>1, <1>3, <1>4, <1>6 DEF ConvInv, MemoriesAreSound
  <2> QED
    BY <2>1, <2>2 DEF MemoriesAreSound
<1> QED
  BY <1>7, <1>8, <1>10, <1>11 DEF ConvInv

\* Every action keeps the invariant.
LEMMA ConvStep == ConvInv /\ [MemoryNext]_memoryVars => ConvInv'
<1> SUFFICES ASSUME ConvInv, [MemoryNext]_memoryVars PROVE ConvInv'
  OBVIOUS
<1>1. CASE UNCHANGED memoryVars
  BY <1>1 DEF memoryVars, ConvInv, StoredTyped, RowsAreIndexed, PassTyped, PassIsSound,
              MemoriesAreSound, Remembered, Stored
<1> QED
  BY <1>1, CreateKeeps, DeleteKeeps, AgeKeeps, FetchKeeps, EndKeeps, WriteMemoryKeeps DEF MemoryNext

\* Rows, index and memories stay as the invariant says.
THEOREM ConversationsAlways == MemorySpec => []ConvInv
<1>1. MemoryInit => ConvInv
  <2> SUFFICES ASSUME MemoryInit PROVE ConvInv
    OBVIOUS
  <2>1. Stored = {} /\ fresh = Ids /\ index = <<>> /\ memory = <<>> /\ pass = NoPass /\ missed = {}
    BY DEF MemoryInit, Stored
  <2>2. StoredTyped
    BY <2>1, ConversationsAssumption DEF MemoryInit, StoredTyped, Stored
  <2>3. RowsAreIndexed
    BY <2>1, FS_EmptySet DEF RowsAreIndexed
  <2>4. NoPass \in [step : {"idle", "listed", "next", "write"}, todo : SUBSET (Ids \ fresh),
                    done : SUBSET Ids, messages : 0 .. MaxSize]
    BY ConversationsAssumption DEF NoPass
  <2>5. PassTyped /\ PassIsSound /\ MemoriesAreSound
    BY <2>1, <2>4 DEF PassTyped, PassIsSound, MemoriesAreSound, NoPass, Remembered
  <2> QED
    BY <2>2, <2>3, <2>5 DEF ConvInv
<1> QED
  BY <1>1, ConvStep, PTL DEF MemorySpec

\* A search answers exactly the conversations with the word until one is deleted,
\* and a conversation has one memory at most, of all its messages unless it was
\* deleted meanwhile, for any conversations, titles and interrupted passes.
THEOREM HistoryStaysSound == MemorySpec => []HistoryIsSound
<1>1. ConvInv => HistoryIsSound
  <2> SUFFICES ASSUME ConvInv PROVE HistoryIsSound
    OBVIOUS
  <2>1. ASSUME Stored = Ids \ fresh, NEW t \in Titles
        PROVE  Search(t) = {i \in Stored : conv[i].title = t}
    <3>1. \A i \in Stored : conv[i].row \in 1 .. Len(index) /\ index[conv[i].row] = conv[i].title
      BY <2>1 DEF ConvInv, RowsAreIndexed
    <3>2. DOMAIN index = 1 .. Len(index)
      BY DEF ConvInv, StoredTyped
    <3> QED
      BY <3>1, <3>2 DEF Search, Matches
  <2> QED
    BY <2>1 DEF ConvInv, HistoryIsSound, SearchesAreExact
<1> QED
  BY <1>1, ConversationsAlways, PTL

\* The rest of MemoryTypeOK: a row has no more than the number of ids generated, no
\* two conversations have one, and a memory samples messages there were.
RowsAreDistinct ==
    /\ \A i \in Stored : conv[i].row \in 1 .. Cardinality(Ids \ fresh)
    /\ \A i, j \in Stored : conv[i].row = conv[j].row => i = j

SamplesFit == \A k \in DOMAIN memory : memory[k].sample <= memory[k].messages

\* The number of the next row is past all of those in use, deletions or not.
LEMMA NextRowIsNew ==
    ASSUME StoredTyped, RowsAreDistinct, NEW i \in fresh
    PROVE  /\ NextRow \in 1 .. Cardinality(Ids \ fresh) + 1
           /\ \A c \in Stored : conv[c].row < NextRow
           /\ Cardinality(Ids \ (fresh \ {i})) = Cardinality(Ids \ fresh) + 1
           /\ Cardinality(Ids \ fresh) \in Nat
<1> DEFINE used == Ids \ fresh
           N == Cardinality(used)
           P(n) == /\ \A c \in Stored : conv[c].row < n
                   /\ n = 1 \/ \E c \in Stored : conv[c].row = n - 1
<1>1. IsFiniteSet(Ids) /\ i \in Ids /\ i \notin used /\ Ids \ (fresh \ {i}) = used \cup {i}
  BY ConversationsAssumption DEF StoredTyped
<1>2. IsFiniteSet(used) /\ N \in Nat /\ Cardinality(Ids) \in Nat
  BY <1>1, FS_Subset, FS_CardinalityType
<1>3. Cardinality(used \cup {i}) = N + 1
  BY <1>1, <1>2, FS_AddElement
<1>4. N + 1 <= Cardinality(Ids)
  <2>1. used \cup {i} \in SUBSET Ids
    BY <1>1
  <2> QED
    BY <1>1, <1>3, <2>1, FS_Subset
<1>5. \A c \in Stored : conv[c].row \in 1 .. N
  BY DEF RowsAreDistinct
<1> HIDE DEF N
<1>6. \E n \in 1 .. N + 1 : P(n)
  <2> DEFINE T == {n \in Nat : \A c \in Stored : conv[c].row < n}
  <2>1. N + 1 \in T
    BY <1>2, <1>5
  <2>2. PICK n \in T : \A m \in T : n <= m
    BY <2>1, LeastNumber
  <2>3. n \in Nat /\ n <= N + 1 /\ \A c \in Stored : conv[c].row < n
    BY <2>1, <2>2
  <2>4. CASE Stored = {}
    <3>1. P(1) /\ 1 \in 1 .. N + 1
      BY <1>2, <2>4
    <3> QED
      BY <3>1
  <2>5. CASE Stored # {}
    <3>1. n > 1
      BY <1>2, <1>5, <2>3, <2>5
    <3>2. n - 1 \notin T
      BY <2>2, <2>3, <3>1
    <3>3. PICK c \in Stored : ~(conv[c].row < n - 1)
      BY <2>3, <3>1, <3>2
    <3>4. conv[c].row = n - 1
      BY <1>2, <1>5, <2>3, <3>3
    <3>5. P(n) /\ n \in 1 .. N + 1
      BY <1>2, <2>3, <3>1, <3>4
    <3> QED
      BY <3>5
  <2> QED
    BY <2>4, <2>5
\* No number past that has a row before it.
<1>7. \A n \in 1 .. Cardinality(Ids) : P(n) => n <= N + 1
  BY <1>2, <1>4, <1>5
<1>8. NextRow = CHOOSE n \in 1 .. Cardinality(Ids) : P(n)
  BY DEF NextRow
<1>9. \E n \in 1 .. Cardinality(Ids) : P(n)
  BY <1>2, <1>4, <1>6
<1>10. NextRow \in 1 .. Cardinality(Ids) /\ P(NextRow)
  <2> HIDE DEF P
  <2> QED
    BY <1>8, <1>9
<1>11. NextRow \in 1 .. N + 1
  BY <1>2, <1>7, <1>10
<1> QED
  BY <1>1, <1>2, <1>3, <1>10, <1>11 DEF N

LEMMA MemoryFitsStep ==
    ConvInv /\ RowsAreDistinct /\ SamplesFit /\ [MemoryNext]_memoryVars
        => RowsAreDistinct' /\ SamplesFit'
<1> SUFFICES ASSUME ConvInv, RowsAreDistinct, SamplesFit, [MemoryNext]_memoryVars
             PROVE  RowsAreDistinct' /\ SamplesFit'
  OBVIOUS
<1>0. StoredTyped /\ PassTyped
  BY DEF ConvInv
\* A new conversation's row is a new one.
<1>1. ASSUME NEW i \in Ids, NEW t \in Titles, NEW n \in 0 .. MaxSize, CreateConversation(i, t, n)
      PROVE  RowsAreDistinct' /\ SamplesFit'
  <2>1. /\ i \in fresh /\ fresh' = fresh \ {i} /\ memory' = memory
        /\ conv' = [c \in Stored \cup {i} |->
                      IF c = i THEN [row |-> NextRow, title |-> t, messages |-> n, old |-> FALSE]
                      ELSE conv[c]]
    BY <1>1 DEF CreateConversation
  <2>2. /\ NextRow \in 1 .. Cardinality(Ids \ fresh) + 1
        /\ \A c \in Stored : conv[c].row < NextRow
        /\ Cardinality(Ids \ fresh') = Cardinality(Ids \ fresh) + 1
        /\ Cardinality(Ids \ fresh) \in Nat
    BY <1>0, <2>1, NextRowIsNew
  <2>3. /\ Stored' = Stored \cup {i} /\ conv'[i].row = NextRow /\ i \notin Stored
        /\ \A c \in Stored : conv'[c].row = conv[c].row
    BY <1>0, <2>1 DEF Stored, StoredTyped
  <2> DEFINE N == Cardinality(Ids \ fresh)
  <2>4. \A c \in Stored : conv[c].row \in 1 .. N
    BY DEF RowsAreDistinct
  <2>5. ASSUME NEW c \in Stored' PROVE conv'[c].row \in 1 .. N + 1
    BY <2>2, <2>3, <2>4
  <2>6. ASSUME NEW c \in Stored', NEW d \in Stored', conv'[c].row = conv'[d].row PROVE c = d
    <3>1. CASE c \in Stored /\ d \in Stored
      BY <2>3, <2>6, <3>1 DEF RowsAreDistinct
    <3>2. CASE c = i /\ d \in Stored
      BY <2>2, <2>3, <2>4, <2>6, <3>2
    <3>3. CASE c \in Stored /\ d = i
      BY <2>2, <2>3, <2>4, <2>6, <3>3
    <3> QED
      BY <2>3, <3>1, <3>2, <3>3
  <2>7. RowsAreDistinct'
    BY <2>2, <2>5, <2>6 DEF RowsAreDistinct
  <2> QED
    BY <2>1, <2>7 DEF SamplesFit
<1>2. ASSUME NEW i \in Ids, DeleteConversation(i) PROVE RowsAreDistinct' /\ SamplesFit'
  <2>1. conv' = [c \in Stored \ {i} |-> conv[c]] /\ fresh' = fresh /\ memory' = memory
    BY <1>2 DEF DeleteConversation
  <2>2. Stored' = Stored \ {i} /\ \A c \in Stored' : conv'[c] = conv[c]
    BY <2>1 DEF Stored
  <2> QED
    BY <2>1, <2>2 DEF RowsAreDistinct, SamplesFit
<1>3. ASSUME NEW i \in Ids, Age(i) PROVE RowsAreDistinct' /\ SamplesFit'
  <2>1. conv' = [conv EXCEPT ![i].old = TRUE] /\ fresh' = fresh /\ memory' = memory /\ i \in Stored
    BY <1>3 DEF Age
  <2>2. conv[i] \in [row : {conv[i].row}, title : Titles, messages : 0 .. MaxSize, old : BOOLEAN]
    BY <1>0, <2>1 DEF StoredTyped
  <2>3. [conv[i] EXCEPT !.old = TRUE].row = conv[i].row
    BY <2>2
  <2>4. Stored' = Stored /\ \A c \in Stored : conv'[c].row = conv[c].row
    BY <2>1, <2>3 DEF Stored
  <2>5. RowsAreDistinct'
    <3>1. /\ \A c \in Stored : conv[c].row \in 1 .. Cardinality(Ids \ fresh)
          /\ \A c, d \in Stored : conv[c].row = conv[d].row => c = d
      BY DEF RowsAreDistinct
    <3>2. \A c \in Stored' : conv'[c].row \in 1 .. Cardinality(Ids \ fresh')
      BY <2>1, <2>4, <3>1
    <3>3. ASSUME NEW c \in Stored', NEW d \in Stored', conv'[c].row = conv'[d].row PROVE c = d
      BY <2>4, <3>1, <3>3
    <3> QED
      BY <3>2, <3>3 DEF RowsAreDistinct
  <2> QED
    BY <2>1, <2>5 DEF SamplesFit
<1>4. CASE WriteMemory
  <2>1. /\ memory' = Append(memory, [id |-> First, messages |-> pass.messages,
                                      sample |-> Sampled(pass.messages)])
        /\ conv' = conv /\ fresh' = fresh
    BY <1>4 DEF WriteMemory
  <2>2. pass.messages \in Nat
    BY <1>0, ConversationsAssumption DEF PassTyped
  <2>3. Sampled(pass.messages) <= pass.messages
    BY <2>2 DEF Sampled
  <2> DEFINE M == [id : Ids \ fresh, messages : 0 .. MaxSize, sample : 0 .. MaxSize]
             m == [id |-> First, messages |-> pass.messages, sample |-> Sampled(pass.messages)]
  <2>4. memory \in Seq(M)
    BY <1>0 DEF PassTyped
  <2>5. m.sample <= m.messages
    BY <2>3
  <2> HIDE DEF M, m
  <2>6. /\ DOMAIN Append(memory, m) = 1 .. Len(memory) + 1 /\ DOMAIN memory = 1 .. Len(memory)
        /\ Len(memory) \in Nat /\ Append(memory, m)[Len(memory) + 1] = m
        /\ \A k \in 1 .. Len(memory) : Append(memory, m)[k] = memory[k]
    BY <2>4
  <2>7. memory' = Append(memory, m)
    BY <2>1 DEF m
  <2>8. SamplesFit'
    <3> SUFFICES ASSUME NEW k \in 1 .. Len(memory) + 1
                 PROVE  memory'[k].sample <= memory'[k].messages
      BY <2>6, <2>7 DEF SamplesFit
    <3>1. CASE k = Len(memory) + 1
      BY <2>5, <2>6, <2>7, <3>1
    <3>2. CASE k # Len(memory) + 1
      BY <2>6, <2>7, <3>2 DEF SamplesFit
    <3> QED
      BY <3>1, <3>2
  <2> QED
    BY <2>1, <2>8 DEF RowsAreDistinct, Stored
<1>5. CASE UNCHANGED <<conv, fresh, memory>>
  BY <1>5 DEF RowsAreDistinct, SamplesFit, Stored
<1> QED
  BY <1>1, <1>2, <1>3, <1>4, <1>5
  DEF MemoryNext, memoryVars, FetchOldConversations, FetchConsolidatedIds, FetchMessages,
      WriteMemoryFails, PassEnds, PassDies

\* No two conversations share a row, in whatever order they are created and deleted:
\* the number after the largest one in use is always free.
THEOREM MemoryTypeCorrect == MemorySpec => []MemoryTypeOK
<1>1. MemoryInit => RowsAreDistinct /\ SamplesFit
  BY DEF MemoryInit, RowsAreDistinct, SamplesFit, Stored
<1>2. ConvInv /\ RowsAreDistinct /\ SamplesFit => MemoryTypeOK
  BY DEF ConvInv, StoredTyped, PassTyped, RowsAreDistinct, SamplesFit, MemoryTypeOK
<1> QED
  BY <1>1, <1>2, ConversationsAlways, MemoryFitsStep, PTL DEF MemorySpec


----------------------------------------------------------------------
(* Clients.                                                                *)

Exceptions == {"ProviderError", "TimeoutError", "ConnectionError", "RuntimeError", "ValueError",
               "ClientError", "IndexError"}

Talks == [op : {"none", "chat", "stream", "embed", "health"},
          step : {"idle", "asked", "asleep", "reading"},
          texts : 0 .. MaxTexts, log : Seq(Outcomes), other : BOOLEAN,
          result : {"none", "answer", "nothing", "unhealthy", "TypeError"} \cup Exceptions]

\* The call is made once whatever comes of it.
Once == talk.op = "stream" \/ (talk.op = "health" /\ provider = "gemini")

Limit == IF Once THEN 1 ELSE Config.tries

\* What RetriesAreSound says of the log.
LogIsSound ==
    /\ talk.step \in {"asked", "asleep"} => Len(talk.log) < Limit
    /\ \A i \in 1 .. Len(talk.log) - 1 :
          IF talk.op = "stream" THEN i = 1 /\ Good(talk.log[i]) ELSE talk.log[i] \in Config.curable
    /\ talk.result = "answer" =>
          /\ talk.texts = 0 /\ Good(talk.log[Len(talk.log)])
          /\ talk.op = "embed" => talk.log[Len(talk.log)] = "ok"
    /\ talk.result \notin {"none", "answer"} /\ talk.log # <<>>
       /\ talk.log[Len(talk.log)] \in Config.curable => Once \/ Len(talk.log) = Limit

\* The invariant behind RetriesAreSound: while the client asks, every request so
\* far came to something curable and one more is allowed; a stream that is read
\* began with an answer.
TalkIsSound ==
    /\ talk.step \in {"asked", "asleep"} =>
          /\ talk.result = "none" /\ \A i \in 1 .. Len(talk.log) : talk.log[i] \in Config.curable
    /\ talk.step = "reading" =>
          /\ talk.op = "stream" /\ talk.result = "none"
          /\ Len(talk.log) = 1 /\ Good(talk.log[1])

ClientInv ==
    /\ provider \in ClientNames /\ talk \in Talks
    /\ TalkIsSound /\ LogIsSound

\* A log that is sound has the two facts that RetriesAreSound names.
LEMMA SoundLogs == LogIsSound => RetriesAreSound
  BY DEF LogIsSound, RetriesAreSound, Limit, Once, Last

\* Every client makes at least one attempt.
LEMMA ConfigFacts ==
    ASSUME provider \in ClientNames
    PROVE  Config.tries \in Nat \ {0}
<1>1. Retries \in Nat \ {0}
  BY ClientsAssumption
<1>2. provider \in {"ollama", "llamacpp", "vllm", "openai", "groq", "anthropic", "gemini"}
  BY DEF ClientNames, ClientOf
<1>3. /\ Ollama.tries = 1 /\ LlamaCpp.tries = 1 /\ VLLM.tries = 1
      /\ OpenAI.tries = Retries + 1 /\ Groq.tries = Retries + 1
      /\ Anthropic.tries = Retries /\ Gemini.tries = Retries + 1
  BY DEF Ollama, LlamaCpp, VLLM, OpenAI, Groq, Anthropic, Gemini
<1>4. Config \in {Ollama, LlamaCpp, VLLM, OpenAI, Groq, Anthropic, Gemini}
  BY <1>2 DEF Config, ClientOf
<1> QED
  BY <1>1, <1>3, <1>4

\* A request that fails raises something.
LEMMA RaisedFacts ==
    ASSUME NEW o \in Outcomes
    PROVE  Raised(provider, o) \in Exceptions
  BY DEF Raised, Translated, Compatible, Exceptions

\* Noting an outcome leaves the outcomes before it where they are.
LEMMA LogFacts ==
    ASSUME NEW log \in Seq(Outcomes), NEW o \in Outcomes
    PROVE  /\ Append(log, o) \in Seq(Outcomes) /\ Len(log) \in Nat
           /\ Len(Append(log, o)) = Len(log) + 1
           /\ Append(log, o) # <<>>
           /\ \A i \in 1 .. Len(log) : Append(log, o)[i] = log[i]
           /\ Append(log, o)[Len(log) + 1] = o
  OBVIOUS

\* The number of requests that are allowed depends on the client and the call.
LEMMA LimitFacts ==
    ASSUME ClientInv
    PROVE  Limit \in Nat \ {0} /\ Config.tries \in Nat \ {0}
  BY ConfigFacts DEF ClientInv, Limit

\* What a call may do depends on the client and on what is called, not on its step.
LEMMA SameCall ==
    ASSUME ClientInv, provider' = provider, talk'.op = talk.op
    PROVE  /\ Limit' = Limit /\ Config' = Config /\ (Once' <=> Once)
           /\ \A x : Good(x)' <=> Good(x)
  BY DEF Limit, Once, Config, Good

\* An outcome is noted: the log has one more entry.
LEMMA NoteFacts ==
    ASSUME ClientInv, NEW o \in Outcomes
    PROVE  /\ Append(talk.log, o) \in Seq(Outcomes) /\ Len(talk.log) \in Nat
           /\ Len(Append(talk.log, o)) = Len(talk.log) + 1
           /\ Append(talk.log, o) # <<>>
           /\ \A i \in 1 .. Len(talk.log) : Append(talk.log, o)[i] = talk.log[i]
           /\ Append(talk.log, o)[Len(talk.log) + 1] = o
<1>1. talk.log \in Seq(Outcomes)
  BY DEF ClientInv, Talks
<1> QED
  BY <1>1, LogFacts

\* A call begins, or fails before anything is sent.
LEMMA AskKeeps ==
    ASSUME ClientInv, \/ \E op \in {"chat", "stream", "embed", "health"}, n \in 1 .. MaxTexts : Ask(op, n)
                      \/ NoEmbeddings \/ StreamsNothing
    PROVE  ClientInv'
<1>1. /\ provider' = provider /\ provider \in ClientNames
      /\ talk'.log = <<>> /\ talk' \in Talks /\ talk'.step \in {"idle", "asked"}
      /\ talk'.step = "asked" => talk'.result = "none"
      /\ talk'.result # "answer"
  <2>1. Silent \in Talks /\ Silent.log = <<>> /\ Silent.step = "idle" /\ Silent.result = "none"
    BY ClientsAssumption DEF Silent, Talks
  <2>2. ASSUME NEW op \in {"chat", "stream", "embed", "health"}, NEW n \in 1 .. MaxTexts, Ask(op, n)
        PROVE  /\ talk' \in Talks /\ talk'.log = <<>> /\ talk'.step = "asked" /\ talk'.result = "none"
    <3>1. n \in 0 .. MaxTexts
      BY ClientsAssumption
    <3>2. talk' = [Silent EXCEPT !.op = op, !.step = "asked", !.texts = n]
      BY <2>2 DEF Ask
    <3> QED
      BY <2>1, <3>1, <3>2 DEF Talks
  <2>3. CASE NoEmbeddings
    BY <2>1, <2>3 DEF NoEmbeddings, Talks, Exceptions, ClientInv
  <2>4. CASE StreamsNothing
    BY <2>1, <2>4 DEF StreamsNothing, Talks, ClientInv
  <2>5. provider' = provider /\ provider \in ClientNames
    BY DEF ClientInv, Ask, NoEmbeddings, StreamsNothing
  <2> QED
    BY <2>2, <2>3, <2>4, <2>5
<1>2. Limit' \in Nat /\ Limit' > 0
  BY <1>1, ConfigFacts DEF Limit, Config
<1> QED
  BY <1>1, <1>2 DEF ClientInv, TalkIsSound, LogIsSound

\* An answer begins a stream, ends the call, or leaves the next text to ask for.
LEMMA AnsweredKeeps == ASSUME ClientInv, NEW o \in Outcomes, Answered(o) PROVE ClientInv'
<1>1. /\ talk.step = "asked" /\ Good(o) /\ provider' = provider /\ provider \in ClientNames
      /\ talk \in Talks /\ talk.result = "none" /\ Len(talk.log) < Limit
      /\ \A i \in 1 .. Len(talk.log) : talk.log[i] \in Config.curable
  BY DEF Answered, ClientInv, TalkIsSound, LogIsSound
<1>2. CASE talk.op = "stream"
  <2>1. talk' = [talk EXCEPT !.log = Append(@, o), !.step = "reading"]
    BY <1>2 DEF Answered
  <2>2. /\ talk' \in Talks /\ talk'.log = Append(talk.log, o) /\ talk'.step = "reading"
        /\ talk'.op = talk.op /\ talk'.result = "none"
    BY <1>1, <1>2, <2>1, NoteFacts DEF Talks
  <2>3. Len(talk.log) = 0
    BY <1>1, <1>2, NoteFacts DEF Limit, Once
  <2>4. Len(talk'.log) = 1 /\ talk'.log[1] = o
    BY <2>2, <2>3, NoteFacts
  <2>5. Good(o)'
    BY <1>1, <2>2, SameCall
  <2> QED
    BY <1>1, <1>2, <2>2, <2>4, <2>5 DEF ClientInv, TalkIsSound, LogIsSound
<1>3. CASE talk.op # "stream" /\ talk.texts > 1
  <2> DEFINE n == talk.texts - 1
  <2>1. talk' = [talk EXCEPT !.texts = n, !.log = <<>>]
    BY <1>3 DEF Answered
  <2>2. n \in 0 .. MaxTexts /\ <<>> \in Seq(Outcomes)
    BY <1>1, <1>3, ClientsAssumption DEF Talks
  <2> HIDE DEF n
  <2>3. /\ talk' \in Talks /\ talk'.log = <<>> /\ talk'.step = "asked" /\ talk'.result = "none"
        /\ talk'.op = talk.op
    BY <1>1, <2>1, <2>2 DEF Talks
  <2>4. Limit' \in Nat /\ Limit' > 0
    BY <1>1, <2>3, LimitFacts, SameCall
  <2> QED
    BY <1>1, <2>3, <2>4 DEF ClientInv, TalkIsSound, LogIsSound
<1>4. CASE talk.op # "stream" /\ ~(talk.texts > 1)
  <2>1. talk' = [talk EXCEPT !.log = Append(@, o), !.step = "idle", !.texts = 0, !.result = "answer"]
    BY <1>4 DEF Answered
  <2>2. 0 \in 0 .. MaxTexts
    BY ClientsAssumption
  <2>3. /\ talk' \in Talks /\ talk'.log = Append(talk.log, o) /\ talk'.step = "idle"
        /\ talk'.result = "answer" /\ talk'.texts = 0 /\ talk'.op = talk.op
    BY <1>1, <2>1, <2>2, NoteFacts DEF Talks
  <2>4. /\ Len(talk'.log) = Len(talk.log) + 1 /\ Len(talk.log) \in Nat
        /\ talk'.log[Len(talk'.log)] = o
        /\ \A i \in 1 .. Len(talk'.log) - 1 : talk'.log[i] \in Config'.curable
    BY <1>1, <2>3, NoteFacts, SameCall
  <2>5. Good(o)'
    BY <1>1, <2>3, SameCall
  <2>6. talk'.op = "embed" => o = "ok"
    BY <1>1, <2>3 DEF Good
  <2> QED
    BY <1>1, <1>4, <2>3, <2>4, <2>5, <2>6 DEF ClientInv, TalkIsSound, LogIsSound
<1> QED
  BY <1>2, <1>3, <1>4

\* What fails and is asked again was curable, and had not used all attempts.
LEMMA BackoffKeeps ==
    ASSUME ClientInv, (\E o \in Outcomes : Backoff(o) \/ AskOllama(o)) \/ AskAgain
    PROVE  ClientInv'
<1>1. talk \in Talks /\ provider \in ClientNames /\ provider' = provider
  BY DEF ClientInv, Backoff, AskOllama, AskAgain
<1>2. ASSUME NEW o \in Outcomes, Backoff(o) PROVE ClientInv'
  <2>1. /\ talk.step = "asked" /\ talk.op # "stream" /\ ~Once /\ o \in Config.curable
        /\ Len(talk.log) + 1 # Config.tries /\ Len(talk.log) < Limit /\ talk.result = "none"
        /\ \A i \in 1 .. Len(talk.log) : talk.log[i] \in Config.curable
        /\ talk' = [talk EXCEPT !.log = Append(@, o), !.step = "asleep"]
    BY <1>2 DEF Backoff, GivesUp, Once, ClientInv, TalkIsSound, LogIsSound
  <2>2. /\ talk' \in Talks /\ talk'.log = Append(talk.log, o) /\ talk'.step = "asleep"
        /\ talk'.result = "none" /\ talk'.op = talk.op
    BY <1>1, <2>1, NoteFacts DEF Talks
  <2>3. Limit = Config.tries /\ Limit' = Limit /\ Config' = Config /\ Config.tries \in Nat \ {0}
    BY <1>1, <2>1, <2>2, SameCall, LimitFacts DEF Limit
  <2>4. /\ Len(talk'.log) = Len(talk.log) + 1 /\ Len(talk.log) \in Nat
        /\ \A i \in 1 .. Len(talk'.log) : talk'.log[i] \in Config'.curable
    BY <2>1, <2>2, <2>3, NoteFacts
  <2>5. Len(talk'.log) < Limit'
    BY <2>1, <2>3, <2>4
  <2> QED
    BY <1>1, <2>1, <2>2, <2>4, <2>5 DEF ClientInv, TalkIsSound, LogIsSound
<1>3. CASE AskAgain \/ \E o \in Outcomes : AskOllama(o)
  <2>1. /\ talk' \in Talks /\ talk.step \in {"asked", "asleep"} /\ talk'.step = "asked"
        /\ talk'.log = talk.log /\ talk'.result = talk.result /\ talk'.op = talk.op
    BY <1>1, <1>3 DEF AskAgain, AskOllama, Talks
  <2>2. /\ Len(talk.log) < Limit /\ talk.result = "none"
        /\ \A i \in 1 .. Len(talk.log) : talk.log[i] \in Config.curable
        /\ talk.op = "stream" => \A i \in 1 .. Len(talk.log) - 1 : i = 1 /\ Good(talk.log[i])
    BY <2>1 DEF ClientInv, TalkIsSound, LogIsSound
  <2>3. /\ Limit' = Limit /\ Config' = Config /\ Len(talk.log) \in Nat
        /\ \A x : Good(x)' <=> Good(x)
    BY <1>1, <2>1, SameCall DEF Talks
  <2> QED
    BY <1>1, <2>1, <2>2, <2>3 DEF ClientInv, TalkIsSound, LogIsSound
<1> QED
  BY <1>2, <1>3

\* What fails for good is not curable, or was the last attempt.
LEMMA GiveUpKeeps == ASSUME ClientInv, NEW o \in Outcomes, GiveUp(o) PROVE ClientInv'
<1> DEFINE r == IF talk.op = "health" THEN "unhealthy" ELSE Raised(provider, o)
<1>1. /\ talk \in Talks /\ provider \in ClientNames /\ provider' = provider
      /\ talk.step = "asked" /\ GivesUp(o) /\ Len(talk.log) < Limit
      /\ \A i \in 1 .. Len(talk.log) : talk.log[i] \in Config.curable
      /\ talk' = [talk EXCEPT !.log = Append(@, o), !.step = "idle", !.result = r]
  BY DEF GiveUp, ClientInv, TalkIsSound, LogIsSound
<1>2. r \in {"unhealthy"} \cup Exceptions /\ r \notin {"none", "answer"}
  BY RaisedFacts DEF Exceptions
<1> HIDE DEF r
<1>3. /\ talk' \in Talks /\ talk'.log = Append(talk.log, o) /\ talk'.step = "idle"
      /\ talk'.result = r /\ talk'.op = talk.op
  BY <1>1, <1>2, NoteFacts DEF Talks
<1>4. /\ Len(talk'.log) = Len(talk.log) + 1 /\ Len(talk.log) \in Nat
      /\ talk'.log[Len(talk'.log)] = o
      /\ \A i \in 1 .. Len(talk'.log) - 1 : talk'.log[i] \in Config'.curable
      /\ Limit' = Limit /\ Config' = Config /\ (Once' <=> Once)
  BY <1>1, <1>3, NoteFacts, SameCall
<1>5. talk.op = "stream" => Len(talk.log) = 0
  BY <1>1, <1>4 DEF Limit, Once
<1>6. o \in Config.curable => Once \/ Len(talk.log) + 1 = Limit
  BY <1>1 DEF GivesUp, Once, Limit
<1> QED
  BY <1>1, <1>2, <1>3, <1>4, <1>5, <1>6 DEF ClientInv, TalkIsSound, LogIsSound

\* An empty list of embeddings is no answer, and is not asked for again.
LEMMA NothingKeeps == ASSUME ClientInv, NothingEmbedded PROVE ClientInv'
<1>1. /\ talk.step = "asked" /\ talk.op = "embed" /\ provider \in Compatible
      /\ provider' = provider /\ provider \in ClientNames /\ talk \in Talks
      /\ Len(talk.log) < Limit /\ "empty" \in Outcomes
      /\ \A i \in 1 .. Len(talk.log) : talk.log[i] \in Config.curable
      /\ talk' = [talk EXCEPT !.log = Append(@, "empty"), !.step = "idle", !.result = "nothing"]
  BY DEF NothingEmbedded, ClientInv, TalkIsSound, LogIsSound, Outcomes
<1>2. /\ talk' \in Talks /\ talk'.log = Append(talk.log, "empty") /\ talk'.step = "idle"
      /\ talk'.result = "nothing" /\ talk'.op = talk.op
  BY <1>1, NoteFacts DEF Talks
<1>3. /\ Len(talk'.log) = Len(talk.log) + 1 /\ Len(talk.log) \in Nat
      /\ talk'.log[Len(talk'.log)] = "empty"
      /\ \A i \in 1 .. Len(talk'.log) - 1 : talk'.log[i] \in Config'.curable
      /\ Config' = Config
  BY <1>1, <1>2, NoteFacts, SameCall
<1>4. "empty" \notin Config.curable
  BY <1>1 DEF Config, ClientOf, Compatible, OpenAI, Groq
<1> QED
  BY <1>1, <1>2, <1>3, <1>4 DEF ClientInv, TalkIsSound, LogIsSound

\* A stream ends with the answer it began with, or breaks off after it.
LEMMA StreamKeeps ==
    ASSUME ClientInv, EndOfStream \/ \E o \in Outcomes : BrokenStream(o)
    PROVE  ClientInv'
<1>1. /\ talk \in Talks /\ provider \in ClientNames /\ provider' = provider
      /\ talk.step = "reading" /\ talk.op = "stream" /\ Len(talk.log) = 1 /\ Good(talk.log[1])
  BY DEF EndOfStream, BrokenStream, ClientInv, TalkIsSound
<1>2. CASE EndOfStream
  <2>1. 0 \in 0 .. MaxTexts
    BY ClientsAssumption
  <2>2. /\ talk' \in Talks /\ talk'.log = talk.log /\ talk'.step = "idle" /\ talk'.op = talk.op
        /\ talk'.texts = 0 /\ talk'.result = "answer"
    BY <1>1, <1>2, <2>1 DEF EndOfStream, Talks
  <2>3. Good(talk.log[1]) <=> Good(talk'.log[1])
    BY <2>2
  <2>4. \A x : Good(x)' <=> Good(x)
    BY <1>1, <2>2, SameCall
  <2> QED
    BY <1>1, <2>2, <2>3, <2>4 DEF ClientInv, TalkIsSound, LogIsSound
<1>3. ASSUME NEW o \in Outcomes, BrokenStream(o) PROVE ClientInv'
  <2> DEFINE r == Raised(provider, o)
  <2>1. r \in Exceptions /\ r \notin {"none", "answer"}
    BY RaisedFacts DEF Exceptions
  <2>2. talk' = [talk EXCEPT !.log = Append(@, o), !.step = "idle", !.result = r]
    BY <1>3 DEF BrokenStream
  <2> HIDE DEF r
  <2>3. /\ talk' \in Talks /\ talk'.log = Append(talk.log, o) /\ talk'.step = "idle"
        /\ talk'.result = r /\ talk'.op = talk.op
    BY <1>1, <2>1, <2>2, NoteFacts DEF Talks
  <2>4. Len(talk'.log) = 2 /\ talk'.log[1] = talk.log[1]
    BY <1>1, <2>3, NoteFacts
  <2>5. (\A x : Good(x)' <=> Good(x)) /\ (Once' <=> Once) /\ Once
    BY <1>1, <2>3, SameCall DEF Once
  <2> QED
    BY <1>1, <2>1, <2>3, <2>4, <2>5 DEF ClientInv, TalkIsSound, LogIsSound
<1> QED
  BY <1>2, <1>3

\* Every action keeps the invariant.
LEMMA ClientStep == ClientInv /\ [ClientsNext]_clientVars => ClientInv'
<1> SUFFICES ASSUME ClientInv, [ClientsNext]_clientVars PROVE ClientInv'
  OBVIOUS
<1>1. CASE UNCHANGED clientVars
  BY <1>1, SameCall DEF clientVars, ClientInv, TalkIsSound, LogIsSound
<1> QED
  BY <1>1, AskKeeps, AnsweredKeeps, BackoffKeeps, GiveUpKeeps, NothingKeeps, StreamKeeps DEF ClientsNext

\* Every variable stays in its type, and the log of a call is sound throughout.
THEOREM ClientsAlways == ClientsSpec => []ClientInv
<1>1. ClientsInit => ClientInv
  BY ClientsAssumption DEF ClientsInit, Silent, ClientInv, Talks, TalkIsSound, LogIsSound
<1> QED
  BY <1>1, ClientStep, PTL DEF ClientsSpec

\* No client repeats what repetition does not cure, or more often than it may, and
\* none gives up early, for any number of retries and texts.
THEOREM RetriesStaySound == ClientsSpec => []RetriesAreSound
<1>1. ClientInv => RetriesAreSound
  BY SoundLogs DEF ClientInv
<1> QED
  BY <1>1, ClientsAlways, PTL

\* Every step of a call keeps its variables in their types.
THEOREM ClientTypeCorrect == ClientsSpec => []ClientsTypeOK
<1>1. ClientInv => ClientsTypeOK
  BY DEF ClientInv, Talks, Exceptions, ClientsTypeOK
<1> QED
  BY <1>1, ClientsAlways, PTL


----------------------------------------------------------------------
(* Providers: the history of health checks.                                *)

\* The last k checks of h failed, and the one before them did not.
Fails(h, k) ==
    /\ k \in 0 .. Len(h)
    /\ \A i \in Len(h) - k + 1 .. Len(h) : ~h[i]
    /\ k < Len(h) => h[Len(h) - k]

Counts(h, e) == \E k \in 0 .. Len(h) : Fails(h, k) /\ IF k < HistoryLen THEN e = k ELSE e >= k

\* The invariant behind HealthIsCounted: some run of failures ends each history,
\* and the count goes with it.
HealthInv ==
    /\ history \in [LLMs -> Seq(BOOLEAN)] /\ errors \in [LLMs -> 0 .. MaxErrors]
    /\ \A n \in LLMs : Len(history[n]) <= HistoryLen /\ Counts(history[n], errors[n])

\* A history ends in one run of failures only.
LEMMA RunIsUnique ==
    ASSUME NEW h \in Seq(BOOLEAN), NEW j, NEW k, Fails(h, j), Fails(h, k)
    PROVE  j = k
<1>1. ASSUME NEW a \in 0 .. Len(h), NEW b \in 0 .. Len(h), Fails(h, a), Fails(h, b), a < b PROVE FALSE
  <2>1. Len(h) - a \in Len(h) - b + 1 .. Len(h) /\ a < Len(h)
    BY <1>1
  <2>2. h[Len(h) - a]
    BY <1>1, <2>1 DEF Fails
  <2>3. ~h[Len(h) - a]
    BY <1>1, <2>1 DEF Fails
  <2> QED
    BY <2>2, <2>3
<1>2. j \in 0 .. Len(h) /\ k \in 0 .. Len(h) /\ Len(h) \in Nat
  BY DEF Fails
<1> QED
  BY <1>1, <1>2

\* What one check makes of a history and its count.
NewHistory(h, ok) == LET g == Append(h, ok) IN SubSeq(g, IF Len(g) > HistoryLen THEN 2 ELSE 1, Len(g))
NewErrors(e, ok) == IF ok THEN 0 ELSE IF e < MaxErrors THEN e + 1 ELSE e

\* A new check is put at the end of the history; a full one loses its first check.
LEMMA HistoryFacts ==
    ASSUME NEW h \in Seq(BOOLEAN), Len(h) <= HistoryLen, NEW ok \in BOOLEAN
    PROVE  /\ NewHistory(h, ok) \in Seq(BOOLEAN) /\ Len(NewHistory(h, ok)) \in 1 .. HistoryLen
           /\ Len(h) < HistoryLen =>
                 /\ Len(NewHistory(h, ok)) = Len(h) + 1
                 /\ \A i \in 1 .. Len(h) : NewHistory(h, ok)[i] = h[i]
           /\ Len(h) = HistoryLen =>
                 /\ Len(NewHistory(h, ok)) = HistoryLen
                 /\ \A i \in 1 .. Len(h) - 1 : NewHistory(h, ok)[i] = h[i + 1]
           /\ NewHistory(h, ok)[Len(NewHistory(h, ok))] = ok
<1> DEFINE g == Append(h, ok)
<1>1. /\ g \in Seq(BOOLEAN) /\ Len(g) = Len(h) + 1 /\ Len(h) \in Nat /\ g[Len(h) + 1] = ok
      /\ \A i \in 1 .. Len(h) : g[i] = h[i]
  OBVIOUS
<1>2. HistoryLen \in Nat \ {0}
  BY ProvidersAssumption
<1>3. NewHistory(h, ok) = SubSeq(g, IF Len(h) = HistoryLen THEN 2 ELSE 1, Len(g))
  BY <1>1, <1>2 DEF NewHistory
<1> HIDE DEF g
<1>4. CASE Len(h) < HistoryLen
  <2>1. NewHistory(h, ok) = SubSeq(g, 1, Len(g))
    BY <1>1, <1>2, <1>3, <1>4
  <2>2. NewHistory(h, ok) = g
    BY <1>1, <2>1
  <2> QED
    BY <1>1, <1>2, <1>4, <2>2
<1>5. CASE Len(h) = HistoryLen
  BY <1>1, <1>2, <1>3, <1>5
<1> QED
  BY <1>1, <1>2, <1>4, <1>5

\* A check that fails lengthens the run, and one that succeeds ends it.
LEMMA CheckCounts ==
    ASSUME NEW h \in Seq(BOOLEAN), Len(h) <= HistoryLen, NEW e \in 0 .. MaxErrors, Counts(h, e),
           NEW ok \in BOOLEAN
    PROVE  Counts(NewHistory(h, ok), NewErrors(e, ok)) /\ NewErrors(e, ok) \in 0 .. MaxErrors
<1> DEFINE g == NewHistory(h, ok)
           d == NewErrors(e, ok)
<1> HIDE DEF g, d
<1>1. HistoryLen \in Nat \ {0} /\ MaxErrors \in Nat /\ MaxErrors > HistoryLen /\ Len(h) \in Nat
  BY ProvidersAssumption
<1>2. d = (IF ok THEN 0 ELSE IF e < MaxErrors THEN e + 1 ELSE e) /\ d \in 0 .. MaxErrors
  BY <1>1 DEF NewErrors, d
<1>3. /\ g \in Seq(BOOLEAN) /\ Len(g) \in 1 .. HistoryLen /\ g[Len(g)] = ok
      /\ Len(h) < HistoryLen => Len(g) = Len(h) + 1 /\ \A i \in 1 .. Len(h) : g[i] = h[i]
      /\ Len(h) = HistoryLen => Len(g) = HistoryLen /\ \A i \in 1 .. Len(h) - 1 : g[i] = h[i + 1]
  <2>1. /\ NewHistory(h, ok) \in Seq(BOOLEAN) /\ Len(NewHistory(h, ok)) \in 1 .. HistoryLen
        /\ Len(h) < HistoryLen =>
              /\ Len(NewHistory(h, ok)) = Len(h) + 1
              /\ \A i \in 1 .. Len(h) : NewHistory(h, ok)[i] = h[i]
        /\ Len(h) = HistoryLen =>
              /\ Len(NewHistory(h, ok)) = HistoryLen
              /\ \A i \in 1 .. Len(h) - 1 : NewHistory(h, ok)[i] = h[i + 1]
        /\ NewHistory(h, ok)[Len(NewHistory(h, ok))] = ok
    BY ZenonT(60), HistoryFacts
  <2>2. g = NewHistory(h, ok)
    BY DEF g
  <2> QED
    BY <2>1, <2>2
<1>4. CASE ok
  <2>1. Fails(g, 0)
    <3>1. g[Len(g)] = TRUE /\ Len(g) - 0 = Len(g) /\ 0 \in 0 .. Len(g)
      BY <1>1, <1>3, <1>4
    <3>2. \A i : i \notin Len(g) - 0 + 1 .. Len(g)
      BY <1>1, <1>3
    <3> QED
      BY <3>1, <3>2 DEF Fails
  <2>2. d = 0 /\ 0 \in 0 .. Len(g)
    BY <1>1, <1>2, <1>3, <1>4
  <2> QED
    BY <1>1, <1>2, <2>1, <2>2 DEF Counts, g, d
<1>5. CASE ~ok
  <2>1. PICK k \in 0 .. Len(h) : Fails(h, k) /\ IF k < HistoryLen THEN e = k ELSE e >= k
    BY DEF Counts
  <2>2. CASE Len(h) < HistoryLen
    <3>1. Fails(g, k + 1)
      <4>1. k + 1 \in 0 .. Len(g)
        BY <1>1, <1>3, <2>2
      <4>2. ASSUME NEW i \in Len(g) - (k + 1) + 1 .. Len(g) PROVE ~g[i]
        <5>1. CASE i = Len(g)
          BY <1>3, <1>5, <5>1
        <5>2. CASE i # Len(g)
          <6>1. i \in Len(h) - k + 1 .. Len(h) /\ i \in 1 .. Len(h)
            BY <1>1, <1>3, <2>1, <2>2, <5>2
          <6> QED
            BY <1>3, <2>1, <2>2, <6>1 DEF Fails
        <5> QED
          BY <5>1, <5>2
      <4>3. ASSUME k + 1 < Len(g) PROVE g[Len(g) - (k + 1)]
        <5>1. Len(g) - (k + 1) = Len(h) - k /\ k < Len(h) /\ Len(h) - k \in 1 .. Len(h)
          BY <1>1, <1>3, <2>1, <2>2, <4>3
        <5>2. h[Len(h) - k]
          BY <2>1, <5>1 DEF Fails
        <5> QED
          BY <1>3, <2>2, <5>1, <5>2
      <4> QED
        BY <4>1, <4>2, <4>3 DEF Fails
    <3>2. k + 1 \in 0 .. Len(g) /\ IF k + 1 < HistoryLen THEN d = k + 1 ELSE d >= k + 1
      BY <1>1, <1>2, <1>3, <1>5, <2>1, <2>2
    <3> QED
      BY <1>2, <3>1, <3>2 DEF Counts, g, d
  <2>3. CASE Len(h) = HistoryLen /\ k = HistoryLen
    <3>1. Fails(g, k)
      <4>1. k \in 0 .. Len(g) /\ ~(k < Len(g))
        BY <1>1, <1>3, <2>3
      <4>2. ASSUME NEW i \in Len(g) - k + 1 .. Len(g) PROVE ~g[i]
        <5>1. CASE i = Len(g)
          BY <1>3, <1>5, <5>1
        <5>2. CASE i # Len(g)
          <6>1. i \in 1 .. Len(h) - 1 /\ i + 1 \in Len(h) - k + 1 .. Len(h)
            BY <1>1, <1>3, <2>3, <5>2
          <6> QED
            BY <1>3, <2>1, <2>3, <6>1 DEF Fails
        <5> QED
          BY <5>1, <5>2
      <4> QED
        BY <4>1, <4>2 DEF Fails
    <3>2. k \in 0 .. Len(g) /\ ~(k < HistoryLen) /\ d >= k
      BY <1>1, <1>2, <1>3, <1>5, <2>1, <2>3
    <3> QED
      BY <1>2, <3>1, <3>2 DEF Counts, g, d
  <2>4. CASE Len(h) = HistoryLen /\ k # HistoryLen
    <3>1. Fails(g, k + 1)
      <4>1. k + 1 \in 0 .. Len(g)
        BY <1>1, <1>3, <2>4
      <4>2. ASSUME NEW i \in Len(g) - (k + 1) + 1 .. Len(g) PROVE ~g[i]
        <5>1. CASE i = Len(g)
          BY <1>3, <1>5, <5>1
        <5>2. CASE i # Len(g)
          <6>1. i \in 1 .. Len(h) - 1 /\ i + 1 \in Len(h) - k + 1 .. Len(h)
            BY <1>1, <1>3, <2>1, <2>4, <5>2
          <6> QED
            BY <1>3, <2>1, <2>4, <6>1 DEF Fails
        <5> QED
          BY <5>1, <5>2
      <4>3. ASSUME k + 1 < Len(g) PROVE g[Len(g) - (k + 1)]
        <5>1. Len(g) - (k + 1) \in 1 .. Len(h) - 1 /\ Len(g) - (k + 1) + 1 = Len(h) - k /\ k < Len(h)
          BY <1>1, <1>3, <2>1, <2>4, <4>3
        <5>2. h[Len(h) - k]
          BY <2>1, <5>1 DEF Fails
        <5> QED
          BY <1>3, <2>4, <5>1, <5>2
      <4> QED
        BY <4>1, <4>2, <4>3 DEF Fails
    <3>2. k + 1 \in 0 .. Len(g) /\ IF k + 1 < HistoryLen THEN d = k + 1 ELSE d >= k + 1
      BY <1>1, <1>2, <1>3, <1>5, <2>1, <2>4
    <3> QED
      BY <1>2, <3>1, <3>2 DEF Counts, g, d
  <2> QED
    BY <1>1, <2>2, <2>3, <2>4
<1> QED
  BY <1>4, <1>5

\* Health checks of any providers are recorded.
LEMMA RecordCounts ==
    ASSUME HealthInv, NEW names, NEW healthy \in SUBSET names, Record(names, healthy)
    PROVE  HealthInv'
<1>1. ASSUME NEW n \in LLMs
      PROVE  \/ n \notin names /\ history'[n] = history[n] /\ errors'[n] = errors[n]
             \/ \E ok \in BOOLEAN : /\ history'[n] = NewHistory(history[n], ok)
                                    /\ errors'[n] = NewErrors(errors[n], ok)
  <2>1. CASE n \notin names
    BY <2>1 DEF Record
  <2>2. CASE n \in healthy
    <3>1. (n \in healthy) = TRUE /\ n \in names
      BY <2>2
    <3>2. history'[n] = NewHistory(history[n], TRUE) /\ errors'[n] = NewErrors(errors[n], TRUE)
      BY <3>1 DEF Record, NewHistory, NewErrors
    <3> QED
      BY <3>2
  <2>3. CASE n \in names \ healthy
    <3>1. (n \in healthy) = FALSE /\ n \in names
      BY <2>3
    <3>2. history'[n] = NewHistory(history[n], FALSE)
      BY <3>1 DEF Record, NewHistory
    <3>3. errors'[n] = NewErrors(errors[n], FALSE)
      BY <3>1 DEF Record, NewErrors
    <3> QED
      BY <3>2, <3>3
  <2> QED
    BY <2>1, <2>2, <2>3
<1>2. ASSUME NEW n \in LLMs
      PROVE  /\ history'[n] \in Seq(BOOLEAN) /\ errors'[n] \in 0 .. MaxErrors
             /\ Len(history'[n]) <= HistoryLen /\ Counts(history'[n], errors'[n])
  <2>1. /\ history[n] \in Seq(BOOLEAN) /\ errors[n] \in 0 .. MaxErrors
        /\ Len(history[n]) <= HistoryLen /\ Counts(history[n], errors[n])
    BY DEF HealthInv
  <2>2. ASSUME NEW ok \in BOOLEAN, history'[n] = NewHistory(history[n], ok),
               errors'[n] = NewErrors(errors[n], ok)
        PROVE  /\ history'[n] \in Seq(BOOLEAN) /\ errors'[n] \in 0 .. MaxErrors
               /\ Len(history'[n]) <= HistoryLen /\ Counts(history'[n], errors'[n])
    <3> DEFINE h == history[n]
               e == errors[n]
    <3> HIDE DEF h, e
    <3>1. h \in Seq(BOOLEAN) /\ e \in 0 .. MaxErrors /\ Len(h) <= HistoryLen /\ Counts(h, e)
      BY <2>1 DEF h, e
    <3>2. Counts(NewHistory(h, ok), NewErrors(e, ok)) /\ NewErrors(e, ok) \in 0 .. MaxErrors
      BY <3>1, CheckCounts
    <3>3. NewHistory(h, ok) \in Seq(BOOLEAN) /\ Len(NewHistory(h, ok)) \in 1 .. HistoryLen
      BY <3>1, HistoryFacts, Zenon
    <3>4. Len(NewHistory(h, ok)) <= HistoryLen
      BY <3>3, ProvidersAssumption
    <3> QED
      BY <2>2, <3>2, <3>3, <3>4 DEF h, e
  <2> QED
    BY <1>1, <2>1, <2>2
<1>3. /\ history' = [n \in LLMs |-> history'[n]] /\ errors' = [n \in LLMs |-> errors'[n]]
  BY DEF Record
<1> QED
  BY <1>2, <1>3 DEF HealthInv, Counts, Fails

\* The count of a history is the run it ends in.
LEMMA CountsAreRuns ==
    ASSUME NEW h \in Seq(BOOLEAN), NEW e, Counts(h, e)
    PROVE  LET run == CHOOSE k \in 0 .. Len(h) :
                        /\ \A i \in Len(h) - k + 1 .. Len(h) : ~h[i]
                        /\ k < Len(h) => h[Len(h) - k]
           IN IF run < HistoryLen THEN e = run ELSE e >= run
<1> DEFINE run == CHOOSE k \in 0 .. Len(h) : /\ \A i \in Len(h) - k + 1 .. Len(h) : ~h[i]
                                             /\ k < Len(h) => h[Len(h) - k]
<1>1. PICK j \in 0 .. Len(h) : Fails(h, j) /\ IF j < HistoryLen THEN e = j ELSE e >= j
  BY DEF Counts
<1>2. Fails(h, run)
  BY <1>1 DEF Fails
<1> HIDE DEF run
<1>3. run = j
  BY <1>1, <1>2, RunIsUnique
<1> QED
  BY <1>1, <1>3 DEF run

\* Only the end of a listing touches the history and the counts.
LEMMA HealthStep == HealthInv /\ [ProvidersNext]_providerVars => HealthInv'
<1> SUFFICES ASSUME HealthInv, [ProvidersNext]_providerVars PROVE HealthInv'
  OBVIOUS
<1>1. ASSUME NEW r \in Requests, ListEnd(r) PROVE HealthInv'
  BY <1>1, RecordCounts DEF ListEnd
<1>2. CASE UNCHANGED trend
  BY <1>2 DEF trend, HealthInv, Counts, Fails
<1>3. UNCHANGED trend \/ \E r \in Requests : ListEnd(r)
  BY ZenonT(60) DEF ProvidersNext, providerVars, trend, RegisterOne, UnregisterOne, SetActive, Discover,
         Reorder, ListStart, ChatCompletions, Completions, Embeddings, ChatWithTools, Call,
         ListModels, CallFails, CallAnswers, StreamEnds, StreamBreaks, AsksTool, ExecuteTool,
         NamedAnswers, AskActive, ActiveAnswers, AskNamed
<1> QED
  BY <1>1, <1>2, <1>3

\* Every history ends in a run of failures that the count goes with.
THEOREM HealthAlways == ProvidersSpec => []HealthInv
<1>1. ProvidersInit => HealthInv
  <2> SUFFICES ASSUME ProvidersInit PROVE HealthInv
    OBVIOUS
  <2>1. HistoryLen \in Nat \ {0} /\ MaxErrors \in Nat
    BY ProvidersAssumption
  <2>2. Fails(<<>>, 0) /\ 0 \in 0 .. Len(<<>>)
    BY DEF Fails
  <2>3. Counts(<<>>, 0)
    BY <2>1, <2>2 DEF Counts
  <2> QED
    BY <2>1, <2>3 DEF ProvidersInit, HealthInv
<1> QED
  BY <1>1, HealthStep, PTL DEF ProvidersSpec

\* The error count of a provider is the number of checks since it was last healthy,
\* however requests overlap, for any length of the history.
THEOREM ChecksAreCounted == ProvidersSpec => []HealthIsCounted
<1>1. HealthInv => HealthIsCounted
  BY CountsAreRuns DEF HealthInv, HealthIsCounted
<1> QED
  BY <1>1, HealthAlways, PTL

----------------------------------------------------------------------
(* Providers: the registry.                                                *)

\* The active provider is a registered one, and there is none only when none is
\* registered.
Chosen(o, a) == IF o = <<>> THEN a = "none" ELSE a \in Range(o)

OrderFits == order \in Seq(LLMs) /\ Distinct(order) /\ Chosen(order, active)

\* A sequence that is not empty has a first element, and one that is has none.
LEMMA HeadFacts ==
    ASSUME NEW A, NEW s \in Seq(A)
    PROVE  s # <<>> => Head(s) \in Range(s) /\ Range(s) # {}
<1> SUFFICES ASSUME s # <<>> PROVE Head(s) \in Range(s)
  OBVIOUS
<1>1. 1 \in DOMAIN s /\ Head(s) = s[1]
  OBVIOUS
<1> QED
  BY <1>1 DEF Range

\* Registering names in any order, some of which may be registered already.
LEMMA RegisterFits ==
    ASSUME OrderFits, NEW names \in Seq(LLMs), Distinct(names), Register(names)
    PROVE  OrderFits'
<1> DEFINE S == LLMs \ Range(order)
           new == Kept(names, LLMs, S)
<1>1. order \in Seq(LLMs) /\ Distinct(order) /\ Chosen(order, active)
  BY DEF OrderFits
<1>2. Selects(LLMs, S)
  BY KeptFacts
<1>3. new \in Seq(LLMs) /\ Range(new) = Range(names) \cap S /\ Distinct(new)
  BY <1>2, KeptDistinct DEF Selects
<1>4. order' = order \o new /\ active' = IF active = "none" /\ names # <<>> THEN Head(names) ELSE active
  BY DEF Register
<1>5. names = <<>> => new = <<>>
  BY <1>2 DEF Selects
<1>6. Range(order) \subseteq LLMs /\ Range(names) \subseteq LLMs /\ Range(<<>>) = {} /\ "none" \notin LLMs
  BY <1>1, RangeFacts, ProvidersAssumption
<1> HIDE DEF new
<1>7. order' \in Seq(LLMs) /\ Range(order') = Range(order) \cup Range(new)
  <2>1. Range(order \o new) = Range(order) \cup Range(new)
    BY <1>1, <1>3, RangeFacts
  <2> QED
    BY <1>1, <1>3, <1>4, <2>1
<1>8. Distinct(order')
  BY <1>1, <1>3, <1>4, DistinctConcat
<1>9. CASE active = "none"
  <2>1. order = <<>> /\ Range(new) = Range(names)
    BY <1>1, <1>3, <1>6, <1>9 DEF Chosen
  <2>2. CASE names = <<>>
    <3>1. order' = <<>> /\ active' = "none"
      BY <1>4, <1>5, <1>9, <2>1, <2>2
    <3> QED
      BY <1>7, <1>8, <3>1 DEF OrderFits, Chosen
  <2>3. CASE names # <<>>
    <3>1. active' = Head(names) /\ Head(names) \in Range(order')
      BY <1>4, <1>7, <1>9, <2>1, <2>3, HeadFacts
    <3>2. order' # <<>>
      BY <1>6, <3>1
    <3> QED
      BY <1>7, <1>8, <3>1, <3>2 DEF OrderFits, Chosen
  <2> QED
    BY <2>2, <2>3
<1>10. CASE active # "none"
  <2>1. active' = active /\ active \in Range(order')
    BY <1>1, <1>4, <1>7, <1>10 DEF Chosen
  <2>2. order' # <<>>
    BY <1>6, <2>1
  <2> QED
    BY <1>7, <1>8, <2>1, <2>2 DEF OrderFits, Chosen
<1> QED
  BY <1>9, <1>10

\* When the active provider goes the first of the others takes its place.
LEMMA UnregisterFits ==
    ASSUME OrderFits, NEW n \in LLMs, n \in Range(order), Unregister(n)
    PROVE  OrderFits'
<1> DEFINE S == LLMs \ {n}
           left == Kept(order, LLMs, S)
<1>1. order \in Seq(LLMs) /\ Distinct(order) /\ Chosen(order, active)
  BY DEF OrderFits
<1>2. Selects(LLMs, S)
  BY KeptFacts
<1>3. left \in Seq(LLMs) /\ Range(left) = Range(order) \cap S /\ Distinct(left)
  BY <1>1, <1>2, KeptDistinct DEF Selects
<1>4. order' = left /\ active' = IF active # n THEN active ELSE IF left = <<>> THEN "none" ELSE Head(left)
  BY DEF Unregister
<1>5. Range(order) \subseteq LLMs /\ Range(<<>>) = {}
  BY <1>1, RangeFacts
<1> HIDE DEF left
<1>6. active \in Range(order)
  BY <1>1, <1>5 DEF Chosen
<1>7. Chosen(left, active')
  <2>1. CASE active # n
    <3>1. active \in Range(left) /\ active' = active
      BY <1>3, <1>4, <1>5, <1>6, <2>1
    <3> QED
      BY <1>5, <3>1 DEF Chosen
  <2>2. CASE active = n
    BY <1>3, <1>4, <2>2, HeadFacts DEF Chosen
  <2> QED
    BY <2>1, <2>2
<1> QED
  BY <1>3, <1>4, <1>7 DEF OrderFits

\* A new order has the same names.
LEMMA ReorderFits ==
    ASSUME OrderFits, NEW p \in [DOMAIN order -> DOMAIN order],
           Reorder([i \in DOMAIN order |-> order[p[i]]])
    PROVE  OrderFits'
<1> DEFINE names == [i \in DOMAIN order |-> order[p[i]]]
           n == Len(order)
<1>1. order \in Seq(LLMs) /\ Distinct(order) /\ Chosen(order, active)
  BY DEF OrderFits
<1>2. n \in Nat /\ DOMAIN order = 1 .. n /\ \A i \in 1 .. n : order[i] \in LLMs
  BY <1>1
<1>3. order' = names /\ Range(names) = Range(order) /\ active' = active
  BY DEF Reorder
<1> HIDE DEF n
<1>4. names \in [1 .. n -> LLMs]
  BY <1>2
<1> HIDE DEF names
<1>5. names \in Seq(LLMs) /\ Len(names) = n
  BY <1>2, <1>4
<1>6. Distinct(names)
  BY <1>1, <1>3, <1>5 DEF Distinct, n
<1>7. names = <<>> <=> order = <<>>
  <2>1. \A s \in Seq(LLMs) : s = <<>> <=> Len(s) = 0
    OBVIOUS
  <2> QED
    BY <1>1, <1>5, <2>1 DEF n
<1>8. Chosen(names, active)
  BY <1>1, <1>3, <1>7 DEF Chosen
<1> QED
  BY <1>3, <1>5, <1>6, <1>8 DEF OrderFits

LEMMA OrderStep == OrderFits /\ [ProvidersNext]_providerVars => OrderFits'
<1> SUFFICES ASSUME OrderFits, [ProvidersNext]_providerVars PROVE OrderFits'
  OBVIOUS
<1>1. ASSUME NEW n \in LLMs, RegisterOne(n) PROVE OrderFits'
  <2>1. Distinct(<<>>)
    BY RangeFacts, FS_EmptySet DEF Distinct
  <2>2. <<n>> = Append(<<>>, n) /\ <<>> \in Seq(LLMs) /\ <<n>> \in Seq(LLMs) /\ n \notin Range(<<>>)
    BY RangeFacts
  <2>3. Distinct(<<n>>)
    BY <2>1, <2>2, DistinctAppended
  <2> QED
    BY <1>1, <2>2, <2>3, RegisterFits DEF RegisterOne
<1>2. ASSUME NEW n \in LLMs, UnregisterOne(n) PROVE OrderFits'
  BY <1>2, UnregisterFits DEF UnregisterOne
<1>3. ASSUME NEW n \in LLMs, SetActive(n) PROVE OrderFits'
  <2>1. order' = order /\ active' = n /\ n \in Range(order) /\ order \in Seq(LLMs)
    BY <1>3 DEF SetActive, OrderFits
  <2>2. order # <<>>
    BY <2>1, RangeFacts
  <2> QED
    BY <2>1, <2>2 DEF OrderFits, Chosen
<1>4. ASSUME NEW found \in SUBSET LLMs, Discover(found) PROVE OrderFits'
  <2> DEFINE S == found \ Range(order)
             names == Kept(Candidates, LLMs, S)
  <2>1. Candidates \in Seq(LLMs) /\ Distinct(Candidates)
    BY ProvidersAssumption DEF Distinct, LLMs
  <2>2. Selects(LLMs, S)
    BY KeptFacts
  <2>3. names \in Seq(LLMs) /\ Distinct(names)
    BY <2>1, <2>2, KeptDistinct DEF Selects
  <2>4. Register(names)
    BY <1>4 DEF Discover
  <2> HIDE DEF names
  <2> QED
    BY <2>3, <2>4, RegisterFits
<1>5. ASSUME NEW p \in [DOMAIN order -> DOMAIN order],
             Reorder([i \in DOMAIN order |-> order[p[i]]])
      PROVE  OrderFits'
  BY <1>5, ReorderFits
<1>6. CASE UNCHANGED registry
  BY <1>6 DEF registry, OrderFits
<1>7. \/ \E n \in LLMs : RegisterOne(n) \/ UnregisterOne(n) \/ SetActive(n)
      \/ \E found \in SUBSET LLMs : Discover(found)
      \/ \E p \in [DOMAIN order -> DOMAIN order] : Reorder([i \in DOMAIN order |-> order[p[i]]])
      \/ UNCHANGED registry
  BY ZenonT(60) DEF ProvidersNext, providerVars, registry, ListStart, ListEnd, ChatCompletions,
         Completions, Embeddings, ChatWithTools, Call, ListModels, CallFails, CallAnswers,
         StreamEnds, StreamBreaks, AsksTool, ExecuteTool, NamedAnswers, AskActive, ActiveAnswers,
         AskNamed
<1> QED
  BY <1>1, <1>2, <1>3, <1>4, <1>5, <1>6, <1>7

\* No provider is registered twice, and one of them is active as long as there is
\* one, whatever is discovered, registered, removed, selected and reordered.
THEOREM ProvidersTypeCorrect == ProvidersSpec => []ProvidersTypeOK
<1>1. ProvidersInit => OrderFits
  <2>1. Distinct(<<>>) /\ <<>> \in Seq(LLMs)
    BY RangeFacts, FS_EmptySet DEF Distinct
  <2> QED
    BY <2>1 DEF ProvidersInit, OrderFits, Chosen
<1>2. OrderFits /\ HealthInv => ProvidersTypeOK
  <2> SUFFICES ASSUME OrderFits, HealthInv PROVE ProvidersTypeOK
    OBVIOUS
  <2>1. order \in Seq(LLMs) /\ Range(order) \subseteq LLMs /\ "none" \notin LLMs
    BY RangeFacts, ProvidersAssumption DEF OrderFits
  <2>2. /\ active = "none" <=> order = <<>>
        /\ order # <<>> => active \in Range(order)
    BY <2>1 DEF OrderFits, Chosen
  <2>3. \A n \in LLMs : errors[n] \in 0 .. MaxErrors /\ Len(history[n]) <= HistoryLen
    BY DEF HealthInv
  <2> QED
    BY <2>2, <2>3 DEF OrderFits, Distinct, ProvidersTypeOK
<1> QED
  BY <1>1, <1>2, OrderStep, HealthAlways, PTL DEF ProvidersSpec

==============================================================================
