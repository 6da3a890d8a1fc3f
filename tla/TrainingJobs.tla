---------------------------- MODULE TrainingJobs ----------------------------
(***************************************************************************)
(* Fine-tuning jobs (bmt_ai_os/controller/training_routes.py).  A job is a *)
(* row of a SQLite table.  The HTTP routes and the training workers, which *)
(* are processes of their own, change it through TrainingJobManager, whose *)
(* update_status reads the row in one transaction and writes it in         *)
(* another.  The workers are not in the repository: each may ask for any   *)
(* status and any progress at any time.                                    *)
(*                                                                         *)
(* GET /metrics (controller/prometheus.py) turns the rows into counters,   *)
(* which only grow, by what it remembers of the scrape before.             *)
(***************************************************************************)
EXTENDS Integers, Sequences, SequencesExt, Folding

CONSTANTS
    Jobs,     \* job ids, each used once
    Callers   \* concurrent callers of update_status

JobStatus == {"pending", "running", "completed", "failed", "cancelled"}
Ended == {"completed", "failed", "cancelled"}

VARIABLES
    job,      \* training_jobs
    call,     \* what each caller of update_status is doing
    raced,    \* history: jobs of which two updates overlapped
    rows,     \* the order of the rows, in which SQLite scans the table
    counts,   \* _prev_training_counts, of the statuses in which jobs end
    exported, \* bmt_training_jobs_total, for each status
    durations, \* _prev_training_duration_count
    observed  \* bmt_training_job_duration_seconds: how often each job's was observed

exports == <<counts, exported, durations, observed>>
jobVars == <<job, call, raced, rows, exports>>

NoJob == [status |-> "none", progress |-> FALSE, started |-> FALSE, finished |-> FALSE]
NoUpdate == [step |-> "idle", job |-> "none", want |-> "none", seen |-> NoJob]

JobInit ==
    /\ job = [j \in Jobs |-> NoJob]
    /\ call = [c \in Callers |-> NoUpdate]
    /\ raced = {}
    /\ rows = <<>>
    /\ counts = [s \in Ended |-> 0] /\ exported = [s \in Ended |-> 0]
    /\ durations = 0 /\ observed = [j \in Jobs |-> 0]

Transitions(s) ==
    CASE s = "pending" -> {"running", "cancelled"}
      [] s = "running" -> Ended
      [] OTHER         -> {}

\* The ids are interchangeable, so any unused one will do.
CreateJob ==
    LET unused == {j \in Jobs : job[j] = NoJob}
        new == CHOOSE j \in unused : TRUE
    IN /\ unused # {}
       /\ job' = [job EXCEPT ![new].status = "pending"]
       /\ rows' = Append(rows, new)
       /\ UNCHANGED <<call, raced, exports>>

\* Bound: updates of different jobs, which read and write nothing in common, take
\* turns.
Begin(c, j, step, want) ==
    /\ call[c] = NoUpdate
    /\ \A d \in Callers : call[d].job \in {"none", j}
    /\ call' = [call EXCEPT ![c] = [NoUpdate EXCEPT !.step = step, !.job = j, !.want = want]]
    /\ raced' = IF \E d \in Callers : call[d].job = j THEN raced \cup {j} ELSE raced
    /\ UNCHANGED <<job, rows, exports>>

\* A worker calls update_status.
BeginUpdate(c, j, want) == Begin(c, j, "read", want)

\* The route looks at the job, then calls update_status, which looks again.
CancelJob(c, j) ==
    /\ job[j].status \in {"pending", "running"}
    /\ Begin(c, j, "read", "cancelled")

\* Faulty: the transition is not checked.
UpdateReadUnchecked(c) ==
    /\ call[c].step = "read"
    /\ call' = [call EXCEPT ![c].step = "write", ![c].seen = job[call[c].job]]
    /\ UNCHANGED <<job, raced, rows, exports>>

\* A job that does not exist, or a transition that is not allowed, ends the call.
UpdateRead(c) ==
    LET seen == job[call[c].job]
    IN /\ call[c].step = "read"
       /\ call' = [call EXCEPT ![c] =
                     IF call[c].want \in Transitions(seen.status)
                     THEN [@ EXCEPT !.step = "write", !.seen = seen]
                     ELSE NoUpdate]
       /\ UNCHANGED <<job, raced, rows, exports>>

\* Faulty: only the times that change are written.
Stamped(seen, want) ==
    [started  |-> seen.started,
     finished |-> seen.finished \/ want \in Ended]

\* The two times are computed from the row that was read.
Times(seen, want) ==
    [started  |-> seen.started \/ want = "running",
     finished |-> seen.finished \/ want \in Ended]

UpdateWrite(c) ==
    LET j == call[c].job
        t == Times(call[c].seen, call[c].want)
    IN /\ call[c].step = "write"
       /\ job' = [job EXCEPT ![j].status = call[c].want,
                             ![j].started = t.started, ![j].finished = t.finished]
       /\ call' = [call EXCEPT ![c] = NoUpdate]
       /\ UNCHANGED <<raced, rows, exports>>

\* progress tells only whether a worker has reported any.  The status is not
\* looked at.
UpdateProgress(j) ==
    /\ job[j] # NoJob
    /\ job' = [job EXCEPT ![j].progress = TRUE]
    /\ UNCHANGED <<call, raced, rows, exports>>

----------------------------------------------------------------------------
(* The export of the jobs' metrics.                                        *)

CountByStatus(s) == Cardinality({j \in Jobs : job[j].status = s})

\* get_completed_durations: the rows that have both times.
HasDuration(j) == job[j].started /\ job[j].finished
CompletedDurations == Kept(rows, Jobs, {j \in Jobs : HasDuration(j)})

\* Faulty: the counts are not remembered.
ScrapeCountsAnew ==
    exported' = [s \in Ended |-> exported[s] + CountByStatus(s)] /\ UNCHANGED counts

\* A status that no row has is not looked at, so its old count stays.
ScrapeCounts ==
    /\ exported' = [s \in Ended |-> IF CountByStatus(s) > counts[s]
                                    THEN exported[s] + CountByStatus(s) - counts[s]
                                    ELSE exported[s]]
    /\ counts' = [s \in Ended |-> IF CountByStatus(s) > 0 THEN CountByStatus(s) ELSE counts[s]]

\* The durations past the number of those seen before are taken for the new ones.
ScrapeDurations ==
    LET list == CompletedDurations
        new == SubSeq(list, durations + 1, Len(list))
    IN /\ observed' = [j \in Jobs |-> observed[j] + IF Contains(new, j) THEN 1 ELSE 0]
       /\ durations' = durations + Len(new)

\* _update_training_metrics, which reads the table twice; nothing relates the two.
\* Bound: not after updates of a job have overlapped, when a status may return.
Scrape ==
    /\ raced = {}
    /\ ScrapeCounts /\ ScrapeDurations
    /\ UNCHANGED <<job, call, raced, rows>>

JobNext ==
    \/ CreateJob \/ Scrape
    \/ \E j \in Jobs :
         \/ UpdateProgress(j)
         \/ \E c \in Callers : CancelJob(c, j) \/ \E s \in JobStatus : BeginUpdate(c, j, s)
    \/ \E c \in Callers : UpdateRead(c) \/ UpdateWrite(c)

JobSpec == JobInit /\ [][JobNext]_jobVars

----------------------------------------------------------------------------
JobTypeOK ==
    /\ job \in [Jobs -> [status : JobStatus \cup {"none"}, progress : BOOLEAN,
                         started : BOOLEAN, finished : BOOLEAN]]
    /\ \A c \in Callers : call[c].step \in {"idle", "read", "write"}
    /\ raced \subseteq Jobs
    /\ rows \in Seq(Jobs) /\ Range(rows) = {j \in Jobs : job[j] # NoJob}
    /\ durations \in 0 .. Len(rows)

\* Even when two updates of a job overlap, its status and its times agree:
\* a job has an end exactly when it has ended, a running job and one that ran
\* to its end have a start, so that durations are counted for each of these.
TimesMatchStatus ==
    \A j \in Jobs :
        /\ job[j].finished <=> job[j].status \in Ended
        /\ job[j].status = "running" => job[j].started
        /\ job[j].status \in {"completed", "failed"} => HasDuration(j)

\* A job that has ended keeps its status, unless two updates of it overlapped.
EndedStaysEnded ==
    [][\A j \in Jobs : job[j].status \in Ended /\ j \notin raced => job'[j].status = job[j].status]_jobVars

\* "Total number of training jobs created, by terminal status": unless updates
\* of a job overlapped, the counter of a status in which jobs end is what the last
\* scrape remembers, and never exceeds the number of jobs that ended so.
EndsAreCountedOnce ==
    raced = {} => \A s \in Ended :
        /\ exported[s] <= CountByStatus(s)
        /\ counts[s] = exported[s]

\* "Observe only the newly completed jobs": no job's duration is observed twice.
DurationsObservedOnce == \A j \in Jobs : observed[j] <= 1
=============================================================================
