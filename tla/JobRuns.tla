------------------------------ MODULE JobRuns ------------------------------
(***************************************************************************)
(* The durable run state of one automation job: the row of the job, the    *)
(* rows of its runs, the task messages that trigger runs and the workers   *)
(* that execute them (wotbot/jobs: stores/runs.py, executor.py,            *)
(* service.py, taskiq_app.py; workers/job_worker.py).                      *)
(*                                                                         *)
(* Every store method is one database transaction that locks the row of    *)
(* the job, so it is one action here.  What is NOT one transaction is kept *)
(* apart: between the transaction that starts a run and the one that       *)
(* finishes it a worker executes for as long as it likes, and meanwhile    *)
(* the user may cancel, reply, disable or delete, another process may      *)
(* declare the run stale, the worker may die, and the broker may hand the  *)
(* same message to a second worker.                                        *)
(***************************************************************************)
EXTENDS Naturals, Sequences, FiniteSets

CONSTANTS
    Runs,           \* run ids (uuid4), each used at most once
    NoRun,          \* NULL in active_run_id and last_run_id
    Messages,       \* task messages of the job queue
    NoMessage,      \* a worker that holds no message
    Workers,        \* job-worker processes
    ReplyIds,       \* client_reply_id values chosen by the user interface
    NoReplyId,      \* a reply without a client_reply_id
    TriggerSource,  \* "time" or "event": the trigger kind of the job
    OneShot,        \* whether the time trigger fires exactly once
    MaxReclaims,    \* bound: reclaims of a message whose worker is alive
    MaxCrashes      \* bound: worker crashes

ASSUME JobRunsAssumption ==
    /\ NoRun \notin Runs
    /\ NoMessage \notin Messages
    /\ NoReplyId \notin ReplyIds
    /\ TriggerSource \in {"time", "event"}
    /\ OneShot \in BOOLEAN
    /\ MaxReclaims \in Nat
    /\ MaxCrashes \in Nat

VARIABLES
    job,        \* the row of table jobs (JobRecord)
    runs,       \* the rows of table job_runs (JobRunRecord), by id
    messages,   \* the task stream and its pending-entries list
    workers,    \* what each worker is doing
    crashes,    \* how many workers have crashed so far
    orphaned    \* history: runs that lost the lease to a cancellation or to the
                \* stale-run reconciliation while a live worker executed them

vars == <<job, runs, messages, workers, crashes, orphaned>>

(***************************************************************************)
(* Types                                                                   *)
(***************************************************************************)
Live     == {"running", "waiting_for_input"}
Terminal == {"succeeded", "failed", "cancelled", "skipped"}
Sources  == {"manual", TriggerSource}

JobRow == [exists: BOOLEAN,
           enabled: BOOLEAN,
           active_run_id: Runs \cup {NoRun},
           active_run_started_at: {"never", "recent", "old"},
           last_run_id: Runs \cup {NoRun},
           last_run_status: Live \cup Terminal \cup {"none"},
           waiting_question: BOOLEAN,
           run_count: Nat]

RunRow == [status: Live \cup Terminal \cup {"none"},
           source: Sources,
           replies: Seq(ReplyIds \cup {NoReplyId})]

Message == [state: {"unsent", "queued", "delivered", "acked"},
            source: Sources \cup {"user_reply"},
            client_reply_id: ReplyIds \cup {NoReplyId},
            reclaims: 0 .. MaxReclaims]

Worker == [pc: {"idle", "executing", "disabling", "acking", "down"},
           msg: Messages \cup {NoMessage},
           run: Runs \cup {NoRun}]

NewJobRow == [exists |-> TRUE, enabled |-> TRUE, active_run_id |-> NoRun,
              active_run_started_at |-> "never", last_run_id |-> NoRun,
              last_run_status |-> "none", waiting_question |-> FALSE,
              run_count |-> 0]
NoRunRow  == [status |-> "none", source |-> "manual", replies |-> << >>]
Unsent    == [state |-> "unsent", source |-> "manual",
              client_reply_id |-> NoReplyId, reclaims |-> 0]
IdleWorker == [pc |-> "idle", msg |-> NoMessage, run |-> NoRun]

Init ==
    /\ job = NewJobRow
    /\ runs = [r \in Runs |-> NoRunRow]
    /\ messages = [m \in Messages |-> Unsent]
    /\ workers = [w \in Workers |-> IdleWorker]
    /\ crashes = 0
    /\ orphaned = {}

(***************************************************************************)
(* Helpers of the store                                                    *)
(***************************************************************************)
\* Mutant: the lease column is not consulted.
HasActiveRunBySnapshot(j) == j.last_run_status \in Live

HasActiveRun(j) == j.active_run_id # NoRun \/ j.last_run_status \in Live

ActiveOrLastRunId(j) ==
    IF j.active_run_id # NoRun THEN j.active_run_id ELSE j.last_run_id

HasReply(run, reply) == \E i \in 1 .. Len(run.replies) : run.replies[i] = reply

Executes(w, r) == workers[w].pc = "executing" /\ workers[w].run = r

ReleaseLease(j) == [j EXCEPT !.active_run_id = NoRun,
                             !.active_run_started_at = "never"]

\* A run that ends without its worker: cancelled, or declared stale.
EndRun(j, status) ==
    [ReleaseLease(j) EXCEPT !.last_run_status = status,
                            !.waiting_question = FALSE,
                            !.run_count = @ + 1]

\* Mutant: the run is counted before the early return of a waiting run.
ApplyFinishedRunCountingWaits(j, r, started, status) ==
    LET seen == [j EXCEPT !.last_run_id = r, !.last_run_status = status,
                          !.run_count = @ + 1]
    IN  IF status = "waiting_for_input"
        THEN [seen EXCEPT !.active_run_id = r,
                          !.active_run_started_at = started,
                          !.waiting_question = TRUE]
        ELSE [(IF seen.active_run_id = r THEN ReleaseLease(seen) ELSE seen)
                 EXCEPT !.waiting_question = FALSE]

\* The effect of _apply_finished_run_to_job on the row of the job; "started" is
\* the age of the run's own started_at.
ApplyFinishedRun(j, r, started, status) ==
    LET seen == [j EXCEPT !.last_run_id = r, !.last_run_status = status]
    IN  IF status = "waiting_for_input"
        THEN [seen EXCEPT !.active_run_id = r,
                          !.active_run_started_at = started,
                          !.waiting_question = TRUE]
        ELSE [(IF seen.active_run_id = r THEN ReleaseLease(seen) ELSE seen)
                 EXCEPT !.run_count = @ + 1, !.waiting_question = FALSE]

(***************************************************************************)
(* The broker (external, a Redis stream with a consumer group): a message  *)
(* is delivered at least once.  An unacknowledged message is reclaimed     *)
(* when its worker died, and also from a live worker that has held it for  *)
(* longer than the idle timeout.                                           *)
(***************************************************************************)
Held(m) == \E w \in Workers : workers[w].msg = m

Deliverable(m) ==
    \/ messages[m].state = "queued"
    \/ /\ messages[m].state = "delivered"
       /\ Held(m) => messages[m].reclaims < MaxReclaims

Delivered(m) ==
    [messages EXCEPT ![m].state = "delivered",
                     ![m].reclaims = IF messages[m].state = "delivered" /\ Held(m)
                                     THEN @ + 1 ELSE @]

Take(w, m, pc, r) ==
    /\ workers[w].pc = "idle"
    /\ Deliverable(m)
    /\ messages' = Delivered(m)
    /\ workers' = [workers EXCEPT ![w] = [pc |-> pc, msg |-> m, run |-> r]]
    /\ UNCHANGED <<crashes, orphaned>>

Send(m, source, reply) ==
    /\ messages[m].state = "unsent"
    /\ messages' = [messages EXCEPT ![m] = [Unsent EXCEPT !.state = "queued",
                                                          !.source = source,
                                                          !.client_reply_id = reply]]
    /\ UNCHANGED <<job, runs, workers, crashes, orphaned>>

(***************************************************************************)
(* Requests: the scheduler, the event consumer and the user interface      *)
(***************************************************************************)
\* The scheduler or the event consumer enqueues a task (time or event), or the
\* user asks for a run now.  The schedule of a one-shot job is gone once sent.
Trigger(m, source) ==
    /\ OneShot /\ source = "time" =>
          \A n \in Messages : messages[n].state # "unsent" => messages[n].source # "time"
    /\ Send(m, source, NoReplyId)

\* reply_to_job: the waiting state is checked on a row read without a lock, and
\* again when the task runs.
Reply(m, reply) ==
    /\ job.exists
    /\ job.last_run_status = "waiting_for_input"
    /\ Send(m, "user_reply", reply)

\* The ghost: a run loses the lease while a live worker executes it.
Orphan(r) == orphaned' = IF \E w \in Workers : Executes(w, r)
                         THEN orphaned \cup {r} ELSE orphaned

CancelActiveRun ==
    /\ job.exists
    /\ job.active_run_id # NoRun
    /\ job.last_run_status \in Live
    /\ runs' = [runs EXCEPT ![job.active_run_id].status = "cancelled"]
    /\ job' = EndRun(job, "cancelled")
    /\ Orphan(job.active_run_id)
    /\ UNCHANGED <<messages, workers, crashes>>

SetEnabled(value) ==
    /\ job.exists
    /\ job.enabled # value
    /\ job' = [job EXCEPT !.enabled = value]
    /\ UNCHANGED <<runs, messages, workers, crashes, orphaned>>

\* Deleting the row of the job cascades to the rows of its runs.
DeleteJob ==
    /\ job.exists
    /\ job' = [NewJobRow EXCEPT !.exists = FALSE]
    /\ runs' = [r \in Runs |-> NoRunRow]
    /\ UNCHANGED <<messages, workers, crashes, orphaned>>

(***************************************************************************)
(* A worker takes a message: the transaction that starts the run           *)
(***************************************************************************)
\* The job was deleted: KeyError, and the task ends with an error.
TakeForDeletedJob(w, m) ==
    /\ ~job.exists
    /\ Take(w, m, "acking", NoRun)
    /\ UNCHANGED <<job, runs>>

CreateRun(r, source, status) ==
    runs' = [runs EXCEPT ![r] = [NoRunRow EXCEPT !.status = status,
                                                 !.source = source]]

\* _create_skipped_run for a disabled job: the snapshot of the job is updated.
SkipDisabled(w, m, r) ==
    /\ job.exists
    /\ messages[m].source = TriggerSource
    /\ ~job.enabled
    /\ runs[r].status = "none"
    /\ Take(w, m, "acking", NoRun)
    /\ CreateRun(r, messages[m].source, "skipped")
    /\ job' = [job EXCEPT !.last_run_id = r,
                          !.last_run_status = "skipped",
                          !.run_count = @ + 1]

\* _create_skipped_run for a busy job: only the counter moves.
SkipBusy(w, m, r) ==
    /\ job.exists
    /\ messages[m].source \in Sources
    /\ messages[m].source = "manual" \/ job.enabled
    /\ HasActiveRun(job)
    /\ runs[r].status = "none"
    /\ Take(w, m, "acking", NoRun)
    /\ CreateRun(r, messages[m].source, "skipped")
    /\ job' = [job EXCEPT !.run_count = @ + 1]

StartRun(w, m, r) ==
    /\ job.exists
    /\ messages[m].source \in Sources
    /\ messages[m].source = "manual" \/ job.enabled
    /\ ~HasActiveRun(job)
    /\ runs[r].status = "none"
    /\ Take(w, m, "executing", r)
    /\ CreateRun(r, messages[m].source, "running")
    /\ job' = [job EXCEPT !.active_run_id = r,
                          !.active_run_started_at = "recent",
                          !.last_run_id = r,
                          !.last_run_status = "running"]

\* Mutant: replies are not compared by client_reply_id.
DuplicateReplyNever(m) == FALSE

DuplicateReply(m) ==
    /\ ActiveOrLastRunId(job) # NoRun
    /\ messages[m].client_reply_id # NoReplyId
    /\ HasReply(runs[ActiveOrLastRunId(job)], messages[m].client_reply_id)

\* A reply that is already recorded, or that finds the job not waiting (or with
\* no run at all), changes nothing.
RefuseReply(w, m) ==
    /\ job.exists
    /\ messages[m].source = "user_reply"
    /\ \/ ActiveOrLastRunId(job) = NoRun
       \/ DuplicateReply(m)
       \/ job.last_run_status # "waiting_for_input"
    /\ Take(w, m, "acking", NoRun)
    /\ UNCHANGED <<job, runs>>

\* Mutant: the waiting state, checked when the reply was sent, is not checked again.
StartReplyRunUnchecked(w, m) ==
    LET r == ActiveOrLastRunId(job)
    IN  /\ job.exists
        /\ messages[m].source = "user_reply"
        /\ r # NoRun
        /\ ~DuplicateReply(m)
        /\ Take(w, m, "executing", r)
        /\ runs' = [runs EXCEPT
                      ![r].status = "running",
                      ![r].replies = Append(@, messages[m].client_reply_id)]
        /\ job' = [job EXCEPT !.active_run_id = r,
                              !.active_run_started_at = "recent",
                              !.last_run_id = r,
                              !.last_run_status = "running",
                              !.waiting_question = FALSE]

StartReplyRun(w, m) ==
    LET r == ActiveOrLastRunId(job)
    IN  /\ job.exists
        /\ messages[m].source = "user_reply"
        /\ r # NoRun
        /\ ~DuplicateReply(m)
        /\ job.last_run_status = "waiting_for_input"
        /\ Take(w, m, "executing", r)
        /\ runs' = [runs EXCEPT
                      ![r].status = "running",
                      ![r].replies = Append(@, messages[m].client_reply_id)]
        /\ job' = [job EXCEPT !.active_run_id = r,
                              !.active_run_started_at = "recent",
                              !.last_run_id = r,
                              !.last_run_status = "running",
                              !.waiting_question = FALSE]

(***************************************************************************)
(* A worker ends a run: executor.run_job after the job's action returned   *)
(***************************************************************************)

\* Neither transaction looks at the status the run has by now.  The start of the
\* run may lie on either side of the stale threshold.
FinishRun(w, status, started) ==
    LET r == workers[w].run
    IN  /\ workers[w].pc = "executing"
        /\ runs' = [runs EXCEPT ![r].status = IF @ = "none" THEN @ ELSE status]
        /\ job' = IF job.exists
                  THEN ApplyFinishedRun(job, r, started, status)
                  ELSE job
        /\ workers' = [workers EXCEPT
                         ![w].pc = IF OneShot /\ runs[r].source = "time"
                                   THEN "disabling" ELSE "acking",
                         ![w].run = NoRun]
        /\ UNCHANGED <<messages, crashes, orphaned>>

\* A one-shot time job has fired its run: disable_job, a second transaction.
DisableOneShot(w) ==
    /\ workers[w].pc = "disabling"
    /\ job' = IF job.exists THEN [job EXCEPT !.enabled = FALSE] ELSE job
    /\ workers' = [workers EXCEPT ![w].pc = "acking"]
    /\ UNCHANGED <<runs, messages, crashes, orphaned>>


Acknowledge(w) ==
    /\ workers[w].pc = "acking"
    /\ messages' = [messages EXCEPT ![workers[w].msg].state = "acked"]
    /\ workers' = [workers EXCEPT ![w] = IdleWorker]
    /\ UNCHANGED <<job, runs, crashes, orphaned>>

(***************************************************************************)
(* Crashes, restarts and the reconciliation of stale runs                  *)
(***************************************************************************)
Crash(w) ==
    /\ workers[w].pc # "down"
    /\ crashes < MaxCrashes
    /\ crashes' = crashes + 1
    /\ workers' = [workers EXCEPT ![w] = [IdleWorker EXCEPT !.pc = "down"]]
    /\ UNCHANGED <<job, runs, messages, orphaned>>

Stale == /\ job.exists
         /\ job.active_run_id # NoRun
         /\ job.active_run_started_at = "old"
         /\ job.last_run_status = "running"

\* mark_stale_running_runs_failed, run by every process that starts.
MarkStaleFailed ==
    IF Stale
    THEN /\ runs' = [runs EXCEPT ![job.active_run_id].status = "failed"]
         /\ job' = EndRun(job, "failed")
         /\ Orphan(job.active_run_id)
    ELSE UNCHANGED <<job, runs, orphaned>>

\* _worker_startup
RestartWorker(w) ==
    /\ workers[w].pc = "down"
    /\ workers' = [workers EXCEPT ![w] = IdleWorker]
    /\ MarkStaleFailed
    /\ UNCHANGED <<messages, crashes>>

\* JobService.start: the API process restarts.
RestartApi ==
    /\ MarkStaleFailed
    /\ UNCHANGED <<messages, workers, crashes>>

\* The stale threshold passes for the run that holds the lease.
Age == /\ job.active_run_started_at = "recent"
       /\ job' = [job EXCEPT !.active_run_started_at = "old"]
       /\ UNCHANGED <<runs, messages, workers, crashes, orphaned>>

(***************************************************************************)
(* Specification                                                           *)
(***************************************************************************)
FinishStatuses == {"succeeded", "failed", "waiting_for_input"}

TakeAny(w) ==
    \E m \in Messages :
        \/ TakeForDeletedJob(w, m)
        \/ RefuseReply(w, m)
        \/ StartReplyRun(w, m)
        \/ \E r \in Runs : \/ SkipDisabled(w, m, r)
                           \/ SkipBusy(w, m, r)
                           \/ StartRun(w, m, r)

FinishAny(w) == \E status \in FinishStatuses, started \in {"recent", "old"} :
                   FinishRun(w, status, started)

Request ==
    \/ \E m \in Messages, source \in Sources : Trigger(m, source)
    \/ \E m \in Messages, reply \in ReplyIds \cup {NoReplyId} : Reply(m, reply)
    \/ CancelActiveRun
    \/ \E value \in BOOLEAN : SetEnabled(value)
    \/ DeleteJob

WorkerStep(w) ==
    \/ TakeAny(w)
    \/ FinishAny(w)
    \/ DisableOneShot(w)
    \/ Acknowledge(w)
    \/ RestartWorker(w)

Next ==
    \/ Request
    \/ \E w \in Workers : WorkerStep(w) \/ Crash(w)
    \/ RestartApi
    \/ Age

Spec == Init /\ [][Next]_vars

\* The broker keeps delivering, a task returns (recursion limit and client
\* timeouts bound it) and a dead worker is restarted by the supervisor.
Fairness == \A w \in Workers : WF_vars(WorkerStep(w))

LiveSpec == Spec /\ Fairness

(***************************************************************************)
(* Properties                                                              *)
(***************************************************************************)
TypeOK ==
    /\ job \in JobRow
    /\ runs \in [Runs -> RunRow]
    /\ messages \in [Messages -> Message]
    /\ workers \in [Workers -> Worker]
    /\ \A w \in Workers : workers[w].pc = "executing" => workers[w].run \in Runs
    /\ crashes \in Nat
    /\ orphaned \in SUBSET Runs

\* No run is ever executed by two workers at once, whatever the broker delivers
\* twice, whoever crashes, cancels, replies or reconciles: the conversation
\* thread and the record of a run have one writer.
SingleExecutor ==
    \A r \in Runs : \A w1, w2 \in Workers :
        Executes(w1, r) /\ Executes(w2, r) => w1 = w2

\* The snapshot on the row of the job is real: a job that says it runs or waits
\* has the lease held by the run it names, whose own row says the same; and a
\* job that waits has a question and no worker still executing the run, so the
\* reply that start_reply_job_run accepts resumes exactly that run.
SnapshotIsReal ==
    job.exists /\ job.last_run_status \in Live =>
        /\ job.active_run_id # NoRun
        /\ job.last_run_id = job.active_run_id
        /\ runs[job.active_run_id].status = job.last_run_status
        /\ job.last_run_status = "waiting_for_input" =>
              /\ job.waiting_question
              /\ \A w \in Workers : ~Executes(w, job.active_run_id)

\* As long as no run was taken from a live worker, active_run_id is a lease: the
\* rows that say running or waiting are exactly the active run, and a worker
\* executes only that run.
LeaseSound ==
    job.exists /\ orphaned = {} =>
        /\ \A r \in Runs : runs[r].status \in Live <=> job.active_run_id = r
        /\ \A w \in Workers, r \in Runs :
              Executes(w, r) => job.active_run_id = r /\ runs[r].status = "running"

\* The variables have their types, and the lease, the snapshot on the job's row, the
\* runs' own rows and what the workers execute agree.
LeaseConsistent == TypeOK /\ SnapshotIsReal /\ LeaseSound

\* A reply is recorded at most once in a run, however often the user interface
\* or the broker repeats it, when it carries a client_reply_id.
ReplyRecordedOnce ==
    \A r \in Runs : \A i, j \in 1 .. Len(runs[r].replies) :
        /\ runs[r].replies[i] = runs[r].replies[j]
        /\ runs[r].replies[i] # NoReplyId
        => i = j

\* run_count counts every run that ended exactly once, skipped, cancelled and
\* stale ones included, as long as no run was taken from a live worker.
RunCountExact ==
    job.exists /\ orphaned = {} =>
        job.run_count = Cardinality({r \in Runs : runs[r].status \in Terminal})

\* The status of a run that ended changes only if it was cancelled, or declared
\* stale, under a live worker: no other interleaving rewrites history.
EndedRunsStayEnded ==
    [][\A r \in Runs :
         /\ job'.exists
         /\ runs[r].status \in Terminal
         /\ runs'[r].status # runs[r].status
         => r \in orphaned]_vars


=============================================================================
