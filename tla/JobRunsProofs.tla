--------------------------- MODULE JobRunsProofs ---------------------------
(***************************************************************************)
(* Theorems about JobRuns, for any number of runs, messages and workers,   *)
(* any number of crashes and any amount of duplicate delivery.             *)
(***************************************************************************)
EXTENDS JobRuns, FiniteSetTheorems, TLAPS

(***************************************************************************)
(* Type correctness                                                        *)
(***************************************************************************)
\* What taking a message changes keeps its type.
LEMMA TakeTypes ==
    ASSUME TypeOK, NEW w \in Workers, NEW m \in Messages,
           NEW pc \in {"executing", "acking"}, NEW r \in Runs \cup {NoRun},
           Take(w, m, pc, r)
    PROVE  /\ messages' \in [Messages -> Message]
           /\ workers' \in [Workers -> Worker]
           /\ pc # "executing" \/ r \in Runs =>
                 \A v \in Workers : workers'[v].pc = "executing" => workers'[v].run \in Runs
           /\ crashes' \in Nat
           /\ orphaned' \in SUBSET Runs
<1>1. messages[m] \in Message
  BY DEF TypeOK
<1> DEFINE reclaims == IF messages[m].state = "delivered" /\ Held(m)
                       THEN messages[m].reclaims + 1 ELSE messages[m].reclaims
<1>4. reclaims \in 0 .. MaxReclaims
  BY <1>1, JobRunsAssumption DEF Take, Deliverable, Message, JobRunsAssumption
<1>5. messages' = [messages EXCEPT
                     ![m] = [messages[m] EXCEPT !.state = "delivered",
                                                !.reclaims = reclaims]]
  BY <1>1 DEF Take, Delivered, Message, TypeOK
<1>2. messages' \in [Messages -> Message]
  <2> HIDE DEF reclaims
  <2> QED
    BY <1>1, <1>4, <1>5 DEF TypeOK, Message
<1>3. workers' \in [Workers -> Worker]
  BY DEF TypeOK, Take, Worker
<1>6. pc # "executing" \/ r \in Runs =>
         \A v \in Workers : workers'[v].pc = "executing" => workers'[v].run \in Runs
  BY DEF TypeOK, Take, Worker
<1> QED
  BY <1>2, <1>3, <1>6 DEF TypeOK, Take

\* Sending a message keeps the types.
LEMMA SendTypes ==
    ASSUME TypeOK, NEW m \in Messages, NEW source \in Sources \cup {"user_reply"},
           NEW reply \in ReplyIds \cup {NoReplyId}, Send(m, source, reply)
    PROVE  TypeOK'
<1>1. [Unsent EXCEPT !.state = "queued", !.source = source, !.client_reply_id = reply]
         \in Message
  <2>1. 0 \in 0 .. MaxReclaims
    BY JobRunsAssumption DEF JobRunsAssumption
  <2>2. Unsent \in Message
    BY <2>1 DEF Unsent, Message, Sources
  <2> QED
    BY <2>2 DEF Message
<1>2. messages' \in [Messages -> Message]
  BY <1>1 DEF Send, TypeOK
<1> QED
  BY <1>2 DEF Send, TypeOK

\* A new run row is typed.
LEMMA CreateRunTypes ==
    ASSUME TypeOK, NEW r \in Runs, NEW source \in Sources,
           NEW status \in Live \cup Terminal, CreateRun(r, source, status)
    PROVE  runs' \in [Runs -> RunRow]
<1>1. << >> \in Seq(ReplyIds \cup {NoReplyId})
  OBVIOUS
<1> QED
  BY <1>1 DEF TypeOK, CreateRun, NoRunRow, RunRow

\* The rows of a job that was created or deleted just now are typed.
LEMMA NewRowTypes ==
    /\ NewJobRow \in JobRow
    /\ [NewJobRow EXCEPT !.exists = FALSE] \in JobRow
    /\ NoRunRow \in RunRow
<1>1. << >> \in Seq(ReplyIds \cup {NoReplyId})
  OBVIOUS
<1> QED
  BY <1>1 DEF NewJobRow, JobRow, NoRunRow, RunRow, Sources

\* Releasing the lease touches the lease only.
LEMMA ReleaseLeaseRow ==
    ASSUME NEW j \in JobRow
    PROVE  /\ ReleaseLease(j) \in JobRow
           /\ ReleaseLease(j).active_run_id = NoRun
           /\ ReleaseLease(j).exists = j.exists
           /\ ReleaseLease(j).last_run_id = j.last_run_id
           /\ ReleaseLease(j).last_run_status = j.last_run_status
           /\ ReleaseLease(j).run_count = j.run_count
BY DEF ReleaseLease, JobRow

\* What cancelling a run, or declaring it stale, makes of the row of the job.
LEMMA EndedRow ==
    ASSUME NEW j \in JobRow, NEW status \in Terminal
    PROVE  /\ EndRun(j, status) \in JobRow
           /\ EndRun(j, status).exists = j.exists
           /\ EndRun(j, status).active_run_id = NoRun
           /\ EndRun(j, status).last_run_status = status
<1>1. ReleaseLease(j) \in JobRow
  BY ReleaseLeaseRow
<1>2. ReleaseLease(j).run_count + 1 \in Nat
  BY <1>1 DEF JobRow
<1> DEFINE i == ReleaseLease(j)
<1>3. i \in JobRow /\ i.run_count + 1 \in Nat /\ i.active_run_id = NoRun /\ i.exists = j.exists
  BY <1>1, <1>2, ReleaseLeaseRow
<1>4. EndRun(j, status) = [i EXCEPT !.last_run_status = status,
                                    !.waiting_question = FALSE,
                                    !.run_count = i.run_count + 1]
  BY <1>1 DEF JobRow, EndRun
<1> HIDE DEF i
<1> QED
  BY <1>3, <1>4 DEF JobRow, Terminal

\* Applying a finished run to a job row gives a job row that names this run.
LEMMA ApplyFinishedRunRow ==
    ASSUME NEW j \in JobRow, NEW r \in Runs, NEW started \in {"recent", "old"},
           NEW status \in FinishStatuses, NEW k,
           k = ApplyFinishedRun(j, r, started, status)
    PROVE  /\ k \in JobRow
           /\ k.exists = j.exists
           /\ k.last_run_id = r
           /\ k.last_run_status = status
           /\ status = "waiting_for_input" => k.active_run_id = r /\ k.waiting_question
           /\ status # "waiting_for_input" =>
                 k.active_run_id = IF j.active_run_id = r THEN NoRun ELSE j.active_run_id
<1> DEFINE seen == [j EXCEPT !.last_run_id = r, !.last_run_status = status]
<1>1. /\ seen \in JobRow
      /\ seen.exists = j.exists
      /\ seen.last_run_id = r
      /\ seen.last_run_status = status
      /\ seen.active_run_id = j.active_run_id
  BY DEF JobRow, FinishStatuses, Live, Terminal
<1>2. CASE status = "waiting_for_input"
  <2>1. k = [seen EXCEPT !.active_run_id = r, !.active_run_started_at = started,
                         !.waiting_question = TRUE]
    BY <1>2 DEF ApplyFinishedRun
  <2> HIDE DEF seen
  <2> QED
    BY <1>1, <1>2, <2>1 DEF JobRow
<1>3. CASE status # "waiting_for_input"
  <2> DEFINE i == IF seen.active_run_id = r THEN ReleaseLease(seen) ELSE seen
  <2>1. k = [i EXCEPT !.run_count = @ + 1, !.waiting_question = FALSE]
    BY <1>3 DEF ApplyFinishedRun
  <2> HIDE DEF seen
  <2>2. /\ i \in JobRow
        /\ i.exists = j.exists
        /\ i.last_run_id = r
        /\ i.last_run_status = status
        /\ i.active_run_id = IF j.active_run_id = r THEN NoRun ELSE j.active_run_id
    BY <1>1, ReleaseLeaseRow
  <2>3. i.run_count + 1 \in Nat
    BY <2>2 DEF JobRow
  <2> HIDE DEF i
  <2> QED
    BY <1>3, <2>1, <2>2, <2>3 DEF JobRow
<1> QED
  BY <1>2, <1>3

\* The stale-run reconciliation keeps the types.
LEMMA MarkStaleTypes ==
    ASSUME TypeOK, MarkStaleFailed
    PROVE  /\ job' \in JobRow
           /\ runs' \in [Runs -> RunRow]
           /\ orphaned' \in SUBSET Runs
<1>1. CASE Stale
  <2>1. job' \in JobRow
    BY <1>1, EndedRow DEF MarkStaleFailed, TypeOK, Terminal
  <2>2. job.active_run_id \in Runs
    BY <1>1 DEF Stale, TypeOK, JobRow
  <2>5. [runs[job.active_run_id] EXCEPT !.status = "failed"] \in RunRow
    BY <2>2 DEF TypeOK, RunRow, Terminal
  <2>3. runs' \in [Runs -> RunRow]
    BY <1>1, <2>2, <2>5 DEF MarkStaleFailed, TypeOK
  <2>4. orphaned' \in SUBSET Runs
    BY <1>1, <2>2 DEF MarkStaleFailed, Orphan, TypeOK
  <2> QED
    BY <2>1, <2>3, <2>4
<1>2. CASE ~Stale
  BY <1>2 DEF MarkStaleFailed, TypeOK
<1> QED
  BY <1>1, <1>2

\* The variables have their types at first ...
LEMMA InitTypeOK == Init => TypeOK
BY NewRowTypes, JobRunsAssumption
DEF Init, TypeOK, Unsent, Message, IdleWorker, Worker, Sources, JobRunsAssumption

\* ... and every step keeps them.
LEMMA NextTypeOK == TypeOK /\ [Next]_vars => TypeOK'
<1> SUFFICES ASSUME TypeOK, [Next]_vars
             PROVE  TypeOK'
  OBVIOUS
<1>1. ASSUME NEW m \in Messages, NEW source \in Sources, Trigger(m, source)
      PROVE  TypeOK'
  BY <1>1, SendTypes DEF Trigger
<1>2. ASSUME NEW m \in Messages, NEW reply \in ReplyIds \cup {NoReplyId}, Reply(m, reply)
      PROVE  TypeOK'
  BY <1>2, SendTypes DEF Reply
<1>3. CASE CancelActiveRun
  <2>1. job' \in JobRow
    BY <1>3, EndedRow DEF CancelActiveRun, TypeOK, Terminal
  <2>2. job.active_run_id \in Runs
    BY <1>3 DEF CancelActiveRun, TypeOK, JobRow
  <2>3. runs' \in [Runs -> RunRow]
    BY <1>3, <2>2 DEF CancelActiveRun, TypeOK, RunRow, Terminal
  <2>4. orphaned' \in SUBSET Runs
    BY <1>3, <2>2 DEF CancelActiveRun, Orphan, TypeOK
  <2> QED
    BY <1>3, <2>1, <2>3, <2>4 DEF CancelActiveRun, TypeOK
<1>4. ASSUME NEW value \in BOOLEAN, SetEnabled(value)
      PROVE  TypeOK'
  BY <1>4 DEF SetEnabled, TypeOK, JobRow
<1>5. CASE DeleteJob
  BY <1>5, NewRowTypes DEF DeleteJob, TypeOK
<1>6. ASSUME NEW w \in Workers, NEW m \in Messages, TakeForDeletedJob(w, m)
      PROVE  TypeOK'
  BY <1>6, TakeTypes DEF TakeForDeletedJob, TypeOK
<1>7. ASSUME NEW w \in Workers, NEW m \in Messages, RefuseReply(w, m)
      PROVE  TypeOK'
  BY <1>7, TakeTypes DEF RefuseReply, TypeOK
<1>8. ASSUME NEW w \in Workers, NEW m \in Messages, StartReplyRun(w, m)
      PROVE  TypeOK'
  <2> DEFINE r == ActiveOrLastRunId(job)
  <2>1. r \in Runs /\ messages[m].client_reply_id \in ReplyIds \cup {NoReplyId}
    BY <1>8 DEF StartReplyRun, ActiveOrLastRunId, TypeOK, JobRow, Message
  <2>2. Append(runs[r].replies, messages[m].client_reply_id)
           \in Seq(ReplyIds \cup {NoReplyId})
    BY <2>1 DEF TypeOK, RunRow
  <2>3. runs' \in [Runs -> RunRow]
    BY <1>8, <2>1, <2>2 DEF StartReplyRun, TypeOK, RunRow, Live
  <2>4. job' \in JobRow
    BY <1>8, <2>1 DEF StartReplyRun, TypeOK, JobRow, Live
  <2>5. Take(w, m, "executing", r)
    BY <1>8 DEF StartReplyRun
  <2> HIDE DEF r
  <2> QED
    BY <2>1, <2>3, <2>4, <2>5, TakeTypes DEF TypeOK
<1>9. ASSUME NEW w \in Workers, NEW m \in Messages, NEW r \in Runs, SkipDisabled(w, m, r)
      PROVE  TypeOK'
  <2>1. Take(w, m, "acking", NoRun)
    BY <1>9 DEF SkipDisabled
  <2>2. runs' \in [Runs -> RunRow]
    BY <1>9, CreateRunTypes DEF SkipDisabled, Sources, Terminal
  <2>4. job \in JobRow /\ job.run_count + 1 \in Nat
    BY DEF TypeOK, JobRow
  <2>3. job' \in JobRow
    BY <1>9, <2>4 DEF SkipDisabled, JobRow, Terminal
  <2> QED
    BY <2>1, <2>2, <2>3, TakeTypes DEF TypeOK
<1>10. ASSUME NEW w \in Workers, NEW m \in Messages, NEW r \in Runs, SkipBusy(w, m, r)
       PROVE  TypeOK'
  <2>1. Take(w, m, "acking", NoRun)
    BY <1>10 DEF SkipBusy
  <2>2. runs' \in [Runs -> RunRow]
    BY <1>10, CreateRunTypes DEF SkipBusy, Terminal
  <2>3. job' \in JobRow
    BY <1>10 DEF SkipBusy, TypeOK, JobRow
  <2> QED
    BY <2>1, <2>2, <2>3, TakeTypes DEF TypeOK
<1>11. ASSUME NEW w \in Workers, NEW m \in Messages, NEW r \in Runs, StartRun(w, m, r)
       PROVE  TypeOK'
  <2>1. Take(w, m, "executing", r)
    BY <1>11 DEF StartRun
  <2>2. runs' \in [Runs -> RunRow]
    BY <1>11, CreateRunTypes DEF StartRun, Live
  <2>3. job' \in JobRow
    BY <1>11 DEF StartRun, TypeOK, JobRow, Live
  <2> QED
    BY <2>1, <2>2, <2>3, TakeTypes DEF TypeOK
<1>12. ASSUME NEW w \in Workers, NEW status \in FinishStatuses,
              NEW started \in {"recent", "old"}, FinishRun(w, status, started)
       PROVE  TypeOK'
  <2>1. job' \in JobRow
    BY <1>12, ApplyFinishedRunRow DEF FinishRun, TypeOK
  <2>2. runs' \in [Runs -> RunRow]
    <3>1. ASSUME NEW r \in Runs
          PROVE  [runs[r] EXCEPT !.status = IF runs[r].status = "none" THEN "none"
                                            ELSE status] \in RunRow
      BY DEF TypeOK, RunRow, FinishStatuses, Live, Terminal
    <3>2. runs' = [runs EXCEPT ![workers[w].run] =
                     [runs[workers[w].run] EXCEPT
                        !.status = IF runs[workers[w].run].status = "none" THEN "none"
                                   ELSE status]]
      BY <1>12 DEF FinishRun, TypeOK, RunRow
    <3> QED
      BY <1>12, <3>1, <3>2 DEF FinishRun, TypeOK
  <2>5. \A pc \in {"disabling", "acking"} :
           [workers[w] EXCEPT !.pc = pc, !.run = NoRun] \in Worker
    BY DEF TypeOK, Worker
  <2>3. workers' \in [Workers -> Worker]
    BY <1>12, <2>5 DEF FinishRun, TypeOK
  <2>4. \A v \in Workers : workers'[v].pc = "executing" => workers'[v].run \in Runs
    BY <1>12 DEF FinishRun, TypeOK, Worker
  <2> QED
    BY <1>12, <2>1, <2>2, <2>3, <2>4 DEF FinishRun, TypeOK
<1>13. ASSUME NEW w \in Workers, DisableOneShot(w)
       PROVE  TypeOK'
  <2>1. job' \in JobRow
    BY <1>13 DEF DisableOneShot, TypeOK, JobRow
  <2>2. [workers[w] EXCEPT !.pc = "acking"] \in Worker
    BY DEF TypeOK, Worker
  <2>3. /\ workers' \in [Workers -> Worker]
        /\ \A v \in Workers : workers'[v].pc = "executing" => workers'[v].run \in Runs
    BY <1>13, <2>2 DEF DisableOneShot, TypeOK, Worker
  <2> QED
    BY <1>13, <2>1, <2>3 DEF DisableOneShot, TypeOK
<1>14. ASSUME NEW w \in Workers, Acknowledge(w)
       PROVE  TypeOK'
  <2>1. messages' \in [Messages -> Message]
    <3>1. \A m \in Messages : [messages[m] EXCEPT !.state = "acked"] \in Message
      BY DEF TypeOK, Message
    <3> QED
      BY <1>14, <3>1 DEF Acknowledge, TypeOK
  <2>2. workers' \in [Workers -> Worker]
    BY <1>14 DEF Acknowledge, TypeOK, Worker, IdleWorker
  <2>3. \A v \in Workers : workers'[v].pc = "executing" => workers'[v].run \in Runs
    BY <1>14 DEF Acknowledge, TypeOK, IdleWorker
  <2> QED
    BY <1>14, <2>1, <2>2, <2>3 DEF Acknowledge, TypeOK
<1>15. ASSUME NEW w \in Workers, Crash(w)
       PROVE  TypeOK'
  BY <1>15 DEF Crash, TypeOK, Worker, IdleWorker
<1>16. ASSUME NEW w \in Workers, RestartWorker(w)
       PROVE  TypeOK'
  BY <1>16, MarkStaleTypes DEF RestartWorker, TypeOK, Worker, IdleWorker
<1>17. CASE RestartApi
  BY <1>17, MarkStaleTypes DEF RestartApi, TypeOK
<1>18. CASE Age
  BY <1>18 DEF Age, TypeOK, JobRow
<1>19. CASE UNCHANGED vars
  BY <1>19 DEF vars, TypeOK
<1> QED
  BY <1>1, <1>2, <1>3, <1>4, <1>5, <1>6, <1>7, <1>8, <1>9, <1>10, <1>11, <1>12,
     <1>13, <1>14, <1>15, <1>16, <1>17, <1>18, <1>19
  DEF Next, Request, WorkerStep, TakeAny, FinishAny

\* Type correctness of every behaviour of the run state of a job.
THEOREM TypeCorrect == Spec => []TypeOK
BY InitTypeOK, NextTypeOK, PTL DEF Spec

(***************************************************************************)
(* One executor per run, and a snapshot that is real                       *)
(***************************************************************************)
\* The inductive invariant.  SingleExecutor alone is not inductive: a reply gives
\* a run a second execution, which is safe because a job that says it waits has
\* a run nobody executes (SnapshotIsReal); and a new run is safe because its id
\* names no row while every executed run of a job that still exists has one.
\* The last conjunct records how an executed run can stop being running: only
\* by losing its lease, which the history variable orphaned remembers.
ExecutedRunsRunning ==
    job.exists => \A w \in Workers, r \in Runs :
        Executes(w, r) => \/ runs[r].status = "running"
                          \/ runs[r].status \in Terminal /\ r \in orphaned

IInv == TypeOK /\ SingleExecutor /\ SnapshotIsReal /\ ExecutedRunsRunning

\* The invariant holds at first ...
LEMMA InitIInv == Init => IInv
<1> SUFFICES ASSUME Init PROVE IInv
  OBVIOUS
<1>1. TypeOK
  BY InitTypeOK
<1>2. \A w \in Workers, r \in Runs : ~Executes(w, r)
  BY DEF Init, Executes, IdleWorker
<1>3. job.last_run_status = "none"
  BY DEF Init, NewJobRow
<1> QED
  BY <1>1, <1>2, <1>3 DEF IInv, SingleExecutor, SnapshotIsReal, ExecutedRunsRunning, Live

\* Taking a message without starting a run changes no execution.
LEMMA TakeNothingExecutes ==
    ASSUME TypeOK, NEW w \in Workers, NEW m \in Messages, Take(w, m, "acking", NoRun)
    PROVE  \A v \in Workers, r \in Runs : Executes(v, r)' <=> Executes(v, r)
BY DEF TypeOK, Take, Executes, Worker

\* Taking a message to execute a run adds exactly that execution.
LEMMA TakeExecutes ==
    ASSUME TypeOK, NEW w \in Workers, NEW m \in Messages, NEW r \in Runs,
           Take(w, m, "executing", r)
    PROVE  \A v \in Workers, s \in Runs :
              Executes(v, s)' <=> Executes(v, s) \/ (v = w /\ s = r)
BY DEF TypeOK, Take, Executes, Worker

\* Creating a row changes no other row, and the row did not exist.
LEMMA CreateRunRows ==
    ASSUME TypeOK, NEW r \in Runs, NEW source, NEW status, runs[r].status = "none",
           CreateRun(r, source, status)
    PROVE  /\ runs'[r].status = status
           /\ \A s \in Runs : runs[s].status # "none" => s # r /\ runs'[s] = runs[s]
BY DEF TypeOK, CreateRun, NoRunRow

\* A step that changes neither executions nor rows of runs keeps the invariant
\* if it keeps the snapshot.
LEMMA QuietStep ==
    ASSUME IInv, TypeOK',
           \A v \in Workers, r \in Runs : Executes(v, r)' => Executes(v, r),
           runs' = runs, orphaned' = orphaned,
           job'.exists = job.exists,
           job'.active_run_id = job.active_run_id,
           job'.last_run_id = job.last_run_id,
           job'.last_run_status = job.last_run_status,
           job'.waiting_question = job.waiting_question
    PROVE  IInv'
<1>1. SingleExecutor'
  BY DEF IInv, SingleExecutor
<1>2. SnapshotIsReal'
  BY DEF IInv, SnapshotIsReal, TypeOK, JobRow
<1>3. ExecutedRunsRunning'
  BY DEF IInv, ExecutedRunsRunning
<1> QED
  BY <1>1, <1>2, <1>3 DEF IInv

\* The active run of a job whose snapshot is live is ended without its worker:
\* what CancelActiveRun and MarkStaleFailed have in common.
LEMMA LeaseTaken ==
    ASSUME IInv, TypeOK', job.exists, job.last_run_status \in Live,
           NEW status \in Terminal,
           runs' = [runs EXCEPT ![job.active_run_id].status = status],
           job' = EndRun(job, status),
           Orphan(job.active_run_id),
           \A v \in Workers, r \in Runs : Executes(v, r)' => Executes(v, r)
    PROVE  IInv'
<1> DEFINE a == job.active_run_id
<1>1. a \in Runs
  BY DEF IInv, SnapshotIsReal, TypeOK, JobRow
<1>2. job'.last_run_status = status /\ job'.exists
  <2>1. job \in JobRow
    BY DEF IInv, TypeOK
  <2> QED
    BY <2>1, EndedRow
<1>3. SingleExecutor'
  BY DEF IInv, SingleExecutor
<1>4. SnapshotIsReal'
  BY <1>2 DEF SnapshotIsReal, Live, Terminal
<1>5. ASSUME NEW w \in Workers, NEW r \in Runs, Executes(w, r)'
      PROVE  \/ runs'[r].status = "running"
             \/ runs'[r].status \in Terminal /\ r \in orphaned'
  <2>1. Executes(w, r)
    BY <1>5
  <2>2. CASE r = a
    BY <1>1, <2>1, <2>2 DEF Orphan, IInv, TypeOK, RunRow
  <2>3. CASE r # a
    BY <1>1, <2>1, <2>3 DEF Orphan, IInv, ExecutedRunsRunning, TypeOK
  <2> QED
    BY <2>2, <2>3
<1> QED
  BY <1>3, <1>4, <1>5 DEF IInv, ExecutedRunsRunning

\* ... and every step keeps it.
LEMMA NextIInv == IInv /\ [Next]_vars => IInv'
<1> SUFFICES ASSUME IInv, [Next]_vars
             PROVE  IInv'
  OBVIOUS
<1> USE DEF IInv
<1>0. TypeOK'
  BY NextTypeOK
<1>1. ASSUME NEW m \in Messages, NEW source, NEW reply, Send(m, source, reply)
      PROVE  IInv'
  BY <1>0, <1>1, QuietStep DEF Send, Executes
<1>3. CASE CancelActiveRun
  BY <1>0, <1>3, LeaseTaken DEF CancelActiveRun, Terminal, Executes
<1>4. ASSUME NEW value \in BOOLEAN, SetEnabled(value)
      PROVE  IInv'
  <2>1. job \in JobRow
    BY DEF TypeOK
  <2> QED
    BY <1>0, <1>4, <2>1, QuietStep DEF SetEnabled, Executes, JobRow
<1>5. CASE DeleteJob
  <2>1. ~job'.exists
    BY <1>5 DEF DeleteJob, NewJobRow
  <2>2. SingleExecutor'
    BY <1>5 DEF DeleteJob, SingleExecutor, Executes
  <2> QED
    BY <1>0, <2>1, <2>2 DEF SnapshotIsReal, ExecutedRunsRunning
<1>6. ASSUME NEW w \in Workers, NEW m \in Messages,
             Take(w, m, "acking", NoRun), UNCHANGED <<job, runs>>
      PROVE  IInv'
  BY <1>0, <1>6, TakeNothingExecutes, QuietStep DEF Take
<1>8. ASSUME NEW w \in Workers, NEW m \in Messages, StartReplyRun(w, m)
      PROVE  IInv'
  <2> DEFINE r == ActiveOrLastRunId(job)
  <2>1. /\ job.exists
        /\ r = job.active_run_id /\ r \in Runs
        /\ runs[r].status = "waiting_for_input"
        /\ \A v \in Workers : ~Executes(v, r)
    BY <1>8 DEF StartReplyRun, SnapshotIsReal, ActiveOrLastRunId, TypeOK, JobRow, Live
  <2>2. \A v \in Workers, s \in Runs :
           Executes(v, s)' <=> Executes(v, s) \/ (v = w /\ s = r)
    BY <1>8, <2>1, TakeExecutes DEF StartReplyRun
  <2>3. /\ job'.exists /\ job'.active_run_id = r /\ job'.last_run_id = r
        /\ job'.last_run_status = "running"
    BY <1>8, <2>1 DEF StartReplyRun, TypeOK, JobRow
  <2>4. /\ runs'[r].status = "running"
        /\ \A s \in Runs : s # r => runs'[s] = runs[s]
    BY <1>8, <2>1 DEF StartReplyRun, TypeOK, RunRow
  <2>5. orphaned' = orphaned
    BY <1>8 DEF StartReplyRun, Take
  <2> HIDE DEF r
  <2>6. SingleExecutor'
    BY <2>1, <2>2 DEF SingleExecutor
  <2>7. SnapshotIsReal'
    BY <2>1, <2>3, <2>4, JobRunsAssumption DEF SnapshotIsReal, JobRunsAssumption
  <2>8. ExecutedRunsRunning'
    BY <2>1, <2>2, <2>4, <2>5 DEF ExecutedRunsRunning
  <2> QED
    BY <1>0, <2>6, <2>7, <2>8
<1>9. ASSUME NEW w \in Workers, NEW m \in Messages, NEW r \in Runs,
             SkipDisabled(w, m, r) \/ SkipBusy(w, m, r)
      PROVE  IInv'
  <2>1. \A v \in Workers, s \in Runs : Executes(v, s)' <=> Executes(v, s)
    BY <1>9, TakeNothingExecutes DEF SkipDisabled, SkipBusy
  <2>2. \A s \in Runs : runs[s].status # "none" => s # r /\ runs'[s] = runs[s]
    BY <1>9, CreateRunRows DEF SkipDisabled, SkipBusy
  <2>3. orphaned' = orphaned
    BY <1>9 DEF SkipDisabled, SkipBusy, Take
  <2>4. SingleExecutor'
    BY <2>1 DEF SingleExecutor
  <2>5. ExecutedRunsRunning'
    <3>1. job.exists
      BY <1>9 DEF SkipDisabled, SkipBusy
    <3> QED
      BY <2>1, <2>2, <2>3, <3>1 DEF ExecutedRunsRunning, Terminal
  <2>6. SnapshotIsReal'
    <3>1. CASE SkipDisabled(w, m, r)
      <4>1. job'.last_run_status = "skipped"
        BY <3>1 DEF SkipDisabled, TypeOK, JobRow
      <4> QED
        BY <4>1 DEF SnapshotIsReal, Live
    <3>2. CASE SkipBusy(w, m, r)
      <4>1. /\ job'.exists = job.exists
            /\ job'.active_run_id = job.active_run_id
            /\ job'.last_run_id = job.last_run_id
            /\ job'.last_run_status = job.last_run_status
            /\ job'.waiting_question = job.waiting_question
        BY <3>2 DEF SkipBusy, TypeOK, JobRow
      <4>2. job.active_run_id # NoRun => job.active_run_id \in Runs
        BY DEF TypeOK, JobRow
      <4> QED
        BY <2>1, <2>2, <4>1, <4>2 DEF SnapshotIsReal, Live
    <3> QED
      BY <1>9, <3>1, <3>2
  <2> QED
    BY <1>0, <2>4, <2>5, <2>6
<1>11. ASSUME NEW w \in Workers, NEW m \in Messages, NEW r \in Runs, StartRun(w, m, r)
       PROVE  IInv'
  <2>1. \A v \in Workers, s \in Runs :
           Executes(v, s)' <=> Executes(v, s) \/ (v = w /\ s = r)
    BY <1>11, TakeExecutes DEF StartRun
  <2>2. /\ runs[r].status = "none" /\ runs'[r].status = "running"
        /\ \A s \in Runs : runs[s].status # "none" => s # r /\ runs'[s] = runs[s]
    BY <1>11, CreateRunRows DEF StartRun
  <2>3. orphaned' = orphaned /\ job.exists
    BY <1>11 DEF StartRun, Take
  <2>4. \A v \in Workers : ~Executes(v, r)
    BY <2>2, <2>3 DEF ExecutedRunsRunning, Terminal
  <2>5. /\ job'.exists /\ job'.active_run_id = r /\ job'.last_run_id = r
        /\ job'.last_run_status = "running"
    BY <1>11 DEF StartRun, TypeOK, JobRow
  <2>6. SingleExecutor'
    BY <2>1, <2>4 DEF SingleExecutor
  <2>7. SnapshotIsReal'
    BY <2>2, <2>5, JobRunsAssumption DEF SnapshotIsReal, JobRunsAssumption
  <2>8. ExecutedRunsRunning'
    BY <2>1, <2>2, <2>3 DEF ExecutedRunsRunning, Terminal
  <2> QED
    BY <1>0, <2>6, <2>7, <2>8
<1>12. ASSUME NEW w \in Workers, NEW status \in FinishStatuses,
              NEW started \in {"recent", "old"}, FinishRun(w, status, started)
       PROVE  IInv'
  <2> DEFINE r == workers[w].run
  <2>1. r \in Runs /\ Executes(w, r)
    BY <1>12 DEF FinishRun, TypeOK, Executes
  <2>2. \A v \in Workers, s \in Runs :
           Executes(v, s)' <=> Executes(v, s) /\ v # w
    BY <1>12 DEF FinishRun, TypeOK, Executes, Worker
  <2>3. orphaned' = orphaned
    BY <1>12 DEF FinishRun
  <2>4. \A v \in Workers, s \in Runs : s = r => ~Executes(v, s)'
    BY <2>1, <2>2 DEF SingleExecutor
  <2>5. \A s \in Runs : s # r => runs'[s] = runs[s]
    BY <1>12, <2>1 DEF FinishRun, TypeOK
  <2>6. SingleExecutor'
    BY <2>2 DEF SingleExecutor
  <2>7. CASE ~job.exists
    BY <1>0, <1>12, <2>6, <2>7 DEF FinishRun, SnapshotIsReal, ExecutedRunsRunning
  <2>8. CASE job.exists
    <3>1. job' = ApplyFinishedRun(job, r, started, status)
      BY <1>12, <2>8 DEF FinishRun
    <3>2. /\ job'.exists
          /\ job'.last_run_id = r
          /\ job'.last_run_status = status
          /\ status = "waiting_for_input" => job'.active_run_id = r /\ job'.waiting_question
      <4> HIDE DEF r
      <4> QED
        BY <2>1, <2>8, <3>1, ApplyFinishedRunRow DEF TypeOK
    <3>3. runs'[r].status = status
      <4>1. runs[r].status # "none"
        BY <2>1, <2>8 DEF ExecutedRunsRunning, Terminal
      <4> QED
        BY <1>12, <2>1, <4>1 DEF FinishRun, TypeOK, RunRow
    <3> HIDE DEF r
    <3>4. SnapshotIsReal'
      BY <2>1, <2>4, <3>2, <3>3, JobRunsAssumption
      DEF SnapshotIsReal, FinishStatuses, Live, JobRunsAssumption
    <3>5. ExecutedRunsRunning'
      BY <2>2, <2>3, <2>4, <2>5, <2>8 DEF ExecutedRunsRunning
    <3> QED
      BY <1>0, <2>6, <3>4, <3>5
  <2> QED
    BY <2>7, <2>8
<1>13. ASSUME NEW w \in Workers, DisableOneShot(w)
       PROVE  IInv'
  <2>1. job \in JobRow
    BY DEF TypeOK
  <2>2. \A v \in Workers, s \in Runs : Executes(v, s)' => Executes(v, s)
    BY <1>13 DEF DisableOneShot, Executes, TypeOK, Worker
  <2> QED
    BY <1>0, <1>13, <2>1, <2>2, QuietStep DEF DisableOneShot, JobRow
<1>14. ASSUME NEW w \in Workers, Acknowledge(w) \/ Crash(w)
       PROVE  IInv'
  <2>1. \A v \in Workers, s \in Runs : Executes(v, s)' => Executes(v, s)
    BY <1>14 DEF Acknowledge, Crash, Executes, TypeOK, Worker, IdleWorker
  <2> QED
    BY <1>0, <1>14, <2>1, QuietStep DEF Acknowledge, Crash
<1>15. ASSUME MarkStaleFailed, \A v \in Workers, s \in Runs : Executes(v, s)' => Executes(v, s)
       PROVE  IInv'
  <2>1. CASE Stale
    BY <1>0, <1>15, <2>1, LeaseTaken DEF MarkStaleFailed, Stale, Live, Terminal
  <2>2. CASE ~Stale
    BY <1>0, <1>15, <2>2, QuietStep DEF MarkStaleFailed
  <2> QED
    BY <2>1, <2>2
<1>16. ASSUME NEW w \in Workers, RestartWorker(w)
       PROVE  IInv'
  <2>1. \A v \in Workers, s \in Runs : Executes(v, s)' => Executes(v, s)
    BY <1>16 DEF RestartWorker, Executes, TypeOK, Worker, IdleWorker
  <2> QED
    BY <1>15, <1>16, <2>1 DEF RestartWorker
<1>17. CASE RestartApi
  BY <1>15, <1>17 DEF RestartApi, Executes
<1>18. CASE Age
  <2>1. job \in JobRow
    BY DEF TypeOK
  <2> QED
    BY <1>0, <1>18, <2>1, QuietStep DEF Age, Executes, JobRow
<1>19. CASE UNCHANGED vars
  BY <1>0, <1>19, QuietStep DEF vars, Executes
<1>20. ASSUME Request PROVE IInv'
  BY <1>1, <1>3, <1>4, <1>5, <1>20 DEF Request, Trigger, Reply
<1>21. ASSUME NEW w \in Workers, WorkerStep(w) \/ Crash(w) PROVE IInv'
  BY <1>6, <1>8, <1>9, <1>11, <1>12, <1>13, <1>14, <1>16, <1>21
  DEF WorkerStep, TakeAny, FinishAny, TakeForDeletedJob, RefuseReply
<1> QED
  BY <1>17, <1>18, <1>19, <1>20, <1>21 DEF Next

\* No two workers ever execute the same run.
THEOREM SingleExecutorHolds == Spec => []SingleExecutor
<1>1. IInv => SingleExecutor
  BY DEF IInv
<1> QED
  BY InitIInv, NextIInv, <1>1, PTL DEF Spec

\* The run state on the row of the job is the state of the run that has the lease.
THEOREM SnapshotIsRealHolds == Spec => []SnapshotIsReal
<1>1. IInv => SnapshotIsReal
  BY DEF IInv
<1> QED
  BY InitIInv, NextIInv, <1>1, PTL DEF Spec

(***************************************************************************)
(* The lease                                                               *)
(***************************************************************************)
\* A step that keeps rows, executions and the lease keeps LeaseSound.
LEMMA QuietLease ==
    ASSUME TypeOK, LeaseSound,
           \A v \in Workers, r \in Runs : Executes(v, r)' => Executes(v, r),
           runs' = runs, orphaned' = orphaned,
           job'.exists = job.exists, job'.active_run_id = job.active_run_id
    PROVE  LeaseSound'
BY DEF LeaseSound

\* Cancelling the active run, or declaring it stale, releases the lease; if a
\* live worker executed it, the run is remembered as orphaned.
LEMMA LeaseTakenSound ==
    ASSUME IInv, LeaseSound, job.exists, job.last_run_status \in Live,
           NEW status \in Terminal,
           runs' = [runs EXCEPT ![job.active_run_id].status = status],
           job' = EndRun(job, status),
           Orphan(job.active_run_id),
           \A v \in Workers, r \in Runs : Executes(v, r)' => Executes(v, r)
    PROVE  LeaseSound'
<1> SUFFICES ASSUME orphaned' = {}
             PROVE  LeaseSound'
  BY DEF LeaseSound
<1> DEFINE a == job.active_run_id
<1>1. job \in JobRow /\ a \in Runs
  BY DEF IInv, SnapshotIsReal, TypeOK, JobRow
<1>2. job'.active_run_id = NoRun
  <2>1. job \in JobRow
    BY <1>1
  <2> QED
    BY <2>1, EndedRow
<1>3. orphaned = {} /\ \A w \in Workers : ~Executes(w, a)
  BY <1>1 DEF Orphan
<1>4. /\ runs'[a].status = status
      /\ \A s \in Runs : s # a => runs'[s] = runs[s]
  BY <1>1 DEF IInv, TypeOK, RunRow
<1>5. \A s \in Runs : runs[s].status \in Live <=> a = s
  BY <1>3 DEF LeaseSound
<1>6. \A s \in Runs : runs'[s].status \notin Live /\ s # NoRun
  BY <1>4, <1>5, JobRunsAssumption DEF Live, Terminal, JobRunsAssumption
<1>7. \A w \in Workers, s \in Runs : ~Executes(w, s)'
  BY <1>3 DEF LeaseSound
<1> QED
  BY <1>2, <1>6, <1>7 DEF LeaseSound

\* Every step keeps the leases sound.
LEMMA NextLeaseSound == IInv /\ LeaseSound /\ [Next]_vars => LeaseSound'
<1> SUFFICES ASSUME IInv, LeaseSound, [Next]_vars
             PROVE  LeaseSound'
  OBVIOUS
<1> USE DEF IInv
<1>0. job \in JobRow
  BY DEF TypeOK
<1>1. ASSUME NEW m \in Messages, NEW source, NEW reply, Send(m, source, reply)
      PROVE  LeaseSound'
  BY <1>1, QuietLease DEF Send, Executes
<1>3. CASE CancelActiveRun
  BY <1>3, LeaseTakenSound DEF CancelActiveRun, Terminal, Executes
<1>4. ASSUME NEW value \in BOOLEAN, SetEnabled(value)
      PROVE  LeaseSound'
  BY <1>0, <1>4, QuietLease DEF SetEnabled, Executes, JobRow
<1>5. CASE DeleteJob
  BY <1>5 DEF DeleteJob, NewJobRow, LeaseSound
<1>6. ASSUME NEW w \in Workers, NEW m \in Messages,
             Take(w, m, "acking", NoRun), UNCHANGED <<job, runs>>
      PROVE  LeaseSound'
  BY <1>6, TakeNothingExecutes, QuietLease DEF Take
<1>8. ASSUME NEW w \in Workers, NEW m \in Messages, StartReplyRun(w, m)
      PROVE  LeaseSound'
  <2> DEFINE r == ActiveOrLastRunId(job)
  <2>1. /\ job.exists
        /\ r = job.active_run_id /\ r \in Runs
    BY <1>8 DEF StartReplyRun, SnapshotIsReal, ActiveOrLastRunId, TypeOK, JobRow, Live
  <2>2. \A v \in Workers, s \in Runs :
           Executes(v, s)' <=> Executes(v, s) \/ (v = w /\ s = r)
    BY <1>8, <2>1, TakeExecutes DEF StartReplyRun
  <2>3. job'.active_run_id = r
    BY <1>8, <2>1 DEF StartReplyRun, TypeOK, JobRow
  <2>4. /\ runs'[r].status = "running"
        /\ \A s \in Runs : s # r => runs'[s] = runs[s]
    BY <1>8, <2>1 DEF StartReplyRun, TypeOK, RunRow
  <2>5. orphaned' = orphaned
    BY <1>8 DEF StartReplyRun, Take
  <2> HIDE DEF r
  <2> QED
    BY <2>1, <2>2, <2>3, <2>4, <2>5 DEF LeaseSound, Live
<1>9. ASSUME NEW w \in Workers, NEW m \in Messages, NEW r \in Runs,
             SkipDisabled(w, m, r) \/ SkipBusy(w, m, r)
      PROVE  LeaseSound'
  <2>1. \A v \in Workers, s \in Runs : Executes(v, s)' <=> Executes(v, s)
    BY <1>9, TakeNothingExecutes DEF SkipDisabled, SkipBusy
  <2>2. /\ runs[r].status = "none" /\ runs'[r].status = "skipped"
        /\ \A s \in Runs : runs[s].status # "none" => s # r /\ runs'[s] = runs[s]
    BY <1>9, CreateRunRows DEF SkipDisabled, SkipBusy
  <2>3. \A s \in Runs : s # r => runs'[s] = runs[s]
    BY <1>9 DEF SkipDisabled, SkipBusy, CreateRun, TypeOK
  <2>4. orphaned' = orphaned /\ job.exists
    BY <1>9 DEF SkipDisabled, SkipBusy, Take
  <2>5. job'.active_run_id = job.active_run_id
    BY <1>0, <1>9 DEF SkipDisabled, SkipBusy, JobRow
  <2> QED
    BY <2>1, <2>2, <2>3, <2>4, <2>5 DEF LeaseSound, Live
<1>11. ASSUME NEW w \in Workers, NEW m \in Messages, NEW r \in Runs, StartRun(w, m, r)
       PROVE  LeaseSound'
  <2>1. \A v \in Workers, s \in Runs :
           Executes(v, s)' <=> Executes(v, s) \/ (v = w /\ s = r)
    BY <1>11, TakeExecutes DEF StartRun
  <2>2. /\ runs'[r].status = "running"
        /\ \A s \in Runs : s # r => runs'[s] = runs[s]
    BY <1>11 DEF StartRun, CreateRun, NoRunRow, TypeOK
  <2>3. orphaned' = orphaned /\ job.exists /\ job.active_run_id = NoRun
    BY <1>11 DEF StartRun, Take, HasActiveRun
  <2>4. job'.active_run_id = r
    BY <1>0, <1>11 DEF StartRun, JobRow
  <2> QED
    BY <2>1, <2>2, <2>3, <2>4, JobRunsAssumption DEF LeaseSound, Live, JobRunsAssumption
<1>12. ASSUME NEW w \in Workers, NEW status \in FinishStatuses,
              NEW started \in {"recent", "old"}, FinishRun(w, status, started)
       PROVE  LeaseSound'
  <2> DEFINE r == workers[w].run
  <2>1. r \in Runs /\ Executes(w, r)
    BY <1>12 DEF FinishRun, TypeOK, Executes
  <2>2. \A v \in Workers, s \in Runs :
           Executes(v, s)' <=> Executes(v, s) /\ v # w
    BY <1>12 DEF FinishRun, TypeOK, Executes, Worker
  <2>3. orphaned' = orphaned /\ (~job.exists => job' = job)
    BY <1>12 DEF FinishRun
  <2>4. \A v \in Workers, s \in Runs : s = r => ~Executes(v, s)'
    BY <2>1, <2>2 DEF SingleExecutor
  <2>5. \A s \in Runs : s # r => runs'[s] = runs[s]
    BY <1>12, <2>1 DEF FinishRun, TypeOK
  <2>6. SUFFICES ASSUME job.exists, orphaned = {}
                 PROVE  LeaseSound'
    BY <2>3 DEF LeaseSound
  <2>7. /\ job.active_run_id = r /\ runs[r].status = "running"
        /\ \A s \in Runs : runs[s].status \in Live <=> r = s
        /\ \A v \in Workers, s \in Runs : Executes(v, s) => s = r
    BY <2>1, <2>6 DEF LeaseSound
  <2>8. runs'[r].status = status
    BY <1>12, <2>1, <2>7 DEF FinishRun, TypeOK, RunRow
  <2>9. job' = ApplyFinishedRun(job, r, started, status)
    BY <1>12, <2>6 DEF FinishRun
  <2> HIDE DEF r
  <2>10. job'.active_run_id = IF status = "waiting_for_input" THEN r ELSE NoRun
    BY <1>0, <2>1, <2>7, <2>9, ApplyFinishedRunRow
  <2> QED
    BY <2>1, <2>2, <2>4, <2>5, <2>7, <2>8, <2>10, JobRunsAssumption
    DEF LeaseSound, Live, FinishStatuses, JobRunsAssumption
<1>13. ASSUME NEW w \in Workers, DisableOneShot(w)
       PROVE  LeaseSound'
  <2>1. \A v \in Workers, s \in Runs : Executes(v, s)' => Executes(v, s)
    BY <1>13 DEF DisableOneShot, Executes, TypeOK, Worker
  <2> QED
    BY <1>0, <1>13, <2>1, QuietLease DEF DisableOneShot, JobRow
<1>14. ASSUME NEW w \in Workers, Acknowledge(w) \/ Crash(w)
       PROVE  LeaseSound'
  <2>1. \A v \in Workers, s \in Runs : Executes(v, s)' => Executes(v, s)
    BY <1>14 DEF Acknowledge, Crash, Executes, TypeOK, Worker, IdleWorker
  <2> QED
    BY <1>14, <2>1, QuietLease DEF Acknowledge, Crash
<1>15. ASSUME MarkStaleFailed, \A v \in Workers, s \in Runs : Executes(v, s)' => Executes(v, s)
       PROVE  LeaseSound'
  <2>1. CASE Stale
    BY <1>15, <2>1, LeaseTakenSound DEF MarkStaleFailed, Stale, Live, Terminal
  <2>2. CASE ~Stale
    BY <1>15, <2>2, QuietLease DEF MarkStaleFailed
  <2> QED
    BY <2>1, <2>2
<1>16. ASSUME NEW w \in Workers, RestartWorker(w)
       PROVE  LeaseSound'
  <2>1. \A v \in Workers, s \in Runs : Executes(v, s)' => Executes(v, s)
    BY <1>16 DEF RestartWorker, Executes, TypeOK, Worker, IdleWorker
  <2> QED
    BY <1>15, <1>16, <2>1 DEF RestartWorker
<1>17. CASE RestartApi
  BY <1>15, <1>17 DEF RestartApi, Executes
<1>18. CASE Age
  BY <1>0, <1>18, QuietLease DEF Age, Executes, JobRow
<1>19. CASE UNCHANGED vars
  BY <1>19, QuietLease DEF vars, Executes
<1>20. ASSUME Request PROVE LeaseSound'
  BY <1>1, <1>3, <1>4, <1>5, <1>20 DEF Request, Trigger, Reply
<1>21. ASSUME NEW w \in Workers, WorkerStep(w) \/ Crash(w) PROVE LeaseSound'
  BY <1>6, <1>8, <1>9, <1>11, <1>12, <1>13, <1>14, <1>16, <1>21
  DEF WorkerStep, TakeAny, FinishAny, TakeForDeletedJob, RefuseReply
<1> QED
  BY <1>17, <1>18, <1>19, <1>20, <1>21 DEF Next

\* While no run was taken from a live worker, active_run_id is a lease: exactly
\* the live run row holds it and only that run is executed.
THEOREM LeaseSoundHolds == Spec => []LeaseSound
<1>1. Init => LeaseSound
  BY JobRunsAssumption
  DEF Init, LeaseSound, NewJobRow, NoRunRow, Live, Executes, IdleWorker, JobRunsAssumption
<1> QED
  BY InitIInv, NextIInv, NextLeaseSound, <1>1, PTL DEF Spec

(***************************************************************************)
(* History is not rewritten                                                *)
(***************************************************************************)
\* Only a run whose worker lost it changes after its end.
LEMMA StepKeepsEndedRuns ==
    ASSUME IInv, Next, NEW r \in Runs, job'.exists, runs[r].status \in Terminal,
           runs'[r].status # runs[r].status
    PROVE  r \in orphaned
<1> USE DEF IInv
<1>1. CASE CancelActiveRun
  <2>1. job.active_run_id \in Runs /\ runs[job.active_run_id].status \in Live
    BY <1>1 DEF CancelActiveRun, SnapshotIsReal, TypeOK, JobRow
  <2>2. r # job.active_run_id
    BY <2>1 DEF Live, Terminal
  <2> QED
    BY <1>1, <2>1, <2>2 DEF CancelActiveRun, TypeOK
<1>2. ASSUME MarkStaleFailed
      PROVE  r \in orphaned
  <2>1. Stale
    BY <1>2 DEF MarkStaleFailed
  <2>2. job.active_run_id \in Runs /\ runs[job.active_run_id].status \in Live
    BY <2>1 DEF Stale, SnapshotIsReal, TypeOK, JobRow, Live
  <2>3. r # job.active_run_id
    BY <2>2 DEF Live, Terminal
  <2> QED
    BY <1>2, <2>1, <2>2, <2>3 DEF MarkStaleFailed, TypeOK
<1>3. CASE DeleteJob
  BY <1>3 DEF DeleteJob, NewJobRow
<1>4. ASSUME NEW w \in Workers, NEW m \in Messages, StartReplyRun(w, m)
      PROVE  r \in orphaned
  <2> DEFINE s == ActiveOrLastRunId(job)
  <2>1. s \in Runs /\ runs[s].status = "waiting_for_input"
    BY <1>4 DEF StartReplyRun, SnapshotIsReal, ActiveOrLastRunId, TypeOK, JobRow, Live
  <2>2. r # s
    BY <2>1 DEF Terminal
  <2> QED
    BY <1>4, <2>1, <2>2 DEF StartReplyRun, TypeOK
<1>5. ASSUME NEW w \in Workers, NEW m \in Messages, NEW s \in Runs,
             SkipDisabled(w, m, s) \/ SkipBusy(w, m, s) \/ StartRun(w, m, s)
      PROVE  r \in orphaned
  BY <1>5, CreateRunRows DEF SkipDisabled, SkipBusy, StartRun, Terminal
<1>6. ASSUME NEW w \in Workers, NEW status \in FinishStatuses,
             NEW started \in {"recent", "old"}, FinishRun(w, status, started)
      PROVE  r \in orphaned
  <2>1. workers[w].run \in Runs /\ Executes(w, workers[w].run)
    BY <1>6 DEF FinishRun, TypeOK, Executes
  <2>2. r = workers[w].run
    BY <1>6, <2>1 DEF FinishRun, TypeOK
  <2>3. job.exists
    BY <1>6 DEF FinishRun
  <2> QED
    BY <2>1, <2>2, <2>3 DEF ExecutedRunsRunning, Terminal
<1>7. CASE runs' = runs
  BY <1>7
<1>8. CASE Request
  BY <1>1, <1>3, <1>7, <1>8 DEF Request, Trigger, Reply, Send, SetEnabled
<1>9. ASSUME NEW w \in Workers, WorkerStep(w) \/ Crash(w)
      PROVE  r \in orphaned
  BY <1>2, <1>4, <1>5, <1>6, <1>7, <1>9
  DEF WorkerStep, TakeAny, FinishAny, TakeForDeletedJob, RefuseReply, DisableOneShot,
      Acknowledge, RestartWorker, Crash
<1> QED
  BY <1>2, <1>7, <1>8, <1>9 DEF Next, RestartApi, Age

\* A run that ended changes its status only if it had lost its lease under a
\* live worker.
THEOREM EndedRunsStayEndedHolds == Spec => EndedRunsStayEnded
<1>1. IInv /\ [Next]_vars =>
        [\A r \in Runs :
           /\ job'.exists
           /\ runs[r].status \in Terminal
           /\ runs'[r].status # runs[r].status
           => r \in orphaned]_vars
  BY StepKeepsEndedRuns
<1> QED
  BY InitIInv, NextIInv, <1>1, PTL DEF Spec, EndedRunsStayEnded

(***************************************************************************)
(* A reply is recorded once                                                *)
(***************************************************************************)
\* What ReplyRecordedOnce says of one row.
RecordedOnce(replies) ==
    \A i, j \in 1 .. Len(replies) :
        replies[i] = replies[j] /\ replies[i] # NoReplyId => i = j

\* Appending a reply that is not there yet, or that has no id, records it once.
LEMMA AppendOnce ==
    ASSUME NEW S, NEW replies \in Seq(S), NEW reply \in S, RecordedOnce(replies),
           reply # NoReplyId => \A i \in 1 .. Len(replies) : replies[i] # reply
    PROVE  RecordedOnce(Append(replies, reply))
BY DEF RecordedOnce

\* Every step keeps a reply to one place.
LEMMA NextReplyRecordedOnce ==
    TypeOK /\ (\A r \in Runs : RecordedOnce(runs[r].replies)) /\ [Next]_vars
        => \A r \in Runs : RecordedOnce(runs'[r].replies)
<1> SUFFICES ASSUME TypeOK, \A r \in Runs : RecordedOnce(runs[r].replies), [Next]_vars,
                    NEW r \in Runs
             PROVE  RecordedOnce(runs'[r].replies)
  OBVIOUS
<1>1. CASE runs'[r].replies = runs[r].replies
  BY <1>1
<1>2. CASE runs'[r].replies = << >>
  BY <1>2 DEF RecordedOnce
<1>3. ASSUME NEW w \in Workers, NEW m \in Messages, StartReplyRun(w, m)
      PROVE  RecordedOnce(runs'[r].replies)
  <2> DEFINE s == ActiveOrLastRunId(job)
             reply == messages[m].client_reply_id
  <2>1. s \in Runs /\ reply \in ReplyIds \cup {NoReplyId}
    BY <1>3 DEF StartReplyRun, ActiveOrLastRunId, TypeOK, JobRow, Message
  <2>2. CASE r # s
    BY <1>1, <1>3, <2>1, <2>2 DEF StartReplyRun, TypeOK
  <2>3. CASE r = s
    <3>1. runs'[r].replies = Append(runs[r].replies, reply)
      BY <1>3, <2>1, <2>3 DEF StartReplyRun, TypeOK, RunRow
    <3>2. runs[r].replies \in Seq(ReplyIds \cup {NoReplyId})
      BY DEF TypeOK, RunRow
    <3>3. reply # NoReplyId =>
            \A i \in 1 .. Len(runs[r].replies) : runs[r].replies[i] # reply
      BY <1>3, <2>1, <2>3 DEF StartReplyRun, DuplicateReply, HasReply
    <3> HIDE DEF reply
    <3> QED
      BY <2>1, <3>1, <3>2, <3>3, AppendOnce
  <2> QED
    BY <2>2, <2>3
<1>10. CASE CancelActiveRun
  BY <1>1, <1>10 DEF CancelActiveRun, TypeOK, RunRow
<1>11. CASE DeleteJob
  BY <1>2, <1>11 DEF DeleteJob, NoRunRow
<1>12. CASE runs' = runs
  BY <1>1, <1>12
<1>4. CASE Request
  BY <1>10, <1>11, <1>12, <1>4 DEF Request, Trigger, Reply, Send, SetEnabled
<1>5. ASSUME NEW w \in Workers, NEW m \in Messages, NEW s \in Runs,
             SkipDisabled(w, m, s) \/ SkipBusy(w, m, s) \/ StartRun(w, m, s)
      PROVE  RecordedOnce(runs'[r].replies)
  <2>1. PICK source, status :
           runs' = [runs EXCEPT ![s] = [NoRunRow EXCEPT !.status = status,
                                                        !.source = source]]
    BY <1>5 DEF SkipDisabled, SkipBusy, StartRun, CreateRun
  <2>2. runs'[r].replies = IF r = s THEN << >> ELSE runs[r].replies
    BY <2>1 DEF TypeOK, NoRunRow
  <2> QED
    BY <1>1, <1>2, <2>2
<1>6. ASSUME NEW w \in Workers, NEW status, NEW started, FinishRun(w, status, started)
      PROVE  RecordedOnce(runs'[r].replies)
  <2>1. PICK value : runs' = [runs EXCEPT ![workers[w].run].status = value]
    BY <1>6 DEF FinishRun
  <2>2. runs'[r].replies = runs[r].replies
    BY <2>1 DEF TypeOK, RunRow
  <2> QED
    BY <1>1, <2>2
<1>7. CASE MarkStaleFailed
  <2>1. runs' = runs \/ runs' = [runs EXCEPT ![job.active_run_id].status = "failed"]
    BY <1>7 DEF MarkStaleFailed
  <2>2. runs'[r].replies = runs[r].replies
    BY <2>1 DEF TypeOK, RunRow
  <2> QED
    BY <1>1, <2>2
<1>8. CASE runs' = runs
  BY <1>1, <1>8
<1>9. ASSUME NEW w \in Workers, WorkerStep(w) \/ Crash(w)
      PROVE  RecordedOnce(runs'[r].replies)
  BY <1>3, <1>5, <1>6, <1>7, <1>8, <1>9
  DEF WorkerStep, TakeAny, FinishAny, TakeForDeletedJob, RefuseReply, DisableOneShot,
      Acknowledge, RestartWorker, Crash
<1> QED
  BY <1>4, <1>7, <1>8, <1>9 DEF Next, RestartApi, Age, vars

\* A reply with a client_reply_id is recorded at most once in a run.
THEOREM ReplyRecordedOnceHolds == Spec => []ReplyRecordedOnce
<1>1. ReplyRecordedOnce <=> \A r \in Runs : RecordedOnce(runs[r].replies)
  BY DEF ReplyRecordedOnce, RecordedOnce
<1>2. Init => ReplyRecordedOnce
  BY DEF Init, NoRunRow, ReplyRecordedOnce
<1>3. TypeOK /\ ReplyRecordedOnce /\ [Next]_vars => ReplyRecordedOnce'
  <2>1. ReplyRecordedOnce' <=> \A r \in Runs : RecordedOnce(runs'[r].replies)
    BY DEF ReplyRecordedOnce, RecordedOnce
  <2> QED
    BY <1>1, <2>1, NextReplyRecordedOnce
<1> QED
  BY <1>2, <1>3, TypeCorrect, PTL DEF Spec

\* The lease and what workers remember of it agree with the database in every
\* reachable state, for any number of workers, replies and deliveries.
THEOREM LeaseConsistentHolds == Spec => []LeaseConsistent
<1>1. TypeOK /\ SnapshotIsReal /\ LeaseSound => LeaseConsistent
  BY DEF LeaseConsistent
<1> QED
  BY <1>1, TypeCorrect, SnapshotIsRealHolds, LeaseSoundHolds, PTL

(***************************************************************************)
(* Every run that ended is counted once                                    *)
(***************************************************************************)
EndedRuns == {r \in Runs : runs[r].status \in Terminal}

\* The inductive invariant.  The ids of runs need not be finitely many, so the
\* cardinality means something only because finitely many runs ever ended.
CountInv == IsFiniteSet(EndedRuns) /\ RunCountExact

\* A step that ends no run and counts none.
LEMMA NoneEnds ==
    ASSUME TypeOK, CountInv, orphaned \subseteq orphaned',
           job'.exists => job.exists /\ job'.run_count = job.run_count,
           EndedRuns' = EndedRuns
    PROVE  CountInv'
<1>1. job'.exists /\ orphaned' = {} => job.exists /\ orphaned = {}
  OBVIOUS
<1> QED
  BY <1>1 DEF CountInv, RunCountExact, EndedRuns

\* A step that ends one run and counts it, unless the job is gone or a run was
\* taken from a live worker.
LEMMA OneEnds ==
    ASSUME TypeOK, CountInv, orphaned \subseteq orphaned', NEW r \in Runs,
           EndedRuns' \in {EndedRuns, EndedRuns \cup {r}},
           job'.exists /\ orphaned' = {} =>
              /\ job.exists
              /\ r \notin EndedRuns
              /\ EndedRuns' = EndedRuns \cup {r}
              /\ job'.run_count = job.run_count + 1
    PROVE  CountInv'
<1>1. IsFiniteSet(EndedRuns \cup {r})
  BY FS_AddElement DEF CountInv
<1>2. ASSUME job'.exists, orphaned' = {}
      PROVE  job'.run_count = Cardinality(EndedRuns')
  <2>1. job.run_count = Cardinality(EndedRuns)
    BY <1>2 DEF CountInv, RunCountExact, EndedRuns
  <2>2. Cardinality(EndedRuns \cup {r}) = Cardinality(EndedRuns) + 1
    BY <1>2, FS_AddElement DEF CountInv
  <2> QED
    BY <1>2, <2>1, <2>2
<1> QED
  BY <1>1, <1>2 DEF CountInv, RunCountExact, EndedRuns

\* The runs that ended after the status of one run was set.
LEMMA EndedAfter ==
    ASSUME TypeOK, NEW r \in Runs, NEW status, runs'[r].status = status,
           \A s \in Runs : s # r => runs'[s].status = runs[s].status
    PROVE  EndedRuns' = (EndedRuns \ {r}) \cup (IF status \in Terminal THEN {r} ELSE {})
BY DEF EndedRuns

\* What ApplyFinishedRun does to the counter.
LEMMA ApplyFinishedRunCount ==
    ASSUME NEW j \in JobRow, NEW r \in Runs, NEW started \in {"recent", "old"},
           NEW status \in FinishStatuses
    PROVE  ApplyFinishedRun(j, r, started, status).run_count =
              IF status = "waiting_for_input" THEN j.run_count ELSE j.run_count + 1
<1> DEFINE seen == [j EXCEPT !.last_run_id = r, !.last_run_status = status]
           i == IF seen.active_run_id = r THEN ReleaseLease(seen) ELSE seen
<1>1. seen \in JobRow /\ seen.run_count = j.run_count
  BY DEF JobRow, FinishStatuses, Live, Terminal
<1>2. i \in JobRow /\ i.run_count = j.run_count
  <2> HIDE DEF seen
  <2> QED
    BY <1>1, ReleaseLeaseRow
<1>3. [i EXCEPT !.run_count = @ + 1, !.waiting_question = FALSE].run_count = j.run_count + 1
  <2> HIDE DEF i
  <2> QED
    BY <1>2 DEF JobRow
<1> QED
  BY <1>1, <1>3 DEF ApplyFinishedRun, JobRow

\* What EndRun does to the counter.
LEMMA EndRunCount ==
    ASSUME NEW j \in JobRow, NEW status \in Terminal
    PROVE  EndRun(j, status).run_count = j.run_count + 1
<1> DEFINE i == ReleaseLease(j)
<1>1. i \in JobRow /\ i.run_count = j.run_count
  BY ReleaseLeaseRow
<1>2. EndRun(j, status) = [i EXCEPT !.last_run_status = status,
                                    !.waiting_question = FALSE,
                                    !.run_count = i.run_count + 1]
  BY <1>1 DEF JobRow, EndRun
<1> HIDE DEF i
<1> QED
  BY <1>1, <1>2 DEF JobRow

\* The active run is ended without its worker, and counted.
LEMMA TakenCount ==
    ASSUME IInv, CountInv, job.exists, job.last_run_status \in Live,
           NEW status \in Terminal,
           runs' = [runs EXCEPT ![job.active_run_id].status = status],
           job' = EndRun(job, status), Orphan(job.active_run_id)
    PROVE  CountInv'
<1> DEFINE a == job.active_run_id
<1>1. a \in Runs /\ runs[a].status \in Live
  BY DEF IInv, SnapshotIsReal, TypeOK, JobRow
<1>2. job'.run_count = job.run_count + 1
  BY EndRunCount DEF IInv, TypeOK
<1>3. EndedRuns' = EndedRuns \cup {a}
  <2>1. runs'[a].status = status /\ \A s \in Runs : s # a => runs'[s].status = runs[s].status
    BY <1>1 DEF IInv, TypeOK, RunRow
  <2>2. EndedRuns' = (EndedRuns \ {a}) \cup {a}
    BY <1>1, <2>1, EndedAfter DEF IInv
  <2> QED
    BY <2>2
<1>4. a \notin EndedRuns
  BY <1>1 DEF EndedRuns, Live, Terminal
<1>5. orphaned \subseteq orphaned'
  BY DEF Orphan
<1> HIDE DEF a
<1> QED
  BY <1>1, <1>2, <1>3, <1>4, <1>5, OneEnds DEF IInv

\* Every step keeps the count of the runs with the runs.
LEMMA NextCountInv == IInv /\ CountInv /\ [Next]_vars => CountInv'
<1> SUFFICES ASSUME IInv, CountInv, [Next]_vars
             PROVE  CountInv'
  OBVIOUS
<1> USE DEF IInv
<1>1. ASSUME runs' = runs, orphaned' = orphaned,
             job'.exists => job.exists /\ job'.run_count = job.run_count
      PROVE  CountInv'
  BY <1>1, NoneEnds DEF EndedRuns
<1>2. CASE CancelActiveRun
  BY <1>2, TakenCount DEF CancelActiveRun, Terminal
<1>3. ASSUME NEW value \in BOOLEAN, SetEnabled(value)
      PROVE  CountInv'
  BY <1>1, <1>3 DEF SetEnabled, TypeOK, JobRow
<1>4. CASE DeleteJob
  <2>1. EndedRuns' = {}
    BY <1>4 DEF DeleteJob, EndedRuns, NoRunRow, Terminal
  <2>2. ~job'.exists
    BY <1>4 DEF DeleteJob, NewJobRow
  <2> QED
    BY <2>1, <2>2, FS_EmptySet DEF CountInv, RunCountExact
<1>5. ASSUME NEW w \in Workers, NEW m \in Messages, StartReplyRun(w, m)
      PROVE  CountInv'
  <2> DEFINE r == ActiveOrLastRunId(job)
  <2>1. r \in Runs /\ runs[r].status = "waiting_for_input" /\ job.exists
    BY <1>5 DEF StartReplyRun, SnapshotIsReal, ActiveOrLastRunId, TypeOK, JobRow, Live
  <2>2. runs'[r].status = "running" /\ \A s \in Runs : s # r => runs'[s].status = runs[s].status
    BY <1>5, <2>1 DEF StartReplyRun, TypeOK, RunRow
  <2>3. job'.run_count = job.run_count /\ orphaned' = orphaned
    BY <1>5 DEF StartReplyRun, TypeOK, JobRow, Take
  <2> HIDE DEF r
  <2>4. EndedRuns' = EndedRuns
    BY <2>1, <2>2 DEF EndedRuns, Terminal
  <2> QED
    BY <2>1, <2>3, <2>4, NoneEnds
<1>6. ASSUME NEW w \in Workers, NEW m \in Messages, NEW r \in Runs,
             SkipDisabled(w, m, r) \/ SkipBusy(w, m, r)
      PROVE  CountInv'
  <2>1. /\ runs[r].status = "none" /\ runs'[r].status = "skipped"
        /\ \A s \in Runs : s # r => runs'[s].status = runs[s].status
    <3>1. runs[r].status = "none" /\ CreateRun(r, messages[m].source, "skipped")
      BY <1>6 DEF SkipDisabled, SkipBusy
    <3> QED
      BY <3>1 DEF CreateRun, NoRunRow, TypeOK
  <2>2. EndedRuns' = EndedRuns \cup {r} /\ r \notin EndedRuns
    BY <2>1, EndedAfter DEF EndedRuns, Terminal
  <2>3. job.exists /\ orphaned' = orphaned
    BY <1>6 DEF SkipDisabled, SkipBusy, Take
  <2>4. job'.run_count = job.run_count + 1
    BY <1>6 DEF SkipDisabled, SkipBusy, TypeOK, JobRow
  <2> QED
    BY <2>2, <2>3, <2>4, OneEnds
<1>7. ASSUME NEW w \in Workers, NEW m \in Messages, NEW r \in Runs, StartRun(w, m, r)
      PROVE  CountInv'
  <2>1. /\ runs[r].status = "none" /\ runs'[r].status = "running"
        /\ \A s \in Runs : s # r => runs'[s].status = runs[s].status
    BY <1>7 DEF StartRun, CreateRun, NoRunRow, TypeOK
  <2>2. EndedRuns' = EndedRuns
    BY <2>1 DEF EndedRuns, Terminal
  <2>3. job.exists /\ orphaned' = orphaned /\ job'.run_count = job.run_count
    BY <1>7 DEF StartRun, Take, TypeOK, JobRow
  <2> QED
    BY <2>2, <2>3, NoneEnds
<1>8. ASSUME NEW w \in Workers, NEW status \in FinishStatuses,
             NEW started \in {"recent", "old"}, FinishRun(w, status, started)
      PROVE  CountInv'
  <2> DEFINE r == workers[w].run
  <2>1. r \in Runs /\ Executes(w, r)
    BY <1>8 DEF FinishRun, TypeOK, Executes
  <2>2. /\ runs'[r].status = IF runs[r].status = "none" THEN "none" ELSE status
        /\ \A s \in Runs : s # r => runs'[s].status = runs[s].status
    BY <1>8, <2>1 DEF FinishRun, TypeOK, RunRow
  <2>3. orphaned' = orphaned
    BY <1>8 DEF FinishRun
  <2>4. job' = IF job.exists THEN ApplyFinishedRun(job, r, started, status) ELSE job
    BY <1>8 DEF FinishRun
  <2> HIDE DEF r
  <2>5. EndedRuns' = (EndedRuns \ {r}) \cup (IF runs'[r].status \in Terminal THEN {r} ELSE {})
    BY <2>1, <2>2, EndedAfter
  <2>6. CASE ~job.exists \/ orphaned # {}
    <3>1. ~job'.exists \/ orphaned' # {}
      BY <2>3, <2>4, <2>6
    <3>2. IsFiniteSet(EndedRuns \cup {r})
      BY FS_AddElement DEF CountInv
    <3>3. IsFiniteSet(EndedRuns')
      BY <2>5, <3>2, FS_Subset
    <3> QED
      BY <3>1, <3>3 DEF CountInv, RunCountExact
  <2>7. CASE job.exists /\ orphaned = {}
    <3>1. runs[r].status = "running"
      BY <2>1, <2>7 DEF ExecutedRunsRunning
    <3>2. runs'[r].status = status /\ r \notin EndedRuns
      BY <2>2, <3>1 DEF EndedRuns, Terminal
    <3>3. job'.run_count = IF status = "waiting_for_input" THEN job.run_count
                           ELSE job.run_count + 1
      BY <2>1, <2>4, <2>7, ApplyFinishedRunCount DEF TypeOK
    <3>4. CASE status = "waiting_for_input"
      BY <2>3, <2>5, <2>7, <3>2, <3>3, <3>4, NoneEnds DEF Terminal
    <3>5. CASE status # "waiting_for_input"
      <4>1. EndedRuns' = EndedRuns \cup {r}
        BY <2>5, <3>2, <3>5 DEF FinishStatuses, Terminal
      <4> QED
        BY <2>1, <2>3, <2>7, <3>2, <3>3, <3>5, <4>1, OneEnds
    <3> QED
      BY <3>4, <3>5
  <2> QED
    BY <2>6, <2>7
<1>9. ASSUME NEW w \in Workers, DisableOneShot(w)
      PROVE  CountInv'
  BY <1>1, <1>9 DEF DisableOneShot, TypeOK, JobRow
<1>10. CASE MarkStaleFailed
  <2>1. CASE Stale
    BY <1>10, <2>1, TakenCount DEF MarkStaleFailed, Stale, Live, Terminal
  <2>2. CASE ~Stale
    BY <1>1, <1>10, <2>2 DEF MarkStaleFailed
  <2> QED
    BY <2>1, <2>2
<1>11. CASE Age
  BY <1>1, <1>11 DEF Age, TypeOK, JobRow
<1>12. CASE UNCHANGED <<job, runs, orphaned>>
  BY <1>1, <1>12
<1>13. CASE Request
  BY <1>2, <1>3, <1>4, <1>12, <1>13 DEF Request, Trigger, Reply, Send
<1>14. ASSUME NEW w \in Workers, WorkerStep(w) \/ Crash(w)
       PROVE  CountInv'
  BY <1>5, <1>6, <1>7, <1>8, <1>9, <1>10, <1>12, <1>14
  DEF WorkerStep, TakeAny, FinishAny, TakeForDeletedJob, RefuseReply, Take, Acknowledge,
      RestartWorker, Crash
<1> QED
  BY <1>10, <1>11, <1>12, <1>13, <1>14 DEF Next, RestartApi, vars

\* run_count counts every run that ended exactly once, for any number of runs, as
\* long as no run was taken from a live worker.
THEOREM RunCountExactHolds == Spec => []RunCountExact
<1>1. Init => CountInv
  <2> SUFFICES ASSUME Init PROVE CountInv
    OBVIOUS
  <2>1. EndedRuns = {}
    BY DEF Init, EndedRuns, NoRunRow, Terminal
  <2> QED
    BY <2>1, FS_EmptySet DEF Init, NewJobRow, CountInv, RunCountExact, EndedRuns
<1>2. CountInv => RunCountExact
  BY DEF CountInv
<1> QED
  BY InitIInv, NextIInv, NextCountInv, <1>1, <1>2, PTL DEF Spec
=============================================================================
