---------------------------- MODULE SessionPool ----------------------------
(***************************************************************************)
(* The session pool of the code executor (code_executor/session_pool.py), *)
(* the worker processes it talks to over pipes (code_executor/worker.py)  *)
(* and the staging and publication of the files an execution saves        *)
(* (code_executor/file_artifacts.py).                                     *)
(*                                                                        *)
(* Every critical section of the pool's lock runs without suspending, so  *)
(* it is one step here and the lock is not a variable; the execution lock *)
(* of a session is held across the exchange with its worker and is a      *)
(* queue, since asyncio hands a lock over in order.  The worker runs the  *)
(* code in a forked child.  A child that succeeds becomes the session's   *)
(* process and the parent reports it and exits; one that fails leaves the *)
(* parent with the state it had.                                          *)
(***************************************************************************)
EXTENDS Naturals, Sequences, FiniteSets

CONSTANTS
    Calls,          \* the requests to execute code
    Sessions,       \* session ids
    Saving,         \* the calls whose code may save a file
    MaxSessions,    \* the setting max_sessions
    MaxFaults       \* bound: shutdowns by a client, deaths of a process, cancellations

Stop == "stop"

ASSUME PoolAssumption ==
    /\ Stop \notin Calls
    /\ Saving \subseteq Calls
    /\ MaxSessions \in Nat \ {0}
    /\ MaxFaults \in Nat

VARIABLES
    sessions,   \* _sessions: the entry of each session, 0 when it has none
    entries,    \* the entries ever created, in order
    procs,      \* the processes that are alive
    calls,      \* where each call is
    stage,      \* calls with a directory under .staging
    files,      \* calls whose files are under .files with their manifests
    disturbed,  \* entries reaped, shut down, unresponsive, or that lost a process
    faults

vars == <<sessions, entries, procs, calls, stage, files, disturbed, faults>>

Steps == {"new", "queued", "sending", "sent", "received", "ended"}

Outcomes == {"none", "ok", "failed", "timeout", "error", "full",
             "unpublished", "cancelled"}

\* What a worker answers: the status of the child, and the pid it promoted.
Answers == [call: Calls, status: {"ok", "failed", "timeout"}, pid: Nat]

NoAnswer == [call |-> Stop, status |-> "none", pid |-> 0]

\* A request, an entry of the table of sessions, and a process of a worker.
Call == [at: Steps, session: Sessions, entry: Nat, cancelled: BOOLEAN,
         answer: Answers \cup {NoAnswer}, outcome: Outcomes]

Entry == [open: BOOLEAN, known: Nat, lastPid: Nat, queue: Seq(Calls),
          inbox: Seq(Calls \cup {Stop}), outbox: Seq(Answers)]

Process == [entry: Nat, pid: Nat, does: {"reads", "runs", "supervises"},
            call: Calls \cup {Stop}, child: Nat, result: {"none", "ok", "failed"},
            done: SUBSET Calls]

NewCall(s) == [at |-> "new", session |-> s, entry |-> 0, cancelled |-> FALSE,
               answer |-> NoAnswer, outcome |-> "none"]

\* A worker process of an entry, whose interpreter holds the effects of done.
Worker(e) == [entry |-> e, pid |-> 1, does |-> "reads", call |-> Stop,
              child |-> 0, result |-> "none", done |-> {}]

NewEntry(c) == [open |-> TRUE, known |-> 1, lastPid |-> 1, queue |-> <<c>>,
                inbox |-> <<>>, outbox |-> <<>>]

ProcsOf(e) == {p \in procs: p.entry = e}

Gone(e) == ProcsOf(e) = {}

Known(e) == {p \in ProcsOf(e): p.pid = entries[e].known}

Full == Cardinality({s \in Sessions: sessions[s] # 0}) >= MaxSessions

Current(e) == \E s \in Sessions: sessions[s] = e

-----------------------------------------------------------------------------

\* A closed entry: a stop message for the worker, the known process terminated.
Closed(e) ==
    [entries[e] EXCEPT !.open = FALSE,
                       !.inbox = IF entries[e].open THEN Append(@, Stop) ELSE @]

\* _shutdown_entry of the entries E, which leave the table of sessions.  Only
\* the known process is terminated: a child it forked runs on.
ShutDown(E) ==
    /\ sessions' = [s \in Sessions |-> IF sessions[s] \in E THEN 0 ELSE sessions[s]]
    /\ procs' = {p \in procs: ~(p.entry \in E /\ p.pid = entries[p.entry].known)}
    /\ disturbed' = disturbed \cup E

\* A queue that a waiting call has left.
Without(queue, c) ==
    [i \in 1..(Len(queue) - 1) |->
        IF \E j \in 1..i: queue[j] = c THEN queue[i + 1] ELSE queue[i]]

\* The call c holds the execution lock of e.
Holds(e, c) == entries[e].queue # <<>> /\ Head(entries[e].queue) = c

\* publish: the staged files of c move under .files with their manifests, all of
\* them or none; discard: its staging directory is removed.
Published(c) == files \cup (stage \cap {c})
Discarded(c) == stage \ {c}

\* cleanup: exports past their time, and the staging of calls that are over.
Old == files \cup {c \in stage: calls[c].at = "ended"}

\* _get_or_create_session and the wait for the entry's execution lock, first
\* and after every turn of the loop of execute.
Enter(c) ==
    LET s == calls[c].session IN
    /\ calls[c].at = "new"
    /\ \/ /\ sessions[s] # 0
          /\ entries' = [entries EXCEPT ![sessions[s]].queue = Append(@, c)]
          /\ calls' = [calls EXCEPT ![c].at = "queued", ![c].entry = sessions[s]]
          /\ UNCHANGED <<sessions, procs>>
       \/ /\ sessions[s] = 0 /\ ~Full
          /\ entries' = Append(entries, NewEntry(c))
          /\ sessions' = [sessions EXCEPT ![s] = Len(entries')]
          /\ procs' = procs \cup {Worker(Len(entries'))}
          /\ calls' = [calls EXCEPT ![c].at = "queued", ![c].entry = Len(entries')]
       \/ /\ sessions[s] = 0 /\ Full
          /\ calls' = [calls EXCEPT ![c].at = "ended", ![c].outcome = "full"]
          /\ UNCHANGED <<sessions, entries, procs>>
    /\ UNCHANGED <<stage, files, disturbed, faults>>

\* The lock is c's and its entry was replaced meanwhile: once more around.
Retry(c) ==
    LET e == calls[c].entry IN
    /\ calls[c].at = "queued" /\ Holds(e, c)
    /\ sessions[calls[c].session] # e
    /\ entries' = [entries EXCEPT ![e].queue = Tail(@)]
    /\ calls' = [calls EXCEPT ![c].at = "new", ![c].entry = 0]
    /\ UNCHANGED <<sessions, procs, stage, files, disturbed, faults>>

\* Mutant: the dead process's session stays in the table.
ReplaceLater(c) ==
    /\ calls[c].at = "queued" /\ Holds(calls[c].entry, c)
    /\ sessions[calls[c].session] = calls[c].entry
    /\ Known(calls[c].entry) = {}
    /\ entries' = [entries EXCEPT ![calls[c].entry].queue = Tail(@),
                                  ![calls[c].entry].open = FALSE]
    /\ calls' = [calls EXCEPT ![c].at = "new", ![c].entry = 0]
    /\ UNCHANGED <<sessions, procs, stage, files, disturbed, faults>>

\* _worker_is_available finds the known process dead: the session is dropped.
Replace(c) ==
    LET e == calls[c].entry IN
    /\ calls[c].at = "queued" /\ Holds(e, c)
    /\ sessions[calls[c].session] = e
    /\ Known(e) = {}
    /\ entries' = [entries EXCEPT ![e].queue = Tail(@), ![e].open = FALSE]
    /\ sessions' = [sessions EXCEPT ![calls[c].session] = 0]
    /\ calls' = [calls EXCEPT ![c].at = "new", ![c].entry = 0]
    /\ UNCHANGED <<procs, stage, files, disturbed, faults>>

\* The exchange begins.  A dead process that nobody has reaped still has its
\* pid, so a call may also go on with a process that is no more.
Proceed(c) ==
    LET e == calls[c].entry IN
    /\ calls[c].at = "queued" /\ Holds(e, c)
    /\ sessions[calls[c].session] = e
    /\ calls' = [calls EXCEPT ![c].at = "sending"]
    /\ UNCHANGED <<sessions, entries, procs, stage, files, disturbed, faults>>

\* The thread of _communicate writes the code to the pipe.
Send(c) ==
    LET e == calls[c].entry IN
    /\ calls[c].at = "sending"
    /\ entries[e].open /\ ~Gone(e)
    /\ entries' = [entries EXCEPT ![e].inbox = Append(@, c)]
    /\ calls' = [calls EXCEPT ![c].at = "sent"]
    /\ UNCHANGED <<sessions, procs, stage, files, disturbed, faults>>

\* The thread reads an answer.
Receive(c) ==
    LET e == calls[c].entry IN
    /\ calls[c].at = "sent"
    /\ entries[e].open /\ entries[e].outbox # <<>>
    /\ entries' = [entries EXCEPT ![e].outbox = Tail(@)]
    /\ calls' = [calls EXCEPT ![c].at = "received",
                              ![c].answer = Head(entries[e].outbox)]
    /\ UNCHANGED <<sessions, procs, stage, files, disturbed, faults>>

\* Mutant: an unanswered call leaves its session in the table.
GiveUpOnly(c) ==
    LET e == calls[c].entry IN
    /\ \/ calls[c].at = "sending" /\ (~entries[e].open \/ Gone(e))
       \/ calls[c].at = "sent"
    /\ entries' = [entries EXCEPT ![e].queue = Tail(@)]
    /\ calls' = [calls EXCEPT ![c].at = "ended",
           ![c].outcome = IF calls[c].cancelled THEN "cancelled" ELSE "error"]
    /\ stage' = stage \ {c}
    /\ UNCHANGED <<sessions, procs, files, disturbed, faults>>

\* The pipe is broken or closed, or the watchdog ran out: shutdown_by_entry,
\* then the exception leaves _execute_entry and the lock is released.
GiveUp(c) ==
    LET e == calls[c].entry
        E == {e} \cap {sessions[s]: s \in Sessions}
        closed == IF E = {} THEN entries[e] ELSE Closed(e) IN
    /\ \/ calls[c].at = "sending" /\ (~entries[e].open \/ Gone(e))
       \/ calls[c].at = "sent"
    /\ ShutDown(E)
    /\ entries' = [entries EXCEPT ![e] = [closed EXCEPT !.queue = Tail(@)]]
    /\ calls' = [calls EXCEPT ![c].at = "ended",
           ![c].outcome = IF calls[c].cancelled THEN "cancelled" ELSE "error"]
    /\ stage' = Discarded(c)
    /\ UNCHANGED <<files, faults>>

\* Mutant: a cancelled call raises before it notes the promoted process.
FinishCancelledFirst(c) ==
    LET promoted == calls[c].answer.status = "ok" /\ ~calls[c].cancelled IN
    /\ calls[c].at = "received"
    /\ entries' = [entries EXCEPT ![calls[c].entry].queue = Tail(@),
           ![calls[c].entry].known = IF promoted THEN calls[c].answer.pid ELSE @]
    /\ calls' = [calls EXCEPT ![c].at = "ended", ![c].answer = NoAnswer,
           ![c].outcome = IF calls[c].cancelled THEN "cancelled" ELSE calls[c].answer.status]
    /\ stage' = stage \ {c}
    /\ UNCHANGED <<sessions, procs, files, disturbed, faults>>

\* Mutant: the files are published before the cancellation is looked at.
FinishPublishesFirst(c) ==
    LET ok == calls[c].answer.status = "ok" IN
    /\ calls[c].at = "received"
    /\ entries' = [entries EXCEPT ![calls[c].entry].queue = Tail(@),
           ![calls[c].entry].known = IF ok THEN calls[c].answer.pid ELSE @]
    /\ calls' = [calls EXCEPT ![c].at = "ended", ![c].answer = NoAnswer,
           ![c].outcome = IF calls[c].cancelled THEN "cancelled" ELSE calls[c].answer.status]
    /\ files' = IF ok THEN files \cup (stage \cap {c}) ELSE files
    /\ stage' = stage \ {c}
    /\ UNCHANGED <<sessions, procs, disturbed, faults>>

\* _execute_entry resumes with the answer: the promoted process becomes the
\* known one, then a cancelled call ends, or the files of a successful one are
\* published, which may fail and is then undone.  Staging is always discarded.
Finish(c) ==
    LET e == calls[c].entry
        answer == calls[c].answer IN
    /\ calls[c].at = "received"
    /\ entries' = [entries EXCEPT ![e].queue = Tail(@),
           ![e].known = IF answer.status = "ok" THEN answer.pid ELSE @]
    /\ \E outcome \in Outcomes:
          /\ outcome \in IF calls[c].cancelled THEN {"cancelled"}
                         ELSE IF answer.status = "ok" THEN {"ok", "unpublished"}
                         ELSE {answer.status}
          /\ outcome = "unpublished" => c \in stage
          /\ calls' = [calls EXCEPT ![c].at = "ended", ![c].answer = NoAnswer,
                                    ![c].outcome = outcome]
          /\ files' = IF outcome = "ok" THEN Published(c) ELSE files
    /\ stage' = Discarded(c)
    /\ UNCHANGED <<sessions, procs, disturbed, faults>>

\* The caller is cancelled.  A waiter leaves the queue; during the exchange
\* the cancellation is kept until the pipe has been drained.
Cancel(c) ==
    LET e == calls[c].entry IN
    /\ faults < MaxFaults /\ faults' = faults + 1
    /\ \/ /\ calls[c].at = "queued"
          /\ entries' = [entries EXCEPT ![e].queue = Without(@, c)]
          /\ calls' = [calls EXCEPT ![c].at = "ended", ![c].outcome = "cancelled"]
       \/ /\ calls[c].at \in {"sending", "sent", "received"} /\ ~calls[c].cancelled
          /\ calls' = [calls EXCEPT ![c].cancelled = TRUE]
          /\ UNCHANGED entries
    /\ UNCHANGED <<sessions, procs, stage, files, disturbed>>

\* shutdown of one session for DELETE /sessions/{session_id}, or of all of them
\* when the service stops.
Shutdown ==
    /\ faults < MaxFaults /\ faults' = faults + 1
    /\ \E S \in {{s}: s \in Sessions} \cup {Sessions}:
          LET E == {sessions[s]: s \in S} \ {0} IN
          /\ E # {}
          /\ ShutDown(E)
          /\ entries' = [e \in DOMAIN entries |-> IF e \in E THEN Closed(e) ELSE entries[e]]
    /\ UNCHANGED <<calls, stage, files>>

\* A turn of the reaper.  cleanup_idle shuts down sessions without an execution
\* that were not used for long; cleanup_old_artifacts then removes expired files
\* and the staging directories older than any execution.
Reap ==
    LET free == {e \in DOMAIN entries: Current(e) /\ entries[e].queue = <<>>} IN
    \E E \in SUBSET free, gone \in SUBSET Old:
       /\ E # {} \/ gone # {}
       /\ ShutDown(E)
       /\ entries' = [e \in DOMAIN entries |-> IF e \in E THEN Closed(e) ELSE entries[e]]
       /\ stage' = stage \ gone
       /\ files' = files \ gone
       /\ UNCHANGED <<calls, faults>>

-----------------------------------------------------------------------------
(* The worker processes.                                                   *)

Becomes(p, new) == procs' = (procs \ {p}) \cup new

\* The process that supervises the child p, if it is still there.
Parent(p) == {q \in ProcsOf(p.entry): q.does = "supervises" /\ q.child = p.pid}

Reports(p, result) == {[q EXCEPT !.result = result]: q \in Parent(p)}

Answer(p, status) ==
    entries' = [entries EXCEPT ![p.entry].outbox = Append(@,
        [call |-> p.call, status |-> status, pid |-> IF status = "ok" THEN p.child ELSE 0])]

Resumed(p) == [p EXCEPT !.does = "reads", !.call = Stop, !.child = 0, !.result = "none"]

\* worker_loop takes a message: it forks a child for the code, or stops.
Take(p) ==
    LET inbox == entries[p.entry].inbox
        pid == entries[p.entry].lastPid + 1 IN
    /\ p.does = "reads" /\ inbox # <<>>
    /\ \/ /\ Head(inbox) = Stop
          /\ entries' = [entries EXCEPT ![p.entry].inbox = Tail(@)]
          /\ Becomes(p, {})
       \/ /\ Head(inbox) # Stop
          /\ entries' = [entries EXCEPT ![p.entry].inbox = Tail(@),
                                        ![p.entry].lastPid = pid]
          /\ Becomes(p, {[p EXCEPT !.does = "supervises", !.call = Head(inbox),
                                   !.child = pid],
                         [p EXCEPT !.does = "runs", !.call = Head(inbox), !.pid = pid]})
    /\ UNCHANGED <<sessions, calls, stage, files, disturbed, faults>>

\* The code saves a file, in the staging directory of its execution.
Save(p) ==
    /\ p.does = "runs" /\ p.call \in Saving \ stage
    /\ stage' = stage \cup {p.call}
    /\ UNCHANGED <<sessions, entries, procs, calls, files, disturbed, faults>>

\* The code succeeds: its process reports it and reads the pipe from now on.
\* Without a parent the report fails, and the process exits.
Succeed(p) ==
    /\ p.does = "runs"
    /\ procs' = (procs \ ({p} \cup Parent(p))) \cup Reports(p, "ok")
          \cup {[Resumed(p) EXCEPT !.done = p.done \cup {p.call}]: q \in Parent(p)}
    /\ UNCHANGED <<sessions, entries, calls, stage, files, disturbed, faults>>

\* The code fails: its process reports the failure and exits.
Fail(p) ==
    /\ p.does = "runs"
    /\ procs' = (procs \ ({p} \cup Parent(p))) \cup Reports(p, "failed")
    /\ UNCHANGED <<sessions, entries, calls, stage, files, disturbed, faults>>

\* The parent answers what the child reported and exits after a success.
Relay(p) ==
    /\ p.does = "supervises" /\ p.result # "none"
    /\ Answer(p, p.result)
    /\ Becomes(p, IF p.result = "ok" THEN {} ELSE {Resumed(p)})
    /\ UNCHANGED <<sessions, calls, stage, files, disturbed, faults>>

\* The child ran out of time and is killed, or is found to have exited without
\* a failure to report: an answer without a status, and the state is kept.
Expire(p) ==
    /\ p.does = "supervises"
    /\ Answer(p, "timeout")
    /\ procs' = {q \in procs \ {p}: ~(q.entry = p.entry /\ q.pid = p.child)}
                   \cup {Resumed(p)}
    /\ UNCHANGED <<sessions, calls, stage, files, disturbed, faults>>

\* A process dies.
Die(p) ==
    /\ faults < MaxFaults /\ faults' = faults + 1
    /\ Becomes(p, {})
    /\ disturbed' = disturbed \cup {p.entry}
    /\ UNCHANGED <<sessions, entries, calls, stage, files>>

-----------------------------------------------------------------------------

Init ==
    /\ sessions = [s \in Sessions |-> 0]
    /\ entries = <<>>
    /\ procs = {}
    /\ calls \in {[c \in Calls |-> NewCall(f[c])]: f \in [Calls -> Sessions]}
    /\ stage = {} /\ files = {} /\ disturbed = {}
    /\ faults = 0

PoolStep(c) ==
    \/ Enter(c) \/ Retry(c) \/ Replace(c) \/ Proceed(c)
    \/ Send(c) \/ Receive(c) \/ GiveUp(c) \/ Finish(c)

WorkerStep == \E p \in procs: Take(p) \/ Relay(p) \/ Expire(p)

CodeStep == \E p \in procs: Save(p) \/ Succeed(p) \/ Fail(p)

Next ==
    \/ \E c \in Calls: PoolStep(c) \/ Cancel(c)
    \/ WorkerStep \/ CodeStep
    \/ \E p \in procs: Die(p)
    \/ Shutdown \/ Reap

\* The event loop runs what is ready, and a wait for an answer has an end; the
\* workers run.  Nothing is asked of the code, of the reaper or of a client.
Fairness == WF_vars(\E c \in Calls: PoolStep(c)) /\ WF_vars(WorkerStep)

Spec == Init /\ [][Next]_vars /\ Fairness

-----------------------------------------------------------------------------

\* The types, and that the known process is one the entry has had.
TypeOK ==
    /\ sessions \in [Sessions -> 0..Len(entries)]
    /\ entries \in Seq(Entry)
    /\ \A e \in DOMAIN entries: entries[e].known \in 1..entries[e].lastPid
    /\ procs \subseteq Process
    /\ \A p \in procs: p.entry \in DOMAIN entries /\ p.pid \in 1..entries[p.entry].lastPid
    /\ calls \in [Calls -> Call]
    /\ \A c \in Calls: calls[c].entry \in 0..Len(entries)
    /\ stage \subseteq Calls /\ files \subseteq Calls
    /\ disturbed \subseteq DOMAIN entries
    /\ faults \in 0..MaxFaults

\* The answer a call takes from the pipe is the answer to its own code, after
\* cancelled calls, timeouts and shutdowns too (session_pool.py:105-145: the
\* exchange is drained before the lock is released).
OwnAnswer == \A c \in Calls: calls[c].answer # NoAnswer => calls[c].answer.call = c

\* A session that waits for work has one process, it is the known one, and its
\* interpreter holds what every successful call of that process's session left
\* and nothing of a call that failed or ran out of time (worker.py:71-95,
\* "failed execution keeps the previous good worker state").
RollsBack ==
    \A e \in DOMAIN entries:
       Current(e) /\ entries[e].queue = <<>> /\ Known(e) # {} =>
          \E p \in procs:
             /\ ProcsOf(e) = {p} /\ p.does = "reads"
             /\ \A c \in Calls: calls[c].entry = e =>
                   /\ calls[c].outcome \in {"ok", "unpublished"} => c \in p.done
                   /\ calls[c].outcome \in {"failed", "timeout"} => c \notin p.done

\* A session keeps its process, and no call fails for another reason than its
\* own code, unless the session was shut down or reaped, or a process of it died
\* or did not answer (session_pool.py:97-103, the handoff between two calls).
SessionSurvives ==
    \A e \in DOMAIN entries \ disturbed:
       /\ Current(e)
       /\ \A c \in Calls: calls[c].entry = e => calls[c].outcome # "error"

\* What a session has learnt stays in it, and the session stays.
SessionKept == RollsBack /\ SessionSurvives

\* Files are published for calls that were answered with success and for no
\* other, and an answered call leaves nothing in staging (session_pool.py:130-138,
\* "killing or rolling back a worker cannot expose partial output").
PublishedIfAnswered ==
    \A c \in Calls:
       /\ c \in files => calls[c].outcome = "ok"
       /\ calls[c].outcome \in {"ok", "failed", "timeout", "unpublished"} => c \notin stage

\* The variables have their types, and files are published as calls were answered.
FilesConsistent == TypeOK /\ PublishedIfAnswered

\* Every call ends: with an answer, an error or its cancellation (the watchdog
\* of session_pool.py:159 and the deadline of worker.py:138).
CallsEnd == \A c \in Calls: <>(calls[c].at = "ended")

=============================================================================
