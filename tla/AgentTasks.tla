----------------------------- MODULE AgentTasks -----------------------------
(***************************************************************************)
(* Tasks that external agents hand to the assistant over A2A and MCP       *)
(* (wotbot/agent_api: store.py, runtime.py): durable rows in the database, *)
(* one asyncio runner per admission, owner cancellation, revocation of the *)
(* invoking key, shutdown, crash, recovery and the retention sweep.        *)
(*                                                                         *)
(* A transaction of the store is one action.  It runs in a thread of the   *)
(* executor (asyncio.to_thread), so it commits at a moment of its own,     *)
(* apart from the moment the event loop notices; and cancelling the        *)
(* coroutine that awaits it does not stop a thread that already runs.      *)
(***************************************************************************)
EXTENDS Naturals, FiniteSets

CONSTANTS
    Messages,       \* message ids; a new task has the id of its first message
    NoMessage,
    Contexts,       \* ids of the hidden threads behind the A2A contexts
    NoContext,
    MaxFaults       \* bound: crashes, orderly shutdowns and failed checks of a key

ASSUME AgentTasksAssumption ==
    /\ NoMessage \notin Messages
    /\ NoContext \notin Contexts
    /\ "cancel" \notin Messages      \* the author of a save: a message or cancel()
    /\ MaxFaults \in Nat

VARIABLES
    rows,        \* table a2a_tasks, by task id
    records,     \* table a2a_messages: the task a message was admitted to
    threads,     \* the hidden threads, and
    checkpoints, \* those with graph state in the checkpointer
    server,      \* the API process: down, starting, up, closing, stopping
    lock,        \* holder of admission_lock
    runners,     \* the asyncio runner launched for a message
    current,     \* AgentRuntime.runners: task id -> its latest runner
    revoked,     \* AgentRuntime.revoked
    writes,      \* TaskStore.save calls running in a thread
    canceller,   \* the cancel() call that holds the admission lock
    sweeper,     \* the sweep() call that holds it
    faults,      \* how often the process stopped or a key failed its check
    launched,    \* history: runners launched for a message while it is recorded
    asked,       \* history: tasks whose owner called cancel()
    disturbed    \* history: tasks one of whose runners was stopped during a save or
                 \* an except clause, was not yet done when the next one was
                 \* launched, or ended the task while cancel() was looking at it

stored  == <<rows, records, threads, checkpoints>>
process == <<server, lock, runners, current, revoked, writes, canceller, sweeper>>
history == <<launched, asked, disturbed>>
vars    == <<stored, process, faults, history>>

(***************************************************************************)
(* Types                                                                   *)
(***************************************************************************)
ACTIVE   == {"SUBMITTED", "WORKING"}
PAUSED   == {"INPUT_REQUIRED"}      \* stands for AUTH_REQUIRED too
RESERVED == ACTIVE \cup PAUSED
Terminal == {"COMPLETED", "FAILED", "CANCELED"}

Row == [state: RESERVED \cup Terminal \cup {"none"},
        context: Contexts \cup {NoContext},
        expired: BOOLEAN]

Runner == [pc: {"none", "locking", "saving", "graph", "ending"},
           task: Messages \cup {NoMessage},
           state: RESERVED \cup Terminal,   \* what it saves
           handling: BOOLEAN,     \* inside an except clause of _run
           failed: BOOLEAN,       \* its save raised
           cancelling: BOOLEAN,   \* a CancelledError is due
           watched: BOOLEAN]      \* _watch_key runs

Cancellers == {"cancel"}
Write == [task: Messages, state: RESERVED \cup Terminal,
          by: Messages \cup Cancellers, awaited: BOOLEAN]

NoRow    == [state |-> "none", context |-> NoContext, expired |-> FALSE]
NoRunner == [pc |-> "none", task |-> NoMessage, state |-> "WORKING",
             handling |-> FALSE, failed |-> FALSE, cancelling |-> FALSE,
             watched |-> FALSE]
NoCancel == [pc |-> "none", task |-> NoMessage, runner |-> NoMessage]
NoSweep  == [pc |-> "none", retired |-> {}, left |-> {}]

Init ==
    /\ rows = [t \in Messages |-> NoRow]
    /\ records = [m \in Messages |-> NoMessage]
    /\ threads = [c \in Contexts |-> "unused"]
    /\ checkpoints = {}
    /\ server = "down"
    /\ lock = "free"
    /\ runners = [m \in Messages |-> NoRunner]
    /\ current = [t \in Messages |-> NoMessage]
    /\ revoked = {}
    /\ writes = {}
    /\ canceller = NoCancel
    /\ sweeper = NoSweep
    /\ faults = 0
    /\ launched = [m \in Messages |-> 0]
    /\ asked = {}
    /\ disturbed = {}

(***************************************************************************)
(* Helpers                                                                 *)
(***************************************************************************)
Live(m) == runners[m].pc # "none"

\* The row a request of its owner may touch (_owned).
Owned(t) == rows[t].state # "none" /\ ~rows[t].expired

\* Mutant: the index is missing.
ContextNeverReserved(c, except) == FALSE

\* The partial unique index uq_a2a_tasks_active_context, some rows apart.
ContextReserved(c, except) ==
    \E t \in Messages \ except : rows[t].context = c /\ rows[t].state \in RESERVED

\* Deleting rows cascades to their message records.
DeleteRows(gone) ==
    /\ rows' = [t \in Messages |-> IF t \in gone THEN NoRow ELSE rows[t]]
    /\ records' = [m \in Messages |-> IF records[m] \in gone THEN NoMessage
                                      ELSE records[m]]
    /\ launched' = [m \in Messages |-> IF records[m] \in gone THEN 0 ELSE launched[m]]
    /\ asked' = asked \ gone

\* event_locks: one save and its broadcast at a time per task.
EventLocked(t) ==
    \/ \E m \in Messages : runners[m].pc = "saving" /\ runners[m].task = t
    \/ canceller.pc = "saving" /\ canceller.task = t

(***************************************************************************)
(* Admission: AgentRuntime.admit under the admission lock, TaskStore.admit *)
(* as one transaction, and the runner.  A repeated message of a task that  *)
(* is retained is answered from its row; a message that is refused rolls   *)
(* everything back.  Neither changes anything, so neither is an action.    *)
(***************************************************************************)
Serving == server = "up" /\ lock = "free"

Closing == server \in {"closing", "stopping"}

Retained(t) == rows[t].state # "none" /\ (~rows[t].expired \/ rows[t].state \in ACTIVE)

\* The expired rows that make way for message m: the task it was recorded for
\* and the task that has its id.
Outdated(m) == {t \in {records[m], m} \ {NoMessage} : rows[t].state # "none"}

Launch(m, t) ==
    /\ ~Live(m)
    /\ runners' = [runners EXCEPT ![m] = [NoRunner EXCEPT !.pc = "locking",
                                                          !.task = t,
                                                          !.watched = TRUE]]
    /\ current' = [current EXCEPT ![t] = m]
    /\ launched' = [n \in Messages |->
                      IF n = m THEN (IF records[m] \in Outdated(m) THEN 1 ELSE launched[m] + 1)
                      ELSE IF records[n] \in Outdated(m) THEN 0 ELSE launched[n]]
    /\ disturbed' = IF \E n \in Messages : Live(n) /\ runners[n].task = t
                    THEN disturbed \cup {t} ELSE disturbed
    /\ asked' = asked \ Outdated(m)

Record(m, t) ==
    records' = [n \in Messages |->
                  IF n = m THEN t
                  ELSE IF records[n] \in Outdated(m) THEN NoMessage ELSE records[n]]

\* A first message opens a task, in a new context or in an idle one.
AdmitTask(m, c) ==
    /\ Serving
    /\ \A prior \in Outdated(m) : ~Retained(prior)
    /\ threads[c] \in {"unused", "open"}
    /\ ~ContextReserved(c, Outdated(m))
    /\ rows' = [t \in Messages |->
                  IF t = m THEN [state |-> "SUBMITTED", context |-> c, expired |-> FALSE]
                  ELSE IF t \in Outdated(m) THEN NoRow ELSE rows[t]]
    /\ threads' = [threads EXCEPT ![c] = "open"]
    /\ Record(m, m)
    /\ Launch(m, m)
    /\ UNCHANGED <<checkpoints, server, lock, revoked, writes, canceller, sweeper,
                   faults>>

\* A reply to the questions of a paused task.
AdmitContinuation(m, t) ==
    /\ Serving
    /\ \A prior \in Outdated(m) : ~Retained(prior)
    /\ Owned(t)
    /\ rows[t].state \in PAUSED
    /\ rows' = [u \in Messages |-> IF u = t THEN [rows[t] EXCEPT !.state = "SUBMITTED"]
                                   ELSE IF u \in Outdated(m) THEN NoRow ELSE rows[u]]
    /\ Record(m, t)
    /\ Launch(m, t)
    /\ UNCHANGED <<threads, checkpoints, server, lock, revoked, writes, canceller,
                   sweeper, faults>>

(***************************************************************************)
(* The runner: AgentRuntime._run                                           *)
(***************************************************************************)
RunnerOnly == UNCHANGED <<rows, records, threads, checkpoints, server, lock, current,
                          revoked, writes, canceller, sweeper, faults,
                          history>>

\* _status, and the save of an artifact: take the event lock and start the save.
StartSave(m) ==
    /\ runners[m].pc = "locking"
    /\ ~runners[m].cancelling
    /\ ~EventLocked(runners[m].task)
    /\ runners' = [runners EXCEPT ![m].pc = "saving", ![m].failed = FALSE]
    /\ writes' = writes \cup {[task |-> runners[m].task, state |-> runners[m].state,
                               by |-> m, awaited |-> TRUE]}
    /\ UNCHANGED <<stored, server, lock, current, revoked, canceller, sweeper,
                   faults, history>>

\* TaskStore.save, in its thread: the row is overwritten whatever its state is.
CommitSave(w) ==
    LET accepted == /\ Owned(w.task)
                    /\ w.state \in RESERVED =>
                          ~ContextReserved(rows[w.task].context, {w.task})
    IN  /\ writes' = writes \ {w}
        /\ rows' = IF accepted THEN [rows EXCEPT ![w.task].state = w.state] ELSE rows
        /\ runners' = IF ~accepted /\ w.awaited /\ w.by \in Messages
                      THEN [runners EXCEPT ![w.by].failed = TRUE] ELSE runners
        /\ UNCHANGED <<records, threads, checkpoints, server, lock, current, revoked,
                       canceller, sweeper, faults, history>>

Awaiting(m) == \E w \in writes : w.by = m /\ w.awaited

\* The event loop notices that the save returned, or that it raised.
SaveReturns(m) ==
    LET r == runners[m]
    IN  /\ r.pc = "saving"
        /\ ~r.cancelling
        /\ ~Awaiting(m)
        /\ runners' = [runners EXCEPT ![m] =
              IF r.failed /\ ~r.handling
              THEN [r EXCEPT !.pc = "locking", !.state = "FAILED", !.handling = TRUE]
              ELSE IF r.state = "WORKING" /\ ~r.handling
              THEN [r EXCEPT !.pc = "graph"]
              ELSE [r EXCEPT !.pc = "ending"]]
        /\ RunnerOnly

\* The graph runs: an artifact to save, a deliberate interrupt, the end of the
\* run, a failure recorded by the body or by its exception handler.
GraphOutcomes == {<<"WORKING", FALSE>>, <<"INPUT_REQUIRED", FALSE>>,
                  <<"COMPLETED", FALSE>>, <<"FAILED", FALSE>>, <<"FAILED", TRUE>>}

GraphStep(m, outcome) ==
    /\ runners[m].pc = "graph"
    /\ ~runners[m].cancelling
    /\ runners' = [runners EXCEPT ![m].pc = "locking", ![m].state = outcome[1],
                                  ![m].handling = outcome[2]]
    /\ checkpoints' = checkpoints \cup {rows[runners[m].task].context}
    /\ UNCHANGED <<rows, records, threads, server, lock, current, revoked, writes,
                   canceller, sweeper, faults, history>>

\* Mutant: a shutdown is told apart from a cancellation only by the revoked mark.
InterruptedUnawareOfClosing(m) ==
    LET r == runners[m]
        mine == {w \in writes : w.by = m /\ w.awaited}
    IN  /\ r.pc \in {"locking", "saving", "graph"}
        /\ r.cancelling
        /\ \E left \in SUBSET mine :
              writes' = (writes \ mine) \cup {[w EXCEPT !.awaited = FALSE] : w \in left}
        /\ disturbed' = IF r.pc = "saving" \/ r.handling
                        THEN disturbed \cup {r.task} ELSE disturbed
        /\ runners' = [runners EXCEPT ![m] =
              IF r.handling
              THEN [r EXCEPT !.pc = "ending", !.cancelling = FALSE]
              ELSE [r EXCEPT !.pc = "locking", !.cancelling = FALSE, !.handling = TRUE,
                             !.state = IF r.task \in revoked THEN "FAILED" ELSE "CANCELED"]]
        /\ UNCHANGED <<stored, server, lock, current, revoked, canceller, sweeper,
                       faults, launched, asked>>

\* The CancelledError arrives.  The thread of a save that was awaited runs on,
\* or never started.  A second one, inside an except clause, ends the runner.
Interrupted(m) ==
    LET r == runners[m]
        mine == {w \in writes : w.by = m /\ w.awaited}
    IN  /\ r.pc \in {"locking", "saving", "graph"}
        /\ r.cancelling
        /\ \E left \in SUBSET mine :
              writes' = (writes \ mine) \cup {[w EXCEPT !.awaited = FALSE] : w \in left}
        /\ disturbed' = IF r.pc = "saving" \/ r.handling
                        THEN disturbed \cup {r.task} ELSE disturbed
        /\ runners' = [runners EXCEPT ![m] =
              IF r.handling
              THEN [r EXCEPT !.pc = "ending", !.cancelling = FALSE]
              ELSE [r EXCEPT !.pc = "locking", !.cancelling = FALSE, !.handling = TRUE,
                             !.state = IF Closing \/ r.task \in revoked
                                       THEN "FAILED" ELSE "CANCELED"]]
        /\ UNCHANGED <<stored, server, lock, current, revoked, canceller, sweeper,
                       faults, launched, asked>>

\* The finally clause swallows a cancellation; then _runner_done.
RunnerDone(m) ==
    LET t == runners[m].task
    IN  /\ runners[m].pc = "ending"
        /\ runners' = [runners EXCEPT ![m] = NoRunner]
        /\ current' = IF current[t] = m THEN [current EXCEPT ![t] = NoMessage] ELSE current
        /\ revoked' = revoked \ {t}
        /\ UNCHANGED <<stored, server, lock, writes, canceller, sweeper, faults,
                       history>>

\* _watch_key: the invoking key is revoked, or cannot be verified.
WatchKey(m) ==
    /\ runners[m].pc \in {"locking", "saving", "graph"}
    /\ runners[m].watched
    /\ faults < MaxFaults
    /\ faults' = faults + 1
    /\ revoked' = revoked \cup {runners[m].task}
    /\ runners' = [runners EXCEPT ![m].cancelling = TRUE, ![m].watched = FALSE]
    /\ UNCHANGED <<stored, server, lock, current, writes, canceller, sweeper,
                   history>>

(***************************************************************************)
(* The owner cancels: AgentRuntime.cancel, under the admission lock        *)
(***************************************************************************)
\* The state is read in a thread ...
Cancel(t) ==
    /\ server = "up" \/ Closing
    /\ lock = "free"
    /\ Owned(t)
    /\ rows[t].state \in RESERVED
    /\ lock' = "cancel"
    /\ canceller' = [pc |-> "looking", task |-> t, runner |-> NoMessage]
    /\ asked' = asked \cup {t}
    /\ UNCHANGED <<stored, server, runners, current, revoked, writes, sweeper,
                   faults, launched, disturbed>>

\* ... and by the time the event loop has it, the runner may have ended the task.
CancelStopRunner ==
    LET t == canceller.task
        m == current[t]
    IN  /\ canceller.pc = "looking"
        /\ IF m # NoMessage
           THEN /\ canceller' = [canceller EXCEPT !.pc = "awaiting", !.runner = m]
                /\ runners' = [runners EXCEPT ![m].cancelling = TRUE]
           ELSE /\ canceller' = [canceller EXCEPT !.pc = "locking"]
                /\ UNCHANGED runners
        /\ disturbed' = IF m = NoMessage /\ rows[t].state \in Terminal
                        THEN disturbed \cup {t} ELSE disturbed
        /\ UNCHANGED <<stored, server, lock, current, revoked, writes, sweeper,
                       faults, launched, asked>>


CancelReturns ==
    /\ canceller' = NoCancel
    /\ lock' = "free"

\* Mutant: what the runner recorded is overwritten.
CancelRunnerStoppedOverwriting ==
    /\ canceller.pc = "awaiting"
    /\ ~Live(canceller.runner)
    /\ canceller' = [canceller EXCEPT !.pc = "locking"]
    /\ UNCHANGED <<stored, server, lock, runners, current, revoked, writes, sweeper,
                   faults, history>>

\* The runner stopped.  It recorded why, unless its handler was stopped too.
CancelRunnerStopped ==
    /\ canceller.pc = "awaiting"
    /\ ~Live(canceller.runner)
    /\ IF rows[canceller.task].state \in RESERVED
       THEN /\ canceller' = [canceller EXCEPT !.pc = "locking"]
            /\ UNCHANGED lock
       ELSE CancelReturns
    /\ UNCHANGED <<stored, server, runners, current, revoked, writes, sweeper,
                   faults, launched, asked, disturbed>>

CancelStartSave ==
    /\ canceller.pc = "locking"
    /\ ~EventLocked(canceller.task)
    /\ canceller' = [canceller EXCEPT !.pc = "saving"]
    /\ writes' = writes \cup {[task |-> canceller.task, state |-> "CANCELED",
                               by |-> "cancel", awaited |-> TRUE]}
    /\ UNCHANGED <<stored, server, lock, runners, current, revoked, sweeper, faults,
                   history>>

CancelSaved ==
    /\ canceller.pc = "saving"
    /\ ~Awaiting("cancel")
    /\ CancelReturns
    /\ UNCHANGED <<stored, server, runners, current, revoked, writes, sweeper,
                   faults, launched, asked, disturbed>>

(***************************************************************************)
(* Retention: AgentRuntime.sweep, under the admission lock                 *)
(***************************************************************************)
\* The retention period of a row passes; it is far longer than any run.
Expire(t) ==
    /\ Owned(t)
    /\ rows[t].state \notin ACTIVE
    /\ \A m \in Messages : runners[m].task # t
    /\ \A w \in writes : w.task # t
    /\ canceller.task # t
    /\ rows' = [rows EXCEPT ![t].expired = TRUE]
    /\ UNCHANGED <<records, threads, checkpoints, process, faults, history>>

Sweep ==
    /\ Serving
    /\ lock' = "sweep"
    /\ sweeper' = [pc |-> "pruning", retired |-> {}, left |-> {}]
    /\ UNCHANGED <<stored, server, runners, current, revoked, writes, canceller,
                   faults, history>>

\* TaskStore.prune: the expired tasks go, and the threads left without a task
\* are found.
Prune ==
    LET gone == {t \in Messages : rows[t].expired /\ rows[t].state \notin ACTIVE}
        empty == {c \in Contexts : /\ threads[c] = "open"
                                   /\ \A t \in Messages \ gone : rows[t].context # c}
    IN  /\ sweeper.pc = "pruning"
        /\ DeleteRows(gone)
        /\ sweeper' = [pc |-> "retiring", retired |-> empty, left |-> empty]
        /\ UNCHANGED <<threads, checkpoints, server, lock, runners, current, revoked,
                       writes, canceller, faults, disturbed>>

DeleteCheckpoint(c) ==
    /\ sweeper.pc = "retiring"
    /\ c \in sweeper.left
    /\ checkpoints' = checkpoints \ {c}
    /\ sweeper' = [sweeper EXCEPT !.left = @ \ {c}]
    /\ UNCHANGED <<rows, records, threads, server, lock, runners, current, revoked,
                   writes, canceller, faults, history>>

\* Mutant: the thread rows go before their checkpoints.
DeleteContextsFirst ==
    /\ sweeper.pc = "retiring"
    /\ threads' = [c \in Contexts |->
                     IF c \in sweeper.retired /\ \A t \in Messages : rows[t].context # c
                     THEN "deleted" ELSE threads[c]]
    /\ sweeper' = NoSweep
    /\ lock' = "free"
    /\ server' = IF server = "starting" THEN "up" ELSE server
    /\ UNCHANGED <<rows, records, checkpoints, runners, current, revoked, writes,
                   canceller, faults, history>>

\* TaskStore.delete_contexts looks for tasks again.
DeleteContexts ==
    /\ sweeper.pc = "retiring"
    /\ sweeper.left = {}
    /\ threads' = [c \in Contexts |->
                     IF c \in sweeper.retired /\ \A t \in Messages : rows[t].context # c
                     THEN "deleted" ELSE threads[c]]
    /\ sweeper' = NoSweep
    /\ lock' = "free"
    /\ server' = IF server = "starting" THEN "up" ELSE server
    /\ UNCHANGED <<rows, records, checkpoints, runners, current, revoked, writes,
                   canceller, faults, history>>

(***************************************************************************)
(* The process starts, shuts down and crashes                              *)
(***************************************************************************)
\* Mutant: nothing is recovered.
StartWithoutRecovery ==
    /\ server = "down"
    /\ server' = "starting"
    /\ lock' = "sweep"
    /\ sweeper' = [pc |-> "pruning", retired |-> {}, left |-> {}]
    /\ UNCHANGED <<stored, runners, current, revoked, writes, canceller, faults,
                   history>>

\* AgentRuntime.start: the execution lease is free; what the last process left
\* executing has failed and is never retried; then a sweep.
Start ==
    /\ server = "down"
    /\ server' = "starting"
    /\ rows' = [t \in Messages |-> IF rows[t].state \in ACTIVE
                                   THEN [rows[t] EXCEPT !.state = "FAILED"] ELSE rows[t]]
    /\ lock' = "sweep"
    /\ sweeper' = [pc |-> "pruning", retired |-> {}, left |-> {}]
    /\ UNCHANGED <<records, threads, checkpoints, runners, current, revoked, writes,
                   canceller, faults, history>>

\* AgentRuntime.close: no admission from here on ...
Close ==
    /\ Serving
    /\ faults < MaxFaults
    /\ faults' = faults + 1
    /\ server' = "closing"
    /\ UNCHANGED <<stored, lock, runners, current, revoked, writes, canceller, sweeper,
                   history>>

\* ... and, once the maintenance task is gone, every runner is stopped.
CloseRunners ==
    /\ server = "closing"
    /\ server' = "stopping"
    /\ runners' = [m \in Messages |-> IF \E t \in Messages : current[t] = m
                                      THEN [runners[m] EXCEPT !.cancelling = TRUE]
                                      ELSE runners[m]]
    /\ UNCHANGED <<stored, lock, current, revoked, writes, canceller, sweeper,
                   faults, history>>

ProcessGone ==
    /\ server' = "down"
    /\ lock' = "free"
    /\ runners' = [m \in Messages |-> NoRunner]
    /\ current' = [t \in Messages |-> NoMessage]
    /\ revoked' = {}
    /\ canceller' = NoCancel
    /\ sweeper' = NoSweep

\* The runners are done and the lease is released.  Saves whose coroutine was
\* stopped may still be on their way in a thread.
CloseDone ==
    /\ server = "stopping"
    /\ \A t \in Messages : current[t] = NoMessage
    /\ ProcessGone
    /\ writes' = {[w EXCEPT !.awaited = FALSE] : w \in writes}
    /\ disturbed' = disturbed \cup {w.task : w \in writes}
    /\ UNCHANGED <<stored, faults, launched, asked>>

Crash ==
    /\ server # "down"
    /\ faults < MaxFaults
    /\ faults' = faults + 1
    /\ ProcessGone
    /\ writes' = {}
    /\ UNCHANGED <<stored, history>>

(***************************************************************************)
(* Specification                                                           *)
(***************************************************************************)
RunnerStep(m) ==
    \/ StartSave(m)
    \/ SaveReturns(m)
    \/ Interrupted(m)
    \/ RunnerDone(m)

CancelStep == CancelStopRunner \/ CancelRunnerStopped \/ CancelStartSave \/ CancelSaved

SweepStep == Prune \/ DeleteContexts \/ \E c \in Contexts : DeleteCheckpoint(c)

GraphEnds(m) == \E outcome \in GraphOutcomes : outcome[1] # "WORKING" /\ GraphStep(m, outcome)

Next ==
    \/ \E m \in Messages, c \in Contexts : AdmitTask(m, c)
    \/ \E m, t \in Messages : AdmitContinuation(m, t)
    \/ \E m \in Messages : RunnerStep(m) \/ WatchKey(m)
    \/ \E m \in Messages, outcome \in GraphOutcomes : GraphStep(m, outcome)
    \/ \E w \in writes : CommitSave(w)
    \/ \E t \in Messages : Cancel(t) \/ Expire(t)
    \/ CancelStep
    \/ Sweep \/ SweepStep
    \/ Start \/ Close \/ CloseRunners \/ CloseDone \/ Crash

Spec == Init /\ [][Next]_vars

\* The event loop runs what is ready, threads finish their transactions, the
\* recursion limit ends every graph run, and the container is restarted.
\* asyncio.Lock is first come, first served, so a save is not overtaken for ever.
Fairness ==
    /\ \A m \in Messages : /\ WF_vars(RunnerStep(m))
                           /\ SF_vars(StartSave(m))
                           /\ SF_vars(GraphEnds(m))
    /\ WF_vars(\E w \in writes : CommitSave(w))
    /\ WF_vars(CancelStep)
    /\ WF_vars(SweepStep)
    /\ WF_vars(Start)
    /\ WF_vars(CloseRunners \/ CloseDone)

LiveSpec == Spec /\ Fairness

(***************************************************************************)
(* Properties                                                              *)
(***************************************************************************)
TypeOK ==
    /\ rows \in [Messages -> Row]
    /\ records \in [Messages -> Messages \cup {NoMessage}]
    /\ threads \in [Contexts -> {"unused", "open", "deleted"}]
    /\ checkpoints \in SUBSET Contexts
    /\ server \in {"down", "starting", "up", "closing", "stopping"}
    /\ lock \in {"free", "cancel", "sweep"}
    /\ runners \in [Messages -> Runner]
    /\ current \in [Messages -> Messages \cup {NoMessage}]
    /\ revoked \in SUBSET Messages
    /\ writes \in SUBSET Write
    /\ canceller \in [pc: {"none", "looking", "awaiting", "locking", "saving"},
                      task: Messages \cup {NoMessage}, runner: Messages \cup {NoMessage}]
    /\ sweeper \in [pc: {"none", "pruning", "retiring"},
                    retired: SUBSET Contexts, left: SUBSET Contexts]
    /\ faults \in 0 .. MaxFaults
    /\ launched \in [Messages -> Nat]
    /\ asked \in SUBSET Messages
    /\ disturbed \in SUBSET Messages

\* A message is executed at most once while it is recorded, whoever repeats it
\* and however often the process stops in the middle: device actions may already
\* have happened (README, "Keep the same messageId").
NeverRepeated == \A m \in Messages : launched[m] <= 1

\* Two graphs never run at once in one conversation.
OneExecutionPerContext ==
    \A m, n \in Messages :
        /\ m # n
        /\ runners[m].pc = "graph"
        /\ runners[n].pc = "graph"
        /\ rows[runners[m].task].context = rows[runners[n].task].context
        => {runners[m].task, runners[n].task} \cap disturbed # {}

\* What is admitted runs once, and alone in its conversation.
AdmittedOnce == NeverRepeated /\ OneExecutionPerContext

\* A task that says it is submitted or working has a runner, or a cancel() call
\* that is about to end it: no cancellation, revocation, crash or restart leaves
\* one behind that nobody executes.
ActiveHasRunner ==
    server = "up" =>
        \A t \in Messages \ disturbed :
            rows[t].state \in ACTIVE =>
                \/ \E m \in Messages : Live(m) /\ runners[m].task = t
                \/ canceller.task = t

\* A task that is CANCELED was cancelled by its owner, and not by a shutdown or
\* a revoked key, whose outcome is FAILED.
CanceledByOwner ==
    \A t \in Messages \ disturbed : rows[t].state = "CANCELED" => t \in asked

\* The variables have their types, no active task is left without a runner, and
\* only the owner's cancellation ends a task as CANCELED.
TasksConsistent == TypeOK /\ ActiveHasRunner /\ CanceledByOwner

\* The graph state that a paused task will resume from is there as long as the
\* task can be resumed.
PausedIsResumable ==
    \A t \in Messages :
        Owned(t) /\ rows[t].state \in PAUSED =>
            /\ threads[rows[t].context] = "open"
            /\ rows[t].context \in checkpoints

\* Retention leaves no graph state behind that no thread points at, wherever the
\* process stops (AgentRuntime.sweep: "Checkpoints go before the thread rows").
NoOrphanedCheckpoint == \A c \in checkpoints : threads[c] = "open"

\* Graph state and the tasks that need it are there together: whatever a sweep, a
\* continuation or a crash between its two deletions does.
CheckpointsMatch == PausedIsResumable /\ NoOrphanedCheckpoint

\* A terminal task changes only by being deleted, unless it was disturbed: a
\* cancel() that stopped the runner never overwrites what the runner recorded.
TerminalStays ==
    [][\A t \in Messages \ disturbed' :
         /\ rows[t].state \in Terminal
         /\ rows'[t].state \in RESERVED \cup Terminal
         /\ Owned(t)
         => rows'[t].state = rows[t].state]_vars

\* Every admitted task stops executing, in spite of crashes and restarts.
TaskStops ==
    \A t \in Messages : []<>(rows[t].state \notin ACTIVE \/ t \in disturbed)

=============================================================================
