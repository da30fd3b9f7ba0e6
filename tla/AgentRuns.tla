----------------------------- MODULE AgentRuns -----------------------------
(***************************************************************************)
(* The runs of one chat thread (wotbot/core/agent_runs.py, threads/): a    *)
(* request streams a run of the graph that a task of its own, the pump,    *)
(* executes under the lock of the thread; the registry knows the pump that *)
(* a cancellation reaches; whatever ends a run, a finisher that cannot be  *)
(* cancelled closes the turn it left open.  Deletions and edits of the     *)
(* thread take the same lock.                                              *)
(*                                                                         *)
(* asyncio runs one step at a time, from one await to the next.  A         *)
(* cancellation is delivered at the await the task is in; a task that has  *)
(* not begun never does.                                                   *)
(***************************************************************************)
EXTENDS Naturals, Sequences, FiniteSets, Functions

CONSTANTS
    Runs,           \* requests for a run, in progress or to come
    Nobody,
    MaxCalls,       \* bound: tool calls of one run
    MaxChanges      \* bound: deletions, edits and renamings of the thread, failing
                    \* finishers and stops of the process

ASSUME AgentRunsAssumption ==
    /\ Nobody \notin Runs
    /\ {MaxCalls, MaxChanges} \subseteq Nat

VARIABLES
    messages,       \* the checkpoint: the messages of the thread
    interrupt,      \* the run that stopped at a question and waits in the checkpoint
    snapshots,      \* the history of the checkpoint: the messages there were before those
                    \* of the users
    row,            \* table threads
    lock,           \* _thread_locks: who holds the lock, and who waits for it, in order
    registered,     \* _tasks: the run of the thread
    mode,           \* whether a request brings a message or an answer to a question
    pump, finisher, stream,
    cancelled,      \* a CancelledError is on its way to the pump
    partial,        \* _PartialAssistantText: there is text of an unfinished answer
    deletion,       \* DELETE /threads/{id}: its step, and the run it waits for
    edit,           \* POST /threads/{id}/runs/fork: whether it waits for the lock, and
                    \* the run whose message is edited
    changes,
    erased,         \* history: the runs that the last deletion was asked to take with it,
                    \* none when the process stopped before it was done
    unrepaired      \* history: the last turn lost its finisher

checkpoint == <<messages, interrupt, snapshots>>
tasks == <<registered, mode, pump, finisher, stream, cancelled, partial>>
mutations == <<deletion, edit, changes>>
history == <<erased, unrepaired>>
vars == <<checkpoint, row, lock, tasks, mutations, history>>

\* "closing" is the answer with which a repair closes a turn.
Message == [kind : {"human", "call", "result", "answer", "closing"}, by : Runs \cup {Nobody}]

\* The message of the user in the run of, and what it was added to.
Snapshot == [of : Runs, before : Seq(Message)]

Users == {<<"run", r>> : r \in Runs} \cup {<<"finish", r>> : r \in Runs}
            \cup {<<"delete", Nobody>>, <<"edit", Nobody>>}

TypeOK ==
    /\ messages \in Seq(Message)
    /\ interrupt \in Runs \cup {Nobody}
    /\ snapshots \subseteq Snapshot
    /\ row \in {"absent", "New Chat", "titled"}
    /\ lock \in Seq(Users) /\ IsInjective(lock)
    /\ registered \in Runs \cup {Nobody}
    /\ mode \in [Runs -> {"message", "resume"}]
    /\ pump \in [Runs -> {"none", "created", "healing", "input", "running", "over",
                          "finishing", "done", "stillborn"}]
    /\ finisher \in [Runs -> {"none", "completed", "interrupted", "repairing", "syncing"}]
    /\ stream \in [Runs -> {"none", "open", "refused", "closing", "done"}]
    /\ cancelled \in [Runs -> BOOLEAN]
    /\ partial \in [Runs -> BOOLEAN]
    /\ deletion \in [step : {"idle", "cancelling", "waiting", "erased"},
                     run : Runs \cup {Nobody}]
    /\ edit \in [waiting : BOOLEAN, of : Runs \cup {Nobody}]
    /\ changes \in 0..MaxChanges
    /\ erased \subseteq Runs /\ unrepaired \in BOOLEAN

NoDeletion == [step |-> "idle", run |-> Nobody]
NoEdit == [waiting |-> FALSE, of |-> Nobody]

Init ==
    /\ messages = <<>> /\ interrupt = Nobody /\ snapshots = {}
    /\ row = "New Chat"
    /\ lock = <<>> /\ registered = Nobody
    /\ mode = [r \in Runs |-> "message"]
    /\ pump = [r \in Runs |-> "none"] /\ finisher = [r \in Runs |-> "none"]
    /\ stream = [r \in Runs |-> "none"]
    /\ cancelled = [r \in Runs |-> FALSE] /\ partial = [r \in Runs |-> FALSE]
    /\ deletion = NoDeletion /\ edit = NoEdit
    /\ changes = 0
    /\ erased = {} /\ unrepaired = FALSE

\* One of the changes that are bounded.
Changes == changes < MaxChanges /\ changes' = changes + 1

(***************************************************************************)
(* The lock of the thread: first come, first served                        *)
(***************************************************************************)
Holds(u) == lock # <<>> /\ lock[1] = u

Enter(u) == lock' = Append(lock, u)

\* Who stood behind the one that leaves moves up.
Without(queue, u) ==
    [i \in 1..(Len(queue) - 1) |-> IF \E j \in 1..i : queue[j] = u THEN queue[i + 1] ELSE queue[i]]

Leave(u) == lock' = Without(lock, u)

(***************************************************************************)
(* Closing the last turn                                                   *)
(***************************************************************************)
\* The last message of a user, and what came after it.
LastTurn(ms) == {i \in DOMAIN ms : \A h \in DOMAIN ms : ms[h].kind = "human" => h <= i}

Closed(ms) ==
    \/ \A i \in DOMAIN ms : ms[i].kind # "human"
    \/ \E i \in LastTurn(ms) : ms[i].kind \in {"answer", "closing"}

\* There is a call without a result.
Unanswered(ms) ==
    \E i \in LastTurn(ms) :
        /\ ms[i].kind = "call"
        /\ \A j \in LastTurn(ms) : j > i => ms[j].kind # "result"

\* Calls get the result "stopped", and the turn an answer: a notice, or the text that
\* had come of it.
Closing(ms, by) ==
    IF Closed(ms) THEN ms
    ELSE Append(IF Unanswered(ms) THEN Append(ms, [kind |-> "result", by |-> Nobody]) ELSE ms,
                [kind |-> "closing", by |-> by])

CloseTurn(by) ==
    /\ messages' = Closing(messages, by)
    /\ interrupt' = IF Closed(messages) THEN interrupt ELSE Nobody
    /\ unrepaired' = FALSE
    /\ UNCHANGED snapshots

(***************************************************************************)
(* A request for a run.  The pump is created before the registry is asked. *)
(***************************************************************************)
Live(r) == r # Nobody /\ pump[r] \notin {"none", "done", "stillborn"}

\* Mutant: a second request is not refused.
StartRunAnyway(r) ==
    /\ stream[r] = "none"
    /\ \E m \in {"message", "resume"} : mode' = [mode EXCEPT ![r] = m]
    /\ pump' = [pump EXCEPT ![r] = "created"]
    /\ stream' = [stream EXCEPT ![r] = "open"]
    /\ registered' = r
    /\ UNCHANGED <<checkpoint, row, lock, finisher, cancelled, partial, mutations, history>>

StartRun(r) ==
    /\ stream[r] = "none"
    /\ \E m \in {"message", "resume"} : mode' = [mode EXCEPT ![r] = m]
    /\ pump' = [pump EXCEPT ![r] = "created"]
    /\ IF Live(registered)
       THEN /\ stream' = [stream EXCEPT ![r] = "refused"]
            /\ cancelled' = [cancelled EXCEPT ![r] = TRUE]
            /\ UNCHANGED registered
       ELSE /\ stream' = [stream EXCEPT ![r] = "open"]
            /\ registered' = r
            /\ UNCHANGED cancelled
    /\ UNCHANGED <<checkpoint, row, lock, finisher, partial, mutations, history>>

Stillborn(r) ==
    /\ pump[r] = "created" /\ cancelled[r]
    /\ pump' = [pump EXCEPT ![r] = "stillborn"]
    /\ cancelled' = [cancelled EXCEPT ![r] = FALSE]
    /\ UNCHANGED <<checkpoint, row, lock, registered, mode, finisher, stream, partial,
                   mutations, history>>

\* An answer to a question goes on with the turn that is open; it is not healed.
Begin(r) ==
    /\ pump[r] = "created" /\ ~cancelled[r]
    /\ pump' = [pump EXCEPT ![r] = IF mode[r] = "resume" THEN "input" ELSE "healing"]
    /\ Enter(<<"run", r>>)
    /\ UNCHANGED <<checkpoint, row, registered, mode, finisher, stream, cancelled, partial,
                   mutations, history>>

Executing(r) == Holds(<<"run", r>>) /\ ~cancelled[r]

Goes(r, to) ==
    /\ pump' = [pump EXCEPT ![r] = to]
    /\ UNCHANGED <<row, lock, registered, mode, finisher, stream, cancelled, mutations, erased>>

Heal(r) ==
    /\ pump[r] = "healing" /\ Executing(r)
    /\ CloseTurn(Nobody)
    /\ Goes(r, "input")
    /\ UNCHANGED partial

Say(r, kind) == messages' = Append(messages, [kind |-> kind, by |-> r])

Input(r) ==
    /\ pump[r] = "input" /\ Executing(r)
    /\ \/ mode[r] = "message" /\ Say(r, "human") /\ Goes(r, "running")
       \/ mode[r] = "resume" /\ interrupt # Nobody /\ Say(r, "result") /\ Goes(r, "running")
       \/ mode[r] = "resume" /\ interrupt = Nobody /\ UNCHANGED messages /\ Goes(r, "over")
    /\ interrupt' = Nobody
    /\ snapshots' = IF mode[r] = "message"
                    THEN snapshots \cup {[of |-> r, before |-> messages]} ELSE snapshots
    /\ UNCHANGED <<partial, unrepaired>>

\* The model streams an answer, and the graph stores it when it is complete.
Streams(r) ==
    /\ pump[r] = "running" /\ Executing(r) /\ ~Unanswered(messages)
    /\ partial' = [partial EXCEPT ![r] = TRUE]
    /\ Goes(r, "running")
    /\ UNCHANGED <<checkpoint, unrepaired>>

CallsBy(r) == Cardinality({i \in DOMAIN messages : messages[i] = [kind |-> "call", by |-> r]})

ModelCalls(r) ==
    /\ pump[r] = "running" /\ Executing(r) /\ ~Unanswered(messages)
    /\ CallsBy(r) < MaxCalls
    /\ Say(r, "call")
    /\ partial' = [partial EXCEPT ![r] = FALSE]
    /\ Goes(r, "running")
    /\ UNCHANGED <<interrupt, snapshots, unrepaired>>

ModelAnswers(r) ==
    /\ pump[r] = "running" /\ Executing(r) /\ ~Unanswered(messages)
    /\ Say(r, "answer")
    /\ partial' = [partial EXCEPT ![r] = FALSE]
    /\ Goes(r, "over")
    /\ UNCHANGED <<interrupt, snapshots, unrepaired>>

ToolReturns(r) ==
    /\ pump[r] = "running" /\ Executing(r) /\ Unanswered(messages)
    /\ Say(r, "result")
    /\ Goes(r, "running")
    /\ UNCHANGED <<interrupt, snapshots, partial, unrepaired>>

\* The graph stops at a call that asks the user, and leaves the turn open.
Asks(r) ==
    /\ pump[r] = "running" /\ Executing(r) /\ Unanswered(messages)
    /\ interrupt' = r
    /\ Goes(r, "over")
    /\ UNCHANGED <<messages, snapshots, partial, unrepaired>>

(***************************************************************************)
(* The end of a run                                                        *)
(***************************************************************************)
Finish(r, how) ==
    /\ pump' = [pump EXCEPT ![r] = "finishing"]
    /\ finisher' = [finisher EXCEPT ![r] = how]
    /\ cancelled' = [cancelled EXCEPT ![r] = FALSE]
    /\ Leave(<<"run", r>>)
    /\ UNCHANGED <<checkpoint, row, registered, mode, stream, partial, mutations, history>>

Complete(r) == pump[r] = "over" /\ Executing(r) /\ Finish(r, "completed")

GraphFails(r) == pump[r] \in {"healing", "input", "running"} /\ Executing(r)
                    /\ Finish(r, "interrupted")

Interrupted(r) == pump[r] \in {"healing", "input", "running", "over"} /\ cancelled[r]
                    /\ Finish(r, "interrupted")

FinishBegins(r) ==
    /\ finisher[r] \in {"completed", "interrupted"}
    /\ finisher' = [finisher EXCEPT ![r] = IF @ = "completed" THEN "syncing" ELSE "repairing"]
    /\ Enter(<<"finish", r>>)
    /\ UNCHANGED <<checkpoint, row, registered, mode, pump, stream, cancelled, partial,
                   mutations, history>>

Repairing(r) == finisher[r] = "repairing" /\ Holds(<<"finish", r>>)

Repair(r) ==
    /\ Repairing(r)
    /\ CloseTurn(IF partial[r] THEN r ELSE Nobody)
    /\ finisher' = [finisher EXCEPT ![r] = "syncing"]
    /\ UNCHANGED <<row, lock, registered, mode, pump, stream, cancelled, partial, mutations, erased>>

Finished(r) ==
    /\ finisher' = [finisher EXCEPT ![r] = "none"]
    /\ pump' = [pump EXCEPT ![r] = "done"]
    /\ Leave(<<"finish", r>>)
    /\ UNCHANGED <<checkpoint, registered, mode, stream, cancelled, partial, deletion, edit,
                   erased>>

TitleSuggested == \E i \in DOMAIN messages : messages[i].kind = "human"

\* The title is derived from the last message of the user, once.
Sync(r) ==
    /\ finisher[r] = "syncing" /\ Holds(<<"finish", r>>)
    /\ row' = IF row = "New Chat" /\ TitleSuggested THEN "titled" ELSE row
    /\ Finished(r)
    /\ UNCHANGED <<changes, unrepaired>>

\* Mutant: the end of the stream is not queued when the finisher fails.
FinishFailsSilently(r) ==
    /\ finisher[r] \in {"repairing", "syncing"} /\ Holds(<<"finish", r>>)
    /\ Changes
    /\ unrepaired' = (unrepaired \/ finisher[r] = "repairing")
    /\ finisher' = [finisher EXCEPT ![r] = "none"]
    /\ Leave(<<"finish", r>>)
    /\ UNCHANGED <<checkpoint, row, registered, mode, pump, stream, cancelled, partial,
                   deletion, edit, erased>>

\* What fails in the finisher is logged, and the stream ends all the same.
FinishFails(r) ==
    /\ finisher[r] \in {"repairing", "syncing"} /\ Holds(<<"finish", r>>)
    /\ Changes
    /\ unrepaired' = (unrepaired \/ finisher[r] = "repairing")
    /\ Finished(r)
    /\ UNCHANGED row

(***************************************************************************)
(* The stream of a request, and cancellation.  A pump that is finishing    *)
(* takes no notice of one.                                                 *)
(***************************************************************************)
Cancellable(r) == pump[r] \in {"created", "healing", "input", "running", "over"}

Cancel(r) == cancelled' = [cancelled EXCEPT ![r] = @ \/ Cancellable(r)]

\* Mutant: whoever ends clears the registry.
UnregisterAny(r) == registered' = Nobody

Unregister(r) == registered' = IF registered = r THEN Nobody ELSE registered

Closes(r, to) ==
    /\ stream' = [stream EXCEPT ![r] = to]
    /\ UNCHANGED <<checkpoint, row, lock, mode, pump, finisher, partial, mutations, history>>

StreamEnds(r) ==
    /\ stream[r] = "open" /\ pump[r] = "done"
    /\ Closes(r, "done") /\ Unregister(r)
    /\ UNCHANGED cancelled

Disconnect(r) ==
    /\ stream[r] = "open" /\ pump[r] # "done"
    /\ Closes(r, "closing") /\ Unregister(r)
    /\ Cancel(r)

StreamCloses(r) ==
    /\ stream[r] = "closing" /\ ~Live(r)
    /\ Closes(r, "done")
    /\ UNCHANGED <<registered, cancelled>>

CancelRun ==
    /\ Live(registered)
    /\ Cancel(registered)
    /\ UNCHANGED <<checkpoint, row, lock, registered, mode, pump, finisher, stream, partial,
                   mutations, history>>

(***************************************************************************)
(* Deletion: cancel, wait for the finisher, and take the lock.  A run that *)
(* a disconnected client left behind is not known to the registry any more *)
(***************************************************************************)

DeleteBegins ==
    /\ deletion = NoDeletion /\ Changes
    /\ erased' = {r \in Runs : pump[r] # "none"}
    /\ IF Live(registered)
       THEN /\ deletion' = [step |-> "cancelling", run |-> registered]
            /\ Cancel(registered)
            /\ UNCHANGED lock
       ELSE /\ deletion' = [step |-> "waiting", run |-> Nobody]
            /\ Enter(<<"delete", Nobody>>)
            /\ UNCHANGED cancelled
    /\ UNCHANGED <<checkpoint, row, registered, mode, pump, finisher, stream, partial, edit,
                   unrepaired>>

DeleteWaited ==
    /\ deletion.step = "cancelling" /\ ~Live(deletion.run)
    /\ deletion' = [step |-> "waiting", run |-> Nobody]
    /\ Enter(<<"delete", Nobody>>)
    /\ UNCHANGED <<checkpoint, row, tasks, edit, changes, history>>

DeleteCheckpoint ==
    /\ deletion.step = "waiting" /\ Holds(<<"delete", Nobody>>)
    /\ messages' = <<>> /\ interrupt' = Nobody /\ snapshots' = {}
    /\ deletion' = [deletion EXCEPT !.step = "erased"]
    /\ unrepaired' = FALSE
    /\ UNCHANGED <<row, lock, tasks, edit, changes, erased>>

DeleteRow ==
    /\ deletion.step = "erased"
    /\ row' = "absent"
    /\ deletion' = NoDeletion
    /\ Leave(<<"delete", Nobody>>)
    /\ UNCHANGED <<checkpoint, tasks, edit, changes, history>>

(***************************************************************************)
(* Editing a message rewinds the thread to what it was before that         *)
(* message.  Creating and renaming a thread do not take the lock.          *)
(***************************************************************************)
EditBegins(r) ==
    /\ edit = NoEdit /\ Changes
    /\ ~Live(registered)
    /\ edit' = [waiting |-> TRUE, of |-> r]
    /\ Enter(<<"edit", Nobody>>)
    /\ UNCHANGED <<checkpoint, row, tasks, deletion, history>>

Rewind ==
    /\ edit.waiting /\ Holds(<<"edit", Nobody>>)
    /\ \/ /\ ~Live(registered)
          /\ \E s \in snapshots : s.of = edit.of /\ messages' = s.before
          /\ interrupt' = Nobody
          /\ unrepaired' = FALSE
       \/ /\ Live(registered) \/ \A s \in snapshots : s.of # edit.of
          /\ UNCHANGED <<messages, interrupt, unrepaired>>
    /\ edit' = NoEdit
    /\ Leave(<<"edit", Nobody>>)
    /\ UNCHANGED <<snapshots, row, tasks, deletion, changes, erased>>

Rename ==
    /\ row # "titled" /\ Changes
    /\ row' \in (IF row = "absent" THEN {"New Chat", "titled"} ELSE {"titled"})
    /\ UNCHANGED <<checkpoint, lock, tasks, deletion, edit, history>>

(***************************************************************************)
(* The process stops, and everything but the database is gone              *)
(***************************************************************************)
ProcessStops ==
    LET lost == {r \in Runs : pump[r] # "none"} IN
    /\ Changes
    /\ lost # {}
    /\ lock' = <<>> /\ registered' = Nobody
    /\ pump' = [r \in Runs |-> IF r \in lost THEN "done" ELSE "none"]
    /\ stream' = [r \in Runs |-> IF r \in lost THEN "done" ELSE "none"]
    /\ finisher' = [r \in Runs |-> "none"]
    /\ cancelled' = [r \in Runs |-> FALSE]
    /\ deletion' = NoDeletion /\ edit' = NoEdit
    /\ erased' = IF deletion = NoDeletion THEN erased ELSE {}
    /\ unrepaired' = TRUE
    /\ UNCHANGED <<checkpoint, row, mode, partial>>

Pump(r) ==
    \/ Stillborn(r) \/ Begin(r) \/ Heal(r) \/ Input(r)
    \/ ModelAnswers(r) \/ ToolReturns(r) \/ Asks(r)
    \/ Complete(r) \/ Interrupted(r)

Finisher(r) == FinishBegins(r) \/ Repair(r) \/ Sync(r)

Stream(r) == StreamEnds(r) \/ StreamCloses(r)

Task(r) == Pump(r) \/ Finisher(r) \/ Stream(r)

Mutations == DeleteWaited \/ DeleteCheckpoint \/ DeleteRow \/ Rewind

Next ==
    \/ \E r \in Runs :
          \/ StartRun(r) \/ Task(r) \/ Streams(r) \/ ModelCalls(r) \/ GraphFails(r)
          \/ FinishFails(r) \/ Disconnect(r) \/ EditBegins(r)
    \/ CancelRun \/ DeleteBegins \/ Mutations \/ Rename \/ ProcessStops

\* Tasks go on, and models and tools answer: the graph bounds its steps, and its clients
\* their waiting.  Nobody has to ask for anything, or to disconnect.
Fairness ==
    /\ \A r \in Runs : WF_vars(Task(r))
    /\ WF_vars(Mutations)

Spec == Init /\ [][Next]_vars /\ Fairness

(***************************************************************************)
(* Properties                                                              *)
(***************************************************************************)
\* A turn is answered once, at its end, and each of its calls has one result, whoever of
\* the run, its finisher, the finisher of an earlier run and the healing of a later one
\* closes it (_interrupted_turn_updates is idempotent, core/agent_runs.py:212-214).
ClosedOnce ==
    \A i \in DOMAIN messages :
        /\ messages[i].kind \in {"answer", "closing"} =>
              i = Len(messages) \/ messages[i + 1].kind = "human"
        /\ messages[i].kind = "call" => i = Len(messages) \/ messages[i + 1].kind = "result"
        /\ messages[i].kind = "result" => i > 1 /\ messages[i - 1].kind = "call"

\* A turn is left open only where the graph stopped to ask: when no run is in progress,
\* whatever was cancelled, disconnected, refused or failed, the last turn is closed or
\* waits for an answer.  Excepted are a finisher that failed and a stop of the process,
\* until the next run heals the turn (core/agent_runs.py:353-364).
TurnsEnd ==
    (\A r \in Runs : ~Live(r)) /\ ~unrepaired => Closed(messages) \/ interrupt # Nobody

\* While a client is connected its run is the one that a cancellation reaches: no refused
\* request and no end of another stream takes its place in the registry
\* (RunRegistry.register, unregister).
CancelReaches == \A r \in Runs : stream[r] = "open" /\ Live(r) => registered = r

\* What a deletion was asked to take does not come back: no run that was there when it
\* began writes a step of the graph to the thread after it ("otherwise the chat can
\* reappear", threads/routes.py:278-280).
DeletedIsGone ==
    deletion = NoDeletion /\ row = "absent" =>
        \A i \in DOMAIN messages : messages[i].kind = "closing" \/ messages[i].by \notin erased

\* The variables have their types, the registry the run of the connected client, and the
\* turns of a thread are closed once, left open only to ask, and gone when they are deleted.
RunsConsistent == TypeOK /\ CancelReaches /\ ClosedOnce /\ TurnsEnd /\ DeletedIsGone

Took(r) == \E i \in DOMAIN messages : messages[i].by = r

InLastTurn(r) == \E i \in LastTurn(messages) : messages[i].by = r

\* The finisher of a run whose client is connected closes that run's own turn, and never
\* that of a run that came after it.
NoLateRepair == \A r \in Runs : Repairing(r) /\ stream[r] = "open" /\ Took(r) => InLastTurn(r)

\* The stream of every request ends, also when its run is cancelled, its finisher fails or
\* its client goes away; but one whose run was cancelled before its first step has nobody
\* to end it (stream_run_events).
Hangs(r) == stream[r] = "open" /\ pump[r] = "stillborn"

StreamsEnd == []<>(\A r \in Runs : stream[r] \in {"open", "closing"} => Hangs(r))
=============================================================================
