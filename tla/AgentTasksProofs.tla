-------------------------- MODULE AgentTasksProofs --------------------------
(***************************************************************************)
(* Theorems about AgentTasks, for any number of messages, contexts and     *)
(* faults.  A task is alone when it is not disturbed; what is proved of    *)
(* such a task is proved one part of the invariant at a time, each part    *)
(* from the ones before it.                                                *)
(***************************************************************************)
EXTENDS AgentTasks, TLAPS

(***************************************************************************)
(* The inductive invariant                                                 *)
(***************************************************************************)
Alone(t) == t \notin disturbed

\* Who holds the admission lock, and a process that serves nobody runs nothing.
LockHeld ==
    /\ canceller.pc # "none" => lock = "cancel"
    /\ sweeper.pc # "none" => lock = "sweep"
    /\ canceller.pc = "none" <=> canceller.task = NoMessage
    /\ canceller.pc = "awaiting" => canceller.runner \in Messages
    /\ server \in {"down", "starting"} => canceller.pc = "none" /\ \A m \in Messages : ~Live(m)

\* Rows that somebody still works on are neither deleted nor expired.
RowsKept ==
    /\ \A t \in Messages : rows[t].state = "none" => rows[t].context = NoContext
    /\ \A t \in Messages : rows[t].state # "none" =>
          rows[t].context \in Contexts /\ threads[rows[t].context] = "open"
    /\ \A m \in Messages : IF Live(m) THEN runners[m].task \in Messages /\ Owned(runners[m].task)
                           ELSE runners[m].task = NoMessage
    /\ \A w \in writes : Owned(w.task)
    /\ canceller.task # NoMessage => Owned(canceller.task)

\* A message that is recorded has the row of its task, and was launched once.
RecordsKept ==
    \A m \in Messages :
       IF records[m] = NoMessage THEN launched[m] = 0
       ELSE launched[m] <= 1 /\ rows[records[m]].state # "none"

\* A thread that the sweep retires has no task, and its checkpoint goes first.
ContextsKept ==
    /\ sweeper.pc = "retiring" =>
         /\ \A c \in sweeper.retired, t \in Messages : rows[t].context # c
         /\ sweeper.left \subseteq sweeper.retired
         /\ \A c \in sweeper.retired \ sweeper.left : c \notin checkpoints
    /\ NoOrphanedCheckpoint

\* The checkpoint is there before anybody says that a task is paused.
PausedKept ==
    /\ \A t \in Messages : rows[t].state \in PAUSED => rows[t].context \in checkpoints
    /\ \A w \in writes : w.state \in PAUSED => rows[w.task].context \in checkpoints
    /\ \A m \in Messages : Live(m) /\ runners[m].state \in PAUSED =>
          rows[runners[m].task].context \in checkpoints

\* The empty records have their types.
LEMMA EmptyRows == NoRow \in Row /\ NoRunner \in Runner
BY DEF NoRow, Row, NoRunner, Runner, ACTIVE, PAUSED, RESERVED, Terminal

\* What changes when the record of one runner changes.
LEMMA OneRunnerChanges ==
    ASSUME TypeOK, NEW m \in Messages, NEW r \in Runner,
           runners' = [runners EXCEPT ![m] = r]
    PROVE  /\ runners' \in [Messages -> Runner]
           /\ runners'[m] = r
           /\ \A n \in Messages : n # m => runners'[n] = runners[n]
BY DEF TypeOK

\* What admitting a message changes in the process.
LEMMA LaunchStep ==
    ASSUME TypeOK, NEW m \in Messages, NEW t \in Messages, Launch(m, t), Record(m, t)
    PROVE  /\ runners' \in [Messages -> Runner]
           /\ ~Live(m)
           /\ runners'[m].pc = "locking" /\ runners'[m].task = t /\ runners'[m].state = "WORKING"
           /\ ~runners'[m].handling /\ ~runners'[m].failed /\ ~runners'[m].cancelling
           /\ \A n \in Messages : n # m => runners'[n] = runners[n]
           /\ current' \in [Messages -> Messages \cup {NoMessage}]
           /\ records' \in [Messages -> Messages \cup {NoMessage}]
           /\ launched' \in [Messages -> Nat]
           /\ asked' \in SUBSET Messages
           /\ disturbed' \in SUBSET Messages
<1> DEFINE r == [NoRunner EXCEPT !.pc = "locking", !.task = t, !.watched = TRUE]
<1>1. /\ r \in Runner /\ r.pc = "locking" /\ r.task = t /\ r.state = "WORKING"
      /\ ~r.handling /\ ~r.failed /\ ~r.cancelling
  BY EmptyRows DEF Runner, NoRunner
<1>2. launched' \in [Messages -> Nat]
  BY DEF TypeOK, Launch
<1>3. runners' = [runners EXCEPT ![m] = r] /\ ~Live(m)
  BY DEF Launch
<1> HIDE DEF r
<1>4. /\ runners' \in [Messages -> Runner] /\ runners'[m] = r
      /\ \A n \in Messages : n # m => runners'[n] = runners[n]
  BY <1>1, <1>3, OneRunnerChanges
<1> QED
  BY <1>1, <1>2, <1>3, <1>4 DEF TypeOK, Launch, Record

\* A runner starts a save: what changes in its record.
LEMMA StartSaveStep ==
    ASSUME TypeOK, NEW m \in Messages, StartSave(m)
    PROVE  /\ runners' \in [Messages -> Runner]
           /\ runners[m].pc = "locking" /\ ~runners[m].cancelling
           /\ runners'[m].pc = "saving" /\ ~runners'[m].failed
           /\ runners'[m].task = runners[m].task
           /\ runners'[m].state = runners[m].state
           /\ runners'[m].handling = runners[m].handling
           /\ ~runners'[m].cancelling
           /\ \A n \in Messages : n # m => runners'[n] = runners[n]
<1> DEFINE r == [runners[m] EXCEPT !.pc = "saving", !.failed = FALSE]
<1>1. runners[m] \in Runner
  BY DEF TypeOK
<1>2. /\ r \in Runner /\ r.pc = "saving" /\ ~r.failed /\ r.task = runners[m].task
         /\ r.state = runners[m].state
      /\ r.handling = runners[m].handling /\ r.cancelling = runners[m].cancelling
  BY <1>1 DEF Runner
<1>3. runners' = [runners EXCEPT ![m] = r]
  BY <1>1 DEF StartSave, TypeOK, Runner
<1>4. runners[m].pc = "locking" /\ ~runners[m].cancelling
  BY DEF StartSave
<1> HIDE DEF r
<1> QED
  BY <1>2, <1>3, <1>4, OneRunnerChanges

\* A save commits: one row takes its state, or the save is refused and its runner
\* learns of it.
LEMMA CommitSaveStep ==
    ASSUME TypeOK, NEW w \in writes, CommitSave(w)
    PROVE  /\ runners' \in [Messages -> Runner]
           /\ rows' \in [Messages -> Row]
           /\ \A n \in Messages : /\ runners'[n].pc = runners[n].pc
                                  /\ runners'[n].task = runners[n].task
                                  /\ runners'[n].state = runners[n].state
                                  /\ runners'[n].handling = runners[n].handling
                                  /\ runners'[n].cancelling = runners[n].cancelling
                                  /\ (runners'[n].failed # runners[n].failed) => n = w.by
                                     /\ w.awaited /\ runners'[n].failed
           /\ \/ /\ Owned(w.task)
                 /\ w.state \in RESERVED => ~ContextReserved(rows[w.task].context, {w.task})
                 /\ rows'[w.task].state = w.state
                 /\ rows'[w.task].context = rows[w.task].context
                 /\ rows'[w.task].expired = rows[w.task].expired
                 /\ \A t \in Messages : t # w.task => rows'[t] = rows[t]
                 /\ runners' = runners
              \/ /\ ~Owned(w.task) \/ w.state \in RESERVED
                 /\ rows' = rows
                 /\ w.awaited /\ w.by \in Messages => runners'[w.by].failed
<1>0. w \in Write
  BY DEF TypeOK
<1> DEFINE accepted == /\ Owned(w.task)
                       /\ w.state \in RESERVED => ~ContextReserved(rows[w.task].context, {w.task})
<1>1. CASE accepted
  <2> DEFINE row == [rows[w.task] EXCEPT !.state = w.state]
  <2>1. rows[w.task] \in Row /\ w.state \in RESERVED \cup Terminal /\ w.task \in Messages
    BY <1>0 DEF TypeOK, Write
  <2>2. row \in Row /\ row.state = w.state /\ row.context = rows[w.task].context
        /\ row.expired = rows[w.task].expired
    BY <2>1 DEF Row
  <2>3. rows' = [rows EXCEPT ![w.task] = row] /\ runners' = runners
    BY <1>1, <2>1 DEF CommitSave, TypeOK, Row
  <2> HIDE DEF row
  <2>4. rows' \in [Messages -> Row] /\ rows'[w.task] = row /\ \A t \in Messages : t # w.task =>
           rows'[t] = rows[t]
    BY <2>1, <2>2, <2>3 DEF TypeOK
  <2> QED
    BY <1>1, <2>2, <2>3, <2>4 DEF TypeOK
<1>2. CASE ~accepted /\ w.awaited /\ w.by \in Messages
  <2> DEFINE r == [runners[w.by] EXCEPT !.failed = TRUE]
  <2>1. runners[w.by] \in Runner
    BY <1>2 DEF TypeOK
  <2>2. r \in Runner /\ r.failed /\ r.pc = runners[w.by].pc /\ r.task = runners[w.by].task
        /\ r.state = runners[w.by].state /\ r.handling = runners[w.by].handling
           /\ r.cancelling = runners[w.by].cancelling
    BY <2>1 DEF Runner
  <2>3. runners' = [runners EXCEPT ![w.by] = r] /\ rows' = rows
    BY <1>2, <2>1 DEF CommitSave, TypeOK, Runner
  <2> HIDE DEF r
  <2>4. runners' \in [Messages -> Runner] /\ runners'[w.by] = r /\ \A n \in Messages : n # w.by =>
           runners'[n] = runners[n]
    BY <1>2, <2>2, <2>3, OneRunnerChanges
  <2> QED
    BY <1>2, <2>2, <2>3, <2>4 DEF TypeOK
<1>3. CASE ~accepted /\ ~(w.awaited /\ w.by \in Messages)
  <2>1. rows' = rows /\ runners' = runners
    BY <1>3 DEF CommitSave
  <2> QED
    BY <1>3, <2>1 DEF TypeOK
<1> QED
  BY <1>1, <1>2, <1>3

\* A save returned: the runner goes on, records the failure, or ends.
LEMMA SaveReturnsStep ==
    ASSUME TypeOK, NEW m \in Messages, SaveReturns(m)
    PROVE  /\ runners' \in [Messages -> Runner]
           /\ \A n \in Messages : n # m => runners'[n] = runners[n]
           /\ runners[m].pc = "saving" /\ ~runners[m].cancelling /\ ~Awaiting(m)
           /\ runners'[m].task = runners[m].task /\ ~runners'[m].cancelling
           /\ \/ /\ runners[m].failed /\ ~runners[m].handling
                 /\ runners'[m].pc = "locking" /\ runners'[m].state = "FAILED"
                    /\ runners'[m].handling
              \/ /\ ~(runners[m].failed /\ ~runners[m].handling)
                 /\ runners[m].state = "WORKING" /\ ~runners[m].handling
                 /\ runners'[m].pc = "graph" /\ runners'[m].state = runners[m].state
                    /\ ~runners'[m].handling
              \/ /\ ~(runners[m].failed /\ ~runners[m].handling)
                 /\ ~(runners[m].state = "WORKING" /\ ~runners[m].handling)
                 /\ runners'[m].pc = "ending" /\ runners'[m].state = runners[m].state
                    /\ runners'[m].handling = runners[m].handling
<1> DEFINE o == runners[m]
           r == IF o.failed /\ ~o.handling
              THEN [o EXCEPT !.pc = "locking", !.state = "FAILED", !.handling = TRUE]
              ELSE IF o.state = "WORKING" /\ ~o.handling
              THEN [o EXCEPT !.pc = "graph"]
              ELSE [o EXCEPT !.pc = "ending"]
<1>1. o \in Runner
  BY DEF TypeOK
<1>2. runners' = [runners EXCEPT ![m] = r] /\ o.pc = "saving" /\ ~o.cancelling /\ ~Awaiting(m)
  BY DEF SaveReturns
<1>3. r \in Runner
  <2> HIDE DEF o
  <2> QED
  BY <1>1 DEF Runner, Terminal
<1>4.      /\ r.task = o.task /\ r.cancelling = o.cancelling
           /\ \/ /\ o.failed /\ ~o.handling
                 /\ r.pc = "locking" /\ r.state = "FAILED" /\ r.handling
              \/ /\ ~(o.failed /\ ~o.handling)
                 /\ o.state = "WORKING" /\ ~o.handling
                 /\ r.pc = "graph" /\ r.state = o.state /\ ~r.handling
              \/ /\ ~(o.failed /\ ~o.handling)
                 /\ ~(o.state = "WORKING" /\ ~o.handling)
                 /\ r.pc = "ending" /\ r.state = o.state /\ r.handling = o.handling
  <2> HIDE DEF o
  <2> QED
  BY <1>1 DEF Runner, Terminal
<1> HIDE DEF r
<1> QED
  BY <1>2, <1>3, <1>4, OneRunnerChanges

\* The graph ran a step: what the runner will record.
LEMMA GraphStepStep ==
    ASSUME TypeOK, NEW m \in Messages, NEW outcome \in GraphOutcomes, GraphStep(m, outcome)
    PROVE  /\ runners' \in [Messages -> Runner]
           /\ \A n \in Messages : n # m => runners'[n] = runners[n]
           /\ runners[m].pc = "graph" /\ ~runners[m].cancelling
           /\ runners'[m].task = runners[m].task /\ ~runners'[m].cancelling
           /\ runners'[m].pc = "locking"
           /\ runners'[m].state \in {"WORKING", "INPUT_REQUIRED", "COMPLETED", "FAILED"}
           /\ runners'[m].handling => runners'[m].state = "FAILED"
<1> DEFINE o == runners[m]
           r == [o EXCEPT !.pc = "locking", !.state = outcome[1], !.handling = outcome[2]]
<1>1. o \in Runner
  BY DEF TypeOK
<1>0. /\ outcome[1] \in {"WORKING", "INPUT_REQUIRED", "COMPLETED", "FAILED"}
      /\ outcome[2] \in BOOLEAN
      /\ outcome[2] => outcome[1] = "FAILED"
  <2>1. CASE outcome = <<"WORKING", FALSE>>
    BY <2>1
  <2>2. CASE outcome = <<"INPUT_REQUIRED", FALSE>>
    BY <2>2
  <2>3. CASE outcome = <<"COMPLETED", FALSE>>
    BY <2>3
  <2>4. CASE outcome = <<"FAILED", FALSE>>
    BY <2>4
  <2>5. CASE outcome = <<"FAILED", TRUE>>
    BY <2>5
  <2> QED
    BY <2>1, <2>2, <2>3, <2>4, <2>5 DEF GraphOutcomes
<1>2. runners' = [runners EXCEPT ![m] = r] /\ o.pc = "graph" /\ ~o.cancelling
  BY <1>1 DEF GraphStep, TypeOK, Runner
<1>3. r \in Runner
  <2>1. outcome[1] \in RESERVED \cup Terminal
    BY <1>0 DEF Terminal, ACTIVE, PAUSED, RESERVED
  <2> HIDE DEF o
  <2> QED
    BY <1>0, <1>1, <2>1 DEF Runner
<1>4. r.task = o.task /\ r.cancelling = o.cancelling /\ r.pc = "locking" /\ r.state = outcome[1]
      /\ r.handling = outcome[2]
  <2> HIDE DEF o
  <2> QED
  BY <1>1 DEF Runner
<1> HIDE DEF r
<1> QED
  BY <1>0, <1>2, <1>3, <1>4, OneRunnerChanges

Abandoned(w) == [w EXCEPT !.awaited = FALSE]

\* A save that nobody awaits keeps its task and its state.
LEMMA AbandonedWrite ==
    ASSUME NEW w \in Write
    PROVE  /\ Abandoned(w) \in Write
           /\ Abandoned(w).task = w.task
           /\ Abandoned(w).state = w.state
           /\ ~Abandoned(w).awaited
BY DEF Abandoned, Write

\* A CancelledError arrived: what the runner will record, and which saves go on
\* without it.
LEMMA InterruptedStep ==
    ASSUME TypeOK, NEW m \in Messages, Interrupted(m)
    PROVE  /\ runners' \in [Messages -> Runner]
           /\ writes' \in SUBSET Write
           /\ \A n \in Messages : n # m => runners'[n] = runners[n]
           /\ runners[m].pc \in {"locking", "saving", "graph"} /\ runners[m].cancelling
           /\ runners'[m].task = runners[m].task /\ ~runners'[m].cancelling
           /\ runners'[m].handling
           /\ \/ /\ runners[m].handling
                 /\ runners'[m].pc = "ending"
                 /\ runners'[m].state = runners[m].state
              \/ /\ ~runners[m].handling
                 /\ runners'[m].pc = "locking"
                 /\ runners'[m].state = IF Closing
                    \/ runners[m].task \in revoked THEN "FAILED" ELSE "CANCELED"
           /\ \A w \in writes' :
                 \/ w \in writes /\ ~(w.by = m /\ w.awaited)
                 \/ ~w.awaited /\ \E v \in writes : v.task = w.task /\ v.state = w.state
                    /\ v.by = m /\ v.awaited
           /\ \A w \in writes : ~(w.by = m /\ w.awaited) => w \in writes'
           /\ disturbed' = IF runners[m].pc = "saving" \/ runners[m].handling
                           THEN disturbed \cup {runners[m].task} ELSE disturbed
<1> DEFINE o == runners[m]
           r == IF o.handling
              THEN [o EXCEPT !.pc = "ending", !.cancelling = FALSE]
              ELSE [o EXCEPT !.pc = "locking", !.cancelling = FALSE, !.handling = TRUE,
                             !.state = IF Closing \/ o.task \in revoked
                                       THEN "FAILED" ELSE "CANCELED"]
           mine == {w \in writes : w.by = m /\ w.awaited}
<1>1. o \in Runner
  BY DEF TypeOK
<1>2. /\ runners' = [runners EXCEPT ![m] = r] /\ o.pc \in {"locking", "saving", "graph"}
         /\ o.cancelling
      /\ \E left \in SUBSET mine :
              writes' = (writes \ mine) \cup {[w EXCEPT !.awaited = FALSE] : w \in left}
      /\ disturbed' = IF o.pc = "saving" \/ o.handling
                        THEN disturbed \cup {o.task} ELSE disturbed
  BY DEF Interrupted
<1>3. r \in Runner
  <2> HIDE DEF o
  <2> QED
    BY <1>1 DEF Runner, Terminal
<1>4. /\ r.task = o.task /\ ~r.cancelling /\ r.handling
      /\ \/ o.handling /\ r.pc = "ending" /\ r.state = o.state
         \/ ~o.handling /\ r.pc = "locking" /\ r.state = IF Closing
            \/ o.task \in revoked THEN "FAILED" ELSE "CANCELED"
  <2> HIDE DEF o
  <2> QED
    BY <1>1 DEF Runner, Terminal
<1>5. PICK left \in SUBSET mine : writes' = (writes \ mine) \cup {Abandoned(w) : w \in left}
  BY <1>2 DEF Abandoned
<1>6. \A w \in left : w \in Write /\ w.by = m /\ w.awaited /\ w \in writes
  BY DEF TypeOK
<1>7. writes' \in SUBSET Write
  BY <1>5, <1>6, AbandonedWrite DEF TypeOK
<1>8. /\ \A w \in writes' :
                 \/ w \in writes /\ ~(w.by = m /\ w.awaited)
                 \/ ~w.awaited /\ \E v \in writes : v.task = w.task /\ v.state = w.state
                    /\ v.by = m /\ v.awaited
      /\ \A w \in writes : ~(w.by = m /\ w.awaited) => w \in writes'
  <2>1. \A w \in writes' : (w \in writes /\ w \notin mine) \/ \E v \in left : w = Abandoned(v)
    BY <1>5
  <2>2. \A w \in writes : w \notin mine => w \in writes'
    BY <1>5
  <2> QED
    BY <1>6, <2>1, <2>2, AbandonedWrite
<1> HIDE DEF r, mine
<1> QED
  BY <1>2, <1>3, <1>4, <1>7, <1>8, OneRunnerChanges

\* The key was lost: the runner is told to stop.
LEMMA WatchKeyStep ==
    ASSUME TypeOK, NEW m \in Messages, WatchKey(m)
    PROVE  /\ runners' \in [Messages -> Runner]
           /\ \A n \in Messages : n # m => runners'[n] = runners[n]
           /\ runners[m].pc \in {"locking", "saving", "graph"}
           /\ runners'[m].pc = runners[m].pc
           /\ runners'[m].task = runners[m].task
           /\ runners'[m].state = runners[m].state
           /\ runners'[m].handling = runners[m].handling
           /\ runners'[m].failed = runners[m].failed
           /\ runners'[m].cancelling
<1> DEFINE o == runners[m]
           r == [o EXCEPT !.cancelling = TRUE, !.watched = FALSE]
<1>1. o \in Runner
  BY DEF TypeOK
<1>2. runners' = [runners EXCEPT ![m] = r] /\ o.pc \in {"locking", "saving", "graph"}
  BY <1>1 DEF WatchKey, TypeOK, Runner
<1>3. /\ r \in Runner /\ r.task = o.task /\ r.pc = o.pc /\ r.state = o.state
         /\ r.handling = o.handling
      /\ r.failed = o.failed /\ r.cancelling
  <2> HIDE DEF o
  <2> QED
    BY <1>1 DEF Runner
<1> HIDE DEF r
<1> QED
  BY <1>2, <1>3, OneRunnerChanges

\* Some runners are told to stop; nothing else of them changes.
ToldToStop(m) ==
    /\ runners'[m].pc = runners[m].pc
    /\ runners'[m].task = runners[m].task
    /\ runners'[m].state = runners[m].state
    /\ runners'[m].handling = runners[m].handling
    /\ runners'[m].failed = runners[m].failed

Stopping(o) == [o EXCEPT !.cancelling = TRUE]

\* Telling a runner to stop keeps the rest of its record.
LEMMA Stopped ==
    ASSUME NEW o \in Runner
    PROVE  /\ Stopping(o) \in Runner
           /\ Stopping(o).pc = o.pc
           /\ Stopping(o).task = o.task
           /\ Stopping(o).state = o.state
           /\ Stopping(o).handling = o.handling
           /\ Stopping(o).failed = o.failed
BY DEF Runner, Stopping

\* cancel() stops the runner that AgentRuntime.runners names, if there is one.
LEMMA CancelStopRunnerStep ==
    ASSUME TypeOK, CancelStopRunner, canceller.task \in Messages
    PROVE  /\ runners' \in [Messages -> Runner]
           /\ \A n \in Messages : ToldToStop(n)
           /\ \A n \in Messages : n # current[canceller.task] => runners'[n] = runners[n]
           /\ canceller.pc = "looking"
           /\ canceller'.task = canceller.task
           /\ \/ /\ current[canceller.task] # NoMessage
                 /\ canceller'.pc = "awaiting" /\ canceller'.runner = current[canceller.task]
                 /\ disturbed' = disturbed
              \/ /\ current[canceller.task] = NoMessage
                 /\ canceller'.pc = "locking"
                 /\ runners' = runners
                 /\ disturbed' = IF rows[canceller.task].state \in Terminal THEN disturbed \cup {canceller.task} ELSE disturbed
           /\ canceller' \in [pc: {"none", "looking", "awaiting", "locking", "saving"},
                      task: Messages \cup {NoMessage}, runner: Messages \cup {NoMessage}]
<1> DEFINE m == current[canceller.task]
<1>1. m \in Messages \cup {NoMessage}
  BY DEF TypeOK
<1>2. /\ canceller.pc = "looking"
      /\ m # NoMessage => canceller' = [canceller EXCEPT !.pc = "awaiting", !.runner = m]
      /\ m # NoMessage => runners' = [runners EXCEPT ![m].cancelling = TRUE]
      /\ m = NoMessage => canceller' = [canceller EXCEPT !.pc = "locking"]
      /\ m = NoMessage => runners' = runners
      /\ disturbed' = IF m = NoMessage /\ rows[canceller.task].state \in Terminal
                      THEN disturbed \cup {canceller.task} ELSE disturbed
  BY DEF CancelStopRunner
<1> HIDE DEF m
<1>3. CASE m = NoMessage
  <2>1. canceller' = [canceller EXCEPT !.pc = "locking"] /\ runners' = runners
    BY <1>2, <1>3
  <2>2. /\ canceller'.pc = "locking" /\ canceller'.task = canceller.task
        /\ canceller' \in [pc: {"none", "looking", "awaiting", "locking", "saving"},
                      task: Messages \cup {NoMessage}, runner: Messages \cup {NoMessage}]
    BY <2>1 DEF TypeOK
  <2>3. runners' \in [Messages -> Runner] /\ \A n \in Messages : ToldToStop(n)
    BY <2>1 DEF TypeOK, ToldToStop
  <2> QED
    BY <1>2, <1>3, <2>1, <2>2, <2>3 DEF m
<1>4. CASE m # NoMessage
  <2>1. m \in Messages /\ runners[m] \in Runner
    BY <1>1, <1>4 DEF TypeOK
  <2>2. runners' = [runners EXCEPT ![m] = Stopping(runners[m])]
    BY <1>2, <1>4 DEF Stopping
  <2>3. /\ runners' \in [Messages -> Runner]
        /\ runners'[m] = Stopping(runners[m])
        /\ \A n \in Messages : n # m => runners'[n] = runners[n]
    BY <2>1, <2>2, Stopped, OneRunnerChanges
  <2>4. \A n \in Messages : ToldToStop(n)
    BY <2>1, <2>3, Stopped DEF ToldToStop
  <2>5. /\ canceller'.pc = "awaiting" /\ canceller'.task = canceller.task /\ canceller'.runner = m
        /\ canceller' \in [pc: {"none", "looking", "awaiting", "locking", "saving"},
                      task: Messages \cup {NoMessage}, runner: Messages \cup {NoMessage}]
    BY <1>2, <1>4, <2>1 DEF TypeOK
  <2> QED
    BY <1>2, <1>4, <2>3, <2>4, <2>5 DEF m
<1> QED
  BY <1>3, <1>4

\* close() stops every runner.
LEMMA CloseRunnersStep ==
    ASSUME TypeOK, CloseRunners
    PROVE  runners' \in [Messages -> Runner] /\ \A n \in Messages : ToldToStop(n)
<1>1. \A n \in Messages : runners'[n] \in {runners[n], Stopping(runners[n])}
  BY DEF CloseRunners, Stopping
<1>2. \A n \in Messages : runners'[n] \in Runner /\ ToldToStop(n)
  BY <1>1, Stopped DEF TypeOK, ToldToStop
<1> QED
  BY <1>2 DEF CloseRunners

\* The variables have their types at first ...
LEMMA InitTypeOK == Init => TypeOK
BY AgentTasksAssumption DEF Init, TypeOK, AgentTasksAssumption, NoRow, Row, NoRunner, Runner,
   NoCancel, NoSweep, ACTIVE, PAUSED, RESERVED, Terminal

\* ... and every step keeps them.
LEMMA NextTypeOK == TypeOK /\ LockHeld /\ RowsKept /\ [Next]_vars => TypeOK'
<1> SUFFICES ASSUME TypeOK, LockHeld, RowsKept, [Next]_vars
             PROVE  TypeOK'
  OBVIOUS
<1> USE DEF stored, process, history
<1>1. ASSUME NEW m \in Messages, NEW c \in Contexts, AdmitTask(m, c)
      PROVE  TypeOK'
  <2>1. [state |-> "SUBMITTED", context |-> c, expired |-> FALSE] \in Row
    BY DEF Row, ACTIVE, RESERVED
  <2>2. rows' \in [Messages -> Row]
    BY <1>1, <2>1, EmptyRows DEF AdmitTask, TypeOK
  <2>3. Launch(m, m) /\ Record(m, m)
    BY <1>1 DEF AdmitTask
  <2>4. threads' \in [Contexts -> {"unused", "open", "deleted"}]
    BY <1>1 DEF AdmitTask, TypeOK
  <2>5. UNCHANGED <<checkpoints, server, lock, revoked, writes, canceller, sweeper, faults>>
    BY <1>1 DEF AdmitTask
  <2> QED
    BY <2>2, <2>3, <2>4, <2>5, LaunchStep DEF TypeOK
<1>2. ASSUME NEW m \in Messages, NEW t \in Messages, AdmitContinuation(m, t)
      PROVE  TypeOK'
  <2>1. [rows[t] EXCEPT !.state = "SUBMITTED"] \in Row
    BY DEF Row, ACTIVE, RESERVED, TypeOK
  <2>2. rows' \in [Messages -> Row]
    BY <1>2, <2>1, EmptyRows DEF AdmitContinuation, TypeOK
  <2>3. Launch(m, t) /\ Record(m, t)
    BY <1>2 DEF AdmitContinuation
  <2>4. UNCHANGED <<threads, checkpoints, server, lock, revoked, writes, canceller, sweeper, faults>>
    BY <1>2 DEF AdmitContinuation
  <2> QED
    BY <2>2, <2>3, <2>4, LaunchStep DEF TypeOK
<1>3. ASSUME NEW m \in Messages, StartSave(m)
      PROVE  TypeOK'
  <2>1. runners[m].task \in Messages /\ runners[m].state \in RESERVED \cup Terminal
    BY <1>3 DEF StartSave, RowsKept, Live, TypeOK, Runner
  <2>2. writes' \in SUBSET Write
    <3>1. [task |-> runners[m].task, state |-> runners[m].state, by |-> m, awaited |-> TRUE] \in Write
      BY <2>1 DEF Write
    <3> QED
      BY <1>3, <3>1 DEF StartSave, TypeOK
  <2>3. UNCHANGED <<rows, records, threads, checkpoints, server, lock, current, revoked,
                    canceller, sweeper, faults, launched, asked, disturbed>>
    BY <1>3 DEF StartSave
  <2> QED
    BY <1>3, <2>2, <2>3, StartSaveStep DEF TypeOK
<1>4. ASSUME NEW w \in writes, CommitSave(w)
      PROVE  TypeOK'
  <2>1. writes' \in SUBSET Write
    BY <1>4 DEF CommitSave, TypeOK
  <2>2. UNCHANGED <<records, threads, checkpoints, server, lock, current, revoked, canceller,
                    sweeper, faults, launched, asked, disturbed>>
    BY <1>4 DEF CommitSave
  <2>3. runners' \in [Messages -> Runner] /\ rows' \in [Messages -> Row]
    BY <1>4, CommitSaveStep
  <2> QED
    BY <2>1, <2>2, <2>3 DEF TypeOK
<1>5. ASSUME NEW m \in Messages, SaveReturns(m)
      PROVE  TypeOK'
  <2>1. UNCHANGED <<rows, records, threads, checkpoints, server, lock, current, revoked, writes,
                    canceller, sweeper, faults, launched, asked, disturbed>>
    BY <1>5 DEF SaveReturns, RunnerOnly
  <2> QED
    BY <1>5, <2>1, SaveReturnsStep DEF TypeOK
<1>6. ASSUME NEW m \in Messages, NEW outcome \in GraphOutcomes, GraphStep(m, outcome)
      PROVE  TypeOK'
  <2>1. rows[runners[m].task].context \in Contexts
    BY <1>6 DEF GraphStep, RowsKept, Live, Owned
  <2>2. checkpoints' \in SUBSET Contexts
    BY <1>6, <2>1 DEF GraphStep, TypeOK
  <2>3. UNCHANGED <<rows, records, threads, server, lock, current, revoked, writes,
                    canceller, sweeper, faults, launched, asked, disturbed>>
    BY <1>6 DEF GraphStep
  <2> QED
    BY <1>6, <2>2, <2>3, GraphStepStep DEF TypeOK
<1>7. ASSUME NEW m \in Messages, Interrupted(m)
      PROVE  TypeOK'
  <2>1. UNCHANGED <<rows, records, threads, checkpoints, server, lock, current, revoked,
                    canceller, sweeper, faults, launched, asked>>
    BY <1>7 DEF Interrupted
  <2>2. runners[m].task \in Messages
    BY <1>7 DEF Interrupted, RowsKept, Live
  <2>3. disturbed' \in SUBSET Messages
    BY <1>7, <2>2 DEF Interrupted, TypeOK
  <2> QED
    BY <1>7, <2>1, <2>3, InterruptedStep DEF TypeOK
<1>8. ASSUME NEW m \in Messages, RunnerDone(m)
      PROVE  TypeOK'
  <2>1. UNCHANGED <<rows, records, threads, checkpoints, server, lock, writes, canceller,
                    sweeper, faults, launched, asked, disturbed>>
    BY <1>8 DEF RunnerDone
  <2>2. runners' \in [Messages -> Runner]
    BY <1>8, EmptyRows DEF RunnerDone, TypeOK
  <2>3. current' \in [Messages -> Messages \cup {NoMessage}] /\ revoked' \in SUBSET Messages
    BY <1>8 DEF RunnerDone, TypeOK
  <2> QED
    BY <2>1, <2>2, <2>3 DEF TypeOK
<1>9. ASSUME NEW m \in Messages, WatchKey(m)
      PROVE  TypeOK'
  <2>1. UNCHANGED <<rows, records, threads, checkpoints, server, lock, current, writes,
                    canceller, sweeper, launched, asked, disturbed>>
    BY <1>9 DEF WatchKey
  <2>2. faults' \in 0 .. MaxFaults
    BY <1>9, AgentTasksAssumption DEF WatchKey, TypeOK, AgentTasksAssumption
  <2>3. revoked' \in SUBSET Messages
    BY <1>9 DEF WatchKey, TypeOK, RowsKept, Live
  <2> QED
    BY <1>9, <2>1, <2>2, <2>3, WatchKeyStep DEF TypeOK
<1>10. ASSUME NEW t \in Messages, Cancel(t)
       PROVE  TypeOK'
  <2>1. UNCHANGED <<rows, records, threads, checkpoints, server, runners, current, revoked,
                    writes, sweeper, faults, launched, disturbed>>
    BY <1>10 DEF Cancel
  <2>2. lock' = "cancel" /\ asked' = asked \cup {t}
        /\ canceller' = [pc |-> "looking", task |-> t, runner |-> NoMessage]
    BY <1>10 DEF Cancel
  <2> QED
    BY <2>1, <2>2 DEF TypeOK
<1>11. ASSUME NEW t \in Messages, Expire(t)
       PROVE  TypeOK'
  <2>1. [rows[t] EXCEPT !.expired = TRUE] \in Row
    <3>1. rows[t] \in Row
      BY DEF TypeOK
    <3> QED
      BY <3>1 DEF Row
  <2>2. rows' \in [Messages -> Row]
    <3>1. rows' = [rows EXCEPT ![t] = [rows[t] EXCEPT !.expired = TRUE]]
      BY <1>11 DEF Expire
    <3> QED
      BY <2>1, <3>1 DEF TypeOK
  <2>3. UNCHANGED <<records, threads, checkpoints, server, lock, runners, current, revoked,
                    writes, canceller, sweeper, faults, launched, asked, disturbed>>
    BY <1>11 DEF Expire
  <2> QED
    BY <2>2, <2>3 DEF TypeOK
<1>12. CASE CancelStopRunner
  <2>1. canceller.task \in Messages
    BY <1>12 DEF CancelStopRunner, LockHeld, TypeOK
  <2>2. UNCHANGED <<rows, records, threads, checkpoints, server, lock, current, revoked,
                    writes, sweeper, faults, launched, asked>>
    BY <1>12 DEF CancelStopRunner
  <2>3. /\ runners' \in [Messages -> Runner]
        /\ canceller' \in [pc: {"none", "looking", "awaiting", "locking", "saving"},
                           task: Messages \cup {NoMessage}, runner: Messages \cup {NoMessage}]
        /\ disturbed' = disturbed \/ disturbed' = disturbed \cup {canceller.task}
    BY <1>12, <2>1, CancelStopRunnerStep
  <2> QED
    BY <2>1, <2>2, <2>3 DEF TypeOK
<1>13. CASE CancelRunnerStopped \/ CancelSaved
  <2>1. UNCHANGED <<rows, records, threads, checkpoints, server, runners, current, revoked,
                    writes, sweeper, faults, launched, asked, disturbed>>
    BY <1>13 DEF CancelRunnerStopped, CancelSaved
  <2>2. lock' \in {"free", lock}
        /\ canceller' \in {NoCancel, [canceller EXCEPT !.pc = "locking"]}
    BY <1>13 DEF CancelRunnerStopped, CancelSaved, CancelReturns
  <2>3. /\ NoCancel \in [pc: {"none", "looking", "awaiting", "locking", "saving"},
                         task: Messages \cup {NoMessage}, runner: Messages \cup {NoMessage}]
        /\ [canceller EXCEPT !.pc = "locking"]
              \in [pc: {"none", "looking", "awaiting", "locking", "saving"},
                   task: Messages \cup {NoMessage}, runner: Messages \cup {NoMessage}]
    BY DEF NoCancel, TypeOK
  <2> QED
    BY <2>1, <2>2, <2>3 DEF TypeOK
<1>14. CASE CancelStartSave
  <2>1. UNCHANGED <<rows, records, threads, checkpoints, server, lock, runners, current,
                    revoked, sweeper, faults, launched, asked, disturbed>>
    BY <1>14 DEF CancelStartSave
  <2>2. canceller' \in [pc: {"none", "looking", "awaiting", "locking", "saving"},
                        task: Messages \cup {NoMessage}, runner: Messages \cup {NoMessage}]
    BY <1>14 DEF CancelStartSave, TypeOK
  <2>3. canceller.task \in Messages
    BY <1>14 DEF CancelStartSave, LockHeld, TypeOK
  <2>4. writes' \in SUBSET Write
    <3>1. [task |-> canceller.task, state |-> "CANCELED", by |-> "cancel", awaited |-> TRUE] \in Write
      BY <2>3 DEF Write, Terminal, Cancellers
    <3> QED
      BY <1>14, <3>1 DEF CancelStartSave, TypeOK
  <2> QED
    BY <2>1, <2>2, <2>4 DEF TypeOK
<1>15. CASE Sweep
  <2>1. UNCHANGED <<rows, records, threads, checkpoints, server, runners, current, revoked,
                    writes, canceller, faults, launched, asked, disturbed>>
    BY <1>15 DEF Sweep
  <2>2. lock' = "sweep" /\ sweeper' = [pc |-> "pruning", retired |-> {}, left |-> {}]
    BY <1>15 DEF Sweep
  <2> QED
    BY <2>1, <2>2 DEF TypeOK
<1>16. CASE Prune
  <2>1. UNCHANGED <<threads, checkpoints, server, lock, runners, current, revoked, writes,
                    canceller, faults, disturbed>>
    BY <1>16 DEF Prune
  <2>2. PICK gone \in SUBSET Messages : DeleteRows(gone)
    BY <1>16 DEF Prune
  <2>3. rows' \in [Messages -> Row] /\ records' \in [Messages -> Messages \cup {NoMessage}]
        /\ launched' \in [Messages -> Nat] /\ asked' \in SUBSET Messages
    BY <2>2, EmptyRows DEF DeleteRows, TypeOK
  <2>4. sweeper' \in [pc: {"none", "pruning", "retiring"},
                      retired: SUBSET Contexts, left: SUBSET Contexts]
    BY <1>16 DEF Prune
  <2> QED
    BY <2>1, <2>3, <2>4 DEF TypeOK
<1>17. ASSUME NEW c \in Contexts, DeleteCheckpoint(c)
       PROVE  TypeOK'
  <2>1. UNCHANGED <<rows, records, threads, server, lock, runners, current, revoked,
                    writes, canceller, faults, launched, asked, disturbed>>
    BY <1>17 DEF DeleteCheckpoint
  <2>2. checkpoints' \in SUBSET Contexts
    BY <1>17 DEF DeleteCheckpoint, TypeOK
  <2>3. sweeper' \in [pc: {"none", "pruning", "retiring"},
                      retired: SUBSET Contexts, left: SUBSET Contexts]
    BY <1>17 DEF DeleteCheckpoint, TypeOK
  <2> QED
    BY <2>1, <2>2, <2>3 DEF TypeOK
<1>18. CASE DeleteContexts
  <2>1. UNCHANGED <<rows, records, checkpoints, runners, current, revoked, writes, canceller,
                    faults, launched, asked, disturbed>>
    BY <1>18 DEF DeleteContexts
  <2>2. threads' \in [Contexts -> {"unused", "open", "deleted"}] /\ lock' = "free"
        /\ server' \in {server, "up"}
    BY <1>18 DEF DeleteContexts, TypeOK
  <2>3. sweeper' \in [pc: {"none", "pruning", "retiring"},
                      retired: SUBSET Contexts, left: SUBSET Contexts]
    BY <1>18 DEF DeleteContexts, NoSweep
  <2> QED
    BY <2>1, <2>2, <2>3 DEF TypeOK
<1>19. CASE Start
  <2>1. UNCHANGED <<records, threads, checkpoints, runners, current, revoked, writes,
                    canceller, faults, launched, asked, disturbed>>
    BY <1>19 DEF Start
  <2>2. \A t \in Messages : [rows[t] EXCEPT !.state = "FAILED"] \in Row
    BY DEF TypeOK, Row, Terminal
  <2>3. rows' \in [Messages -> Row]
    BY <1>19, <2>2 DEF Start, TypeOK
  <2>4. server' = "starting" /\ lock' = "sweep"
        /\ sweeper' = [pc |-> "pruning", retired |-> {}, left |-> {}]
    BY <1>19 DEF Start
  <2> QED
    BY <2>1, <2>3, <2>4 DEF TypeOK
<1>20. CASE Close
  <2>1. UNCHANGED <<rows, records, threads, checkpoints, lock, runners, current, revoked,
                    writes, canceller, sweeper, launched, asked, disturbed>>
    BY <1>20 DEF Close
  <2>2. faults' \in 0 .. MaxFaults /\ server' = "closing"
    BY <1>20, AgentTasksAssumption DEF Close, TypeOK, AgentTasksAssumption
  <2> QED
    BY <2>1, <2>2 DEF TypeOK
<1>21. CASE CloseRunners
  <2>1. UNCHANGED <<rows, records, threads, checkpoints, lock, current, revoked, writes,
                    canceller, sweeper, faults, launched, asked, disturbed>>
    BY <1>21 DEF CloseRunners
  <2>2. server' = "stopping"
    BY <1>21 DEF CloseRunners
  <2> QED
    BY <1>21, <2>1, <2>2, CloseRunnersStep DEF TypeOK
<1>22. CASE CloseDone \/ Crash
  <2>1. UNCHANGED <<rows, records, threads, checkpoints, launched, asked>>
    BY <1>22 DEF CloseDone, Crash
  <2>2. ProcessGone
    BY <1>22 DEF CloseDone, Crash
  <2>3. /\ server' = "down" /\ lock' = "free" /\ revoked' = {}
        /\ runners' \in [Messages -> Runner]
        /\ current' \in [Messages -> Messages \cup {NoMessage}]
        /\ canceller' \in [pc: {"none", "looking", "awaiting", "locking", "saving"},
                           task: Messages \cup {NoMessage}, runner: Messages \cup {NoMessage}]
        /\ sweeper' \in [pc: {"none", "pruning", "retiring"},
                         retired: SUBSET Contexts, left: SUBSET Contexts]
    BY <2>2, EmptyRows DEF ProcessGone, NoCancel, NoSweep
  <2>4. faults' \in 0 .. MaxFaults
    BY <1>22, AgentTasksAssumption DEF CloseDone, Crash, TypeOK, AgentTasksAssumption
  <2>5. \A w \in writes : Abandoned(w) \in Write /\ w.task \in Messages
    BY AbandonedWrite DEF TypeOK, Write
  <2>6. writes' = {} \/ writes' = {Abandoned(w) : w \in writes}
    BY <1>22 DEF CloseDone, Crash, Abandoned
  <2>7. disturbed' = disturbed \/ disturbed' = disturbed \cup {w.task : w \in writes}
    BY <1>22 DEF CloseDone, Crash
  <2>8. writes' \in SUBSET Write /\ disturbed' \in SUBSET Messages
    BY <2>5, <2>6, <2>7 DEF TypeOK
  <2> QED
    BY <2>1, <2>3, <2>4, <2>8 DEF TypeOK
<1>23. CASE UNCHANGED vars
  BY <1>23 DEF vars, TypeOK
<1> QED
  BY <1>1, <1>2, <1>3, <1>4, <1>5, <1>6, <1>7, <1>8, <1>9, <1>10, <1>11, <1>12, <1>13, <1>14,
     <1>15, <1>16, <1>17, <1>18, <1>19, <1>20, <1>21, <1>22, <1>23
  DEF Next, RunnerStep, CancelStep, SweepStep

\* What the runners are after each step, seen from outside.
LEMMA NextLockHeld == TypeOK /\ LockHeld /\ RowsKept /\ [Next]_vars => LockHeld'
<1> SUFFICES ASSUME TypeOK, LockHeld, RowsKept, [Next]_vars
             PROVE  LockHeld'
  OBVIOUS
<1> USE DEF stored, process, history
<1>1. ASSUME UNCHANGED <<canceller, lock, sweeper, server>>,
             \A n \in Messages : Live(n)' => Live(n)
      PROVE  LockHeld'
  BY <1>1 DEF LockHeld
<1>2. ASSUME NEW m \in Messages, NEW t \in Messages, Launch(m, t), Serving,
             UNCHANGED <<canceller, lock, sweeper, server>>
      PROVE  LockHeld'
  BY <1>2 DEF LockHeld, Serving
<1>3. ASSUME NEW m \in Messages, Live(m),
             \A n \in Messages : n # m => runners'[n] = runners[n],
             UNCHANGED <<canceller, lock, sweeper, server>>
      PROVE  LockHeld'
  BY <1>3 DEF LockHeld
<1>4. ASSUME NEW m \in Messages, StartSave(m) \/ SaveReturns(m) \/ WatchKey(m) \/ Interrupted(m)
                                 \/ \E outcome \in GraphOutcomes : GraphStep(m, outcome)
      PROVE  LockHeld'
  <2>1. \A n \in Messages : n # m => runners'[n] = runners[n]
    BY <1>4, StartSaveStep, SaveReturnsStep, WatchKeyStep, InterruptedStep, GraphStepStep
  <2>2. Live(m) /\ UNCHANGED <<canceller, lock, sweeper, server>>
    BY <1>4 DEF StartSave, SaveReturns, RunnerOnly, WatchKey, Interrupted, GraphStep, Live
  <2> QED
    BY <1>3, <2>1, <2>2
<1>5. ASSUME NEW w \in writes, CommitSave(w)
      PROVE  LockHeld'
  <2>1. \A n \in Messages : Live(n)' <=> Live(n)
    BY <1>5, CommitSaveStep DEF Live
  <2> QED
    BY <1>1, <1>5, <2>1 DEF CommitSave
<1>6. ASSUME NEW m \in Messages, RunnerDone(m)
      PROVE  LockHeld'
  <2>1. \A n \in Messages : Live(n)' => Live(n)
    BY <1>6 DEF RunnerDone, Live, NoRunner, TypeOK
  <2> QED
    BY <1>1, <1>6, <2>1 DEF RunnerDone
<1>7. ASSUME NEW t \in Messages, Cancel(t)
      PROVE  LockHeld'
  <2>1. /\ lock = "free" /\ lock' = "cancel" /\ server \in {"up", "closing", "stopping"}
        /\ canceller' = [pc |-> "looking", task |-> t, runner |-> NoMessage]
        /\ UNCHANGED <<runners, sweeper, server>>
    BY <1>7 DEF Cancel, Closing
  <2> QED
    BY <2>1, AgentTasksAssumption DEF LockHeld, Live, AgentTasksAssumption
<1>8. CASE CancelStopRunner
  <2>1. canceller.task \in Messages
    BY <1>8 DEF CancelStopRunner, LockHeld, TypeOK
  <2>2. \A n \in Messages : Live(n)' <=> Live(n)
    BY <1>8, <2>1, CancelStopRunnerStep DEF Live, ToldToStop
  <2>3. /\ canceller.pc = "looking" /\ canceller'.task = canceller.task
        /\ \/ canceller'.pc = "awaiting" /\ canceller'.runner = current[canceller.task]
              /\ current[canceller.task] # NoMessage
           \/ canceller'.pc = "locking"
    BY <1>8, <2>1, CancelStopRunnerStep
  <2>4. UNCHANGED <<lock, sweeper, server>>
    BY <1>8 DEF CancelStopRunner
  <2> QED
    BY <2>1, <2>2, <2>3, <2>4 DEF LockHeld, TypeOK
<1>9. CASE CancelRunnerStopped \/ CancelStartSave \/ CancelSaved
  <2>1. canceller.pc # "none" /\ UNCHANGED <<runners, sweeper, server>>
    BY <1>9 DEF CancelRunnerStopped, CancelStartSave, CancelSaved
  <2>2. \/ canceller'.pc = "none" /\ canceller'.task = NoMessage /\ lock' = "free"
        \/ canceller'.pc \in {"locking", "saving"} /\ canceller'.task = canceller.task
           /\ lock' = lock
    BY <1>9 DEF CancelRunnerStopped, CancelStartSave, CancelSaved, CancelReturns, NoCancel, TypeOK
  <2> QED
    BY <2>1, <2>2 DEF LockHeld, Live
<1>10. CASE Sweep \/ Start
  BY <1>10 DEF Sweep, Start, Serving, LockHeld, Live
<1>11. CASE Prune
  <2>1. sweeper.pc # "none" /\ UNCHANGED <<canceller, lock, server, runners>>
    BY <1>11 DEF Prune
  <2> QED
    BY <2>1 DEF LockHeld, Live
<1>12. ASSUME NEW c \in Contexts, DeleteCheckpoint(c)
       PROVE  LockHeld'
  <2>1. sweeper.pc # "none" /\ UNCHANGED <<canceller, lock, server, runners>>
    BY <1>12 DEF DeleteCheckpoint
  <2> QED
    BY <2>1 DEF LockHeld, Live
<1>13. CASE DeleteContexts
  BY <1>13 DEF DeleteContexts, NoSweep, LockHeld, Live
<1>14. CASE Close
  BY <1>14 DEF Close, LockHeld, Live
<1>15. CASE CloseRunners
  <2>1. \A n \in Messages : Live(n)' <=> Live(n)
    BY <1>15, CloseRunnersStep DEF Live, ToldToStop
  <2> QED
    BY <1>15, <2>1 DEF CloseRunners, LockHeld
<1>16. CASE CloseDone \/ Crash
  BY <1>16 DEF CloseDone, Crash, ProcessGone, NoRunner, NoCancel, NoSweep, LockHeld, Live
<1>17. ASSUME NEW m \in Messages, NEW t \in Messages,
              AdmitContinuation(m, t) \/ \E c \in Contexts : m = t /\ AdmitTask(m, c)
       PROVE  LockHeld'
  BY <1>2, <1>17 DEF AdmitTask, AdmitContinuation
<1>18. ASSUME NEW t \in Messages, Expire(t)
       PROVE  LockHeld'
  BY <1>1, <1>18 DEF Expire, Live
<1>19. CASE UNCHANGED vars
  BY <1>1, <1>19 DEF vars, Live
<1> QED
  BY <1>4, <1>5, <1>6, <1>7, <1>8, <1>9, <1>10, <1>11, <1>12, <1>13, <1>14, <1>15, <1>16, <1>17,
     <1>18, <1>19
  DEF Next, RunnerStep, CancelStep, SweepStep

\* What admitting a message of task t changes, whether it opens the task or
\* continues it.
Admits(m, t) == AdmitContinuation(m, t) \/ \E c \in Contexts : m = t /\ AdmitTask(m, c)

\* What admission does to the rows, for a new task and for a continuation.
LEMMA AdmitStep ==
    ASSUME TypeOK, RowsKept, NEW m \in Messages, NEW t \in Messages, Admits(m, t)
    PROVE  /\ Launch(m, t) /\ Record(m, t) /\ Serving
           /\ UNCHANGED <<checkpoints, server, lock, revoked, writes, canceller, sweeper, faults>>
           /\ \A u \in Outdated(m) : ~Owned(u)
           /\ \A u \in Messages : u # t => rows'[u] = IF u \in Outdated(m) THEN NoRow ELSE rows[u]
           /\ rows'[t].state = "SUBMITTED" /\ ~rows'[t].expired
           /\ rows'[t].context \in Contexts /\ threads'[rows'[t].context] = "open"
           /\ \A c \in Contexts : threads'[c] = threads[c] \/ threads'[c] = "open"
           /\ \/ /\ t \notin Outdated(m) /\ Owned(t) /\ rows[t].state \in PAUSED
                 /\ rows'[t].context = rows[t].context
              \/ /\ ~Owned(t) /\ m = t
                 /\ ~ContextReserved(rows'[t].context, Outdated(m))
<1>1. CASE AdmitContinuation(m, t)
  <2>1. Owned(t) /\ rows[t].state \in PAUSED /\ \A u \in Outdated(m) : ~Retained(u)
    BY <1>1 DEF AdmitContinuation
  <2>2. rows[t] \in Row
    BY DEF TypeOK
  <2>3. rows'[t] = [rows[t] EXCEPT !.state = "SUBMITTED"]
    BY <1>1 DEF AdmitContinuation
  <2>4. rows'[t].state = "SUBMITTED" /\ rows'[t].context = rows[t].context
        /\ rows'[t].expired = rows[t].expired
    BY <2>2, <2>3 DEF Row
  <2>5. \A u \in Outdated(m) : ~Owned(u)
    BY <2>1 DEF Owned, Retained
  <2>6. t \notin Outdated(m)
    BY <2>1, <2>5
  <2>7. rows[t].context \in Contexts /\ threads[rows[t].context] = "open"
    BY <2>1 DEF RowsKept, Owned
  <2>8. \A u \in Messages : u # t => rows'[u] = IF u \in Outdated(m) THEN NoRow ELSE rows[u]
    BY <1>1 DEF AdmitContinuation
  <2>9. threads' = threads /\ Launch(m, t) /\ Record(m, t) /\ Serving
        /\ UNCHANGED <<checkpoints, server, lock, revoked, writes, canceller, sweeper, faults>>
    BY <1>1 DEF AdmitContinuation
  <2>10. ~rows'[t].expired
    BY <2>1, <2>4 DEF Owned
  <2> QED
    BY <2>1, <2>4, <2>5, <2>6, <2>7, <2>8, <2>9, <2>10
<1>2. ASSUME NEW c \in Contexts, m = t, AdmitTask(m, c)
      PROVE  /\ Launch(m, t) /\ Record(m, t) /\ Serving
             /\ UNCHANGED <<checkpoints, server, lock, revoked, writes, canceller, sweeper, faults>>
             /\ \A u \in Outdated(m) : ~Owned(u)
             /\ \A u \in Messages : u # t => rows'[u] = IF u \in Outdated(m) THEN NoRow ELSE rows[u]
             /\ rows'[t].state = "SUBMITTED" /\ ~rows'[t].expired
             /\ rows'[t].context = c /\ threads'[c] = "open"
             /\ \A d \in Contexts : threads'[d] = threads[d] \/ threads'[d] = "open"
             /\ ~Owned(t) /\ m = t
             /\ ~ContextReserved(c, Outdated(m))
  <2>1. \A u \in Outdated(m) : ~Owned(u)
    BY <1>2 DEF AdmitTask, Owned, Retained
  <2>2. ~Owned(t)
    BY <1>2, <2>1, AgentTasksAssumption DEF Owned, Outdated, AgentTasksAssumption
  <2>3. rows'[t] = [state |-> "SUBMITTED", context |-> c, expired |-> FALSE]
    BY <1>2 DEF AdmitTask
  <2>4. \A u \in Messages : u # t => rows'[u] = IF u \in Outdated(m) THEN NoRow ELSE rows[u]
    BY <1>2 DEF AdmitTask
  <2>5. threads' = [threads EXCEPT ![c] = "open"]
    BY <1>2 DEF AdmitTask
  <2>6. threads'[c] = "open" /\ \A d \in Contexts : threads'[d] = threads[d] \/ threads'[d] = "open"
    BY <2>5 DEF TypeOK
  <2>7. /\ Launch(m, t) /\ Record(m, t) /\ Serving /\ ~ContextReserved(c, Outdated(m))
        /\ UNCHANGED <<checkpoints, server, lock, revoked, writes, canceller, sweeper, faults>>
    BY <1>2 DEF AdmitTask
  <2> QED
    BY <1>2, <2>1, <2>2, <2>3, <2>4, <2>6, <2>7
<1> QED
  BY <1>1, <1>2 DEF Admits

\* Every step keeps the rows that somebody works on.
LEMMA NextRowsKept == TypeOK /\ LockHeld /\ RowsKept /\ [Next]_vars => RowsKept'
<1> SUFFICES ASSUME TypeOK, LockHeld, RowsKept, [Next]_vars
             PROVE  RowsKept'
  OBVIOUS
<1> USE DEF stored, process, history
<1>1. ASSUME UNCHANGED <<rows, threads>>,
             \A n \in Messages : IF Live(n)' THEN Live(n) /\ runners'[n].task = runners[n].task
                                 ELSE runners'[n].task = NoMessage,
             \A w \in writes' : \/ w \in writes
                                \/ \E v \in writes : v.task = w.task
                                \/ \E n \in Messages : Live(n) /\ w.task = runners[n].task
                                \/ w.task = canceller.task /\ w.task # NoMessage,
             canceller'.task \in {NoMessage, canceller.task}
      PROVE  RowsKept'
  BY <1>1 DEF RowsKept, Owned
<1>2. ASSUME NEW m \in Messages, NEW t \in Messages, Admits(m, t)
      PROVE  RowsKept'
  <2>0. /\ Launch(m, t) /\ Record(m, t) /\ Serving
        /\ UNCHANGED <<writes, canceller>>
        /\ \A u \in Outdated(m) : ~Owned(u)
        /\ \A u \in Messages : u # t => rows'[u] = IF u \in Outdated(m) THEN NoRow ELSE rows[u]
        /\ rows'[t].state = "SUBMITTED" /\ ~rows'[t].expired
        /\ rows'[t].context \in Contexts /\ threads'[rows'[t].context] = "open"
        /\ \A c \in Contexts : threads'[c] = threads[c] \/ threads'[c] = "open"
    BY <1>2, AdmitStep
  <2>1. \A u \in Messages : Owned(u) => Owned(u)'
    BY <2>0 DEF Owned
  <2>2. runners'[m].pc = "locking" /\ runners'[m].task = t /\ \A n \in Messages : n # m =>
           runners'[n] = runners[n]
    BY <2>0, LaunchStep
  <2>3. \A n \in Messages : IF Live(n)' THEN runners'[n].task \in Messages
        /\ Owned(runners[n].task)'
                           ELSE runners'[n].task = NoMessage
    <3>1. Owned(t)'
      BY <2>0 DEF Owned
    <3>2. Live(m)' /\ runners'[m].task = t
      BY <2>2 DEF Live
    <3>3. ASSUME NEW n \in Messages, n # m
          PROVE IF Live(n)' THEN runners'[n].task \in Messages /\ Owned(runners[n].task)'
                           ELSE runners'[n].task = NoMessage
      <4>1. (Live(n)' <=> Live(n)) /\ runners'[n].task = runners[n].task
        BY <2>2, <3>3 DEF Live
      <4> QED
        BY <2>1, <4>1 DEF RowsKept, Owned, Live
    <3> QED
      BY <3>1, <3>2, <3>3 DEF Owned, Live
  <2>4. \A u \in Messages : /\ rows'[u].state = "none" => rows'[u].context = NoContext
                            /\ rows'[u].state # "none" => rows'[u].context \in Contexts
                               /\ threads'[rows'[u].context] = "open"
    BY <2>0 DEF RowsKept, NoRow
  <2>5. /\ \A w \in writes' : Owned(w.task)'
        /\ canceller'.task # NoMessage => Owned(canceller.task)'
    BY <2>0, <2>1 DEF RowsKept, TypeOK, Write, Owned
  <2> QED
    BY <2>3, <2>4, <2>5 DEF RowsKept, Owned, Live
<1>3. ASSUME NEW m \in Messages, StartSave(m)
      PROVE  RowsKept'
  <2>1. /\ \A n \in Messages : IF Live(n)' THEN Live(n) /\ runners'[n].task = runners[n].task
                                 ELSE runners'[n].task = NoMessage
        /\ Live(m)
    BY <1>3, StartSaveStep DEF Live, RowsKept
  <2>2. \A w \in writes' : w \in writes \/ w.task = runners[m].task
    BY <1>3 DEF StartSave
  <2> QED
    BY <1>1, <1>3, <2>1, <2>2 DEF StartSave
<1>4. ASSUME NEW w \in writes, CommitSave(w)
      PROVE  RowsKept'
  <2>1. /\ \A n \in Messages : (Live(n)' <=> Live(n)) /\ runners'[n].task = runners[n].task
    BY <1>4, CommitSaveStep DEF Live
  <2>2. /\ \A u \in Messages : rows'[u].context = rows[u].context
           /\ rows'[u].expired = rows[u].expired
        /\ \A u \in Messages : rows'[u].state # rows[u].state => rows[u].state # "none"
           /\ rows'[u].state # "none"
    <3>1. Owned(w.task) /\ w.task \in Messages /\ w.state # "none"
      BY DEF RowsKept, TypeOK, Write, ACTIVE, PAUSED, RESERVED, Terminal
    <3>2. \/ /\ rows'[w.task].state = w.state
             /\ rows'[w.task].context = rows[w.task].context
             /\ rows'[w.task].expired = rows[w.task].expired
             /\ \A t \in Messages : t # w.task => rows'[t] = rows[t]
          \/ rows' = rows
      BY <1>4, CommitSaveStep
    <3> QED
      BY <3>1, <3>2 DEF Owned
  <2>3. \A u \in Messages : Owned(u) => Owned(u)'
    BY <2>2 DEF Owned
  <2>4. threads' = threads /\ canceller' = canceller /\ writes' \subseteq writes
    BY <1>4 DEF CommitSave
  <2>5. \A u \in Messages : /\ rows'[u].state = "none" => rows'[u].context = NoContext
                            /\ rows'[u].state # "none" => rows'[u].context \in Contexts
                               /\ threads'[rows'[u].context] = "open"
    BY <2>2, <2>4 DEF RowsKept
  <2>6. \A n \in Messages : IF Live(n)' THEN runners'[n].task \in Messages
        /\ Owned(runners[n].task)'
                           ELSE runners'[n].task = NoMessage
    BY <2>1, <2>3 DEF RowsKept, Owned, Live
  <2>7. /\ \A v \in writes' : Owned(v.task)'
        /\ canceller'.task # NoMessage => Owned(canceller.task)'
    BY <2>3, <2>4 DEF RowsKept, TypeOK, Write, Owned
  <2> QED
    BY <2>5, <2>6, <2>7 DEF RowsKept, Owned, Live
<1>5. ASSUME NEW m \in Messages, SaveReturns(m)
      PROVE  RowsKept'
  <2>1. \A n \in Messages : IF Live(n)' THEN Live(n) /\ runners'[n].task = runners[n].task
                            ELSE runners'[n].task = NoMessage
    BY <1>5, SaveReturnsStep DEF Live, RowsKept
  <2> QED
    BY <1>1, <1>5, <2>1 DEF SaveReturns, RunnerOnly
<1>6. ASSUME NEW m \in Messages, NEW outcome \in GraphOutcomes, GraphStep(m, outcome)
      PROVE  RowsKept'
  <2>1. \A n \in Messages : IF Live(n)' THEN Live(n) /\ runners'[n].task = runners[n].task
                            ELSE runners'[n].task = NoMessage
    BY <1>6, GraphStepStep DEF Live, RowsKept
  <2> QED
    BY <1>1, <1>6, <2>1 DEF GraphStep
<1>7. ASSUME NEW m \in Messages, Interrupted(m)
      PROVE  RowsKept'
  <2>1. \A n \in Messages : IF Live(n)' THEN Live(n) /\ runners'[n].task = runners[n].task
                            ELSE runners'[n].task = NoMessage
    BY <1>7, InterruptedStep DEF Live, RowsKept
  <2>2. \A w \in writes' : w \in writes \/ \E v \in writes : v.task = w.task
    BY <1>7, InterruptedStep
  <2> QED
    BY <1>1, <1>7, <2>1, <2>2 DEF Interrupted
<1>8. ASSUME NEW m \in Messages, RunnerDone(m)
      PROVE  RowsKept'
  <2>1. \A n \in Messages : IF Live(n)' THEN Live(n) /\ runners'[n].task = runners[n].task
                            ELSE runners'[n].task = NoMessage
    BY <1>8 DEF RunnerDone, Live, RowsKept, TypeOK, NoRunner
  <2> QED
    BY <1>1, <1>8, <2>1 DEF RunnerDone
<1>9. ASSUME NEW m \in Messages, WatchKey(m)
      PROVE  RowsKept'
  <2>1. \A n \in Messages : IF Live(n)' THEN Live(n) /\ runners'[n].task = runners[n].task
                            ELSE runners'[n].task = NoMessage
    BY <1>9, WatchKeyStep DEF Live, RowsKept
  <2> QED
    BY <1>1, <1>9, <2>1 DEF WatchKey
<1>10. ASSUME NEW t \in Messages, Cancel(t)
       PROVE  RowsKept'
  BY <1>10 DEF Cancel, RowsKept, Owned, Live
<1>11. ASSUME NEW t \in Messages, Expire(t)
       PROVE  RowsKept'
  <2>1. rows'[t].state = rows[t].state /\ rows'[t].context = rows[t].context
        /\ \A u \in Messages : u # t => rows'[u] = rows[u]
    BY <1>11 DEF Expire, TypeOK, Row
  <2>2. \A u \in Messages : u # t /\ Owned(u) => Owned(u)'
    BY <2>1 DEF Owned
  <2>3. /\ \A m \in Messages : runners[m].task # t
        /\ \A w \in writes : w.task # t
        /\ canceller.task # t
        /\ UNCHANGED <<threads, runners, writes, canceller>>
    BY <1>11 DEF Expire
  <2> QED
    BY <2>1, <2>2, <2>3 DEF RowsKept, Live, TypeOK, Write
<1>12. CASE CancelStopRunner
  <2>1. canceller.task \in Messages
    BY <1>12 DEF CancelStopRunner, LockHeld, TypeOK
  <2>2. /\ \A n \in Messages : ToldToStop(n)
        /\ canceller'.task = canceller.task
    BY <1>12, <2>1, CancelStopRunnerStep
  <2>3. \A n \in Messages : IF Live(n)' THEN Live(n) /\ runners'[n].task = runners[n].task
                            ELSE runners'[n].task = NoMessage
    BY <2>2 DEF ToldToStop, Live, RowsKept
  <2> QED
    BY <1>1, <1>12, <2>2, <2>3 DEF CancelStopRunner
<1>13. CASE CancelRunnerStopped \/ CancelStartSave \/ CancelSaved
  <2>1. canceller'.task \in {NoMessage, canceller.task}
    BY <1>13 DEF CancelRunnerStopped, CancelStartSave, CancelSaved, CancelReturns, NoCancel, TypeOK
  <2>2. \A w \in writes' : w \in writes \/ (w.task = canceller.task /\ canceller.task # NoMessage)
    BY <1>13 DEF CancelRunnerStopped, CancelStartSave, CancelSaved, LockHeld
  <2>3. UNCHANGED <<rows, threads, runners>>
    BY <1>13 DEF CancelRunnerStopped, CancelStartSave, CancelSaved
  <2>4. \A n \in Messages : IF Live(n)' THEN Live(n) /\ runners'[n].task = runners[n].task
                            ELSE runners'[n].task = NoMessage
    BY <2>3 DEF Live, RowsKept
  <2> QED
    BY <1>1, <2>1, <2>2, <2>3, <2>4
<1>14. CASE Sweep \/ Close
  BY <1>14 DEF Sweep, Close, RowsKept, Owned, Live
<1>15. CASE Prune
  <2> DEFINE gone == {t \in Messages : rows[t].expired /\ rows[t].state \notin ACTIVE}
  <2>1. \A t \in Messages : rows'[t] = IF t \in gone THEN NoRow ELSE rows[t]
    BY <1>15 DEF Prune, DeleteRows
  <2>2. \A u \in Messages : Owned(u) => rows'[u] = rows[u] /\ Owned(u)'
    BY <2>1 DEF Owned
  <2>3. UNCHANGED <<threads, runners, writes, canceller>>
    BY <1>15 DEF Prune
  <2>4. \A u \in Messages : /\ rows'[u].state = "none" => rows'[u].context = NoContext
                            /\ rows'[u].state # "none" => rows'[u].context \in Contexts
                               /\ threads'[rows'[u].context] = "open"
    BY <2>1, <2>3 DEF RowsKept, NoRow
  <2> QED
    BY <2>2, <2>3, <2>4 DEF RowsKept, Live, TypeOK, Write
<1>16. ASSUME NEW c \in Contexts, DeleteCheckpoint(c)
       PROVE  RowsKept'
  BY <1>16 DEF DeleteCheckpoint, RowsKept, Owned, Live
<1>17. CASE DeleteContexts
  <2>1. \A c \in Contexts : threads'[c] = threads[c] \/ \A t \in Messages : rows[t].context # c
    BY <1>17 DEF DeleteContexts
  <2>2. UNCHANGED <<rows, runners, writes, canceller>>
    BY <1>17 DEF DeleteContexts
  <2> QED
    BY <2>1, <2>2 DEF RowsKept, Owned, Live
<1>18. CASE Start
  <2>1. \A t \in Messages : /\ rows'[t].context = rows[t].context
                            /\ rows'[t].expired = rows[t].expired
                            /\ rows'[t].state = "none" <=> rows[t].state = "none"
    BY <1>18 DEF Start, TypeOK, Row, ACTIVE
  <2>2. UNCHANGED <<threads, runners, writes, canceller>>
    BY <1>18 DEF Start
  <2>3. \A u \in Messages : Owned(u) <=> Owned(u)'
    BY <2>1 DEF Owned
  <2> QED
    BY <2>1, <2>2, <2>3 DEF RowsKept, Live, TypeOK, Write
<1>19. CASE CloseRunners
  <2>1. \A n \in Messages : IF Live(n)' THEN Live(n) /\ runners'[n].task = runners[n].task
                            ELSE runners'[n].task = NoMessage
    BY <1>19, CloseRunnersStep DEF ToldToStop, Live, RowsKept
  <2> QED
    BY <1>1, <1>19, <2>1 DEF CloseRunners
<1>20. CASE CloseDone \/ Crash
  <2>1. \A n \in Messages : IF Live(n)' THEN Live(n) /\ runners'[n].task = runners[n].task
                            ELSE runners'[n].task = NoMessage
    BY <1>20 DEF CloseDone, Crash, ProcessGone, NoRunner, Live
  <2>2. canceller'.task = NoMessage
    BY <1>20 DEF CloseDone, Crash, ProcessGone, NoCancel
  <2>3. writes' = {} \/ writes' = {Abandoned(w) : w \in writes}
    BY <1>20 DEF CloseDone, Crash, Abandoned
  <2>4. \A w \in writes : Abandoned(w).task = w.task
    BY AbandonedWrite DEF TypeOK
  <2>5. \A w \in writes' : \E v \in writes : v.task = w.task
    BY <2>3, <2>4
  <2> QED
    BY <1>1, <1>20, <2>1, <2>2, <2>5 DEF CloseDone, Crash
<1>21. CASE UNCHANGED vars
  BY <1>21 DEF vars, RowsKept, Owned, Live
<1> QED
  BY <1>2, <1>3, <1>4, <1>5, <1>6, <1>7, <1>8, <1>9, <1>10, <1>11, <1>12, <1>13, <1>14,
     <1>15, <1>16, <1>17, <1>18, <1>19, <1>20, <1>21
  DEF Next, RunnerStep, CancelStep, SweepStep, Admits

\* What a step does to the rows, unless it admits a message or prunes.
LEMMA RowsStep ==
    ASSUME TypeOK, RowsKept, [Next]_vars,
           \A m, t \in Messages : ~Admits(m, t), ~Prune
    PROVE  /\ UNCHANGED <<records, launched, asked>> \/ \E t \in Messages : Cancel(t)
           /\ UNCHANGED <<records, launched>>
           /\ \A t \in Messages : /\ rows'[t].context = rows[t].context
                                  /\ rows'[t].state = "none" <=> rows[t].state = "none"
                                  /\ rows'[t].state = rows[t].state \/ Start
                                     \/ \E w \in writes : CommitSave(w)
<1> USE DEF stored, process, history
<1>1. ASSUME NEW w \in writes, CommitSave(w)
      PROVE  /\ UNCHANGED <<records, launched, asked>>
             /\ \A t \in Messages : /\ rows'[t].context = rows[t].context
                                    /\ rows'[t].state = "none" <=> rows[t].state = "none"
  <2>1. Owned(w.task) /\ w.task \in Messages /\ w.state # "none"
    BY DEF RowsKept, TypeOK, Write, ACTIVE, PAUSED, RESERVED, Terminal
  <2>2. \/ /\ rows'[w.task].state = w.state
           /\ rows'[w.task].context = rows[w.task].context
           /\ \A t \in Messages : t # w.task => rows'[t] = rows[t]
        \/ rows' = rows
    BY <1>1, CommitSaveStep
  <2>3. UNCHANGED <<records, launched, asked>>
    BY <1>1 DEF CommitSave
  <2> QED
    BY <2>1, <2>2, <2>3 DEF Owned
<1>2. ASSUME NEW t \in Messages, Expire(t)
      PROVE  /\ UNCHANGED <<records, launched, asked>>
             /\ \A u \in Messages : rows'[u].context = rows[u].context
                /\ rows'[u].state = rows[u].state
  <2>1. rows'[t].state = rows[t].state /\ rows'[t].context = rows[t].context
        /\ \A u \in Messages : u # t => rows'[u] = rows[u]
    BY <1>2 DEF Expire, TypeOK, Row
  <2> QED
    BY <1>2, <2>1 DEF Expire
<1>3. CASE Start
  <2>1. \A t \in Messages : /\ rows'[t].context = rows[t].context
                            /\ rows'[t].state = "none" <=> rows[t].state = "none"
    BY <1>3 DEF Start, TypeOK, Row, ACTIVE
  <2> QED
    BY <1>3, <2>1 DEF Start
<1>4. CASE rows' = rows /\ UNCHANGED <<records, launched, asked>>
  BY <1>4
<1>5. ASSUME NEW t \in Messages, Cancel(t)
      PROVE  rows' = rows /\ UNCHANGED <<records, launched>>
  BY <1>5 DEF Cancel
<1>6. ASSUME NEW m \in Messages, \/ RunnerStep(m) \/ WatchKey(m)
                                 \/ \E outcome \in GraphOutcomes : GraphStep(m, outcome)
      PROVE  rows' = rows /\ UNCHANGED <<records, launched, asked>>
  BY <1>6 DEF RunnerStep, StartSave, SaveReturns, RunnerOnly, Interrupted, RunnerDone, WatchKey,
     GraphStep
<1>7. CASE CancelStep \/ Sweep \/ Close \/ CloseRunners \/ CloseDone \/ Crash
  BY <1>7 DEF CancelStep, CancelStopRunner, CancelRunnerStopped, CancelStartSave, CancelSaved,
              Sweep, Close, CloseRunners, CloseDone, Crash
<1>8. CASE DeleteContexts \/ \E c \in Contexts : DeleteCheckpoint(c)
  BY <1>8 DEF DeleteContexts, DeleteCheckpoint
<1>9. CASE UNCHANGED vars
  BY <1>9 DEF vars
<1> QED
  BY <1>1, <1>2, <1>3, <1>4, <1>5, <1>6, <1>7, <1>8, <1>9 DEF Next, SweepStep, Admits

\* What Prune deletes.
LEMMA PruneStep ==
    ASSUME TypeOK, Prune
    PROVE  /\ \A t \in Messages : Owned(t) => rows'[t] = rows[t]
           /\ \A t \in Messages : rows'[t] = rows[t] \/ (rows'[t] = NoRow /\ ~Owned(t))
           /\ \A m \in Messages :
                \/ records'[m] = NoMessage /\ launched'[m] = 0
                \/ records'[m] = records[m] /\ launched'[m] = launched[m]
                   /\ (records[m] # NoMessage => rows'[records[m]] = rows[records[m]])
           /\ \A t \in Messages : rows'[t].state # "none" =>
                 rows'[t] = rows[t] /\ (t \in asked => t \in asked')
           /\ asked' \subseteq asked
           /\ sweeper'.pc = "retiring" /\ sweeper'.left = sweeper'.retired
           /\ \A c \in sweeper'.retired, t \in Messages : rows'[t].context # c
           /\ UNCHANGED <<threads, checkpoints, server, lock, runners, current, revoked,
                          writes, canceller, faults, disturbed>>
<1> DEFINE gone == {t \in Messages : rows[t].expired /\ rows[t].state \notin ACTIVE}
           empty == {c \in Contexts : /\ threads[c] = "open"
                                      /\ \A t \in Messages \ gone : rows[t].context # c}
<1>1. DeleteRows(gone) /\ sweeper' = [pc |-> "retiring", retired |-> empty, left |-> empty]
      /\ UNCHANGED <<threads, checkpoints, server, lock, runners, current, revoked,
                     writes, canceller, faults, disturbed>>
  BY DEF Prune
<1>2. \A t \in gone : ~Owned(t)
  BY DEF Owned
<1>3. \A c \in empty, t \in Messages \ gone : rows[t].context # c
  OBVIOUS
<1>4. \A c \in empty : c \in Contexts
  OBVIOUS
<1>5. gone \subseteq Messages
  OBVIOUS
<1> HIDE DEF gone, empty
<1>6. /\ \A t \in Messages : rows'[t] = IF t \in gone THEN NoRow ELSE rows[t]
      /\ \A m \in Messages : records'[m] = IF records[m] \in gone THEN NoMessage ELSE records[m]
      /\ \A m \in Messages : launched'[m] = IF records[m] \in gone THEN 0 ELSE launched[m]
      /\ asked' = asked \ gone
  BY <1>1 DEF DeleteRows
<1>7. \A c \in empty, t \in Messages : rows'[t].context # c
  BY <1>3, <1>4, <1>6, AgentTasksAssumption DEF NoRow, AgentTasksAssumption
<1>8. \A m \in Messages : records[m] \in Messages \cup {NoMessage}
  BY DEF TypeOK
<1>9. \A m \in Messages :
                \/ records'[m] = NoMessage /\ launched'[m] = 0
                \/ records'[m] = records[m] /\ launched'[m] = launched[m]
                   /\ (records[m] # NoMessage => rows'[records[m]] = rows[records[m]])
  BY <1>6, <1>8
<1>10. NoRow.state = "none"
  BY DEF NoRow
<1> QED
  BY <1>1, <1>2, <1>5, <1>6, <1>7, <1>9, <1>10

\* Every step keeps a record with the row of its task.
LEMMA NextRecordsKept == TypeOK /\ RowsKept /\ RecordsKept /\ [Next]_vars => RecordsKept'
<1> SUFFICES ASSUME TypeOK, RowsKept, RecordsKept, [Next]_vars
             PROVE  RecordsKept'
  OBVIOUS
<1>1. ASSUME NEW m \in Messages, NEW t \in Messages, Admits(m, t)
      PROVE  RecordsKept'
  <2>1. /\ Launch(m, t) /\ Record(m, t)
        /\ \A u \in Messages : u # t => rows'[u] = IF u \in Outdated(m) THEN NoRow ELSE rows[u]
        /\ rows'[t].state = "SUBMITTED"
    BY <1>1, AdmitStep
  <2>2. \A n \in Messages : records[n] \in Messages \cup {NoMessage}
    BY DEF TypeOK
  <2>3. NoMessage \notin Outdated(m)
    BY DEF Outdated
  <2>4. /\ records'[m] = t
        /\ \A n \in Messages : n # m =>
              records'[n] = IF records[n] \in Outdated(m) THEN NoMessage ELSE records[n]
    BY <2>1 DEF Record
  <2>5. /\ launched'[m] = IF records[m] \in Outdated(m) THEN 1 ELSE launched[m] + 1
        /\ \A n \in Messages : n # m =>
              launched'[n] = IF records[n] \in Outdated(m) THEN 0 ELSE launched[n]
    BY <2>1 DEF Launch
  <2>6. records[m] \notin Outdated(m) => records[m] = NoMessage /\ launched[m] = 0
    BY <2>2 DEF Outdated, RecordsKept
  <2>7. t # NoMessage
    BY AgentTasksAssumption DEF AgentTasksAssumption
  <2>8. ASSUME NEW n \in Messages, n # m
        PROVE  IF records'[n] = NoMessage THEN launched'[n] = 0
               ELSE launched'[n] <= 1 /\ rows'[records'[n]].state # "none"
    BY <2>1, <2>2, <2>3, <2>4, <2>5, <2>8 DEF RecordsKept
  <2> QED
    BY <2>1, <2>4, <2>5, <2>6, <2>7, <2>8 DEF RecordsKept
<1>2. CASE Prune
  BY <1>2, PruneStep DEF RecordsKept, TypeOK
<1>3. CASE ~Prune /\ \A m, t \in Messages : ~Admits(m, t)
  <2>1. /\ UNCHANGED <<records, launched>>
        /\ \A t \in Messages : rows'[t].state = "none" <=> rows[t].state = "none"
    BY <1>3, RowsStep
  <2> QED
    BY <2>1 DEF RecordsKept, TypeOK
<1> QED
  BY <1>1, <1>2, <1>3

\* Every step keeps a retired thread without tasks, and checkpoints with threads.
LEMMA NextContextsKept ==
    TypeOK /\ LockHeld /\ RowsKept /\ ContextsKept /\ [Next]_vars => ContextsKept'
<1> SUFFICES ASSUME TypeOK, LockHeld, RowsKept, ContextsKept, [Next]_vars
             PROVE  ContextsKept'
  OBVIOUS
<1> USE DEF stored, process, history
<1>1. ASSUME NEW m \in Messages, NEW t \in Messages, Admits(m, t)
      PROVE  ContextsKept'
  <2>1. /\ Serving /\ UNCHANGED <<checkpoints, sweeper>>
        /\ \A c \in Contexts : threads'[c] = threads[c] \/ threads'[c] = "open"
    BY <1>1, AdmitStep
  <2>2. sweeper'.pc # "retiring"
    BY <2>1 DEF Serving, LockHeld
  <2> QED
    BY <2>1, <2>2 DEF ContextsKept, NoOrphanedCheckpoint, TypeOK
<1>2. CASE Prune
  BY <1>2, PruneStep DEF ContextsKept, NoOrphanedCheckpoint
<1>3. ASSUME ~Prune, \A m, t \in Messages : ~Admits(m, t),
             UNCHANGED <<threads, checkpoints>>, sweeper' = sweeper \/ sweeper'.pc # "retiring"
      PROVE  ContextsKept'
  <2>1. \A t \in Messages : rows'[t].context = rows[t].context
    BY <1>3, RowsStep
  <2> QED
    BY <1>3, <2>1 DEF ContextsKept, NoOrphanedCheckpoint
<1>12. ASSUME UNCHANGED <<threads, checkpoints>>, sweeper' = sweeper \/ sweeper'.pc # "retiring"
       PROVE  ContextsKept'
  BY <1>1, <1>2, <1>3, <1>12
<1>4. ASSUME NEW m \in Messages, NEW outcome \in GraphOutcomes, GraphStep(m, outcome)
      PROVE  ContextsKept'
  <2>1. UNCHANGED <<rows, threads, sweeper>>
        /\ checkpoints' = checkpoints \cup {rows[runners[m].task].context}
    BY <1>4 DEF GraphStep
  <2>2. runners[m].task \in Messages /\ rows[runners[m].task].context \in Contexts
        /\ threads[rows[runners[m].task].context] = "open"
    BY <1>4 DEF GraphStep, RowsKept, Owned, Live
  <2> QED
    BY <2>1, <2>2 DEF ContextsKept, NoOrphanedCheckpoint
<1>5. ASSUME NEW c \in Contexts, DeleteCheckpoint(c)
      PROVE  ContextsKept'
  <2>1. /\ sweeper.pc = "retiring" /\ c \in sweeper.left /\ checkpoints' = checkpoints \ {c}
        /\ UNCHANGED <<rows, threads>>
    BY <1>5 DEF DeleteCheckpoint
  <2>2. sweeper'.retired = sweeper.retired /\ sweeper'.left = sweeper.left \ {c}
    BY <1>5 DEF DeleteCheckpoint, TypeOK
  <2> QED
    BY <2>1, <2>2 DEF ContextsKept, NoOrphanedCheckpoint
<1>6. CASE DeleteContexts
  <2>1. /\ sweeper.pc = "retiring" /\ sweeper.left = {} /\ sweeper'.pc = "none"
        /\ UNCHANGED <<rows, checkpoints>>
        /\ \A c \in Contexts : threads'[c] = threads[c] \/ c \in sweeper.retired
    BY <1>6 DEF DeleteContexts, NoSweep
  <2> QED
    BY <2>1 DEF ContextsKept, NoOrphanedCheckpoint, TypeOK
<1>7. ASSUME NEW m \in Messages, RunnerStep(m) \/ WatchKey(m)
      PROVE  ContextsKept'
  BY <1>7, <1>12 DEF RunnerStep, StartSave, SaveReturns, RunnerOnly, Interrupted, RunnerDone,
     WatchKey
<1>8. ASSUME NEW w \in writes, CommitSave(w)
      PROVE  ContextsKept'
  BY <1>8, <1>12 DEF CommitSave
<1>9. ASSUME NEW t \in Messages, Cancel(t) \/ Expire(t)
      PROVE  ContextsKept'
  BY <1>9, <1>12 DEF Cancel, Expire
<1>10. CASE CancelStep \/ Close \/ CloseRunners \/ UNCHANGED vars
  BY <1>10, <1>12 DEF CancelStep, CancelStopRunner, CancelRunnerStopped, CancelStartSave,
     CancelSaved,
              Close, CloseRunners, vars
<1>11. CASE Sweep \/ Start \/ CloseDone \/ Crash
  <2>1. UNCHANGED <<threads, checkpoints>> /\ sweeper'.pc # "retiring"
    BY <1>11 DEF Sweep, Start, CloseDone, Crash, ProcessGone, NoSweep
  <2> QED
    BY <1>12, <2>1
<1> QED
  BY <1>1, <1>2, <1>4, <1>5, <1>6, <1>7, <1>8, <1>9, <1>10, <1>11
  DEF Next, SweepStep, Admits

\* Every step keeps the checkpoint of a task that is, or is about to be, paused.
LEMMA NextPausedKept ==
    TypeOK /\ LockHeld /\ RowsKept /\ ContextsKept /\ PausedKept /\ [Next]_vars => PausedKept'
<1> SUFFICES ASSUME TypeOK, LockHeld, RowsKept, ContextsKept, PausedKept, [Next]_vars
             PROVE  PausedKept'
  OBVIOUS
<1> USE DEF stored, process, history
<1>1. ASSUME NEW m \in Messages, NEW t \in Messages, Admits(m, t)
      PROVE  PausedKept'
  <2>1. /\ \A u \in Outdated(m) : ~Owned(u)
        /\ \A u \in Messages : u # t => rows'[u] = IF u \in Outdated(m) THEN NoRow ELSE rows[u]
        /\ rows'[t].state = "SUBMITTED"
        /\ Owned(t) => rows'[t].context = rows[t].context
        /\ UNCHANGED <<writes, checkpoints>> /\ Launch(m, t) /\ Record(m, t)
    BY <1>1, AdmitStep
  <2>2. /\ runners'[m].state = "WORKING" /\ \A n \in Messages : n # m => runners'[n] = runners[n]
    BY <2>1, LaunchStep
  <2>3. \A u \in Messages : Owned(u) => rows'[u].context = rows[u].context
    BY <2>1
  <2>4. \A u \in Messages : rows'[u].state \in PAUSED => rows'[u].context \in checkpoints'
    BY <2>1 DEF PausedKept, PAUSED, NoRow
  <2>5. \A w \in writes' : w.state \in PAUSED => rows'[w.task].context \in checkpoints'
    BY <2>1, <2>3 DEF PausedKept, RowsKept, TypeOK, Write
  <2>6. \A n \in Messages : Live(n)' /\ runners'[n].state \in PAUSED =>
           rows'[runners'[n].task].context \in checkpoints'
    BY <2>1, <2>2, <2>3 DEF PausedKept, PAUSED, RowsKept, Live
  <2> QED
    BY <2>4, <2>5, <2>6 DEF PausedKept
<1>2. CASE Prune
  <2>1. /\ \A t \in Messages : Owned(t) => rows'[t] = rows[t]
        /\ \A t \in Messages : rows'[t] = rows[t] \/ rows'[t] = NoRow
        /\ UNCHANGED <<checkpoints, runners, writes>>
    BY <1>2, PruneStep
  <2>2. \A u \in Messages : rows'[u].state \in PAUSED => rows'[u].context \in checkpoints'
    BY <2>1 DEF PausedKept, PAUSED, NoRow
  <2>3. \A w \in writes' : w.state \in PAUSED => rows'[w.task].context \in checkpoints'
    BY <2>1 DEF PausedKept, RowsKept, TypeOK, Write
  <2>4. \A n \in Messages : Live(n)' /\ runners'[n].state \in PAUSED =>
           rows'[runners'[n].task].context \in checkpoints'
    BY <2>1 DEF PausedKept, RowsKept, Live
  <2> QED
    BY <2>2, <2>3, <2>4 DEF PausedKept
<1>3. ASSUME \A t \in Messages : /\ rows'[t].context = rows[t].context
                                 /\ rows'[t].state \in PAUSED => rows[t].state \in PAUSED,
             checkpoints \subseteq checkpoints',
             \A w \in writes' : \/ w.state \notin PAUSED
                                \/ \E v \in writes : w.task = v.task /\ w.state = v.state
                                \/ \E n \in Messages : Live(n) /\ w.task = runners[n].task
                                   /\ w.state = runners[n].state,
             \A n \in Messages : Live(n)' /\ runners'[n].state \in PAUSED =>
                /\ Live(n) /\ runners'[n].task = runners[n].task
                /\ runners'[n].state = runners[n].state
                   \/ rows[runners[n].task].context \in checkpoints'
      PROVE  PausedKept'
  <2>1. \A u \in Messages : rows'[u].state \in PAUSED => rows'[u].context \in checkpoints'
    BY <1>3 DEF PausedKept
  <2>2. \A w \in writes' : w.state \in PAUSED => rows'[w.task].context \in checkpoints'
    BY <1>3 DEF PausedKept, RowsKept, TypeOK, Write
  <2>3. \A n \in Messages : Live(n)' /\ runners'[n].state \in PAUSED =>
           rows'[runners'[n].task].context \in checkpoints'
    BY <1>3 DEF PausedKept, RowsKept
  <2> QED
    BY <2>1, <2>2, <2>3 DEF PausedKept
<1>4. ASSUME NEW m \in Messages, StartSave(m)
      PROVE  PausedKept'
  <2>1. /\ rows' = rows /\ checkpoints' = checkpoints
        /\ \A w \in writes' : w \in writes
           \/ (w.task = runners[m].task /\ w.state = runners[m].state)
    BY <1>4 DEF StartSave
  <2>2. /\ Live(m) /\ \A n \in Messages : Live(n)' => Live(n)
           /\ runners'[n].task = runners[n].task /\ runners'[n].state = runners[n].state
    BY <1>4, StartSaveStep DEF Live
  <2> QED
    BY <1>3, <2>1, <2>2
<1>5. ASSUME NEW w \in writes, CommitSave(w)
      PROVE  PausedKept'
  <2>1. \A n \in Messages : Live(n)' => Live(n) /\ runners'[n].task = runners[n].task
        /\ runners'[n].state = runners[n].state
    BY <1>5, CommitSaveStep DEF Live
  <2>2. \/ /\ rows'[w.task].state = w.state
           /\ rows'[w.task].context = rows[w.task].context
           /\ \A t \in Messages : t # w.task => rows'[t] = rows[t]
        \/ rows' = rows
    BY <1>5, CommitSaveStep
  <2>3. checkpoints' = checkpoints /\ writes' \subseteq writes
    BY <1>5 DEF CommitSave
  <2>4. \A u \in Messages : rows'[u].state \in PAUSED => rows'[u].context \in checkpoints'
    BY <2>2, <2>3 DEF PausedKept
  <2>5. \A u \in Messages : rows'[u].context = rows[u].context
    BY <2>2
  <2>6. \A v \in writes' : v.state \in PAUSED => rows'[v.task].context \in checkpoints'
    BY <2>3, <2>5 DEF PausedKept, TypeOK, Write
  <2>7. \A n \in Messages : Live(n)' /\ runners'[n].state \in PAUSED =>
           rows'[runners'[n].task].context \in checkpoints'
    BY <2>1, <2>3, <2>5 DEF PausedKept, RowsKept
  <2> QED
    BY <2>4, <2>6, <2>7 DEF PausedKept
<1>6. ASSUME NEW m \in Messages, SaveReturns(m)
      PROVE  PausedKept'
  <2>1. UNCHANGED <<rows, checkpoints, writes>>
    BY <1>6 DEF SaveReturns, RunnerOnly
  <2>2. \A n \in Messages : Live(n)' /\ runners'[n].state \in PAUSED => Live(n)
        /\ runners'[n].task = runners[n].task /\ runners'[n].state = runners[n].state
    BY <1>6, SaveReturnsStep DEF Live, PAUSED
  <2> QED
    BY <1>3, <2>1, <2>2
<1>7. ASSUME NEW m \in Messages, NEW outcome \in GraphOutcomes, GraphStep(m, outcome)
      PROVE  PausedKept'
  <2>1. UNCHANGED <<rows, writes>>
        /\ checkpoints' = checkpoints \cup {rows[runners[m].task].context}
    BY <1>7 DEF GraphStep
  <2>2. \A n \in Messages : Live(n)' => Live(n) /\ runners'[n].task = runners[n].task
        /\ (n = m \/ runners'[n].state = runners[n].state)
    BY <1>7, GraphStepStep DEF Live
  <2> QED
    BY <1>3, <2>1, <2>2
<1>8. ASSUME NEW m \in Messages, Interrupted(m)
      PROVE  PausedKept'
  <2>1. UNCHANGED <<rows, checkpoints>>
    BY <1>8 DEF Interrupted
  <2>2. \A n \in Messages : Live(n)' /\ runners'[n].state \in PAUSED => Live(n)
        /\ runners'[n].task = runners[n].task /\ runners'[n].state = runners[n].state
    BY <1>8, InterruptedStep DEF Live, PAUSED
  <2>3. \A w \in writes' : \E v \in writes : w.task = v.task /\ w.state = v.state
    BY <1>8, InterruptedStep
  <2> QED
    BY <1>3, <2>1, <2>2, <2>3
<1>9. ASSUME NEW m \in Messages, RunnerDone(m) \/ WatchKey(m)
      PROVE  PausedKept'
  <2>1. UNCHANGED <<rows, checkpoints, writes>>
    BY <1>9 DEF RunnerDone, WatchKey
  <2>2. ASSUME RunnerDone(m)
        PROVE  \A n \in Messages : Live(n)' => runners'[n] = runners[n]
    BY <2>2 DEF RunnerDone, Live, TypeOK, NoRunner
  <2>3. \A n \in Messages : Live(n)' => Live(n) /\ runners'[n].task = runners[n].task
        /\ runners'[n].state = runners[n].state
    BY <1>9, <2>2, WatchKeyStep DEF Live
  <2> QED
    BY <1>3, <2>1, <2>3
<1>10. ASSUME UNCHANGED <<runners, checkpoints>>,
              \A w \in writes' : \/ w.state \notin PAUSED
                                 \/ \E v \in writes : w.task = v.task /\ w.state = v.state,
              \A t \in Messages : /\ rows'[t].context = rows[t].context
                                  /\ rows'[t].state \in PAUSED => rows[t].state \in PAUSED
       PROVE  PausedKept'
  BY <1>3, <1>10 DEF Live
<1>11. ASSUME NEW t \in Messages, Cancel(t) \/ Expire(t)
       PROVE  PausedKept'
  <2>1. \A u \in Messages : rows'[u].context = rows[u].context /\ rows'[u].state = rows[u].state
    BY <1>11 DEF Cancel, Expire, TypeOK, Row
  <2>2. UNCHANGED <<runners, checkpoints, writes>>
    BY <1>11 DEF Cancel, Expire
  <2> QED
    BY <1>10, <2>1, <2>2
<1>12. CASE CancelStopRunner
  <2>1. canceller.task \in Messages
    BY <1>12 DEF CancelStopRunner, LockHeld, TypeOK
  <2>2. \A n \in Messages : ToldToStop(n)
    BY <1>12, <2>1, CancelStopRunnerStep
  <2>3. UNCHANGED <<rows, checkpoints, writes>>
    BY <1>12 DEF CancelStopRunner
  <2> QED
    BY <1>3, <2>2, <2>3 DEF ToldToStop, Live
<1>13. CASE CancelRunnerStopped \/ CancelStartSave \/ CancelSaved
  <2>1. UNCHANGED <<rows, runners, checkpoints>>
    BY <1>13 DEF CancelRunnerStopped, CancelStartSave, CancelSaved
  <2>2. \A w \in writes' : w \in writes \/ w.state = "CANCELED"
    BY <1>13 DEF CancelRunnerStopped, CancelStartSave, CancelSaved
  <2> QED
    BY <1>10, <2>1, <2>2 DEF PAUSED
<1>14. ASSUME NEW c \in Contexts, DeleteCheckpoint(c)
       PROVE  PausedKept'
  <2>1. /\ sweeper.pc = "retiring" /\ c \in sweeper.left /\ checkpoints' = checkpoints \ {c}
        /\ UNCHANGED <<rows, runners, writes>>
    BY <1>14 DEF DeleteCheckpoint
  <2>2. \A t \in Messages : rows[t].context # c
    BY <2>1 DEF ContextsKept
  <2>3. \A w \in writes : w.task \in Messages
    BY DEF TypeOK, Write
  <2>4. \A n \in Messages : Live(n) => runners[n].task \in Messages
    BY DEF RowsKept
  <2> QED
    BY <2>1, <2>2, <2>3, <2>4 DEF PausedKept, Live
<1>15. CASE Sweep \/ DeleteContexts \/ Close
  BY <1>10, <1>15 DEF Sweep, DeleteContexts, Close
<1>16. CASE Start
  <2>1. \A t \in Messages : /\ rows'[t].context = rows[t].context
                            /\ rows'[t].state \in PAUSED => rows[t].state \in PAUSED
    BY <1>16 DEF Start, TypeOK, Row, PAUSED
  <2> QED
    BY <1>10, <1>16, <2>1 DEF Start
<1>17. CASE CloseRunners
  <2>1. \A n \in Messages : ToldToStop(n)
    BY <1>17, CloseRunnersStep
  <2>2. UNCHANGED <<rows, checkpoints, writes>>
    BY <1>17 DEF CloseRunners
  <2> QED
    BY <1>3, <2>1, <2>2 DEF ToldToStop, Live
<1>18. CASE CloseDone \/ Crash
  <2>1. UNCHANGED <<rows, checkpoints>> /\ \A n \in Messages : ~Live(n)'
    BY <1>18 DEF CloseDone, Crash, ProcessGone, NoRunner, Live
  <2>2. writes' = {} \/ writes' = {Abandoned(w) : w \in writes}
    BY <1>18 DEF CloseDone, Crash, Abandoned
  <2>3. \A w \in writes : Abandoned(w).task = w.task /\ Abandoned(w).state = w.state
    BY AbandonedWrite DEF TypeOK
  <2>4. \A w \in writes' : \E v \in writes : w.task = v.task /\ w.state = v.state
    BY <2>2, <2>3
  <2> QED
    BY <1>3, <2>1, <2>4
<1>19. CASE UNCHANGED vars
  BY <1>10, <1>19 DEF vars
<1> QED
  BY <1>1, <1>2, <1>4, <1>5, <1>6, <1>7, <1>8, <1>9, <1>11, <1>12, <1>13, <1>14, <1>15, <1>16,
     <1>17, <1>18, <1>19
  DEF Next, RunnerStep, CancelStep, SweepStep, Admits

(***************************************************************************)
(* One execution per conversation                                          *)
(***************************************************************************)
\* The unique index of the database.
UniqueReserved ==
    \A s, t \in Messages :
        /\ s # t
        /\ rows[s].state \in RESERVED
        /\ rows[t].state \in RESERVED
        => rows[s].context # rows[t].context

\* Every step keeps the unique index.
LEMMA NextUniqueReserved == TypeOK /\ RowsKept /\ UniqueReserved /\ [Next]_vars => UniqueReserved'
<1> SUFFICES ASSUME TypeOK, RowsKept, UniqueReserved, [Next]_vars
             PROVE  UniqueReserved'
  OBVIOUS
<1> USE DEF stored, process, history
<1>1. ASSUME NEW m \in Messages, NEW t \in Messages, Admits(m, t)
      PROVE  UniqueReserved'
  <2>1. /\ \A u \in Messages : u # t => rows'[u] = IF u \in Outdated(m) THEN NoRow ELSE rows[u]
        /\ \/ rows[t].state \in PAUSED /\ rows'[t].context = rows[t].context
           \/ ~ContextReserved(rows'[t].context, Outdated(m))
    BY <1>1, AdmitStep
  <2>2. \A u \in Messages : u # t /\ rows'[u].state \in RESERVED =>
            u \notin Outdated(m) /\ rows'[u] = rows[u]
    BY <2>1 DEF NoRow, ACTIVE, PAUSED, RESERVED
  <2>3. \A u \in Messages : u # t /\ rows'[u].state \in RESERVED =>
           rows'[u].context # rows'[t].context
    BY <2>1, <2>2 DEF ContextReserved, UniqueReserved, RESERVED
  <2> QED
    BY <2>2, <2>3 DEF UniqueReserved
<1>2. ASSUME \A t \in Messages : rows'[t].state \in RESERVED =>
                rows[t].state \in RESERVED /\ rows'[t].context = rows[t].context
      PROVE  UniqueReserved'
  BY <1>2 DEF UniqueReserved
<1>3. CASE Prune
  BY <1>2, <1>3, PruneStep DEF NoRow, ACTIVE, PAUSED, RESERVED
<1>4. ASSUME NEW w \in writes, CommitSave(w)
      PROVE  UniqueReserved'
  <2>1. \/ /\ w.state \in RESERVED => ~ContextReserved(rows[w.task].context, {w.task})
           /\ rows'[w.task].state = w.state
           /\ rows'[w.task].context = rows[w.task].context
           /\ \A t \in Messages : t # w.task => rows'[t] = rows[t]
        \/ rows' = rows
    BY <1>4, CommitSaveStep
  <2> QED
    BY <2>1 DEF UniqueReserved, ContextReserved
<1>5. CASE Start
  BY <1>2, <1>5 DEF Start, TypeOK, Row, ACTIVE, PAUSED, RESERVED
<1>6. ASSUME \A m, t \in Messages : ~Admits(m, t), ~Prune, \A w \in writes : ~CommitSave(w), ~Start
      PROVE  UniqueReserved'
  BY <1>2, <1>6, RowsStep
<1> QED
  BY <1>1, <1>3, <1>4, <1>5, <1>6

(***************************************************************************)
(* Saves and their authors                                                 *)
(***************************************************************************)
\* A save in a thread belongs to the runner or the cancel() call that awaits it,
\* or to nobody, and then its task is disturbed.
WritesOwned ==
    \A w \in writes :
        /\ ~w.awaited => w.task \in disturbed
        /\ w.awaited /\ w.by \in Messages =>
              /\ runners[w.by].pc = "saving"
              /\ runners[w.by].task = w.task
              /\ runners[w.by].state = w.state
        /\ w.awaited /\ w.by = "cancel" =>
              /\ canceller.pc = "saving"
              /\ canceller.task = w.task
              /\ w.state = "CANCELED"

\* What a runner saves, by where it is in _run.
RunnerStates ==
    \A m \in Messages : Live(m) =>
        /\ runners[m].state # "SUBMITTED"
        /\ runners[m].handling => runners[m].state \in {"FAILED", "CANCELED"}
        /\ runners[m].pc = "saving" /\ runners[m].failed => runners[m].state \in RESERVED
        /\ runners[m].pc = "graph" => ~runners[m].handling /\ runners[m].state = "WORKING"

\* The steps of cancel() after it stopped the runner.
LEMMA CancelStepStep ==
    ASSUME TypeOK, CancelRunnerStopped \/ CancelStartSave \/ CancelSaved
    PROVE  /\ UNCHANGED <<stored, server, runners, current, revoked, sweeper, faults, history>>
           /\ \/ /\ canceller.pc = "awaiting" /\ ~Live(canceller.runner)
                 /\ rows[canceller.task].state \in RESERVED
                 /\ canceller'.pc = "locking" /\ canceller'.task = canceller.task
                 /\ writes' = writes
              \/ /\ canceller.pc = "awaiting"
                 /\ rows[canceller.task].state \notin RESERVED
                 /\ canceller' = NoCancel /\ writes' = writes
              \/ /\ canceller.pc = "locking"
                 /\ canceller'.pc = "saving" /\ canceller'.task = canceller.task
                 /\ writes' = writes \cup {[task |-> canceller.task, state |-> "CANCELED",
                                            by |-> "cancel", awaited |-> TRUE]}
              \/ /\ canceller.pc = "saving" /\ ~Awaiting("cancel")
                 /\ canceller' = NoCancel /\ writes' = writes
<1> USE DEF stored, history
<1>1. CASE CancelRunnerStopped
  <2>1. /\ canceller.pc = "awaiting" /\ ~Live(canceller.runner)
        /\ UNCHANGED <<stored, server, runners, current, revoked, writes, sweeper, faults, history>>
    BY <1>1 DEF CancelRunnerStopped
  <2>2. CASE rows[canceller.task].state \in RESERVED
    <3>1. canceller' = [canceller EXCEPT !.pc = "locking"]
      BY <1>1, <2>2 DEF CancelRunnerStopped
    <3> QED
      BY <2>1, <2>2, <3>1 DEF TypeOK
  <2>3. CASE rows[canceller.task].state \notin RESERVED
    <3>1. canceller' = NoCancel
      BY <1>1, <2>3 DEF CancelRunnerStopped, CancelReturns
    <3> QED
      BY <2>1, <2>3, <3>1
  <2> QED
    BY <2>2, <2>3
<1>2. CASE CancelStartSave
  <2>1. /\ canceller.pc = "locking" /\ canceller' = [canceller EXCEPT !.pc = "saving"]
        /\ writes' = writes \cup {[task |-> canceller.task, state |-> "CANCELED",
                                   by |-> "cancel", awaited |-> TRUE]}
        /\ UNCHANGED <<stored, server, runners, current, revoked, sweeper, faults, history>>
    BY <1>2 DEF CancelStartSave
  <2>2. canceller'.pc = "saving" /\ canceller'.task = canceller.task
    BY <2>1 DEF TypeOK
  <2> QED
    BY <2>1, <2>2
<1>3. CASE CancelSaved
  BY <1>3 DEF CancelSaved, CancelReturns
<1> QED
  BY <1>1, <1>2, <1>3

\* What ends the process leaves nobody.
LEMMA ProcessEnds ==
    ASSUME TypeOK, CloseDone \/ Crash
    PROVE  /\ \A n \in Messages : ~Live(n)' /\ runners'[n].task = NoMessage
           /\ \A t \in Messages : current'[t] = NoMessage
           /\ canceller'.pc = "none" /\ canceller'.task = NoMessage /\ sweeper'.pc = "none"
           /\ server' = "down" /\ disturbed \subseteq disturbed'
           /\ \A w \in writes' : ~w.awaited /\ w.task \in disturbed'
           /\ UNCHANGED <<stored, launched, asked>>
<1>1. ProcessGone /\ UNCHANGED <<stored, launched, asked>>
  BY DEF CloseDone, Crash, history
<1>2. /\ \A n \in Messages : ~Live(n)' /\ runners'[n].task = NoMessage
      /\ \A t \in Messages : current'[t] = NoMessage
      /\ canceller'.pc = "none" /\ canceller'.task = NoMessage /\ sweeper'.pc = "none"
      /\ server' = "down"
  BY <1>1 DEF ProcessGone, NoRunner, NoCancel, NoSweep, Live
<1>3. \/ writes' = {} /\ disturbed' = disturbed
      \/ writes' = {Abandoned(w) : w \in writes}
         /\ disturbed' = disturbed \cup {w.task : w \in writes}
  BY DEF CloseDone, Crash, Abandoned, history
<1>4. \A w \in writes : ~Abandoned(w).awaited /\ Abandoned(w).task = w.task
  BY AbandonedWrite DEF TypeOK
<1>5. \A w \in writes' : ~w.awaited /\ w.task \in disturbed'
  BY <1>3, <1>4
<1> QED
  BY <1>1, <1>2, <1>3, <1>5

\* Every step keeps the saves with their authors.
LEMMA NextWritesOwned ==
    TypeOK /\ LockHeld /\ RowsKept /\ WritesOwned /\ [Next]_vars => WritesOwned'
<1> SUFFICES ASSUME TypeOK, LockHeld, RowsKept, WritesOwned, [Next]_vars
             PROVE  WritesOwned'
  OBVIOUS
<1> USE DEF stored, process, history
<1>0. "cancel" \notin Messages
  BY AgentTasksAssumption DEF AgentTasksAssumption
<1>1. ASSUME disturbed \subseteq disturbed',
             \A w \in writes' : w \in writes \/ (~w.awaited /\ w.task \in disturbed'),
             \A n \in Messages : Awaiting(n) =>
                /\ runners'[n].pc = runners[n].pc
                /\ runners'[n].task = runners[n].task
                /\ runners'[n].state = runners[n].state,
             Awaiting("cancel") => canceller'.pc = canceller.pc /\ canceller'.task = canceller.task
      PROVE  WritesOwned'
  BY <1>1 DEF WritesOwned, Awaiting
<1>2. \A n \in Messages : Awaiting(n) => runners[n].pc = "saving"
  BY DEF WritesOwned, Awaiting
<1>3. Awaiting("cancel") => canceller.pc = "saving"
  BY DEF WritesOwned, Awaiting
<1>4. ASSUME NEW m \in Messages, NEW t \in Messages, Admits(m, t)
      PROVE  WritesOwned'
  <2>1. Launch(m, t) /\ Record(m, t) /\ UNCHANGED <<writes, canceller>>
    BY <1>4, AdmitStep
  <2>2. ~Live(m) /\ disturbed \subseteq disturbed' /\ \A n \in Messages : n # m =>
           runners'[n] = runners[n]
    BY <2>1, LaunchStep DEF Launch
  <2>3. ~Awaiting(m)
    BY <1>2, <2>2 DEF Live
  <2> QED
    BY <1>1, <2>1, <2>2, <2>3
<1>5. ASSUME NEW m \in Messages, StartSave(m)
      PROVE  WritesOwned'
  <2> DEFINE v == [task |-> runners[m].task, state |-> runners[m].state, by |-> m, awaited |-> TRUE]
  <2>1. writes' = writes \cup {v} /\ UNCHANGED <<canceller, disturbed>>
    BY <1>5 DEF StartSave
  <2>2. /\ runners[m].pc = "locking" /\ runners'[m].pc = "saving"
        /\ runners'[m].task = runners[m].task /\ runners'[m].state = runners[m].state
        /\ \A n \in Messages : n # m => runners'[n] = runners[n]
    BY <1>5, StartSaveStep
  <2>3. \A w \in writes : w.awaited => w.by # m
    BY <1>2, <2>2 DEF Awaiting
  <2>4. /\ v.by = m /\ v.awaited /\ v.task = runners'[m].task /\ v.state = runners'[m].state
        /\ m # "cancel"
    BY <1>0, <2>2
  <2> HIDE DEF v
  <2> QED
    BY <2>1, <2>2, <2>3, <2>4 DEF WritesOwned
<1>6. ASSUME NEW w \in writes, CommitSave(w)
      PROVE  WritesOwned'
  <2>1. \A n \in Messages : /\ runners'[n].pc = runners[n].pc /\ runners'[n].task = runners[n].task
                            /\ runners'[n].state = runners[n].state
    BY <1>6, CommitSaveStep
  <2>2. writes' = writes \ {w} /\ UNCHANGED <<canceller, disturbed>>
    BY <1>6 DEF CommitSave
  <2> QED
    BY <1>1, <2>1, <2>2
<1>7. ASSUME NEW m \in Messages, SaveReturns(m)
      PROVE  WritesOwned'
  <2>1. ~Awaiting(m) /\ \A n \in Messages : n # m => runners'[n] = runners[n]
    BY <1>7, SaveReturnsStep
  <2>2. UNCHANGED <<writes, canceller, disturbed>>
    BY <1>7 DEF SaveReturns, RunnerOnly
  <2> QED
    BY <1>1, <2>1, <2>2
<1>8. ASSUME NEW m \in Messages, NEW outcome \in GraphOutcomes, GraphStep(m, outcome)
      PROVE  WritesOwned'
  <2>1. runners[m].pc = "graph" /\ \A n \in Messages : n # m => runners'[n] = runners[n]
    BY <1>8, GraphStepStep
  <2>2. UNCHANGED <<writes, canceller, disturbed>> /\ ~Awaiting(m)
    BY <1>2, <1>8, <2>1 DEF GraphStep
  <2> QED
    BY <1>1, <2>1, <2>2
<1>9. ASSUME NEW m \in Messages, Interrupted(m)
      PROVE  WritesOwned'
  <2>1. /\ \A n \in Messages : n # m => runners'[n] = runners[n]
        /\ \A w \in writes' :
                 \/ w \in writes /\ ~(w.by = m /\ w.awaited)
                 \/ ~w.awaited /\ \E v \in writes : v.task = w.task /\ v.state = w.state
                    /\ v.by = m /\ v.awaited
        /\ disturbed' = IF runners[m].pc = "saving" \/ runners[m].handling
                        THEN disturbed \cup {runners[m].task} ELSE disturbed
    BY <1>9, InterruptedStep
  <2>2. canceller' = canceller
    BY <1>9 DEF Interrupted
  <2>3. \A w \in writes' : \/ w \in writes /\ ~(w.by = m /\ w.awaited)
                           \/ ~w.awaited /\ w.task \in disturbed'
    BY <2>1 DEF WritesOwned
  <2> QED
    BY <2>1, <2>2, <2>3 DEF WritesOwned
<1>10. ASSUME NEW m \in Messages, RunnerDone(m)
       PROVE  WritesOwned'
  <2>1. /\ runners[m].pc = "ending" /\ \A n \in Messages : n # m => runners'[n] = runners[n]
        /\ UNCHANGED <<writes, canceller, disturbed>>
    BY <1>10 DEF RunnerDone, TypeOK
  <2>2. ~Awaiting(m)
    BY <1>2, <2>1
  <2> QED
    BY <1>1, <2>1, <2>2
<1>11. ASSUME NEW m \in Messages, WatchKey(m)
       PROVE  WritesOwned'
  <2>1. \A n \in Messages : /\ runners'[n].pc = runners[n].pc /\ runners'[n].task = runners[n].task
                            /\ runners'[n].state = runners[n].state
    BY <1>11, WatchKeyStep
  <2>2. UNCHANGED <<writes, canceller, disturbed>>
    BY <1>11 DEF WatchKey
  <2> QED
    BY <1>1, <2>1, <2>2
<1>12. ASSUME NEW t \in Messages, Cancel(t)
       PROVE  WritesOwned'
  <2>1. lock = "free" /\ UNCHANGED <<runners, writes, disturbed>>
    BY <1>12 DEF Cancel
  <2> QED
    BY <1>1, <1>3, <2>1 DEF LockHeld
<1>13. CASE CancelStopRunner
  <2>1. canceller.task \in Messages
    BY <1>13 DEF CancelStopRunner, LockHeld, TypeOK
  <2>2. /\ canceller.pc = "looking" /\ \A n \in Messages : ToldToStop(n)
        /\ disturbed \subseteq disturbed'
    BY <1>13, <2>1, CancelStopRunnerStep
  <2>3. writes' = writes
    BY <1>13 DEF CancelStopRunner
  <2> QED
    BY <1>1, <1>3, <2>2, <2>3 DEF ToldToStop
<1>14. CASE CancelRunnerStopped \/ CancelStartSave \/ CancelSaved
  <2> DEFINE v == [task |-> canceller.task, state |-> "CANCELED", by |-> "cancel", awaited |-> TRUE]
  <2>1. /\ UNCHANGED <<runners, disturbed>>
        /\ \/ ~Awaiting("cancel") /\ writes' = writes
           \/ /\ ~Awaiting("cancel") /\ writes' = writes \cup {v}
              /\ canceller'.pc = "saving" /\ canceller'.task = canceller.task
    BY <1>3, <1>14, CancelStepStep
  <2>2. v.by = "cancel" /\ v.awaited /\ v.task = canceller.task /\ v.state = "CANCELED"
    OBVIOUS
  <2> HIDE DEF v
  <2> QED
    BY <1>0, <2>1, <2>2 DEF WritesOwned, Awaiting
<1>15. CASE Sweep \/ Prune \/ DeleteContexts \/ Start \/ Close
            \/ (\E t \in Messages : Expire(t)) \/ (\E c \in Contexts : DeleteCheckpoint(c))
  <2>1. UNCHANGED <<writes, canceller, runners, disturbed>>
    BY <1>15 DEF Sweep, Prune, DeleteContexts, Start, Close, Expire, DeleteCheckpoint
  <2> QED
    BY <1>1, <2>1
<1>16. CASE CloseRunners
  <2>1. \A n \in Messages : ToldToStop(n)
    BY <1>16, CloseRunnersStep
  <2>2. UNCHANGED <<writes, canceller, disturbed>>
    BY <1>16 DEF CloseRunners
  <2> QED
    BY <1>1, <2>1, <2>2 DEF ToldToStop
<1>17. CASE CloseDone \/ Crash
  BY <1>17, ProcessEnds DEF WritesOwned
<1>18. CASE UNCHANGED vars
  BY <1>1, <1>18 DEF vars
<1> QED
  BY <1>4, <1>5, <1>6, <1>7, <1>8, <1>9, <1>10, <1>11, <1>12, <1>13, <1>14, <1>15, <1>16,
     <1>17, <1>18
  DEF Next, RunnerStep, CancelStep, SweepStep, Admits

\* Every step keeps what a runner may be saving.
LEMMA NextRunnerStates ==
    TypeOK /\ LockHeld /\ RowsKept /\ WritesOwned /\ RunnerStates /\ [Next]_vars => RunnerStates'
<1> SUFFICES ASSUME TypeOK, LockHeld, RowsKept, WritesOwned, RunnerStates, [Next]_vars
             PROVE  RunnerStates'
  OBVIOUS
<1> USE DEF stored, process, history
<1>1. ASSUME \A n \in Messages : Live(n)' =>
                /\ Live(n) /\ runners'[n].state = runners[n].state
                /\ runners'[n].handling = runners[n].handling
                /\ runners'[n].failed = runners[n].failed
                /\ runners'[n].pc = runners[n].pc
      PROVE  RunnerStates'
  BY <1>1 DEF RunnerStates
<1>2. ASSUME NEW m \in Messages, NEW t \in Messages, Admits(m, t)
      PROVE  RunnerStates'
  <2>1. Launch(m, t) /\ Record(m, t)
    BY <1>2, AdmitStep
  <2> QED
    BY <2>1, LaunchStep DEF RunnerStates, Live
<1>3. ASSUME NEW m \in Messages, StartSave(m)
      PROVE  RunnerStates'
  BY <1>3, StartSaveStep DEF RunnerStates, Live
<1>4. ASSUME NEW w \in writes, CommitSave(w)
      PROVE  RunnerStates'
  <2>1. \A n \in Messages : /\ runners'[n].pc = runners[n].pc
                            /\ runners'[n].state = runners[n].state
                            /\ runners'[n].handling = runners[n].handling
    BY <1>4, CommitSaveStep
  <2>2. \A n \in Messages : runners'[n].failed # runners[n].failed =>
                               n = w.by /\ w.awaited /\ w.state \in RESERVED
    BY <1>4, CommitSaveStep DEF RowsKept
  <2>3. \A n \in Messages : runners'[n].failed # runners[n].failed => runners[n].state \in RESERVED
    BY <2>2 DEF WritesOwned
  <2>4. \A n \in Messages : runners'[n].failed \in BOOLEAN /\ runners[n].failed \in BOOLEAN
    BY <1>4, CommitSaveStep DEF TypeOK, Runner
  <2> QED
    BY <2>1, <2>3, <2>4 DEF RunnerStates, Live
<1>5. ASSUME NEW m \in Messages, SaveReturns(m)
      PROVE  RunnerStates'
  BY <1>5, SaveReturnsStep DEF RunnerStates, Live
<1>6. ASSUME NEW m \in Messages, NEW outcome \in GraphOutcomes, GraphStep(m, outcome)
      PROVE  RunnerStates'
  BY <1>6, GraphStepStep DEF RunnerStates, Live
<1>7. ASSUME NEW m \in Messages, Interrupted(m)
      PROVE  RunnerStates'
  BY <1>7, InterruptedStep DEF RunnerStates, Live
<1>8. ASSUME NEW m \in Messages, RunnerDone(m)
      PROVE  RunnerStates'
  BY <1>1, <1>8 DEF RunnerDone, TypeOK, NoRunner, Live
<1>9. ASSUME NEW m \in Messages, WatchKey(m)
      PROVE  RunnerStates'
  BY <1>1, <1>9, WatchKeyStep DEF Live
<1>10. CASE CancelStopRunner \/ CloseRunners
  <2>1. CancelStopRunner => canceller.task \in Messages
    BY DEF CancelStopRunner, LockHeld, TypeOK
  <2>2. \A n \in Messages : ToldToStop(n)
    BY <1>10, <2>1, CancelStopRunnerStep, CloseRunnersStep
  <2> QED
    BY <1>1, <2>2 DEF ToldToStop, Live
<1>11. CASE CancelRunnerStopped \/ CancelStartSave \/ CancelSaved
  BY <1>1, <1>11, CancelStepStep DEF Live
<1>12. CASE Sweep \/ Prune \/ DeleteContexts \/ Start \/ Close \/ UNCHANGED vars
            \/ (\E t \in Messages : Expire(t) \/ Cancel(t))
               \/ (\E c \in Contexts : DeleteCheckpoint(c))
  <2>1. runners' = runners
    BY <1>12 DEF Sweep, Prune, DeleteContexts, Start, Close, Expire, Cancel, DeleteCheckpoint, vars
  <2> QED
    BY <1>1, <2>1 DEF Live
<1>13. CASE CloseDone \/ Crash
  BY <1>13, ProcessEnds DEF RunnerStates
<1> QED
  BY <1>2, <1>3, <1>4, <1>5, <1>6, <1>7, <1>8, <1>9, <1>10, <1>11, <1>12, <1>13
  DEF Next, RunnerStep, CancelStep, SweepStep, Admits

(***************************************************************************)
(* One runner per task                                                     *)
(***************************************************************************)
\* The runner of a task that is alone is the one AgentRuntime.runners names, and
\* once cancel() has stopped it there is none.
OneRunner ==
    /\ \A m \in Messages : Live(m) /\ Alone(runners[m].task) => current[runners[m].task] = m
    /\ \A t \in Messages : current[t] # NoMessage =>
          Live(current[t]) /\ runners[current[t]].task = t
    /\ \A m \in Messages :
          Live(m) /\ Alone(runners[m].task) /\ runners[m].task = canceller.task =>
             /\ canceller.pc \notin {"locking", "saving"}
             /\ canceller.pc = "awaiting" => m = canceller.runner

\* Every step keeps one runner for a task that is alone.
LEMMA NextOneRunner ==
    TypeOK /\ LockHeld /\ RowsKept /\ OneRunner /\ [Next]_vars => OneRunner'
<1> SUFFICES ASSUME TypeOK, LockHeld, RowsKept, OneRunner, [Next]_vars
             PROVE  OneRunner'
  OBVIOUS
<1> USE DEF stored, process, history
<1>0. NoMessage \notin Messages
  BY AgentTasksAssumption DEF AgentTasksAssumption
<1>1. ASSUME disturbed \subseteq disturbed', current' = current,
             \A n \in Messages : (Live(n)' <=> Live(n)) /\ runners'[n].task = runners[n].task
      PROVE  /\ \A m \in Messages : Live(m)' /\ runners'[m].task \notin disturbed' =>
                    current'[runners'[m].task] = m
             /\ \A t \in Messages : current'[t] # NoMessage =>
                    current'[t] \in Messages /\ Live(current[t])' /\ runners'[current'[t]].task = t
  <2>1. \A t \in Messages : current[t] # NoMessage => current[t] \in Messages
    BY DEF TypeOK
  <2> QED
    BY <1>1, <2>1 DEF OneRunner, Alone
<1>2. ASSUME disturbed \subseteq disturbed', UNCHANGED <<current, canceller>>,
             \A n \in Messages : (Live(n)' <=> Live(n)) /\ runners'[n].task = runners[n].task
      PROVE  OneRunner'
  <2>1. \A m \in Messages :
          Live(m)' /\ runners'[m].task \notin disturbed' /\ runners'[m].task = canceller'.task =>
             /\ canceller'.pc \notin {"locking", "saving"}
             /\ canceller'.pc = "awaiting" => m = canceller'.runner
    BY <1>2 DEF OneRunner, Alone
  <2> QED
    BY <1>1, <1>2, <2>1 DEF OneRunner, Alone, Live
<1>3. ASSUME NEW m \in Messages, NEW t \in Messages, Admits(m, t)
      PROVE  OneRunner'
  <2>1. Launch(m, t) /\ Record(m, t) /\ Serving /\ canceller' = canceller
    BY <1>3, AdmitStep
  <2>2. /\ ~Live(m) /\ Live(m)' /\ runners'[m].task = t
        /\ \A n \in Messages : n # m => runners'[n] = runners[n]
    BY <2>1, LaunchStep DEF Live
  <2>3. /\ current'[t] = m /\ \A u \in Messages : u # t => current'[u] = current[u]
        /\ disturbed' = IF \E n \in Messages : Live(n) /\ runners[n].task = t
                        THEN disturbed \cup {t} ELSE disturbed
    BY <2>1 DEF Launch, TypeOK
  <2>4. canceller'.pc = "none" /\ canceller'.task = NoMessage
    BY <2>1 DEF LockHeld, Serving
  <2>5. \A n \in Messages : Live(n)' /\ runners'[n].task \notin disturbed' =>
           current'[runners'[n].task] = n
    <3>1. ASSUME NEW n \in Messages, Live(n)', runners'[n].task \notin disturbed', n # m
          PROVE  current'[runners'[n].task] = n
      <4>1. Live(n) /\ runners'[n].task = runners[n].task /\ runners[n].task \in Messages
        BY <2>2, <3>1 DEF Live, RowsKept
      <4>2. runners[n].task # t /\ runners[n].task \notin disturbed
        BY <2>3, <3>1, <4>1
      <4> QED
        BY <2>3, <4>1, <4>2 DEF OneRunner, Alone
    <3> QED
      BY <2>2, <2>3, <3>1
  <2>6. \A u \in Messages : current'[u] # NoMessage =>
            current'[u] \in Messages /\ runners'[current'[u]].pc # "none"
            /\ runners'[current'[u]].task = u
    <3>1. ASSUME NEW u \in Messages, u # t, current[u] # NoMessage
          PROVE  current[u] \in Messages /\ current[u] # m /\ Live(current[u])
                 /\ runners[current[u]].task = u
      BY <2>2, <3>1 DEF OneRunner, TypeOK
    <3> QED
      BY <2>2, <2>3, <3>1 DEF Live
  <2> QED
    BY <1>0, <2>2, <2>4, <2>5, <2>6 DEF OneRunner, Alone, Live, RowsKept
<1>4. ASSUME NEW m \in Messages, StartSave(m)
      PROVE  OneRunner'
  BY <1>2, <1>4, StartSaveStep DEF StartSave, Live
<1>5. ASSUME NEW w \in writes, CommitSave(w)
      PROVE  OneRunner'
  <2>1. \A n \in Messages : (Live(n)' <=> Live(n)) /\ runners'[n].task = runners[n].task
    BY <1>5, CommitSaveStep DEF Live
  <2> QED
    BY <1>2, <1>5, <2>1 DEF CommitSave
<1>6. ASSUME NEW m \in Messages, SaveReturns(m)
      PROVE  OneRunner'
  BY <1>2, <1>6, SaveReturnsStep DEF SaveReturns, RunnerOnly, Live
<1>7. ASSUME NEW m \in Messages, NEW outcome \in GraphOutcomes, GraphStep(m, outcome)
      PROVE  OneRunner'
  BY <1>2, <1>7, GraphStepStep DEF GraphStep, Live
<1>8. ASSUME NEW m \in Messages, Interrupted(m)
      PROVE  OneRunner'
  <2>1. UNCHANGED <<current, canceller>>
    BY <1>8 DEF Interrupted
  <2>2. \A n \in Messages : (Live(n)' <=> Live(n)) /\ runners'[n].task = runners[n].task
    BY <1>8, InterruptedStep DEF Live
  <2>3. disturbed \subseteq disturbed'
    BY <1>8, InterruptedStep
  <2> QED
    BY <1>2, <2>1, <2>2, <2>3
<1>9. ASSUME NEW m \in Messages, WatchKey(m)
      PROVE  OneRunner'
  BY <1>2, <1>9, WatchKeyStep DEF WatchKey, Live
<1>10. ASSUME NEW m \in Messages, RunnerDone(m)
       PROVE  OneRunner'
  <2>1. /\ runners[m].pc = "ending" /\ ~Live(m)' /\ \A n \in Messages : n # m =>
              runners'[n] = runners[n]
        /\ UNCHANGED <<canceller, disturbed>>
    BY <1>10 DEF RunnerDone, TypeOK, NoRunner, Live
  <2>2. runners[m].task \in Messages /\ Live(m)
    BY <2>1 DEF RowsKept, Live
  <2>3. current' = IF current[runners[m].task] = m THEN [current EXCEPT ![runners[m].task] = NoMessage]
                   ELSE current
    BY <1>10 DEF RunnerDone
  <2>4. \A u \in Messages : current'[u] = IF u = runners[m].task
        /\ current[u] = m THEN NoMessage ELSE current[u]
    BY <2>2, <2>3 DEF TypeOK
  <2>5. \A n \in Messages : Live(n)' => n # m /\ Live(n) /\ runners'[n] = runners[n]
        /\ runners[n].task \in Messages
    BY <2>1 DEF Live, RowsKept
  <2>6. \A n \in Messages : Live(n)' /\ runners'[n].task \notin disturbed' =>
           current'[runners'[n].task] = n
    BY <2>1, <2>4, <2>5 DEF OneRunner, Alone
  <2>7. \A u \in Messages : current'[u] # NoMessage =>
            current'[u] \in Messages /\ runners'[current'[u]].pc # "none"
            /\ runners'[current'[u]].task = u
    <3>1. \A u \in Messages : current'[u] # NoMessage => current'[u] = current[u]
          /\ current[u] \in Messages /\ current[u] # m
      BY <2>4 DEF OneRunner, TypeOK
    <3> QED
      BY <2>1, <3>1 DEF OneRunner, Live
  <2>8. \A n \in Messages :
          Live(n)' /\ runners'[n].task \notin disturbed' /\ runners'[n].task = canceller'.task =>
             /\ canceller'.pc \notin {"locking", "saving"}
             /\ canceller'.pc = "awaiting" => n = canceller'.runner
    BY <2>1, <2>5 DEF OneRunner, Alone
  <2> QED
    BY <2>6, <2>7, <2>8 DEF OneRunner, Alone, Live
<1>11. ASSUME NEW t \in Messages, Cancel(t)
       PROVE  OneRunner'
  <2>1. /\ UNCHANGED <<runners, current, disturbed>>
        /\ canceller'.pc = "looking"
    BY <1>11 DEF Cancel
  <2>2. \A n \in Messages : (Live(n)' <=> Live(n)) /\ runners'[n].task = runners[n].task
    BY <2>1 DEF Live
  <2> QED
    BY <1>1, <2>1, <2>2 DEF OneRunner, Alone, Live
<1>12. CASE CancelStopRunner
  <2>1. canceller.task \in Messages
    BY <1>12 DEF CancelStopRunner, LockHeld, TypeOK
  <2>2. current' = current
    BY <1>12 DEF CancelStopRunner
  <2>3. /\ \A n \in Messages : ToldToStop(n)
        /\ canceller'.task = canceller.task /\ disturbed \subseteq disturbed'
        /\ \/ canceller'.pc = "awaiting" /\ canceller'.runner = current[canceller.task]
           \/ canceller'.pc = "locking" /\ current[canceller.task] = NoMessage
    BY <1>12, <2>1, CancelStopRunnerStep
  <2>4. \A n \in Messages : (Live(n)' <=> Live(n)) /\ runners'[n].task = runners[n].task
    BY <2>3 DEF ToldToStop, Live
  <2>5. \A n \in Messages :
          Live(n)' /\ runners'[n].task \notin disturbed' /\ runners'[n].task = canceller'.task =>
             /\ canceller'.pc \notin {"locking", "saving"}
             /\ canceller'.pc = "awaiting" => n = canceller'.runner
    BY <1>0, <2>3, <2>4 DEF OneRunner, Alone
  <2> QED
    BY <1>1, <2>2, <2>3, <2>4, <2>5 DEF OneRunner, Alone, Live
<1>13. CASE CancelRunnerStopped \/ CancelStartSave \/ CancelSaved
  <2>1. /\ UNCHANGED <<runners, current, disturbed>>
        /\ \/ /\ canceller.pc = "awaiting" /\ ~Live(canceller.runner)
              /\ canceller'.pc = "locking" /\ canceller'.task = canceller.task
           \/ canceller' = NoCancel
           \/ /\ canceller.pc = "locking"
              /\ canceller'.pc = "saving" /\ canceller'.task = canceller.task
    BY <1>13, CancelStepStep
  <2>2. \A n \in Messages : (Live(n)' <=> Live(n)) /\ runners'[n].task = runners[n].task
    BY <2>1 DEF Live
  <2>3. \A n \in Messages :
          Live(n)' /\ runners'[n].task \notin disturbed' /\ runners'[n].task = canceller'.task =>
             /\ canceller'.pc \notin {"locking", "saving"}
             /\ canceller'.pc = "awaiting" => n = canceller'.runner
    <3>1. CASE canceller' = NoCancel
      BY <3>1 DEF NoCancel
    <3>2. CASE canceller'.pc = "saving" /\ canceller.pc = "locking"
               /\ canceller'.task = canceller.task
      BY <2>1, <2>2, <3>2 DEF OneRunner, Alone
    <3>3. CASE canceller.pc = "awaiting" /\ ~Live(canceller.runner) /\ canceller'.pc = "locking"
               /\ canceller'.task = canceller.task
      BY <2>1, <2>2, <3>3 DEF OneRunner, Alone
    <3> QED
      BY <2>1, <3>1, <3>2, <3>3
  <2> QED
    BY <1>1, <2>1, <2>2, <2>3 DEF OneRunner, Alone, Live
<1>14. CASE Sweep \/ Prune \/ DeleteContexts \/ Start \/ Close \/ UNCHANGED vars
            \/ (\E t \in Messages : Expire(t)) \/ (\E c \in Contexts : DeleteCheckpoint(c))
  <2>1. UNCHANGED <<canceller, runners, current, disturbed>>
    BY <1>14 DEF Sweep, Prune, DeleteContexts, Start, Close, Expire, DeleteCheckpoint, vars
  <2> QED
    BY <1>2, <2>1 DEF Live
<1>15. CASE CloseRunners
  <2>1. \A n \in Messages : ToldToStop(n)
    BY <1>15, CloseRunnersStep
  <2>2. UNCHANGED <<current, canceller, disturbed>>
    BY <1>15 DEF CloseRunners
  <2> QED
    BY <1>2, <2>1, <2>2 DEF ToldToStop, Live
<1>16. CASE CloseDone \/ Crash
  BY <1>16, ProcessEnds DEF OneRunner, Live
<1> QED
  BY <1>3, <1>4, <1>5, <1>6, <1>7, <1>8, <1>9, <1>10, <1>11, <1>12, <1>13, <1>14, <1>15, <1>16
  DEF Next, RunnerStep, CancelStep, SweepStep, Admits

(***************************************************************************)
(* What the rows say of the runners                                        *)
(***************************************************************************)
\* What the runner was last told to record is not yet in its row.
Unsaved(m) ==
    \/ runners[m].pc \in {"locking", "graph"}
    \/ runners[m].pc = "saving" /\ (Awaiting(m) \/ runners[m].failed)

RowFollows(m) ==
    LET r == runners[m]
        state == rows[r.task].state
    IN  /\ Unsaved(m) => state \in RESERVED
        /\ r.pc = "graph" => state = "WORKING"
        /\ r.pc = "saving" /\ ~Unsaved(m) => state = r.state
        /\ r.pc = "ending" => state \notin ACTIVE

CancelFollows ==
    /\ canceller.pc = "locking" \/ (canceller.pc = "saving" /\ Awaiting("cancel")) =>
          rows[canceller.task].state \in RESERVED
    /\ canceller.pc = "saving" /\ ~Awaiting("cancel") => rows[canceller.task].state = "CANCELED"

\* The row of a task that is alone says how far its runner, or the cancel() call
\* that stopped it, has come.
RowsFollow ==
    /\ \A m \in Messages : Live(m) /\ Alone(runners[m].task) => RowFollows(m)
    /\ canceller.task # NoMessage /\ Alone(canceller.task) => CancelFollows

\* The author of an awaited save is known, and awaits no other.
LEMMA OneSave ==
    ASSUME TypeOK, WritesOwned, NEW w \in writes, w.awaited
    PROVE  \A v \in writes : v.awaited /\ v.by = w.by => v = w
<1> SUFFICES ASSUME NEW v \in writes, v.awaited, v.by = w.by
             PROVE  v = w
  OBVIOUS
<1>1. w \in Write /\ v \in Write
  BY DEF TypeOK
<1>2. w.by \in Messages \/ w.by = "cancel"
  BY <1>1 DEF Write, Cancellers
<1>3. v.task = w.task /\ v.state = w.state
  BY <1>2 DEF WritesOwned
<1> QED
  BY <1>1, <1>3 DEF Write

\* What the commit of a save does to the row of a task that is alone.
LEMMA CommitAlone ==
    ASSUME TypeOK, RowsKept, WritesOwned, OneRunner, NEW w \in writes, CommitSave(w),
           Alone(w.task)
    PROVE  /\ writes' = writes \ {w} /\ UNCHANGED <<canceller, disturbed>>
           /\ w.task \in Messages /\ w.awaited
           /\ \A t \in Messages : t # w.task => rows'[t] = rows[t]
           /\ \/ /\ w.by \in Messages
                 /\ runners[w.by].pc = "saving" /\ runners[w.by].task = w.task
                 /\ runners[w.by].state = w.state
                 /\ \A n \in Messages : Live(n) /\ runners[n].task = w.task => n = w.by
                 /\ ~(canceller.task = w.task /\ canceller.pc \in {"locking", "saving"})
                 /\ \/ rows'[w.task].state = w.state /\ runners' = runners
                    \/ rows' = rows /\ runners'[w.by].failed
              \/ /\ w.by = "cancel" /\ rows'[w.task].state = "CANCELED"
                 /\ canceller.pc = "saving" /\ canceller.task = w.task
                 /\ \A n \in Messages : Live(n) => runners[n].task # w.task
                 /\ runners' = runners
<1>1. w \in Write
  BY DEF TypeOK
<1>2. w.awaited /\ w.task \in Messages /\ (w.by \in Messages \/ w.by = "cancel") /\ Owned(w.task)
  BY <1>1 DEF WritesOwned, Alone, Write, Cancellers, RowsKept
<1>3. writes' = writes \ {w} /\ UNCHANGED <<canceller, disturbed>>
  BY DEF CommitSave, history
<1>4. /\ \A t \in Messages : t # w.task => rows'[t] = rows[t]
      /\ \/ rows'[w.task].state = w.state /\ runners' = runners
         \/ /\ rows' = rows /\ w.state \in RESERVED
            /\ w.by \in Messages => runners'[w.by].failed
  BY <1>2, CommitSaveStep
<1>5. CASE w.by \in Messages
  <2>1. /\ runners[w.by].pc = "saving" /\ runners[w.by].task = w.task
           /\ runners[w.by].state = w.state
        /\ Live(w.by)
    BY <1>2, <1>5 DEF WritesOwned, Live
  <2>2. \A n \in Messages : Live(n) /\ runners[n].task = w.task => n = w.by
    BY <1>5, <2>1 DEF OneRunner
  <2>3. ~(canceller.task = w.task /\ canceller.pc \in {"locking", "saving"})
    BY <1>5, <2>1 DEF OneRunner
  <2> QED
    BY <1>2, <1>3, <1>4, <1>5, <2>1, <2>2, <2>3
<1>6. CASE w.by = "cancel"
  <2>1. canceller.pc = "saving" /\ canceller.task = w.task /\ w.state = "CANCELED"
    BY <1>2, <1>6 DEF WritesOwned
  <2>2. \A n \in Messages : Live(n) => runners[n].task # w.task
    BY <2>1 DEF OneRunner
  <2>3. w.state \notin RESERVED
    BY <2>1 DEF ACTIVE, PAUSED, RESERVED
  <2> QED
    BY <1>2, <1>3, <1>4, <1>6, <2>1, <2>2, <2>3
<1> QED
  BY <1>2, <1>5, <1>6

\* Every step keeps the rows in step with the runners.
LEMMA NextRowsFollow ==
    /\ TypeOK /\ LockHeld /\ RowsKept /\ WritesOwned /\ RunnerStates /\ OneRunner /\ RowsFollow
    /\ [Next]_vars
    => RowsFollow'
<1> SUFFICES ASSUME TypeOK, LockHeld, RowsKept, WritesOwned, RunnerStates, OneRunner, RowsFollow,
                    [Next]_vars
             PROVE  RowsFollow'
  OBVIOUS
<1> USE DEF stored, process, history
<1>0. NoMessage \notin Messages /\ "cancel" \notin Messages
  BY AgentTasksAssumption DEF AgentTasksAssumption
\* A runner other than the one that moves.
<1>1. ASSUME NEW n \in Messages, Live(n)', runners'[n].task \notin disturbed',
             disturbed \subseteq disturbed', Live(n),
             runners'[n].task = runners[n].task,
             runners'[n].state = runners[n].state,
             runners'[n].failed = runners[n].failed,
             runners'[n].pc = runners[n].pc,
             Awaiting(n)' <=> Awaiting(n),
             rows'[runners[n].task].state = rows[runners[n].task].state
      PROVE  RowFollows(n)'
  <2>1. RowFollows(n)
    BY <1>1 DEF RowsFollow, Alone
  <2> QED
    BY <1>1, <2>1 DEF RowFollows, Unsaved
<1>2. ASSUME disturbed \subseteq disturbed', canceller' = canceller,
             Awaiting("cancel")' <=> Awaiting("cancel"),
             canceller.task # NoMessage =>
                rows'[canceller.task].state = rows[canceller.task].state
      PROVE  canceller'.task # NoMessage /\ canceller'.task \notin disturbed' => CancelFollows'
  <2>1. CASE canceller.task # NoMessage /\ canceller.task \notin disturbed'
    <3>1. CancelFollows
      BY <1>2, <2>1 DEF RowsFollow, Alone
    <3> QED
      BY <1>2, <2>1, <3>1 DEF CancelFollows
  <2> QED
    BY <1>2, <2>1
\* Nobody's row or save changes.
<1>3. ASSUME disturbed \subseteq disturbed',
             \A t \in Messages : Owned(t) => rows'[t].state = rows[t].state,
             \A n \in Messages : Awaiting(n)' <=> Awaiting(n),
             \A n \in Messages : Live(n)' =>
                /\ Live(n)
                /\ runners'[n].task = runners[n].task
                /\ runners'[n].state = runners[n].state
                /\ runners'[n].failed = runners[n].failed
                /\ runners'[n].pc = runners[n].pc
      PROVE  \A n \in Messages : Live(n)' /\ runners'[n].task \notin disturbed' => RowFollows(n)'
  BY <1>1, <1>3 DEF RowsKept
<1>4. ASSUME \A n \in Messages : Live(n)' /\ runners'[n].task \notin disturbed' => RowFollows(n)',
             canceller'.task # NoMessage /\ canceller'.task \notin disturbed' => CancelFollows'
      PROVE  RowsFollow'
  BY <1>4 DEF RowsFollow, Alone
<1>5. canceller.task # NoMessage => canceller.task \in Messages /\ Owned(canceller.task)
  BY DEF RowsKept, TypeOK
<1>6. ASSUME NEW m \in Messages, NEW t \in Messages, Admits(m, t)
      PROVE  RowsFollow'
  <2>1. /\ Launch(m, t) /\ Record(m, t) /\ Serving
        /\ UNCHANGED <<writes, canceller>>
        /\ \A u \in Outdated(m) : ~Owned(u)
        /\ \A u \in Messages : u # t => rows'[u] = IF u \in Outdated(m) THEN NoRow ELSE rows[u]
        /\ rows'[t].state = "SUBMITTED"
    BY <1>6, AdmitStep
  <2>2. /\ ~Live(m) /\ runners'[m].pc = "locking" /\ runners'[m].task = t
        /\ \A n \in Messages : n # m => runners'[n] = runners[n]
    BY <2>1, LaunchStep
  <2>3. disturbed' = IF \E n \in Messages : Live(n) /\ runners[n].task = t
                     THEN disturbed \cup {t} ELSE disturbed
    BY <2>1 DEF Launch
  <2>4. canceller'.task = NoMessage
    BY <2>1 DEF LockHeld, Serving
  <2>5. ASSUME NEW n \in Messages, Live(n)', runners'[n].task \notin disturbed'
        PROVE  RowFollows(n)'
    <3>1. CASE n = m
      BY <2>1, <2>2, <3>1 DEF RowFollows, Unsaved, ACTIVE, RESERVED
    <3>2. CASE n # m
      <4>1. Live(n) /\ runners'[n] = runners[n] /\ runners[n].task \in Messages
            /\ Owned(runners[n].task)
        BY <2>2, <2>5, <3>2 DEF Live, RowsKept
      <4>2. runners[n].task # t
        BY <2>3, <2>5, <4>1
      <4>3. rows'[runners[n].task] = rows[runners[n].task]
        BY <2>1, <4>1, <4>2
      <4>4. Awaiting(n)' <=> Awaiting(n)
        BY <2>1 DEF Awaiting
      <4> QED
        BY <1>1, <2>3, <2>5, <4>1, <4>3, <4>4
    <3> QED
      BY <3>1, <3>2
  <2> QED
    BY <1>4, <2>4, <2>5
<1>7. ASSUME NEW m \in Messages, StartSave(m)
      PROVE  RowsFollow'
  <2>1. /\ runners[m].pc = "locking" /\ runners'[m].pc = "saving"
           /\ runners'[m].task = runners[m].task
        /\ \A n \in Messages : n # m => runners'[n] = runners[n]
    BY <1>7, StartSaveStep
  <2> DEFINE v == [task |-> runners[m].task, state |-> runners[m].state, by |-> m, awaited |-> TRUE]
  <2>2. UNCHANGED <<rows, canceller, disturbed>> /\ writes' = writes \cup {v}
    BY <1>7 DEF StartSave
  <2>3. /\ Awaiting(m)'
        /\ Awaiting("cancel")' <=> Awaiting("cancel")
        /\ \A n \in Messages : n # m => (Awaiting(n)' <=> Awaiting(n))
    <3>1. v.by = m /\ v.awaited
      OBVIOUS
    <3> HIDE DEF v
    <3> QED
      BY <1>0, <2>2, <3>1 DEF Awaiting
  <2>4. ASSUME NEW n \in Messages, Live(n)', runners'[n].task \notin disturbed'
        PROVE  RowFollows(n)'
    <3>1. CASE n = m
      <4>1. RowFollows(m) /\ Unsaved(m)
        BY <2>1, <2>2, <2>4, <3>1 DEF RowsFollow, Alone, Live, Unsaved
      <4> QED
        BY <2>1, <2>2, <2>3, <3>1, <4>1 DEF RowFollows, Unsaved
    <3>2. CASE n # m
      BY <1>1, <2>1, <2>2, <2>3, <2>4, <3>2 DEF Live
    <3> QED
      BY <3>1, <3>2
  <2> QED
    BY <1>2, <1>4, <2>2, <2>3, <2>4
<1>8. ASSUME NEW w \in writes, CommitSave(w)
      PROVE  RowsFollow'
  <2>1. /\ writes' = writes \ {w} /\ UNCHANGED <<canceller, disturbed>> /\ w \in Write
    BY <1>8 DEF CommitSave, TypeOK
  <2>2. \A n \in Messages : /\ runners'[n].pc = runners[n].pc /\ runners'[n].task = runners[n].task
                            /\ runners'[n].state = runners[n].state
                            /\ (runners'[n].failed # runners[n].failed) => n = w.by /\ w.awaited
    BY <1>8, CommitSaveStep
  <2>3. /\ \A n \in Messages : n # w.by => (Awaiting(n)' <=> Awaiting(n))
        /\ w.by # "cancel" => (Awaiting("cancel")' <=> Awaiting("cancel"))
    BY <2>1 DEF Awaiting
  <2>4. CASE ~Alone(w.task)
    <3>1. \A t \in Messages : t # w.task => rows'[t] = rows[t]
      BY <1>8, CommitSaveStep
    <3>2. ASSUME NEW n \in Messages, Live(n)', runners'[n].task \notin disturbed'
          PROVE  RowFollows(n)'
      <4>1. Live(n) /\ runners[n].task \in Messages /\ runners[n].task # w.task
        BY <2>1, <2>2, <2>4, <3>2 DEF Live, RowsKept, Alone
      <4>2. ~(n = w.by /\ w.awaited)
        BY <4>1 DEF WritesOwned
      <4>3. Awaiting(n)' <=> Awaiting(n)
        BY <2>1, <4>2 DEF Awaiting
      <4> QED
        BY <1>1, <2>1, <2>2, <3>1, <3>2, <4>1, <4>2, <4>3
    <3>3. CASE canceller.task # NoMessage /\ canceller.task \notin disturbed
      <4>1. canceller.task # w.task
        BY <2>4, <3>3 DEF Alone
      <4>2. ~(w.by = "cancel" /\ w.awaited)
        BY <4>1 DEF WritesOwned
      <4>3. Awaiting("cancel")' <=> Awaiting("cancel")
        BY <2>1, <4>2 DEF Awaiting
      <4> QED
        BY <1>2, <1>4, <1>5, <2>1, <3>1, <3>2, <4>1, <4>3
    <3> QED
      BY <1>4, <2>1, <3>2, <3>3
  <2>5. CASE Alone(w.task) /\ w.by \in Messages
    <3> DEFINE m == w.by
    <3>1. /\ \A t \in Messages : t # w.task => rows'[t] = rows[t]
          /\ runners[m].pc = "saving" /\ runners[m].task = w.task /\ runners[m].state = w.state
          /\ \A n \in Messages : Live(n) /\ runners[n].task = w.task => n = m
          /\ ~(canceller.task = w.task /\ canceller.pc \in {"locking", "saving"})
          /\ \/ rows'[w.task].state = w.state /\ runners' = runners
             \/ rows' = rows /\ runners'[m].failed
          /\ w.awaited
      BY <1>0, <1>8, <2>5, CommitAlone
    <3>2. ~Awaiting(m)'
      BY <2>1, <3>1, OneSave DEF Awaiting
    <3>3. Awaiting(m)
      BY <3>1 DEF Awaiting
    <3>4. RowFollows(m)'
      <4>1. RowFollows(m) /\ Live(m) /\ Unsaved(m)
        BY <2>5, <3>1, <3>3 DEF RowsFollow, Live, Unsaved
      <4>2. rows[w.task].state \in RESERVED
        BY <3>1, <4>1 DEF RowFollows
      <4>3. CASE rows' = rows /\ runners'[m].failed
        BY <2>2, <2>5, <3>1, <4>2, <4>3 DEF RowFollows, Unsaved
      <4>4. CASE rows'[w.task].state = w.state /\ runners' = runners
        <5>1. runners[m].failed => w.state \in RESERVED
          BY <2>5, <3>1, <4>1 DEF RunnerStates
        <5> QED
          BY <3>1, <3>2, <4>4, <5>1 DEF RowFollows, Unsaved
      <4> QED
        BY <3>1, <4>3, <4>4
    <3>5. ASSUME NEW n \in Messages, Live(n)', runners'[n].task \notin disturbed', n # m
          PROVE  RowFollows(n)'
      <4>1. Live(n) /\ runners[n].task \in Messages /\ runners[n].task # w.task
        BY <2>2, <3>1, <3>5 DEF Live, RowsKept
      <4> QED
        BY <1>1, <2>1, <2>2, <2>3, <3>1, <3>5, <4>1
    <3>6. ASSUME canceller.task # NoMessage, canceller.task \notin disturbed
          PROVE  CancelFollows'
      <4>1. CASE canceller.task = w.task
        BY <2>1, <3>1, <4>1 DEF CancelFollows
      <4>2. CASE canceller.task # w.task
        BY <1>0, <1>2, <1>5, <2>1, <2>3, <2>5, <3>1, <3>6, <4>2
      <4> QED
        BY <4>1, <4>2
    <3> QED
      BY <1>4, <2>1, <3>4, <3>5, <3>6
  <2>6. CASE Alone(w.task) /\ w.by = "cancel"
    <3>1. /\ \A t \in Messages : t # w.task => rows'[t] = rows[t]
          /\ rows'[w.task].state = "CANCELED"
          /\ canceller.pc = "saving" /\ canceller.task = w.task
          /\ \A n \in Messages : Live(n) => runners[n].task # w.task
          /\ runners' = runners /\ w.awaited
      BY <1>0, <1>8, <2>6, CommitAlone
    <3>2. ~Awaiting("cancel")'
      BY <2>1, <2>6, <3>1, OneSave DEF Awaiting
    <3>3. CancelFollows'
      BY <2>1, <3>1, <3>2 DEF CancelFollows
    <3>4. ASSUME NEW n \in Messages, Live(n)', runners'[n].task \notin disturbed'
          PROVE  RowFollows(n)'
      <4>1. Live(n) /\ runners[n].task \in Messages /\ runners[n].task # w.task
        BY <3>1, <3>4 DEF Live, RowsKept
      <4> QED
        BY <1>0, <1>1, <2>1, <2>3, <2>6, <3>1, <3>4, <4>1
    <3> QED
      BY <1>4, <3>3, <3>4
  <2> QED
    BY <2>1, <2>4, <2>5, <2>6 DEF Write, Cancellers
<1>9. ASSUME NEW m \in Messages, SaveReturns(m)
      PROVE  RowsFollow'
  <2>1. UNCHANGED <<rows, canceller, disturbed, writes>>
    BY <1>9 DEF SaveReturns, RunnerOnly
  <2>2. /\ \A n \in Messages : n # m => runners'[n] = runners[n]
        /\ runners[m].pc = "saving" /\ ~Awaiting(m) /\ runners'[m].task = runners[m].task
        /\ \A n \in Messages \cup Cancellers : Awaiting(n)' <=> Awaiting(n)
    BY <1>9, <2>1, SaveReturnsStep DEF Awaiting
  <2>3. ASSUME runners[m].task \notin disturbed
        PROVE  RowFollows(m)'
    <3>1. RowFollows(m) /\ Live(m)
      BY <2>2, <2>3 DEF RowsFollow, Alone, Live
    <3>2. \/ /\ runners[m].failed /\ ~runners[m].handling
             /\ runners'[m].pc = "locking"
          \/ /\ ~runners[m].failed /\ runners[m].state = "WORKING" /\ runners'[m].pc = "graph"
          \/ /\ ~(runners[m].failed /\ ~runners[m].handling)
             /\ ~(runners[m].state = "WORKING" /\ ~runners[m].handling)
             /\ runners'[m].pc = "ending"
      BY <1>9, SaveReturnsStep
    <3>3. CASE runners[m].failed /\ runners'[m].pc = "locking"
      BY <2>1, <2>2, <3>1, <3>3 DEF RowFollows, Unsaved
    <3>4. CASE ~runners[m].failed /\ runners[m].state = "WORKING" /\ runners'[m].pc = "graph"
      BY <2>1, <2>2, <3>1, <3>4 DEF RowFollows, Unsaved, ACTIVE, RESERVED
    <3>5. CASE /\ ~(runners[m].failed /\ ~runners[m].handling)
               /\ ~(runners[m].state = "WORKING" /\ ~runners[m].handling)
               /\ runners'[m].pc = "ending"
      <4>1. ~runners[m].failed
        BY <2>2, <3>1, <3>5 DEF RunnerStates, ACTIVE, PAUSED, RESERVED
      <4>2. runners[m].state \notin ACTIVE
        BY <3>1, <3>5 DEF RunnerStates, ACTIVE
      <4>3. rows[runners[m].task].state = runners[m].state
        BY <2>2, <3>1, <4>1 DEF RowFollows, Unsaved
      <4> QED
        BY <2>1, <2>2, <3>5, <4>2, <4>3 DEF RowFollows, Unsaved
    <3> QED
      BY <3>2, <3>3, <3>4, <3>5
  <2>4. ASSUME NEW n \in Messages, Live(n)', runners'[n].task \notin disturbed'
        PROVE  RowFollows(n)'
    <3>1. CASE n = m
      BY <2>1, <2>2, <2>3, <2>4, <3>1
    <3>2. CASE n # m
      BY <1>1, <2>1, <2>2, <2>4, <3>2 DEF Live
    <3> QED
      BY <3>1, <3>2
  <2> QED
    BY <1>2, <1>4, <2>1, <2>2, <2>4 DEF Cancellers
<1>10. ASSUME NEW m \in Messages, NEW outcome \in GraphOutcomes, GraphStep(m, outcome)
       PROVE  RowsFollow'
  <2>1. UNCHANGED <<rows, canceller, disturbed, writes>>
    BY <1>10 DEF GraphStep
  <2>2. /\ \A n \in Messages : n # m => runners'[n] = runners[n]
        /\ runners[m].pc = "graph" /\ runners'[m].pc = "locking"
        /\ runners'[m].task = runners[m].task
        /\ \A n \in Messages \cup Cancellers : Awaiting(n)' <=> Awaiting(n)
    BY <1>10, <2>1, GraphStepStep DEF Awaiting
  <2>3. ASSUME NEW n \in Messages, Live(n)', runners'[n].task \notin disturbed'
        PROVE  RowFollows(n)'
    <3>1. CASE n = m
      <4>1. RowFollows(m) /\ Unsaved(m)
        BY <2>1, <2>2, <2>3, <3>1 DEF RowsFollow, Alone, Live, Unsaved
      <4> QED
        BY <2>1, <2>2, <3>1, <4>1 DEF RowFollows, Unsaved
    <3>2. CASE n # m
      BY <1>1, <2>1, <2>2, <2>3, <3>2 DEF Live
    <3> QED
      BY <3>1, <3>2
  <2> QED
    BY <1>2, <1>4, <2>1, <2>2, <2>3 DEF Cancellers
<1>11. ASSUME NEW m \in Messages, Interrupted(m)
       PROVE  RowsFollow'
  <2>1. UNCHANGED <<rows, canceller>>
    BY <1>11 DEF Interrupted
  <2>2. /\ \A n \in Messages : n # m => runners'[n] = runners[n]
        /\ runners[m].pc \in {"locking", "saving", "graph"}
        /\ runners'[m].task = runners[m].task
        /\ \/ runners[m].handling /\ runners'[m].pc = "ending"
           \/ ~runners[m].handling /\ runners'[m].pc = "locking"
        /\ \A w \in writes' : (w \in writes /\ ~(w.by = m /\ w.awaited)) \/ ~w.awaited
        /\ \A w \in writes : ~(w.by = m /\ w.awaited) => w \in writes'
        /\ disturbed' = IF runners[m].pc = "saving" \/ runners[m].handling
                        THEN disturbed \cup {runners[m].task} ELSE disturbed
    BY <1>11, InterruptedStep
  <2>3. /\ \A n \in Messages : n # m => (Awaiting(n)' <=> Awaiting(n))
        /\ Awaiting("cancel")' <=> Awaiting("cancel")
    BY <1>0, <2>2 DEF Awaiting
  <2>4. ASSUME NEW n \in Messages, Live(n)', runners'[n].task \notin disturbed'
        PROVE  RowFollows(n)'
    <3>1. CASE n = m
      <4>1. runners[m].pc \in {"locking", "graph"} /\ ~runners[m].handling
            /\ runners[m].task \notin disturbed
        BY <2>2, <2>4, <3>1
      <4>2. RowFollows(m) /\ Unsaved(m)
        BY <4>1 DEF RowsFollow, Alone, Live, Unsaved
      <4> QED
        BY <2>1, <2>2, <3>1, <4>1, <4>2 DEF RowFollows, Unsaved
    <3>2. CASE n # m
      BY <1>1, <2>1, <2>2, <2>3, <2>4, <3>2 DEF Live
    <3> QED
      BY <3>1, <3>2
  <2> QED
    BY <1>2, <1>4, <2>1, <2>2, <2>3, <2>4
<1>12. ASSUME UNCHANGED <<disturbed, writes, canceller>>,
              \A t \in Messages : Owned(t) => rows'[t].state = rows[t].state,
              \A n \in Messages : Live(n)' =>
                /\ Live(n)
                /\ runners'[n].task = runners[n].task
                /\ runners'[n].state = runners[n].state
                /\ runners'[n].failed = runners[n].failed
                /\ runners'[n].pc = runners[n].pc
       PROVE  RowsFollow'
  <2>1. \A n \in Messages \cup Cancellers : Awaiting(n)' <=> Awaiting(n)
    BY <1>12 DEF Awaiting
  <2> QED
    BY <1>2, <1>3, <1>4, <1>5, <1>12, <2>1 DEF Cancellers
<1>13. ASSUME NEW m \in Messages, RunnerDone(m)
       PROVE  RowsFollow'
  BY <1>12, <1>13 DEF RunnerDone, TypeOK, NoRunner, Live
<1>14. ASSUME NEW m \in Messages, WatchKey(m)
       PROVE  RowsFollow'
  <2>1. UNCHANGED <<disturbed, writes, canceller, rows>>
    BY <1>14 DEF WatchKey
  <2> QED
    BY <1>12, <1>14, <2>1, WatchKeyStep DEF Live
<1>15. ASSUME NEW t \in Messages, Cancel(t)
       PROVE  RowsFollow'
  <2>1. UNCHANGED <<rows, runners, writes, disturbed>> /\ canceller'.pc = "looking"
    BY <1>15 DEF Cancel
  <2>2. \A n \in Messages : Live(n)' /\ runners'[n].task \notin disturbed' => RowFollows(n)'
    BY <1>3, <2>1 DEF Live, Awaiting
  <2> QED
    BY <1>4, <2>1, <2>2 DEF CancelFollows
<1>16. CASE CancelStopRunner
  <2>1. canceller.task \in Messages
    BY <1>16 DEF CancelStopRunner, LockHeld, TypeOK
  <2>2. UNCHANGED <<rows, writes>>
    BY <1>16 DEF CancelStopRunner
  <2>3. /\ \A n \in Messages : ToldToStop(n)
        /\ canceller'.task = canceller.task
        /\ \/ canceller'.pc = "awaiting" /\ disturbed' = disturbed
           \/ /\ canceller'.pc = "locking"
              /\ disturbed' = IF rows[canceller.task].state \in Terminal
                              THEN disturbed \cup {canceller.task} ELSE disturbed
    BY <1>16, <2>1, CancelStopRunnerStep
  <2>4. \A n \in Messages : Live(n)' /\ runners'[n].task \notin disturbed' => RowFollows(n)'
    BY <1>3, <2>2, <2>3 DEF ToldToStop, Live, Awaiting
  <2>5. rows[canceller.task].state \in RESERVED \cup Terminal
    BY <1>0, <1>5, <2>1 DEF Owned, TypeOK, Row
  <2> QED
    BY <1>4, <2>2, <2>3, <2>4, <2>5 DEF CancelFollows
<1>17. CASE CancelRunnerStopped \/ CancelStartSave \/ CancelSaved
  <2> DEFINE v == [task |-> canceller.task, state |-> "CANCELED", by |-> "cancel", awaited |-> TRUE]
  <2>1. /\ UNCHANGED <<rows, runners, disturbed>>
        /\ writes' = writes \/ writes' = writes \cup {v}
        /\ \/ /\ rows[canceller.task].state \in RESERVED
              /\ canceller'.pc = "locking" /\ canceller'.task = canceller.task
           \/ canceller' = NoCancel
           \/ /\ canceller.pc = "locking" /\ canceller'.pc = "saving"
              /\ canceller'.task = canceller.task
              /\ writes' = writes \cup {v}
    BY <1>17, CancelStepStep
  <2>2. v.by = "cancel" /\ v.awaited
    OBVIOUS
  <2> HIDE DEF v
  <2>3. \A n \in Messages : Awaiting(n)' <=> Awaiting(n)
    BY <1>0, <2>1, <2>2 DEF Awaiting
  <2>4. \A n \in Messages : Live(n)' /\ runners'[n].task \notin disturbed' => RowFollows(n)'
    BY <1>3, <2>1, <2>3 DEF Live
  <2>5. CASE canceller' = NoCancel
    BY <1>4, <2>4, <2>5 DEF NoCancel
  <2>6. CASE /\ rows[canceller.task].state \in RESERVED
             /\ canceller'.pc = "locking" /\ canceller'.task = canceller.task
    BY <1>4, <2>1, <2>4, <2>6 DEF CancelFollows
  <2>7. CASE /\ canceller.pc = "locking" /\ canceller'.pc = "saving"
                /\ canceller'.task = canceller.task
             /\ writes' = writes \cup {v}
    <3>1. Awaiting("cancel")'
      BY <2>2, <2>7 DEF Awaiting
    <3>2. canceller.task # NoMessage /\ canceller.task \notin disturbed =>
             rows[canceller.task].state \in RESERVED
      BY <2>7 DEF RowsFollow, CancelFollows, Alone
    <3> QED
      BY <1>4, <2>1, <2>4, <2>7, <3>1, <3>2 DEF CancelFollows
  <2> QED
    BY <2>1, <2>5, <2>6, <2>7
<1>18. ASSUME NEW t \in Messages, Expire(t)
       PROVE  RowsFollow'
  <2>1. \A u \in Messages : rows'[u].state = rows[u].state
    BY <1>18 DEF Expire, TypeOK, Row
  <2>2. UNCHANGED <<disturbed, writes, canceller, runners>>
    BY <1>18 DEF Expire
  <2> QED
    BY <1>12, <2>1, <2>2 DEF Live
<1>19. CASE Prune
  BY <1>12, <1>19, PruneStep DEF Live
<1>20. CASE Sweep \/ DeleteContexts \/ Close \/ UNCHANGED vars
            \/ (\E c \in Contexts : DeleteCheckpoint(c))
  <2>1. UNCHANGED <<canceller, runners, disturbed, rows, writes>>
    BY <1>20 DEF Sweep, DeleteContexts, Close, DeleteCheckpoint, vars
  <2> QED
    BY <1>12, <2>1 DEF Live
<1>21. CASE Start
  <2>1. /\ canceller'.task = NoMessage /\ \A n \in Messages : ~Live(n)'
    BY <1>21 DEF Start, LockHeld, Live
  <2> QED
    BY <1>4, <2>1
<1>22. CASE CloseRunners
  <2>1. \A n \in Messages : ToldToStop(n)
    BY <1>22, CloseRunnersStep
  <2>2. UNCHANGED <<rows, canceller, disturbed, writes>>
    BY <1>22 DEF CloseRunners
  <2> QED
    BY <1>12, <2>1, <2>2 DEF ToldToStop, Live
<1>23. CASE CloseDone \/ Crash
  BY <1>4, <1>23, ProcessEnds
<1> QED
  BY <1>6, <1>7, <1>8, <1>9, <1>10, <1>11, <1>13, <1>14, <1>15, <1>16, <1>17, <1>18, <1>19,
     <1>20, <1>21, <1>22, <1>23
  DEF Next, RunnerStep, CancelStep, SweepStep, Admits

(***************************************************************************)
(* Nobody is forgotten, and who asked for the end                          *)
(***************************************************************************)
\* While the process serves, an active task has a runner or a cancel() call.
ActiveKept ==
    server \in {"starting", "up"} =>
        \A t \in Messages : Alone(t) /\ rows[t].state \in ACTIVE =>
            \/ \E m \in Messages : Live(m) /\ runners[m].task = t
            \/ canceller.task = t

\* Every step leaves an active task with somebody to end it.
LEMMA NextActiveKept ==
    /\ TypeOK /\ LockHeld /\ RowsKept /\ WritesOwned /\ OneRunner /\ RowsFollow /\ ActiveKept
    /\ [Next]_vars
    => ActiveKept'
<1> SUFFICES ASSUME TypeOK, LockHeld, RowsKept, WritesOwned, OneRunner, RowsFollow, ActiveKept,
                    [Next]_vars
             PROVE  ActiveKept'
  OBVIOUS
<1> USE DEF stored, process, history
<1>0. NoMessage \notin Messages
  BY AgentTasksAssumption DEF AgentTasksAssumption
<1>1. ASSUME server' \in {"starting", "up"} => server \in {"starting", "up"},
             disturbed \subseteq disturbed',
             \A t \in Messages : rows'[t].state \in ACTIVE => rows[t].state \in ACTIVE,
             \A n \in Messages : Live(n) => Live(n)' /\ runners'[n].task = runners[n].task,
             canceller.task # NoMessage => canceller'.task = canceller.task
      PROVE  ActiveKept'
  BY <1>0, <1>1 DEF ActiveKept, Alone
<1>2. ASSUME NEW m \in Messages, NEW t \in Messages, Admits(m, t)
      PROVE  ActiveKept'
  <2>1. /\ Launch(m, t) /\ Record(m, t) /\ UNCHANGED <<server, canceller>>
        /\ \A u \in Messages : u # t => rows'[u] = IF u \in Outdated(m) THEN NoRow ELSE rows[u]
    BY <1>2, AdmitStep
  <2>2. /\ ~Live(m) /\ runners'[m].pc = "locking" /\ runners'[m].task = t
        /\ \A n \in Messages : n # m => runners'[n] = runners[n]
        /\ disturbed \subseteq disturbed'
    BY <2>1, LaunchStep DEF Launch
  <2>3. \A u \in Messages : u # t /\ rows'[u].state \in ACTIVE => rows[u].state \in ACTIVE
    BY <2>1 DEF NoRow, ACTIVE
  <2>4. /\ \A n \in Messages : Live(n) => Live(n)' /\ runners'[n].task = runners[n].task
        /\ Live(m)'
    BY <2>2 DEF Live
  <2> QED
    BY <2>1, <2>2, <2>3, <2>4 DEF ActiveKept, Alone
<1>3. ASSUME NEW w \in writes, CommitSave(w)
      PROVE  ActiveKept'
  <2>1. \A n \in Messages : (Live(n)' <=> Live(n)) /\ runners'[n].task = runners[n].task
    BY <1>3, CommitSaveStep DEF Live
  <2>2. UNCHANGED <<server, canceller, disturbed>>
    BY <1>3 DEF CommitSave
  <2>3. \A t \in Messages : t # w.task => rows'[t] = rows[t]
    BY <1>3, CommitSaveStep
  <2>4. ASSUME Alone(w.task)
        PROVE  (\E n \in Messages : Live(n) /\ runners[n].task = w.task) \/ canceller.task = w.task
    BY <1>3, <2>4, CommitAlone DEF Live
  <2> QED
    BY <2>1, <2>2, <2>3, <2>4 DEF ActiveKept, Alone
<1>4. ASSUME NEW m \in Messages, RunnerDone(m)
      PROVE  ActiveKept'
  <2>1. /\ runners[m].pc = "ending" /\ \A n \in Messages : n # m => runners'[n] = runners[n]
        /\ UNCHANGED <<rows, server, canceller, disturbed>>
    BY <1>4 DEF RunnerDone, TypeOK
  <2>2. runners[m].task \notin disturbed => rows[runners[m].task].state \notin ACTIVE
    BY <2>1 DEF RowsFollow, RowFollows, Alone, Live
  <2>3. \A n \in Messages : n # m /\ Live(n) => Live(n)' /\ runners'[n].task = runners[n].task
    BY <2>1 DEF Live
  <2> QED
    BY <2>1, <2>2, <2>3 DEF ActiveKept, Alone
<1>5. ASSUME NEW m \in Messages, \/ StartSave(m) \/ SaveReturns(m) \/ WatchKey(m)
                                 \/ \E outcome \in GraphOutcomes : GraphStep(m, outcome)
      PROVE  ActiveKept'
  <2>1. \A n \in Messages : Live(n) => Live(n)' /\ runners'[n].task = runners[n].task
    BY <1>5, StartSaveStep, SaveReturnsStep, WatchKeyStep, GraphStepStep DEF Live
  <2>2. UNCHANGED <<rows, server, canceller, disturbed>>
    BY <1>5 DEF StartSave, SaveReturns, RunnerOnly, WatchKey, GraphStep
  <2> QED
    BY <1>1, <2>1, <2>2
<1>6. ASSUME NEW m \in Messages, Interrupted(m)
      PROVE  ActiveKept'
  <2>1. \A n \in Messages : Live(n) => Live(n)' /\ runners'[n].task = runners[n].task
    BY <1>6, InterruptedStep DEF Live
  <2>2. disturbed \subseteq disturbed'
    BY <1>6, InterruptedStep
  <2>3. UNCHANGED <<rows, server, canceller>>
    BY <1>6 DEF Interrupted
  <2> QED
    BY <1>1, <2>1, <2>2, <2>3
<1>7. ASSUME NEW t \in Messages, Cancel(t) \/ Expire(t)
      PROVE  ActiveKept'
  <2>1. canceller.task # NoMessage => canceller'.task = canceller.task
    BY <1>7 DEF Cancel, Expire, LockHeld
  <2>2. \A u \in Messages : rows'[u].state = rows[u].state
    BY <1>7 DEF Cancel, Expire, TypeOK, Row
  <2>3. UNCHANGED <<server, runners, disturbed>>
    BY <1>7 DEF Cancel, Expire
  <2> QED
    BY <1>1, <2>1, <2>2, <2>3 DEF Live
<1>8. CASE CancelStopRunner
  <2>1. canceller.task \in Messages
    BY <1>8 DEF CancelStopRunner, LockHeld, TypeOK
  <2>2. UNCHANGED <<rows, server>>
    BY <1>8 DEF CancelStopRunner
  <2>3. /\ \A n \in Messages : ToldToStop(n)
        /\ canceller'.task = canceller.task /\ disturbed \subseteq disturbed'
    BY <1>8, <2>1, CancelStopRunnerStep
  <2> QED
    BY <1>1, <2>2, <2>3 DEF ToldToStop, Live
<1>9. CASE CancelRunnerStopped \/ CancelStartSave \/ CancelSaved
  <2>1. /\ UNCHANGED <<rows, server, runners, disturbed>>
        /\ \/ canceller'.task = canceller.task
           \/ /\ canceller.pc = "awaiting" /\ rows[canceller.task].state \notin RESERVED
              /\ canceller' = NoCancel
           \/ canceller.pc = "saving" /\ ~Awaiting("cancel") /\ canceller' = NoCancel
    BY <1>9, CancelStepStep
  <2>2. CASE canceller'.task = canceller.task
    BY <1>1, <2>1, <2>2 DEF Live
  <2>3. CASE canceller.pc = "awaiting" /\ rows[canceller.task].state \notin RESERVED
    <3>1. rows[canceller.task].state \notin ACTIVE
      BY <2>3 DEF RESERVED
    <3> QED
      BY <2>1, <3>1 DEF ActiveKept, Alone, Live
  <2>4. CASE canceller.pc = "saving" /\ ~Awaiting("cancel")
    <3>1. canceller.task \notin disturbed => rows[canceller.task].state \notin ACTIVE
      BY <2>4 DEF RowsFollow, CancelFollows, LockHeld, Alone, ACTIVE
    <3> QED
      BY <2>1, <3>1 DEF ActiveKept, Alone, Live
  <2> QED
    BY <2>1, <2>2, <2>3, <2>4
<1>10. CASE Prune
  <2>1. \A u \in Messages : rows'[u].state \in ACTIVE => rows[u].state \in ACTIVE
    BY <1>10, PruneStep DEF ACTIVE
  <2>2. UNCHANGED <<canceller, server, runners, disturbed>>
    BY <1>10, PruneStep
  <2> QED
    BY <1>1, <2>1, <2>2 DEF Live
<1>11. CASE Start
  <2>1. \A u \in Messages : rows'[u].state \notin ACTIVE
    BY <1>11 DEF Start, TypeOK, Row, ACTIVE
  <2> QED
    BY <2>1 DEF ActiveKept
<1>12. CASE CloseRunners \/ CloseDone \/ Crash \/ Close
  BY <1>12, ProcessEnds DEF CloseRunners, Close, ActiveKept
<1>13. CASE Sweep \/ DeleteContexts \/ UNCHANGED vars \/ (\E c \in Contexts : DeleteCheckpoint(c))
  <2>1. UNCHANGED <<canceller, runners, disturbed, rows>>
        /\ (server' \in {"starting", "up"} => server \in {"starting", "up"})
    BY <1>13 DEF Sweep, DeleteContexts, DeleteCheckpoint, vars
  <2> QED
    BY <1>1, <2>1 DEF Live
<1> QED
  BY <1>2, <1>3, <1>4, <1>5, <1>6, <1>7, <1>8, <1>9, <1>10, <1>11, <1>12, <1>13
  DEF Next, RunnerStep, CancelStep, SweepStep, Admits

\* A runner is stopped by its owner, by a lost key or by the shutdown, and only
\* the first makes it record CANCELED.
AskedFirst ==
    /\ canceller.task # NoMessage => canceller.task \in asked
    /\ \A m \in Messages : Live(m) /\ Alone(runners[m].task) =>
          /\ runners[m].cancelling => runners[m].task \in asked \cup revoked \/ Closing
          /\ runners[m].state = "CANCELED" => runners[m].task \in asked
    /\ CanceledByOwner

\* Every step keeps CANCELED to the tasks whose owner asked.
LEMMA NextAskedFirst ==
    /\ TypeOK /\ LockHeld /\ RowsKept /\ WritesOwned /\ OneRunner /\ AskedFirst
    /\ [Next]_vars
    => AskedFirst'
<1> SUFFICES ASSUME TypeOK, LockHeld, RowsKept, WritesOwned, OneRunner, AskedFirst, [Next]_vars
             PROVE  AskedFirst'
  OBVIOUS
<1> USE DEF stored, process, history
<1>0. NoMessage \notin Messages
  BY AgentTasksAssumption DEF AgentTasksAssumption
<1>1. ASSUME disturbed \subseteq disturbed',
             \A t \in Messages : Owned(t) => (t \in asked => t \in asked'),
             \A t \in Messages : rows'[t].state = "CANCELED" =>
                rows[t].state = "CANCELED" /\ (t \in asked => t \in asked'),
             canceller'.task # NoMessage => canceller'.task = canceller.task
      PROVE  /\ canceller'.task # NoMessage => canceller'.task \in asked'
             /\ CanceledByOwner'
  <2>1. canceller.task # NoMessage => canceller.task \in Messages /\ Owned(canceller.task)
    BY DEF RowsKept, TypeOK
  <2> QED
    BY <1>1, <2>1 DEF AskedFirst, CanceledByOwner
<1>2. ASSUME NEW n \in Messages, Live(n)', runners'[n].task \notin disturbed',
             disturbed \subseteq disturbed', Live(n),
             runners[n].task \in asked => runners[n].task \in asked',
             runners[n].task \in revoked => runners[n].task \in revoked',
             Closing => Closing',
             runners'[n].task = runners[n].task,
             runners'[n].cancelling =>
                runners[n].cancelling \/ runners[n].task \in asked \/ runners[n].task \in revoked'
                \/ Closing',
             runners'[n].state = "CANCELED" => runners[n].state = "CANCELED"
             \/ runners[n].task \in asked
      PROVE  /\ runners'[n].cancelling => runners'[n].task \in asked' \cup revoked' \/ Closing'
             /\ runners'[n].state = "CANCELED" => runners'[n].task \in asked'
  BY <1>2 DEF AskedFirst, Alone
<1>3. ASSUME disturbed \subseteq disturbed', asked \subseteq asked', revoked \subseteq revoked',
             Closing => Closing',
             \A n \in Messages : Live(n)' =>
                /\ Live(n)
                /\ runners'[n].task = runners[n].task
                /\ runners'[n].task \notin disturbed' =>
                   /\ runners'[n].cancelling =>
                        \/ runners[n].cancelling
                        \/ runners[n].task \in asked \/ runners[n].task \in revoked' \/ Closing'
                   /\ runners'[n].state = "CANCELED" =>
                        runners[n].state = "CANCELED" \/ runners[n].task \in asked,
             \A t \in Messages : rows'[t].state = "CANCELED" => rows[t].state = "CANCELED",
             canceller'.task # NoMessage => canceller'.task = canceller.task
      PROVE  AskedFirst'
  <2>1. /\ canceller'.task # NoMessage => canceller'.task \in asked'
        /\ CanceledByOwner'
    BY <1>1, <1>3
  <2>2. ASSUME NEW n \in Messages, Live(n)', runners'[n].task \notin disturbed'
        PROVE  /\ runners'[n].cancelling => runners'[n].task \in asked' \cup revoked' \/ Closing'
               /\ runners'[n].state = "CANCELED" => runners'[n].task \in asked'
    <3>0. Live(n) /\ runners'[n].task = runners[n].task
      BY <1>3, <2>2
    <3>1. /\ runners'[n].cancelling =>
               runners[n].cancelling \/ runners[n].task \in asked \/ runners[n].task \in revoked'
               \/ Closing'
          /\ runners'[n].state = "CANCELED" =>
               runners[n].state = "CANCELED" \/ runners[n].task \in asked
      BY <1>3, <2>2
    <3>2. /\ runners[n].task \notin disturbed
          /\ runners[n].task \in asked => runners[n].task \in asked'
          /\ runners[n].task \in revoked => runners[n].task \in revoked'
      BY <1>3, <2>2, <3>0
    <3>3. /\ runners[n].cancelling => runners[n].task \in asked \cup revoked \/ Closing
          /\ runners[n].state = "CANCELED" => runners[n].task \in asked
      BY <3>0, <3>2 DEF AskedFirst, Alone
    <3> QED
      BY <1>3, <3>0, <3>1, <3>2, <3>3
  <2> QED
    BY <2>1, <2>2 DEF AskedFirst, Alone
<1>4. ASSUME NEW m \in Messages, NEW t \in Messages, Admits(m, t)
      PROVE  AskedFirst'
  <2>1. /\ Launch(m, t) /\ Record(m, t) /\ UNCHANGED <<server, revoked, canceller>>
        /\ \A u \in Outdated(m) : ~Owned(u)
        /\ \A u \in Messages : u # t => rows'[u] = IF u \in Outdated(m) THEN NoRow ELSE rows[u]
        /\ rows'[t].state = "SUBMITTED"
    BY <1>4, AdmitStep
  <2>2. /\ ~Live(m) /\ runners'[m].state = "WORKING" /\ ~runners'[m].cancelling
        /\ \A n \in Messages : n # m => runners'[n] = runners[n]
    BY <2>1, LaunchStep
  <2>3. disturbed \subseteq disturbed' /\ asked' = asked \ Outdated(m)
    BY <2>1 DEF Launch
  <2>4. \A u \in Messages : Owned(u) => (u \in asked => u \in asked')
    BY <2>1, <2>3
  <2>5. \A u \in Messages : rows'[u].state = "CANCELED" =>
           rows[u].state = "CANCELED" /\ (u \in asked => u \in asked')
    BY <2>1, <2>3 DEF NoRow
  <2>6. ASSUME NEW n \in Messages, Live(n)', runners'[n].task \notin disturbed'
        PROVE  /\ runners'[n].cancelling => runners'[n].task \in asked' \cup revoked' \/ Closing'
               /\ runners'[n].state = "CANCELED" => runners'[n].task \in asked'
    <3>1. CASE n = m
      BY <2>2, <3>1
    <3>2. CASE n # m
      <4>1. Live(n) /\ runners'[n] = runners[n] /\ runners[n].task \in Messages
            /\ Owned(runners[n].task)
        BY <2>2, <2>6, <3>2 DEF Live, RowsKept
      <4> QED
        BY <1>2, <2>1, <2>3, <2>4, <2>6, <4>1 DEF Closing
    <3> QED
      BY <3>1, <3>2
  <2>7. /\ canceller'.task # NoMessage => canceller'.task \in asked'
        /\ CanceledByOwner'
    BY <1>1, <2>1, <2>3, <2>4, <2>5
  <2> QED
    BY <2>6, <2>7 DEF AskedFirst, Alone
<1>5. ASSUME NEW w \in writes, CommitSave(w)
      PROVE  AskedFirst'
  <2>1. \A n \in Messages : /\ (Live(n)' <=> Live(n)) /\ runners'[n].task = runners[n].task
                            /\ runners'[n].state = runners[n].state
                            /\ runners'[n].cancelling = runners[n].cancelling
    BY <1>5, CommitSaveStep DEF Live
  <2>2. UNCHANGED <<server, canceller, disturbed, asked, revoked>>
    BY <1>5 DEF CommitSave
  <2>3. \A t \in Messages : t # w.task => rows'[t] = rows[t]
    BY <1>5, CommitSaveStep
  <2>4. ASSUME Alone(w.task), rows'[w.task].state = "CANCELED", rows[w.task].state # "CANCELED"
        PROVE  w.task \in asked
    <3>1. \/ /\ w.by \in Messages /\ runners[w.by].task = w.task /\ runners[w.by].pc = "saving"
             /\ runners[w.by].state = "CANCELED"
          \/ canceller.task = w.task /\ w.task \in Messages
      BY <1>5, <2>4, CommitAlone
    <3> QED
      BY <1>0, <2>4, <3>1 DEF AskedFirst, Live
  <2>5. CanceledByOwner'
    BY <2>2, <2>3, <2>4 DEF CanceledByOwner, AskedFirst, Alone
  <2> QED
    BY <2>1, <2>2, <2>5 DEF AskedFirst, Alone, Closing
<1>6. ASSUME NEW m \in Messages, RunnerDone(m)
      PROVE  AskedFirst'
  <2>1. /\ runners[m].pc = "ending" /\ ~Live(m)' /\ \A n \in Messages : n # m =>
              runners'[n] = runners[n]
        /\ UNCHANGED <<rows, server, canceller, disturbed, asked>>
        /\ revoked' = revoked \ {runners[m].task}
    BY <1>6 DEF RunnerDone, TypeOK, NoRunner, Live
  <2>2. ASSUME NEW n \in Messages, Live(n)', runners'[n].task \notin disturbed'
        PROVE  /\ runners'[n].cancelling => runners'[n].task \in asked' \cup revoked' \/ Closing'
               /\ runners'[n].state = "CANCELED" => runners'[n].task \in asked'
    <3>1. n # m /\ Live(n) /\ runners'[n] = runners[n]
      BY <2>1, <2>2 DEF Live
    <3>2. runners[n].task # runners[m].task
      BY <2>1, <2>2, <3>1 DEF OneRunner, Alone, Live
    <3> QED
      BY <1>2, <2>1, <2>2, <3>1, <3>2 DEF Closing
  <2>3. /\ canceller'.task # NoMessage => canceller'.task \in asked'
        /\ CanceledByOwner'
    BY <1>1, <2>1
  <2> QED
    BY <2>2, <2>3 DEF AskedFirst, Alone
<1>7. ASSUME NEW m \in Messages, StartSave(m)
      PROVE  AskedFirst'
  <2>1. UNCHANGED <<rows, server, canceller, disturbed, asked, revoked>>
    BY <1>7 DEF StartSave
  <2>2. \A n \in Messages : Live(n)' =>
           /\ Live(n) /\ runners'[n].task = runners[n].task
           /\ runners'[n].cancelling => runners[n].cancelling
           /\ runners'[n].state = runners[n].state
    BY <1>7, StartSaveStep DEF Live
  <2> QED
    BY <1>3, <2>1, <2>2 DEF Closing
<1>8. ASSUME NEW m \in Messages, \/ SaveReturns(m)
                                 \/ \E outcome \in GraphOutcomes : GraphStep(m, outcome)
      PROVE  AskedFirst'
  <2>1. UNCHANGED <<rows, server, canceller, disturbed, asked, revoked>>
    BY <1>8 DEF SaveReturns, RunnerOnly, GraphStep
  <2>2. \A n \in Messages : Live(n)' =>
           /\ Live(n) /\ runners'[n].task = runners[n].task
           /\ runners'[n].cancelling => runners[n].cancelling
           /\ runners'[n].state = "CANCELED" => runners[n].state = "CANCELED"
    BY <1>8, SaveReturnsStep, GraphStepStep DEF Live
  <2> QED
    BY <1>3, <2>1, <2>2 DEF Closing
<1>9. ASSUME NEW m \in Messages, Interrupted(m)
      PROVE  AskedFirst'
  <2>1. UNCHANGED <<rows, server, canceller, asked, revoked>>
    BY <1>9 DEF Interrupted
  <2>2. /\ \A n \in Messages : n # m => runners'[n] = runners[n]
        /\ runners[m].pc # "none" /\ runners[m].cancelling
        /\ runners'[m].task = runners[m].task /\ ~runners'[m].cancelling
        /\ \/ runners'[m].state = runners[m].state
           \/ runners'[m].state = IF Closing
              \/ runners[m].task \in revoked THEN "FAILED" ELSE "CANCELED"
        /\ disturbed \subseteq disturbed'
    BY <1>9, InterruptedStep
  <2>3. runners[m].task \notin disturbed =>
           runners[m].task \in asked \/ runners[m].task \in revoked \/ Closing
    BY <2>2 DEF AskedFirst, Alone, Live
  <2>4. runners[m].task \notin disturbed /\ runners'[m].state = "CANCELED" =>
           runners[m].state = "CANCELED" \/ runners[m].task \in asked
    BY <2>2, <2>3
  <2> QED
    BY <1>3, <2>1, <2>2, <2>4 DEF Closing, Live
<1>10. ASSUME NEW m \in Messages, WatchKey(m)
       PROVE  AskedFirst'
  <2>1. UNCHANGED <<rows, server, canceller, disturbed, asked>>
        /\ revoked' = revoked \cup {runners[m].task}
    BY <1>10 DEF WatchKey
  <2>2. \A n \in Messages : Live(n)' =>
           /\ Live(n) /\ runners'[n].task = runners[n].task
           /\ runners'[n].state = runners[n].state
           /\ n # m => runners'[n].cancelling = runners[n].cancelling
    BY <1>10, WatchKeyStep DEF Live
  <2> QED
    BY <1>3, <2>1, <2>2 DEF Closing
<1>11. ASSUME NEW t \in Messages, Cancel(t)
       PROVE  AskedFirst'
  <2>1. /\ UNCHANGED <<rows, server, runners, disturbed, revoked>> /\ asked' = asked \cup {t}
        /\ canceller'.task = t
    BY <1>11 DEF Cancel
  <2> QED
    BY <2>1 DEF AskedFirst, CanceledByOwner, Alone, Live, Closing
<1>12. ASSUME NEW t \in Messages, Expire(t)
       PROVE  AskedFirst'
  <2>1. \A u \in Messages : rows'[u].state = rows[u].state
    BY <1>12 DEF Expire, TypeOK, Row
  <2>2. UNCHANGED <<server, canceller, runners, disturbed, asked, revoked>>
    BY <1>12 DEF Expire
  <2> QED
    BY <1>3, <2>1, <2>2 DEF Closing, Live
<1>13. CASE CancelStopRunner
  <2>1. canceller.task \in Messages
    BY <1>13 DEF CancelStopRunner, LockHeld, TypeOK
  <2>2. UNCHANGED <<rows, server, asked, revoked>>
    BY <1>13 DEF CancelStopRunner
  <2>3. /\ \A n \in Messages : ToldToStop(n)
        /\ \A n \in Messages : n # current[canceller.task] => runners'[n] = runners[n]
        /\ canceller'.task = canceller.task /\ disturbed \subseteq disturbed'
    BY <1>13, <2>1, CancelStopRunnerStep
  <2>4. /\ canceller.task \in asked
        /\ \A n \in Messages : n = current[canceller.task] => runners[n].task = canceller.task
    BY <1>0, <2>1 DEF AskedFirst, OneRunner
  <2> QED
    BY <1>3, <2>2, <2>3, <2>4 DEF ToldToStop, Live, Closing
<1>14. CASE CancelRunnerStopped \/ CancelStartSave \/ CancelSaved
  <2>1. /\ UNCHANGED <<rows, server, runners, disturbed, asked, revoked>>
        /\ canceller'.task = canceller.task \/ canceller' = NoCancel
    BY <1>14, CancelStepStep
  <2> QED
    BY <1>3, <2>1 DEF NoCancel, Live, Closing
<1>15. CASE Prune
  <2>1. /\ UNCHANGED <<server, runners, canceller, revoked, disturbed>>
        /\ \A u \in Messages : Owned(u) => rows'[u] = rows[u]
        /\ \A u \in Messages : rows'[u].state # "none" =>
              rows'[u] = rows[u] /\ (u \in asked => u \in asked')
    BY <1>15, PruneStep
  <2>2. \A u \in Messages : Owned(u) => (u \in asked => u \in asked')
    BY <2>1 DEF Owned
  <2>3. ASSUME NEW n \in Messages, Live(n)', runners'[n].task \notin disturbed'
        PROVE  /\ runners'[n].cancelling => runners'[n].task \in asked' \cup revoked' \/ Closing'
               /\ runners'[n].state = "CANCELED" => runners'[n].task \in asked'
    <3>1. Live(n) /\ runners[n].task \in Messages /\ Owned(runners[n].task)
      BY <2>1, <2>3 DEF Live, RowsKept
    <3> QED
      BY <1>2, <2>1, <2>2, <2>3, <3>1 DEF Closing
  <2>4. /\ canceller'.task # NoMessage => canceller'.task \in asked'
        /\ CanceledByOwner'
    BY <1>1, <2>1, <2>2
  <2> QED
    BY <2>3, <2>4 DEF AskedFirst, Alone
<1>16. CASE Start
  <2>1. \A u \in Messages : rows'[u].state = "CANCELED" => rows[u].state = "CANCELED"
    BY <1>16 DEF Start, TypeOK, Row
  <2>2. UNCHANGED <<canceller, runners, disturbed, asked, revoked>> /\ ~Closing
    BY <1>16 DEF Start, Closing
  <2> QED
    BY <1>3, <2>1, <2>2 DEF Live
<1>17. CASE CloseRunners
  <2>1. \A n \in Messages : ToldToStop(n)
    BY <1>17, CloseRunnersStep
  <2>2. UNCHANGED <<rows, canceller, disturbed, asked, revoked>> /\ Closing'
    BY <1>17 DEF CloseRunners, Closing
  <2> QED
    BY <1>3, <2>1, <2>2 DEF ToldToStop, Live
<1>18. CASE CloseDone \/ Crash
  BY <1>18, ProcessEnds DEF AskedFirst, CanceledByOwner
<1>19. CASE Sweep \/ DeleteContexts \/ UNCHANGED vars \/ Close
            \/ (\E c \in Contexts : DeleteCheckpoint(c))
  <2>1. UNCHANGED <<canceller, runners, disturbed, rows, asked, revoked>> /\ (Closing => Closing')
    BY <1>19 DEF Sweep, DeleteContexts, DeleteCheckpoint, Close, vars, Closing
  <2> QED
    BY <1>3, <2>1 DEF Live
<1> QED
  BY <1>4, <1>5, <1>6, <1>7, <1>8, <1>9, <1>10, <1>11, <1>12, <1>13, <1>14, <1>15, <1>16,
     <1>17, <1>18, <1>19
  DEF Next, RunnerStep, CancelStep, SweepStep, Admits

(***************************************************************************)
(* The theorems                                                            *)
(***************************************************************************)
IInv ==
    /\ TypeOK
    /\ LockHeld
    /\ RowsKept
    /\ RecordsKept
    /\ ContextsKept
    /\ PausedKept
    /\ UniqueReserved
    /\ WritesOwned
    /\ RunnerStates
    /\ OneRunner
    /\ RowsFollow
    /\ ActiveKept
    /\ AskedFirst

\* The invariant holds at first ...
LEMMA InitIInv == Init => IInv
<1> SUFFICES ASSUME Init
             PROVE  IInv
  OBVIOUS
<1>0. NoMessage \notin Messages /\ NoContext \notin Contexts
  BY AgentTasksAssumption DEF AgentTasksAssumption
<1>1. /\ \A t \in Messages : rows[t].state = "none" /\ rows[t].context = NoContext
      /\ \A m \in Messages : ~Live(m) /\ runners[m].task = NoMessage
      /\ canceller.pc = "none" /\ canceller.task = NoMessage /\ sweeper.pc = "none"
      /\ writes = {} /\ checkpoints = {} /\ server = "down"
      /\ \A m \in Messages : records[m] = NoMessage /\ launched[m] = 0 /\ current[m] = NoMessage
  BY DEF Init, NoRow, NoRunner, NoCancel, NoSweep, Live
<1>2. TypeOK
  BY InitTypeOK
<1>3. LockHeld /\ RowsKept /\ RecordsKept
  BY <1>0, <1>1 DEF LockHeld, RowsKept, RecordsKept
<1>4. ContextsKept /\ PausedKept /\ UniqueReserved
  BY <1>1 DEF ContextsKept, NoOrphanedCheckpoint, PausedKept, UniqueReserved, ACTIVE, PAUSED,
     RESERVED
<1>5. WritesOwned /\ RunnerStates /\ OneRunner
  BY <1>1 DEF WritesOwned, RunnerStates, OneRunner
<1>6. RowsFollow /\ ActiveKept /\ AskedFirst
  BY <1>1 DEF RowsFollow, ActiveKept, AskedFirst, CanceledByOwner
<1> QED
  BY <1>2, <1>3, <1>4, <1>5, <1>6 DEF IInv

\* ... and every step keeps it.
LEMMA NextIInv == IInv /\ [Next]_vars => IInv'
BY NextTypeOK, NextLockHeld, NextRowsKept, NextRecordsKept, NextContextsKept, NextPausedKept,
   NextUniqueReserved, NextWritesOwned, NextRunnerStates, NextOneRunner, NextRowsFollow,
   NextActiveKept, NextAskedFirst
DEF IInv

\* The inductive invariant holds in every behaviour: it says of every task that is
\* alone what its row, its runner, its saves and a cancel() call know of each other.
THEOREM InductiveInvariant == Spec => []IInv
BY InitIInv, NextIInv, PTL DEF Spec

\* No message is launched twice while it is recorded, and two graphs never run at
\* once in one conversation, unless the task of one of them was disturbed.
THEOREM AdmittedOnceHolds == Spec => []AdmittedOnce
<1>1. IInv => NeverRepeated
  BY DEF IInv, RecordsKept, NeverRepeated
<1>2. IInv => OneExecutionPerContext
  <2> SUFFICES ASSUME IInv, NEW m \in Messages, NEW n \in Messages, m # n,
                      runners[m].pc = "graph", runners[n].pc = "graph",
                      rows[runners[m].task].context = rows[runners[n].task].context,
                      Alone(runners[m].task), Alone(runners[n].task)
               PROVE  FALSE
    BY DEF OneExecutionPerContext, Alone
  <2>1. Live(m) /\ Live(n) /\ runners[m].task \in Messages /\ runners[n].task \in Messages
    BY DEF IInv, RowsKept, Live
  <2>2. runners[m].task # runners[n].task
    BY <2>1 DEF IInv, OneRunner
  <2>3. rows[runners[m].task].state = "WORKING" /\ rows[runners[n].task].state = "WORKING"
    BY <2>1 DEF IInv, RowsFollow, RowFollows
  <2> QED
    BY <2>1, <2>2, <2>3 DEF IInv, UniqueReserved, ACTIVE, RESERVED
<1> QED
  BY <1>1, <1>2, InductiveInvariant, PTL DEF AdmittedOnce

\* While the process serves, a task that says it is submitted or working has a
\* runner or a cancel() call, and a task that says CANCELED was cancelled by its
\* owner, whatever crashes, shutdowns and revocations came before.
THEOREM TasksConsistentHolds == Spec => []TasksConsistent
<1>1. IInv => TasksConsistent
  BY DEF IInv, ActiveKept, AskedFirst, TasksConsistent, ActiveHasRunner, Alone
<1> QED
  BY <1>1, InductiveInvariant, PTL

\* The checkpoint a paused task resumes from is there, and no checkpoint outlives
\* its thread, wherever a sweep is or was stopped.
THEOREM CheckpointsMatchHolds == Spec => []CheckpointsMatch
<1>1. IInv => PausedIsResumable
  BY DEF IInv, RowsKept, PausedKept, PausedIsResumable, Owned
<1>2. IInv => NoOrphanedCheckpoint
  BY DEF IInv, ContextsKept
<1> QED
  BY <1>1, <1>2, InductiveInvariant, PTL DEF CheckpointsMatch

\* No step of any actor changes what a terminal task that is alone recorded.
THEOREM TerminalStaysHolds == Spec => TerminalStays
<1> DEFINE Stays == \A t \in Messages \ disturbed' :
                       /\ rows[t].state \in Terminal
                       /\ rows'[t].state \in RESERVED \cup Terminal
                       /\ Owned(t)
                       => rows'[t].state = rows[t].state
<1>1. ASSUME IInv, Next
      PROVE  Stays
  <2> SUFFICES ASSUME NEW t \in Messages, t \notin disturbed', rows[t].state \in Terminal,
                      rows'[t].state \in RESERVED \cup Terminal, Owned(t)
               PROVE  rows'[t].state = rows[t].state
    OBVIOUS
  <2>0. TypeOK /\ RowsKept /\ [Next]_vars
    BY <1>1 DEF IInv
  <2>1. ASSUME NEW m \in Messages, NEW u \in Messages, Admits(m, u)
        PROVE  rows'[t].state = rows[t].state
    <3>1. /\ \A v \in Outdated(m) : ~Owned(v)
          /\ \A v \in Messages : v # u => rows'[v] = IF v \in Outdated(m) THEN NoRow ELSE rows[v]
          /\ ~Owned(u) \/ rows[u].state \in PAUSED
      BY <2>0, <2>1, AdmitStep
    <3>2. t # u
      BY <3>1 DEF PAUSED, Terminal
    <3> QED
      BY <3>1, <3>2
  <2>2. CASE Prune
    BY <2>0, <2>2, PruneStep
  <2>3. ASSUME NEW w \in writes, CommitSave(w)
        PROVE  rows'[t].state = rows[t].state
    <3>1. CASE t # w.task
      BY <2>0, <2>3, <3>1, CommitSaveStep
    <3>2. CASE t = w.task
      <4>1. disturbed' = disturbed
        BY <2>3 DEF CommitSave, history
      <4>2. Alone(w.task)
        BY <3>2, <4>1 DEF Alone
      <4>3. \/ /\ w.by \in Messages /\ w.awaited
               /\ runners[w.by].pc = "saving" /\ runners[w.by].task = w.task
            \/ w.by = "cancel" /\ w.awaited /\ canceller.pc = "saving" /\ canceller.task = w.task
        BY <1>1, <2>3, <4>2, CommitAlone DEF IInv
      <4>4. CASE w.by \in Messages /\ w.awaited /\ runners[w.by].pc = "saving"
                 /\ runners[w.by].task = w.task
        <5>1. RowFollows(w.by) /\ Unsaved(w.by)
          BY <1>1, <4>2, <4>4 DEF IInv, RowsFollow, Live, Unsaved, Awaiting
        <5>2. rows[w.task].state \in RESERVED
          BY <4>4, <5>1 DEF RowFollows
        <5> QED
          BY <3>2, <5>2 DEF ACTIVE, PAUSED, RESERVED, Terminal
      <4>5. CASE w.by = "cancel" /\ w.awaited /\ canceller.pc = "saving" /\ canceller.task = w.task
        <5>1. Awaiting("cancel")
          BY <4>5 DEF Awaiting
        <5>2. canceller.task # NoMessage
          BY <1>1, <4>5 DEF IInv, LockHeld
        <5>3. rows[w.task].state \in RESERVED
          BY <1>1, <4>2, <4>5, <5>1, <5>2 DEF IInv, RowsFollow, CancelFollows
        <5> QED
          BY <3>2, <5>3 DEF ACTIVE, PAUSED, RESERVED, Terminal
      <4> QED
        BY <4>3, <4>4, <4>5
    <3> QED
      BY <3>1, <3>2
  <2>4. CASE Start
    BY <2>4 DEF Start, ACTIVE, Terminal
  <2>5. ASSUME \A m, u \in Messages : ~Admits(m, u), ~Prune, \A w \in writes : ~CommitSave(w), ~Start
        PROVE  rows'[t].state = rows[t].state
    BY <2>0, <2>5, RowsStep
  <2> QED
    BY <2>1, <2>2, <2>3, <2>4, <2>5
<1>2. IInv /\ [Next]_vars => [Stays]_vars
  BY <1>1
<1> QED
  BY <1>2, InductiveInvariant, PTL DEF Spec, TerminalStays
=============================================================================
