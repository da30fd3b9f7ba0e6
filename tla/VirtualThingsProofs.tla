------------------------- MODULE VirtualThingsProofs -------------------------
(***************************************************************************)
(* Theorems about VirtualThings, for any number of calls and affordances.  *)
(***************************************************************************)
EXTENDS VirtualThings, TLAPS

(***************************************************************************)
(* Steps of one call                                                       *)
(***************************************************************************)
\* A step of call c that changes neither the rows, the tasks nor the history of
\* the Thing, and no other call.
LocalStep(c) ==
    /\ LoadOnly
    /\ \A d \in Calls \ {c} : calls'[d] = calls[d] /\ overtaken'[d] = overtaken[d]

\* The actions that are local steps.
LocalAction(c) ==
    \/ Create(c)
    \/ \E a \in Affordances : Add(c, a)
    \/ Activate(c)
    \/ \E all \in SUBSET Affordances, status \in {"active", "disabled"} :
          Replace(c, all, status)
    \/ LoadBindings(c) \/ Accept(c) \/ Refuse(c) \/ DefineRead(c) \/ DefineFails(c)
    \/ Reread(c) \/ Interact(c) \/ InteractionEnds(c)

(***************************************************************************)
(* Type correctness                                                        *)
(***************************************************************************)
\* The records of calls, tasks and Things that are not there are typed.
LEMMA EmptyTypes ==
    /\ IdleCall \in Call
    /\ DoneCall \in Call
    /\ NoTask \in Task
    /\ \A n \in Nat : NoThing(n) \in Thing
    /\ Nothing \in [added: SUBSET Affordances, succeeded: SUBSET Calls, reverted: BOOLEAN]
<1>1. /\ NoTask \in Task
      /\ \A n \in Nat : NoThing(n) \in Thing
      /\ Nothing \in [added: SUBSET Affordances, succeeded: SUBSET Calls, reverted: BOOLEAN]
  BY DEF NoTask, Task, NoThing, Thing, Description, EmptyDescription, Nothing
<1>2. IdleCall \in Call
  BY <1>1 DEF IdleCall, Call
<1>3. DoneCall \in Call
  BY <1>2 DEF DoneCall, Call
<1> QED
  BY <1>1, <1>2, <1>3

\* What a typed call stores is typed.
LEMMA RequestTypes ==
    ASSUME NEW call \in Call
    PROVE  /\ RequestedTd(call) \in Description
           /\ RequestedBindings(call) \in SUBSET Affordances
           /\ RequestedStatus(call) \in {"active", "disabled"}
BY DEF RequestedTd, RequestedBindings, RequestedStatus, EmptyDescription, Description,
       Call, Thing

\* A local step keeps the types.
LEMMA LocalTypes ==
    ASSUME TypeOK, NEW c \in Calls, LocalAction(c)
    PROVE  TypeOK' /\ LocalStep(c)
<1>1. LoadOnly
  BY DEF LocalAction, Create, Add, Activate, Replace, Load, LoadBindings, Accept, Refuse,
         DefineRead, DefineFails, Reread, Interact, InteractionEnds
<1>2. /\ calls[c] \in Call
      /\ thing \in Thing
      /\ bindings \in SUBSET Affordances
      /\ overtaken[c] \in [added: SUBSET Affordances, succeeded: SUBSET Calls,
                           reverted: BOOLEAN]
  BY DEF TypeOK
<1>3. /\ calls' \in [Calls -> Call]
      /\ \A d \in Calls \ {c} : calls'[d] = calls[d]
  <2>1. \E call \in Call : calls' = [calls EXCEPT ![c] = call]
    <3>1. ASSUME NEW op \in {"create", "add", "activate", "replace"},
                 NEW adds \in SUBSET Affordances, NEW status \in {"active", "disabled"},
                 NEW pc \in {"defining", "loading", "checking"}, Load(c, op, adds, status, pc)
          PROVE  \E call \in Call : calls' = [calls EXCEPT ![c] = call]
      <4>1. [IdleCall EXCEPT !.op = op, !.pc = pc, !.adds = adds, !.status = status,
                             !.row = thing] \in Call
        BY <1>2, EmptyTypes DEF Call
      <4> QED
        BY <3>1, <4>1 DEF Load
    <3>2. CASE \/ Create(c) \/ Activate(c)
               \/ \E a \in Affordances : Add(c, a)
               \/ \E all \in SUBSET Affordances, status \in {"active", "disabled"} :
                     Replace(c, all, status)
      BY <3>1, <3>2 DEF Create, Activate, Add, Replace
    <3>3. CASE LoadBindings(c)
      <4>1. [calls[c] EXCEPT !.pc = "checking", !.bound = bindings] \in Call
        BY <1>2 DEF Call
      <4>2. calls' = [calls EXCEPT ![c] = [calls[c] EXCEPT !.pc = "checking",
                                                           !.bound = bindings]]
        BY <3>3 DEF LoadBindings, TypeOK
      <4> QED
        BY <4>1, <4>2
    <3>4. CASE Accept(c)
      <4>1. [calls[c] EXCEPT !.pc = "defining"] \in Call
        BY <1>2 DEF Call
      <4> QED
        BY <3>4, <4>1 DEF Accept
    <3>5. CASE DefineRead(c)
      <4>1. [calls[c] EXCEPT !.pc = "writing", !.read = thing] \in Call
        BY <1>2 DEF Call
      <4>2. calls' = [calls EXCEPT ![c] = [calls[c] EXCEPT !.pc = "writing",
                                                           !.read = thing]]
        BY <3>5 DEF DefineRead, TypeOK
      <4> QED
        BY <4>1, <4>2
    <3>6. CASE Reread(c)
      <4>1. [calls[c] EXCEPT !.pc = "returned", !.row = thing] \in Call
        BY <1>2 DEF Call
      <4> QED
        BY <3>6, <4>1, EmptyTypes DEF Reread
    <3>7. CASE Interact(c)
      <4>1. [IdleCall EXCEPT !.op = "interact", !.pc = "handling", !.row = thing] \in Call
        BY <1>2, EmptyTypes DEF Call
      <4> QED
        BY <3>7, <4>1 DEF Interact
    <3>8. CASE Refuse(c) \/ DefineFails(c) \/ InteractionEnds(c)
      BY <3>8, EmptyTypes DEF Refuse, DefineFails, InteractionEnds
    <3> QED
      BY <3>2, <3>3, <3>4, <3>5, <3>6, <3>7, <3>8 DEF LocalAction
  <2> QED
    BY <2>1 DEF TypeOK
<1>4. /\ overtaken' \in [Calls -> [added: SUBSET Affordances, succeeded: SUBSET Calls,
                                  reverted: BOOLEAN]]
      /\ \A d \in Calls \ {c} : overtaken'[d] = overtaken[d]
  <2>1. [overtaken[c] EXCEPT !.added = {}]
           \in [added: SUBSET Affordances, succeeded: SUBSET Calls, reverted: BOOLEAN]
    BY <1>2
  <2>2. \/ overtaken' = overtaken
        \/ overtaken' = [overtaken EXCEPT ![c] = Nothing]
        \/ overtaken' = [overtaken EXCEPT ![c] = [overtaken[c] EXCEPT !.added = {}]]
    BY DEF LocalAction, Create, Add, Activate, Replace, Load, LoadBindings, Accept, Refuse,
           DefineRead, DefineFails, Reread, Interact, InteractionEnds, TypeOK
  <2> QED
    BY <2>1, <2>2, EmptyTypes DEF TypeOK
<1>5. lock' \in Calls \cup {NoCall}
  BY DEF LocalAction, Create, Add, Activate, Replace, Load, LoadBindings, Accept, Refuse,
         DefineRead, DefineFails, Reread, Interact, InteractionEnds, TypeOK, Released
<1> QED
  BY <1>1, <1>3, <1>4, <1>5 DEF TypeOK, LocalStep, LoadOnly, database

\* A step is a local one or one of seven others.
LEMMA NextCases ==
    ASSUME Next
    PROVE  \E c \in Calls :
              \/ LocalAction(c)
              \/ DefineWrite(c)
              \/ Delete(c)
              \/ Schedule(c)
              \/ EnrichDone(c) \/ ApplyRead(c)
              \/ ApplyWrite(c)
              \/ InteractionStores(c)
BY DEF Next, DefineStep, EnrichStep, LocalAction

\* What define_thing writes is a row, with the description and the version it asks
\* for when nothing came between.
LEMMA UpdatedRow ==
    ASSUME NEW call \in Call, thing \in Thing
    PROVE  /\ Updated(call) \in Thing
           /\ Updated(call).exists = thing.exists
           /\ Updated(call).incarnation = thing.incarnation
           /\ Updated(call).version = call.read.version + 1
           /\ thing = call.read => Updated(call).td = RequestedTd(call)
           /\ Updated(call).shared = IF WritesShared(call) THEN call.row.shared
                                     ELSE thing.shared
           /\ Updated(call).sharedVersion = IF WritesShared(call)
                                            THEN call.read.sharedVersion + 1
                                            ELSE thing.sharedVersion
<1>1. /\ RequestedTd(call) \in Description
      /\ RequestedStatus(call) \in {"active", "disabled"}
  BY RequestTypes
<1>2. /\ call.read \in Thing /\ call.row \in Thing
      /\ call.read.version + 1 \in Nat
      /\ call.read.sharedVersion + 1 \in Nat
  BY DEF Call, Thing
<1> DEFINE status == Column(RequestedStatus(call), call.read.status, thing.status)
           td == Column(RequestedTd(call), call.read.td, thing.td)
           shared == IF WritesShared(call) THEN call.row.shared ELSE thing.shared
           sharedVersion == IF WritesShared(call) THEN call.read.sharedVersion + 1
                            ELSE thing.sharedVersion
<1>3. /\ status \in {"active", "disabled"}
      /\ td \in Description
      /\ thing = call.read => td = RequestedTd(call)
      /\ shared \in SUBSET Calls
      /\ sharedVersion \in Nat
  BY <1>1, <1>2 DEF Column, Thing
<1>4. Updated(call) = [thing EXCEPT !.version = call.read.version + 1, !.status = status,
                                    !.td = td, !.shared = shared,
                                    !.sharedVersion = sharedVersion]
  BY DEF Updated, Thing
<1> HIDE DEF status, td, shared, sharedVersion
<1>6. Updated(call) \in Thing
  BY <1>2, <1>3, <1>4 DEF Thing
<1>5. /\ Updated(call).exists = thing.exists
      /\ Updated(call).incarnation = thing.incarnation
      /\ Updated(call).version = call.read.version + 1
      /\ Updated(call).td = td
      /\ Updated(call).shared = shared
      /\ Updated(call).sharedVersion = sharedVersion
  BY <1>4 DEF Thing
<1> QED
  BY <1>3, <1>5, <1>6 DEF shared, sharedVersion

\* A create puts the next incarnation of the Thing into the table.
LEMMA InsertedRow ==
    ASSUME NEW call \in Call, thing \in Thing
    PROVE  /\ Inserted(call) \in Thing
           /\ Inserted(call).exists
           /\ Inserted(call).incarnation = thing.incarnation + 1
           /\ Inserted(call).td = RequestedTd(call)
<1>1. /\ RequestedTd(call) \in Description
      /\ RequestedStatus(call) \in {"active", "disabled"}
  BY RequestTypes
<1>2. /\ call.row.shared \in SUBSET Calls
      /\ thing.incarnation + 1 \in Nat
  BY DEF Call, Thing
<1> QED
  BY <1>1, <1>2 DEF Inserted, Thing

\* A create, a replacement or an addition writes rows of their types.
LEMMA DefineWriteTypes ==
    ASSUME TypeOK, NEW c \in Calls, DefineWrite(c)
    PROVE  TypeOK'
<1>1. calls[c] \in Call /\ thing \in Thing
  BY DEF TypeOK
<1>2. thing' \in Thing
  BY <1>1, UpdatedRow, InsertedRow DEF DefineWrite
<1>3. bindings' \in SUBSET Affordances
  BY <1>1, RequestTypes DEF DefineWrite
<1>4. [IdleCall EXCEPT !.pc = "stored"] \in Call
  BY EmptyTypes DEF Call
<1>5. calls' \in [Calls -> Call]
  BY <1>4, EmptyTypes DEF DefineWrite, TypeOK
<1>6. added' \in SUBSET Affordances
  BY <1>1 DEF DefineWrite, StillAdded, TypeOK, Call
<1>7. overtaken' \in [Calls -> [added: SUBSET Affordances, succeeded: SUBSET Calls,
                               reverted: BOOLEAN]]
  <2> SUFFICES ASSUME NEW d \in Calls
               PROVE  overtaken'[d] \in [added: SUBSET Affordances, succeeded: SUBSET Calls,
                                        reverted: BOOLEAN]
    BY DEF DefineWrite
  <2> DEFINE more == IF calls[c].op = "add" THEN overtaken[d].added \cup calls[c].adds
                     ELSE overtaken[d].added
             back == \/ overtaken[d].reverted
                     \/ /\ thing.exists
                        /\ WritesShared(calls[c])
                        /\ thing.sharedVersion # calls[c].read.sharedVersion
  <2>1. /\ overtaken[d] \in [added: SUBSET Affordances, succeeded: SUBSET Calls,
                             reverted: BOOLEAN]
        /\ more \in SUBSET Affordances
        /\ back \in BOOLEAN
    BY <1>1 DEF TypeOK, Call
  <2>2. \/ overtaken'[d] = Nothing
        \/ overtaken'[d] = overtaken[d]
        \/ overtaken'[d] = [overtaken[d] EXCEPT !.added = more,
                                              !.reverted = back]
    BY DEF DefineWrite
  <2> HIDE DEF more, back
  <2>3. [overtaken[d] EXCEPT !.added = more, !.reverted = back]
           \in [added: SUBSET Affordances, succeeded: SUBSET Calls, reverted: BOOLEAN]
    BY <2>1
  <2> QED
    BY <2>1, <2>2, <2>3, EmptyTypes
<1> QED
  BY <1>2, <1>3, <1>5, <1>6, <1>7 DEF DefineWrite, TypeOK, Released

\* A deletion keeps the types.
LEMMA DeleteTypes ==
    ASSUME TypeOK, NEW c \in Calls, Delete(c)
    PROVE  TypeOK'
<1>1. thing.incarnation \in Nat
  BY DEF TypeOK, Thing
<1>2. thing' \in Thing
  BY <1>1, EmptyTypes DEF Delete
<1>3. calls' \in [Calls -> Call]
  BY EmptyTypes DEF Delete, TypeOK
<1>4. overtaken' \in [Calls -> [added: SUBSET Affordances, succeeded: SUBSET Calls,
                               reverted: BOOLEAN]]
  <2>1. ASSUME NEW d \in Calls
        PROVE  /\ overtaken[d] \in [added: SUBSET Affordances, succeeded: SUBSET Calls,
                                   reverted: BOOLEAN]
               /\ [overtaken[d] EXCEPT !.reverted = TRUE]
                     \in [added: SUBSET Affordances, succeeded: SUBSET Calls,
                          reverted: BOOLEAN]
    <3>1. overtaken[d] \in [added: SUBSET Affordances, succeeded: SUBSET Calls,
                           reverted: BOOLEAN]
      BY DEF TypeOK
    <3> QED
      BY <3>1
  <2> QED
    BY <2>1 DEF Delete
<1> QED
  BY <1>2, <1>3, <1>4 DEF Delete, TypeOK

\* A background enrichment that is over leaves an empty task.
LEMMA TaskOverTypes ==
    ASSUME TypeOK, NEW c \in Calls, TaskOver(c)
    PROVE  /\ tasks' \in [Calls -> Task]
           /\ scheduled' \in Calls \cup {NoCall}
BY EmptyTypes DEF TaskOver, TypeOK

\* Scheduling an enrichment keeps the types.
LEMMA ScheduleTypes ==
    ASSUME TypeOK, NEW c \in Calls, Schedule(c)
    PROVE  TypeOK'
<1>1. calls[c].row \in Thing
  BY DEF TypeOK, Call
<1>2. [pc |-> "enriching", td |-> calls[c].row.td, base |-> calls[c].row.version,
       incarnation |-> calls[c].row.incarnation] \in Task
  BY <1>1 DEF Thing, Task
<1>3. scheduled = NoCall \/ Cancelled(tasks[scheduled]) \subseteq Task
  BY EmptyTypes DEF Cancelled, TypeOK
<1>4. PICK prior \in IF scheduled = NoCall THEN {NoTask} ELSE Cancelled(tasks[scheduled]) :
        tasks' = [d \in Calls |->
                    IF d = c THEN [pc |-> "enriching", td |-> calls[c].row.td,
                                   base |-> calls[c].row.version,
                                   incarnation |-> calls[c].row.incarnation]
                    ELSE IF d = scheduled THEN prior ELSE tasks[d]]
  BY DEF Schedule
<1>5. prior \in Task
  BY <1>3, <1>4, EmptyTypes
<1>6. tasks' \in [Calls -> Task]
  BY <1>2, <1>4, <1>5 DEF TypeOK
<1>7. calls' \in [Calls -> Call]
  BY EmptyTypes DEF Schedule, TypeOK
<1> QED
  BY <1>6, <1>7 DEF Schedule, TypeOK, database, history

\* An enrichment that was computed, or reads its row again, keeps the types.
LEMMA EnrichTypes ==
    ASSUME TypeOK, NEW c \in Calls, EnrichDone(c) \/ ApplyRead(c)
    PROVE  TypeOK'
<1>1. tasks[c] \in Task
  BY DEF TypeOK
<1> DEFINE td == [tasks[c].td EXCEPT !.enriched = TRUE]
<1>2. td \in Description
  BY <1>1 DEF Task, Description
<1>3. /\ [tasks[c] EXCEPT !.pc = "applying", !.td = td] \in Task
      /\ [tasks[c] EXCEPT !.pc = "checked"] \in Task
  <2> HIDE DEF td
  <2> QED
    BY <1>1, <1>2 DEF Task
<1>4. \/ tasks' = [tasks EXCEPT ![c] = [tasks[c] EXCEPT !.pc = "applying", !.td = td]]
      \/ tasks' = [tasks EXCEPT ![c] = [tasks[c] EXCEPT !.pc = "checked"]]
      \/ TaskOver(c)
  <2>1. CASE EnrichDone(c)
    <3>1. [tasks EXCEPT ![c].pc = "applying", ![c].td.enriched = TRUE]
             = [tasks EXCEPT ![c] = [tasks[c] EXCEPT !.pc = "applying", !.td = td]]
      BY <1>1 DEF TypeOK, Task
    <3> HIDE DEF td
    <3> QED
      BY <2>1, <3>1 DEF EnrichDone
  <2>2. CASE ApplyRead(c)
    BY <2>2 DEF ApplyRead
  <2> QED
    BY <2>1, <2>2
<1>5. /\ tasks' \in [Calls -> Task]
      /\ scheduled' \in Calls \cup {NoCall}
  <2>1. scheduled' \in Calls \cup {NoCall}
    BY TaskOverTypes DEF EnrichDone, ApplyRead, TypeOK
  <2> HIDE DEF td
  <2> QED
    BY <1>3, <1>4, <2>1, TaskOverTypes DEF TypeOK
<1> QED
  BY <1>5 DEF EnrichDone, ApplyRead, TypeOK, database, history

\* An enrichment that is stored keeps the types.
LEMMA ApplyWriteTypes ==
    ASSUME TypeOK, NEW c \in Calls, ApplyWrite(c)
    PROVE  TypeOK'
<1>1. thing \in Thing /\ tasks[c] \in Task
  BY DEF TypeOK
<1>2. tasks[c].td \in Description /\ tasks[c].base + 1 \in Nat
  BY <1>1 DEF Task
<1>3. [thing EXCEPT !.td = tasks[c].td, !.version = tasks[c].base + 1] \in Thing
  BY <1>1, <1>2 DEF Thing
<1>4. thing' \in Thing /\ raced' \in BOOLEAN
  BY <1>1, <1>3 DEF ApplyWrite, TypeOK
<1> QED
  BY <1>4, TaskOverTypes DEF ApplyWrite, TypeOK

\* An interaction that stores its state keeps the types.
LEMMA InteractionStoresTypes ==
    ASSUME TypeOK, NEW c \in Calls, InteractionStores(c)
    PROVE  TypeOK'
<1>1. thing \in Thing /\ calls[c].row \in Thing
  BY DEF TypeOK, Call
<1>2. /\ calls[c].row.shared \cup {c} \in SUBSET Calls
      /\ thing.sharedVersion + 1 \in Nat
  BY <1>1 DEF Thing
<1>3. [thing EXCEPT !.shared = calls[c].row.shared \cup {c},
                    !.sharedVersion = thing.sharedVersion + 1] \in Thing
  BY <1>1, <1>2 DEF Thing
<1>4. thing' \in Thing
  BY <1>1, <1>3 DEF InteractionStores, Thing
<1>5. calls' \in [Calls -> Call]
  BY EmptyTypes DEF InteractionStores, TypeOK
<1>6. overtaken' \in [Calls -> [added: SUBSET Affordances, succeeded: SUBSET Calls,
                               reverted: BOOLEAN]]
  <2> SUFFICES ASSUME NEW d \in Calls
               PROVE  overtaken'[d] \in [added: SUBSET Affordances, succeeded: SUBSET Calls,
                                        reverted: BOOLEAN]
    BY DEF InteractionStores, Succeeds
  <2>1. overtaken[d] \in [added: SUBSET Affordances, succeeded: SUBSET Calls,
                         reverted: BOOLEAN]
    BY DEF TypeOK
  <2>2. [overtaken[d] EXCEPT !.succeeded = overtaken[d].succeeded \cup {c}]
           \in [added: SUBSET Affordances, succeeded: SUBSET Calls, reverted: BOOLEAN]
    BY <2>1
  <2>3. \/ overtaken'[d] = Nothing
        \/ overtaken'[d] = overtaken[d]
        \/ overtaken'[d] = [overtaken[d] EXCEPT !.succeeded = overtaken[d].succeeded
                                                            \cup {c}]
    BY <2>1 DEF InteractionStores, Succeeds
  <2> QED
    BY <2>1, <2>2, <2>3, EmptyTypes
<1>7. succeeded' \in SUBSET Calls
  BY DEF InteractionStores, Succeeds, TypeOK
<1> QED
  BY <1>4, <1>5, <1>6, <1>7 DEF InteractionStores, TypeOK

\* The variables have their types at first ...
LEMMA InitTypeOK == Init => TypeOK
<1> SUFFICES ASSUME Init
             PROVE  TypeOK
  OBVIOUS
<1>1. PICK has \in SUBSET Affordances, status \in {"active", "disabled"} :
         /\ bindings = has
         /\ \/ thing = NoThing(0) /\ has = {}
            \/ thing = [exists |-> TRUE, incarnation |-> 1, version |-> 1,
                        status |-> status, td |-> [has |-> has, enriched |-> FALSE],
                        shared |-> {}, sharedVersion |-> 1]
  BY DEF Init
<1>2. [has |-> has, enriched |-> FALSE] \in Description
  BY DEF Description
<1>3. NoThing(0) \in Thing
  BY EmptyTypes
<1>4. [exists |-> TRUE, incarnation |-> 1, version |-> 1, status |-> status,
       td |-> [has |-> has, enriched |-> FALSE], shared |-> {}, sharedVersion |-> 1] \in Thing
  BY <1>2 DEF Thing
<1>5. thing \in Thing /\ bindings \in SUBSET Affordances
  BY <1>1, <1>3, <1>4
<1> QED
  BY <1>5, EmptyTypes DEF Init, TypeOK

\* ... and every step keeps them.
LEMMA NextTypeOK == TypeOK /\ [Next]_vars => TypeOK'
<1> SUFFICES ASSUME TypeOK, [Next]_vars
             PROVE  TypeOK'
  OBVIOUS
<1>1. CASE Next
  BY <1>1, NextCases, LocalTypes, DefineWriteTypes, DeleteTypes, ScheduleTypes, EnrichTypes,
     ApplyWriteTypes, InteractionStoresTypes
<1>2. CASE UNCHANGED vars
  BY <1>2 DEF TypeOK, vars, database, history
<1> QED
  BY <1>1, <1>2

\* Every variable keeps its type: among others, a status is one the schema knows and
\* the lock and the scheduler name calls.
THEOREM TypeCorrect == Spec => []TypeOK
<1>1. Init => TypeOK
  BY InitTypeOK
<1>2. TypeOK /\ [Next]_vars => TypeOK'
  BY NextTypeOK
<1> QED
  BY <1>1, <1>2, PTL DEF Spec

(***************************************************************************)
(* The inductive invariants                                                *)
(***************************************************************************)
\* The holder of the build lock is the addition that is under way.
AdditionsLocked == \A c \in Calls : calls[c].op = "add" => lock = c

\* Whatever an addition, an activation or a create is about to store holds
\* everything that was added before it loaded, and nothing was added since an
\* addition loaded.
AddsSeen ==
    \A c \in Calls :
        calls[c].pc \in {"checking", "defining", "writing"} =>
            /\ calls[c].op # "replace" =>
                  added \ overtaken[c].added \subseteq calls[c].bound
            /\ calls[c].op = "add" => overtaken[c].added = {}

GoneIsEmpty == ~thing.exists => added = {} /\ succeeded = {}

\* A call under way that may store the shared state it has seen.
HoldsShared(call) ==
    \/ call.pc = "handling"
    \/ CarriesShared(call) /\ call.pc \notin {"idle", "done"}

\* Whoever is about to store shared state has seen every success but the
\* overtaking ones; to an interaction that nothing reverted the version tells them apart.
InteractionsSeen ==
    \A c \in Calls :
        LET call == calls[c]
        IN  /\ HoldsShared(call) =>
                  succeeded \ overtaken[c].succeeded \subseteq call.row.shared
            /\ call.pc = "handling" /\ ~overtaken[c].reverted =>
                  /\ thing.exists
                  /\ call.row.sharedVersion <= thing.sharedVersion
                  /\ call.row.sharedVersion = thing.sharedVersion =>
                        succeeded \subseteq call.row.shared

\* A request that was accepted covers its bindings.
RequestsCovered ==
    \A c \in Calls :
        calls[c].pc \in {"defining", "writing"} =>
            Covered(RequestedTd(calls[c]), RequestedBindings(calls[c]))

\* A description td that was read at a version and an incarnation of Thing t is
\* still the one it has, unless the version has grown.
Current(t, race, incarnation, version, td) ==
    /\ incarnation <= t.incarnation
    /\ ~race /\ t.exists /\ incarnation = t.incarnation =>
          /\ version <= t.version
          /\ version = t.version => td.has = t.td.has

TaskCurrent(task) ==
    task.pc # "none" => Current(thing, raced, task.incarnation, task.base, task.td)

CallCurrent(call) ==
    call.pc = "returned" =>
        Current(thing, raced, call.row.incarnation, call.row.version, call.row.td)

DescriptionsCurrent ==
    \A c \in Calls :
        /\ TaskCurrent(tasks[c])
        /\ CallCurrent(calls[c])

\* A step that leaves what is current so.
KeepsCurrent ==
    \A incarnation \in Nat, version \in Nat, td \in Description :
        Current(thing, raced, incarnation, version, td) =>
        Current(thing', raced', incarnation, version, td)

\* What is with the language model is what the scheduler knows.
EnrichingIsScheduled == \A c \in Calls : tasks[c].pc = "enriching" => scheduled = c

(***************************************************************************)
(* What a local step makes of its call                                     *)
(***************************************************************************)
StartsCreate(c) ==
    /\ ~thing.exists
    /\ calls'[c].op = "create"
    /\ calls'[c].pc = "defining"
    /\ calls'[c].adds = {}
    /\ calls'[c].bound = {}
    /\ lock' = lock

StartsReplace(c) ==
    /\ calls'[c].op = "replace"
    /\ calls'[c].pc = "checking"
    /\ calls'[c].row = thing
    /\ lock' = lock

StartsAdd(c) ==
    /\ lock = NoCall
    /\ calls'[c].op = "add"
    /\ calls'[c].pc = "loading"
    /\ calls'[c].row = thing
    /\ lock' = c

StartsActivate(c) ==
    /\ calls'[c].op = "activate"
    /\ calls'[c].pc = "loading"
    /\ calls'[c].row = thing
    /\ lock' = lock

StartsInteract(c) ==
    /\ thing.exists
    /\ calls'[c].op = "interact"
    /\ calls'[c].pc = "handling"
    /\ calls'[c].row = thing
    /\ lock' = lock

LoadsBindings(c) ==
    /\ calls[c].pc = "loading"
    /\ calls'[c].op = calls[c].op
    /\ calls'[c].pc = "checking"
    /\ calls'[c].row = calls[c].row
    /\ calls'[c].bound = bindings
    /\ overtaken'[c].added = {}
    /\ overtaken'[c].succeeded = overtaken[c].succeeded
    /\ lock' = lock

Advances(c) ==
    /\ \/ /\ calls[c].pc = "checking" /\ calls'[c].pc = "defining"
          /\ Covered(RequestedTd(calls[c]), RequestedBindings(calls[c]))
       \/ calls[c].pc = "defining" /\ calls'[c].pc = "writing"
    /\ calls'[c].op = calls[c].op
    /\ calls'[c].row = calls[c].row
    /\ calls'[c].bound = calls[c].bound
    /\ calls'[c].adds = calls[c].adds
    /\ overtaken'[c] = overtaken[c]
    /\ lock' = lock

Returns(c) ==
    /\ calls[c].pc = "stored"
    /\ calls'[c].op = calls[c].op
    /\ calls'[c].pc = "returned"
    /\ calls'[c].row = thing
    /\ lock' = lock

Ends(c) ==
    /\ calls'[c] = DoneCall
    /\ lock' \in {lock, Released(c)}

\* What a step outside the database does to its call.
LEMMA LocalCases ==
    ASSUME TypeOK, NEW c \in Calls, LocalAction(c)
    PROVE  \/ StartsCreate(c) \/ StartsReplace(c) \/ StartsAdd(c) \/ StartsActivate(c)
           \/ StartsInteract(c) \/ LoadsBindings(c) \/ Advances(c) \/ Returns(c) \/ Ends(c)
<1>1. calls[c] \in Call /\ IdleCall \in Call
  BY EmptyTypes DEF TypeOK
<1>2. CASE Create(c)
  <2>1. StartsCreate(c)
    BY <1>1, <1>2 DEF Create, Load, Call, IdleCall, TypeOK, StartsCreate
  <2> QED
    BY <2>1
<1>3. CASE \E all \in SUBSET Affordances, status \in {"active", "disabled"} :
              Replace(c, all, status)
  <2>1. StartsReplace(c)
    BY <1>1, <1>3 DEF Replace, Load, Call, IdleCall, TypeOK, StartsReplace
  <2> QED
    BY <2>1
<1>4. CASE \E a \in Affordances : Add(c, a)
  <2>1. StartsAdd(c)
    BY <1>1, <1>4 DEF Add, Load, Call, TypeOK, StartsAdd
  <2> QED
    BY <2>1
<1>5. CASE Activate(c)
  <2>1. StartsActivate(c)
    BY <1>1, <1>5 DEF Activate, Load, Call, TypeOK, StartsActivate
  <2> QED
    BY <2>1
<1>6. CASE Interact(c)
  <2>1. StartsInteract(c)
    BY <1>1, <1>6 DEF Interact, Call, TypeOK, StartsInteract
  <2> QED
    BY <2>1
<1>7. CASE LoadBindings(c)
  <2>1. calls'[c] = [calls[c] EXCEPT !.pc = "checking", !.bound = bindings]
    BY <1>7 DEF LoadBindings, TypeOK
  <2>2. overtaken'[c] = [overtaken[c] EXCEPT !.added = {}]
    BY <1>7 DEF LoadBindings, TypeOK
  <2>4. /\ calls'[c].op = calls[c].op /\ calls'[c].pc = "checking"
        /\ calls'[c].row = calls[c].row /\ calls'[c].bound = bindings
    BY <1>1, <2>1 DEF Call
  <2>5. /\ overtaken'[c].added = {}
        /\ overtaken'[c].succeeded = overtaken[c].succeeded
    BY <2>2 DEF TypeOK
  <2>3. LoadsBindings(c)
    BY <1>7, <2>4, <2>5 DEF LoadBindings, At, LoadsBindings
  <2> QED
    BY <2>3
<1>8. CASE Accept(c)
  <2>1. calls'[c] = [calls[c] EXCEPT !.pc = "defining"]
    BY <1>8 DEF Accept, TypeOK
  <2>3. /\ calls'[c].op = calls[c].op /\ calls'[c].pc = "defining"
        /\ calls'[c].row = calls[c].row /\ calls'[c].bound = calls[c].bound
        /\ calls'[c].adds = calls[c].adds
    BY <1>1, <2>1 DEF Call
  <2>2. Advances(c)
    BY <1>8, <2>3 DEF Accept, At, Advances
  <2> QED
    BY <2>2
<1>9. CASE DefineRead(c)
  <2>1. calls'[c] = [calls[c] EXCEPT !.pc = "writing", !.read = thing]
    BY <1>9 DEF DefineRead, TypeOK
  <2>3. /\ calls'[c].op = calls[c].op /\ calls'[c].pc = "writing"
        /\ calls'[c].row = calls[c].row /\ calls'[c].bound = calls[c].bound
        /\ calls'[c].adds = calls[c].adds
    BY <1>1, <2>1 DEF Call
  <2>2. Advances(c)
    BY <1>9, <2>3 DEF DefineRead, At, Advances
  <2> QED
    BY <2>2
<1>10. CASE Reread(c)
  <2>1. CASE thing.exists
    <3>1. calls'[c] = [calls[c] EXCEPT !.pc = "returned", !.row = thing]
      BY <1>10, <2>1 DEF Reread, TypeOK
    <3>3. /\ calls'[c].op = calls[c].op
          /\ calls'[c].pc = "returned"
          /\ calls'[c].row = thing
      BY <1>1, <3>1 DEF Call
    <3>2. Returns(c)
      BY <1>10, <3>3 DEF Reread, At, Returns
    <3> QED
      BY <3>2
  <2>2. CASE ~thing.exists
    BY <1>10, <2>2 DEF Reread, TypeOK, Ends
  <2> QED
    BY <2>1, <2>2
<1>11. CASE Refuse(c) \/ DefineFails(c) \/ InteractionEnds(c)
  <2>1. calls' = [calls EXCEPT ![c] = DoneCall]
    BY <1>11 DEF Refuse, DefineFails, InteractionEnds
  <2>2. lock' \in {lock, Released(c)}
    BY <1>11 DEF Refuse, DefineFails, InteractionEnds
  <2>3. Ends(c)
    BY <2>1, <2>2 DEF TypeOK, Ends
  <2> QED
    BY <2>3
<1> QED
  BY <1>2, <1>3, <1>4, <1>5, <1>6, <1>7, <1>8, <1>9, <1>10, <1>11 DEF LocalAction

(***************************************************************************)
(* The build lock and the additions                                        *)
(***************************************************************************)
\* Nothing was added at first.
LEMMA InitAdds == Init => AdditionsLocked /\ AddsSeen /\ GoneIsEmpty /\ AddsKept
BY DEF Init, AdditionsLocked, AddsSeen, GoneIsEmpty, AddsKept, IdleCall

\* A call that is over carries nothing.
LEMMA DoneCallFields ==
    DoneCall.op = "none" /\ DoneCall.pc = "done" /\ ~CarriesShared(DoneCall)
BY DEF DoneCall, IdleCall, CarriesShared

\* A store leaves its call without a request, and the others as they were.
LEMMA DefineWriteCalls ==
    ASSUME TypeOK, NEW c \in Calls, DefineWrite(c)
    PROVE  /\ calls'[c].op = "none"
           /\ calls'[c].pc \in {"stored", "done"}
           /\ \A d \in Calls \ {c} : calls'[d] = calls[d]
           /\ thing'.exists
<1>1. calls'[c] \in {DoneCall, [IdleCall EXCEPT !.pc = "stored"]}
  BY DEF DefineWrite, TypeOK
<1>2. \A d \in Calls \ {c} : calls'[d] = calls[d]
  BY DEF DefineWrite, TypeOK
<1>3. calls[c] \in Call /\ thing \in Thing
  BY DEF TypeOK
<1>4. thing'.exists
  BY <1>3, UpdatedRow, InsertedRow DEF DefineWrite
<1> QED
  BY <1>1, <1>2, <1>4, DoneCallFields, EmptyTypes DEF IdleCall, Call

\* An interaction that stores is done, and so is a deletion.
LEMMA DoneCalls ==
    ASSUME TypeOK, NEW c \in Calls,
           \/ Delete(c) \/ Schedule(c) \/ InteractionStores(c)
    PROVE  /\ calls'[c].op = "none"
           /\ calls'[c].pc = "done"
           /\ ~CarriesShared(calls'[c])
           /\ \A d \in Calls \ {c} : calls'[d] = calls[d]
<1>1. calls' = [calls EXCEPT ![c] = DoneCall]
  BY DEF Delete, Schedule, InteractionStores
<1> QED
  BY <1>1, DoneCallFields DEF TypeOK

\* The lock is held by the addition under way, and by nobody else's.
LEMMA NextLocked ==
    ASSUME TypeOK, AdditionsLocked, [Next]_vars
    PROVE  AdditionsLocked'
<1>1. ASSUME NEW c \in Calls, LocalAction(c)
      PROVE  AdditionsLocked'
  <2>1. \A d \in Calls \ {c} : calls'[d] = calls[d]
    BY <1>1, LocalTypes DEF LocalStep
  <2>2. CASE StartsCreate(c) \/ StartsReplace(c) \/ StartsActivate(c) \/ StartsInteract(c)
    BY <2>1, <2>2
    DEF AdditionsLocked, StartsCreate, StartsReplace, StartsActivate, StartsInteract
  <2>3. CASE StartsAdd(c)
    BY <2>1, <2>3, VirtualThingsAssumption DEF AdditionsLocked, StartsAdd
  <2>4. CASE LoadsBindings(c) \/ Advances(c) \/ Returns(c)
    BY <2>1, <2>4 DEF AdditionsLocked, LoadsBindings, Advances, Returns
  <2>5. CASE Ends(c)
    BY <2>1, <2>5, DoneCallFields DEF AdditionsLocked, Ends, Released
  <2> QED
    BY <1>1, <2>2, <2>3, <2>4, <2>5, LocalCases
<1>2. ASSUME NEW c \in Calls, DefineWrite(c)
      PROVE  AdditionsLocked'
  <2>1. lock' = Released(c)
    BY <1>2 DEF DefineWrite
  <2> QED
    BY <1>2, <2>1, DefineWriteCalls DEF AdditionsLocked, Released
<1>3. ASSUME NEW c \in Calls, Delete(c) \/ Schedule(c) \/ InteractionStores(c)
      PROVE  AdditionsLocked'
  <2>1. lock' = lock
    BY <1>3 DEF Delete, Schedule, InteractionStores
  <2> QED
    BY <1>3, <2>1, DoneCalls DEF AdditionsLocked
<1>4. ASSUME NEW c \in Calls, EnrichDone(c) \/ ApplyRead(c) \/ ApplyWrite(c)
      PROVE  AdditionsLocked'
  BY <1>4 DEF AdditionsLocked, EnrichDone, ApplyRead, ApplyWrite
<1>5. CASE UNCHANGED vars
  BY <1>5 DEF AdditionsLocked, vars
<1> QED
  BY <1>1, <1>2, <1>3, <1>4, <1>5, NextCases

\* What a store leaves of the additions is bound.
LEMMA DefineWriteAddsKept ==
    ASSUME TypeOK, AddsSeen, NEW c \in Calls, DefineWrite(c)
    PROVE  AddsKept'
<1> DEFINE call == calls[c]
<1>1. /\ bindings' = call.bound \cup call.adds
      /\ added' = StillAdded(c)
      /\ call.pc = "writing"
  BY DEF DefineWrite, RequestedBindings, At
<1>2. CASE ~call.read.exists
  BY <1>1, <1>2 DEF StillAdded, AddsKept
<1>3. CASE call.read.exists /\ call.op = "replace"
  <2>1. added' = added \cap call.adds
    BY <1>1, <1>3 DEF StillAdded
  <2> QED
    BY <1>1, <2>1 DEF AddsKept
<1>4. CASE call.read.exists /\ call.op = "add"
  <2>1. added' = added \cup call.adds
    BY <1>1, <1>4 DEF StillAdded
  <2>2. added \subseteq call.bound
    BY <1>1, <1>4 DEF AddsSeen
  <2> QED
    BY <1>1, <2>1, <2>2 DEF AddsKept
<1>5. CASE call.read.exists /\ call.op \notin {"replace", "add"}
  <2>1. added' = added \ overtaken[c].added
    BY <1>1, <1>5 DEF StillAdded
  <2>2. added \ overtaken[c].added \subseteq call.bound
    BY <1>1, <1>5 DEF AddsSeen
  <2> QED
    BY <1>1, <2>1, <2>2 DEF AddsKept
<1> QED
  BY <1>2, <1>3, <1>4, <1>5

\* What other calls are about to store still holds all but the overtaking additions.
LEMMA DefineWriteAddsSeen ==
    ASSUME TypeOK, AdditionsLocked, AddsSeen, NEW c \in Calls, DefineWrite(c)
    PROVE  AddsSeen'
<1> SUFFICES ASSUME NEW d \in Calls, calls'[d].pc \in {"checking", "defining", "writing"}
             PROVE  /\ calls'[d].op # "replace" =>
                          added' \ overtaken'[d].added \subseteq calls'[d].bound
                    /\ calls'[d].op = "add" => overtaken'[d].added = {}
  BY DEF AddsSeen
<1>1. d # c /\ calls'[d] = calls[d]
  BY DefineWriteCalls
<1>2. d \in UnderWay
  BY <1>1 DEF UnderWay
<1> DEFINE more == IF calls[c].op = "add" THEN overtaken[d].added \cup calls[c].adds
                   ELSE overtaken[d].added
<1>3. overtaken'[d].added = more
  <2>1. overtaken[d] \in [added: SUBSET Affordances, succeeded: SUBSET Calls,
                         reverted: BOOLEAN]
    BY DEF TypeOK
  <2>2. \E back : overtaken'[d] = [overtaken[d] EXCEPT !.added = more, !.reverted = back]
    BY <1>1, <1>2 DEF DefineWrite
  <2> HIDE DEF more
  <2> QED
    BY <2>1, <2>2
<1>4. added' \subseteq added \cup (IF calls[c].op = "add" THEN calls[c].adds ELSE {})
  BY DEF DefineWrite, StillAdded
<1>5. calls'[d].op # "replace" => added' \ overtaken'[d].added \subseteq calls'[d].bound
  BY <1>1, <1>3, <1>4 DEF AddsSeen
<1>6. calls'[d].op = "add" => overtaken'[d].added = {}
  BY <1>1, <1>3 DEF AddsSeen, AdditionsLocked
<1> QED
  BY <1>5, <1>6

\* Interactions and deletions leave what was added and overtaken alone.
LEMMA OvertakenAdds ==
    ASSUME TypeOK, NEW c \in Calls, Delete(c) \/ InteractionStores(c)
    PROVE  \A d \in Calls \ {c} : overtaken'[d].added = overtaken[d].added
<1> SUFFICES ASSUME NEW d \in Calls \ {c}
             PROVE  overtaken'[d].added = overtaken[d].added
  OBVIOUS
<1>1. overtaken[d] \in [added: SUBSET Affordances, succeeded: SUBSET Calls,
                       reverted: BOOLEAN]
  BY DEF TypeOK
<1>2. \/ overtaken'[d] = overtaken[d]
      \/ overtaken'[d] = [overtaken[d] EXCEPT !.reverted = TRUE]
      \/ overtaken'[d] = [overtaken[d] EXCEPT !.succeeded = overtaken[d].succeeded \cup {c}]
  BY <1>1 DEF Delete, InteractionStores, Succeeds
<1> QED
  BY <1>1, <1>2

\* No step loses an addition that was accepted.
LEMMA NextAdds ==
    ASSUME TypeOK, AdditionsLocked, AddsSeen, GoneIsEmpty, AddsKept, [Next]_vars
    PROVE  AddsSeen' /\ AddsKept'
<1>1. ASSUME NEW c \in Calls, LocalAction(c)
      PROVE  AddsSeen' /\ AddsKept'
  <2>1. /\ \A d \in Calls \ {c} : calls'[d] = calls[d] /\ overtaken'[d] = overtaken[d]
        /\ added' = added /\ bindings' = bindings
    BY <1>1, LocalTypes DEF LocalStep, LoadOnly, database
  <2>2. AddsKept'
    BY <2>1 DEF AddsKept
  <2>3. calls'[c].pc \in {"checking", "defining", "writing"} =>
           /\ calls'[c].op # "replace" =>
                 added \ overtaken'[c].added \subseteq calls'[c].bound
           /\ calls'[c].op = "add" => overtaken'[c].added = {}
    <3>1. CASE StartsCreate(c)
      BY <3>1 DEF StartsCreate, GoneIsEmpty
    <3>2. CASE StartsReplace(c) \/ StartsAdd(c) \/ StartsActivate(c) \/ StartsInteract(c)
      BY <3>2 DEF StartsReplace, StartsAdd, StartsActivate, StartsInteract
    <3>3. CASE LoadsBindings(c)
      BY <3>3 DEF LoadsBindings, AddsKept
    <3>4. CASE Advances(c)
      BY <3>4 DEF Advances, AddsSeen
    <3>5. CASE Returns(c) \/ Ends(c)
      BY <3>5, DoneCallFields DEF Returns, Ends
    <3> QED
      BY <1>1, <3>1, <3>2, <3>3, <3>4, <3>5, LocalCases
  <2>4. AddsSeen'
    BY <2>1, <2>3 DEF AddsSeen
  <2> QED
    BY <2>2, <2>4
<1>2. ASSUME NEW c \in Calls, DefineWrite(c)
      PROVE  AddsSeen' /\ AddsKept'
  BY <1>2, DefineWriteAddsSeen, DefineWriteAddsKept
<1>3. ASSUME NEW c \in Calls, Delete(c)
      PROVE  AddsSeen' /\ AddsKept'
  <2>1. added' = {}
    BY <1>3 DEF Delete
  <2> QED
    BY <1>3, <2>1, DoneCalls, OvertakenAdds DEF AddsSeen, AddsKept
<1>4. ASSUME NEW c \in Calls, InteractionStores(c)
      PROVE  AddsSeen' /\ AddsKept'
  <2>1. added' = added /\ bindings' = bindings
    BY <1>4 DEF InteractionStores
  <2> QED
    BY <1>4, <2>1, DoneCalls, OvertakenAdds DEF AddsSeen, AddsKept
<1>5. ASSUME NEW c \in Calls, Schedule(c)
      PROVE  AddsSeen' /\ AddsKept'
  <2>1. added' = added /\ bindings' = bindings /\ overtaken' = overtaken
    BY <1>5 DEF Schedule, database, history
  <2> QED
    BY <1>5, <2>1, DoneCalls DEF AddsSeen, AddsKept
<1>6. ASSUME NEW c \in Calls, EnrichDone(c) \/ ApplyRead(c) \/ ApplyWrite(c)
      PROVE  AddsSeen' /\ AddsKept'
  BY <1>6 DEF AddsSeen, AddsKept, EnrichDone, ApplyRead, ApplyWrite, database, history
<1>7. CASE UNCHANGED vars
  BY <1>7 DEF AddsSeen, AddsKept, vars, database, history
<1> QED
  BY <1>1, <1>2, <1>3, <1>4, <1>5, <1>6, <1>7, NextCases

\* A Thing that is not there has no additions and no interactions.
LEMMA NextGone ==
    ASSUME TypeOK, GoneIsEmpty, [Next]_vars
    PROVE  GoneIsEmpty'
<1>1. ASSUME NEW c \in Calls, LocalAction(c)
      PROVE  GoneIsEmpty'
  BY <1>1, LocalTypes DEF LocalStep, LoadOnly, database, GoneIsEmpty
<1>2. ASSUME NEW c \in Calls, DefineWrite(c)
      PROVE  GoneIsEmpty'
  BY <1>2, DefineWriteCalls DEF GoneIsEmpty
<1>3. ASSUME NEW c \in Calls, Delete(c)
      PROVE  GoneIsEmpty'
  BY <1>3 DEF Delete, GoneIsEmpty
<1>4. ASSUME NEW c \in Calls, EnrichDone(c) \/ ApplyRead(c) \/ Schedule(c)
      PROVE  GoneIsEmpty'
  BY <1>4 DEF EnrichDone, ApplyRead, Schedule, database, history, GoneIsEmpty
<1>5. ASSUME NEW c \in Calls, ApplyWrite(c)
      PROVE  GoneIsEmpty'
  <2>1. thing'.exists = thing.exists
    BY <1>5 DEF ApplyWrite, TypeOK, Thing
  <2> QED
    BY <1>5, <2>1 DEF ApplyWrite, GoneIsEmpty
<1>6. ASSUME NEW c \in Calls, InteractionStores(c)
      PROVE  GoneIsEmpty'
  BY <1>6 DEF InteractionStores, GoneIsEmpty, TypeOK, Thing
<1>7. CASE UNCHANGED vars
  BY <1>7 DEF GoneIsEmpty, vars, database, history
<1> QED
  BY <1>1, <1>2, <1>3, <1>4, <1>5, <1>6, <1>7, NextCases

AddsInv == TypeOK /\ AdditionsLocked /\ AddsSeen /\ GoneIsEmpty /\ AddsKept

\* However many additions, activations and replacements overlap: what an addition
\* returned stays bound until a deletion, a replacement, or an activation or create
\* that loaded before it.
THEOREM AddsKeptHolds == Spec => []AddsKept
<1>1. Init => AddsInv
  BY InitTypeOK, InitAdds DEF AddsInv
<1>2. AddsInv /\ [Next]_vars => AddsInv'
  BY NextTypeOK, NextLocked, NextAdds, NextGone DEF AddsInv
<1>3. AddsInv => AddsKept
  BY DEF AddsInv
<1> QED
  BY <1>1, <1>2, <1>3, PTL DEF Spec

(***************************************************************************)
(* The shared state and the interactions                                   *)
(***************************************************************************)
\* No interaction has succeeded at first.
LEMMA InitInteractions == Init => InteractionsSeen /\ InteractionsKept
BY DEF Init, InteractionsSeen, InteractionsKept, CarriesShared, HoldsShared, IdleCall

\* What a call loads now has seen every success.
LEMMA LocalInteractions ==
    ASSUME TypeOK, InteractionsSeen, InteractionsKept, NEW c \in Calls, LocalAction(c)
    PROVE  InteractionsSeen' /\ InteractionsKept'
<1>1. /\ \A d \in Calls \ {c} : calls'[d] = calls[d] /\ overtaken'[d] = overtaken[d]
      /\ succeeded' = succeeded /\ thing' = thing
  BY LocalTypes DEF LocalStep, LoadOnly, database
<1>2. InteractionsKept'
  BY <1>1 DEF InteractionsKept
<1>3. /\ HoldsShared(calls'[c]) =>
            succeeded \ overtaken'[c].succeeded \subseteq calls'[c].row.shared
      /\ calls'[c].pc = "handling" =>
            /\ thing.exists
            /\ calls'[c].row.sharedVersion = thing.sharedVersion
            /\ succeeded \subseteq calls'[c].row.shared
  <2>1. CASE StartsCreate(c)
    BY <2>1 DEF StartsCreate, CarriesShared, HoldsShared
  <2>2. CASE StartsReplace(c) \/ StartsAdd(c) \/ StartsActivate(c) \/ StartsInteract(c)
    BY <2>2 DEF StartsReplace, StartsAdd, StartsActivate, StartsInteract,
                InteractionsKept, HoldsShared
  <2>3. CASE LoadsBindings(c)
    BY <2>3 DEF LoadsBindings, CarriesShared, HoldsShared, InteractionsSeen
  <2>4. CASE Advances(c)
    BY <2>4 DEF Advances, CarriesShared, HoldsShared, InteractionsSeen
  <2>5. CASE Returns(c)
    BY <2>5, <1>1 DEF Returns, CarriesShared, HoldsShared, InteractionsKept
  <2>6. CASE Ends(c)
    BY <2>6, DoneCallFields DEF Ends, HoldsShared
  <2> QED
    BY <2>1, <2>2, <2>3, <2>4, <2>5, <2>6, LocalCases
<1>4. thing.sharedVersion \in Nat
  BY DEF TypeOK, Thing
<1>5. ASSUME NEW d \in Calls
      PROVE  /\ HoldsShared(calls'[d]) =>
                   succeeded' \ overtaken'[d].succeeded \subseteq calls'[d].row.shared
             /\ calls'[d].pc = "handling" /\ ~overtaken'[d].reverted =>
                   /\ thing'.exists
                   /\ calls'[d].row.sharedVersion <= thing'.sharedVersion
                   /\ calls'[d].row.sharedVersion = thing'.sharedVersion =>
                         succeeded' \subseteq calls'[d].row.shared
  <2>1. CASE d = c
    BY <1>1, <1>3, <1>4, <2>1
  <2>2. CASE d # c
    BY <1>1, <2>2 DEF InteractionsSeen
  <2> QED
    BY <2>1, <2>2
<1>6. InteractionsSeen'
  BY <1>5 DEF InteractionsSeen
<1> QED
  BY <1>2, <1>6

\* What a store tells the other calls.
LEMMA DefineWriteOvertaken ==
    ASSUME TypeOK, NEW c \in Calls, DefineWrite(c), NEW d \in Calls \ {c}, d \in UnderWay
    PROVE  /\ overtaken'[d].succeeded = overtaken[d].succeeded
           /\ overtaken'[d].reverted =
                 \/ overtaken[d].reverted
                 \/ /\ thing.exists
                    /\ WritesShared(calls[c])
                    /\ thing.sharedVersion # calls[c].read.sharedVersion
<1> DEFINE back == \/ overtaken[d].reverted
                   \/ /\ thing.exists
                      /\ WritesShared(calls[c])
                      /\ thing.sharedVersion # calls[c].read.sharedVersion
<1>1. overtaken[d] \in [added: SUBSET Affordances, succeeded: SUBSET Calls,
                       reverted: BOOLEAN]
  BY DEF TypeOK
<1>2. \E more : overtaken'[d] = [overtaken[d] EXCEPT !.added = more, !.reverted = back]
  BY DEF DefineWrite
<1> HIDE DEF back
<1>3. overtaken'[d].succeeded = overtaken[d].succeeded /\ overtaken'[d].reverted = back
  BY <1>1, <1>2
<1> QED
  BY <1>3 DEF back

\* A store that writes shared state writes what its call has seen, under a new
\* version unless it takes the version back.
LEMMA DefineWriteInteractions ==
    ASSUME TypeOK, InteractionsSeen, InteractionsKept, NEW c \in Calls, DefineWrite(c)
    PROVE  InteractionsSeen' /\ InteractionsKept'
<1> DEFINE call == calls[c]
<1>0. call.pc = "writing"
  BY DEF DefineWrite, At
<1>1. call \in Call /\ thing \in Thing
  BY DEF TypeOK
<1>2. /\ thing' = IF thing.exists THEN Updated(call) ELSE Inserted(call)
      /\ succeeded' = IF ~thing.exists THEN {}
                      ELSE IF WritesShared(call)
                      THEN succeeded \ overtaken[c].succeeded ELSE succeeded
  BY DEF DefineWrite
<1>3. thing.exists =>
         /\ thing'.shared = IF WritesShared(call) THEN call.row.shared ELSE thing.shared
         /\ thing'.sharedVersion = IF WritesShared(call) THEN call.read.sharedVersion + 1
                                   ELSE thing.sharedVersion
  BY <1>1, <1>2, UpdatedRow
<1>4. InteractionsKept'
  <2>1. CASE ~thing.exists
    BY <1>2, <2>1 DEF InteractionsKept
  <2>2. CASE thing.exists /\ WritesShared(call)
    <3>1. succeeded \ overtaken[c].succeeded \subseteq call.row.shared
      BY <1>0, <2>2 DEF WritesShared, InteractionsSeen, HoldsShared
    <3> QED
      BY <1>2, <1>3, <2>2, <3>1 DEF InteractionsKept
  <2>3. CASE thing.exists /\ ~WritesShared(call)
    BY <1>2, <1>3, <2>3 DEF InteractionsKept
  <2> QED
    BY <2>1, <2>2, <2>3
<1>5. succeeded' \subseteq succeeded
  BY <1>2
<1>6. ~HoldsShared(calls'[c]) /\ calls'[c].pc # "handling"
  BY DefineWriteCalls DEF CarriesShared, HoldsShared
<1>7. ASSUME NEW d \in Calls \ {c}, calls[d].pc \notin {"idle", "done"}
      PROVE  /\ HoldsShared(calls[d]) =>
                   succeeded' \ overtaken'[d].succeeded \subseteq calls[d].row.shared
             /\ calls[d].pc = "handling" /\ ~overtaken'[d].reverted =>
                   /\ thing'.exists
                   /\ calls[d].row.sharedVersion <= thing'.sharedVersion
                   /\ calls[d].row.sharedVersion = thing'.sharedVersion =>
                         succeeded' \subseteq calls[d].row.shared
  <2>1. d \in UnderWay
    BY <1>7 DEF UnderWay
  <2>2. HoldsShared(calls[d]) =>
           succeeded' \ overtaken'[d].succeeded \subseteq calls[d].row.shared
    BY <1>5, <2>1, DefineWriteOvertaken DEF InteractionsSeen
  <2>3. ASSUME calls[d].pc = "handling", ~overtaken'[d].reverted
        PROVE  /\ thing'.exists
               /\ calls[d].row.sharedVersion <= thing'.sharedVersion
               /\ calls[d].row.sharedVersion = thing'.sharedVersion =>
                     succeeded' \subseteq calls[d].row.shared
    <3>1. /\ ~overtaken[d].reverted
          /\ ~(/\ thing.exists
               /\ WritesShared(call)
               /\ thing.sharedVersion # call.read.sharedVersion)
      BY <2>1, <2>3, DefineWriteOvertaken
    <3>2. /\ thing.exists
          /\ calls[d].row.sharedVersion <= thing.sharedVersion
          /\ calls[d].row.sharedVersion = thing.sharedVersion =>
                succeeded \subseteq calls[d].row.shared
      BY <2>3, <3>1 DEF InteractionsSeen
    <3>3. calls[d].row.sharedVersion \in Nat /\ thing.sharedVersion \in Nat
      BY DEF TypeOK, Call, Thing
    <3>4. thing'.exists
      BY DefineWriteCalls
    <3>5. thing'.sharedVersion = IF WritesShared(call) THEN thing.sharedVersion + 1
                                 ELSE thing.sharedVersion
      BY <1>3, <3>1, <3>2
    <3> QED
      BY <1>5, <3>2, <3>3, <3>4, <3>5
  <2> QED
    BY <2>2, <2>3
<1>8. ASSUME NEW d \in Calls
      PROVE  /\ HoldsShared(calls'[d]) =>
                   succeeded' \ overtaken'[d].succeeded \subseteq calls'[d].row.shared
             /\ calls'[d].pc = "handling" /\ ~overtaken'[d].reverted =>
                   /\ thing'.exists
                   /\ calls'[d].row.sharedVersion <= thing'.sharedVersion
                   /\ calls'[d].row.sharedVersion = thing'.sharedVersion =>
                         succeeded' \subseteq calls'[d].row.shared
  <2>1. CASE d = c
    BY <1>6, <2>1
  <2>2. CASE d # c /\ calls[d].pc \notin {"idle", "done"}
    <3>1. calls'[d] = calls[d]
      BY <2>2, DefineWriteCalls
    <3> QED
      BY <1>7, <2>2, <3>1
  <2>3. CASE d # c /\ calls[d].pc \in {"idle", "done"}
    <3>1. calls'[d] = calls[d]
      BY <2>3, DefineWriteCalls
    <3>2. overtaken'[d] = overtaken[d]
      BY <2>3 DEF DefineWrite, UnderWay
    <3> QED
      BY <1>5, <2>3, <3>1, <3>2 DEF InteractionsSeen, HoldsShared
  <2> QED
    BY <2>1, <2>2, <2>3
<1>9. InteractionsSeen'
  BY <1>8 DEF InteractionsSeen
<1> QED
  BY <1>4, <1>9

\* A deletion takes the shared state along and reverts every call under way.
LEMMA DeleteInteractions ==
    ASSUME TypeOK, NEW c \in Calls, Delete(c)
    PROVE  InteractionsSeen' /\ InteractionsKept'
<1>1. succeeded' = {}
  BY DEF Delete
<1>2. ASSUME NEW d \in Calls, calls'[d].pc = "handling"
      PROVE  overtaken'[d].reverted
  <2>1. d # c /\ calls'[d] = calls[d]
    BY <1>2, DoneCalls
  <2>2. d \in UnderWay
    BY <1>2, <2>1 DEF UnderWay
  <2>3. overtaken'[d] = [overtaken[d] EXCEPT !.reverted = TRUE]
    BY <2>2 DEF Delete
  <2>4. overtaken[d] \in [added: SUBSET Affordances, succeeded: SUBSET Calls,
                         reverted: BOOLEAN]
    BY DEF TypeOK
  <2> QED
    BY <2>3, <2>4
<1> QED
  BY <1>1, <1>2 DEF InteractionsSeen, InteractionsKept

\* An interaction stores what it has seen and itself, and the version goes up.
LEMMA StoreInteractions ==
    ASSUME TypeOK, InteractionsSeen, InteractionsKept, NEW c \in Calls,
           InteractionStores(c)
    PROVE  InteractionsSeen' /\ InteractionsKept'
<1>1. /\ thing \in Thing /\ calls[c].row \in Thing
      /\ calls[c].pc = "handling"
      /\ thing.exists
      /\ thing.sharedVersion = calls[c].row.sharedVersion
  BY DEF TypeOK, Call, InteractionStores, At
<1>2. /\ thing'.exists
      /\ thing'.shared = calls[c].row.shared \cup {c}
      /\ thing'.sharedVersion = thing.sharedVersion + 1
  BY <1>1 DEF InteractionStores, Thing
<1>3. succeeded' \subseteq succeeded \cup {c}
  BY DEF InteractionStores, Succeeds
<1>4. InteractionsKept'
  <2>1. CASE overtaken[c].reverted
    <3>1. succeeded' = {c} \cup (succeeded \ overtaken[c].succeeded)
      BY <2>1 DEF InteractionStores, Succeeds
    <3>2. succeeded \ overtaken[c].succeeded \subseteq calls[c].row.shared
      BY <1>1 DEF InteractionsSeen, HoldsShared
    <3> QED
      BY <1>2, <3>1, <3>2 DEF InteractionsKept
  <2>2. CASE ~overtaken[c].reverted
    <3>1. succeeded \subseteq calls[c].row.shared
      BY <1>1, <2>2 DEF InteractionsSeen
    <3> QED
      BY <1>2, <1>3, <3>1 DEF InteractionsKept
  <2> QED
    BY <2>1, <2>2
<1>5. ASSUME NEW d \in Calls \ {c}, calls[d].pc \notin {"idle", "done"}
      PROVE  /\ overtaken'[d].succeeded = overtaken[d].succeeded \cup {c}
             /\ overtaken'[d].reverted = overtaken[d].reverted
  <2>1. overtaken[d] \in [added: SUBSET Affordances, succeeded: SUBSET Calls,
                         reverted: BOOLEAN]
    BY DEF TypeOK
  <2>2. overtaken'[d] = [overtaken[d] EXCEPT !.succeeded = overtaken[d].succeeded \cup {c}]
    BY <1>5 DEF InteractionStores, Succeeds, UnderWay
  <2> QED
    BY <2>1, <2>2
<1>6. ASSUME NEW d \in Calls
      PROVE  /\ HoldsShared(calls'[d]) =>
                   succeeded' \ overtaken'[d].succeeded \subseteq calls'[d].row.shared
             /\ calls'[d].pc = "handling" /\ ~overtaken'[d].reverted =>
                   /\ thing'.exists
                   /\ calls'[d].row.sharedVersion <= thing'.sharedVersion
                   /\ calls'[d].row.sharedVersion = thing'.sharedVersion =>
                         succeeded' \subseteq calls'[d].row.shared
  <2>1. CASE d = c
    BY <2>1, DoneCalls DEF HoldsShared
  <2>2. CASE d # c /\ calls[d].pc \notin {"idle", "done"}
    <3>1. calls'[d] = calls[d]
      BY <2>2, DoneCalls
    <3>2. HoldsShared(calls[d]) =>
             succeeded' \ overtaken'[d].succeeded \subseteq calls[d].row.shared
      BY <1>3, <1>5, <2>2 DEF InteractionsSeen
    <3>3. calls[d].pc = "handling" /\ ~overtaken'[d].reverted =>
             calls[d].row.sharedVersion < thing'.sharedVersion
      <4>1. calls[d].row.sharedVersion \in Nat /\ thing.sharedVersion \in Nat
        BY DEF TypeOK, Call, Thing
      <4> QED
        BY <1>2, <1>5, <2>2, <4>1 DEF InteractionsSeen
    <3>4. calls[d].row.sharedVersion \in Nat /\ thing'.sharedVersion \in Nat
      BY <1>1, <1>2 DEF TypeOK, Call, Thing
    <3> QED
      BY <1>2, <3>1, <3>2, <3>3, <3>4
  <2>3. CASE d # c /\ calls[d].pc \in {"idle", "done"}
    <3>1. calls'[d] = calls[d] /\ calls[d].pc # "handling"
      BY <2>3, DoneCalls
    <3> QED
      BY <2>3, <3>1 DEF HoldsShared
  <2> QED
    BY <2>1, <2>2, <2>3
<1>7. InteractionsSeen'
  BY <1>6 DEF InteractionsSeen
<1> QED
  BY <1>4, <1>7

\* No step loses the effect of an interaction that succeeded.
LEMMA NextInteractions ==
    ASSUME TypeOK, InteractionsSeen, InteractionsKept, [Next]_vars
    PROVE  InteractionsSeen' /\ InteractionsKept'
<1>1. ASSUME NEW c \in Calls, Schedule(c)
      PROVE  InteractionsSeen' /\ InteractionsKept'
  <2>1. thing' = thing /\ succeeded' = succeeded /\ overtaken' = overtaken
    BY <1>1 DEF Schedule, database, history
  <2> QED
    BY <1>1, <2>1, DoneCalls DEF InteractionsSeen, InteractionsKept, HoldsShared
<1>2. ASSUME NEW c \in Calls, EnrichDone(c) \/ ApplyRead(c) \/ ApplyWrite(c)
      PROVE  InteractionsSeen' /\ InteractionsKept'
  <2>1. /\ thing'.exists = thing.exists
        /\ thing'.shared = thing.shared
        /\ thing'.sharedVersion = thing.sharedVersion
    BY <1>2 DEF EnrichDone, ApplyRead, ApplyWrite, database, TypeOK, Thing
  <2>2. calls' = calls /\ overtaken' = overtaken /\ succeeded' = succeeded
    BY <1>2 DEF EnrichDone, ApplyRead, ApplyWrite, history
  <2> QED
    BY <2>1, <2>2 DEF InteractionsSeen, InteractionsKept, HoldsShared, CarriesShared
<1>3. CASE UNCHANGED vars
  BY <1>3 DEF InteractionsSeen, InteractionsKept, HoldsShared, CarriesShared,
              vars, database, history
<1> QED
  BY <1>1, <1>2, <1>3, NextCases, LocalInteractions, DefineWriteInteractions,
     DeleteInteractions, StoreInteractions

InteractionsInv == TypeOK /\ InteractionsSeen /\ InteractionsKept

\* An interaction that succeeded stays in the shared state, but for the overtaken
\* writes of activations and replacements and the reversions they cause.
THEOREM InteractionsKeptHolds == Spec => []InteractionsKept
<1>1. Init => InteractionsInv
  BY InitTypeOK, InitInteractions DEF InteractionsInv
<1>2. InteractionsInv /\ [Next]_vars => InteractionsInv'
  BY NextTypeOK, NextInteractions DEF InteractionsInv
<1>3. InteractionsInv => InteractionsKept
  BY DEF InteractionsInv
<1> QED
  BY <1>1, <1>2, <1>3, PTL DEF Spec

(***************************************************************************)
(* Descriptions and bindings                                               *)
(***************************************************************************)
\* At first the table, the requests and the descriptions agree.
LEMMA InitDescribed == Init => RequestsCovered /\ DescriptionsCurrent /\ BindingsDescribed
BY DEF Init, RequestsCovered, DescriptionsCurrent, BindingsDescribed, Covered, IdleCall,
       NoTask, TaskCurrent, CallCurrent

\* What was accepted is covered.
LEMMA NextRequestsCovered ==
    ASSUME TypeOK, RequestsCovered, [Next]_vars
    PROVE  RequestsCovered'
<1>1. ASSUME NEW c \in Calls, LocalAction(c)
      PROVE  RequestsCovered'
  <2>1. \A d \in Calls \ {c} : calls'[d] = calls[d]
    BY <1>1, LocalTypes DEF LocalStep
  <2>2. calls'[c].pc \in {"defining", "writing"} =>
           Covered(RequestedTd(calls'[c]), RequestedBindings(calls'[c]))
    <3>1. CASE StartsCreate(c)
      BY <3>1 DEF StartsCreate, Covered, RequestedBindings
    <3>2. CASE StartsReplace(c) \/ StartsAdd(c) \/ StartsActivate(c) \/ StartsInteract(c)
               \/ LoadsBindings(c) \/ Returns(c)
      BY <3>2 DEF StartsReplace, StartsAdd, StartsActivate, StartsInteract, LoadsBindings,
                  Returns
    <3>3. CASE Advances(c)
      <4>1. /\ RequestedTd(calls'[c]) = RequestedTd(calls[c])
            /\ RequestedBindings(calls'[c]) = RequestedBindings(calls[c])
        BY <3>3 DEF Advances, RequestedTd, RequestedBindings
      <4> QED
        BY <3>3, <4>1 DEF Advances, RequestsCovered
    <3>4. CASE Ends(c)
      BY <3>4, DoneCallFields DEF Ends
    <3> QED
      BY <1>1, <3>1, <3>2, <3>3, <3>4, LocalCases
  <2> QED
    BY <2>1, <2>2 DEF RequestsCovered
<1>2. ASSUME NEW c \in Calls, DefineWrite(c)
      PROVE  RequestsCovered'
  BY <1>2, DefineWriteCalls DEF RequestsCovered
<1>3. ASSUME NEW c \in Calls, Delete(c) \/ Schedule(c) \/ InteractionStores(c)
      PROVE  RequestsCovered'
  BY <1>3, DoneCalls DEF RequestsCovered
<1>4. ASSUME NEW c \in Calls, EnrichDone(c) \/ ApplyRead(c) \/ ApplyWrite(c)
      PROVE  RequestsCovered'
  BY <1>4 DEF RequestsCovered, EnrichDone, ApplyRead, ApplyWrite
<1>5. CASE UNCHANGED vars
  BY <1>5 DEF RequestsCovered, vars
<1> QED
  BY <1>1, <1>2, <1>3, <1>4, <1>5, NextCases

\* A store over what it read makes every older description older still, and is covered.
LEMMA DefineWriteDescribed ==
    ASSUME TypeOK, RequestsCovered, DescriptionsCurrent, NEW c \in Calls, DefineWrite(c)
    PROVE  /\ BindingsDescribed'
           /\ KeepsCurrent
<1> DEFINE call == calls[c]
<1>1. call \in Call /\ thing \in Thing /\ call.read \in Thing
  BY DEF TypeOK, Call
<1>2. /\ thing' = IF thing.exists THEN Updated(call) ELSE Inserted(call)
      /\ bindings' = RequestedBindings(call)
      /\ raced' = (raced \/ thing # call.read)
      /\ call.pc = "writing"
  BY DEF DefineWrite, At
<1>3. ~raced' => ~raced /\ thing = call.read
  BY <1>2 DEF TypeOK
<1>4. ~raced' => thing'.td = RequestedTd(call)
  BY <1>1, <1>2, <1>3, UpdatedRow, InsertedRow
<1>5. BindingsDescribed'
  BY <1>2, <1>4 DEF BindingsDescribed, RequestsCovered, Covered
<1>6. IF thing.exists
      THEN /\ thing'.incarnation = thing.incarnation
           /\ thing'.version = call.read.version + 1
      ELSE thing'.incarnation = thing.incarnation + 1
  BY <1>1, <1>2, UpdatedRow, InsertedRow
<1>7. ASSUME NEW incarnation \in Nat, NEW version \in Nat, NEW td \in Description,
             Current(thing, raced, incarnation, version, td)
      PROVE  Current(thing', raced', incarnation, version, td)
  <2>1. /\ thing.incarnation \in Nat /\ thing.version \in Nat
    BY <1>1 DEF Thing
  <2>2. CASE ~thing.exists
    BY <1>6, <1>7, <2>1, <2>2 DEF Current
  <2>3. CASE thing.exists
    BY <1>3, <1>6, <1>7, <2>1, <2>3 DEF Current
  <2> QED
    BY <2>2, <2>3
<1> QED
  BY <1>5, <1>7 DEF KeepsCurrent

\* An enrichment that is written at its version writes the same affordances.
LEMMA ApplyWriteDescribed ==
    ASSUME TypeOK, DescriptionsCurrent, BindingsDescribed, NEW c \in Calls, ApplyWrite(c)
    PROVE  /\ BindingsDescribed'
           /\ KeepsCurrent
<1> DEFINE task == tasks[c]
<1>1. task \in Task /\ thing \in Thing /\ task.pc = "checked"
  BY DEF TypeOK, ApplyWrite
<1>2. CASE ~thing.exists
  BY <1>2 DEF ApplyWrite, BindingsDescribed, Covered, KeepsCurrent
<1>3. CASE thing.exists
  <2>1. /\ thing'.exists
        /\ thing'.incarnation = thing.incarnation
        /\ thing'.version = task.base + 1
        /\ thing'.td = task.td
        /\ bindings' = bindings
    BY <1>1, <1>3 DEF ApplyWrite, Thing
  <2>2. ~raced' => ~raced /\ thing.version = task.base /\ thing.incarnation = task.incarnation
    BY <1>3 DEF ApplyWrite, TypeOK
  <2>3. ~raced' => thing'.td.has = thing.td.has
    BY <1>1, <1>3, <2>1, <2>2 DEF DescriptionsCurrent, TaskCurrent, Current
  <2>4. BindingsDescribed'
    BY <2>1, <2>2, <2>3 DEF BindingsDescribed, Covered
  <2>5. thing.version \in Nat
    BY <1>1 DEF Thing
  <2>6. ASSUME NEW incarnation \in Nat, NEW version \in Nat, NEW td \in Description,
               Current(thing, raced, incarnation, version, td)
        PROVE  Current(thing', raced', incarnation, version, td)
    BY <1>3, <2>1, <2>2, <2>5, <2>6 DEF Current
  <2> QED
    BY <2>4, <2>6 DEF KeepsCurrent
<1> QED
  BY <1>2, <1>3

\* A step that keeps what is current keeps what calls and tasks know of the Thing.
LEMMA StillCurrent ==
    ASSUME TypeOK, DescriptionsCurrent, KeepsCurrent, NEW c \in Calls
    PROVE  /\ tasks'[c] = tasks[c] \/ tasks'[c].pc = "none" => TaskCurrent(tasks[c])'
           /\ calls'[c] = calls[c] => CallCurrent(calls[c])'
<1>1. tasks[c] \in Task /\ calls[c].row \in Thing
  BY DEF TypeOK, Call
<1>2. /\ tasks[c].incarnation \in Nat /\ tasks[c].base \in Nat
      /\ tasks[c].td \in Description
      /\ calls[c].row.incarnation \in Nat /\ calls[c].row.version \in Nat
      /\ calls[c].row.td \in Description
  BY <1>1 DEF Task, Thing
<1>3. tasks[c].pc # "none" =>
         Current(thing', raced', tasks[c].incarnation, tasks[c].base, tasks[c].td)
  BY <1>2 DEF DescriptionsCurrent, TaskCurrent, KeepsCurrent
<1>4. calls[c].pc = "returned" =>
         Current(thing', raced', calls[c].row.incarnation, calls[c].row.version,
                 calls[c].row.td)
  BY <1>2 DEF DescriptionsCurrent, CallCurrent, KeepsCurrent
<1> QED
  BY <1>3, <1>4 DEF TaskCurrent, CallCurrent

\* The end of a task leaves the other tasks and calls as current as they were.
LEMMA TaskOverCurrent ==
    ASSUME TypeOK, DescriptionsCurrent, KeepsCurrent, NEW c \in Calls, TaskOver(c),
           calls' = calls
    PROVE  DescriptionsCurrent'
<1>1. \A d \in Calls : tasks'[d] = tasks[d] \/ tasks'[d].pc = "none"
  BY DEF TaskOver, TypeOK, NoTask
<1> QED
  BY <1>1, StillCurrent DEF DescriptionsCurrent

\* A scheduled enrichment starts from what its activation read back.
LEMMA ScheduleCurrent ==
    ASSUME TypeOK, DescriptionsCurrent, NEW c \in Calls, Schedule(c)
    PROVE  DescriptionsCurrent'
<1>1. thing' = thing /\ raced' = raced
  BY DEF Schedule, database, history
<1>2. KeepsCurrent
  BY <1>1 DEF KeepsCurrent
<1>3. ASSUME NEW d \in Calls \ {c}
      PROVE  tasks'[d] = tasks[d] \/ tasks'[d].pc = "none"
  <2>1. PICK prior \in IF scheduled = NoCall THEN {NoTask} ELSE Cancelled(tasks[scheduled]) :
          tasks'[d] = IF d = scheduled THEN prior ELSE tasks[d]
    BY DEF Schedule
  <2>2. d = scheduled => prior \in {tasks[d], NoTask}
    BY <2>1 DEF Cancelled
  <2> QED
    BY <2>1, <2>2 DEF NoTask
<1>4. TaskCurrent(tasks[c])'
  <2>1. tasks'[c] = [pc |-> "enriching", td |-> calls[c].row.td,
                     base |-> calls[c].row.version, incarnation |-> calls[c].row.incarnation]
    BY DEF Schedule
  <2>2. Current(thing, raced, calls[c].row.incarnation, calls[c].row.version,
                calls[c].row.td)
    BY DEF DescriptionsCurrent, CallCurrent, Schedule, At
  <2> QED
    BY <1>1, <2>1, <2>2 DEF TaskCurrent
<1>5. CallCurrent(calls[c])'
  BY DoneCalls DEF CallCurrent
<1>6. \A d \in Calls \ {c} : calls'[d] = calls[d]
  BY DoneCalls
<1> QED
  BY <1>2, <1>3, <1>4, <1>5, <1>6, StillCurrent DEF DescriptionsCurrent

\* A task that goes on keeps what it has read.
LEMMA EnrichCurrent ==
    ASSUME TypeOK, DescriptionsCurrent, NEW c \in Calls, EnrichDone(c) \/ ApplyRead(c)
    PROVE  DescriptionsCurrent'
<1>1. thing' = thing /\ raced' = raced /\ calls' = calls
  BY DEF EnrichDone, ApplyRead, database, history
<1>2. KeepsCurrent
  BY <1>1 DEF KeepsCurrent
<1>3. CASE TaskOver(c)
  BY <1>1, <1>2, <1>3, TaskOverCurrent
<1>4. CASE ~TaskOver(c)
  <2>1. /\ \A d \in Calls \ {c} : tasks'[d] = tasks[d]
        /\ tasks[c].pc # "none"
    BY <1>4 DEF EnrichDone, ApplyRead, TypeOK
  <2>2. /\ tasks'[c].incarnation = tasks[c].incarnation
        /\ tasks'[c].base = tasks[c].base
        /\ tasks'[c].td.has = tasks[c].td.has
    BY <1>4 DEF EnrichDone, ApplyRead, TypeOK, Task, Description
  <2>3. TaskCurrent(tasks[c])'
    BY <1>1, <2>1, <2>2 DEF DescriptionsCurrent, TaskCurrent, Current
  <2> QED
    BY <1>1, <1>2, <2>1, <2>3, StillCurrent DEF DescriptionsCurrent
<1> QED
  BY <1>3, <1>4

\* Every step keeps the bindings to what was described.
LEMMA NextDescribed ==
    ASSUME TypeOK, RequestsCovered, DescriptionsCurrent, BindingsDescribed, [Next]_vars
    PROVE  DescriptionsCurrent' /\ BindingsDescribed'
<1>1. ASSUME NEW c \in Calls, LocalAction(c)
      PROVE  DescriptionsCurrent' /\ BindingsDescribed'
  <2>1. /\ thing' = thing /\ raced' = raced /\ bindings' = bindings /\ tasks' = tasks
        /\ \A d \in Calls \ {c} : calls'[d] = calls[d]
    BY <1>1, LocalTypes DEF LocalStep, LoadOnly, database
  <2>2. KeepsCurrent
    BY <2>1 DEF KeepsCurrent
  <2>3. calls'[c].pc = "returned" => calls'[c].row = thing \/ calls'[c] = calls[c]
    BY <1>1, LocalCases, DoneCallFields
    DEF StartsCreate, StartsReplace, StartsAdd, StartsActivate, StartsInteract,
        LoadsBindings, Advances, Returns, Ends
  <2>4. Current(thing, raced, thing.incarnation, thing.version, thing.td)
    BY DEF Current, TypeOK, Thing
  <2>5. CallCurrent(calls[c])'
    BY <2>1, <2>2, <2>3, <2>4, StillCurrent DEF CallCurrent
  <2>6. DescriptionsCurrent'
    BY <2>1, <2>2, <2>5, StillCurrent DEF DescriptionsCurrent
  <2> QED
    BY <2>1, <2>6 DEF BindingsDescribed
<1>2. ASSUME NEW c \in Calls, DefineWrite(c)
      PROVE  DescriptionsCurrent' /\ BindingsDescribed'
  <2>1. BindingsDescribed' /\ KeepsCurrent
    BY <1>2, DefineWriteDescribed
  <2>2. tasks' = tasks
    BY <1>2 DEF DefineWrite
  <2>3. CallCurrent(calls[c])'
    BY <1>2, DefineWriteCalls DEF CallCurrent
  <2>4. \A d \in Calls \ {c} : calls'[d] = calls[d]
    BY <1>2, DefineWriteCalls
  <2> QED
    BY <2>1, <2>2, <2>3, <2>4, StillCurrent DEF DescriptionsCurrent
<1>3. ASSUME NEW c \in Calls, Delete(c) \/ InteractionStores(c)
      PROVE  DescriptionsCurrent' /\ BindingsDescribed'
  <2>1. thing \in Thing
    BY DEF TypeOK
  <2>2. KeepsCurrent /\ BindingsDescribed'
    <3>1. CASE Delete(c)
      BY <2>1, <3>1 DEF Delete, NoThing, KeepsCurrent, Current, BindingsDescribed, Covered
    <3>2. CASE InteractionStores(c)
      <4>1. /\ thing'.exists = thing.exists /\ thing'.incarnation = thing.incarnation
            /\ thing'.version = thing.version /\ thing'.td = thing.td
            /\ raced' = raced /\ bindings' = bindings
        BY <2>1, <3>2 DEF InteractionStores, Thing
      <4> QED
        BY <4>1 DEF KeepsCurrent, Current, BindingsDescribed, Covered
    <3> QED
      BY <1>3, <3>1, <3>2
  <2>3. tasks' = tasks
    BY <1>3 DEF Delete, InteractionStores
  <2>4. CallCurrent(calls[c])'
    BY <1>3, DoneCalls DEF CallCurrent
  <2>5. \A d \in Calls \ {c} : calls'[d] = calls[d]
    BY <1>3, DoneCalls
  <2> QED
    BY <2>2, <2>3, <2>4, <2>5, StillCurrent DEF DescriptionsCurrent
<1>4. ASSUME NEW c \in Calls, Schedule(c)
      PROVE  DescriptionsCurrent' /\ BindingsDescribed'
  BY <1>4, ScheduleCurrent DEF Schedule, database, history, BindingsDescribed
<1>5. ASSUME NEW c \in Calls, EnrichDone(c) \/ ApplyRead(c)
      PROVE  DescriptionsCurrent' /\ BindingsDescribed'
  BY <1>5, EnrichCurrent DEF EnrichDone, ApplyRead, database, history, BindingsDescribed
<1>6. ASSUME NEW c \in Calls, ApplyWrite(c)
      PROVE  DescriptionsCurrent' /\ BindingsDescribed'
  <2>1. TaskOver(c) /\ calls' = calls
    BY <1>6 DEF ApplyWrite
  <2> QED
    BY <1>6, <2>1, ApplyWriteDescribed, TaskOverCurrent
<1>7. CASE UNCHANGED vars
  <2>1. /\ thing' = thing /\ raced' = raced /\ bindings' = bindings
        /\ tasks' = tasks /\ calls' = calls
    BY <1>7 DEF vars, database, history
  <2>2. KeepsCurrent
    BY <2>1 DEF KeepsCurrent
  <2> QED
    BY <2>1, <2>2, StillCurrent DEF DescriptionsCurrent, BindingsDescribed
<1> QED
  BY <1>1, <1>2, <1>3, <1>4, <1>5, <1>6, <1>7, NextCases

DescribedInv == TypeOK /\ RequestsCovered /\ DescriptionsCurrent /\ BindingsDescribed

\* Every binding has its description, whatever loads, stores and enrichments overlap,
\* unless a transaction wrote over a row that it had not read.
THEOREM BindingsDescribedHolds == Spec => []BindingsDescribed
<1>1. Init => DescribedInv
  BY InitTypeOK, InitDescribed DEF DescribedInv
<1>2. DescribedInv /\ [Next]_vars => DescribedInv'
  BY NextTypeOK, NextRequestsCovered, NextDescribed DEF DescribedInv
<1>3. DescribedInv => BindingsDescribed
  BY DEF DescribedInv
<1> QED
  BY <1>1, <1>2, <1>3, PTL DEF Spec

(***************************************************************************)
(* Supersession                                                            *)
(***************************************************************************)
\* Every step keeps one enrichment, the scheduled one.
LEMMA NextEnriching ==
    ASSUME TypeOK, EnrichingIsScheduled, [Next]_vars
    PROVE  EnrichingIsScheduled'
<1>1. ASSUME NEW c \in Calls, Schedule(c)
      PROVE  EnrichingIsScheduled'
  <2>1. PICK prior \in IF scheduled = NoCall THEN {NoTask} ELSE Cancelled(tasks[scheduled]) :
          \A d \in Calls \ {c} : tasks'[d] = IF d = scheduled THEN prior ELSE tasks[d]
    BY <1>1 DEF Schedule
  <2>2. prior.pc # "enriching"
    BY <2>1 DEF Cancelled, NoTask
  <2>3. scheduled' = c
    BY <1>1 DEF Schedule
  <2> QED
    BY <2>1, <2>2, <2>3 DEF EnrichingIsScheduled
<1>2. ASSUME NEW c \in Calls, TaskOver(c)
      PROVE  EnrichingIsScheduled'
  BY <1>2 DEF TaskOver, EnrichingIsScheduled, TypeOK, NoTask
<1>3. ASSUME NEW c \in Calls, EnrichDone(c) \/ ApplyRead(c) \/ ApplyWrite(c)
      PROVE  EnrichingIsScheduled'
  <2>1. CASE TaskOver(c)
    BY <1>2, <2>1
  <2>2. CASE ~TaskOver(c)
    BY <1>3, <2>2
    DEF EnrichDone, ApplyRead, ApplyWrite, EnrichingIsScheduled, TypeOK, Task
  <2> QED
    BY <2>1, <2>2
<1>4. ASSUME NEW c \in Calls,
             LocalAction(c) \/ DefineWrite(c) \/ Delete(c) \/ InteractionStores(c)
      PROVE  EnrichingIsScheduled'
  <2>1. tasks' = tasks /\ scheduled' = scheduled
    BY <1>4, LocalTypes DEF LocalStep, LoadOnly, DefineWrite, Delete, InteractionStores
  <2> QED
    BY <2>1 DEF EnrichingIsScheduled
<1>5. CASE UNCHANGED vars
  BY <1>5 DEF EnrichingIsScheduled, vars
<1> QED
  BY <1>1, <1>3, <1>4, <1>5, NextCases

\* At most one enrichment of the Thing is with the language model: the scheduler
\* never loses the task it would have to cancel.
THEOREM OneEnrichmentHolds == Spec => []OneEnrichment
<1>1. Init => TypeOK /\ EnrichingIsScheduled
  BY InitTypeOK DEF Init, EnrichingIsScheduled, NoTask
<1>2. (TypeOK /\ EnrichingIsScheduled) /\ [Next]_vars => (TypeOK /\ EnrichingIsScheduled)'
  BY NextTypeOK, NextEnriching
<1>3. TypeOK /\ EnrichingIsScheduled => OneEnrichment
  BY DEF EnrichingIsScheduled, OneEnrichment
<1> QED
  BY <1>1, <1>2, <1>3, PTL DEF Spec

\* The stored definition and its enrichment are consistent in every reachable
\* state, whatever calls overlap.
THEOREM DefinitionsConsistentHolds == Spec => []DefinitionsConsistent
<1>1. TypeOK /\ BindingsDescribed /\ OneEnrichment => DefinitionsConsistent
  BY DEF DefinitionsConsistent
<1> QED
  BY <1>1, TypeCorrect, BindingsDescribedHolds, OneEnrichmentHolds, PTL
=============================================================================
