---------------------------- MODULE VirtualThings ----------------------------
(***************************************************************************)
(* The definition of one virtual Thing (wotbot/virtual_things: builder.py, *)
(* store.py, enrichment.py, dispatcher.py, routes.py): affordances added   *)
(* by parallel tool calls, activation after a smoke test, replacement of   *)
(* the whole definition, deletion, interactions that change the shared     *)
(* state of its handlers, and the semantic enrichment that follows an      *)
(* activation.                                                             *)
(*                                                                         *)
(* The database is PostgreSQL at READ COMMITTED: each SELECT is a step of  *)
(* its own, and so is what follows the first UPDATE of a transaction,      *)
(* which holds the row until the commit.  The object mapper writes only    *)
(* the columns that differ from what the transaction read, as literals.    *)
(***************************************************************************)
EXTENDS Naturals, FiniteSets

CONSTANTS
    Calls,        \* tool calls and requests, each made once
    NoCall,
    Affordances   \* names of properties, actions and events

ASSUME VirtualThingsAssumption == NoCall \notin Calls

VARIABLES
    thing,       \* its row in table virtual_things, and
    bindings,    \* its rows in virtual_thing_bindings, one for an affordance
    lock,        \* holder of its build lock
    calls,       \* the calls under way
    scheduled,   \* the scheduler's task: the activation it belongs to
    tasks,       \* the enrichment that follows an activation, with its thread
    overtaken,   \* history: what was added, and which interactions succeeded, since
                 \* a call loaded the definition, and whether the shared state or
                 \* its version went back since then
    added,       \* history: affordances added to this Thing, and
    succeeded,   \* interactions that changed its shared state, both without those
                 \* that an overtaken call wrote over
    raced        \* history: a transaction wrote over a row of this Thing that it had
                 \* not read

database == <<thing, bindings>>
history  == <<overtaken, added, succeeded, raced>>
vars     == <<database, lock, calls, scheduled, tasks, history>>

(***************************************************************************)
(* Types                                                                   *)
(***************************************************************************)
\* abstract_td: the affordances it describes, and whether it is annotated.
Description == [has: SUBSET Affordances, enriched: BOOLEAN]

Thing == [exists: BOOLEAN,
          incarnation: Nat,    \* history: how often it was inserted
          version: Nat,
          status: {"active", "disabled"},
          td: Description,
          shared: SUBSET Calls,    \* the interactions its shared state reflects
          sharedVersion: Nat]

Call == [op: {"none", "create", "add", "activate", "replace", "interact"},
         pc: {"idle", "loading", "checking", "defining", "writing", "stored",
              "returned", "handling", "done"},
         adds: SUBSET Affordances,          \* what it adds or replaces with
         status: {"active", "disabled"},    \* of a replacement
         row: Thing,                        \* the definition it loaded
         bound: SUBSET Affordances,
         read: Thing]                       \* what define_thing read

Task == [pc: {"none", "enriching", "applying", "checked"},
         td: Description, base: Nat, incarnation: Nat]

EmptyDescription == [has |-> {}, enriched |-> FALSE]
NoThing(n) == [exists |-> FALSE, incarnation |-> n, version |-> 0, status |-> "disabled",
               td |-> EmptyDescription, shared |-> {}, sharedVersion |-> 0]
IdleCall == [op |-> "none", pc |-> "idle", adds |-> {}, status |-> "disabled",
             row |-> NoThing(0), bound |-> {}, read |-> NoThing(0)]
DoneCall == [IdleCall EXCEPT !.pc = "done"]
NoTask   == [pc |-> "none", td |-> EmptyDescription, base |-> 0, incarnation |-> 0]
Nothing  == [added |-> {}, succeeded |-> {}, reverted |-> FALSE]

\* The Thing is not there, or was defined earlier.
Init ==
    /\ \E has \in SUBSET Affordances, status \in {"active", "disabled"} :
          /\ bindings = has
          /\ \/ thing = NoThing(0) /\ has = {}
             \/ thing = [exists |-> TRUE, incarnation |-> 1, version |-> 1,
                         status |-> status, td |-> [has |-> has, enriched |-> FALSE],
                         shared |-> {}, sharedVersion |-> 1]
    /\ lock = NoCall
    /\ calls = [c \in Calls |-> IdleCall]
    /\ scheduled = NoCall
    /\ tasks = [c \in Calls |-> NoTask]
    /\ overtaken = [c \in Calls |-> Nothing]
    /\ added = {}
    /\ succeeded = {}
    /\ raced = FALSE

(***************************************************************************)
(* Helpers                                                                 *)
(***************************************************************************)
At(c, pc) == calls[c].pc = pc

UnderWay == {c \in Calls : calls[c].pc \notin {"idle", "done"}}

Released(c) == IF lock = c THEN NoCall ELSE lock

\* Every binding refers to an affordance of the description.
Covered(td, bound) == bound \subseteq td.has

\* The definition a call stores: DefineVirtualThingRequest.
RequestedTd(call) ==
    CASE call.op = "create"  -> EmptyDescription
      [] call.op = "replace" -> [has |-> call.adds, enriched |-> FALSE]
      [] OTHER               -> [call.row.td EXCEPT !.has = @ \cup call.adds]

RequestedBindings(call) == call.bound \cup call.adds

RequestedStatus(call) ==
    CASE call.op = "activate" -> "active"
      [] call.op = "add"      -> call.row.status
      [] OTHER                -> call.status

\* An activation and a replacement carry the shared state they loaded.
CarriesShared(call) == call.op \in {"activate", "replace"} /\ call.row.exists

(***************************************************************************)
(* Loading a definition: the row, then the bindings                        *)
(***************************************************************************)
LoadOnly == UNCHANGED <<database, scheduled, tasks, added, succeeded, raced>>

Load(c, op, adds, status, pc) ==
    /\ At(c, "idle")
    /\ calls' = [calls EXCEPT ![c] = [IdleCall EXCEPT !.op = op, !.pc = pc, !.adds = adds,
                                                      !.status = status, !.row = thing]]
    /\ overtaken' = [overtaken EXCEPT ![c] = Nothing]
    /\ LoadOnly

\* A create that finds the Thing returns it and changes nothing.
Create(c) ==
    /\ ~thing.exists
    /\ Load(c, "create", {}, "disabled", "defining")
    /\ UNCHANGED lock

\* Mutant: no build lock.
AddUnlocked(c, a) ==
    /\ thing.exists
    /\ Load(c, "add", {a}, "disabled", "loading")
    /\ UNCHANGED lock

Add(c, a) ==
    /\ lock = NoCall
    /\ thing.exists
    /\ Load(c, "add", {a}, "disabled", "loading")
    /\ lock' = c

Activate(c) ==
    /\ thing.exists
    /\ Load(c, "activate", {}, "disabled", "loading")
    /\ UNCHANGED lock

\* PUT of a whole definition; of the stored one it keeps the shared state.
Replace(c, all, status) ==
    /\ Load(c, "replace", all, status, "checking")
    /\ UNCHANGED lock

LoadBindings(c) ==
    /\ At(c, "loading")
    /\ calls' = [calls EXCEPT ![c].pc = "checking", ![c].bound = bindings]
    /\ overtaken' = [overtaken EXCEPT ![c].added = {}]
    /\ UNCHANGED lock
    /\ LoadOnly

\* Mutant: the coverage is not validated.
AcceptUncovered(c) ==
    LET call == calls[c]
    IN  /\ At(c, "checking")
        /\ call.op = "activate" => call.bound # {}
        /\ calls' = [calls EXCEPT ![c].pc = "defining"]
        /\ UNCHANGED <<lock, overtaken>>
        /\ LoadOnly

\* The request is well formed and its handlers pass their tests ...
Accept(c) ==
    LET call == calls[c]
    IN  /\ At(c, "checking")
        /\ Covered(RequestedTd(call), RequestedBindings(call))
        /\ call.op = "activate" => call.bound # {}
        /\ calls' = [calls EXCEPT ![c].pc = "defining"]
        /\ UNCHANGED <<lock, overtaken>>
        /\ LoadOnly

\* ... or they do not, which is any of the validator's verdicts.
Refuse(c) ==
    /\ At(c, "checking")
    /\ calls' = [calls EXCEPT ![c] = DoneCall]
    /\ lock' = Released(c)
    /\ overtaken' = [overtaken EXCEPT ![c] = Nothing]
    /\ LoadOnly

(***************************************************************************)
(* VirtualThingStore.define_thing                                          *)
(***************************************************************************)
DefineRead(c) ==
    /\ At(c, "defining")
    /\ calls' = [calls EXCEPT ![c].pc = "writing", ![c].read = thing]
    /\ UNCHANGED <<lock, overtaken>>
    /\ LoadOnly

Inserted(call) ==
    [exists |-> TRUE, incarnation |-> thing.incarnation + 1, version |-> 1,
     status |-> RequestedStatus(call), td |-> RequestedTd(call),
     shared |-> IF CarriesShared(call) THEN call.row.shared ELSE {}, sharedVersion |-> 1]

\* A column that does not differ from what was read is not written.
Column(requested, read, now) == IF requested # read THEN requested ELSE now

WritesShared(call) == CarriesShared(call) /\ call.row.shared # call.read.shared

Updated(call) ==
    [thing EXCEPT
        !.version = call.read.version + 1,
        !.status = Column(RequestedStatus(call), call.read.status, @),
        !.td = Column(RequestedTd(call), call.read.td, @),
        !.shared = IF WritesShared(call) THEN call.row.shared ELSE @,
        !.sharedVersion = IF WritesShared(call) THEN call.read.sharedVersion + 1 ELSE @]

\* What the call knows to have been added stays added.
StillAdded(c) ==
    LET call == calls[c]
    IN  (IF ~call.read.exists THEN {} ELSE
         CASE call.op = "add"     -> added
           [] call.op = "replace" -> added \cap call.adds
           [] OTHER               -> added \ overtaken[c].added)
        \cup (IF call.op = "add" THEN call.adds ELSE {})

\* The row and the bindings are written, unless the row appeared (a key that is
\* taken) or went (an update of no row) since it was read.
DefineWrite(c) ==
    LET call == calls[c]
    IN  /\ At(c, "writing")
        /\ thing.exists = call.read.exists
        /\ thing' = IF thing.exists THEN Updated(call) ELSE Inserted(call)
        /\ bindings' = RequestedBindings(call)
        /\ calls' = [calls EXCEPT ![c] = IF call.op = "activate"
                                         THEN [IdleCall EXCEPT !.pc = "stored"]
                                         ELSE DoneCall]
        /\ lock' = Released(c)
        /\ raced' = (raced \/ thing # call.read)
        /\ added' = StillAdded(c)
        /\ succeeded' = IF ~thing.exists THEN {}
                        ELSE IF WritesShared(call)
                        THEN succeeded \ overtaken[c].succeeded ELSE succeeded
        /\ overtaken' = [d \in Calls |->
              IF d = c THEN Nothing
              ELSE IF d \notin UnderWay THEN overtaken[d]
              ELSE [overtaken[d] EXCEPT
                      !.added = IF call.op = "add" THEN @ \cup call.adds ELSE @,
                      !.reverted = @ \/ /\ thing.exists
                                        /\ WritesShared(call)
                                        /\ thing.sharedVersion # call.read.sharedVersion]]
        /\ UNCHANGED <<scheduled, tasks>>

DefineFails(c) ==
    /\ At(c, "writing")
    /\ thing.exists # calls[c].read.exists
    /\ calls' = [calls EXCEPT ![c] = DoneCall]
    /\ lock' = Released(c)
    /\ overtaken' = [overtaken EXCEPT ![c] = Nothing]
    /\ LoadOnly

\* VirtualThingStore.delete_thing; the bindings go by a cascade.
Delete(c) ==
    /\ At(c, "idle")
    /\ thing.exists
    /\ thing' = NoThing(thing.incarnation)
    /\ bindings' = {}
    /\ calls' = [calls EXCEPT ![c] = DoneCall]
    /\ added' = {}
    /\ succeeded' = {}
    /\ raced' = FALSE
    /\ overtaken' = [d \in Calls |-> IF d \in UnderWay
                                     THEN [overtaken[d] EXCEPT !.reverted = TRUE]
                                     ELSE overtaken[d]]
    /\ UNCHANGED <<lock, scheduled, tasks>>

(***************************************************************************)
(* Enrichment                                                              *)
(***************************************************************************)
\* The activation reads the Thing again ...
Reread(c) ==
    /\ At(c, "stored")
    /\ calls' = [calls EXCEPT ![c] = IF thing.exists
                                     THEN [@ EXCEPT !.pc = "returned", !.row = thing]
                                     ELSE DoneCall]
    /\ UNCHANGED <<lock, overtaken>>
    /\ LoadOnly

\* A task that is cancelled ends, but not the thread that applies its result.
Cancelled(task) ==
    CASE task.pc = "checked"  -> {task}
      [] task.pc = "applying" -> {task, NoTask}
      [] OTHER                -> {NoTask}

\* ... and, back in the event loop, schedules its enrichment instead of the last.
Schedule(c) ==
    LET row == calls[c].row
    IN  /\ At(c, "returned")
        /\ \E prior \in IF scheduled = NoCall THEN {NoTask} ELSE Cancelled(tasks[scheduled]) :
              tasks' = [d \in Calls |->
                          IF d = c THEN [pc |-> "enriching", td |-> row.td,
                                         base |-> row.version,
                                         incarnation |-> row.incarnation]
                          ELSE IF d = scheduled THEN prior ELSE tasks[d]]
        /\ scheduled' = c
        /\ calls' = [calls EXCEPT ![c] = DoneCall]
        /\ UNCHANGED <<database, lock, history>>

TaskOver(c) ==
    /\ tasks' = [tasks EXCEPT ![c] = NoTask]
    /\ scheduled' = IF scheduled = c THEN NoCall ELSE scheduled

\* The language model proposes annotations that pass their validation, or not.
EnrichDone(c) ==
    /\ tasks[c].pc = "enriching"
    /\ \/ tasks' = [tasks EXCEPT ![c].pc = "applying", ![c].td.enriched = TRUE]
          /\ UNCHANGED scheduled
       \/ TaskOver(c)
    /\ UNCHANGED <<database, lock, calls, history>>

\* apply_enrichment compares the version it reads ...
ApplyRead(c) ==
    /\ tasks[c].pc = "applying"
    /\ IF thing.exists /\ thing.version = tasks[c].base
       THEN tasks' = [tasks EXCEPT ![c].pc = "checked"] /\ UNCHANGED scheduled
       ELSE TaskOver(c)
    /\ UNCHANGED <<database, lock, calls, history>>

\* ... and writes the description, unless the row is gone by then.
ApplyWrite(c) ==
    LET task == tasks[c]
        outdated == thing.version # task.base \/ thing.incarnation # task.incarnation
    IN  /\ task.pc = "checked"
        /\ IF thing.exists
           THEN /\ thing' = [thing EXCEPT !.td = task.td, !.version = task.base + 1]
                /\ raced' = (raced \/ outdated)
           ELSE UNCHANGED <<thing, raced>>
        /\ TaskOver(c)
        /\ UNCHANGED <<bindings, lock, calls, overtaken, added, succeeded>>

(***************************************************************************)
(* Interactions: VirtualThingDispatcher.invoke_action and emit_event       *)
(***************************************************************************)
\* get_runtime_binding, and the handler starts in the code executor.
Interact(c) ==
    /\ At(c, "idle")
    /\ thing.exists
    /\ thing.status = "active"
    /\ bindings # {}
    /\ calls' = [calls EXCEPT ![c] = [IdleCall EXCEPT !.op = "interact", !.pc = "handling",
                                                      !.row = thing]]
    /\ UNCHANGED <<lock, overtaken>>
    /\ LoadOnly

Succeeds(c) ==
    /\ succeeded' = {c} \cup IF overtaken[c].reverted
                             THEN succeeded \ overtaken[c].succeeded ELSE succeeded
    /\ overtaken' = [d \in Calls |->
          IF d = c THEN Nothing
          ELSE IF d \in UnderWay
          THEN [overtaken[d] EXCEPT !.succeeded = @ \cup {c}] ELSE overtaken[d]]

\* Mutant: the version of the shared state is not compared.
InteractionStoresUnchecked(c) ==
    LET seen == calls[c].row
    IN  /\ At(c, "handling")
        /\ thing.exists
        /\ thing' = [thing EXCEPT !.shared = seen.shared \cup {c}, !.sharedVersion = @ + 1]
        /\ calls' = [calls EXCEPT ![c] = DoneCall]
        /\ Succeeds(c)
        /\ UNCHANGED <<bindings, lock, scheduled, tasks, added, raced>>

\* The handler changed the shared state: UPDATE ... WHERE shared_state_version = ...
InteractionStores(c) ==
    LET seen == calls[c].row
    IN  /\ At(c, "handling")
        /\ thing.exists
        /\ thing.sharedVersion = seen.sharedVersion
        /\ thing' = [thing EXCEPT !.shared = seen.shared \cup {c}, !.sharedVersion = @ + 1]
        /\ calls' = [calls EXCEPT ![c] = DoneCall]
        /\ Succeeds(c)
        /\ UNCHANGED <<bindings, lock, scheduled, tasks, added, raced>>

\* It did not, it failed, or the update found another version or no row.
InteractionEnds(c) ==
    /\ At(c, "handling")
    /\ calls' = [calls EXCEPT ![c] = DoneCall]
    /\ overtaken' = [overtaken EXCEPT ![c] = Nothing]
    /\ UNCHANGED lock
    /\ LoadOnly

(***************************************************************************)
(* Specification                                                           *)
(***************************************************************************)
DefineStep(c) ==
    \/ LoadBindings(c)
    \/ Accept(c)
    \/ Refuse(c)
    \/ DefineRead(c)
    \/ DefineWrite(c)
    \/ DefineFails(c)
    \/ Reread(c)
    \/ Schedule(c)

EnrichStep(c) == EnrichDone(c) \/ ApplyRead(c) \/ ApplyWrite(c)

Next ==
    \E c \in Calls :
        \/ Create(c)
        \/ \E a \in Affordances : Add(c, a)
        \/ Activate(c)
        \/ \E all \in SUBSET Affordances, status \in {"active", "disabled"} :
              Replace(c, all, status)
        \/ DefineStep(c)
        \/ Delete(c)
        \/ EnrichStep(c)
        \/ Interact(c) \/ InteractionStores(c) \/ InteractionEnds(c)

Spec == Init /\ [][Next]_vars

(***************************************************************************)
(* Properties                                                              *)
(***************************************************************************)
TypeOK ==
    /\ thing \in Thing
    /\ bindings \in SUBSET Affordances
    /\ lock \in Calls \cup {NoCall}
    /\ calls \in [Calls -> Call]
    /\ scheduled \in Calls \cup {NoCall}
    /\ tasks \in [Calls -> Task]
    /\ overtaken \in [Calls -> [added: SUBSET Affordances, succeeded: SUBSET Calls,
                             reverted: BOOLEAN]]
    /\ added \in SUBSET Affordances
    /\ succeeded \in SUBSET Calls
    /\ raced \in BOOLEAN

\* However many additions run in parallel, each one that returned has its
\* binding, until the Thing is deleted or replaced.  Excepted are those that an
\* activation or a create wrote over because they came after its load.
AddsKept == added \subseteq bindings

\* No binding lacks its description, so that every handler can be reached and
\* every later addition passes its validation, even when the two SELECTs of a load
\* see two definitions; unless a transaction wrote over a row it had not read.
BindingsDescribed == ~raced => Covered(thing.td, bindings)

\* An interaction that succeeded is in the shared state; excepted are those that
\* an activation or a replacement wrote over because they came after its load, and
\* those that the version check missed because a deletion, or such a write over a
\* newer version, made the version go back.
InteractionsKept == succeeded \subseteq thing.shared

\* Supersession: however activations and the threads of older enrichments overlap,
\* at most one enrichment of the Thing is with the language model.
OneEnrichment ==
    \A c, d \in Calls :
        tasks[c].pc = "enriching" /\ tasks[d].pc = "enriching" => c = d

\* The variables have their types, no binding lacks its description, and enrichments
\* supersede each other.
DefinitionsConsistent == TypeOK /\ BindingsDescribed /\ OneEnrichment

=============================================================================
