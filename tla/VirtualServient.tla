-------------------------- MODULE VirtualServient --------------------------
(***************************************************************************)
(* The virtual servient (apps/virtual-servient): it keeps the Things it   *)
(* produces with node-wot, and their descriptions in the catalog, in step *)
(* with the definitions of virtual Things.                                *)
(*                                                                        *)
(* Two kinds of task interleave at every await: the loop that reads the   *)
(* stream of definition events (events.ts), and the reconciliation of     *)
(* everything (reconcileAll), which a timer starts again whether or not   *)
(* the last one is over.  Both run reconcileDefinition (manager.ts).  The *)
(* definitions are read by HTTP from the store that VirtualThings models; *)
(* only an active one is answered, so here a definition is visible or not.*)
(***************************************************************************)
EXTENDS Naturals, Sequences, FiniteSets

CONSTANTS
    Things,
    Shapes,         \* the affordances and triggers that bindings expose
    Loop,           \* the event loop
    Sweeps,         \* reconciliations of everything, which may overlap
    None,
    MaxChanges,     \* bound: changes of the definitions
    MaxFaults       \* bound: requests that fail, restarts

ASSUME ServientAssumption ==
    /\ Shapes # {}
    /\ Loop \notin Sweeps
    /\ None \notin Things \cup Shapes
    /\ MaxChanges \in Nat
    /\ MaxFaults \in Nat

VARIABLES
    defs,       \* the definition of each Thing in wotbot's store
    events,     \* entries of the stream that the consumer group was not given yet
    batch,      \* entries given to the loop
    active,     \* activeThings: what is produced of each Thing, or NotActive
    produced,   \* Things that node-wot has registered
    catalog,    \* the version of each Thing's description in the catalog, or 0
    tasks,      \* where the loop and the reconciliations are
    changes,
    faults

vars == <<defs, events, batch, active, produced, catalog, tasks, changes, faults>>

Tasks == Sweeps \cup {Loop}

Produced == [version: 1..MaxChanges, shape: Shapes]

NotActive == [version |-> 0, shape |-> None]

\* No definition: it was deleted, or it is disabled.
NoDefinition == NotActive

Entries == [thing: Things, deleted: BOOLEAN]

\* What a request for the definitions answers.
Read == [t \in Things |-> IF defs[t].visible
                          THEN [version |-> defs[t].version, shape |-> defs[t].shape]
                          ELSE NoDefinition]

In(read) == {t \in Things: read[t] # NoDefinition}

\* A task: the Thing and definition it works on, whether the active Thing it refers
\* to is still the one in activeThings, and for a reconciliation the definitions it
\* read, what it does with the Things of todo, and how it is doing them.
Idle == [at |-> "idle", thing |-> None, def |-> NoDefinition, mine |-> FALSE,
         stage |-> "none", read |-> [t \in Things |-> NoDefinition], todo |-> {}]

Phases == {"idle", "fetch", "destroy", "uncatalog", "produce", "canary", "set",
           "triggers", "upsert", "metadata", "list", "pick", "check"}

-----------------------------------------------------------------------------

\* What a task does after a Thing: the loop takes its next entry; a reconciliation
\* its next Thing, after the Things to stop the orphans, then the definitions.
Resumed(task) ==
    LET next == [task EXCEPT !.at = "pick", !.thing = None, !.def = NoDefinition,
                             !.mine = FALSE]
        defined == In(task.read)
    IN  CASE task.stage = "none" -> Idle
          [] task.todo # {} -> next
          [] task.stage = "stops" -> [next EXCEPT !.at = "list"]
          [] task.stage = "orphans" /\ defined # {} ->
                [next EXCEPT !.stage = "defs", !.todo = defined]
          [] OTHER -> Idle

Goes(p, phase) == tasks' = [tasks EXCEPT ![p].at = phase]

Resumes(p) == tasks' = [tasks EXCEPT ![p] = Resumed(tasks[p])]

\* An exception: the rest of the batch was given to the loop and is not read again,
\* a reconciliation is over.
Throws(p) ==
    /\ tasks' = [tasks EXCEPT ![p] = Idle]
    /\ batch' = IF p = Loop THEN <<>> ELSE batch

Fails(p) ==
    /\ faults < MaxFaults
    /\ faults' = faults + 1
    /\ Throws(p)

Works(p) == UNCHANGED <<batch, faults>>

Shared == UNCHANGED <<defs, events, changes>>

\* stopActiveThing, up to its first await: the Thing leaves the map.
Stops(p, task, t, then) ==
    /\ active' = [active EXCEPT ![t] = NotActive]
    /\ tasks' = [q \in Tasks |->
          IF q = p
          THEN [task EXCEPT !.thing = t, !.mine = FALSE,
                            !.at = IF active[t] = NotActive THEN then ELSE "destroy"]
          ELSE [tasks[q] EXCEPT !.mine = (@ /\ tasks[q].thing # t)]]

\* reconcileDefinition, up to its first await.
Reconciles(p, task, t, def) ==
    LET with == [task EXCEPT !.thing = t, !.def = def] IN
    CASE def = NoDefinition -> Stops(p, with, t, "uncatalog")
      [] def # NoDefinition /\ active[t].version = def.version ->
            tasks' = [tasks EXCEPT ![p] = Resumed(with)] /\ UNCHANGED active
      [] def # NoDefinition /\ active[t].version # def.version
            /\ active[t].shape = def.shape ->
            /\ tasks' = [tasks EXCEPT ![p] = [with EXCEPT !.at = "metadata", !.mine = TRUE]]
            /\ UNCHANGED active
      [] OTHER -> Stops(p, with, t, "produce")

-----------------------------------------------------------------------------
(* The event loop.                                                         *)

\* XREADGROUP: entries nobody was given.
ReadEvents ==
    /\ tasks[Loop] = Idle /\ batch = <<>> /\ events # <<>>
    /\ batch' = events
    /\ events' = <<>>
    /\ UNCHANGED <<defs, active, produced, catalog, tasks, changes, faults>>

\* handleEvent and reconcileThingId: the definition is read anew, unless it was
\* deleted.
HandleEvent ==
    /\ tasks[Loop] = Idle /\ batch # <<>>
    /\ batch' = Tail(batch)
    /\ LET e == Head(batch) IN
       IF e.deleted
       THEN Reconciles(Loop, Idle, e.thing, NoDefinition)
       ELSE /\ tasks' = [tasks EXCEPT ![Loop] = [Idle EXCEPT !.at = "fetch", !.thing = e.thing]]
            /\ UNCHANGED active
    /\ Shared /\ UNCHANGED <<produced, catalog, faults>>

Fetch ==
    LET t == tasks[Loop].thing IN
    /\ tasks[Loop].at = "fetch"
    /\ \/ Reconciles(Loop, Idle, t, Read[t]) /\ Works(Loop)
       \/ Fails(Loop) /\ UNCHANGED active
    /\ Shared /\ UNCHANGED <<produced, catalog>>

-----------------------------------------------------------------------------
(* Stopping and producing one Thing.                                       *)

\* stopActiveThing: node-wot forgets the Thing.
Destroy(p) ==
    /\ tasks[p].at = "destroy"
    /\ produced' = produced \ {tasks[p].thing}
    /\ Goes(p, IF tasks[p].def = NoDefinition THEN "uncatalog" ELSE "produce")
    /\ Shared /\ Works(p) /\ UNCHANGED <<active, catalog>>

\* The description is deleted from the catalog; a failure is only logged.
Uncatalog(p) ==
    /\ tasks[p].at = "uncatalog"
    /\ \/ catalog' = [catalog EXCEPT ![tasks[p].thing] = 0] /\ UNCHANGED faults
       \/ faults < MaxFaults /\ faults' = faults + 1 /\ UNCHANGED catalog
    /\ Resumes(p)
    /\ Shared /\ UNCHANGED <<active, produced, batch>>

\* reproduceThing: node-wot refuses a Thing whose id it has registered.
Produce(p) ==
    LET t == tasks[p].thing IN
    /\ tasks[p].at = "produce"
    /\ \/ /\ t \notin produced
          /\ produced' = produced \cup {t}
          /\ Goes(p, "canary")
          /\ Works(p)
       \/ /\ t \in produced
          /\ Throws(p)
          /\ UNCHANGED <<produced, faults>>
    /\ Shared /\ UNCHANGED <<active, catalog>>

\* canaryEventBindings: a Thing whose handlers fail is destroyed and not exposed.
Canary(p) ==
    LET t == tasks[p].thing IN
    /\ tasks[p].at = "canary"
    /\ \/ /\ Goes(p, "set")
          /\ UNCHANGED <<produced, faults>>
       \/ /\ faults < MaxFaults
          /\ faults' = faults + 1
          /\ produced' = produced \ {t}
          /\ Goes(p, "uncatalog")
    /\ Shared /\ UNCHANGED <<active, catalog, batch>>

\* The Thing is exposed and enters the map.
Expose(p) ==
    LET t == tasks[p].thing IN
    /\ tasks[p].at = "set"
    /\ active' = [active EXCEPT ![t] = tasks[p].def]
    /\ tasks' = [tasks EXCEPT ![p].at = "triggers", ![p].mine = TRUE]
    /\ Shared /\ Works(p) /\ UNCHANGED <<produced, catalog>>

\* startEventTriggers: a source event needs the description of its Thing.
StartTriggers(p) ==
    /\ tasks[p].at = "triggers"
    /\ \/ Goes(p, "upsert") /\ Works(p)
       \/ Fails(p)
    /\ Shared /\ UNCHANGED <<active, produced, catalog>>

\* The description is registered in the catalog.
Upsert(p) ==
    /\ tasks[p].at = "upsert"
    /\ \/ /\ catalog' = [catalog EXCEPT ![tasks[p].thing] = tasks[p].def.version]
          /\ Resumes(p)
          /\ Works(p)
       \/ Fails(p) /\ UNCHANGED catalog
    /\ Shared /\ UNCHANGED <<active, produced>>

\* applyMetadataOnlyChange: the description, then the Thing the task refers to.
Metadata(p) ==
    LET t == tasks[p].thing IN
    /\ tasks[p].at = "metadata"
    /\ \/ /\ catalog' = [catalog EXCEPT ![t] = tasks[p].def.version]
          /\ active' = IF tasks[p].mine
                       THEN [active EXCEPT ![t] = tasks[p].def]
                       ELSE active
          /\ Resumes(p)
          /\ Works(p)
       \/ Fails(p) /\ UNCHANGED <<catalog, active>>
    /\ Shared /\ UNCHANGED produced

-----------------------------------------------------------------------------
(* The reconciliation of everything.                                       *)


\* reconcileAll: the active Things without a definition in the answer are stopped.
\* An answer that is not a list of definitions counts as an empty one.
Sweep(p) ==
    /\ tasks[p] = Idle
    /\ \E read \in {Read, Idle.read}:
          /\ read # Read => faults < MaxFaults
          /\ faults' = IF read = Read THEN faults ELSE faults + 1
          /\ tasks' = [tasks EXCEPT ![p] =
                Resumed([Idle EXCEPT !.stage = "stops", !.read = read,
                                     !.todo = {t \in Things: active[t] # NotActive} \ In(read)])]
    /\ Shared /\ UNCHANGED <<batch, active, produced, catalog>>

\* sweepOrphanCatalogThings: the catalog is listed, or the sweep of orphans skipped.
ListCatalog(p) ==
    /\ tasks[p].at = "list"
    /\ LET listed == {t \in Things: catalog[t] # 0} \ In(tasks[p].read) IN
       \E todo \in {listed, {}}:
          /\ todo # listed => faults < MaxFaults
          /\ faults' = IF todo = listed THEN faults ELSE faults + 1
          /\ tasks' = [tasks EXCEPT ![p] =
                          Resumed([tasks[p] EXCEPT !.stage = "orphans", !.todo = todo])]
    /\ Shared /\ UNCHANGED <<batch, active, produced, catalog>>

\* The next Thing to stop, orphan to look at, or definition to reconcile.
Pick(p) ==
    /\ tasks[p].at = "pick"
    /\ \E t \in tasks[p].todo:
          LET task == [tasks[p] EXCEPT !.todo = @ \ {t}] IN
          CASE task.stage = "stops" -> Reconciles(p, task, t, NoDefinition)
            [] task.stage = "orphans" ->
                  /\ tasks' = [tasks EXCEPT ![p] = [task EXCEPT !.at = "check", !.thing = t]]
                  /\ UNCHANGED active
            [] task.stage = "defs" -> Reconciles(p, task, t, task.read[t])
    /\ Shared /\ Works(p) /\ UNCHANGED <<produced, catalog>>

\* An orphan is asked for again before its description is deleted.
CheckOrphan(p) ==
    /\ tasks[p].at = "check"
    /\ \/ /\ defs[tasks[p].thing].visible
          /\ Resumes(p)
          /\ Works(p)
       \/ /\ ~defs[tasks[p].thing].visible
          /\ Goes(p, "uncatalog")
          /\ Works(p)
       \/ Fails(p)
    /\ Shared /\ UNCHANGED <<active, produced, catalog>>

-----------------------------------------------------------------------------
(* The definitions, and the process of the servient.                       *)

\* A definition is created, enabled or changed: VirtualThingStore writes it with
\* an event.
Define(t, shape) ==
    /\ changes < MaxChanges
    /\ changes' = changes + 1
    /\ defs' = [defs EXCEPT ![t] = [version |-> @.version + 1, shape |-> shape, visible |-> TRUE]]
    /\ events' = Append(events, [thing |-> t, deleted |-> FALSE])
    /\ UNCHANGED <<batch, active, produced, catalog, tasks, faults>>

\* It is deleted, or disabled.
Undefine(t) ==
    /\ defs[t].visible
    /\ changes < MaxChanges
    /\ changes' = changes + 1
    /\ defs' = [defs EXCEPT ![t].visible = FALSE, ![t].version = @ + 1]
    /\ \E deleted \in BOOLEAN: events' = Append(events, [thing |-> t, deleted |-> deleted])
    /\ UNCHANGED <<batch, active, produced, catalog, tasks, faults>>

\* A crash, or a shutdown, which deletes the descriptions of active Things first.
\* What the loop was given stays pending in the group.
Restart ==
    /\ faults < MaxFaults
    /\ faults' = faults + 1
    /\ catalog' \in {catalog, [t \in Things |-> IF active[t] = NotActive THEN catalog[t] ELSE 0]}
    /\ active' = [t \in Things |-> NotActive]
    /\ produced' = {}
    /\ batch' = <<>>
    /\ tasks' = [p \in Tasks |-> Idle]
    /\ Shared

-----------------------------------------------------------------------------

Init ==
    /\ defs = [t \in Things |-> [version |-> 0, shape |-> CHOOSE s \in Shapes: TRUE,
                                 visible |-> FALSE]]
    /\ events = <<>>
    /\ batch = <<>>
    /\ active = [t \in Things |-> NotActive]
    /\ produced = {}
    /\ catalog = [t \in Things |-> 0]
    /\ tasks = [p \in Tasks |-> Idle]
    /\ changes = 0
    /\ faults = 0

OnThing(p) ==
    \/ Destroy(p) \/ Uncatalog(p) \/ Produce(p) \/ Canary(p) \/ Expose(p)
    \/ StartTriggers(p) \/ Upsert(p) \/ Metadata(p)

LoopStep == ReadEvents \/ HandleEvent \/ Fetch \/ OnThing(Loop)

SweepStep(p) == Sweep(p) \/ ListCatalog(p) \/ Pick(p) \/ CheckOrphan(p) \/ OnThing(p)

Next ==
    \/ LoopStep
    \/ \E p \in Sweeps: SweepStep(p)
    \/ \E t \in Things: Undefine(t) \/ \E shape \in Shapes: Define(t, shape)
    \/ Restart

\* Requests have timeouts, and the timer of reconcileAll never stops (index.ts).
Spec ==
    /\ Init /\ [][Next]_vars
    /\ WF_vars(LoopStep)
    /\ \A p \in Sweeps: WF_vars(SweepStep(p))

-----------------------------------------------------------------------------

\* The types; node-wot has registered what is active; of two tasks that produce a
\* Thing at the same time one is refused, so at most one goes on to expose it.
TypeOK ==
    /\ defs \in [Things -> [version: 0..MaxChanges, shape: Shapes, visible: BOOLEAN]]
    /\ events \in Seq(Entries)
    /\ batch \in Seq(Entries)
    /\ active \in [Things -> Produced \cup {NotActive}]
    /\ catalog \in [Things -> 0..MaxChanges]
    /\ changes \in 0..MaxChanges
    /\ faults \in 0..MaxFaults
    /\ \A p \in Tasks: tasks[p].at \in Phases /\ tasks[p].todo \subseteq Things
    /\ \A t \in Things:
          /\ active[t] # NotActive => t \in produced
          /\ Cardinality({p \in Tasks: tasks[p].thing = t
                             /\ tasks[p].at \in {"canary", "set", "destroy"}})
                + (IF active[t] # NotActive THEN 1 ELSE 0) <= 1

\* Once the definitions stay as they are, the servient comes to serve each of them
\* in its last version, and nothing else: a Thing without a definition is stopped
\* and its description leaves the catalog, whatever the loop lost, the overlapping
\* reconciliations still held of older definitions, or failed (index.ts:45).
ThingsConverge ==
    <>[](\A t \in Things:
            IF defs[t].visible
            THEN active[t].version = defs[t].version
            ELSE active[t] = NotActive /\ catalog[t] = 0)

=============================================================================
