---------------------------- MODULE ThingIndexes ----------------------------
(***************************************************************************)
(* The catalog with the consumers of its event stream: the vector index    *)
(* (wotbot/thing_indexer, wotbot/search/vector_store.py) and the RDF store *)
(* (wotbot/rdf), each with its consumer group and one consumer.            *)
(*                                                                         *)
(* A consumer takes a batch, applies entries in order and acknowledges     *)
(* each after it was applied.  What failed stays pending and is claimed    *)
(* again once it has been idle for a minute, whatever was applied since.   *)
(***************************************************************************)
EXTENDS ThingOutbox

CONSTANTS
    VectorStores,   \* derived stores whose replacement is one transaction
    GraphStores,    \* derived stores that remove and then load a graph
    BatchSize

Stores == VectorStores \cup GraphStores

ASSUME ThingIndexesAssumption ==
    /\ VectorStores \cap GraphStores = {}
    /\ BatchSize \in Nat \ {0}

VARIABLES
    index,          \* what each store shows of a Thing
    cursor,         \* last entry of the stream delivered to a group
    pending,        \* its entries delivered and not acknowledged
    batch,          \* those in the hands of the consumer, which takes them in order
    applied,        \* whether the oldest of them has been applied
    snapshot,       \* a reindex of a graph store: the catalog it loaded, or nothing
    disorder        \* history: the Things of which a store was shown an event out of
                    \* its turn, or that a reindex showed otherwise than they were announced

consumers == <<cursor, pending, batch, applied>>
vars == <<outboxVars, index, consumers, snapshot, disorder>>

Catalog == [Things -> Document \cup {Absent}]
Event(e) == outbox[stream[e]]

TypeOK ==
    /\ OutboxTypeOK
    /\ index \in [Stores -> Catalog]
    /\ cursor \in [Stores -> 0..Len(stream)]
    /\ pending \in [Stores -> SUBSET Nat]
    /\ batch \in [Stores -> SUBSET Nat]
    /\ applied \in [Stores -> BOOLEAN]
    /\ \A g \in Stores :
          /\ pending[g] \subseteq 1..cursor[g]
          /\ batch[g] \subseteq pending[g]
          /\ applied[g] => batch[g] # {}
    /\ snapshot \in [GraphStores -> {<<>>} \cup {<<c>> : c \in Catalog}]
    /\ disorder \in [Stores -> SUBSET Things]

Init ==
    /\ OutboxInit
    /\ index = [g \in Stores |-> [t \in Things |-> Absent]]
    /\ cursor = [g \in Stores |-> 0]
    /\ pending = [g \in Stores |-> {}]
    /\ batch = [g \in Stores |-> {}]
    /\ applied = [g \in Stores |-> FALSE]
    /\ snapshot = [g \in GraphStores |-> <<>>]
    /\ disorder = [g \in Stores |-> {}]

(***************************************************************************)
(* Taking entries                                                          *)
(***************************************************************************)
First(g) == Oldest(batch[g])

Takes(g, entries) ==
    /\ batch' = [batch EXCEPT ![g] = entries]
    /\ UNCHANGED <<outboxVars, index, applied, snapshot, disorder>>

\* XAUTOCLAIM: those of the pending entries that have been idle long enough.
ClaimStale(g) ==
    /\ batch[g] = {}
    /\ \E stale \in SUBSET pending[g] \ {{}} : Takes(g, stale)
    /\ UNCHANGED <<cursor, pending>>

ReadNew(g) ==
    LET last  == IF cursor[g] + BatchSize < Len(stream) THEN cursor[g] + BatchSize
                 ELSE Len(stream)
        fresh == (cursor[g] + 1)..last
    IN
    /\ batch[g] = {}
    /\ fresh # {}
    /\ Takes(g, fresh)
    /\ cursor' = [cursor EXCEPT ![g] = last]
    /\ pending' = [pending EXCEPT ![g] = @ \cup fresh]

(***************************************************************************)
(* Applying them, in their turn.  A remove event deletes what a store      *)
(* shows of the Thing, any other replaces it.                              *)
(***************************************************************************)
\* One transaction, or the load of a graph after the removal of the one before.
Replaced(g, e) == [index EXCEPT ![g][e.thing] = e.doc]

OutOfTurn(g) ==
    \E e \in pending[g] : e < First(g) /\ Event(e).thing = Event(First(g)).thing

Apply(g) ==
    /\ batch[g] # {} /\ ~applied[g]
    /\ LET e == Event(First(g)) IN
       /\ index' = Replaced(g, e)
       /\ disorder' = IF OutOfTurn(g) THEN [disorder EXCEPT ![g] = @ \cup {e.thing}]
                      ELSE disorder
    /\ applied' = [applied EXCEPT ![g] = TRUE]
    /\ UNCHANGED <<outboxVars, cursor, pending, batch, snapshot>>

\* The next entry is taken up whether or not this one has been acknowledged.
Drops(g) ==
    /\ batch' = [batch EXCEPT ![g] = @ \ {First(g)}]
    /\ applied' = [applied EXCEPT ![g] = FALSE]

Acknowledge(g) ==
    /\ applied[g]
    /\ pending' = [pending EXCEPT ![g] = @ \ {First(g)}]
    /\ Drops(g)
    /\ UNCHANGED <<outboxVars, index, cursor, snapshot, disorder>>

\* A graph store that stops between removing and loading a graph shows nothing.
HalfApplied(g) ==
    \/ UNCHANGED index
    \/ /\ g \in GraphStores /\ ~applied[g]
       /\ index' = [index EXCEPT ![g][Event(First(g)).thing] = Absent]

\* Mutant: a failed entry is acknowledged.
EntryFailsAcknowledged(g) ==
    /\ batch[g] # {}
    /\ Fault
    /\ Drops(g)
    /\ pending' = [pending EXCEPT ![g] = @ \ {First(g)}]
    /\ UNCHANGED <<catalog, events, index, cursor, snapshot, disorder>>

\* The summary, the embedding, the parser, the store or XACK raises.
EntryFails(g) ==
    /\ batch[g] # {}
    /\ Fault
    /\ HalfApplied(g)
    /\ Drops(g)
    /\ UNCHANGED <<catalog, events, cursor, pending, snapshot, disorder>>

ConsumerStops(g) ==
    /\ batch[g] # {}
    /\ Fault
    /\ HalfApplied(g)
    /\ batch' = [batch EXCEPT ![g] = {}]
    /\ applied' = [applied EXCEPT ![g] = FALSE]
    /\ UNCHANGED <<catalog, events, cursor, pending, snapshot, disorder>>

(***************************************************************************)
(* POST /rdf/reindex: the catalog is loaded before the lock of the store   *)
(* is taken; then the store is cleared and filled with what could be       *)
(* parsed, or with as much of it as a process that stops has come to.      *)
(***************************************************************************)
ReindexLoads(g) ==
    /\ snapshot[g] = <<>>
    /\ snapshot' = [snapshot EXCEPT ![g] = <<[t \in Things |-> Known(t)]>>]
    /\ UNCHANGED <<outboxVars, index, consumers, disorder>>

Refill(g, left) ==
    LET shown == [t \in Things |-> IF t \in left THEN Absent ELSE snapshot[g][1][t]] IN
    /\ index' = [index EXCEPT ![g] = shown]
    /\ disorder' = [disorder EXCEPT ![g] = @ \cup {t \in Things : shown[t] # Announced(t)}]
    /\ snapshot' = [snapshot EXCEPT ![g] = <<>>]

ReindexStores(g) ==
    /\ snapshot[g] # <<>>
    /\ Refill(g, {})
    /\ UNCHANGED <<outboxVars, consumers>>

ReindexLeavesOut(g) ==
    /\ snapshot[g] # <<>>
    /\ Fault
    /\ \E left \in SUBSET Things \ {{}} : Refill(g, left)
    /\ UNCHANGED <<catalog, events, consumers>>

(***************************************************************************)
(* Composition                                                             *)
(***************************************************************************)
\* An event of a Thing that goes to the stream while an older one is not known to be there.
PassesOver(p) ==
    {outbox[i].thing : i \in {i \in {publishing[p].row} :
        \E j \in 1..(i - 1) : outbox[j].state = "pending" /\ outbox[j].thing = outbox[i].thing}}

Unconsumed == UNCHANGED <<index, consumers, snapshot>>

CatalogSteps ==
    /\ \/ Requests
       \/ \E w \in Writers : Transaction(w) \/ Rollback(w)
       \/ \E p \in Publishers : Claim(p) \/ BatchOver(p) \/ MarkPublished(p)
                                 \/ PublishFails(p) \/ PublisherStops(p)
    /\ Unconsumed
    /\ UNCHANGED disorder

Publication(p) ==
    /\ Publish(p)
    /\ disorder' = [g \in Stores |-> disorder[g] \cup PassesOver(p)]
    /\ Unconsumed

Consumer(g) == ClaimStale(g) \/ ReadNew(g) \/ Apply(g) \/ Acknowledge(g)

Next ==
    \/ CatalogSteps
    \/ \E p \in Publishers : Publication(p)
    \/ \E g \in Stores : Consumer(g) \/ EntryFails(g) \/ ConsumerStops(g)
    \/ \E g \in GraphStores : ReindexLoads(g) \/ ReindexStores(g) \/ ReindexLeavesOut(g)

\* The publisher polls and the consumers loop for as long as their processes run;
\* nobody is obliged to write, and a transaction may stay open.
Working(p) == Publisher(p) /\ (Publication(p) \/ (Unconsumed /\ UNCHANGED disorder))

Fairness ==
    /\ \A p \in Publishers : WF_vars(Working(p))
    /\ \A g \in Stores : WF_vars(Consumer(g))

Spec == Init /\ [][Next]_vars /\ Fairness

(***************************************************************************)
(* Properties                                                              *)
(***************************************************************************)
\* The variables have their types, and the events tell the catalog in order.
CatalogRecorded == TypeOK /\ LastEventIsCatalog

\* Nothing is lost on the way: when the events that committed have gone through, a store
\* shows each Thing as it was announced last, whatever was published twice, failed, was
\* claimed again or stopped in between, unless one of its events was applied out of turn
\* or a reindex went over it (outbox.py, consumer.py, rdf/store.py).
Converges ==
    \A g \in Stores, t \in Things : <>[](t \in disorder[g] \/ index[g][t] = Announced(t))

\* The detailed pipeline implements the promise of IndexedCatalog.
Said == [t \in Things |-> {outbox[i].doc : i \in About(t)}]

Promise == INSTANCE IndexedCatalog WITH Documents <- Document \cup {Absent}, said <- Said

\* A store never shows a document that was rolled back, or another Thing's.
ShowsOnlyCommitted == Promise!Spec
=============================================================================
