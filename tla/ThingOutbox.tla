---------------------------- MODULE ThingOutbox ----------------------------
(***************************************************************************)
(* The catalog of Things (wotbot/catalog: service.py, store.py) and its    *)
(* transactional outbox (catalog/events): every write stores the row and   *)
(* the event that announces it in one transaction; a publisher in each API *)
(* process appends committed events to the stream.                         *)
(*                                                                         *)
(* A write is three steps: the SELECT its checks rest on, the statements   *)
(* that take the lock of the row and allocate the id of the event, and the *)
(* commit that shows both to others.                                       *)
(***************************************************************************)
EXTENDS Naturals, Sequences, FiniteSets

CONSTANTS
    Things,
    Texts,          \* what anybody may edit of a Thing Description
    Bindings,       \* what a provider generated in it: id, security, forms, markers
    Unbound,        \* a document without such parts
    Origins,        \* resources of discovery sources
    Manual,
    Absent,         \* no row, and what a remove event says
    Writers,        \* requests in progress
    Publishers,     \* API processes
    Limit,          \* thing_event_outbox_batch_size
    MaxEvents,      \* bound: rows of the outbox
    MaxFaults       \* bound: failed publications and stops, over the whole system

Document == [text : Texts, binding : Bindings \cup {Unbound}]
Row      == [doc : Document, origin : Origins \cup {Manual}]

ASSUME ThingOutboxAssumption ==
    /\ Unbound \notin Bindings
    /\ Manual \notin Origins
    /\ Absent \notin Document \cup Row
    /\ Limit \in Nat \ {0}
    /\ {MaxEvents, MaxFaults} \subseteq Nat

VARIABLES
    things,         \* table things
    outbox,         \* table thing_event_outbox, by id
    txn,            \* the transaction of each writer
    publishing,     \* the row each publisher has locked, and
    processed,      \* the rows of its batch
    stream,         \* the Redis stream: ids of outbox rows
    faults

catalog == <<things, txn>>
events  == <<outbox, publishing, processed, stream>>
outboxVars == <<catalog, events, faults>>

\* "found" is history: the event announces a write, not a deletion of nothing.
EventRow == [thing : Things, doc : Document \cup {Absent}, found : BOOLEAN,
             state : {"open", "pending", "published", "rolled back"}]

None == 0
Idle == [stage |-> "idle"]

\* A request that has made its checks, and the transaction that has written its row.
Checked == [stage : {"checked"}, op : {"update", "update_discovered", "delete"},
            thing : Things, doc : Document \cup {Absent}]
Open    == [stage : {"open"}, thing : Things, doc : Document \cup {Absent},
            origin : Origins \cup {Manual}, event : 1..MaxEvents, found : BOOLEAN]

OutboxTypeOK ==
    /\ things \in [Things -> Row \cup {Absent}]
    /\ outbox \in Seq(EventRow) /\ Len(outbox) <= MaxEvents
    /\ txn \in [Writers -> {Idle} \cup Checked \cup Open]
    /\ publishing \in [Publishers -> [row : 0..MaxEvents, sent : BOOLEAN]]
    /\ processed \in [Publishers -> SUBSET (1..MaxEvents)]
    /\ stream \in Seq(1..MaxEvents)
    /\ faults \in 0..MaxFaults

OutboxInit ==
    /\ things = [t \in Things |-> Absent]
    /\ outbox = <<>>
    /\ txn = [w \in Writers |-> Idle]
    /\ publishing = [p \in Publishers |-> [row |-> None, sent |-> FALSE]]
    /\ processed = [p \in Publishers |-> {}]
    /\ stream = <<>>
    /\ faults = 0

Fault == faults < MaxFaults /\ faults' = faults + 1

(***************************************************************************)
(* Statements that write.  The row stays locked until the transaction      *)
(* ends; a second writer waits, and then sees what the first one left.     *)
(***************************************************************************)
Locked(t) == \E w \in Writers : txn[w].stage = "open" /\ txn[w].thing = t /\ txn[w].found

OriginLocked(o) == \E w \in Writers : txn[w].stage = "open" /\ txn[w].origin = o

\* The row and, in the same transaction, the event, whose id is allocated now.
Writes(w, t, doc, origin, found) ==
    /\ Len(outbox) < MaxEvents
    /\ outbox' = Append(outbox, [thing |-> t, doc |-> doc, found |-> found, state |-> "open"])
    /\ txn' = [txn EXCEPT ![w] = [stage |-> "open", thing |-> t, doc |-> doc, origin |-> origin,
                                  event |-> Len(outbox) + 1, found |-> found]]
    /\ UNCHANGED <<things, publishing, processed, stream, faults>>

Flush(w, t, doc, origin) == ~Locked(t) /\ Writes(w, t, doc, origin, TRUE)

Commit(w) ==
    LET x == txn[w] IN
    /\ x.stage = "open"
    /\ things' = IF ~x.found THEN things
                 ELSE [things EXCEPT ![x.thing] = IF x.doc = Absent THEN Absent
                                                  ELSE [doc |-> x.doc, origin |-> x.origin]]
    /\ outbox' = [outbox EXCEPT ![x.event].state = "pending"]
    /\ txn' = [txn EXCEPT ![w] = Idle]
    /\ UNCHANGED <<publishing, processed, stream, faults>>

\* Mutant: the event has a transaction of its own.
RollbackAnnounced(w) ==
    /\ txn[w] # Idle
    /\ Fault
    /\ outbox' = IF txn[w].stage = "open"
                 THEN [outbox EXCEPT ![txn[w].event].state = "pending"] ELSE outbox
    /\ txn' = [txn EXCEPT ![w] = Idle]
    /\ UNCHANGED <<things, publishing, processed, stream>>

\* An exception, or the end of the process: the id is not used again.
Rollback(w) ==
    /\ txn[w] # Idle
    /\ Fault
    /\ outbox' = IF txn[w].stage = "open"
                 THEN [outbox EXCEPT ![txn[w].event].state = "rolled back"] ELSE outbox
    /\ txn' = [txn EXCEPT ![w] = Idle]
    /\ UNCHANGED <<things, publishing, processed, stream>>

(***************************************************************************)
(* Requests.  What a creation checks is checked again by the constraints   *)
(* of the table; updates and deletions rest on a SELECT made before they   *)
(* have the lock.                                                          *)
(***************************************************************************)
IsDiscovered(row) == row # Absent /\ row.origin \in Origins

ProviderBound(doc) == doc.binding # Unbound

HasOrigin(o) == \E t \in Things : things[t] # Absent /\ things[t].origin = o

Create(w, t, doc) ==
    /\ txn[w] = Idle
    /\ ~ProviderBound(doc)
    /\ things[t] = Absent
    /\ Flush(w, t, doc, Manual)

\* An import whose resource is already in the catalog returns its Thing and writes nothing.
CreateDiscovered(w, t, doc, o) ==
    /\ txn[w] = Idle
    /\ ~HasOrigin(o) /\ ~OriginLocked(o)
    /\ things[t] = Absent
    /\ Flush(w, t, doc, o)

Check(w, op, t, doc) ==
    /\ txn[w] = Idle
    /\ txn' = [txn EXCEPT ![w] = [stage |-> "checked", op |-> op, thing |-> t, doc |-> doc]]
    /\ UNCHANGED <<things, events, faults>>

\* A provider's parts may not be brought in, nor changed where they are.
UpdateAllowed(row, doc) ==
    IF IsDiscovered(row) THEN doc.binding = row.doc.binding ELSE ~ProviderBound(doc)

Update(w, t, doc) == UpdateAllowed(things[t], doc) /\ Check(w, "update", t, doc)

UpdateDiscovered(w, t, doc) ==
    IsDiscovered(things[t]) /\ Check(w, "update_discovered", t, doc)

Delete(w, t) == things[t] # Absent /\ Check(w, "delete", t, Absent)

Origin(t) == IF things[t] = Absent THEN Manual ELSE things[t].origin

\* put_thing is an upsert: it leaves the origin of the row it finds, and what it
\* inserts is a manual Thing, which update_discovered does not accept.
Put(w) ==
    LET x == txn[w] IN
    /\ x.stage = "checked" /\ x.op # "delete"
    /\ x.op = "update_discovered" => things[x.thing] # Absent
    /\ Flush(w, x.thing, x.doc, Origin(x.thing))

Refuse(w) ==
    /\ txn[w].stage = "checked" /\ txn[w].op = "update_discovered"
    /\ things[txn[w].thing] = Absent /\ ~Locked(txn[w].thing)
    /\ txn' = [txn EXCEPT ![w] = Idle]
    /\ UNCHANGED <<things, events, faults>>

\* A DELETE that finds no row any more waits for nobody, not for the transaction that
\* inserts one either; its event is written all the same.
DeleteThing(w) ==
    LET t == txn[w].thing IN
    /\ txn[w].stage = "checked" /\ txn[w].op = "delete"
    /\ IF things[t] = Absent THEN Writes(w, t, Absent, Manual, FALSE)
       ELSE Flush(w, t, Absent, Origin(t))

(***************************************************************************)
(* The publisher of an API process                                         *)
(***************************************************************************)
\* Mutant: a row is taken before its transaction committed.
ClaimableUncommitted(p) ==
    {i \in DOMAIN outbox : /\ outbox[i].state \in {"open", "pending"}
                           /\ i \notin processed[p]}

Claimable(p) ==
    {i \in DOMAIN outbox : /\ outbox[i].state = "pending"
                           /\ i \notin processed[p]
                           /\ \A q \in Publishers : publishing[q].row # i}

Oldest(ids) == CHOOSE i \in ids : \A j \in ids : i <= j

Claim(p) ==
    /\ publishing[p].row = None
    /\ Cardinality(processed[p]) < Limit
    /\ Claimable(p) # {}
    /\ LET i == Oldest(Claimable(p)) IN
       /\ publishing' = [publishing EXCEPT ![p].row = i]
       /\ processed' = [processed EXCEPT ![p] = @ \cup {i}]
    /\ UNCHANGED <<catalog, outbox, stream, faults>>

BatchOver(p) ==
    /\ publishing[p].row = None
    /\ processed[p] # {}
    /\ Cardinality(processed[p]) = Limit \/ Claimable(p) = {}
    /\ processed' = [processed EXCEPT ![p] = {}]
    /\ UNCHANGED <<catalog, outbox, publishing, stream, faults>>

Publish(p) ==
    /\ publishing[p].row # None /\ ~publishing[p].sent
    /\ stream' = Append(stream, publishing[p].row)
    /\ publishing' = [publishing EXCEPT ![p].sent = TRUE]
    /\ UNCHANGED <<catalog, outbox, processed, faults>>

Released(p) == [publishing EXCEPT ![p] = [row |-> None, sent |-> FALSE]]

MarkPublished(p) ==
    /\ publishing[p].sent
    /\ outbox' = [outbox EXCEPT ![publishing[p].row].state = "published"]
    /\ publishing' = Released(p)
    /\ UNCHANGED <<catalog, processed, stream, faults>>

\* XADD raises, before or after Redis appended the entry: the row stays pending and
\* the batch goes on with the next one.
PublishFails(p) ==
    /\ publishing[p].row # None
    /\ Fault
    /\ publishing' = Released(p)
    /\ UNCHANGED <<catalog, outbox, processed, stream>>

\* The process stops: the row is released as it was, and the batch is forgotten.
PublisherStops(p) ==
    /\ publishing[p].row # None \/ processed[p] # {}
    /\ Fault
    /\ publishing' = Released(p)
    /\ processed' = [processed EXCEPT ![p] = {}]
    /\ UNCHANGED <<catalog, outbox, stream>>

Requests ==
    \/ \E w \in Writers, t \in Things, d \in Document :
          \/ Create(w, t, d)
          \/ \E o \in Origins : CreateDiscovered(w, t, d, o)
          \/ Update(w, t, d)
          \/ UpdateDiscovered(w, t, d)
    \/ \E w \in Writers, t \in Things : Delete(w, t)

Transaction(w) == Put(w) \/ Refuse(w) \/ DeleteThing(w) \/ Commit(w)

Publisher(p) == Claim(p) \/ BatchOver(p) \/ Publish(p) \/ MarkPublished(p)

OutboxNext ==
    \/ Requests
    \/ \E w \in Writers : Transaction(w) \/ Rollback(w)
    \/ \E p \in Publishers : Publisher(p) \/ PublishFails(p) \/ PublisherStops(p)

(***************************************************************************)
(* What a Thing has been told to be, by the last event that committed      *)
(***************************************************************************)
Committed == {i \in DOMAIN outbox : outbox[i].state \in {"pending", "published"}}

About(t) == {i \in Committed : outbox[i].thing = t}

Newest(t) == CHOOSE i \in About(t) : \A j \in About(t) : j <= i

Announced(t) == IF About(t) = {} THEN Absent ELSE outbox[Newest(t)].doc

Known(t) == IF things[t] = Absent THEN Absent ELSE things[t].doc

\* The newest committed event of a Thing, in the order of the ids by which publishers
\* take them, describes the row: events get their ids in the order in which the writes
\* they announce take effect, whatever overlaps, fails or is rolled back.  What is
\* excepted: the deletion of a row that another one deleted first announces a removal
\* that removed nothing (catalog/service.py, every write).
LastEventIsCatalog ==
    \A t \in Things :
        (About(t) # {} => outbox[Newest(t)].found) => Announced(t) = Known(t)

=============================================================================
