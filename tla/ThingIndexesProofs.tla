------------------------- MODULE ThingIndexesProofs -------------------------
(***************************************************************************)
(* Theorems about ThingOutbox and ThingIndexes, for any number of Things,  *)
(* requests, publishers, stores and events: the events that committed tell *)
(* the catalog, and the whole pipeline implements IndexedCatalog.          *)
(***************************************************************************)
EXTENDS ThingIndexes, SequenceTheorems, WellFoundedInduction, TLAPS

(***************************************************************************)
(* The inductive invariant                                                 *)
(***************************************************************************)
Opened(w) == txn[w].stage = "open"

\* The event of an open transaction is the one it wrote, and its alone.
TransactionsOpen ==
    /\ \A w \in Writers : Opened(w) =>
          /\ txn[w].event \in 1..Len(outbox)
          /\ outbox[txn[w].event].state = "open"
          /\ outbox[txn[w].event].thing = txn[w].thing
          /\ outbox[txn[w].event].doc = txn[w].doc
          /\ outbox[txn[w].event].found = txn[w].found
    /\ \A v, w \in Writers : v # w /\ Opened(v) /\ Opened(w) => txn[v].event # txn[w].event

\* One transaction at a time has the row of a Thing.
OneWriter ==
    \A v, w \in Writers :
        v # w /\ Opened(v) /\ Opened(w) /\ txn[v].found /\ txn[w].found
            => txn[v].thing # txn[w].thing

\* The events that say what was done to a row.
Found(t) == {i \in About(t) : outbox[i].found}

\* The event of a transaction that has a row is newer than those committed about it.
WritersAhead ==
    \A w \in Writers : Opened(w) /\ txn[w].found =>
        \A i \in Found(txn[w].thing) : i < txn[w].event

\* The newest of the events that say what was done to a row tells what the row is.
CatalogTold ==
    \A t \in Things :
        /\ Found(t) = {} => things[t] = Absent
        /\ \A n \in Found(t) : (\A i \in Found(t) : i <= n) => Known(t) = outbox[n].doc

\* A row has been said.
KnownSaid == \A t \in Things : Known(t) \in Said[t] \cup {Absent}

\* What has been published, or is being published, has committed.
PublishedCommitted ==
    /\ \A p \in Publishers : publishing[p].row # None => publishing[p].row \in Committed
    /\ \A p \in Publishers : publishing[p].sent => publishing[p].row # None
    /\ \A e \in 1..Len(stream) : stream[e] \in Committed

\* What a store shows, or a reindex has loaded, has been said.
ShownSaid ==
    /\ \A g \in Stores, t \in Things : index[g][t] \in Said[t] \cup {Absent}
    /\ \A g \in GraphStores : snapshot[g] # <<>> =>
          \A t \in Things : snapshot[g][1][t] \in Said[t] \cup {Absent}

IInv ==
    /\ TypeOK
    /\ TransactionsOpen
    /\ OneWriter
    /\ WritersAhead
    /\ CatalogTold
    /\ KnownSaid
    /\ PublishedCommitted
    /\ ShownSaid

(***************************************************************************)
(* Oldest and newest                                                       *)
(***************************************************************************)
\* A set of numbers that is not empty has a least member.
LEMMA LeastExists ==
    ASSUME NEW S, S \subseteq Nat, S # {}
    PROVE  \E i \in S : \A j \in S : i <= j
<1>1. \E i \in S : \A j \in S : ~ (<<j, i>> \in OpToRel(<, Nat))
  BY WFMin, NatLessThanWellFounded
<1>2. PICK i \in S : \A j \in S : ~ (<<j, i>> \in OpToRel(<, Nat))
  BY <1>1
<1>3. ASSUME NEW j \in S PROVE i <= j
  <2>1. i \in Nat /\ j \in Nat
    OBVIOUS
  <2>2. <<j, i>> \in Nat \X Nat
    BY <2>1
  <2>3. ~ (j < i)
    BY <1>2, <2>2 DEF OpToRel
  <2> QED
    BY <2>1, <2>3
<1> QED
  BY <1>3

\* Oldest returns it.
LEMMA OldestIn ==
    ASSUME NEW S, S \subseteq Nat, S # {}
    PROVE  Oldest(S) \in S /\ \A j \in S : Oldest(S) <= j
BY LeastExists DEF Oldest

\* A set of numbers up to a bound has a greatest member.
LEMMA GreatestExists ==
    ASSUME NEW n \in Nat, NEW S, S \subseteq 1..n, S # {}
    PROVE  \E i \in S : \A j \in S : j <= i
<1> DEFINE T == {n - i : i \in S}
<1>1. T \subseteq Nat /\ T # {}
  OBVIOUS
<1>2. PICK k \in T : \A j \in T : k <= j
  BY <1>1, LeastExists
<1>3. PICK i \in S : k = n - i
  OBVIOUS
<1>4. ASSUME NEW j \in S PROVE j <= i
  <2>1. n - j \in T
    OBVIOUS
  <2>2. n - i <= n - j
    BY <1>2, <1>3, <2>1
  <2> QED
    BY <2>2
<1> QED
  BY <1>4

\* Newest returns it.
LEMMA NewestIn ==
    ASSUME OutboxTypeOK, NEW t, About(t) # {}
    PROVE  Newest(t) \in About(t) /\ \A j \in About(t) : j <= Newest(t)
<1>1. Len(outbox) \in Nat /\ About(t) \subseteq 1..Len(outbox)
  BY DEF OutboxTypeOK, About, Committed
<1> QED
  BY <1>1, GreatestExists DEF Newest

(***************************************************************************)
(* What the steps of the catalog do to the outbox                          *)
(***************************************************************************)
\* A transaction writes a row and its event.
Writing(w) ==
    \E t \in Things, doc \in Document \cup {Absent}, origin \in Origins \cup {Manual},
       found \in BOOLEAN :
        /\ ~Opened(w)
        /\ found => ~Locked(t)
        /\ Writes(w, t, doc, origin, found)

\* A request is checked, refused or given up.
Thinking(w) ==
    /\ ~Opened(w)
    /\ \E x \in {Idle} \cup Checked : txn' = [txn EXCEPT ![w] = x]
    /\ UNCHANGED <<things, events>>
    /\ faults' \in 0..MaxFaults

Undone(w) == Opened(w) /\ Rollback(w)

\* The kinds of transactions can be told apart.
LEMMA Stages ==
    /\ Idle.stage = "idle"
    /\ \A x \in Checked : x.stage = "checked"
    /\ \A x \in Open : x.stage = "open"
BY DEF Idle, Checked, Open

\* An open transaction has the fields of one.
LEMMA OpenFields ==
    ASSUME OutboxTypeOK, NEW w \in Writers, Opened(w)
    PROVE  /\ txn[w] \in Open
           /\ txn[w].thing \in Things
           /\ txn[w].doc \in Document \cup {Absent}
           /\ txn[w].origin \in Origins \cup {Manual}
           /\ txn[w].event \in 1..MaxEvents
           /\ txn[w].found \in BOOLEAN
<1>1. txn[w] \in {Idle} \cup Checked \cup Open
  BY DEF OutboxTypeOK
<1>2. txn[w] \in Open
  BY <1>1, Stages DEF Opened
<1> QED
  BY <1>2 DEF Open

\* A checked request has the fields of one.
LEMMA CheckedFields ==
    ASSUME OutboxTypeOK, NEW w \in Writers, txn[w].stage = "checked"
    PROVE  /\ txn[w] \in Checked
           /\ txn[w].thing \in Things
           /\ txn[w].doc \in Document \cup {Absent}
<1>1. txn[w] \in {Idle} \cup Checked \cup Open
  BY DEF OutboxTypeOK
<1>2. txn[w] \in Checked
  BY <1>1, Stages
<1> QED
  BY <1>2 DEF Checked

\* The origin that an upsert finds or leaves.
LEMMA OriginTyped ==
    ASSUME OutboxTypeOK, NEW t \in Things
    PROVE  Origin(t) \in Origins \cup {Manual}
BY DEF OutboxTypeOK, Origin, Row

\* The steps of requests and transactions are of four kinds.
LEMMA RequestKinds ==
    ASSUME OutboxTypeOK,
           Requests \/ \E w \in Writers : Transaction(w) \/ Rollback(w)
    PROVE  \E w \in Writers : Writing(w) \/ Thinking(w) \/ Commit(w) \/ Undone(w)
<1> USE DEF OutboxTypeOK
<1>a. faults \in 0..MaxFaults /\ MaxFaults \in Nat
  BY ThingOutboxAssumption
<1>i. ASSUME NEW w \in Writers, txn[w] = Idle PROVE ~Opened(w)
  BY <1>i, Stages DEF Opened
<1>1. ASSUME NEW w \in Writers, NEW t \in Things, NEW d \in Document, Create(w, t, d)
      PROVE  Writing(w)
  BY <1>1, <1>i DEF Create, Flush, Writing
<1>2. ASSUME NEW w \in Writers, NEW t \in Things, NEW d \in Document, NEW o \in Origins,
             CreateDiscovered(w, t, d, o)
      PROVE  Writing(w)
  BY <1>2, <1>i DEF CreateDiscovered, Flush, Writing
<1>3. ASSUME NEW w \in Writers, NEW t \in Things, NEW d \in Document \cup {Absent},
             NEW op \in {"update", "update_discovered", "delete"}, Check(w, op, t, d)
      PROVE  Thinking(w)
  <2>1. [stage |-> "checked", op |-> op, thing |-> t, doc |-> d] \in Checked
    BY DEF Checked
  <2>2. UNCHANGED <<things, events>> /\ faults' = faults
    BY <1>3 DEF Check
  <2>3. ~Opened(w)
    BY <1>3, <1>i DEF Check
  <2>4. \E x \in {Idle} \cup Checked : txn' = [txn EXCEPT ![w] = x]
    BY <1>3, <2>1 DEF Check
  <2> QED
    BY <1>a, <2>2, <2>3, <2>4 DEF Thinking
<1>4. ASSUME NEW w \in Writers, Put(w) PROVE Writing(w)
  <2>1. txn[w].stage = "checked" /\ ~Opened(w)
    BY <1>4 DEF Put, Opened
  <2>2. txn[w].thing \in Things /\ txn[w].doc \in Document \cup {Absent}
    BY <2>1, CheckedFields
  <2>3. Origin(txn[w].thing) \in Origins \cup {Manual}
    BY <2>2, OriginTyped
  <2>4. ~Locked(txn[w].thing) /\ Writes(w, txn[w].thing, txn[w].doc, Origin(txn[w].thing), TRUE)
    BY <1>4 DEF Put, Flush
  <2> QED
    BY <2>1, <2>2, <2>3, <2>4 DEF Writing
<1>5. ASSUME NEW w \in Writers, Refuse(w) PROVE Thinking(w)
  <2>1. UNCHANGED <<things, events>> /\ faults' = faults
    BY <1>5 DEF Refuse
  <2>2. ~Opened(w)
    BY <1>5 DEF Refuse, Opened
  <2>3. txn' = [txn EXCEPT ![w] = Idle]
    BY <1>5 DEF Refuse
  <2> QED
    BY <1>a, <2>1, <2>2, <2>3 DEF Thinking
<1>6. ASSUME NEW w \in Writers, DeleteThing(w) PROVE Writing(w)
  <2>1. txn[w].stage = "checked" /\ ~Opened(w)
    BY <1>6 DEF DeleteThing, Opened
  <2>2. txn[w].thing \in Things
    BY <2>1, CheckedFields
  <2>3. Origin(txn[w].thing) \in Origins \cup {Manual}
    BY <2>2, OriginTyped
  <2>4. CASE things[txn[w].thing] = Absent
    <3>1. Writes(w, txn[w].thing, Absent, Manual, FALSE)
      BY <1>6, <2>4 DEF DeleteThing
    <3> QED
      BY <2>1, <2>2, <3>1 DEF Writing
  <2>5. CASE things[txn[w].thing] # Absent
    <3>1. /\ ~Locked(txn[w].thing)
          /\ Writes(w, txn[w].thing, Absent, Origin(txn[w].thing), TRUE)
      BY <1>6, <2>5 DEF DeleteThing, Flush
    <3> QED
      BY <2>1, <2>2, <2>3, <3>1 DEF Writing
  <2> QED
    BY <2>4, <2>5
<1>7. ASSUME NEW w \in Writers, Rollback(w) PROVE Thinking(w) \/ Undone(w)
  <2>1. CASE ~Opened(w)
    <3>1. UNCHANGED <<things, events>>
      BY <1>7, <2>1 DEF Rollback, Opened, events
    <3>2. faults' \in 0..MaxFaults
      <4>1. Fault
        BY <1>7 DEF Rollback
      <4> QED
        BY <1>a, <4>1 DEF Fault
    <3>3. txn' = [txn EXCEPT ![w] = Idle]
      BY <1>7 DEF Rollback
    <3> QED
      BY <2>1, <3>1, <3>2, <3>3 DEF Thinking
  <2> QED
    BY <1>7, <2>1 DEF Undone
<1>8. CASE Requests
  <2>1. ASSUME NEW w \in Writers, NEW t \in Things, Delete(w, t) PROVE Thinking(w)
    BY <1>3, <2>1 DEF Delete
  <2>2. ASSUME NEW w \in Writers, NEW t \in Things, NEW d \in Document,
               Update(w, t, d) \/ UpdateDiscovered(w, t, d)
        PROVE  Thinking(w)
    BY <1>3, <2>2 DEF Update, UpdateDiscovered
  <2> QED
    BY <1>1, <1>2, <1>8, <2>1, <2>2 DEF Requests
<1> QED
  BY <1>4, <1>5, <1>6, <1>7, <1>8 DEF Transaction

\* An event that is there stays as it was, but for its state.
SameEvent(i) ==
    /\ outbox'[i].thing = outbox[i].thing
    /\ outbox'[i].doc = outbox[i].doc
    /\ outbox'[i].found = outbox[i].found

StateGiven(i, s) == outbox' = [outbox EXCEPT ![i].state = s]

RowGiven(i, r) == outbox' = [outbox EXCEPT ![i] = r]

\* Giving an event another row leaves the others.
LEMMA RowSet ==
    ASSUME outbox \in Seq(EventRow), NEW i \in 1..Len(outbox), NEW r \in EventRow,
           RowGiven(i, r)
    PROVE  /\ outbox' \in Seq(EventRow)
           /\ Len(outbox') = Len(outbox)
           /\ outbox'[i] = r
           /\ \A j \in 1..Len(outbox) : j # i => outbox'[j] = outbox[j]
BY DEF RowGiven

\* Giving an event another state leaves everything else.
LEMMA StateSet ==
    ASSUME OutboxTypeOK, NEW i \in 1..Len(outbox),
           NEW s \in {"pending", "published", "rolled back"},
           StateGiven(i, s)
    PROVE  /\ outbox' \in Seq(EventRow)
           /\ Len(outbox') = Len(outbox)
           /\ outbox'[i].state = s
           /\ SameEvent(i)
           /\ \A j \in 1..Len(outbox) : j # i => outbox'[j] = outbox[j]
<1>1. outbox \in Seq(EventRow)
  BY DEF OutboxTypeOK
<1>2. outbox[i] \in EventRow
  BY <1>1, ElementOfSeq
<1>3. PICK r : r = [outbox[i] EXCEPT !.state = s]
  OBVIOUS
<1>4. RowGiven(i, r)
  BY <1>3 DEF StateGiven, RowGiven
<1>5. /\ r \in EventRow
      /\ r.state = s
      /\ r.thing = outbox[i].thing
      /\ r.doc = outbox[i].doc
      /\ r.found = outbox[i].found
  BY <1>2, <1>3 DEF EventRow
<1>6. /\ outbox' \in Seq(EventRow)
      /\ Len(outbox') = Len(outbox)
      /\ outbox'[i] = r
      /\ \A j \in 1..Len(outbox) : j # i => outbox'[j] = outbox[j]
  BY <1>1, <1>4, <1>5, RowSet
<1> QED
  BY <1>5, <1>6 DEF SameEvent

\* What Writing does.
WritingView(w) ==
    LET n == Len(outbox) + 1 IN
    /\ ~Opened(w)
    /\ Opened(w)'
    /\ txn'[w].event = n
    /\ txn'[w].found => ~Locked(txn'[w].thing)
    /\ \A v \in Writers : v # w => txn'[v] = txn[v]
    /\ Len(outbox') = n
    /\ \A i \in 1..Len(outbox) : outbox'[i] = outbox[i]
    /\ outbox'[n].state = "open"
    /\ outbox'[n].thing = txn'[w].thing
    /\ outbox'[n].doc = txn'[w].doc
    /\ outbox'[n].found = txn'[w].found
    /\ UNCHANGED <<things, publishing, processed, stream, faults>>

\* A request that writes opens, or extends, its transaction.
LEMMA WritingStep ==
    ASSUME OutboxTypeOK, NEW w \in Writers, Writing(w)
    PROVE  OutboxTypeOK' /\ WritingView(w)
<1>1. PICK t \in Things, doc \in Document \cup {Absent}, origin \in Origins \cup {Manual},
           found \in BOOLEAN :
        /\ ~Opened(w)
        /\ found => ~Locked(t)
        /\ Writes(w, t, doc, origin, found)
  BY DEF Writing
<1> DEFINE n == Len(outbox) + 1
           e == [thing |-> t, doc |-> doc, found |-> found, state |-> "open"]
           x == [stage |-> "open", thing |-> t, doc |-> doc, origin |-> origin,
                 event |-> n, found |-> found]
<1>2. /\ Len(outbox) < MaxEvents
      /\ outbox' = Append(outbox, e)
      /\ txn' = [txn EXCEPT ![w] = x]
      /\ UNCHANGED <<things, publishing, processed, stream, faults>>
  BY <1>1 DEF Writes
<1>3. /\ outbox \in Seq(EventRow)
      /\ Len(outbox) \in Nat /\ MaxEvents \in Nat
      /\ txn \in [Writers -> {Idle} \cup Checked \cup Open]
  BY ThingOutboxAssumption DEF OutboxTypeOK
<1>4. n \in 1..MaxEvents
  BY <1>2, <1>3
<1>5. /\ e \in EventRow
      /\ e.thing = t /\ e.doc = doc /\ e.found = found /\ e.state = "open"
  BY DEF EventRow
<1>6. /\ x \in Open
      /\ x.stage = "open" /\ x.thing = t /\ x.doc = doc /\ x.event = n /\ x.found = found
  BY <1>4 DEF Open
<1> HIDE DEF e, x
<1>7. /\ outbox' \in Seq(EventRow)
      /\ Len(outbox') = n
      /\ outbox'[n] = e
      /\ \A i \in 1..Len(outbox) : outbox'[i] = outbox[i]
  BY <1>2, <1>3, <1>5
<1>8. /\ txn' \in [Writers -> {Idle} \cup Checked \cup Open]
      /\ txn'[w] = x
      /\ \A v \in Writers : v # w => txn'[v] = txn[v]
  BY <1>2, <1>3, <1>6
<1>9. OutboxTypeOK'
  BY <1>2, <1>4, <1>7, <1>8 DEF OutboxTypeOK
<1>10. WritingView(w)
  BY <1>1, <1>2, <1>5, <1>6, <1>7, <1>8 DEF WritingView, Opened
<1> QED
  BY <1>9, <1>10

\* What Thinking does.
ThinkingView(w) ==
    /\ ~Opened(w)
    /\ ~Opened(w)'
    /\ \A v \in Writers : v # w => txn'[v] = txn[v]
    /\ UNCHANGED <<things, events>>

\* A request that reads, or gives up before a write, opens no transaction.
LEMMA ThinkingStep ==
    ASSUME OutboxTypeOK, NEW w \in Writers, Thinking(w)
    PROVE  OutboxTypeOK' /\ ThinkingView(w)
<1>1. PICK x \in {Idle} \cup Checked : txn' = [txn EXCEPT ![w] = x]
  BY DEF Thinking
<1>2. /\ txn' \in [Writers -> {Idle} \cup Checked \cup Open]
      /\ txn'[w] = x
      /\ \A v \in Writers : v # w => txn'[v] = txn[v]
  BY <1>1 DEF OutboxTypeOK
<1>3. x.stage # "open"
  BY Stages
<1>4. UNCHANGED <<things, events>> /\ faults' \in 0..MaxFaults /\ ~Opened(w)
  BY DEF Thinking
<1> QED
  BY <1>2, <1>3, <1>4 DEF OutboxTypeOK, ThinkingView, Opened, events

\* What the end of a transaction does: its event gets the state s.
EndView(w, s) ==
    LET n == txn[w].event IN
    /\ Opened(w)
    /\ ~Opened(w)'
    /\ \A v \in Writers : v # w => txn'[v] = txn[v]
    /\ n \in 1..Len(outbox)
    /\ Len(outbox') = Len(outbox)
    /\ outbox'[n].state = s
    /\ SameEvent(n)
    /\ \A i \in 1..Len(outbox) : i # n => outbox'[i] = outbox[i]
    /\ UNCHANGED <<publishing, processed, stream>>

\* A rollback takes back the events of its transaction and no row.
LEMMA UndoneStep ==
    ASSUME OutboxTypeOK, TransactionsOpen, NEW w \in Writers, Undone(w)
    PROVE  OutboxTypeOK' /\ EndView(w, "rolled back") /\ UNCHANGED things
<1>1. Opened(w) /\ Rollback(w)
  BY DEF Undone
<1>2. txn[w].event \in 1..Len(outbox)
  BY <1>1 DEF TransactionsOpen
<1>3. /\ StateGiven(txn[w].event, "rolled back")
      /\ Fault
      /\ txn' = [txn EXCEPT ![w] = Idle]
      /\ UNCHANGED <<things, publishing, processed, stream>>
  BY <1>1 DEF Rollback, Opened, StateGiven
<1>4. /\ outbox' \in Seq(EventRow)
      /\ Len(outbox') = Len(outbox)
      /\ outbox'[txn[w].event].state = "rolled back"
      /\ SameEvent(txn[w].event)
      /\ \A j \in 1..Len(outbox) : j # txn[w].event => outbox'[j] = outbox[j]
  BY <1>2, <1>3, StateSet
<1>5. /\ txn' \in [Writers -> {Idle} \cup Checked \cup Open]
      /\ txn'[w] = Idle
      /\ \A v \in Writers : v # w => txn'[v] = txn[v]
  BY <1>3 DEF OutboxTypeOK
<1>6. faults' \in 0..MaxFaults
  <2>1. Fault /\ faults \in 0..MaxFaults /\ MaxFaults \in Nat
    BY <1>3, ThingOutboxAssumption DEF OutboxTypeOK
  <2> QED
    BY <2>1 DEF Fault
<1>7. UNCHANGED <<things, publishing, processed, stream>>
  BY <1>3
<1> QED
  BY <1>1, <1>2, <1>4, <1>5, <1>6, <1>7, Stages DEF OutboxTypeOK, EndView, Opened

\* What a commit does to the row.
CommitView(w) ==
    /\ ~txn[w].found => things' = things
    /\ txn[w].found =>
          \A t \in Things : IF t = txn[w].thing THEN Known(t)' = txn[w].doc
                            ELSE things'[t] = things[t]

\* A commit publishes the events of its transaction and writes its row.
LEMMA CommitStep ==
    ASSUME OutboxTypeOK, TransactionsOpen, NEW w \in Writers, Commit(w)
    PROVE  OutboxTypeOK' /\ EndView(w, "pending") /\ CommitView(w)
<1>1. Opened(w)
  BY DEF Commit, Opened
<1>2. txn[w].event \in 1..Len(outbox)
  BY <1>1 DEF TransactionsOpen
<1> DEFINE x == txn[w]
           row == IF x.doc = Absent THEN Absent ELSE [doc |-> x.doc, origin |-> x.origin]
<1>3. /\ StateGiven(x.event, "pending")
      /\ txn' = [txn EXCEPT ![w] = Idle]
      /\ things' = IF ~x.found THEN things ELSE [things EXCEPT ![x.thing] = row]
      /\ UNCHANGED <<publishing, processed, stream, faults>>
  BY DEF Commit, StateGiven
<1>4. /\ outbox' \in Seq(EventRow)
      /\ Len(outbox') = Len(outbox)
      /\ outbox'[x.event].state = "pending"
      /\ SameEvent(x.event)
      /\ \A j \in 1..Len(outbox) : j # x.event => outbox'[j] = outbox[j]
  BY <1>2, <1>3, StateSet
<1>5. /\ txn' \in [Writers -> {Idle} \cup Checked \cup Open]
      /\ txn'[w] = Idle
      /\ \A v \in Writers : v # w => txn'[v] = txn[v]
  BY <1>3 DEF OutboxTypeOK
<1>6. /\ x.thing \in Things
      /\ x.doc \in Document \cup {Absent}
      /\ x.origin \in Origins \cup {Manual}
      /\ x.found \in BOOLEAN
  BY <1>1, OpenFields
<1>7. /\ row \in Row \cup {Absent}
      /\ (IF row = Absent THEN Absent ELSE row.doc) = x.doc
  <2>1. CASE x.doc = Absent
    BY <2>1
  <2>2. CASE x.doc # Absent
    <3>1. [doc |-> x.doc, origin |-> x.origin] \in Row
      BY <1>6, <2>2 DEF Row
    <3>2. row = [doc |-> x.doc, origin |-> x.origin]
      BY <2>2
    <3>3. row # Absent
      BY <3>1, <3>2, ThingOutboxAssumption
    <3> QED
      BY <3>1, <3>2, <3>3
  <2> QED
    BY <2>1, <2>2
<1>8. things \in [Things -> Row \cup {Absent}]
  BY DEF OutboxTypeOK
<1> HIDE DEF row
<1>9. things' \in [Things -> Row \cup {Absent}]
  BY <1>3, <1>6, <1>7, <1>8
<1>10. CommitView(w)
  <2>1. CASE ~x.found
    BY <1>3, <2>1 DEF CommitView
  <2>2. CASE x.found
    <3>1. things' = [things EXCEPT ![x.thing] = row]
      BY <1>3, <2>2
    <3>2. /\ things'[x.thing] = row
          /\ \A t \in Things : t # x.thing => things'[t] = things[t]
      BY <1>6, <1>8, <3>1
    <3>3. ASSUME NEW t \in Things, t = x.thing PROVE Known(t)' = x.doc
      BY <1>7, <3>2, <3>3 DEF Known
    <3> QED
      BY <2>2, <3>2, <3>3 DEF CommitView
  <2> QED
    BY <2>1, <2>2
<1>11. EndView(w, "pending")
  BY <1>1, <1>2, <1>3, <1>4, <1>5, Stages DEF EndView, Opened
<1>12. OutboxTypeOK'
  BY <1>3, <1>4, <1>5, <1>9 DEF OutboxTypeOK
<1> QED
  BY <1>10, <1>11, <1>12

(***************************************************************************)
(* What the steps of publishers do                                         *)
(***************************************************************************)
\* Nothing commits, and no row changes.
Quiet ==
    /\ things' = things
    /\ Committed' = Committed
    /\ \A i \in Committed : SameEvent(i)

\* The entries of the stream stay.
StreamKept ==
    /\ Len(stream) <= Len(stream')
    /\ \A e \in 1..Len(stream) : stream'[e] = stream[e]

\* Events that have not committed are left alone.
OpenKept ==
    /\ Len(outbox') = Len(outbox)
    /\ \A i \in 1..Len(outbox) : outbox[i].state = "open" => outbox'[i] = outbox[i]

Publishing == [row : 0..MaxEvents, sent : BOOLEAN]

\* What a publisher has in its hands next.
Holds(p, row, sent) ==
    /\ publishing'[p].row = row
    /\ publishing'[p].sent = sent
    /\ \A q \in Publishers : q # p => publishing'[q] = publishing[q]

PublishingGiven(p, r) == publishing' = [publishing EXCEPT ![p] = r]

\* Changing what a publisher holds leaves the others.
LEMMA PublishingSet ==
    ASSUME OutboxTypeOK, NEW p \in Publishers, NEW r \in Publishing, PublishingGiven(p, r)
    PROVE  publishing' \in [Publishers -> Publishing] /\ Holds(p, r.row, r.sent)
<1>1. publishing \in [Publishers -> Publishing]
  BY DEF OutboxTypeOK, Publishing
<1>2. /\ publishing' \in [Publishers -> Publishing]
      /\ publishing'[p] = r
      /\ \A q \in Publishers : q # p => publishing'[q] = publishing[q]
  BY <1>1 DEF PublishingGiven
<1> QED
  BY <1>2 DEF Holds

\* A publisher that lets its row go.
LEMMA ReleasedHolds ==
    ASSUME OutboxTypeOK, NEW p \in Publishers, publishing' = Released(p)
    PROVE  publishing' \in [Publishers -> Publishing] /\ Holds(p, None, FALSE)
<1>1. PICK r : r = [row |-> None, sent |-> FALSE]
  OBVIOUS
<1>2. r \in Publishing /\ r.row = None /\ r.sent = FALSE
  BY <1>1, ThingOutboxAssumption DEF Publishing, None
<1>3. PublishingGiven(p, r)
  BY <1>1 DEF Released, PublishingGiven
<1> QED
  BY <1>2, <1>3, PublishingSet

\* The committed events are events.
LEMMA CommittedIn ==
    ASSUME OutboxTypeOK
    PROVE  /\ Len(outbox) \in Nat
           /\ Committed \subseteq 1..Len(outbox)
           /\ Committed \subseteq 1..MaxEvents
           /\ Committed \subseteq Nat
           /\ \A i \in 1..Len(outbox) :
                 /\ outbox[i] \in EventRow
                 /\ i \in Committed <=> outbox[i].state \in {"pending", "published"}
<1>1. outbox \in Seq(EventRow) /\ Len(outbox) <= MaxEvents /\ MaxEvents \in Nat
  BY ThingOutboxAssumption DEF OutboxTypeOK
<1>2. \A i \in 1..Len(outbox) : outbox[i] \in EventRow
  BY <1>1, ElementOfSeq
<1>3. Len(outbox) \in Nat /\ DOMAIN outbox = 1..Len(outbox)
  BY <1>1, LenProperties
<1>4. Committed \subseteq 1..Len(outbox)
  BY <1>3 DEF Committed
<1>5. 1..Len(outbox) \subseteq 1..MaxEvents /\ 1..Len(outbox) \subseteq Nat
  BY <1>1, <1>3
<1> QED
  BY <1>2, <1>3, <1>4, <1>5 DEF Committed

\* An event that commits, or is rolled back, or is published: the others keep their places.
LEMMA OneEventSet ==
    ASSUME OutboxTypeOK, OutboxTypeOK', NEW n \in 1..Len(outbox), Len(outbox') = Len(outbox),
           \A i \in 1..Len(outbox) : i # n => outbox'[i] = outbox[i]
    PROVE  /\ outbox'[n].state \in {"pending", "published"} => Committed' = Committed \cup {n}
           /\ outbox'[n].state = "rolled back" => Committed' = Committed \ {n}
<1>1. /\ Len(outbox) \in Nat
      /\ Committed \subseteq 1..Len(outbox)
      /\ \A i \in 1..Len(outbox) :
            i \in Committed <=> outbox[i].state \in {"pending", "published"}
  BY CommittedIn
<1>2. outbox' \in Seq(EventRow)
  BY DEF OutboxTypeOK
<1>3. DOMAIN outbox' = 1..Len(outbox)
  BY <1>2, LenProperties
<1>4. \A i : i \in Committed' <=>
            i \in 1..Len(outbox) /\ outbox'[i].state \in {"pending", "published"}
  BY <1>3 DEF Committed
<1> QED
  BY <1>1, <1>4

\* Steps that leave the outbox alone.
LEMMA OutboxSame ==
    ASSUME OutboxTypeOK, UNCHANGED <<things, outbox>>
    PROVE  Quiet /\ OpenKept
<1>1. Committed' = Committed
  BY DEF Committed
<1> QED
  BY <1>1 DEF Quiet, OpenKept, SameEvent

\* What a publisher holds has committed.
HeldCommitted ==
    \A p \in Publishers :
        /\ publishing[p].row # None => publishing[p].row \in Committed
        /\ publishing[p].sent => publishing[p].row # None

StreamCommitted == \A e \in 1..Len(stream) : stream[e] \in Committed

PublisherStepOf(p) == Publisher(p) \/ PublishFails(p) \/ PublisherStops(p)

\* A publisher moves events that committed, and nothing of the catalog.
LEMMA PublisherStep ==
    ASSUME OutboxTypeOK, PublishedCommitted, NEW p \in Publishers, PublisherStepOf(p)
    PROVE  /\ OutboxTypeOK'
           /\ UNCHANGED catalog
           /\ Quiet /\ OpenKept /\ StreamKept
           /\ HeldCommitted' /\ StreamCommitted'
<1>1. /\ outbox \in Seq(EventRow) /\ Len(outbox) <= MaxEvents
      /\ publishing \in [Publishers -> Publishing]
      /\ processed \in [Publishers -> SUBSET (1..MaxEvents)]
      /\ stream \in Seq(1..MaxEvents)
      /\ faults \in 0..MaxFaults
      /\ publishing[p] \in Publishing
      /\ MaxEvents \in Nat /\ MaxFaults \in Nat
  BY ThingOutboxAssumption DEF OutboxTypeOK, Publishing
<1>2. /\ Len(outbox) \in Nat
      /\ Committed \subseteq 1..Len(outbox) /\ Committed \subseteq 1..MaxEvents
      /\ \A i \in 1..Len(outbox) :
            i \in Committed <=> outbox[i].state \in {"pending", "published"}
  BY CommittedIn
<1>3. HeldCommitted /\ StreamCommitted
  BY DEF PublishedCommitted, HeldCommitted, StreamCommitted
\* It is enough to know what becomes of what is held, of the stream and of the outbox.
<1>4. ASSUME UNCHANGED <<catalog, outbox, stream>>, faults' \in 0..MaxFaults,
             processed' \in [Publishers -> SUBSET (1..MaxEvents)],
             publishing' \in [Publishers -> Publishing],
             NEW row, NEW sent, Holds(p, row, sent),
             row # None => row \in Committed, sent => row # None
      PROVE  /\ OutboxTypeOK'
             /\ UNCHANGED catalog
             /\ Quiet /\ OpenKept /\ StreamKept
             /\ HeldCommitted' /\ StreamCommitted'
  <2>1. UNCHANGED <<things, txn, outbox, stream>>
    BY <1>4 DEF catalog
  <2>2. OutboxTypeOK'
    BY <1>1, <1>4, <2>1 DEF OutboxTypeOK, Publishing
  <2>3. Quiet /\ OpenKept
    BY <2>1, OutboxSame
  <2>4. StreamKept
    BY <1>1, <2>1, LenProperties DEF StreamKept
  <2>5. HeldCommitted'
    BY <1>3, <1>4, <2>3 DEF HeldCommitted, Holds, Quiet
  <2>6. StreamCommitted'
    BY <1>3, <2>1, <2>3 DEF StreamCommitted, Quiet
  <2> QED
    BY <1>4, <2>2, <2>3, <2>4, <2>5, <2>6
<1>5. CASE Claim(p)
  <2>1. /\ Claimable(p) # {}
        /\ publishing' = [publishing EXCEPT ![p].row = Oldest(Claimable(p))]
        /\ processed' = [processed EXCEPT ![p] = @ \cup {Oldest(Claimable(p))}]
        /\ UNCHANGED <<catalog, outbox, stream, faults>>
        /\ publishing[p].row = None
    BY <1>5 DEF Claim
  <2>2. Claimable(p) \subseteq Committed
    BY DEF Claimable, Committed
  <2>3. Claimable(p) \subseteq Nat
    BY <2>2, CommittedIn
  <2>4. PICK i : i = Oldest(Claimable(p))
    OBVIOUS
  <2>5. i \in Committed
    BY <2>1, <2>2, <2>3, <2>4, OldestIn
  <2>e. i \in 1..MaxEvents /\ i \in 0..MaxEvents
    BY <1>1, <1>2, <2>5
  <2>6. PICK r : r = [publishing[p] EXCEPT !.row = i]
    OBVIOUS
  <2>7. r \in Publishing /\ r.row = i /\ r.sent = publishing[p].sent
    BY <1>1, <2>e, <2>6 DEF Publishing
  <2>8. PublishingGiven(p, r)
    BY <2>1, <2>4, <2>6 DEF PublishingGiven
  <2>9. publishing' \in [Publishers -> Publishing] /\ Holds(p, i, publishing[p].sent)
    BY <2>7, <2>8, PublishingSet
  <2>10. processed' \in [Publishers -> SUBSET (1..MaxEvents)]
    <3>1. processed' = [processed EXCEPT ![p] = @ \cup {i}]
      BY <2>1, <2>4
    <3> QED
      BY <1>1, <2>e, <3>1
  <2>11. ~publishing[p].sent /\ i # None
    BY <1>1, <1>3, <2>1, <2>e DEF HeldCommitted, Publishing, None
  <2>12. UNCHANGED <<catalog, outbox, stream>> /\ faults' \in 0..MaxFaults
    BY <1>1, <2>1
  <2> QED
    BY <1>4, <2>5, <2>9, <2>10, <2>11, <2>12
<1>6. CASE BatchOver(p)
  <2>1. /\ UNCHANGED <<catalog, outbox, publishing, stream, faults>>
        /\ processed' = [processed EXCEPT ![p] = {}]
    BY <1>6 DEF BatchOver
  <2>2. /\ processed' \in [Publishers -> SUBSET (1..MaxEvents)]
        /\ publishing' \in [Publishers -> Publishing]
        /\ faults' \in 0..MaxFaults
    BY <1>1, <2>1
  <2>3. Holds(p, publishing[p].row, publishing[p].sent)
    BY <2>1 DEF Holds
  <2>4. /\ publishing[p].row # None => publishing[p].row \in Committed
        /\ publishing[p].sent => publishing[p].row # None
    BY <1>3 DEF HeldCommitted
  <2> QED
    BY <1>4, <2>1, <2>2, <2>3, <2>4
<1>7. CASE PublishFails(p) \/ PublisherStops(p)
  <2>1. /\ UNCHANGED <<catalog, outbox, stream>>
        /\ publishing' = Released(p)
        /\ Fault
        /\ processed' = processed \/ processed' = [processed EXCEPT ![p] = {}]
    BY <1>7 DEF PublishFails, PublisherStops
  <2>2. processed' \in [Publishers -> SUBSET (1..MaxEvents)]
    BY <1>1, <2>1
  <2>3. publishing' \in [Publishers -> Publishing] /\ Holds(p, None, FALSE)
    BY <2>1, ReleasedHolds
  <2>4. faults' \in 0..MaxFaults
    <3>1. Fault
      BY <2>1
    <3> QED
      BY <1>1, <3>1 DEF Fault
  <2> QED
    BY <1>4, <2>1, <2>2, <2>3, <2>4
<1>8. CASE Publish(p)
  <2>1. /\ UNCHANGED <<catalog, outbox, processed, faults>>
        /\ publishing[p].row # None
        /\ stream' = Append(stream, publishing[p].row)
        /\ publishing' = [publishing EXCEPT ![p].sent = TRUE]
    BY <1>8 DEF Publish
  <2>2. publishing[p].row \in Committed /\ publishing[p].row \in 1..MaxEvents
    BY <1>2, <1>3, <2>1 DEF HeldCommitted
  <2>3. /\ stream' \in Seq(1..MaxEvents)
        /\ Len(stream') = Len(stream) + 1
        /\ Len(stream) \in Nat
        /\ stream'[Len(stream) + 1] = publishing[p].row
        /\ \A e \in 1..Len(stream) : stream'[e] = stream[e]
    BY <1>1, <2>1, <2>2
  <2>4. PICK r : r = [publishing[p] EXCEPT !.sent = TRUE]
    OBVIOUS
  <2>5. r \in Publishing /\ r.row = publishing[p].row /\ r.sent = TRUE
    BY <1>1, <2>4 DEF Publishing
  <2>6. PublishingGiven(p, r)
    BY <2>1, <2>4 DEF PublishingGiven
  <2>7. publishing' \in [Publishers -> Publishing] /\ Holds(p, publishing[p].row, TRUE)
    BY <2>5, <2>6, PublishingSet
  <2>8. UNCHANGED <<things, txn, outbox>>
    BY <2>1 DEF catalog
  <2>9. Quiet /\ OpenKept
    BY <2>8, OutboxSame
  <2>10. StreamKept
    BY <2>3 DEF StreamKept
  <2>11. HeldCommitted'
    BY <1>3, <2>1, <2>2, <2>7, <2>9 DEF HeldCommitted, Holds, Quiet
  <2>12. StreamCommitted'
    <3>1. ASSUME NEW e \in 1..Len(stream') PROVE stream'[e] \in Committed
      <4>1. e \in 1..Len(stream) \/ e = Len(stream) + 1
        BY <2>3, <3>1
      <4> QED
        BY <1>3, <2>2, <2>3, <4>1 DEF StreamCommitted
    <3> QED
      BY <3>1, <2>9 DEF StreamCommitted, Quiet
  <2>13. OutboxTypeOK'
    BY <1>1, <2>1, <2>3, <2>7, <2>8 DEF OutboxTypeOK, Publishing
  <2> QED
    BY <2>1, <2>9, <2>10, <2>11, <2>12, <2>13
<1>9. CASE MarkPublished(p)
  <2>1. /\ UNCHANGED <<catalog, processed, stream, faults>>
        /\ publishing[p].sent
        /\ StateGiven(publishing[p].row, "published")
        /\ publishing' = Released(p)
    BY <1>9 DEF MarkPublished, StateGiven
  <2>2. publishing[p].row \in Committed /\ publishing[p].row \in 1..Len(outbox)
    BY <1>2, <1>3, <2>1 DEF HeldCommitted
  <2>3. publishing' \in [Publishers -> Publishing] /\ Holds(p, None, FALSE)
    BY <2>1, ReleasedHolds
  <2>4. /\ outbox' \in Seq(EventRow)
        /\ Len(outbox') = Len(outbox)
        /\ outbox'[publishing[p].row].state = "published"
        /\ SameEvent(publishing[p].row)
        /\ \A j \in 1..Len(outbox) : j # publishing[p].row => outbox'[j] = outbox[j]
    BY <2>1, <2>2, StateSet
  <2>5. UNCHANGED <<things, txn>>
    BY <2>1 DEF catalog
  <2>6. OutboxTypeOK'
    BY <1>1, <2>1, <2>3, <2>4, <2>5 DEF OutboxTypeOK, Publishing
  <2>7. Committed' = Committed
    BY <2>2, <2>4, <2>6, OneEventSet
  <2>8. Quiet
    BY <1>2, <2>4, <2>5, <2>7 DEF Quiet, SameEvent
  <2>9. OpenKept
    BY <1>2, <2>2, <2>4 DEF OpenKept
  <2>10. StreamKept /\ StreamCommitted'
    BY <1>1, <1>3, <2>1, <2>7, LenProperties DEF StreamKept, StreamCommitted
  <2>11. HeldCommitted'
    BY <1>3, <2>3, <2>7 DEF HeldCommitted, Holds
  <2> QED
    BY <2>1, <2>6, <2>8, <2>9, <2>10, <2>11
<1> QED
  BY <1>5, <1>6, <1>7, <1>8, <1>9 DEF PublisherStepOf, Publisher

(***************************************************************************)
(* The events that committed tell the catalog                              *)
(***************************************************************************)
\* The part of the invariant that is about the catalog and its events.
Told == TransactionsOpen /\ OneWriter /\ WritersAhead /\ CatalogTold /\ KnownSaid

\* A step in which nothing commits leaves what has been said.
LEMMA QuietSaid ==
    ASSUME OutboxTypeOK, Quiet
    PROVE  /\ \A t : About(t)' = About(t) /\ Found(t)' = Found(t) /\ Known(t)' = Known(t)
           /\ Said' = Said
           /\ CatalogTold => CatalogTold'
           /\ KnownSaid => KnownSaid'
<1>1. ASSUME NEW t
      PROVE  /\ About(t)' = About(t)
             /\ Found(t)' = Found(t)
             /\ Known(t)' = Known(t)
             /\ {outbox[i].doc : i \in About(t)}' = {outbox[i].doc : i \in About(t)}
  <2>1. About(t)' = About(t)
    BY DEF Quiet, About, SameEvent
  <2>2. About(t) \subseteq Committed
    BY DEF About
  <2>3. \A i \in About(t) : outbox'[i].found = outbox[i].found /\ outbox'[i].doc = outbox[i].doc
    BY <2>2 DEF Quiet, SameEvent
  <2>4. Found(t)' = Found(t)
    BY <2>1, <2>3 DEF Found
  <2>5. {outbox[i].doc : i \in About(t)}' = {outbox[i].doc : i \in About(t)}
    BY <2>1, <2>3
  <2>6. Known(t)' = Known(t)
    BY DEF Quiet, Known
  <2> QED
    BY <2>1, <2>4, <2>5, <2>6
<1>2. Said' = Said
  BY <1>1 DEF Said
<1>3. ASSUME CatalogTold PROVE CatalogTold'
  <2>1. \A t \in Things : \A n \in Found(t) : outbox'[n].doc = outbox[n].doc
    BY DEF Quiet, SameEvent, Found, About
  <2>2. \A t : Found(t)' = Found(t) /\ Known(t)' = Known(t)
    BY <1>1
  <2>3. things' = things
    BY DEF Quiet
  <2> QED
    BY <1>3, <2>1, <2>2, <2>3 DEF CatalogTold
<1>4. ASSUME KnownSaid PROVE KnownSaid'
  BY <1>1, <1>2, <1>4 DEF KnownSaid
<1> QED
  BY <1>1, <1>2, <1>3, <1>4

\* A transaction that writes.
LEMMA WritingTold ==
    ASSUME OutboxTypeOK, Told, NEW w \in Writers, WritingView(w), OutboxTypeOK'
    PROVE  Told' /\ Quiet
<1> DEFINE n == Len(outbox) + 1
<1>1. /\ ~Opened(w)
      /\ Opened(w)'
      /\ txn'[w].event = n
      /\ txn'[w].found => ~Locked(txn'[w].thing)
      /\ \A v \in Writers : v # w => txn'[v] = txn[v]
      /\ Len(outbox') = n
      /\ \A i \in 1..Len(outbox) : outbox'[i] = outbox[i]
      /\ outbox'[n].state = "open"
      /\ outbox'[n].thing = txn'[w].thing
      /\ outbox'[n].doc = txn'[w].doc
      /\ outbox'[n].found = txn'[w].found
      /\ things' = things
  BY DEF WritingView
<1>2. /\ Len(outbox) \in Nat
      /\ Committed \subseteq 1..Len(outbox)
      /\ \A i \in 1..Len(outbox) :
            i \in Committed <=> outbox[i].state \in {"pending", "published"}
  BY CommittedIn
<1>3. Committed' = Committed
  <2>1. outbox' \in Seq(EventRow)
    BY DEF OutboxTypeOK
  <2>2. DOMAIN outbox' = 1..n
    BY <1>1, <2>1, LenProperties
  <2>3. \A i : i \in Committed' <=>
              i \in 1..n /\ outbox'[i].state \in {"pending", "published"}
    BY <2>2 DEF Committed
  <2>4. \A i : i \in 1..n <=> i \in 1..Len(outbox) \/ i = n
    BY <1>2
  <2> QED
    BY <1>1, <1>2, <2>3, <2>4
<1>4. Quiet
  BY <1>1, <1>2, <1>3 DEF Quiet, SameEvent
<1>5. TransactionsOpen /\ OneWriter /\ WritersAhead
  BY DEF Told
<1>6. \A v \in Writers : v # w => (Opened(v)' <=> Opened(v))
  BY <1>1 DEF Opened
<1>7. TransactionsOpen'
  <2>1. ASSUME NEW v \in Writers, v # w, Opened(v)
        PROVE  /\ txn[v].event \in 1..Len(outbox)
               /\ txn[v].event \in 1..n
               /\ txn[v].event # n
    <3>1. txn[v].event \in 1..Len(outbox)
      BY <1>5, <2>1 DEF TransactionsOpen
    <3> QED
      BY <1>2, <3>1
  <2>2. ASSUME NEW v \in Writers, Opened(v)'
        PROVE  /\ txn'[v].event \in 1..Len(outbox')
               /\ outbox'[txn'[v].event].state = "open"
               /\ outbox'[txn'[v].event].thing = txn'[v].thing
               /\ outbox'[txn'[v].event].doc = txn'[v].doc
               /\ outbox'[txn'[v].event].found = txn'[v].found
    <3>1. CASE v = w
      <4>1. n \in 1..n
        BY <1>2
      <4> QED
        BY <1>1, <3>1, <4>1
    <3>2. CASE v # w
      <4>1. Opened(v) /\ txn'[v] = txn[v]
        BY <1>1, <1>6, <2>2, <3>2
      <4>2. /\ txn[v].event \in 1..Len(outbox)
            /\ txn[v].event \in 1..n
        BY <2>1, <3>2, <4>1
      <4>3. outbox'[txn[v].event] = outbox[txn[v].event]
        BY <1>1, <4>2
      <4> QED
        BY <1>1, <1>5, <4>1, <4>2, <4>3 DEF TransactionsOpen
    <3> QED
      BY <3>1, <3>2
  <2>3. ASSUME NEW u \in Writers, NEW v \in Writers, u # v, Opened(u)', Opened(v)'
        PROVE  txn'[u].event # txn'[v].event
    BY <1>1, <1>5, <1>6, <2>1, <2>3 DEF TransactionsOpen
  <2> QED
    BY <2>2, <2>3 DEF TransactionsOpen
<1>8. OneWriter'
  <2>1. ASSUME NEW v \in Writers, v # w, Opened(v), txn[v].found, txn'[w].found
        PROVE  txn[v].thing # txn'[w].thing
    BY <1>1, <2>1 DEF Locked, Opened
  <2> QED
    BY <1>1, <1>5, <1>6, <2>1 DEF OneWriter
<1>9. WritersAhead'
  <2>1. \A t : Found(t)' = Found(t)
    BY <1>4, QuietSaid
  <2>2. \A t : Found(t) \subseteq 1..Len(outbox)
    BY <1>2 DEF Found, About
  <2>3. ASSUME NEW v \in Writers, Opened(v)', txn'[v].found,
               NEW i \in Found(txn'[v].thing)
        PROVE  i < txn'[v].event
    <3>1. CASE v = w
      BY <1>1, <1>2, <2>2, <3>1
    <3>2. CASE v # w
      BY <1>1, <1>5, <1>6, <2>3, <3>2 DEF WritersAhead
    <3> QED
      BY <3>1, <3>2
  <2> QED
    BY <2>1, <2>3 DEF WritersAhead
<1>10. CatalogTold' /\ KnownSaid'
  BY <1>4, QuietSaid DEF Told
<1> QED
  BY <1>4, <1>7, <1>8, <1>9, <1>10 DEF Told

\* A transaction that ends, or a step of no transaction, leaves those that are open.
LEMMA OthersOpen ==
    ASSUME OutboxTypeOK, TransactionsOpen, OneWriter, Len(outbox') = Len(outbox),
           \A v \in Writers : Opened(v)' =>
               /\ Opened(v) /\ txn'[v] = txn[v]
               /\ outbox'[txn[v].event] = outbox[txn[v].event]
    PROVE  TransactionsOpen' /\ OneWriter'
<1>1. TransactionsOpen'
  BY DEF TransactionsOpen
<1>2. OneWriter'
  BY DEF OneWriter
<1> QED
  BY <1>1, <1>2

\* If nothing commits either, everything is told as before.
LEMMA QuietTold ==
    ASSUME OutboxTypeOK, Told, Quiet, Len(outbox') = Len(outbox),
           \A v \in Writers : Opened(v)' =>
               /\ Opened(v) /\ txn'[v] = txn[v]
               /\ outbox'[txn[v].event] = outbox[txn[v].event]
    PROVE  Told'
<1>1. TransactionsOpen /\ OneWriter /\ WritersAhead /\ CatalogTold /\ KnownSaid
  BY DEF Told
<1>2. TransactionsOpen' /\ OneWriter'
  BY <1>1, OthersOpen
<1>3. \A t : Found(t)' = Found(t)
  BY QuietSaid
<1>4. WritersAhead'
  BY <1>1, <1>3 DEF WritersAhead
<1>5. CatalogTold' /\ KnownSaid'
  BY <1>1, QuietSaid
<1> QED
  BY <1>2, <1>4, <1>5 DEF Told

\* A transaction that is rolled back announces nothing.
LEMMA UndoneTold ==
    ASSUME OutboxTypeOK, OutboxTypeOK', Told, NEW w \in Writers,
           EndView(w, "rolled back"), UNCHANGED things
    PROVE  Told' /\ Quiet
<1> DEFINE n == txn[w].event
<1>1. /\ Opened(w)
      /\ ~Opened(w)'
      /\ \A v \in Writers : v # w => txn'[v] = txn[v]
      /\ n \in 1..Len(outbox)
      /\ Len(outbox') = Len(outbox)
      /\ outbox'[n].state = "rolled back"
      /\ SameEvent(n)
      /\ \A i \in 1..Len(outbox) : i # n => outbox'[i] = outbox[i]
  BY DEF EndView
<1>2. TransactionsOpen
  BY DEF Told
<1>3. outbox[n].state = "open"
  BY <1>1, <1>2 DEF TransactionsOpen
<1>4. /\ Committed \subseteq 1..Len(outbox)
      /\ n \notin Committed
  BY <1>1, <1>3, CommittedIn
<1>5. Committed' = Committed
  BY <1>1, <1>4, OneEventSet
<1>6. Quiet
  BY <1>1, <1>4, <1>5 DEF Quiet, SameEvent
<1>7. ASSUME NEW v \in Writers, Opened(v)'
      PROVE  /\ Opened(v) /\ txn'[v] = txn[v]
             /\ outbox'[txn[v].event] = outbox[txn[v].event]
  <2>1. v # w /\ txn'[v] = txn[v]
    BY <1>1, <1>7
  <2>2. Opened(v)
    BY <1>7, <2>1 DEF Opened
  <2>3. txn[v].event \in 1..Len(outbox) /\ txn[v].event # n
    BY <1>1, <1>2, <2>1, <2>2 DEF TransactionsOpen
  <2> QED
    BY <1>1, <2>1, <2>2, <2>3
<1> QED
  BY <1>1, <1>6, <1>7, QuietTold

\* What a commit adds to what has been said.
CommitSays(t, d) ==
    Said' = [Said EXCEPT ![t] = @ \cup {d}]

\* After a commit the newest event of its Thing tells the row.
LEMMA CommitTold ==
    ASSUME OutboxTypeOK, OutboxTypeOK', Told, NEW w \in Writers,
           EndView(w, "pending"), CommitView(w)
    PROVE  /\ Told'
           /\ Committed \subseteq Committed'
           /\ CommitSays(txn[w].thing, txn[w].doc)
<1> DEFINE x == txn[w]
           n == txn[w].event
<1>1. /\ Opened(w)
      /\ ~Opened(w)'
      /\ \A v \in Writers : v # w => txn'[v] = txn[v]
      /\ n \in 1..Len(outbox)
      /\ Len(outbox') = Len(outbox)
      /\ outbox'[n].state = "pending"
      /\ SameEvent(n)
      /\ \A i \in 1..Len(outbox) : i # n => outbox'[i] = outbox[i]
  BY DEF EndView
<1>2. TransactionsOpen /\ OneWriter /\ WritersAhead /\ CatalogTold /\ KnownSaid
  BY DEF Told
<1>3. /\ outbox[n].state = "open" /\ outbox[n].thing = x.thing
      /\ outbox[n].doc = x.doc /\ outbox[n].found = x.found
  BY <1>1, <1>2 DEF TransactionsOpen
<1>4. /\ Committed \subseteq 1..Len(outbox)
      /\ n \notin Committed
  BY <1>1, <1>3, CommittedIn
<1>5. Committed' = Committed \cup {n}
  BY <1>1, OneEventSet
<1>6. \A i \in 1..Len(outbox) : SameEvent(i)
  BY <1>1 DEF SameEvent
<1>7. x.thing \in Things /\ x.found \in BOOLEAN
  BY <1>1, OpenFields
<1>8. \A t : About(t)' = IF t = x.thing THEN About(t) \cup {n} ELSE About(t)
  <2>1. ASSUME NEW t, NEW i
        PROVE  i \in About(t)' <=> i \in About(t) \/ (i = n /\ t = x.thing)
    <3>1. i \in About(t)' <=> (i \in Committed \/ i = n) /\ outbox'[i].thing = t
      BY <1>5 DEF About
    <3>2. i \in About(t) <=> i \in Committed /\ outbox[i].thing = t
      BY DEF About
    <3>3. i \in Committed => outbox'[i].thing = outbox[i].thing
      BY <1>4, <1>6 DEF SameEvent
    <3>4. outbox'[n].thing = x.thing
      BY <1>1, <1>3 DEF SameEvent
    <3> QED
      BY <3>1, <3>2, <3>3, <3>4
  <2> QED
    BY <2>1
<1>9. ASSUME NEW t
      PROVE  /\ Found(t)' = IF t = x.thing /\ x.found THEN Found(t) \cup {n} ELSE Found(t)
             /\ Found(t) \subseteq Committed
  <2>1. Found(t) \subseteq About(t) /\ About(t) \subseteq Committed
    BY DEF Found, About
  <2>2. ASSUME NEW i
        PROVE  i \in Found(t)' <=> i \in Found(t) \/ (i = n /\ t = x.thing /\ x.found)
    <3>1. i \in Found(t)' <=> i \in About(t)' /\ outbox'[i].found
      BY DEF Found
    <3>2. i \in Found(t) <=> i \in About(t) /\ outbox[i].found
      BY DEF Found
    <3>3. i \in About(t) => outbox'[i].found = outbox[i].found
      BY <1>4, <1>6, <2>1 DEF SameEvent
    <3>4. outbox'[n].found = x.found
      BY <1>1, <1>3 DEF SameEvent
    <3>5. i \in About(t)' <=> i \in About(t) \/ (i = n /\ t = x.thing)
      BY <1>8
    <3> QED
      BY <3>1, <3>2, <3>3, <3>4, <3>5
  <2> QED
    BY <2>1, <2>2
<1>10. \A t \in Things : Said'[t] = IF t = x.thing THEN Said[t] \cup {x.doc} ELSE Said[t]
  <2>1. ASSUME NEW t \in Things
        PROVE  Said'[t] = IF t = x.thing THEN Said[t] \cup {x.doc} ELSE Said[t]
    <3>1. Said[t] = {outbox[i].doc : i \in About(t)}
      BY DEF Said
    <3>2. Said'[t] = {outbox'[i].doc : i \in About(t)'}
      BY DEF Said
    <3>3. \A i \in About(t) : outbox'[i].doc = outbox[i].doc
      BY <1>4, <1>6 DEF About, SameEvent
    <3>4. outbox'[n].doc = x.doc
      BY <1>1, <1>3 DEF SameEvent
    <3> QED
      BY <1>8, <3>1, <3>2, <3>3, <3>4
  <2> QED
    BY <2>1
<1>11. CommitSays(x.thing, x.doc)
  <2>1. DOMAIN Said = Things /\ DOMAIN Said' = Things
    BY DEF Said
  <2>2. Said = [t \in Things |-> Said[t]] /\ Said' = [t \in Things |-> Said'[t]]
    BY DEF Said
  <2> QED
    BY <1>7, <1>10, <2>1, <2>2 DEF CommitSays
<1>12. ASSUME NEW v \in Writers, Opened(v)'
       PROVE  /\ Opened(v) /\ txn'[v] = txn[v] /\ v # w
              /\ outbox'[txn[v].event] = outbox[txn[v].event]
  <2>1. v # w /\ txn'[v] = txn[v]
    BY <1>1, <1>12
  <2>2. Opened(v)
    BY <1>12, <2>1 DEF Opened
  <2>3. txn[v].event \in 1..Len(outbox) /\ txn[v].event # n
    BY <1>1, <1>2, <2>1, <2>2 DEF TransactionsOpen
  <2> QED
    BY <1>1, <2>1, <2>2, <2>3
<1>13. TransactionsOpen' /\ OneWriter'
  BY <1>1, <1>2, <1>12, OthersOpen
<1>14. WritersAhead'
  <2>1. ASSUME NEW v \in Writers, Opened(v)', txn'[v].found,
               NEW t, t = txn[v].thing, NEW i \in Found(t)'
        PROVE  i < txn'[v].event
    <3>1. Opened(v) /\ txn'[v] = txn[v] /\ v # w /\ txn[v].found
      BY <1>12, <2>1
    <3>2. ~(t = x.thing /\ x.found)
      BY <1>1, <1>2, <2>1, <3>1 DEF OneWriter
    <3>3. i \in Found(t)
      BY <1>9, <2>1, <3>2
    <3>4. i < txn[v].event
      BY <1>2, <2>1, <3>1, <3>3 DEF WritersAhead
    <3> QED
      BY <3>1, <3>4
  <2> QED
    BY <1>12, <2>1 DEF WritersAhead
<1>15. CatalogTold'
  <2>1. ASSUME NEW t \in Things
        PROVE  /\ Found(t)' = {} => things'[t] = Absent
               /\ \A m \in Found(t)' : (\A i \in Found(t)' : i <= m) => Known(t)' = outbox'[m].doc
    <3>1. CASE t = x.thing /\ x.found
      <4>1. Found(t)' = Found(t) \cup {n}
        BY <1>9, <3>1
      <4>2. Known(t)' = x.doc /\ outbox'[n].doc = x.doc
        BY <1>1, <1>3, <3>1 DEF CommitView, SameEvent
      <4>3. \A i \in Found(t) : i < n
        BY <1>1, <1>2, <3>1 DEF WritersAhead
      <4>4. \A i \in Found(t) : i \in Nat
        BY <1>9, CommittedIn
      <4>5. n \in Nat
        BY <1>1, CommittedIn
      <4>6. ASSUME NEW m \in Found(t)', \A i \in Found(t)' : i <= m PROVE m = n
        BY <4>1, <4>3, <4>4, <4>5, <4>6
      <4> QED
        BY <4>1, <4>2, <4>6
    <3>2. CASE ~(t = x.thing /\ x.found)
      <4>1. Found(t)' = Found(t)
        BY <1>9, <3>2
      <4>2. things'[t] = things[t]
        BY <1>7, <3>2 DEF CommitView
      <4>3. Known(t)' = Known(t)
        BY <4>2 DEF Known
      <4>4. \A m \in Found(t) : outbox'[m].doc = outbox[m].doc
        BY <1>4, <1>6, <1>9 DEF SameEvent
      <4> QED
        BY <1>2, <4>1, <4>2, <4>3, <4>4 DEF CatalogTold
    <3> QED
      BY <3>1, <3>2
  <2> QED
    BY <2>1 DEF CatalogTold
<1>16. KnownSaid'
  <2>1. ASSUME NEW t \in Things PROVE Known(t)' \in Said'[t] \cup {Absent}
    <3>1. CASE t = x.thing /\ x.found
      <4>1. Known(t)' = x.doc
        BY <3>1 DEF CommitView
      <4> QED
        BY <1>10, <3>1, <4>1
    <3>2. CASE ~(t = x.thing /\ x.found)
      <4>1. things'[t] = things[t]
        BY <1>7, <3>2 DEF CommitView
      <4>2. Known(t)' = Known(t)
        BY <4>1 DEF Known
      <4> QED
        BY <1>2, <1>10, <4>2 DEF KnownSaid
    <3> QED
      BY <3>1, <3>2
  <2> QED
    BY <2>1 DEF KnownSaid
<1> QED
  BY <1>5, <1>11, <1>13, <1>14, <1>15, <1>16 DEF Told

(***************************************************************************)
(* The consumers                                                           *)
(***************************************************************************)
ConsumersOK ==
    /\ cursor \in [Stores -> 0..Len(stream)]
    /\ pending \in [Stores -> SUBSET Nat]
    /\ batch \in [Stores -> SUBSET Nat]
    /\ applied \in [Stores -> BOOLEAN]
    /\ \A g \in Stores :
          /\ pending[g] \subseteq 1..cursor[g]
          /\ batch[g] \subseteq pending[g]
          /\ applied[g] => batch[g] # {}

ShownOK ==
    /\ index \in [Stores -> Catalog]
    /\ snapshot \in [GraphStores -> {<<>>} \cup {<<c>> : c \in Catalog}]
    /\ disorder \in [Stores -> SUBSET Things]

\* The types, by the parts that the steps of one side leave alone.
LEMMA TypeParts == TypeOK <=> OutboxTypeOK /\ ConsumersOK /\ ShownOK
BY DEF TypeOK, ConsumersOK, ShownOK

\* The entry that a consumer has in its hands announces something that committed.
LEMMA EntrySaid ==
    ASSUME OutboxTypeOK, ConsumersOK, PublishedCommitted, NEW g \in Stores, batch[g] # {}
    PROVE  /\ First(g) \in batch[g]
           /\ First(g) \in Nat
           /\ Event(First(g)).thing \in Things
           /\ Event(First(g)).doc \in Document \cup {Absent}
           /\ Event(First(g)).doc \in Said[Event(First(g)).thing]
<1>1. /\ batch[g] \subseteq Nat /\ batch[g] \subseteq pending[g]
      /\ pending[g] \subseteq 1..cursor[g] /\ cursor[g] \in 0..Len(stream)
  BY DEF ConsumersOK
<1>2. First(g) \in batch[g] /\ First(g) \in Nat
  BY <1>1, OldestIn DEF First
<1>3. Len(stream) \in Nat
  BY DEF OutboxTypeOK
<1>4. First(g) \in 1..Len(stream)
  BY <1>1, <1>2, <1>3
<1>5. stream[First(g)] \in Committed
  BY <1>4 DEF PublishedCommitted
<1> DEFINE i == stream[First(g)]
<1>6. outbox[i] \in EventRow /\ i \in Committed
  BY <1>5, CommittedIn
<1>7. outbox[i].thing \in Things /\ outbox[i].doc \in Document \cup {Absent}
  BY <1>6 DEF EventRow
<1>8. i \in About(outbox[i].thing)
  BY <1>6 DEF About
<1>9. outbox[i].doc \in Said[outbox[i].thing]
  BY <1>7, <1>8 DEF Said
<1> QED
  BY <1>2, <1>7, <1>9 DEF Event

\* What is on the stream names a Thing.
LEMMA EventThing ==
    ASSUME OutboxTypeOK, ConsumersOK, PublishedCommitted, NEW g \in Stores
    PROVE  \A e \in pending[g] : Event(e).thing \in Things
<1>1. ASSUME NEW e \in pending[g] PROVE Event(e).thing \in Things
  <2>1. pending[g] \subseteq 1..cursor[g] /\ cursor[g] \in 0..Len(stream)
    BY DEF ConsumersOK
  <2>2. Len(stream) \in Nat
    BY DEF OutboxTypeOK
  <2>3. e \in 1..Len(stream)
    BY <2>1, <2>2
  <2>4. stream[e] \in Committed
    BY <2>3 DEF PublishedCommitted
  <2>5. outbox[stream[e]] \in EventRow
    BY <2>4, CommittedIn
  <2> QED
    BY <2>5 DEF EventRow, Event
<1> QED
  BY <1>1

\* The stream may have grown since.
LEMMA ConsumersKept ==
    ASSUME OutboxTypeOK, OutboxTypeOK', ConsumersOK, StreamKept, UNCHANGED consumers
    PROVE  ConsumersOK'
<1>1. Len(stream) \in Nat /\ Len(stream') \in Nat /\ Len(stream) <= Len(stream')
  BY DEF OutboxTypeOK, StreamKept
<1>2. UNCHANGED <<cursor, pending, batch, applied>>
  BY DEF consumers
<1>3. \A g \in Stores : cursor[g] \in 0..Len(stream')
  BY <1>1 DEF ConsumersOK
<1>4. cursor' \in [Stores -> 0..Len(stream')]
  BY <1>2, <1>3 DEF ConsumersOK
<1> QED
  BY <1>2, <1>4 DEF ConsumersOK

\* A consumer takes entries, lets them go, or applies one.
LEMMA ConsumerTypes ==
    ASSUME OutboxTypeOK, ConsumersOK, NEW g \in Stores, UNCHANGED stream,
           Consumer(g) \/ EntryFails(g) \/ ConsumerStops(g)
    PROVE  ConsumersOK'
<1>1. /\ cursor \in [Stores -> 0..Len(stream)]
      /\ pending \in [Stores -> SUBSET Nat]
      /\ batch \in [Stores -> SUBSET Nat]
      /\ applied \in [Stores -> BOOLEAN]
      /\ \A h \in Stores :
            /\ pending[h] \subseteq 1..cursor[h]
            /\ batch[h] \subseteq pending[h]
            /\ applied[h] => batch[h] # {}
      /\ Len(stream) \in Nat
  BY DEF ConsumersOK, OutboxTypeOK
\* It is enough to know what becomes of what this consumer has.
<1>2. ASSUME NEW c \in 0..Len(stream), NEW p \in SUBSET (1..c), NEW b \in SUBSET p,
             NEW a \in BOOLEAN, a => b # {},
             cursor' = [cursor EXCEPT ![g] = c], pending' = [pending EXCEPT ![g] = p],
             batch' = [batch EXCEPT ![g] = b], applied' = [applied EXCEPT ![g] = a]
      PROVE  ConsumersOK'
  <2>1. p \in SUBSET Nat /\ b \in SUBSET Nat
    BY <1>1
  <2>2. /\ cursor' \in [Stores -> 0..Len(stream)]
        /\ pending' \in [Stores -> SUBSET Nat]
        /\ batch' \in [Stores -> SUBSET Nat]
        /\ applied' \in [Stores -> BOOLEAN]
    BY <1>1, <1>2, <2>1
  <2>3. /\ cursor'[g] = c /\ pending'[g] = p /\ batch'[g] = b /\ applied'[g] = a
        /\ \A h \in Stores : h # g =>
              /\ cursor'[h] = cursor[h] /\ pending'[h] = pending[h]
              /\ batch'[h] = batch[h] /\ applied'[h] = applied[h]
    BY <1>1, <1>2
  <2>4. \A h \in Stores :
            /\ pending'[h] \subseteq 1..cursor'[h]
            /\ batch'[h] \subseteq pending'[h]
            /\ applied'[h] => batch'[h] # {}
    BY <1>1, <1>2, <2>3
  <2> QED
    BY <2>2, <2>4 DEF ConsumersOK
<1>3. /\ cursor = [cursor EXCEPT ![g] = cursor[g]]
      /\ pending = [pending EXCEPT ![g] = pending[g]]
      /\ batch = [batch EXCEPT ![g] = batch[g]]
      /\ applied = [applied EXCEPT ![g] = applied[g]]
      /\ cursor[g] \in 0..Len(stream)
      /\ pending[g] \in SUBSET (1..cursor[g])
      /\ batch[g] \in SUBSET pending[g]
      /\ applied[g] \in BOOLEAN
      /\ applied[g] => batch[g] # {}
  BY <1>1
<1>4. CASE ClaimStale(g)
  <2>1. PICK stale \in SUBSET pending[g] \ {{}} :
            /\ batch' = [batch EXCEPT ![g] = stale]
            /\ UNCHANGED <<cursor, pending, applied>>
    BY <1>4 DEF ClaimStale, Takes
  <2>2. batch[g] = {}
    BY <1>4 DEF ClaimStale
  <2>3. stale \in SUBSET pending[g]
    BY <2>1
  <2> QED
    BY <1>2, <1>3, <2>1, <2>2, <2>3
<1>5. CASE ReadNew(g)
  <2> DEFINE last  == IF cursor[g] + BatchSize < Len(stream) THEN cursor[g] + BatchSize
                      ELSE Len(stream)
             fresh == (cursor[g] + 1)..last
  <2>1. /\ batch[g] = {}
        /\ batch' = [batch EXCEPT ![g] = fresh]
        /\ applied' = applied
        /\ cursor' = [cursor EXCEPT ![g] = last]
        /\ pending' = [pending EXCEPT ![g] = pending[g] \cup fresh]
    BY <1>5 DEF ReadNew, Takes
  <2>2. BatchSize \in Nat
    BY ThingIndexesAssumption
  <2>3. last \in 0..Len(stream) /\ cursor[g] <= last
    BY <1>1, <1>3, <2>2
  <2>4. fresh \subseteq 1..last
    BY <1>1, <1>3, <2>3
  <2>5. 1..cursor[g] \subseteq 1..last
    BY <1>1, <1>3, <2>3
  <2> HIDE DEF last, fresh
  <2>6. pending[g] \cup fresh \in SUBSET (1..last)
    BY <1>3, <2>4, <2>5
  <2>7. fresh \in SUBSET (pending[g] \cup fresh)
    OBVIOUS
  <2>8. applied[g] => fresh # {}
    BY <1>3, <2>1
  <2> QED
    BY <1>2, <1>3, <2>1, <2>3, <2>6, <2>7, <2>8
<1>6. CASE Apply(g)
  <2>1. /\ batch[g] # {}
        /\ applied' = [applied EXCEPT ![g] = TRUE]
        /\ UNCHANGED <<cursor, pending, batch>>
    BY <1>6 DEF Apply
  <2> QED
    BY <1>2, <1>3, <2>1
<1>7. CASE Acknowledge(g)
  <2>1. /\ pending' = [pending EXCEPT ![g] = pending[g] \ {First(g)}]
        /\ batch' = [batch EXCEPT ![g] = batch[g] \ {First(g)}]
        /\ applied' = [applied EXCEPT ![g] = FALSE]
        /\ UNCHANGED cursor
    BY <1>7 DEF Acknowledge, Drops
  <2>2. /\ pending[g] \ {First(g)} \in SUBSET (1..cursor[g])
        /\ batch[g] \ {First(g)} \in SUBSET (pending[g] \ {First(g)})
    BY <1>3
  <2> QED
    BY <1>2, <1>3, <2>1, <2>2
<1>8. CASE EntryFails(g)
  <2>1. /\ batch' = [batch EXCEPT ![g] = batch[g] \ {First(g)}]
        /\ applied' = [applied EXCEPT ![g] = FALSE]
        /\ UNCHANGED <<cursor, pending>>
    BY <1>8 DEF EntryFails, Drops
  <2>2. batch[g] \ {First(g)} \in SUBSET pending[g]
    BY <1>3
  <2> QED
    BY <1>2, <1>3, <2>1, <2>2
<1>9. CASE ConsumerStops(g)
  <2>1. /\ batch' = [batch EXCEPT ![g] = {}]
        /\ applied' = [applied EXCEPT ![g] = FALSE]
        /\ UNCHANGED <<cursor, pending>>
    BY <1>9 DEF ConsumerStops
  <2> QED
    BY <1>2, <1>3, <2>1
<1> QED
  BY <1>4, <1>5, <1>6, <1>7, <1>8, <1>9 DEF Consumer

(***************************************************************************)
(* What the stores show                                                    *)
(***************************************************************************)
Shown == \A g \in Stores, t \in Things : index[g][t] \in Said[t] \cup {Absent}

Loaded ==
    \A g \in GraphStores : snapshot[g] # <<>> =>
        \A t \in Things : snapshot[g][1][t] \in Said[t] \cup {Absent}

\* What is shown and what a reindex has loaded.
LEMMA ShownParts == ShownSaid <=> Shown /\ Loaded
BY DEF ShownSaid, Shown, Loaded

\* What has been said is said from then on.
MoreSaid == \A t \in Things : Said[t] \subseteq Said'[t]

IndexGiven(g, t, d) == index' = [index EXCEPT ![g][t] = d]

\* A store that shows something else of one Thing.
LEMMA IndexSet ==
    ASSUME index \in [Stores -> Catalog], Shown, Said' = Said,
           NEW g \in Stores, NEW t \in Things, NEW d \in Document \cup {Absent},
           d \in Said[t] \cup {Absent}, IndexGiven(g, t, d)
    PROVE  /\ index' \in [Stores -> Catalog]
           /\ Shown'
           /\ Promise!Next
<1>1. PICK c : c = [index[g] EXCEPT ![t] = d]
  OBVIOUS
<1>2. index[g] \in Catalog
  OBVIOUS
<1>3. /\ c \in Catalog
      /\ c[t] = d
      /\ \A u \in Things : u # t => c[u] = index[g][u]
  BY <1>1, <1>2 DEF Catalog
<1>4. index' = [index EXCEPT ![g] = c]
  BY <1>1 DEF IndexGiven
<1>5. /\ index' \in [Stores -> Catalog]
      /\ index'[g] = c
      /\ \A h \in Stores : h # g => index'[h] = index[h]
  BY <1>3, <1>4
<1>6. ASSUME NEW h \in Stores, NEW u \in Things
      PROVE  index'[h][u] \in Said[u] \cup {Absent}
  BY <1>3, <1>5, <1>6 DEF Shown
<1>7. Shown'
  BY <1>6 DEF Shown
<1>8. Promise!Shows(g, t)
  BY DEF Promise!Shows, IndexGiven
<1> QED
  BY <1>5, <1>7, <1>8 DEF Promise!Next

\* A consumer applies an entry, or stops in the middle of it.
LEMMA ConsumerShows ==
    ASSUME OutboxTypeOK, ConsumersOK, ShownOK, PublishedCommitted, Shown, Said' = Said,
           NEW g \in Stores, Consumer(g) \/ EntryFails(g) \/ ConsumerStops(g)
    PROVE  /\ ShownOK'
           /\ Shown'
           /\ [Promise!Next]_<<Said, index>>
<1>1. index \in [Stores -> Catalog]
  BY DEF ShownOK
<1>2. UNCHANGED snapshot
  BY DEF Consumer, ClaimStale, ReadNew, Takes, Apply, Acknowledge, EntryFails, ConsumerStops
<1>3. ASSUME UNCHANGED index
      PROVE  /\ index' \in [Stores -> Catalog]
             /\ Shown'
             /\ [Promise!Next]_<<Said, index>>
  BY <1>1, <1>3 DEF Shown
<1>4. CASE Apply(g)
  <2>1. /\ batch[g] # {}
        /\ index' = Replaced(g, Event(First(g)))
        /\ \/ disorder' = disorder
           \/ disorder' = [disorder EXCEPT ![g] = @ \cup {Event(First(g)).thing}]
    BY <1>4 DEF Apply
  <2>2. /\ Event(First(g)).thing \in Things
        /\ Event(First(g)).doc \in Document \cup {Absent}
        /\ Event(First(g)).doc \in Said[Event(First(g)).thing]
    BY <2>1, EntrySaid
  <2>3. IndexGiven(g, Event(First(g)).thing, Event(First(g)).doc)
    BY <2>1 DEF Replaced, IndexGiven
  <2>4. index' \in [Stores -> Catalog] /\ Shown' /\ Promise!Next
    BY <1>1, <2>2, <2>3, IndexSet
  <2>5. disorder' \in [Stores -> SUBSET Things]
    BY <2>1, <2>2 DEF ShownOK
  <2> QED
    BY <1>2, <2>4, <2>5 DEF ShownOK
<1>5. CASE ClaimStale(g) \/ ReadNew(g) \/ Acknowledge(g)
  <2>1. UNCHANGED <<index, disorder>>
    BY <1>5 DEF ClaimStale, ReadNew, Takes, Acknowledge
  <2> QED
    BY <1>2, <1>3, <2>1 DEF ShownOK
<1>6. CASE EntryFails(g) \/ ConsumerStops(g)
  <2>1. batch[g] # {} /\ HalfApplied(g) /\ UNCHANGED disorder
    BY <1>6 DEF EntryFails, ConsumerStops
  <2>2. CASE UNCHANGED index
    BY <1>2, <1>3, <2>1, <2>2 DEF ShownOK
  <2>3. CASE index' = [index EXCEPT ![g][Event(First(g)).thing] = Absent]
    <3>1. Event(First(g)).thing \in Things
      BY <2>1, EntrySaid
    <3>2. IndexGiven(g, Event(First(g)).thing, Absent)
      BY <2>3 DEF IndexGiven
    <3>3. index' \in [Stores -> Catalog] /\ Shown' /\ Promise!Next
      BY <1>1, <3>1, <3>2, IndexSet
    <3> QED
      BY <1>2, <2>1, <3>3 DEF ShownOK
  <2> QED
    BY <2>1, <2>2, <2>3 DEF HalfApplied
<1> QED
  BY <1>4, <1>5, <1>6 DEF Consumer

\* A graph store is filled with what a reindex loaded.
LEMMA RefillShows ==
    ASSUME ShownOK, Shown, Loaded, Said' = Said, NEW g \in GraphStores, snapshot[g] # <<>>,
           NEW left \in SUBSET Things, Refill(g, left)
    PROVE  /\ ShownOK'
           /\ Shown' /\ Loaded'
           /\ Promise!Next
<1>1. /\ index \in [Stores -> Catalog]
      /\ snapshot \in [GraphStores -> {<<>>} \cup {<<c>> : c \in Catalog}]
      /\ disorder \in [Stores -> SUBSET Things]
  BY DEF ShownOK
<1>2. g \in Stores
  BY DEF Stores
<1>3. PICK c \in Catalog : snapshot[g] = <<c>>
  BY <1>1
<1>4. snapshot[g][1] = c
  BY <1>3
<1>5. PICK shown : shown = [t \in Things |-> IF t \in left THEN Absent ELSE snapshot[g][1][t]]
  OBVIOUS
<1>6. /\ index' = [index EXCEPT ![g] = shown]
      /\ disorder' = [disorder EXCEPT ![g] =
                         @ \cup {t \in Things : shown[t] # Announced(t)}]
      /\ snapshot' = [snapshot EXCEPT ![g] = <<>>]
  BY <1>5 DEF Refill
<1>7. shown \in Catalog
  BY <1>4, <1>5 DEF Catalog
<1>8. \A t \in Things : shown[t] \in Said[t] \cup {Absent}
  BY <1>5 DEF Loaded
<1>9. /\ index' \in [Stores -> Catalog]
      /\ index'[g] = shown
      /\ \A h \in Stores : h # g => index'[h] = index[h]
  BY <1>1, <1>2, <1>6, <1>7
<1>10. Shown'
  BY <1>8, <1>9 DEF Shown
<1>11. /\ snapshot' \in [GraphStores -> {<<>>} \cup {<<d>> : d \in Catalog}]
       /\ snapshot'[g] = <<>>
       /\ \A h \in GraphStores : h # g => snapshot'[h] = snapshot[h]
  BY <1>1, <1>6
<1>12. Loaded'
  BY <1>11 DEF Loaded
<1>13. disorder' \in [Stores -> SUBSET Things]
  <2>1. {t \in Things : shown[t] # Announced(t)} \in SUBSET Things
    OBVIOUS
  <2> QED
    BY <1>1, <1>2, <1>6, <2>1
<1>14. Promise!Rebuilt(g)
  BY <1>6, <1>7, <1>8 DEF Promise!Rebuilt, Catalog
<1> QED
  BY <1>2, <1>9, <1>10, <1>11, <1>12, <1>13, <1>14 DEF ShownOK, Promise!Next

\* What is loaded is known, and what is known has been said.
LEMMA LoadShows ==
    ASSUME OutboxTypeOK, ShownOK, KnownSaid, Shown, Loaded, Said' = Said,
           NEW g \in GraphStores, ReindexLoads(g)
    PROVE  ShownOK' /\ Shown' /\ Loaded' /\ UNCHANGED index
<1>1. /\ index \in [Stores -> Catalog]
      /\ snapshot \in [GraphStores -> {<<>>} \cup {<<c>> : c \in Catalog}]
      /\ disorder \in [Stores -> SUBSET Things]
  BY DEF ShownOK
<1>2. PICK c : c = [t \in Things |-> Known(t)]
  OBVIOUS
<1>3. /\ snapshot' = [snapshot EXCEPT ![g] = <<c>>]
      /\ UNCHANGED <<index, disorder>>
  BY <1>2 DEF ReindexLoads
<1>4. \A t \in Things : Known(t) \in Document \cup {Absent}
  BY DEF OutboxTypeOK, Known, Row
<1>5. c \in Catalog
  BY <1>2, <1>4 DEF Catalog
<1>6. /\ snapshot' \in [GraphStores -> {<<>>} \cup {<<d>> : d \in Catalog}]
      /\ snapshot'[g] = <<c>>
      /\ \A h \in GraphStores : h # g => snapshot'[h] = snapshot[h]
  BY <1>1, <1>3, <1>5
<1>7. \A t \in Things : c[t] \in Said[t] \cup {Absent}
  BY <1>2 DEF KnownSaid
<1>8. Loaded'
  <2>1. ASSUME NEW h \in GraphStores, snapshot'[h] # <<>>, NEW t \in Things
        PROVE  snapshot'[h][1][t] \in Said[t] \cup {Absent}
    <3>1. CASE h = g
      BY <1>6, <1>7, <3>1
    <3>2. CASE h # g
      BY <1>6, <2>1, <3>2 DEF Loaded
    <3> QED
      BY <3>1, <3>2
  <2> QED
    BY <2>1 DEF Loaded
<1> QED
  BY <1>1, <1>3, <1>6, <1>8 DEF ShownOK, Shown

(***************************************************************************)
(* The whole pipeline                                                      *)
(***************************************************************************)
\* What a step of the catalog or of a publisher promises.
CatalogView ==
    /\ OutboxTypeOK'
    /\ Told'
    /\ PublishedCommitted'
    /\ StreamKept
    /\ \/ Said' = Said
       \/ \E t \in Things, d \in Document \cup {Absent} : CommitSays(t, d)

\* What is in the hands of a publisher and what is in the stream.
LEMMA PublishedParts == PublishedCommitted <=> HeldCommitted /\ StreamCommitted
BY DEF PublishedCommitted, HeldCommitted, StreamCommitted

\* The publishers are not concerned by what transactions do.
LEMMA PublishedKept ==
    ASSUME OutboxTypeOK, PublishedCommitted, Committed \subseteq Committed',
           UNCHANGED <<publishing, stream>>
    PROVE  PublishedCommitted' /\ StreamKept
<1>1. HeldCommitted /\ StreamCommitted
  BY PublishedParts
<1>2. HeldCommitted' /\ StreamCommitted'
  BY <1>1 DEF HeldCommitted, StreamCommitted
<1>3. PublishedCommitted'
  BY <1>2 DEF PublishedCommitted, HeldCommitted, StreamCommitted
<1>4. StreamKept
  BY LenProperties DEF StreamKept, OutboxTypeOK
<1> QED
  BY <1>3, <1>4

\* A step of a request, seen from the consumers.
LEMMA RequestStep ==
    ASSUME OutboxTypeOK, Told, PublishedCommitted,
           Requests \/ \E w \in Writers : Transaction(w) \/ Rollback(w)
    PROVE  CatalogView
<1>1. PICK w \in Writers : Writing(w) \/ Thinking(w) \/ Commit(w) \/ Undone(w)
  BY RequestKinds
<1>2. TransactionsOpen
  BY DEF Told
<1>3. ASSUME Quiet, Told', OutboxTypeOK', UNCHANGED <<publishing, stream>>
      PROVE  CatalogView
  BY <1>3, QuietSaid, PublishedKept DEF CatalogView, Quiet
<1>4. CASE Writing(w)
  <2>1. OutboxTypeOK' /\ WritingView(w)
    BY <1>4, WritingStep
  <2>2. Told' /\ Quiet
    BY <2>1, WritingTold
  <2>3. UNCHANGED <<publishing, stream>>
    BY <2>1 DEF WritingView
  <2> QED
    BY <1>3, <2>1, <2>2, <2>3
<1>5. CASE Thinking(w)
  <2>1. OutboxTypeOK' /\ ThinkingView(w)
    BY <1>5, ThinkingStep
  <2>2. UNCHANGED <<things, outbox, publishing, stream>>
    BY <2>1 DEF ThinkingView, events
  <2>3. Quiet
    BY <2>2, OutboxSame
  <2>4. \A v \in Writers : Opened(v)' => Opened(v) /\ txn'[v] = txn[v]
    BY <2>1 DEF ThinkingView, Opened
  <2>5. Told'
    BY <2>2, <2>3, <2>4, QuietTold
  <2> QED
    BY <1>3, <2>1, <2>2, <2>3, <2>5
<1>6. CASE Undone(w)
  <2>1. OutboxTypeOK' /\ EndView(w, "rolled back") /\ UNCHANGED things
    BY <1>2, <1>6, UndoneStep
  <2>2. Told' /\ Quiet
    BY <2>1, UndoneTold
  <2>3. UNCHANGED <<publishing, stream>>
    BY <2>1 DEF EndView
  <2> QED
    BY <1>3, <2>1, <2>2, <2>3
<1>7. CASE Commit(w)
  <2>1. OutboxTypeOK' /\ EndView(w, "pending") /\ CommitView(w)
    BY <1>2, <1>7, CommitStep
  <2>2. /\ Told'
        /\ Committed \subseteq Committed'
        /\ CommitSays(txn[w].thing, txn[w].doc)
    BY <2>1, CommitTold
  <2>3. UNCHANGED <<publishing, stream>>
    BY <2>1 DEF EndView
  <2>4. txn[w].thing \in Things /\ txn[w].doc \in Document \cup {Absent}
    BY <2>1, OpenFields DEF EndView
  <2>5. PublishedCommitted' /\ StreamKept
    BY <2>2, <2>3, PublishedKept
  <2> QED
    BY <2>1, <2>2, <2>4, <2>5 DEF CatalogView
<1> QED
  BY <1>1, <1>4, <1>5, <1>6, <1>7

\* A step of a publisher, seen from the consumers.
LEMMA PublisherView ==
    ASSUME OutboxTypeOK, Told, PublishedCommitted, NEW p \in Publishers, PublisherStepOf(p)
    PROVE  CatalogView
<1>1. /\ OutboxTypeOK'
      /\ UNCHANGED catalog
      /\ Quiet /\ OpenKept /\ StreamKept
      /\ HeldCommitted' /\ StreamCommitted'
  BY PublisherStep
<1>2. PublishedCommitted'
  BY <1>1 DEF PublishedCommitted, HeldCommitted, StreamCommitted
<1>3. txn' = txn
  BY <1>1 DEF catalog
<1>4. ASSUME NEW v \in Writers, Opened(v)'
      PROVE  /\ Opened(v) /\ txn'[v] = txn[v]
             /\ outbox'[txn[v].event] = outbox[txn[v].event]
  <2>1. Opened(v)
    BY <1>3, <1>4 DEF Opened
  <2>2. txn[v].event \in 1..Len(outbox) /\ outbox[txn[v].event].state = "open"
    BY <2>1 DEF Told, TransactionsOpen
  <2> QED
    BY <1>1, <1>3, <2>1, <2>2 DEF OpenKept
<1>5. Told'
  BY <1>1, <1>4, QuietTold DEF OpenKept
<1> QED
  BY <1>1, <1>2, <1>5, QuietSaid DEF CatalogView

\* A step of a consumer or of a reindex leaves the outbox.
LEMMA ConsumerView ==
    ASSUME OutboxTypeOK, Told, PublishedCommitted, UNCHANGED <<catalog, events>>,
           faults' \in 0..MaxFaults
    PROVE  CatalogView /\ Said' = Said
<1>1. UNCHANGED <<things, txn, outbox, publishing, processed, stream>>
  BY DEF catalog, events
<1>2. OutboxTypeOK'
  BY <1>1 DEF OutboxTypeOK
<1>3. Quiet
  BY <1>1, OutboxSame
<1>4. \A v \in Writers : Opened(v)' => Opened(v) /\ txn'[v] = txn[v]
  BY <1>1 DEF Opened
<1>5. Told'
  BY <1>1, <1>3, <1>4, QuietTold
<1>6. PublishedCommitted' /\ StreamKept
  BY <1>1, <1>3, PublishedKept DEF Quiet
<1> QED
  BY <1>2, <1>3, <1>5, <1>6, QuietSaid DEF CatalogView

\* The invariant, by the parts that the steps of one side leave alone.
LEMMA InvParts ==
    IInv <=> /\ OutboxTypeOK /\ Told /\ PublishedCommitted
             /\ ConsumersOK /\ ShownOK /\ Shown /\ Loaded
BY TypeParts, ShownParts DEF IInv, Told

\* What was shown or loaded has still been said.
LEMMA SaidMore ==
    ASSUME Shown, Loaded, UNCHANGED <<index, snapshot>>,
           \/ Said' = Said
           \/ \E t \in Things, d \in Document \cup {Absent} : CommitSays(t, d)
    PROVE  /\ Shown' /\ Loaded'
           /\ [Promise!Next]_<<Said, index>>
<1>1. DOMAIN Said = Things
  BY DEF Said
<1>2. MoreSaid
  BY <1>1 DEF MoreSaid, CommitSays
<1>3. Shown'
  BY <1>2 DEF Shown, MoreSaid
<1>4. Loaded'
  BY <1>2 DEF Loaded, MoreSaid
<1>5. [Promise!Next]_<<Said, index>>
  <2>1. ASSUME NEW t \in Things, NEW d \in Document \cup {Absent}, CommitSays(t, d)
        PROVE  Promise!Write(t)
    BY <2>1 DEF Promise!Write, CommitSays
  <2> QED
    BY <2>1 DEF Promise!Next
<1> QED
  BY <1>3, <1>4, <1>5

\* The invariant holds initially, and so does the initial predicate of the promise.
LEMMA Initially ==
    ASSUME Init
    PROVE  IInv /\ Promise!Init
<1>1. /\ things = [t \in Things |-> Absent]
      /\ outbox = <<>>
      /\ txn = [w \in Writers |-> Idle]
      /\ publishing = [p \in Publishers |-> [row |-> None, sent |-> FALSE]]
      /\ processed = [p \in Publishers |-> {}]
      /\ stream = <<>>
      /\ faults = 0
      /\ MaxEvents \in Nat /\ MaxFaults \in Nat
  BY ThingOutboxAssumption DEF Init, OutboxInit
<1>2. Len(outbox) = 0 /\ Len(stream) = 0 /\ DOMAIN outbox = {}
  BY <1>1
<1>3. OutboxTypeOK
  BY <1>1, <1>2 DEF OutboxTypeOK, None
<1>4. \A w \in Writers : ~Opened(w)
  BY <1>1, Stages DEF Opened
<1>5. /\ Committed = {}
      /\ \A t : About(t) = {} /\ Found(t) = {}
  BY <1>2 DEF Committed, About, Found
<1>6. Said = [t \in Things |-> {}]
  BY <1>5 DEF Said
<1>7. \A t \in Things : things[t] = Absent /\ Known(t) = Absent
  BY <1>1 DEF Known
<1>8. Told
  <2>1. TransactionsOpen /\ OneWriter /\ WritersAhead
    BY <1>4 DEF TransactionsOpen, OneWriter, WritersAhead
  <2>2. CatalogTold /\ KnownSaid
    BY <1>5, <1>7 DEF CatalogTold, KnownSaid
  <2> QED
    BY <2>1, <2>2 DEF Told
<1>9. PublishedCommitted
  BY <1>1, <1>2 DEF PublishedCommitted
<1>10. /\ index = [g \in Stores |-> [t \in Things |-> Absent]]
       /\ cursor = [g \in Stores |-> 0]
       /\ pending = [g \in Stores |-> {}]
       /\ batch = [g \in Stores |-> {}]
       /\ applied = [g \in Stores |-> FALSE]
       /\ snapshot = [g \in GraphStores |-> <<>>]
       /\ disorder = [g \in Stores |-> {}]
  BY DEF Init
<1>11. ConsumersOK
  BY <1>2, <1>10 DEF ConsumersOK
<1>12. ShownOK
  BY <1>10 DEF ShownOK, Catalog
<1>13. Shown /\ Loaded
  BY <1>10 DEF Shown, Loaded
<1>14. Promise!Init
  BY <1>6, <1>10 DEF Promise!Init
<1> QED
  BY <1>3, <1>8, <1>9, <1>11, <1>12, <1>13, <1>14, InvParts

\* A step of the catalog, of a publisher or of a consumer is one of the promise, or none.
LEMMA StepPromised ==
    ASSUME IInv, [Next]_vars
    PROVE  IInv' /\ [Promise!Next]_<<Said, index>>
<1>1. /\ OutboxTypeOK /\ Told /\ PublishedCommitted
      /\ ConsumersOK /\ ShownOK /\ Shown /\ Loaded
  BY InvParts
<1>2. faults \in 0..MaxFaults /\ MaxFaults \in Nat
  BY <1>1, ThingOutboxAssumption DEF OutboxTypeOK
<1>3. (Fault \/ UNCHANGED faults) => faults' \in 0..MaxFaults
  BY <1>2 DEF Fault
<1>i. ASSUME CatalogView, ConsumersOK', ShownOK', Shown', Loaded'
      PROVE  IInv'
  <2>1. TypeOK'
    BY <1>i DEF CatalogView, TypeOK, ConsumersOK, ShownOK
  <2>2. ShownSaid'
    BY <1>i DEF ShownSaid, Shown, Loaded
  <2> QED
    BY <1>i, <2>1, <2>2 DEF IInv, CatalogView, Told
<1>4. ASSUME CatalogView, Unconsumed, disorder' \in [Stores -> SUBSET Things]
      PROVE  IInv' /\ [Promise!Next]_<<Said, index>>
  <2>1. UNCHANGED <<index, consumers, snapshot>>
    BY <1>4 DEF Unconsumed
  <2>2. ConsumersOK'
    BY <1>1, <1>4, <2>1, ConsumersKept DEF CatalogView
  <2>3. ShownOK'
    BY <1>1, <1>4, <2>1 DEF ShownOK
  <2>4. Shown' /\ Loaded' /\ [Promise!Next]_<<Said, index>>
    BY <1>1, <1>4, <2>1, SaidMore DEF CatalogView
  <2> QED
    BY <1>4, <1>i, <2>2, <2>3, <2>4
<1>5. CASE CatalogSteps
  <2>1. Unconsumed /\ disorder' \in [Stores -> SUBSET Things]
    BY <1>1, <1>5 DEF CatalogSteps, ShownOK
  <2>2. CatalogView
    <3>1. CASE Requests \/ \E w \in Writers : Transaction(w) \/ Rollback(w)
      BY <1>1, <3>1, RequestStep
    <3>2. CASE \E p \in Publishers : PublisherStepOf(p)
      BY <1>1, <3>2, PublisherView
    <3> QED
      BY <1>5, <3>1, <3>2 DEF CatalogSteps, PublisherStepOf, Publisher
  <2> QED
    BY <1>4, <2>1, <2>2
<1>6. ASSUME NEW p \in Publishers, Publication(p)
      PROVE  IInv' /\ [Promise!Next]_<<Said, index>>
  <2>1. /\ Publish(p)
        /\ disorder' = [g \in Stores |-> disorder[g] \cup PassesOver(p)]
        /\ Unconsumed
    BY <1>6 DEF Publication
  <2>2. publishing[p].row \in Committed
    BY <1>1, <2>1 DEF Publish, PublishedCommitted
  <2>3. outbox[publishing[p].row] \in EventRow
    BY <1>1, <2>2, CommittedIn
  <2>4. PassesOver(p) \subseteq Things
    BY <2>3 DEF PassesOver, EventRow
  <2>5. disorder' \in [Stores -> SUBSET Things]
    BY <1>1, <2>1, <2>4 DEF ShownOK
  <2>6. CatalogView
    BY <1>1, <2>1, PublisherView DEF PublisherStepOf, Publisher
  <2> QED
    BY <1>4, <2>1, <2>5, <2>6
<1>7. ASSUME NEW g \in Stores, Consumer(g) \/ EntryFails(g) \/ ConsumerStops(g)
      PROVE  IInv' /\ [Promise!Next]_<<Said, index>>
  <2>1. UNCHANGED <<catalog, events>> /\ (Fault \/ UNCHANGED faults)
    BY <1>7 DEF Consumer, ClaimStale, ReadNew, Takes, Apply, Acknowledge, EntryFails,
                ConsumerStops, outboxVars
  <2>2. CatalogView /\ Said' = Said
    BY <1>1, <1>3, <2>1, ConsumerView
  <2>3. UNCHANGED <<stream, snapshot>>
    BY <1>7, <2>1 DEF events, Consumer, ClaimStale, ReadNew, Takes, Apply, Acknowledge,
                      EntryFails, ConsumerStops
  <2>4. ConsumersOK'
    BY <1>1, <1>7, <2>3, ConsumerTypes
  <2>5. ShownOK' /\ Shown' /\ [Promise!Next]_<<Said, index>>
    BY <1>1, <1>7, <2>2, ConsumerShows
  <2>6. Loaded'
    BY <1>1, <2>2, <2>3 DEF Loaded
  <2> QED
    BY <1>i, <2>2, <2>4, <2>5, <2>6
<1>8. ASSUME NEW g \in GraphStores,
             ReindexLoads(g) \/ ReindexStores(g) \/ ReindexLeavesOut(g)
      PROVE  IInv' /\ [Promise!Next]_<<Said, index>>
  <2>1. UNCHANGED <<catalog, events, consumers>> /\ (Fault \/ UNCHANGED faults)
    BY <1>8 DEF ReindexLoads, ReindexStores, ReindexLeavesOut, outboxVars
  <2>2. CatalogView /\ Said' = Said
    BY <1>1, <1>3, <2>1, ConsumerView
  <2>3. ConsumersOK'
    BY <1>1, <2>1, <2>2, ConsumersKept DEF CatalogView
  <2>4. CASE ReindexLoads(g)
    <3>1. ShownOK' /\ Shown' /\ Loaded' /\ UNCHANGED index
      BY <1>1, <2>2, <2>4, LoadShows DEF Told
    <3> QED
      BY <1>i, <2>2, <2>3, <3>1
  <2>5. CASE ReindexStores(g) \/ ReindexLeavesOut(g)
    <3>1. snapshot[g] # <<>> /\ \E left \in SUBSET Things : Refill(g, left)
      BY <2>5 DEF ReindexStores, ReindexLeavesOut
    <3>2. ShownOK' /\ Shown' /\ Loaded' /\ Promise!Next
      BY <1>1, <2>2, <3>1, RefillShows
    <3> QED
      BY <1>i, <2>2, <2>3, <3>2
  <2> QED
    BY <1>8, <2>4, <2>5
<1>9. CASE UNCHANGED vars
  <2>1. /\ UNCHANGED <<catalog, events, faults>>
        /\ UNCHANGED <<index, consumers, snapshot, disorder>>
    BY <1>9 DEF vars, outboxVars
  <2>2. CatalogView
    BY <1>1, <1>3, <2>1, ConsumerView
  <2>3. Unconsumed /\ disorder' \in [Stores -> SUBSET Things]
    BY <1>1, <2>1 DEF Unconsumed, ShownOK
  <2> QED
    BY <1>4, <2>2, <2>3
<1> QED
  BY <1>5, <1>6, <1>7, <1>8, <1>9 DEF Next

(***************************************************************************)
(* Theorems                                                                *)
(***************************************************************************)
\* The invariant holds of every reachable state, for any number of Things, requests,
\* publishers, stores and events (catalog/service.py, catalog/events, consumer.py).
THEOREM InductiveInvariant == Spec => []IInv
<1>1. Init => IInv
  BY Initially
<1>2. IInv /\ [Next]_vars => IInv'
  BY StepPromised
<1> QED
  BY <1>1, <1>2, PTL DEF Spec

\* The newest committed event of a Thing tells its row, whatever overlaps, fails or is
\* rolled back (every write of catalog/service.py; outbox.py).
THEOREM CatalogRecordedHolds == Spec => []CatalogRecorded
<1>1. ASSUME IInv PROVE CatalogRecorded
  <2>1. TypeOK /\ OutboxTypeOK /\ CatalogTold
    BY <1>1 DEF IInv, TypeOK
  <2>2. ASSUME NEW t \in Things, About(t) # {} => outbox[Newest(t)].found
        PROVE  Announced(t) = Known(t)
    <3>1. CASE About(t) = {}
      <4>1. Found(t) = {}
        BY <3>1 DEF Found
      <4> QED
        BY <2>1, <3>1, <4>1 DEF CatalogTold, Announced, Known
    <3>2. CASE About(t) # {}
      <4>1. Newest(t) \in About(t) /\ \A j \in About(t) : j <= Newest(t)
        BY <2>1, <3>2, NewestIn
      <4>2. Newest(t) \in Found(t) /\ Found(t) \subseteq About(t)
        BY <2>2, <3>2, <4>1 DEF Found
      <4>3. Known(t) = outbox[Newest(t)].doc
        BY <2>1, <4>1, <4>2 DEF CatalogTold
      <4> QED
        BY <3>2, <4>3 DEF Announced
    <3> QED
      BY <3>1, <3>2
  <2>3. LastEventIsCatalog
    BY <2>2 DEF LastEventIsCatalog
  <2> QED
    BY <2>1, <2>3 DEF CatalogRecorded
<1> QED
  BY <1>1, InductiveInvariant, PTL

\* The pipeline implements IndexedCatalog: a derived store shows of a Thing nothing or what
\* the catalog committed for it (consumer.py, vector_store.py, rdf/store.py).
THEOREM ShowsOnlyCommittedHolds == Spec => ShowsOnlyCommitted
<1>1. Init => Promise!Init
  BY Initially
<1>2. IInv /\ [Next]_vars => [Promise!Next]_<<Said, index>>
  BY StepPromised
<1> QED
  BY <1>1, <1>2, InductiveInvariant, PTL DEF Spec, ShowsOnlyCommitted, Promise!Spec
=============================================================================
