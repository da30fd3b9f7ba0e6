------------------------- MODULE SessionPoolProofs -------------------------
(***************************************************************************)
(* Theorems about SessionPool, for any number of requests, sessions and    *)
(* faults.  The heart of the invariant is what an open session may be      *)
(* doing: it waits for work, was asked, works, has told its answer, or is  *)
(* listened to.  The other parts say who holds its execution lock and      *)
(* which process answers for it.                                           *)
(***************************************************************************)
EXTENDS SessionPool, SequenceTheorems, TLAPS

(***************************************************************************)
(* The inductive invariant                                                 *)
(***************************************************************************)
Exchange == {"sending", "sent", "received"}

In(q, c) == \E i \in 1..Len(q) : q[i] = c

Once(q) == \A i, j \in 1..Len(q) : q[i] = q[j] => i = j

\* An entry is open as long as a session has it, and no two sessions have one.
SessionsOpen ==
    /\ \A e \in DOMAIN entries : entries[e].open <=> Current(e)
    /\ \A s, t \in Sessions : sessions[s] = sessions[t] /\ sessions[s] # 0 => s = t

\* The queue of an entry holds the calls at it, and only the first one exchanges.
QueuesOK ==
    /\ \A e \in DOMAIN entries : Once(entries[e].queue)
    /\ \A e \in DOMAIN entries : \A i \in 1..Len(entries[e].queue) :
          /\ calls[entries[e].queue[i]].entry = e
          /\ calls[entries[e].queue[i]].at \in {"queued"} \cup Exchange
          /\ i # 1 => calls[entries[e].queue[i]].at = "queued"
    /\ \A c \in Calls : calls[c].at \in {"queued"} \cup Exchange =>
          calls[c].entry \in DOMAIN entries /\ In(entries[calls[c].entry].queue, c)

\* A call has an outcome when it is over, and an answer between two steps only.
CallsOK ==
    \A c \in Calls :
       /\ calls[c].at # "ended" => calls[c].outcome = "none"
       /\ calls[c].at # "received" => calls[c].answer = NoAnswer
       /\ calls[c].at = "received" =>
             /\ calls[c].answer \in Answers /\ calls[c].answer.call = c
             /\ calls[c].answer.status = "ok" =>
                   calls[c].answer.pid \in 1..entries[calls[c].entry].lastPid

\* A pid of a worker is used once, a process that reads has no result of a
\* child, and one that supervises has its call.
ProcsOK ==
    /\ \A p, q \in procs : p.entry = q.entry /\ p.pid = q.pid => p = q
    /\ \A p \in procs : /\ p.does = "reads" => p.result = "none"
                        /\ p.does = "supervises" => p.call \in Calls

\* What a worker still runs or has in its pipe was not answered.
Unanswered(c) ==
    calls[c].at = "sent" \/ (calls[c].at = "ended" /\ calls[c].outcome \in {"error", "cancelled"})

AskedAt(e, c) == c \in Calls /\ Unanswered(c) /\ calls[c].entry = e

CodeUnanswered ==
    /\ \A p \in procs : p.does = "runs" => AskedAt(p.entry, p.call)
    /\ \A e \in DOMAIN entries, c \in Calls : In(entries[e].inbox, c) => AskedAt(e, c)

\* The calls that left something in the session e, and those that may have.
Good(e, c) == calls[c].entry = e /\ calls[c].outcome \in {"ok", "unpublished"}

Over(c) == calls[c].at = "ended" /\ calls[c].outcome \in {"ok", "unpublished", "cancelled"}

Sent(e, c) == calls[c].at = "sent" /\ calls[c].entry = e

Heard(e, c) == calls[c].at = "received" /\ calls[c].entry = e

Quiet(e) == entries[e].inbox = <<>> /\ entries[e].outbox = <<>>

\* The interpreter p holds the effects of the calls that succeeded; it learns c's.
Keeps(e, p) ==
    /\ \A c \in Calls : Good(e, c) => c \in p.done
    /\ \A c \in Calls : c \in p.done => Over(c)

Learns(e, p, c) ==
    /\ c \in p.done
    /\ \A d \in Calls \ {c} : Good(e, d) => d \in p.done
    /\ \A d \in Calls \ {c} : d \in p.done => Over(d)

Alive(e) == e \notin disturbed => ProcsOf(e) # {}

\* The known process, if it lives, is the only one and reads the pipe.
KnownReads(e) ==
    /\ \A p \in ProcsOf(e) : p.does = "reads" /\ p.pid = entries[e].known /\ Keeps(e, p)
    /\ Alive(e)

\* After the answer a to c one process is left: the promoted or the known one.
AnsweredReads(e, c, a) ==
    /\ a.call = c
    /\ a.status = "ok" =>
          /\ a.pid \in 1..entries[e].lastPid
          /\ \A p \in ProcsOf(e) : p.does = "reads" /\ p.pid = a.pid /\ Learns(e, p, c)
    /\ a.status # "ok" =>
          \A p \in ProcsOf(e) : p.does = "reads" /\ p.pid = entries[e].known /\ Keeps(e, p)
    /\ Alive(e)

Waits(e) == Quiet(e) /\ (\A c \in Calls : ~Sent(e, c) /\ ~Heard(e, c)) /\ KnownReads(e)

Asked(e, c) == Sent(e, c) /\ entries[e].inbox = <<c>> /\ entries[e].outbox = <<>> /\ KnownReads(e)

\* The known process supervises child, and child runs the code of c or has
\* reported success.
Supervises(e, c, child, p) ==
    /\ p.pid = entries[e].known /\ p.does = "supervises"
    /\ p.call = c /\ p.child = child /\ Keeps(e, p)

RunsCode(e, c, child, p) ==
    /\ p.pid = child /\ p.does = "runs" /\ p.call = c
    /\ \A q \in ProcsOf(e) : q.pid = entries[e].known => q.result = "none" /\ p.done = q.done

HasRun(e, c, child, p) ==
    /\ p.pid = child /\ p.does = "reads"
    /\ \A q \in ProcsOf(e) :
          q.pid = entries[e].known => q.result = "ok" /\ p.done = q.done \cup {c}

Works(e, c) ==
    /\ Sent(e, c) /\ Quiet(e)
    /\ \E child \in 1..entries[e].lastPid :
          /\ child # entries[e].known
          /\ \A p \in ProcsOf(e) : Supervises(e, c, child, p) \/ RunsCode(e, c, child, p)
                                      \/ HasRun(e, c, child, p)
          /\ e \notin disturbed =>
                \E q \in ProcsOf(e) :
                   /\ q.pid = entries[e].known
                   /\ q.result # "failed" => \E p \in ProcsOf(e) : p.pid = child

Told(e, c) ==
    /\ Sent(e, c) /\ entries[e].inbox = <<>>
    /\ \E a \in Answers : entries[e].outbox = <<a>> /\ AnsweredReads(e, c, a)

Listens(e, c) ==
    /\ Heard(e, c) /\ Quiet(e)
    /\ \E a \in Answers : calls[c].answer = a /\ AnsweredReads(e, c, a)

Mode(e) == Waits(e) \/ \E c \in Calls : Asked(e, c) \/ Works(e, c) \/ Told(e, c) \/ Listens(e, c)

OpenOK == \A e \in DOMAIN entries : entries[e].open => Mode(e)

\* Only a disturbed session is closed, and only its calls end in error.
Undisturbed ==
    /\ \A e \in DOMAIN entries : e \notin disturbed => entries[e].open
    /\ \A c \in Calls : calls[c].outcome = "error" => calls[c].entry \in disturbed

IInv ==
    /\ TypeOK /\ SessionsOpen /\ QueuesOK /\ CallsOK /\ ProcsOK /\ CodeUnanswered
    /\ OpenOK /\ Undisturbed /\ PublishedIfAnswered

(***************************************************************************)
(* Queues, and the types of what the tables hold                           *)
(***************************************************************************)

\* Joining a queue one is not in keeps everybody in it once.
LEMMA JoinQueue ==
    ASSUME NEW S, NEW q \in Seq(S), NEW c \in S, Once(q), ~In(q, c)
    PROVE  /\ Append(q, c) \in Seq(S) /\ Once(Append(q, c))
           /\ Len(Append(q, c)) = Len(q) + 1
           /\ \A i \in 1..Len(q) : Append(q, c)[i] = q[i]
           /\ Append(q, c)[Len(q) + 1] = c
<1> DEFINE n == Len(q)
           a == Append(q, c)
<1>1. /\ a \in Seq(S) /\ Len(a) = n + 1 /\ n \in Nat
      /\ \A i \in 1..n : a[i] = q[i]
      /\ a[n + 1] = c
  BY AppendProperties, LenProperties
<1>2. \A i \in 1..n : q[i] # c
  BY DEF In
<1> HIDE DEF a, n
<1>3. ASSUME NEW i \in 1..Len(a), NEW j \in 1..Len(a), a[i] = a[j]
      PROVE  i = j
  <2>1. (i \in 1..n \/ i = n + 1) /\ (j \in 1..n \/ j = n + 1)
    BY <1>1
  <2>2. i \in 1..n /\ j \in 1..n => i = j
    BY <1>1, <1>3 DEF Once, n
  <2> QED
    BY <1>1, <1>2, <1>3, <2>1, <2>2
<1> QED
  BY <1>1, <1>3 DEF Once, a, n

\* The first of a queue leaves it.
LEMMA LeaveHead ==
    ASSUME NEW S, NEW q \in Seq(S), Once(q), q # <<>>
    PROVE  /\ Tail(q) \in Seq(S) /\ Once(Tail(q)) /\ ~In(Tail(q), q[1])
           /\ Len(Tail(q)) = Len(q) - 1 /\ Len(q) \in Nat \ {0}
           /\ \A i \in 1..Len(Tail(q)) : Tail(q)[i] = q[i + 1]
           /\ Head(q) = q[1]
<1> DEFINE n == Len(q)
           t == Tail(q)
<1>1. /\ t \in Seq(S) /\ Len(t) = n - 1 /\ n \in Nat \ {0}
      /\ \A i \in 1..Len(t) : t[i] = q[i + 1]
  BY HeadTailProperties, EmptySeq
<1>2. Head(q) = q[1]
  OBVIOUS
<1> HIDE DEF t, n
<1>3. \A i \in 1..Len(t) : i + 1 \in 1..n /\ i + 1 # 1
  BY <1>1
<1>4. Once(t)
  <2> SUFFICES ASSUME NEW i \in 1..Len(t), NEW j \in 1..Len(t), t[i] = t[j]
               PROVE  i = j
    BY DEF Once
  <2>1. q[i + 1] = q[j + 1] /\ i + 1 \in 1..n /\ j + 1 \in 1..n
    BY <1>1, <1>3
  <2>2. i + 1 = j + 1
    BY <2>1 DEF Once, n
  <2> QED
    BY <2>2, <1>1
<1>5. ~In(t, q[1])
  <2> SUFFICES ASSUME NEW i \in 1..Len(t), t[i] = q[1]
               PROVE  FALSE
    BY DEF In
  <2>1. q[i + 1] = q[1] /\ i + 1 \in 1..n /\ 1 \in 1..n
    BY <1>1, <1>3
  <2> QED
    BY <2>1, <1>3 DEF Once, n
<1> QED
  BY <1>1, <1>2, <1>4, <1>5 DEF t, n

\* Where the elements of a queue are that a waiting call has left.
LEMMA LeaveQueue ==
    ASSUME NEW S, NEW q \in Seq(S), NEW c, Once(q), In(q, c)
    PROVE  /\ Without(q, c) \in Seq(S) /\ Once(Without(q, c))
           /\ ~In(Without(q, c), c)
           /\ \A i \in 1..Len(Without(q, c)) :
                 \E j \in 1..Len(q) : Without(q, c)[i] = q[j] /\ (i # 1 => j # 1)
           /\ \A j \in 1..Len(q) : q[j] # c => In(Without(q, c), q[j])
<1> DEFINE n == Len(q)
           w == Without(q, c)
<1>1. n \in Nat /\ \A i \in 1..n : q[i] \in S
  BY LenProperties, ElementOfSeq
<1>2. PICK k \in 1..n : q[k] = c
  BY DEF In
<1>3. n \in Nat \ {0} /\ k \in Nat
  BY <1>1, <1>2
<1>4. \A j \in 1..n : q[j] = c <=> j = k
  BY <1>2 DEF Once
<1>5. \A i \in 1..(n - 1) : (\E j \in 1..i : q[j] = c) <=> k <= i
  BY <1>1, <1>2, <1>3, <1>4
<1>6. w = [i \in 1..(n - 1) |-> IF k <= i THEN q[i + 1] ELSE q[i]]
  BY <1>5 DEF Without
<1>7. \A i \in 1..(n - 1) : w[i] = IF k <= i THEN q[i + 1] ELSE q[i]
  BY <1>6
<1>8. w \in [1..(n - 1) -> S] /\ n - 1 \in Nat
  BY <1>1, <1>3, <1>6
<1>9. w \in Seq(S)
  BY <1>8, SeqDef
<1>10. Len(w) = n - 1
  BY <1>8, <1>9, LenProperties
<1> HIDE DEF w, n
<1>11. ASSUME NEW i \in 1..Len(w)
       PROVE  \E j \in 1..n : /\ w[i] = q[j] /\ (i # 1 => j # 1) /\ j # k
                              /\ j = IF k <= i THEN i + 1 ELSE i
  <2> DEFINE j == IF k <= i THEN i + 1 ELSE i
  <2>1. w[i] = q[j] /\ j \in 1..n /\ (i # 1 => j # 1) /\ j # k
    BY <1>3, <1>7, <1>10
  <2> QED
    BY <2>1
<1>12. ~In(w, c)
  <2> SUFFICES ASSUME NEW i \in 1..Len(w), w[i] = c
               PROVE  FALSE
    BY DEF In
  <2> QED
    BY <1>4, <1>11
<1>13. Once(w)
  <2> SUFFICES ASSUME NEW i \in 1..Len(w), NEW h \in 1..Len(w), w[i] = w[h]
               PROVE  i = h
    BY DEF Once
  <2>1. PICK a \in 1..n : w[i] = q[a] /\ a = IF k <= i THEN i + 1 ELSE i
    BY <1>11
  <2>2. PICK b \in 1..n : w[h] = q[b] /\ b = IF k <= h THEN h + 1 ELSE h
    BY <1>11
  <2>3. a = b
    BY <2>1, <2>2 DEF Once, n
  <2> QED
    BY <1>3, <1>10, <2>1, <2>2, <2>3
<1>14. ASSUME NEW j \in 1..n, q[j] # c
       PROVE  In(w, q[j])
  <2> DEFINE i == IF k < j THEN j - 1 ELSE j
  <2>1. i \in 1..Len(w) /\ w[i] = q[j]
    BY <1>2, <1>3, <1>4, <1>7, <1>10, <1>14
  <2> QED
    BY <2>1 DEF In
<1> QED
  BY <1>9, <1>11, <1>12, <1>13, <1>14 DEF w, n

\* What the variables hold.
LEMMA TypeFacts ==
    ASSUME TypeOK
    PROVE  /\ Len(entries) \in Nat /\ DOMAIN entries = 1..Len(entries)
           /\ \A e \in DOMAIN entries : entries[e] \in Entry
           /\ \A c \in Calls : calls[c] \in Call
           /\ \A p \in procs : p \in Process
<1>1. /\ Len(entries) \in Nat /\ DOMAIN entries = 1..Len(entries)
  BY LenProperties DEF TypeOK
<1>2. \A e \in DOMAIN entries : entries[e] \in Entry
  BY <1>1, ElementOfSeq DEF TypeOK
<1> QED
  BY <1>1, <1>2 DEF TypeOK

\* The records of one call, and of one entry, change.
CallGiven(c, r) == calls' = [calls EXCEPT ![c] = r]

EntryGiven(e, r) == entries' = [entries EXCEPT ![e] = r]

\* What is so of the calls when the record of one changes.
LEMMA OneCallChanges ==
    ASSUME TypeOK, NEW c \in Calls, NEW r \in Call, CallGiven(c, r)
    PROVE  /\ calls' \in [Calls -> Call] /\ calls'[c] = r
           /\ \A d \in Calls : d # c => calls'[d] = calls[d]
BY DEF TypeOK, CallGiven

\* What is so of the entries when the record of one changes.
LEMMA OneEntryChanges ==
    ASSUME TypeOK, NEW e \in DOMAIN entries, NEW r \in Entry, EntryGiven(e, r)
    PROVE  /\ entries' \in Seq(Entry) /\ entries'[e] = r
           /\ Len(entries') = Len(entries) /\ DOMAIN entries' = DOMAIN entries
           /\ \A f \in DOMAIN entries : f # e => entries'[f] = entries[f]
<1>1. entries \in Seq(Entry) /\ e \in 1..Len(entries) /\ DOMAIN entries = 1..Len(entries)
  BY TypeFacts DEF TypeOK
<1>2. /\ [entries EXCEPT ![e] = r] \in Seq(Entry)
      /\ Len([entries EXCEPT ![e] = r]) = Len(entries)
      /\ \A j \in 1..Len(entries) : [entries EXCEPT ![e] = r][j] = IF j = e THEN r ELSE entries[j]
  BY <1>1, ExceptSeq
<1>3. DOMAIN [entries EXCEPT ![e] = r] = DOMAIN entries
  OBVIOUS
<1> QED
  BY <1>1, <1>2, <1>3 DEF EntryGiven

(***************************************************************************)
(* What a session may be doing, when something else changes                *)
(***************************************************************************)

\* Nothing of the session e changes but the calls that wait for its lock, and
\* a session that is disturbed may have lost processes.
SameChannel(e) ==
    /\ entries'[e].known = entries[e].known /\ entries'[e].lastPid = entries[e].lastPid
    /\ entries'[e].inbox = entries[e].inbox /\ entries'[e].outbox = entries[e].outbox

SameSent(e) ==
    \A c \in Calls :
       /\ calls'[c].at = "sent" /\ calls'[c].entry = e <=> Sent(e, c)
       /\ calls'[c].at = "received" /\ calls'[c].entry = e <=> Heard(e, c)
       /\ Heard(e, c) => calls'[c].answer = calls[c].answer

SameGood(e) ==
    \A c \in Calls :
       /\ calls'[c].entry = e /\ calls'[c].outcome \in {"ok", "unpublished"} <=> Good(e, c)
       /\ Over(c) => Over(c)'

SameProcs(e) ==
    /\ \A p \in procs' : p.entry = e => p \in procs
    /\ e \notin disturbed' => /\ e \notin disturbed
                              /\ \A p \in procs : p.entry = e => p \in procs'

\* An interpreter that keeps or learns still does.
LEMMA KeepsFrame ==
    ASSUME NEW e, NEW p, NEW c, SameGood(e)
    PROVE  /\ Keeps(e, p) => Keeps(e, p)'
           /\ Learns(e, p, c) => Learns(e, p, c)'
<1>1. \A d \in Calls : (Good(e, d)' <=> Good(e, d)) /\ (Over(d) => Over(d)')
  BY DEF SameGood, Good
<1>2. Keeps(e, p) => Keeps(e, p)'
  BY <1>1 DEF Keeps
<1>3. Learns(e, p, c) => Learns(e, p, c)'
  BY <1>1 DEF Learns
<1> QED
  BY <1>2, <1>3

\* The processes of the session e.
LEMMA ProcsFrame ==
    ASSUME NEW e, SameProcs(e)
    PROVE  /\ ProcsOf(e)' \subseteq ProcsOf(e)
           /\ e \notin disturbed' => e \notin disturbed /\ ProcsOf(e)' = ProcsOf(e)
BY DEF SameProcs, ProcsOf

\* Readers go on reading.
LEMMA ReadsFrame ==
    ASSUME NEW e, SameProcs(e), SameGood(e),
           entries'[e].known = entries[e].known, entries'[e].lastPid = entries[e].lastPid
    PROVE  /\ KnownReads(e) => KnownReads(e)'
           /\ \A c, a : AnsweredReads(e, c, a) => AnsweredReads(e, c, a)'
<1>1. Alive(e) => Alive(e)'
  BY ProcsFrame DEF Alive
<1>2. ASSUME KnownReads(e)
      PROVE  KnownReads(e)'
  <2>1. ASSUME NEW p \in ProcsOf(e)'
        PROVE  p.does = "reads" /\ p.pid = entries'[e].known /\ Keeps(e, p)'
    <3>1. p \in ProcsOf(e)
      BY <2>1, ProcsFrame
    <3> QED
      BY <1>2, <3>1, KeepsFrame DEF KnownReads
  <2> QED
    BY <1>1, <1>2, <2>1 DEF KnownReads
<1>3. ASSUME NEW c, NEW a, AnsweredReads(e, c, a)
      PROVE  AnsweredReads(e, c, a)'
  <2>1. ASSUME NEW p \in ProcsOf(e)', a.status = "ok"
        PROVE  p.does = "reads" /\ p.pid = a.pid /\ Learns(e, p, c)'
    <3>1. p \in ProcsOf(e)
      BY <2>1, ProcsFrame
    <3> QED
      BY <1>3, <2>1, <3>1, KeepsFrame DEF AnsweredReads
  <2>2. ASSUME NEW p \in ProcsOf(e)', a.status # "ok"
        PROVE  p.does = "reads" /\ p.pid = entries'[e].known /\ Keeps(e, p)'
    <3>1. p \in ProcsOf(e)
      BY <2>2, ProcsFrame
    <3> QED
      BY <1>3, <2>2, <3>1, KeepsFrame DEF AnsweredReads
  <2> QED
    BY <1>1, <1>3, <2>1, <2>2 DEF AnsweredReads
<1> QED
  BY <1>2, <1>3

\* A session goes on doing what it does.
LEMMA ModeFrame ==
    ASSUME NEW e, Mode(e), SameChannel(e), SameSent(e), SameGood(e), SameProcs(e)
    PROVE  Mode(e)'
<1>1. \A c \in Calls : /\ Sent(e, c)' <=> Sent(e, c)
                       /\ Heard(e, c)' <=> Heard(e, c)
                       /\ Heard(e, c) => calls'[c].answer = calls[c].answer
  BY DEF SameSent, Sent, Heard
<1>2. /\ entries'[e].known = entries[e].known /\ entries'[e].lastPid = entries[e].lastPid
      /\ entries'[e].inbox = entries[e].inbox /\ entries'[e].outbox = entries[e].outbox
  BY DEF SameChannel
<1>3. /\ KnownReads(e) => KnownReads(e)'
      /\ \A c, a : AnsweredReads(e, c, a) => AnsweredReads(e, c, a)'
  BY <1>2, ReadsFrame
<1>4. Quiet(e) => Quiet(e)'
  BY <1>2 DEF Quiet
<1>5. CASE Waits(e)
  BY <1>1, <1>3, <1>4, <1>5 DEF Waits, Mode
<1>6. ASSUME NEW c \in Calls, Asked(e, c)
      PROVE  Asked(e, c)'
  BY <1>1, <1>2, <1>3, <1>6 DEF Asked
<1>7. ASSUME NEW c \in Calls, Told(e, c)
      PROVE  Told(e, c)'
  BY <1>1, <1>2, <1>3, <1>7 DEF Told
<1>8. ASSUME NEW c \in Calls, Listens(e, c)
      PROVE  Listens(e, c)'
  BY <1>1, <1>3, <1>4, <1>8 DEF Listens
<1>9. ASSUME NEW c \in Calls, Works(e, c)
      PROVE  Works(e, c)'
  <2>1. PICK child \in 1..entries[e].lastPid :
          /\ child # entries[e].known
          /\ \A p \in ProcsOf(e) : Supervises(e, c, child, p) \/ RunsCode(e, c, child, p)
                                      \/ HasRun(e, c, child, p)
          /\ e \notin disturbed =>
                \E q \in ProcsOf(e) :
                   /\ q.pid = entries[e].known
                   /\ q.result # "failed" => \E p \in ProcsOf(e) : p.pid = child
    BY <1>9 DEF Works
  <2>2. ASSUME NEW p \in ProcsOf(e)'
        PROVE  Supervises(e, c, child, p)' \/ RunsCode(e, c, child, p)' \/ HasRun(e, c, child, p)'
    <3>1. p \in ProcsOf(e) /\ ProcsOf(e)' \subseteq ProcsOf(e)
      BY <2>2, ProcsFrame
    <3>2. Supervises(e, c, child, p) => Supervises(e, c, child, p)'
      BY <1>2, KeepsFrame DEF Supervises
    <3>3. RunsCode(e, c, child, p) => RunsCode(e, c, child, p)'
      BY <1>2, <3>1 DEF RunsCode
    <3>4. HasRun(e, c, child, p) => HasRun(e, c, child, p)'
      BY <1>2, <3>1 DEF HasRun
    <3> QED
      BY <2>1, <3>1, <3>2, <3>3, <3>4
  <2>3. e \notin disturbed' =>
          \E q \in ProcsOf(e)' :
             /\ q.pid = entries'[e].known
             /\ q.result # "failed" => \E p \in ProcsOf(e)' : p.pid = child
    BY <1>2, <2>1, ProcsFrame
  <2> QED
    BY <1>1, <1>2, <1>4, <1>9, <2>1, <2>2, <2>3 DEF Works
<1> QED
  BY <1>5, <1>6, <1>7, <1>8, <1>9 DEF Mode

\* The call c goes on to r, which leaves nothing in the session e.
LEMMA GoodFrame ==
    ASSUME TypeOK, CallsOK, NEW c \in Calls, NEW r \in Call, CallGiven(c, r),
           calls[c].at # "ended", NEW e,
           r.entry = e => r.outcome \notin {"ok", "unpublished"}
    PROVE  SameGood(e)
<1>1. calls'[c] = r /\ \A d \in Calls : d # c => calls'[d] = calls[d]
  BY OneCallChanges
<1>2. calls[c].outcome = "none"
  BY DEF CallsOK
<1>3. ~Good(e, c) /\ ~Over(c)
  BY <1>2 DEF Good, Over
<1>4. ASSUME NEW d \in Calls
      PROVE  /\ calls'[d].entry = e /\ calls'[d].outcome \in {"ok", "unpublished"} <=> Good(e, d)
             /\ Over(d) => Over(d)'
  <2>1. CASE d = c
    BY <1>1, <1>3, <2>1
  <2>2. CASE d # c
    BY <1>1, <2>2 DEF Good, Over
  <2> QED
    BY <2>1, <2>2
<1> QED
  BY <1>4 DEF SameGood

\* The call c exchanges with e neither before nor after.
LEMMA SentFrame ==
    ASSUME TypeOK, NEW c \in Calls, NEW r \in Call, CallGiven(c, r), NEW e,
           calls[c].entry = e => calls[c].at \notin {"sent", "received"},
           r.entry = e => r.at \notin {"sent", "received"}
    PROVE  SameSent(e)
<1>1. calls'[c] = r /\ \A d \in Calls : d # c => calls'[d] = calls[d]
  BY OneCallChanges
<1>2. ASSUME NEW d \in Calls
      PROVE  /\ calls'[d].at = "sent" /\ calls'[d].entry = e <=> Sent(e, d)
             /\ calls'[d].at = "received" /\ calls'[d].entry = e <=> Heard(e, d)
             /\ Heard(e, d) => calls'[d].answer = calls[d].answer
  <2>1. CASE d = c
    BY <1>1, <2>1 DEF Sent, Heard
  <2>2. CASE d # c
    BY <1>1, <2>2 DEF Sent, Heard
  <2> QED
    BY <2>1, <2>2
<1> QED
  BY <1>2 DEF SameSent

\* The calls are as they were.
LEMMA CallsFrame ==
    ASSUME calls' = calls, NEW e
    PROVE  SameSent(e) /\ SameGood(e)
<1>1. SameSent(e)
  BY DEF SameSent, Sent, Heard
<1>2. SameGood(e)
  BY DEF SameGood, Good, Over
<1> QED
  BY <1>1, <1>2

\* The processes are as they were.
LEMMA SameProcsFrame ==
    ASSUME procs' = procs, disturbed \subseteq disturbed', NEW e
    PROVE  SameProcs(e)
BY DEF SameProcs

(***************************************************************************)
(* The execution locks                                                     *)
(***************************************************************************)

Waiting == {"queued"} \cup Exchange

\* A call in the exchange is the first of the queue of its session.
LEMMA FirstOnly ==
    ASSUME TypeOK, QueuesOK, NEW c \in Calls, calls[c].at \in Exchange
    PROVE  /\ calls[c].entry \in DOMAIN entries
           /\ entries[calls[c].entry].queue \in Seq(Calls)
           /\ Once(entries[calls[c].entry].queue)
           /\ entries[calls[c].entry].queue # <<>>
           /\ entries[calls[c].entry].queue[1] = c
<1> DEFINE e == calls[c].entry
           q == entries[e].queue
<1>1. e \in DOMAIN entries /\ In(q, c)
  BY DEF QueuesOK
<1>2. entries[e] \in Entry
  BY <1>1, TypeFacts
<1>3. q \in Seq(Calls)
  BY <1>2 DEF Entry
<1>4. PICK i \in 1..Len(q) : q[i] = c
  BY <1>1 DEF In
<1>5. i = 1
  BY <1>1, <1>4 DEF QueuesOK, Exchange
<1>6. Once(q)
  BY <1>1 DEF QueuesOK
<1>7. q # <<>>
  BY <1>3, <1>4, <1>5, EmptySeq
<1> QED
  BY <1>1, <1>3, <1>4, <1>5, <1>6, <1>7

\* So there is one of them at a session.
LEMMA OneExchange ==
    ASSUME TypeOK, QueuesOK, NEW e, NEW c \in Calls, NEW d \in Calls,
           calls[c].entry = e, calls[d].entry = e, calls[d].at \in Exchange,
           calls[c].at \in Exchange \/ Holds(e, c)
    PROVE  c = d
<1>1. entries[e].queue \in Seq(Calls) /\ entries[e].queue # <<>> /\ entries[e].queue[1] = d
  BY FirstOnly
<1>2. CASE calls[c].at \in Exchange
  BY <1>1, <1>2, FirstOnly
<1>3. CASE Holds(e, c)
  BY <1>1, <1>3 DEF Holds
<1> QED
  BY <1>2, <1>3

\* The call c moves in the queue of e, or joins or leaves it.
LEMMA QueueStep ==
    ASSUME TypeOK, QueuesOK, NEW c \in Calls, NEW r \in Call, CallGiven(c, r),
           NEW e \in DOMAIN entries, NEW q,
           DOMAIN entries' = DOMAIN entries, entries'[e].queue = q,
           \A f \in DOMAIN entries : f # e => entries'[f].queue = entries[f].queue,
           calls[c].entry = e \/ calls[c].at \notin Waiting,
           q \in Seq(Calls), Once(q),
           \A i \in 1..Len(q) : q[i] # c =>
              \E j \in 1..Len(entries[e].queue) : q[i] = entries[e].queue[j] /\ (i # 1 => j # 1),
           \A j \in 1..Len(entries[e].queue) :
              entries[e].queue[j] # c => In(q, entries[e].queue[j]),
           \A i \in 1..Len(q) : q[i] = c =>
              r.entry = e /\ r.at \in Waiting /\ (i # 1 => r.at = "queued"),
           r.at \in Waiting => r.entry = e /\ In(q, c)
    PROVE  QueuesOK'
<1>1. calls'[c] = r /\ \A d \in Calls : d # c => calls'[d] = calls[d]
  BY OneCallChanges
<1>2. ASSUME NEW f \in DOMAIN entries'
      PROVE  Once(entries'[f].queue)
  BY DEF QueuesOK
<1>3. ASSUME NEW i \in 1..Len(q)
      PROVE  /\ calls'[q[i]].entry = e
             /\ calls'[q[i]].at \in Waiting
             /\ i # 1 => calls'[q[i]].at = "queued"
  <2>1. CASE q[i] = c
    BY <1>1, <2>1
  <2>2. CASE q[i] # c
    <3>1. PICK j \in 1..Len(entries[e].queue) : q[i] = entries[e].queue[j] /\ (i # 1 => j # 1)
      BY <2>2
    <3>2. /\ calls[q[i]].entry = e /\ calls[q[i]].at \in Waiting
          /\ i # 1 => calls[q[i]].at = "queued"
      BY <3>1 DEF QueuesOK, Waiting
    <3>3. q[i] \in Calls
      BY ElementOfSeq
    <3> QED
      BY <1>1, <2>2, <3>2, <3>3
  <2> QED
    BY <2>1, <2>2
<1>4. ASSUME NEW f \in DOMAIN entries, f # e, NEW i \in 1..Len(entries[f].queue)
      PROVE  /\ calls'[entries[f].queue[i]].entry = f
             /\ calls'[entries[f].queue[i]].at \in Waiting
             /\ i # 1 => calls'[entries[f].queue[i]].at = "queued"
  <2>1. entries[f].queue[i] \in Calls
    BY TypeFacts, ElementOfSeq DEF Entry
  <2>2. /\ calls[entries[f].queue[i]].entry = f
        /\ calls[entries[f].queue[i]].at \in Waiting
        /\ i # 1 => calls[entries[f].queue[i]].at = "queued"
    BY DEF QueuesOK, Waiting
  <2>3. entries[f].queue[i] # c
    BY <1>4, <2>2
  <2> QED
    BY <1>1, <2>1, <2>2, <2>3
<1>5. ASSUME NEW d \in Calls, calls'[d].at \in Waiting
      PROVE  calls'[d].entry \in DOMAIN entries /\ In(entries'[calls'[d].entry].queue, d)
  <2>1. CASE d = c
    BY <1>1, <1>5, <2>1
  <2>2. CASE d # c
    <3> DEFINE f == calls[d].entry
    <3>1. calls'[d] = calls[d] /\ f \in DOMAIN entries /\ In(entries[f].queue, d)
      BY <1>1, <1>5, <2>2 DEF QueuesOK, Waiting
    <3>2. CASE f = e
      <4>1. PICK j \in 1..Len(entries[e].queue) : entries[e].queue[j] = d
        BY <3>1, <3>2 DEF In
      <4> QED
        BY <2>2, <3>1, <3>2, <4>1
    <3>3. CASE f # e
      BY <3>1, <3>3
    <3> QED
      BY <3>2, <3>3
  <2> QED
    BY <2>1, <2>2
<1>6. ASSUME NEW f \in DOMAIN entries', NEW i \in 1..Len(entries'[f].queue)
      PROVE  /\ calls'[entries'[f].queue[i]].entry = f
             /\ calls'[entries'[f].queue[i]].at \in Waiting
             /\ i # 1 => calls'[entries'[f].queue[i]].at = "queued"
  BY <1>3, <1>4, <1>6
<1> QED
  BY <1>2, <1>5, <1>6 DEF QueuesOK, Waiting

\* The first call of the queue goes on, and keeps the lock.
LEMMA QueueHeld ==
    ASSUME TypeOK, QueuesOK, NEW c \in Calls, NEW r \in Call, CallGiven(c, r),
           NEW e \in DOMAIN entries, calls[c].entry = e, calls[c].at \in Waiting,
           Holds(e, c), r.entry = e, r.at \in Waiting, DOMAIN entries' = DOMAIN entries,
           \A f \in DOMAIN entries : entries'[f].queue = entries[f].queue
    PROVE  QueuesOK'
<1> DEFINE q == entries[e].queue
<1>1. q \in Seq(Calls) /\ Once(q)
  BY TypeFacts DEF Entry, QueuesOK
<1>2. q # <<>> /\ q[1] = c
  BY <1>1 DEF Holds
<1>3. Len(q) \in Nat \ {0}
  BY <1>1, <1>2, EmptySeq
<1>4. \A i \in 1..Len(q) : q[i] = c => i = 1
  BY <1>2, <1>3, <1>1 DEF Once
<1>5. In(q, c) /\ \A j \in 1..Len(q) : In(q, q[j])
  BY <1>2, <1>3 DEF In
<1>6. \A i \in 1..Len(q) : q[i] # c => \E j \in 1..Len(q) : q[i] = q[j] /\ (i # 1 => j # 1)
  OBVIOUS
<1>7. /\ entries'[e].queue = q
      /\ \A f \in DOMAIN entries : f # e => entries'[f].queue = entries[f].queue
  OBVIOUS
<1> HIDE DEF q
<1>8. /\ \A i \in 1..Len(q) : q[i] # c =>
            \E j \in 1..Len(entries[e].queue) : q[i] = entries[e].queue[j] /\ (i # 1 => j # 1)
      /\ \A j \in 1..Len(entries[e].queue) :
            entries[e].queue[j] # c => In(q, entries[e].queue[j])
  BY <1>5, <1>6 DEF q
<1> QED
  BY <1>1, <1>4, <1>5, <1>7, <1>8, QueueStep

\* The first call of the queue gives the lock back.
LEMMA QueueLeft ==
    ASSUME TypeOK, QueuesOK, NEW c \in Calls, NEW r \in Call, CallGiven(c, r),
           NEW e \in DOMAIN entries, calls[c].entry = e, Holds(e, c),
           r.at \notin Waiting, DOMAIN entries' = DOMAIN entries,
           entries'[e].queue = Tail(entries[e].queue),
           \A f \in DOMAIN entries : f # e => entries'[f].queue = entries[f].queue
    PROVE  QueuesOK'
<1> DEFINE o == entries[e].queue
           q == Tail(o)
<1>1. o \in Seq(Calls) /\ Once(o)
  BY TypeFacts DEF Entry, QueuesOK
<1>2. o # <<>> /\ o[1] = c
  BY <1>1 DEF Holds
<1>3. /\ q \in Seq(Calls) /\ Once(q) /\ ~In(q, c)
      /\ Len(q) = Len(o) - 1 /\ Len(o) \in Nat \ {0}
      /\ \A i \in 1..Len(q) : q[i] = o[i + 1]
  BY <1>1, <1>2, LeaveHead
<1> HIDE DEF q
<1>4. ASSUME NEW i \in 1..Len(q), q[i] # c
      PROVE  \E j \in 1..Len(o) : q[i] = o[j] /\ (i # 1 => j # 1)
  BY <1>3
<1>5. ASSUME NEW j \in 1..Len(o), o[j] # c
      PROVE  In(q, o[j])
  <2>1. j - 1 \in 1..Len(q) /\ q[j - 1] = o[j]
    BY <1>2, <1>3, <1>5
  <2> QED
    BY <2>1 DEF In
<1>6. \A i \in 1..Len(q) : q[i] # c
  BY <1>3 DEF In
<1>7. entries'[e].queue = q
  BY DEF q
<1>8. /\ \A i \in 1..Len(q) : q[i] # c =>
            \E j \in 1..Len(entries[e].queue) : q[i] = entries[e].queue[j] /\ (i # 1 => j # 1)
      /\ \A j \in 1..Len(entries[e].queue) :
            entries[e].queue[j] # c => In(q, entries[e].queue[j])
      /\ \A i \in 1..Len(q) : q[i] = c =>
            r.entry = e /\ r.at \in Waiting /\ (i # 1 => r.at = "queued")
  BY <1>4, <1>5, <1>6
<1>9. q \in Seq(Calls) /\ Once(q)
  BY <1>3
<1> HIDE DEF o
<1>10. \A i \in 1..Len(q) : q[i] # c =>
          \E j \in 1..Len(entries[e].queue) : q[i] = entries[e].queue[j] /\ (i # 1 => j # 1)
  BY <1>8
<1>11. \A j \in 1..Len(entries[e].queue) :
          entries[e].queue[j] # c => In(q, entries[e].queue[j])
  BY <1>8
<1>12. \A i \in 1..Len(q) : q[i] = c =>
          r.entry = e /\ r.at \in Waiting /\ (i # 1 => r.at = "queued")
  BY <1>8
<1>13. /\ calls[c].entry = e \/ calls[c].at \notin Waiting
       /\ r.at \in Waiting => r.entry = e /\ In(q, c)
  OBVIOUS
<1> QED
  BY <1>7, <1>9, <1>10, <1>11, <1>12, <1>13, QueueStep, SMTT(30)

\* Nothing changes at the locks.
LEMMA QueueFrame ==
    ASSUME QueuesOK, calls' = calls, DOMAIN entries' = DOMAIN entries,
           \A f \in DOMAIN entries : entries'[f].queue = entries[f].queue
    PROVE  QueuesOK'
<1>1. \A f \in DOMAIN entries' : Once(entries'[f].queue)
  BY DEF QueuesOK
<1>2. ASSUME NEW f \in DOMAIN entries', NEW i \in 1..Len(entries'[f].queue)
      PROVE  /\ calls'[entries'[f].queue[i]].entry = f
             /\ calls'[entries'[f].queue[i]].at \in Waiting
             /\ i # 1 => calls'[entries'[f].queue[i]].at = "queued"
  <2>1. /\ f \in DOMAIN entries /\ i \in 1..Len(entries[f].queue)
        /\ entries'[f].queue = entries[f].queue
    OBVIOUS
  <2>2. /\ calls[entries[f].queue[i]].entry = f
        /\ calls[entries[f].queue[i]].at \in Waiting
        /\ i # 1 => calls[entries[f].queue[i]].at = "queued"
    BY <2>1 DEF QueuesOK, Waiting
  <2> QED
    BY <2>1, <2>2
<1>3. \A c \in Calls : calls'[c].at \in Waiting =>
          calls'[c].entry \in DOMAIN entries' /\ In(entries'[calls'[c].entry].queue, c)
  BY DEF QueuesOK, Waiting
<1> QED
  BY <1>1, <1>2, <1>3 DEF QueuesOK, Waiting

(***************************************************************************)
(* Steps of one call                                                       *)
(***************************************************************************)

\* No process and no pipe has the code of c.
CodeNot(c) ==
    /\ \A p \in procs : p.does = "runs" => p.call # c
    /\ \A e \in DOMAIN entries : ~In(entries[e].inbox, c)

NotAnswered(r) == r.at = "sent" \/ (r.at = "ended" /\ r.outcome \in {"error", "cancelled"})

\* The code of an answered call is nowhere.
LEMMA CodeGone ==
    ASSUME CodeUnanswered, NEW c \in Calls, ~Unanswered(c)
    PROVE  CodeNot(c)
<1>1. ASSUME NEW p \in procs, p.does = "runs"
      PROVE  p.call # c
  BY <1>1 DEF CodeUnanswered, AskedAt
<1>2. ASSUME NEW e \in DOMAIN entries
      PROVE  ~In(entries[e].inbox, c)
  BY DEF CodeUnanswered, AskedAt
<1> QED
  BY <1>1, <1>2 DEF CodeNot

\* The call c goes on to r: what there is to know for the parts of the invariant
\* that are about calls, files and what runs.
LEMMA CodeOfCall ==
    ASSUME TypeOK, CodeUnanswered, NEW c \in Calls, NEW r \in Call, CallGiven(c, r),
           CodeNot(c) \/ (NotAnswered(r) /\ r.entry = calls[c].entry),
           procs' \subseteq procs,
           \A e \in DOMAIN entries', d \in Calls : In(entries'[e].inbox, d) =>
              \/ d = c /\ NotAnswered(r) /\ r.entry = e
              \/ e \in DOMAIN entries /\ In(entries[e].inbox, d)
    PROVE  CodeUnanswered'
<1>1. calls'[c] = r /\ \A d \in Calls : d # c => calls'[d] = calls[d]
  BY OneCallChanges
<1>2. ASSUME NEW e, NEW d, AskedAt(e, d), d # c \/ ~CodeNot(c)
      PROVE  AskedAt(e, d)'
  <2>1. CASE d # c
    BY <1>1, <1>2, <2>1 DEF AskedAt, Unanswered
  <2>2. CASE d = c
    BY <1>1, <1>2, <2>2 DEF AskedAt, Unanswered, NotAnswered
  <2> QED
    BY <2>1, <2>2
<1>3. ASSUME NEW p \in procs', p.does = "runs"
      PROVE  AskedAt(p.entry, p.call)'
  <2>1. p \in procs /\ AskedAt(p.entry, p.call)
    BY <1>3 DEF CodeUnanswered
  <2>2. p.call # c \/ ~CodeNot(c)
    BY <1>3, <2>1 DEF CodeNot
  <2> QED
    BY <1>2, <2>1, <2>2
<1>4. ASSUME NEW e \in DOMAIN entries', NEW d \in Calls, In(entries'[e].inbox, d)
      PROVE  AskedAt(e, d)'
  <2>1. CASE d = c /\ NotAnswered(r) /\ r.entry = e
    BY <1>1, <2>1 DEF AskedAt, Unanswered, NotAnswered
  <2>2. CASE e \in DOMAIN entries /\ In(entries[e].inbox, d)
    <3>1. AskedAt(e, d)
      BY <2>2 DEF CodeUnanswered
    <3>2. d # c \/ ~CodeNot(c)
      BY <2>2 DEF CodeNot
    <3> QED
      BY <1>2, <3>1, <3>2
  <2> QED
    BY <1>4, <2>1, <2>2
<1>5. \A e \in DOMAIN entries', d \in Calls : In(entries'[e].inbox, d) => AskedAt(e, d)'
  BY <1>4
<1>6. \A p \in procs' : p.does = "runs" => AskedAt(p.entry, p.call)'
  BY <1>3
<1> QED
  BY <1>5, <1>6 DEF CodeUnanswered, AskedAt, Unanswered, In

\* Answers stay good while entries have ever more pids.
LEMMA AnswersKept ==
    ASSUME TypeOK, QueuesOK, CallsOK, NEW c \in Calls, NEW r \in Call, CallGiven(c, r),
           r.at # "ended" => r.outcome = "none",
           r.at # "received" => r.answer = NoAnswer,
           r.at = "received" =>
              /\ r.answer \in Answers /\ r.answer.call = c
              /\ r.answer.status = "ok" => r.answer.pid \in 1..entries[r.entry].lastPid,
           r.at = "received" => r.entry \in DOMAIN entries,
           \A f \in DOMAIN entries : entries'[f].lastPid = entries[f].lastPid
    PROVE  CallsOK'
<1>1. calls'[c] = r /\ \A d \in Calls : d # c => calls'[d] = calls[d]
  BY OneCallChanges
<1>2. ASSUME NEW d \in Calls, d # c
      PROVE  /\ calls'[d].at # "ended" => calls'[d].outcome = "none"
             /\ calls'[d].at # "received" => calls'[d].answer = NoAnswer
             /\ calls'[d].at = "received" =>
                   /\ calls'[d].answer \in Answers /\ calls'[d].answer.call = d
                   /\ calls'[d].answer.status = "ok" =>
                         calls'[d].answer.pid \in 1..entries'[calls'[d].entry].lastPid
  <2>1. calls'[d] = calls[d]
    BY <1>1, <1>2
  <2>2. calls[d].at = "received" => calls[d].entry \in DOMAIN entries
    BY DEF QueuesOK, Exchange
  <2>3. /\ calls[d].at # "ended" => calls[d].outcome = "none"
        /\ calls[d].at # "received" => calls[d].answer = NoAnswer
        /\ calls[d].at = "received" =>
              /\ calls[d].answer \in Answers /\ calls[d].answer.call = d
              /\ calls[d].answer.status = "ok" =>
                    calls[d].answer.pid \in 1..entries[calls[d].entry].lastPid
    BY DEF CallsOK
  <2>4. calls[d].at = "received" =>
          entries'[calls[d].entry].lastPid = entries[calls[d].entry].lastPid
    BY <2>2
  <2> QED
    BY <2>1, <2>3, <2>4
<1>3. /\ calls'[c].at # "ended" => calls'[c].outcome = "none"
      /\ calls'[c].at # "received" => calls'[c].answer = NoAnswer
      /\ calls'[c].at = "received" =>
            /\ calls'[c].answer \in Answers /\ calls'[c].answer.call = c
            /\ calls'[c].answer.status = "ok" =>
                  calls'[c].answer.pid \in 1..entries'[calls'[c].entry].lastPid
  BY <1>1
<1> QED
  BY <1>2, <1>3 DEF CallsOK

\* What it takes for a step of the call c to keep the invariant.
LEMMA CallStep ==
    ASSUME IInv, NEW c \in Calls, NEW r \in Call, CallGiven(c, r),
           calls[c].at # "ended", r.entry \in 0..Len(entries),
           r.at # "ended" => r.outcome = "none",
           r.at # "received" => r.answer = NoAnswer,
           r.at = "received" =>
              /\ r.answer \in Answers /\ r.answer.call = c
              /\ r.answer.status = "ok" => r.answer.pid \in 1..entries[r.entry].lastPid,
           r.at = "received" => r.entry \in DOMAIN entries,
           CodeNot(c) \/ (NotAnswered(r) /\ r.entry = calls[c].entry),
           r.outcome = "error" => r.entry \in disturbed',
           entries' \in Seq(Entry), Len(entries') = Len(entries),
           DOMAIN entries' = DOMAIN entries,
           \A f \in DOMAIN entries : /\ entries'[f].lastPid = entries[f].lastPid
                                     /\ entries'[f].known \in 1..entries[f].lastPid
                                     /\ f \notin disturbed' => entries'[f].open,
           \A e \in DOMAIN entries, d \in Calls : In(entries'[e].inbox, d) =>
              In(entries[e].inbox, d) \/ (d = c /\ NotAnswered(r) /\ r.entry = e),
           sessions' \in [Sessions -> 0..Len(entries)], procs' \subseteq procs,
           stage' \subseteq stage, files' \subseteq files \cup {c},
           disturbed \subseteq disturbed', disturbed' \subseteq DOMAIN entries,
           faults' \in 0..MaxFaults,
           c \in files' => r.outcome = "ok",
           r.outcome \in {"ok", "failed", "timeout", "unpublished"} => c \notin stage',
           SessionsOpen', QueuesOK', OpenOK'
    PROVE  IInv'
<1>1. /\ TypeOK /\ QueuesOK /\ CallsOK /\ CodeUnanswered /\ ProcsOK /\ Undisturbed
      /\ PublishedIfAnswered
  BY DEF IInv
<1>2. calls' \in [Calls -> Call] /\ calls'[c] = r /\ \A d \in Calls : d # c => calls'[d] = calls[d]
  BY <1>1, OneCallChanges
<1>3. TypeOK'
  <2>1. \A p \in procs' : p.entry \in DOMAIN entries' /\ p.pid \in 1..entries'[p.entry].lastPid
    BY <1>1 DEF TypeOK
  <2>2. \A d \in Calls : calls'[d].entry \in 0..Len(entries')
    BY <1>1, <1>2 DEF TypeOK
  <2>3. \A f \in DOMAIN entries' : entries'[f].known \in 1..entries'[f].lastPid
    OBVIOUS
  <2>4. procs' \subseteq Process /\ stage' \subseteq Calls /\ files' \subseteq Calls
    BY <1>1 DEF TypeOK
  <2> QED
    BY <1>2, <2>1, <2>2, <2>3, <2>4 DEF TypeOK
<1>4. CallsOK'
  BY <1>1, AnswersKept
<1>5. ProcsOK'
  BY <1>1 DEF ProcsOK
<1>6. CodeUnanswered'
  <2>1. \A e \in DOMAIN entries', d \in Calls : In(entries'[e].inbox, d) =>
          \/ d = c /\ NotAnswered(r) /\ r.entry = e
          \/ e \in DOMAIN entries /\ In(entries[e].inbox, d)
    OBVIOUS
  <2> QED
    BY <1>1, <2>1, CodeOfCall
<1>7. Undisturbed'
  <2>1. ASSUME NEW d \in Calls, calls'[d].outcome = "error"
        PROVE  calls'[d].entry \in disturbed'
    BY <1>1, <1>2, <2>1 DEF Undisturbed
  <2> QED
    BY <2>1 DEF Undisturbed
<1>8. PublishedIfAnswered'
  <2>1. ASSUME NEW d \in Calls
        PROVE  /\ d \in files' => calls'[d].outcome = "ok"
               /\ calls'[d].outcome \in {"ok", "failed", "timeout", "unpublished"} =>
                     d \notin stage'
    <3>1. CASE d = c
      BY <1>2, <3>1
    <3>2. CASE d # c
      BY <1>1, <1>2, <3>2 DEF PublishedIfAnswered
    <3> QED
      BY <3>1, <3>2
  <2> QED
    BY <2>1 DEF PublishedIfAnswered
<1> QED
  BY <1>3, <1>4, <1>5, <1>6, <1>7, <1>8 DEF IInv

\* The entries and sessions are as open as they were.
LEMMA OpenFrame ==
    ASSUME SessionsOpen, sessions' = sessions, DOMAIN entries' = DOMAIN entries,
           \A f \in DOMAIN entries : entries'[f].open = entries[f].open
    PROVE  SessionsOpen'
<1>1. \A e \in DOMAIN entries : Current(e)' <=> Current(e)
  BY DEF Current
<1>2. \A e \in DOMAIN entries' : entries'[e].open <=> Current(e)'
  BY <1>1 DEF SessionsOpen
<1> QED
  BY <1>2 DEF SessionsOpen

\* A call that does not exchange waits, leaves or comes back.
LEMMA QuietCall ==
    ASSUME IInv, NEW c \in Calls, NEW r \in Call, CallGiven(c, r),
           calls[c].at \in {"new", "queued", "sending"}, r.entry \in 0..Len(entries),
           r.at \in {"new", "queued", "sending", "ended"}, r.answer = NoAnswer,
           r.at # "ended" => r.outcome = "none",
           r.outcome \in {"none", "cancelled", "full"},
           entries' \in Seq(Entry), Len(entries') = Len(entries),
           DOMAIN entries' = DOMAIN entries,
           \A f \in DOMAIN entries : SameChannel(f) /\ entries'[f].open = entries[f].open,
           sessions' = sessions, procs' = procs, stage' = stage, files' = files,
           disturbed' = disturbed, faults' \in 0..MaxFaults, QueuesOK'
    PROVE  IInv'
<1>1. /\ TypeOK /\ QueuesOK /\ CallsOK /\ CodeUnanswered /\ SessionsOpen /\ Undisturbed
      /\ PublishedIfAnswered /\ OpenOK
  BY DEF IInv
<1>2. SessionsOpen'
  BY <1>1, OpenFrame
<1>3. OpenOK'
  <2> SUFFICES ASSUME NEW e \in DOMAIN entries, entries[e].open
               PROVE  Mode(e)'
    BY DEF OpenOK
  <2>1. Mode(e)
    BY <1>1 DEF OpenOK
  <2>2. SameGood(e)
    BY <1>1, GoodFrame
  <2>3. SameSent(e)
    BY <1>1, SentFrame
  <2>4. SameProcs(e)
    BY SameProcsFrame
  <2> QED
    BY <2>1, <2>2, <2>3, <2>4, ModeFrame
<1>4. CodeNot(c)
  BY <1>1, CodeGone DEF Unanswered
<1>5. calls[c].outcome = "none" /\ c \notin files
  BY <1>1 DEF CallsOK, PublishedIfAnswered
<1>6. \A f \in DOMAIN entries : /\ entries'[f].lastPid = entries[f].lastPid
                                /\ entries'[f].known \in 1..entries[f].lastPid
                                /\ f \notin disturbed' => entries'[f].open
                                /\ entries'[f].inbox = entries[f].inbox
  BY <1>1 DEF SameChannel, TypeOK, Undisturbed
<1>7. sessions' \in [Sessions -> 0..Len(entries)] /\ disturbed' \subseteq DOMAIN entries
  BY <1>1 DEF TypeOK
<1>8. \A e \in DOMAIN entries, d \in Calls : In(entries'[e].inbox, d) => In(entries[e].inbox, d)
  BY <1>6 DEF In
<1> QED
  BY <1>2, <1>3, <1>4, <1>5, <1>6, <1>7, <1>8, CallStep

(***************************************************************************)
(* Calls that wait, come back or are given up before their exchange        *)
(***************************************************************************)

\* The queue of one entry changes, and nothing of another entry.
LEMMA OneQueueChanges ==
    ASSUME TypeOK, NEW e \in DOMAIN entries, NEW q \in Seq(Calls),
           entries' = [entries EXCEPT ![e].queue = q]
    PROVE  /\ entries' \in Seq(Entry) /\ Len(entries') = Len(entries)
           /\ DOMAIN entries' = DOMAIN entries
           /\ \A f \in DOMAIN entries : SameChannel(f) /\ entries'[f].open = entries[f].open
           /\ entries'[e].queue = q
           /\ \A f \in DOMAIN entries : f # e => entries'[f].queue = entries[f].queue
<1>1. PICK x : x = [entries[e] EXCEPT !.queue = q]
  OBVIOUS
<1>2. entries[e] \in Entry
  BY TypeFacts
<1>3. /\ x \in Entry /\ x.queue = q /\ x.open = entries[e].open /\ x.known = entries[e].known
      /\ x.lastPid = entries[e].lastPid /\ x.inbox = entries[e].inbox
      /\ x.outbox = entries[e].outbox
  BY <1>1, <1>2 DEF Entry
<1>4. EntryGiven(e, x)
  BY <1>1 DEF EntryGiven
<1>5. /\ entries' \in Seq(Entry) /\ entries'[e] = x
      /\ Len(entries') = Len(entries) /\ DOMAIN entries' = DOMAIN entries
      /\ \A f \in DOMAIN entries : f # e => entries'[f] = entries[f]
  BY <1>3, <1>4, OneEntryChanges
<1>6. ASSUME NEW f \in DOMAIN entries
      PROVE  SameChannel(f) /\ entries'[f].open = entries[f].open
  <2>1. CASE f = e
    BY <1>3, <1>5, <2>1 DEF SameChannel
  <2>2. CASE f # e
    BY <1>5, <2>2 DEF SameChannel
  <2> QED
    BY <2>1, <2>2
<1> QED
  BY <1>3, <1>5, <1>6

\* The entries are as they were.
LEMMA EntriesFrame ==
    ASSUME TypeOK, entries' = entries
    PROVE  /\ entries' \in Seq(Entry) /\ Len(entries') = Len(entries)
           /\ DOMAIN entries' = DOMAIN entries
           /\ \A f \in DOMAIN entries : SameChannel(f) /\ entries'[f].open = entries[f].open
           /\ \A f \in DOMAIN entries : entries'[f].queue = entries[f].queue
BY DEF TypeOK, SameChannel

\* A call that is over or comes back belongs to no entry that it was not at.
LEMMA QueueIdle ==
    ASSUME TypeOK, QueuesOK, NEW c \in Calls, NEW r \in Call, CallGiven(c, r),
           calls[c].at \notin Waiting, r.at \notin Waiting, entries' = entries
    PROVE  QueuesOK'
<1>1. calls'[c] = r /\ \A d \in Calls : d # c => calls'[d] = calls[d]
  BY OneCallChanges
<1>2. ASSUME NEW f \in DOMAIN entries', NEW i \in 1..Len(entries'[f].queue)
      PROVE  /\ calls'[entries'[f].queue[i]].entry = f
             /\ calls'[entries'[f].queue[i]].at \in Waiting
             /\ i # 1 => calls'[entries'[f].queue[i]].at = "queued"
  <2>1. /\ f \in DOMAIN entries /\ i \in 1..Len(entries[f].queue)
        /\ entries'[f].queue = entries[f].queue
    OBVIOUS
  <2>2. /\ calls[entries[f].queue[i]].entry = f
        /\ calls[entries[f].queue[i]].at \in Waiting
        /\ i # 1 => calls[entries[f].queue[i]].at = "queued"
    BY <2>1 DEF QueuesOK, Waiting
  <2>3. entries[f].queue[i] \in Calls
    BY <2>1, TypeFacts, ElementOfSeq DEF Entry
  <2>4. entries[f].queue[i] # c
    BY <2>2
  <2> QED
    BY <1>1, <2>1, <2>2, <2>3, <2>4
<1>3. ASSUME NEW d \in Calls, calls'[d].at \in Waiting
      PROVE  calls'[d].entry \in DOMAIN entries' /\ In(entries'[calls'[d].entry].queue, d)
  <2>1. d # c /\ calls'[d] = calls[d]
    BY <1>1, <1>3
  <2> QED
    BY <1>3, <2>1 DEF QueuesOK, Waiting
<1>4. \A f \in DOMAIN entries' : Once(entries'[f].queue)
  BY DEF QueuesOK
<1> QED
  BY <1>2, <1>3, <1>4 DEF QueuesOK, Waiting

\* A call joins the queue of the session's entry.
Joins(c, e) ==
    /\ calls[c].at = "new" /\ e = sessions[calls[c].session] /\ e # 0
    /\ entries' = [entries EXCEPT ![e].queue = Append(@, c)]
    /\ calls' = [calls EXCEPT ![c].at = "queued", ![c].entry = e]
    /\ UNCHANGED <<sessions, procs, stage, files, disturbed, faults>>

\* A call joins the queue of its session.
LEMMA EnterJoins ==
    ASSUME IInv, NEW c \in Calls, NEW e, Joins(c, e)
    PROVE  IInv'
<1>1. TypeOK /\ QueuesOK /\ CallsOK
  BY DEF IInv
<1>2. calls[c] \in Call
  BY <1>1, TypeFacts
<1>3. e \in DOMAIN entries
  <2>1. calls[c].session \in Sessions
    BY <1>2 DEF Call
  <2>2. e \in 0..Len(entries) /\ e # 0
    BY <1>1, <2>1 DEF TypeOK, Joins
  <2> QED
    BY <1>1, <2>2, TypeFacts
<1>4. PICK r : r = [calls[c] EXCEPT !.at = "queued", !.entry = e]
  OBVIOUS
<1>5. e \in Nat /\ e \in 0..Len(entries)
  BY <1>1, <1>3, TypeFacts
<1>6. /\ r \in Call /\ r.at = "queued" /\ r.entry = e /\ r.answer = calls[c].answer
      /\ r.outcome = calls[c].outcome
  BY <1>2, <1>4, <1>5 DEF Call, Steps
<1>7. CallGiven(c, r)
  BY <1>1, <1>4 DEF CallGiven, TypeOK, Joins
<1>8. PICK o : o = entries[e].queue
  OBVIOUS
<1>9. o \in Seq(Calls) /\ Once(o) /\ ~In(o, c) /\ Len(o) \in Nat
  <2>1. o \in Seq(Calls) /\ Once(o)
    BY <1>1, <1>3, <1>8, TypeFacts DEF Entry, QueuesOK
  <2>2. ~In(o, c)
    BY <1>1, <1>3, <1>8 DEF In, QueuesOK, Exchange, Joins
  <2> QED
    BY <2>1, <2>2, LenProperties
<1>10. PICK q : q = Append(o, c)
  OBVIOUS
<1>11. /\ q \in Seq(Calls) /\ Once(q)
       /\ Len(q) = Len(o) + 1
       /\ \A i \in 1..Len(o) : q[i] = o[i]
       /\ q[Len(o) + 1] = c
  BY <1>9, <1>10, JoinQueue
<1>12. /\ entries' \in Seq(Entry) /\ Len(entries') = Len(entries)
       /\ DOMAIN entries' = DOMAIN entries
       /\ \A f \in DOMAIN entries : SameChannel(f) /\ entries'[f].open = entries[f].open
       /\ entries'[e].queue = q
       /\ \A f \in DOMAIN entries : f # e => entries'[f].queue = entries[f].queue
  <2>1. entries' = [entries EXCEPT ![e].queue = q]
    BY <1>8, <1>10 DEF Joins
  <2> QED
    BY <1>1, <1>3, <1>11, <2>1, OneQueueChanges
<1>13. ASSUME NEW i \in 1..Len(q)
       PROVE  i \in 1..Len(o) \/ (i = Len(o) + 1 /\ q[i] = c)
  BY <1>9, <1>11
<1>14. calls[c].at \notin Waiting /\ r.at \in Waiting
  BY <1>6 DEF Waiting, Exchange, Joins
<1>15. QueuesOK'
  <2>1. \A i \in 1..Len(q) : q[i] # c =>
           \E j \in 1..Len(entries[e].queue) : q[i] = entries[e].queue[j] /\ (i # 1 => j # 1)
    BY <1>8, <1>11, <1>13
  <2>2. \A j \in 1..Len(o) : j \in 1..Len(q)
    BY <1>9, <1>11
  <2>3. \A j \in 1..Len(entries[e].queue) :
           entries[e].queue[j] # c => In(q, entries[e].queue[j])
    BY <1>8, <1>11, <2>2 DEF In
  <2>4. Len(q) \in 1..Len(q) /\ In(q, c)
    BY <1>9, <1>11 DEF In
  <2>5. \A i \in 1..Len(q) : q[i] = c =>
           r.entry = e /\ r.at \in Waiting /\ (i # 1 => r.at = "queued")
    BY <1>6, <1>14
  <2>6. /\ calls[c].entry = e \/ calls[c].at \notin Waiting
        /\ r.at \in Waiting => r.entry = e /\ In(q, c)
        /\ r \in Call /\ q \in Seq(Calls) /\ Once(q) /\ TypeOK /\ QueuesOK
    BY <1>1, <1>6, <1>11, <1>14, <2>4
  <2>7. /\ DOMAIN entries' = DOMAIN entries /\ entries'[e].queue = q
        /\ \A f \in DOMAIN entries : f # e => entries'[f].queue = entries[f].queue
    BY <1>12
  <2> QED
    BY <1>3, <1>7, <2>1, <2>3, <2>5, <2>6, <2>7, QueueStep
<1>16. r.answer = NoAnswer /\ r.outcome = "none"
  BY <1>1, <1>6 DEF CallsOK, Joins
<1>17. /\ UNCHANGED <<sessions, procs, stage, files, disturbed, faults>>
       /\ calls[c].at = "new" /\ faults' \in 0..MaxFaults
  BY <1>1 DEF Joins, TypeOK
<1> QED
  BY <1>5, <1>6, <1>7, <1>12, <1>15, <1>16, <1>17, QuietCall

\* The pool is full.
LEMMA EnterFull ==
    ASSUME IInv, NEW c \in Calls, calls[c].at = "new",
           calls' = [calls EXCEPT ![c].at = "ended", ![c].outcome = "full"],
           UNCHANGED <<entries, sessions, procs, stage, files, disturbed, faults>>
    PROVE  IInv'
<1>1. TypeOK /\ QueuesOK /\ CallsOK
  BY DEF IInv
<1>2. calls[c] \in Call
  BY <1>1, TypeFacts
<1>3. PICK r : r = [calls[c] EXCEPT !.at = "ended", !.outcome = "full"]
  OBVIOUS
<1>4. /\ r \in Call /\ r.at = "ended" /\ r.outcome = "full" /\ r.answer = calls[c].answer
      /\ r.entry = calls[c].entry
  BY <1>2, <1>3 DEF Call, Steps, Outcomes
<1>5. CallGiven(c, r)
  BY <1>1, <1>3 DEF CallGiven, TypeOK
<1>6. r.answer = NoAnswer /\ r.entry \in 0..Len(entries)
  BY <1>1, <1>4 DEF CallsOK, TypeOK
<1>7. QueuesOK'
  BY <1>1, <1>4, <1>5, QueueIdle DEF Waiting, Exchange
<1> QED
  BY <1>1, <1>4, <1>5, <1>6, <1>7, EntriesFrame, QuietCall DEF TypeOK

\* The entry was replaced: once more around.
LEMMA RetryStep ==
    ASSUME IInv, NEW c \in Calls, Retry(c)
    PROVE  IInv'
<1>1. TypeOK /\ QueuesOK /\ CallsOK
  BY DEF IInv
<1>2. calls[c] \in Call
  BY <1>1, TypeFacts
<1>3. PICK e : e = calls[c].entry
  OBVIOUS
<1>4. /\ calls[c].at = "queued" /\ Holds(e, c)
      /\ entries' = [entries EXCEPT ![e].queue = Tail(entries[e].queue)]
      /\ calls' = [calls EXCEPT ![c].at = "new", ![c].entry = 0]
      /\ UNCHANGED <<sessions, procs, stage, files, disturbed, faults>>
  BY <1>3 DEF Retry
<1>5. e \in DOMAIN entries
  BY <1>1, <1>3, <1>4 DEF QueuesOK
<1>6. PICK r : r = [calls[c] EXCEPT !.at = "new", !.entry = 0]
  OBVIOUS
<1>7. /\ r \in Call /\ r.at = "new" /\ r.entry = 0 /\ r.answer = calls[c].answer
      /\ r.outcome = calls[c].outcome
  BY <1>2, <1>6 DEF Call, Steps
<1>8. CallGiven(c, r)
  BY <1>1, <1>4, <1>6 DEF CallGiven, TypeOK
<1>9. r.answer = NoAnswer /\ r.outcome = "none" /\ r.entry \in 0..Len(entries)
  BY <1>1, <1>4, <1>7, TypeFacts DEF CallsOK
<1>10. entries[e].queue \in Seq(Calls) /\ Once(entries[e].queue) /\ entries[e].queue # <<>>
  BY <1>1, <1>4, <1>5, TypeFacts DEF Entry, QueuesOK, Holds
<1>11. Tail(entries[e].queue) \in Seq(Calls)
  BY <1>10, LeaveHead
<1>12. /\ entries' \in Seq(Entry) /\ Len(entries') = Len(entries)
       /\ DOMAIN entries' = DOMAIN entries
       /\ \A f \in DOMAIN entries : SameChannel(f) /\ entries'[f].open = entries[f].open
       /\ entries'[e].queue = Tail(entries[e].queue)
       /\ \A f \in DOMAIN entries : f # e => entries'[f].queue = entries[f].queue
  BY <1>1, <1>4, <1>5, <1>11, OneQueueChanges
<1>13. r.at \notin Waiting
  BY <1>7 DEF Waiting, Exchange
<1>14. QueuesOK'
  BY <1>1, <1>3, <1>4, <1>5, <1>7, <1>8, <1>12, <1>13, QueueLeft
<1> QED
  BY <1>1, <1>4, <1>7, <1>8, <1>9, <1>12, <1>14, QuietCall DEF TypeOK

\* A call that has the lock begins its exchange.
LEMMA ProceedStep ==
    ASSUME IInv, NEW c \in Calls, Proceed(c)
    PROVE  IInv'
<1>1. TypeOK /\ QueuesOK /\ CallsOK
  BY DEF IInv
<1>2. calls[c] \in Call
  BY <1>1, TypeFacts
<1>3. PICK e : e = calls[c].entry
  OBVIOUS
<1>4. /\ calls[c].at = "queued" /\ Holds(e, c)
      /\ calls' = [calls EXCEPT ![c].at = "sending"]
      /\ UNCHANGED <<sessions, entries, procs, stage, files, disturbed, faults>>
  BY <1>3 DEF Proceed
<1>5. e \in DOMAIN entries
  BY <1>1, <1>3, <1>4 DEF QueuesOK
<1>6. PICK r : r = [calls[c] EXCEPT !.at = "sending"]
  OBVIOUS
<1>7. /\ r \in Call /\ r.at = "sending" /\ r.entry = e /\ r.answer = calls[c].answer
      /\ r.outcome = calls[c].outcome
  BY <1>2, <1>3, <1>6 DEF Call, Steps
<1>8. CallGiven(c, r)
  BY <1>1, <1>4, <1>6 DEF CallGiven, TypeOK
<1>9. r.answer = NoAnswer /\ r.outcome = "none" /\ r.entry \in 0..Len(entries)
  BY <1>1, <1>4, <1>5, <1>7, TypeFacts DEF CallsOK
<1>10. r.at \in Waiting /\ calls[c].at \in Waiting
  BY <1>4, <1>7 DEF Waiting, Exchange
<1>11. QueuesOK'
  BY <1>1, <1>3, <1>4, <1>5, <1>7, <1>8, <1>10, EntriesFrame, QueueHeld
<1> QED
  BY <1>1, <1>4, <1>7, <1>8, <1>9, <1>11, EntriesFrame, QuietCall DEF TypeOK

\* Who exchanges holds the lock.
LEMMA ExchangeHolds ==
    ASSUME TypeOK, QueuesOK, NEW c \in Calls, calls[c].at \in Exchange, NEW e, e = calls[c].entry
    PROVE  e \in DOMAIN entries /\ Holds(e, c)
<1>1. /\ e \in DOMAIN entries /\ entries[e].queue \in Seq(Calls)
      /\ entries[e].queue # <<>> /\ entries[e].queue[1] = c /\ Once(entries[e].queue)
  BY FirstOnly
<1>2. Head(entries[e].queue) = entries[e].queue[1]
  BY <1>1, LeaveHead
<1> QED
  BY <1>1, <1>2 DEF Holds

\* A cancelled waiter leaves the queue.
CancelWaits(c, e) ==
    /\ e = calls[c].entry /\ calls[c].at = "queued" /\ faults' \in 0..MaxFaults
    /\ entries' = [entries EXCEPT ![e].queue = Without(@, c)]
    /\ calls' = [calls EXCEPT ![c].at = "ended", ![c].outcome = "cancelled"]
    /\ UNCHANGED <<sessions, procs, stage, files, disturbed>>

\* A call that waits is cancelled.
LEMMA CancelWaitsStep ==
    ASSUME IInv, NEW c \in Calls, NEW e, CancelWaits(c, e)
    PROVE  IInv'
<1>1. TypeOK /\ QueuesOK /\ CallsOK
  BY DEF IInv
<1>2. calls[c] \in Call
  BY <1>1, TypeFacts
<1>3. /\ UNCHANGED <<sessions, procs, stage, files, disturbed>>
      /\ calls[c].at = "queued" /\ faults' \in 0..MaxFaults /\ e = calls[c].entry
  BY DEF CancelWaits
<1>4. e \in DOMAIN entries
  BY <1>1, <1>3 DEF QueuesOK
<1>5. PICK r : r = [calls[c] EXCEPT !.at = "ended", !.outcome = "cancelled"]
  OBVIOUS
<1>6. /\ r \in Call /\ r.at = "ended" /\ r.outcome = "cancelled" /\ r.answer = calls[c].answer
      /\ r.entry = calls[c].entry
  BY <1>2, <1>5 DEF Call, Steps, Outcomes
<1>7. CallGiven(c, r)
  BY <1>1, <1>5 DEF CallGiven, TypeOK, CancelWaits
<1>8. PICK o : o = entries[e].queue
  OBVIOUS
<1>9. o \in Seq(Calls) /\ Once(o) /\ In(o, c)
  <2>1. o \in Seq(Calls) /\ Once(o)
    BY <1>1, <1>4, <1>8, TypeFacts DEF Entry, QueuesOK
  <2>2. In(o, c)
    BY <1>1, <1>3, <1>8 DEF QueuesOK
  <2> QED
    BY <2>1, <2>2
<1>10. PICK q : q = Without(o, c)
  OBVIOUS
<1>11. /\ q \in Seq(Calls) /\ Once(q) /\ ~In(q, c)
       /\ \A i \in 1..Len(q) : \E j \in 1..Len(o) : q[i] = o[j] /\ (i # 1 => j # 1)
       /\ \A j \in 1..Len(o) : o[j] # c => In(q, o[j])
  BY <1>9, <1>10, LeaveQueue
<1>12. /\ entries' \in Seq(Entry) /\ Len(entries') = Len(entries)
       /\ DOMAIN entries' = DOMAIN entries
       /\ \A f \in DOMAIN entries : SameChannel(f) /\ entries'[f].open = entries[f].open
       /\ entries'[e].queue = q
       /\ \A f \in DOMAIN entries : f # e => entries'[f].queue = entries[f].queue
  <2>1. entries' = [entries EXCEPT ![e].queue = q]
    BY <1>8, <1>10 DEF CancelWaits
  <2> QED
    BY <1>1, <1>4, <1>11, <2>1, OneQueueChanges
<1>13. QueuesOK'
  <2>1. \A i \in 1..Len(q) : q[i] # c =>
           \E j \in 1..Len(entries[e].queue) : q[i] = entries[e].queue[j] /\ (i # 1 => j # 1)
    BY <1>8, <1>11
  <2>2. \A j \in 1..Len(entries[e].queue) :
           entries[e].queue[j] # c => In(q, entries[e].queue[j])
    BY <1>8, <1>11
  <2>3. \A i \in 1..Len(q) : q[i] # c
    BY <1>11 DEF In
  <2>4. r.at \notin Waiting
    BY <1>6 DEF Waiting, Exchange
  <2>5. \A i \in 1..Len(q) : q[i] = c =>
           r.entry = e /\ r.at \in Waiting /\ (i # 1 => r.at = "queued")
    BY <2>3
  <2>6. /\ calls[c].entry = e \/ calls[c].at \notin Waiting
        /\ r.at \in Waiting => r.entry = e /\ In(q, c)
        /\ r \in Call /\ q \in Seq(Calls) /\ Once(q) /\ TypeOK /\ QueuesOK
    BY <1>1, <1>3, <1>6, <1>11, <2>4
  <2>7. /\ DOMAIN entries' = DOMAIN entries /\ entries'[e].queue = q
        /\ \A f \in DOMAIN entries : f # e => entries'[f].queue = entries[f].queue
    BY <1>12
  <2> QED
    BY <1>4, <1>7, <2>1, <2>2, <2>5, <2>6, <2>7, QueueStep
<1>14. r.answer = NoAnswer /\ r.entry \in 0..Len(entries)
  BY <1>1, <1>3, <1>6 DEF CallsOK, TypeOK
<1> QED
  BY <1>3, <1>6, <1>7, <1>12, <1>13, <1>14, QuietCall

\* Every entry keeps what was in its pipes.
LEMMA InboxFrame ==
    ASSUME \A f \in DOMAIN entries : entries'[f].inbox = entries[f].inbox
    PROVE  \A e \in DOMAIN entries, d \in Calls :
              In(entries'[e].inbox, d) => In(entries[e].inbox, d)
BY DEF In

\* A cancellation is kept until the exchange is over.
CancelLater(c) ==
    /\ calls[c].at \in {"sending", "sent", "received"} /\ faults' \in 0..MaxFaults
    /\ calls' = [calls EXCEPT ![c].cancelled = TRUE]
    /\ UNCHANGED <<entries, sessions, procs, stage, files, disturbed>>

\* A call that exchanges is told that it was cancelled.
LEMMA CancelLaterStep ==
    ASSUME IInv, NEW c \in Calls, CancelLater(c)
    PROVE  IInv'
<1>1. /\ TypeOK /\ QueuesOK /\ CallsOK /\ CodeUnanswered /\ SessionsOpen /\ Undisturbed
      /\ PublishedIfAnswered /\ OpenOK
  BY DEF IInv
<1>2. calls[c] \in Call
  BY <1>1, TypeFacts
<1>3. /\ UNCHANGED <<entries, sessions, procs, stage, files, disturbed>>
      /\ calls[c].at \in Exchange /\ faults' \in 0..MaxFaults
  BY DEF CancelLater, Exchange
<1>4. PICK e : e = calls[c].entry
  OBVIOUS
<1>5. e \in DOMAIN entries /\ Holds(e, c)
  BY <1>1, <1>3, <1>4, ExchangeHolds
<1>6. PICK r : r = [calls[c] EXCEPT !.cancelled = TRUE]
  OBVIOUS
<1>7. /\ r \in Call /\ r.at = calls[c].at /\ r.outcome = calls[c].outcome
      /\ r.answer = calls[c].answer /\ r.entry = e
  BY <1>2, <1>4, <1>6 DEF Call
<1>8. CallGiven(c, r)
  BY <1>1, <1>6 DEF CallGiven, TypeOK, CancelLater
<1>9. /\ entries' \in Seq(Entry) /\ Len(entries') = Len(entries)
      /\ DOMAIN entries' = DOMAIN entries
      /\ \A f \in DOMAIN entries : SameChannel(f) /\ entries'[f].open = entries[f].open
      /\ \A f \in DOMAIN entries : entries'[f].queue = entries[f].queue
  BY <1>1, <1>3, EntriesFrame
<1>10. QueuesOK'
  BY <1>1, <1>3, <1>4, <1>5, <1>7, <1>8, <1>9, QueueHeld DEF Waiting
<1>11. SessionsOpen'
  BY <1>1, <1>3, OpenFrame
<1>12. calls[c].outcome = "none" /\ calls[c].at # "ended" /\ c \notin files
  BY <1>1, <1>3 DEF CallsOK, Exchange, PublishedIfAnswered
<1>13. OpenOK'
  <2> SUFFICES ASSUME NEW f \in DOMAIN entries, entries[f].open
               PROVE  Mode(f)'
    BY <1>3 DEF OpenOK
  <2>1. Mode(f)
    BY <1>1 DEF OpenOK
  <2>2. SameGood(f)
    BY <1>1, <1>7, <1>8, <1>12, GoodFrame
  <2>3. SameSent(f)
    <3>1. calls'[c] = r /\ \A d \in Calls : d # c => calls'[d] = calls[d]
      BY <1>1, <1>7, <1>8, OneCallChanges
    <3>2. \A d \in Calls : /\ calls'[d].at = calls[d].at /\ calls'[d].entry = calls[d].entry
                           /\ calls'[d].answer = calls[d].answer
      BY <1>4, <1>7, <3>1
    <3> QED
      BY <3>2 DEF SameSent, Sent, Heard
  <2>4. SameProcs(f) /\ SameChannel(f)
    BY <1>3, <1>9, SameProcsFrame
  <2> QED
    BY <2>1, <2>2, <2>3, <2>4, ModeFrame
<1>14. CodeNot(c) \/ (NotAnswered(r) /\ r.entry = calls[c].entry)
  <2>1. CASE calls[c].at = "sent"
    BY <1>4, <1>7, <2>1 DEF NotAnswered
  <2>2. CASE calls[c].at # "sent"
    BY <1>1, <1>3, <2>2, CodeGone DEF Unanswered, Exchange
  <2> QED
    BY <2>1, <2>2
<1>15. /\ r.at # "received" => r.answer = NoAnswer
       /\ r.at = "received" =>
              /\ r.answer \in Answers /\ r.answer.call = c
              /\ r.answer.status = "ok" => r.answer.pid \in 1..entries[r.entry].lastPid
  BY <1>1, <1>4, <1>7 DEF CallsOK
<1>16. \A f \in DOMAIN entries : /\ entries'[f].lastPid = entries[f].lastPid
                                 /\ entries'[f].known \in 1..entries[f].lastPid
                                 /\ f \notin disturbed' => entries'[f].open
  BY <1>1, <1>3 DEF TypeOK, Undisturbed
<1>17. /\ sessions' \in [Sessions -> 0..Len(entries)] /\ disturbed' \subseteq DOMAIN entries
       /\ r.entry \in 0..Len(entries)
  BY <1>1, <1>3, <1>4, <1>7 DEF TypeOK
<1>18. \A f \in DOMAIN entries, d \in Calls : In(entries'[f].inbox, d) => In(entries[f].inbox, d)
  BY <1>3
<1> QED
  BY <1>3, <1>5, <1>7, <1>8, <1>9, <1>10, <1>11, <1>12, <1>13, <1>14, <1>15, <1>16, <1>17,
     <1>18, CallStep

\* A cancellation, before the exchange or during it.
LEMMA CancelStep ==
    ASSUME IInv, NEW c \in Calls, Cancel(c)
    PROVE  IInv'
<1>1. faults' \in 0..MaxFaults
  BY PoolAssumption DEF IInv, TypeOK, Cancel
<1>2. PICK e : e = calls[c].entry
  OBVIOUS
<1>3. CancelWaits(c, e) \/ CancelLater(c)
  BY <1>1, <1>2 DEF Cancel, CancelWaits, CancelLater
<1> QED
  BY <1>3, CancelWaitsStep, CancelLaterStep

(***************************************************************************)
(* The exchange                                                            *)
(***************************************************************************)

\* The step of a call at one entry leaves the other sessions alone.
LEMMA OthersGoOn ==
    ASSUME IInv, NEW c \in Calls, NEW r \in Call, CallGiven(c, r), calls[c].at # "ended",
           NEW e, calls[c].entry = e, r.entry = e \/ r.at \notin {"sent", "received", "ended"},
           r.entry # e => r.outcome = "none",
           NEW f \in DOMAIN entries, f # e, entries[f].open, SameChannel(f), SameProcs(f)
    PROVE  Mode(f)'
<1>1. TypeOK /\ CallsOK /\ OpenOK
  BY DEF IInv
<1>2. Mode(f)
  BY <1>1 DEF OpenOK
<1>3. SameGood(f)
  BY <1>1, GoodFrame
<1>4. SameSent(f)
  BY <1>1, SentFrame
<1> QED
  BY <1>2, <1>3, <1>4, ModeFrame

\* Before a call is sent its session waits for it.
LEMMA WaitsForCall ==
    ASSUME IInv, NEW c \in Calls, NEW e \in DOMAIN entries, e = calls[c].entry, entries[e].open,
           calls[c].at = "sending" \/ (calls[c].at = "queued" /\ Holds(e, c))
    PROVE  Waits(e)
<1>1. TypeOK /\ QueuesOK /\ Mode(e)
  BY DEF IInv, OpenOK
<1>2. ASSUME NEW d \in Calls, Sent(e, d) \/ Heard(e, d)
      PROVE  FALSE
  <2>1. calls[d].entry = e /\ calls[d].at \in {"sent", "received"}
    BY <1>2 DEF Sent, Heard
  <2>2. d = c
    BY <1>1, <2>1, OneExchange DEF Exchange
  <2> QED
    BY <2>1, <2>2
<1> QED
  BY <1>1, <1>2 DEF Mode, Asked, Works, Told, Listens

\* The record of an entry changes, and its queue does not: what stays.
LEMMA OtherEntries ==
    ASSUME TypeOK, NEW e \in DOMAIN entries, NEW x \in Entry, EntryGiven(e, x),
           procs' = procs, disturbed' = disturbed
    PROVE  \A f \in DOMAIN entries : f # e => /\ SameChannel(f) /\ SameProcs(f)
                                              /\ entries'[f].open = entries[f].open
<1>1. \A f \in DOMAIN entries : f # e => entries'[f] = entries[f]
  BY OneEntryChanges
<1>2. \A f : SameProcs(f)
  BY SameProcsFrame
<1> QED
  BY <1>1, <1>2 DEF SameChannel

\* The code of a call is written to the pipe.
LEMMA SendStep ==
    ASSUME IInv, NEW c \in Calls, Send(c)
    PROVE  IInv'
<1>1. /\ TypeOK /\ QueuesOK /\ CallsOK /\ CodeUnanswered /\ SessionsOpen /\ Undisturbed
      /\ PublishedIfAnswered /\ OpenOK
  BY DEF IInv
<1>2. calls[c] \in Call
  BY <1>1, TypeFacts
<1>3. PICK e : e = calls[c].entry
  OBVIOUS
<1>4. /\ UNCHANGED <<sessions, procs, stage, files, disturbed, faults>>
      /\ calls[c].at = "sending" /\ calls[c].at \in Exchange /\ entries[e].open
  BY <1>3 DEF Send, Exchange
<1>5. e \in DOMAIN entries /\ Holds(e, c)
  BY <1>1, <1>3, <1>4, ExchangeHolds
<1>6. Waits(e)
  BY <1>3, <1>4, <1>5, WaitsForCall
<1>7. PICK r : r = [calls[c] EXCEPT !.at = "sent"]
  OBVIOUS
<1>8. /\ r \in Call /\ r.at = "sent" /\ r.outcome = calls[c].outcome
      /\ r.answer = calls[c].answer /\ r.entry = e
  BY <1>2, <1>3, <1>7 DEF Call, Steps
<1>9. CallGiven(c, r)
  BY <1>1, <1>7 DEF CallGiven, TypeOK, Send
<1>10. PICK x : x = [entries[e] EXCEPT !.inbox = <<c>>]
  OBVIOUS
<1>11. <<c>> \in Seq(Calls \cup {Stop})
  OBVIOUS
<1>12. /\ x \in Entry /\ x.inbox = <<c>> /\ x.outbox = entries[e].outbox
       /\ x.queue = entries[e].queue /\ x.known = entries[e].known
       /\ x.lastPid = entries[e].lastPid /\ x.open = entries[e].open
  BY <1>1, <1>5, <1>10, <1>11, TypeFacts DEF Entry
<1>13. EntryGiven(e, x)
  <2>1. entries[e].inbox = <<>>
    BY <1>6 DEF Waits, Quiet
  <2>2. Append(entries[e].inbox, c) = <<c>>
    BY <2>1
  <2>3. entries' = [entries EXCEPT ![e].inbox = Append(entries[e].inbox, c)]
    BY <1>3 DEF Send
  <2>4. entries' = [entries EXCEPT ![e].inbox = <<c>>]
    BY <2>2, <2>3
  <2> QED
    BY <1>10, <2>4 DEF EntryGiven
<1>14. /\ entries' \in Seq(Entry) /\ entries'[e] = x
       /\ Len(entries') = Len(entries) /\ DOMAIN entries' = DOMAIN entries
       /\ \A f \in DOMAIN entries : f # e => entries'[f] = entries[f]
  BY <1>1, <1>5, <1>12, <1>13, OneEntryChanges
<1>15. QueuesOK'
  <2>1. \A f \in DOMAIN entries : entries'[f].queue = entries[f].queue
    BY <1>12, <1>14
  <2>2. calls[c].at \in Waiting /\ r.at \in Waiting
    BY <1>4, <1>8 DEF Waiting, Exchange
  <2> QED
    BY <1>1, <1>3, <1>5, <1>8, <1>9, <1>14, <2>1, <2>2, QueueHeld
<1>16. SessionsOpen'
  BY <1>1, <1>4, <1>12, <1>14, OpenFrame
<1>17. calls[c].outcome = "none" /\ calls[c].answer = NoAnswer /\ c \notin files
  BY <1>1, <1>4 DEF CallsOK, PublishedIfAnswered
<1>18. Mode(e)'
  <2>1. calls'[c] = r
    BY <1>1, <1>8, <1>9, OneCallChanges
  <2>2. Sent(e, c)'
    BY <1>8, <2>1 DEF Sent
  <2>3. entries'[e].inbox = <<c>> /\ entries'[e].outbox = <<>>
    BY <1>6, <1>12, <1>14 DEF Waits, Quiet
  <2>4. SameGood(e)
    BY <1>1, <1>4, <1>8, <1>9, <1>17, GoodFrame
  <2>5. KnownReads(e)'
    BY <1>4, <1>6, <1>12, <1>14, <2>4, SameProcsFrame, ReadsFrame DEF Waits
  <2> QED
    BY <2>2, <2>3, <2>5 DEF Asked, Mode
<1>19. OpenOK'
  <2> SUFFICES ASSUME NEW f \in DOMAIN entries, entries'[f].open
               PROVE  Mode(f)'
    BY <1>14 DEF OpenOK
  <2>1. CASE f = e
    BY <1>18, <2>1
  <2>2. CASE f # e
    BY <1>1, <1>3, <1>4, <1>5, <1>8, <1>9, <1>12, <1>13, <2>2, OtherEntries, OthersGoOn
  <2> QED
    BY <2>1, <2>2
<1>20. NotAnswered(r) /\ r.entry = calls[c].entry
  BY <1>3, <1>8 DEF NotAnswered
<1>21. \A f \in DOMAIN entries : /\ entries'[f].lastPid = entries[f].lastPid
                                 /\ entries'[f].known \in 1..entries[f].lastPid
                                 /\ f \notin disturbed' => entries'[f].open
  BY <1>1, <1>4, <1>12, <1>14 DEF TypeOK, Undisturbed
<1>22. \A f \in DOMAIN entries, d \in Calls : In(entries'[f].inbox, d) =>
              In(entries[f].inbox, d) \/ (d = c /\ NotAnswered(r) /\ r.entry = f)
  <2>1. \A d \in Calls : In(<<c>>, d) => d = c
    BY DEF In
  <2> QED
    BY <1>8, <1>12, <1>14, <1>20, <2>1
<1>23. /\ sessions' \in [Sessions -> 0..Len(entries)] /\ disturbed' \subseteq DOMAIN entries
       /\ r.entry \in 0..Len(entries) /\ faults' \in 0..MaxFaults
  BY <1>1, <1>3, <1>4, <1>8 DEF TypeOK
<1>24. r.outcome = "none" /\ r.answer = NoAnswer
  BY <1>8, <1>17
<1> QED
  BY <1>4, <1>8, <1>9, <1>14, <1>15, <1>16, <1>17, <1>19, <1>20, <1>21, <1>22, <1>23, <1>24,
     CallStep

\* What is in the pipe when a call reads its answer, and who is left.
LEMMA AnswerWaits ==
    ASSUME IInv, NEW c \in Calls, NEW e \in DOMAIN entries, e = calls[c].entry, entries[e].open,
           calls[c].at = "sent", entries[e].outbox # <<>>
    PROVE  Told(e, c)
<1>1. TypeOK /\ QueuesOK /\ Mode(e)
  BY DEF IInv, OpenOK
<1>2. Sent(e, c)
  BY DEF Sent
<1>3. ~Waits(e)
  BY <1>2 DEF Waits
<1>4. ASSUME NEW d \in Calls, Asked(e, d) \/ Works(e, d) \/ Listens(e, d)
      PROVE  FALSE
  BY <1>4 DEF Asked, Works, Listens, Quiet
<1>5. PICK d \in Calls : Told(e, d)
  BY <1>1, <1>3, <1>4 DEF Mode
<1>6. calls[d].entry = e /\ calls[d].at = "sent"
  BY <1>5 DEF Told, Sent
<1>7. d = c
  BY <1>1, <1>6, OneExchange DEF Exchange
<1> QED
  BY <1>5, <1>7

\* The answer is read.
LEMMA ReceiveStep ==
    ASSUME IInv, NEW c \in Calls, Receive(c)
    PROVE  IInv'
<1>1. /\ TypeOK /\ QueuesOK /\ CallsOK /\ CodeUnanswered /\ SessionsOpen /\ Undisturbed
      /\ PublishedIfAnswered /\ OpenOK
  BY DEF IInv
<1>2. calls[c] \in Call
  BY <1>1, TypeFacts
<1>3. PICK e : e = calls[c].entry
  OBVIOUS
<1>4. /\ UNCHANGED <<sessions, procs, stage, files, disturbed, faults>>
      /\ calls[c].at = "sent" /\ calls[c].at \in Exchange /\ entries[e].open
      /\ entries[e].outbox # <<>>
  BY <1>3 DEF Receive, Exchange
<1>5. e \in DOMAIN entries /\ Holds(e, c)
  BY <1>1, <1>3, <1>4, ExchangeHolds
<1>6. Told(e, c)
  BY <1>3, <1>4, <1>5, AnswerWaits
<1>7. PICK a \in Answers : entries[e].outbox = <<a>> /\ AnsweredReads(e, c, a)
  BY <1>6 DEF Told
<1>8. Head(entries[e].outbox) = a /\ Tail(entries[e].outbox) = <<>>
  BY <1>7
<1>9. PICK r : r = [calls[c] EXCEPT !.at = "received", !.answer = a]
  OBVIOUS
<1>10. /\ r \in Call /\ r.at = "received" /\ r.outcome = calls[c].outcome
       /\ r.answer = a /\ r.entry = e
  BY <1>2, <1>3, <1>9 DEF Call, Steps
<1>11. CallGiven(c, r)
  <2>1. calls' = [calls EXCEPT ![c].at = "received", ![c].answer = Head(entries[e].outbox)]
    BY <1>3 DEF Receive
  <2>2. calls' = [calls EXCEPT ![c].at = "received", ![c].answer = a]
    BY <1>8, <2>1
  <2> QED
    BY <1>1, <1>9, <2>2 DEF CallGiven, TypeOK
<1>12. PICK x : x = [entries[e] EXCEPT !.outbox = <<>>]
  OBVIOUS
<1>13. /\ x \in Entry /\ x.outbox = <<>> /\ x.inbox = entries[e].inbox
       /\ x.queue = entries[e].queue /\ x.known = entries[e].known
       /\ x.lastPid = entries[e].lastPid /\ x.open = entries[e].open
  <2>1. <<>> \in Seq(Answers)
    BY EmptySeq
  <2>2. entries[e] \in Entry
    BY <1>1, <1>5, TypeFacts
  <2> QED
    BY <1>12, <2>1, <2>2 DEF Entry
<1>14. EntryGiven(e, x)
  <2>1. entries' = [entries EXCEPT ![e].outbox = Tail(entries[e].outbox)]
    BY <1>3 DEF Receive
  <2>2. entries' = [entries EXCEPT ![e].outbox = <<>>]
    BY <1>8, <2>1
  <2> QED
    BY <1>12, <2>2 DEF EntryGiven
<1>15. /\ entries' \in Seq(Entry) /\ entries'[e] = x
       /\ Len(entries') = Len(entries) /\ DOMAIN entries' = DOMAIN entries
       /\ \A f \in DOMAIN entries : f # e => entries'[f] = entries[f]
  BY <1>1, <1>5, <1>13, <1>14, OneEntryChanges
<1>16. QueuesOK'
  <2>1. \A f \in DOMAIN entries : entries'[f].queue = entries[f].queue
    BY <1>13, <1>15
  <2>2. calls[c].at \in Waiting /\ r.at \in Waiting
    BY <1>4, <1>10 DEF Waiting, Exchange
  <2> QED
    BY <1>1, <1>3, <1>5, <1>10, <1>11, <1>15, <2>1, <2>2, QueueHeld
<1>17. SessionsOpen'
  BY <1>1, <1>4, <1>13, <1>15, OpenFrame
<1>18. calls[c].outcome = "none" /\ c \notin files
  BY <1>1, <1>4 DEF CallsOK, PublishedIfAnswered
<1>19. Mode(e)'
  <2>1. calls'[c] = r
    BY <1>1, <1>10, <1>11, OneCallChanges
  <2>2. Heard(e, c)' /\ calls'[c].answer = a
    BY <1>10, <2>1 DEF Heard
  <2>3. Quiet(e)'
    BY <1>6, <1>13, <1>15 DEF Told, Quiet
  <2>4. SameGood(e)
    BY <1>1, <1>4, <1>10, <1>11, <1>18, GoodFrame
  <2>5. AnsweredReads(e, c, a)'
    BY <1>4, <1>7, <1>13, <1>15, <2>4, SameProcsFrame, ReadsFrame
  <2> QED
    BY <2>2, <2>3, <2>5 DEF Listens, Mode
<1>20. OpenOK'
  <2> SUFFICES ASSUME NEW f \in DOMAIN entries, entries'[f].open
               PROVE  Mode(f)'
    BY <1>15 DEF OpenOK
  <2>1. CASE f = e
    BY <1>19, <2>1
  <2>2. CASE f # e
    BY <1>1, <1>3, <1>4, <1>5, <1>10, <1>11, <1>13, <1>14, <2>2, OtherEntries, OthersGoOn
  <2> QED
    BY <2>1, <2>2
<1>21. CodeNot(c)
  <2>1. ASSUME NEW p \in procs, p.does = "runs", p.call = c
        PROVE  FALSE
    <3>1. p \in ProcsOf(e)
      BY <1>1, <1>3, <2>1 DEF CodeUnanswered, AskedAt, ProcsOf
    <3>2. p.does = "reads"
      BY <1>7, <3>1 DEF AnsweredReads
    <3> QED
      BY <2>1, <3>2
  <2>2. ASSUME NEW f \in DOMAIN entries, In(entries[f].inbox, c)
        PROVE  FALSE
    <3>1. f = e
      BY <1>1, <1>3, <2>2 DEF CodeUnanswered, AskedAt
    <3>2. entries[e].inbox = <<>>
      BY <1>6 DEF Told
    <3> QED
      BY <2>2, <3>1, <3>2 DEF In
  <2> QED
    BY <2>1, <2>2 DEF CodeNot
<1>22. /\ r.answer \in Answers /\ r.answer.call = c
       /\ r.answer.status = "ok" => r.answer.pid \in 1..entries[r.entry].lastPid
  BY <1>7, <1>10 DEF AnsweredReads
<1>23. \A f \in DOMAIN entries : /\ entries'[f].lastPid = entries[f].lastPid
                                 /\ entries'[f].known \in 1..entries[f].lastPid
                                 /\ f \notin disturbed' => entries'[f].open
                                 /\ entries'[f].inbox = entries[f].inbox
  BY <1>1, <1>4, <1>13, <1>15 DEF TypeOK, Undisturbed
<1>24. /\ sessions' \in [Sessions -> 0..Len(entries)] /\ disturbed' \subseteq DOMAIN entries
       /\ r.entry \in 0..Len(entries) /\ faults' \in 0..MaxFaults /\ r.entry \in DOMAIN entries
  BY <1>1, <1>3, <1>4, <1>5, <1>10 DEF TypeOK
<1>25. \A f \in DOMAIN entries, d \in Calls : In(entries'[f].inbox, d) => In(entries[f].inbox, d)
  BY <1>23, InboxFrame
<1>26. r.outcome = "none"
  BY <1>10, <1>18
<1> QED
  BY <1>4, <1>10, <1>11, <1>15, <1>16, <1>17, <1>18, <1>20, <1>21, <1>22, <1>23, <1>24, <1>25,
     <1>26, CallStep

\* The step that ends an exchange, its choices made: the outcome o.
Finishes(c, e, a, o) ==
    /\ e = calls[c].entry /\ a = calls[c].answer /\ calls[c].at = "received"
    /\ entries' = [entries EXCEPT ![e].queue = Tail(@),
           ![e].known = IF a.status = "ok" THEN a.pid ELSE @]
    /\ o \in IF calls[c].cancelled THEN {"cancelled"}
             ELSE IF a.status = "ok" THEN {"ok", "unpublished"} ELSE {a.status}
    /\ calls' = [calls EXCEPT ![c].at = "ended", ![c].answer = NoAnswer, ![c].outcome = o]
    /\ files' = IF o = "ok" THEN Published(c) ELSE files
    /\ stage' = Discarded(c)
    /\ UNCHANGED <<sessions, procs, disturbed, faults>>

\* The exchange is over: the session waits again, and knows what it has learnt.
LEMMA FinishesStep ==
    ASSUME IInv, NEW c \in Calls, NEW e, NEW a, NEW o \in Outcomes, Finishes(c, e, a, o)
    PROVE  IInv'
<1>1. /\ TypeOK /\ QueuesOK /\ CallsOK /\ CodeUnanswered /\ SessionsOpen /\ Undisturbed
      /\ PublishedIfAnswered /\ OpenOK
  BY DEF IInv
<1>2. calls[c] \in Call
  BY <1>1, TypeFacts
<1>3. /\ UNCHANGED <<sessions, procs, disturbed, faults>>
      /\ calls[c].at = "received" /\ calls[c].at \in Exchange
      /\ e = calls[c].entry /\ a = calls[c].answer
      /\ files' = IF o = "ok" THEN Published(c) ELSE files
      /\ stage' = Discarded(c)
  BY DEF Finishes, Exchange
<1>4. e \in DOMAIN entries /\ Holds(e, c)
  BY <1>1, <1>3, ExchangeHolds
<1>5. /\ a \in Answers /\ a.call = c /\ calls[c].outcome = "none"
      /\ a.status = "ok" => a.pid \in 1..entries[e].lastPid
  BY <1>1, <1>3 DEF CallsOK
<1>6. /\ o \in {"ok", "unpublished"} => a.status = "ok"
      /\ o \in {"ok", "unpublished", "failed", "timeout", "cancelled"}
      /\ o \in {"failed", "timeout"} => a.status # "ok"
  BY <1>5 DEF Finishes, Answers
<1>7. PICK r : r = [calls[c] EXCEPT !.at = "ended", !.answer = NoAnswer, !.outcome = o]
  OBVIOUS
<1>8. /\ r \in Call /\ r.at = "ended" /\ r.outcome = o /\ r.answer = NoAnswer /\ r.entry = e
  BY <1>2, <1>3, <1>7 DEF Call, Steps
<1>9. CallGiven(c, r)
  BY <1>1, <1>7 DEF CallGiven, TypeOK, Finishes
<1>10. entries[e].queue \in Seq(Calls) /\ Once(entries[e].queue) /\ entries[e].queue # <<>>
  BY <1>1, <1>4, TypeFacts DEF Entry, QueuesOK, Holds
<1>11. PICK q : q = Tail(entries[e].queue)
  OBVIOUS
<1>12. q \in Seq(Calls)
  BY <1>10, <1>11, LeaveHead
<1>13. PICK k : k = IF a.status = "ok" THEN a.pid ELSE entries[e].known
  OBVIOUS
<1>14. k \in 1..entries[e].lastPid /\ k \in Nat
  <2>1. entries[e].known \in 1..entries[e].lastPid /\ entries[e].lastPid \in Nat
    BY <1>1, <1>4, TypeFacts DEF TypeOK, Entry
  <2> QED
    BY <1>5, <1>13, <2>1
<1>15. PICK x : x = [entries[e] EXCEPT !.queue = q, !.known = k]
  OBVIOUS
<1>16. /\ x \in Entry /\ x.outbox = entries[e].outbox /\ x.inbox = entries[e].inbox
       /\ x.queue = q /\ x.known = k
       /\ x.lastPid = entries[e].lastPid /\ x.open = entries[e].open
  BY <1>1, <1>4, <1>12, <1>14, <1>15, TypeFacts DEF Entry
<1>17. EntryGiven(e, x)
  <2>1. entries' = [entries EXCEPT ![e].queue = q, ![e].known = k]
    BY <1>1, <1>4, <1>11, <1>13, TypeFacts DEF Finishes, Entry
  <2> QED
    BY <1>1, <1>4, <1>15, <2>1, TypeFacts DEF EntryGiven, Entry
<1>18. /\ entries' \in Seq(Entry) /\ entries'[e] = x
       /\ Len(entries') = Len(entries) /\ DOMAIN entries' = DOMAIN entries
       /\ \A f \in DOMAIN entries : f # e => entries'[f] = entries[f]
  BY <1>1, <1>4, <1>16, <1>17, OneEntryChanges
<1>19. QueuesOK'
  <2>1. r.at \notin Waiting
    BY <1>8 DEF Waiting, Exchange
  <2>2. entries'[e].queue = Tail(entries[e].queue)
    BY <1>11, <1>16, <1>18
  <2> QED
    BY <1>1, <1>3, <1>4, <1>8, <1>9, <1>18, <2>1, <2>2, QueueLeft
<1>20. SessionsOpen'
  BY <1>1, <1>3, <1>16, <1>18, OpenFrame
<1>21. calls'[c] = r /\ \A d \in Calls : d # c => calls'[d] = calls[d]
  BY <1>1, <1>8, <1>9, OneCallChanges
<1>22. ASSUME entries[e].open
       PROVE  Mode(e)'
  <2>1. Heard(e, c) /\ Mode(e)
    BY <1>1, <1>3, <1>4, <1>22 DEF Heard, OpenOK
  <2>2. ASSUME NEW d \in Calls, Sent(e, d) \/ Heard(e, d)
        PROVE  d = c
    <3>1. calls[d].entry = e /\ calls[d].at \in Exchange
      BY <2>2 DEF Sent, Heard, Exchange
    <3> QED
      BY <1>1, <1>3, <3>1, OneExchange
  <2>3. Listens(e, c)
    <3>1. ~Waits(e)
      BY <2>1 DEF Waits
    <3>2. PICK d \in Calls : Asked(e, d) \/ Works(e, d) \/ Told(e, d) \/ Listens(e, d)
      BY <2>1, <3>1 DEF Mode
    <3>3. d = c
      BY <2>2, <3>2 DEF Asked, Works, Told, Listens
    <3>4. ~Sent(e, c)
      BY <1>3 DEF Sent
    <3> QED
      BY <3>2, <3>3, <3>4 DEF Asked, Works, Told
  <2>4. Quiet(e) /\ AnsweredReads(e, c, a)
    BY <1>3, <2>3 DEF Listens
  <2>5. Quiet(e)'
    BY <1>16, <1>18, <2>4 DEF Quiet
  <2>6. \A d \in Calls : ~Sent(e, d)' /\ ~Heard(e, d)'
    <3>1. \A d \in Calls : d # c => ~Sent(e, d) /\ ~Heard(e, d)
      BY <2>2
    <3> QED
      BY <1>8, <1>21, <3>1 DEF Sent, Heard
  <2>7. ProcsOf(e)' = ProcsOf(e) /\ entries'[e].known = k
    BY <1>3, <1>16, <1>18 DEF ProcsOf
  <2>8. ~Over(c) /\ ~Good(e, c)
    BY <1>3, <1>5 DEF Over, Good
  <2>9. \A d \in Calls : d # c => (Good(e, d)' <=> Good(e, d)) /\ (Over(d)' <=> Over(d))
    BY <1>21 DEF Good, Over
  <2>10. ASSUME NEW p \in ProcsOf(e)
         PROVE  p.does = "reads" /\ p.pid = k /\ Keeps(e, p)'
    <3>1. CASE a.status = "ok"
      <4>1. p.does = "reads" /\ p.pid = a.pid /\ Learns(e, p, c)
        BY <2>4, <2>10, <3>1 DEF AnsweredReads
      <4>2. o \in {"ok", "unpublished", "cancelled"}
        BY <1>6, <3>1
      <4>3. Over(c)'
        BY <1>8, <1>21, <4>2 DEF Over
      <4>4. /\ c \in p.done
            /\ \A d \in Calls \ {c} : (Good(e, d) => d \in p.done) /\ (d \in p.done => Over(d))
        BY <4>1 DEF Learns
      <4>5. \A d \in Calls : Good(e, d)' => d \in p.done
        BY <2>9, <4>4
      <4>6. \A d \in Calls : d \in p.done => Over(d)'
        BY <2>9, <4>3, <4>4
      <4> QED
        BY <1>13, <3>1, <4>1, <4>5, <4>6 DEF Keeps
    <3>2. CASE a.status # "ok"
      <4>1. p.does = "reads" /\ p.pid = entries[e].known /\ Keeps(e, p)
        BY <2>4, <2>10, <3>2 DEF AnsweredReads
      <4>2. ~Good(e, c)'
        BY <1>6, <1>8, <1>21, <3>2 DEF Good
      <4>3. c \notin p.done
        BY <2>8, <4>1 DEF Keeps
      <4>4. \A d \in Calls : Good(e, d)' => d \in p.done
        BY <2>9, <4>1, <4>2 DEF Keeps
      <4>5. \A d \in Calls : d \in p.done => Over(d)'
        BY <2>9, <4>1, <4>3 DEF Keeps
      <4> QED
        BY <1>13, <3>2, <4>1, <4>4, <4>5 DEF Keeps
    <3> QED
      BY <3>1, <3>2
  <2>11. Alive(e)'
    BY <1>3, <2>4, <2>7 DEF AnsweredReads, Alive
  <2>12. KnownReads(e)'
    BY <2>7, <2>10, <2>11 DEF KnownReads
  <2> QED
    BY <2>5, <2>6, <2>12 DEF Waits, Mode
<1>23. OpenOK'
  <2> SUFFICES ASSUME NEW f \in DOMAIN entries, entries'[f].open
               PROVE  Mode(f)'
    BY <1>18 DEF OpenOK
  <2>1. CASE f = e
    BY <1>16, <1>18, <1>22, <2>1
  <2>2. CASE f # e
    BY <1>1, <1>3, <1>4, <1>8, <1>9, <1>16, <1>17, <2>2, OtherEntries, OthersGoOn
  <2> QED
    BY <2>1, <2>2
<1>24. CodeNot(c)
  BY <1>1, <1>3, CodeGone DEF Unanswered
<1>25. \A f \in DOMAIN entries : /\ entries'[f].lastPid = entries[f].lastPid
                                 /\ entries'[f].known \in 1..entries[f].lastPid
                                 /\ f \notin disturbed' => entries'[f].open
                                 /\ entries'[f].inbox = entries[f].inbox
  BY <1>1, <1>3, <1>14, <1>16, <1>18 DEF TypeOK, Undisturbed
<1>26. /\ sessions' \in [Sessions -> 0..Len(entries)] /\ disturbed' \subseteq DOMAIN entries
       /\ r.entry \in 0..Len(entries) /\ faults' \in 0..MaxFaults
  BY <1>1, <1>3, <1>4, <1>8 DEF TypeOK
<1>27. \A f \in DOMAIN entries, d \in Calls : In(entries'[f].inbox, d) => In(entries[f].inbox, d)
  BY <1>25, InboxFrame
<1>28. /\ files' \subseteq files \cup {c} /\ c \notin stage' /\ stage' \subseteq stage
       /\ c \in files' => o = "ok"
  <2>1. c \notin files
    BY <1>1, <1>5 DEF PublishedIfAnswered
  <2> QED
    BY <1>3, <2>1 DEF Published, Discarded
<1>29. r.outcome # "error"
  BY <1>6, <1>8
<1>30. calls[c].at # "ended" /\ disturbed \subseteq disturbed' /\ procs' \subseteq procs
  BY <1>3
<1> QED
  BY <1>8, <1>9, <1>18, <1>19, <1>20, <1>23, <1>24, <1>25, <1>26, <1>27, <1>28, <1>29, <1>30,
     CallStep

\* An answered call ends.
LEMMA FinishStep ==
    ASSUME IInv, NEW c \in Calls, Finish(c)
    PROVE  IInv'
<1>1. PICK e, a : e = calls[c].entry /\ a = calls[c].answer
  OBVIOUS
<1>2. PICK o \in Outcomes :
        /\ o \in IF calls[c].cancelled THEN {"cancelled"}
                 ELSE IF a.status = "ok" THEN {"ok", "unpublished"} ELSE {a.status}
        /\ calls' = [calls EXCEPT ![c].at = "ended", ![c].answer = NoAnswer, ![c].outcome = o]
        /\ files' = IF o = "ok" THEN Published(c) ELSE files
  BY <1>1 DEF Finish
<1>3. Finishes(c, e, a, o)
  BY <1>1, <1>2 DEF Finish, Finishes
<1> QED
  BY <1>3, FinishesStep

(***************************************************************************)
(* Sessions that are closed                                                *)
(***************************************************************************)

\* What a closed entry is: no call is in its pipe that was not there.
LEMMA ClosedEntry ==
    ASSUME TypeOK, NEW e \in DOMAIN entries, NEW x, x = Closed(e)
    PROVE  /\ x \in Entry /\ ~x.open /\ x.queue = entries[e].queue /\ x.known = entries[e].known
           /\ x.lastPid = entries[e].lastPid /\ x.outbox = entries[e].outbox
           /\ \A d \in Calls : In(x.inbox, d) => In(entries[e].inbox, d)
<1>1. entries[e] \in Entry
  BY TypeFacts
<1>2. PICK i : i = IF entries[e].open THEN Append(entries[e].inbox, Stop) ELSE entries[e].inbox
  OBVIOUS
<1>3. x = [entries[e] EXCEPT !.open = FALSE, !.inbox = i]
  BY <1>1, <1>2 DEF Closed, Entry
<1>4. entries[e].inbox \in Seq(Calls \cup {Stop})
  BY <1>1 DEF Entry
<1>5. i \in Seq(Calls \cup {Stop})
  BY <1>2, <1>4, AppendProperties
<1>6. /\ x \in Entry /\ ~x.open /\ x.queue = entries[e].queue /\ x.known = entries[e].known
      /\ x.lastPid = entries[e].lastPid /\ x.outbox = entries[e].outbox /\ x.inbox = i
  BY <1>1, <1>3, <1>5 DEF Entry
<1>7. ASSUME NEW d \in Calls, In(i, d)
      PROVE  In(entries[e].inbox, d)
  <2>1. CASE i = entries[e].inbox
    BY <1>7, <2>1
  <2>2. CASE i = Append(entries[e].inbox, Stop)
    <3> DEFINE b == entries[e].inbox
    <3>1. /\ Len(b) \in Nat /\ Len(i) = Len(b) + 1 /\ i[Len(b) + 1] = Stop
          /\ \A j \in 1..Len(b) : i[j] = b[j]
      BY <1>4, <2>2, AppendProperties, LenProperties
    <3>2. PICK j \in 1..Len(i) : i[j] = d
      BY <1>7 DEF In
    <3>3. j # Len(b) + 1
      BY <3>1, <3>2, PoolAssumption
    <3>4. j \in 1..Len(b)
      BY <3>1, <3>2, <3>3
    <3> QED
      BY <3>1, <3>2, <3>4 DEF In
  <2> QED
    BY <1>2, <2>1, <2>2
<1> QED
  BY <1>6, <1>7

\* Shutting down entries closes them for the sessions, and leaves the other
\* entries their processes.
LEMMA ShutDownView ==
    ASSUME IInv, NEW E, E \subseteq DOMAIN entries, ShutDown(E),
           DOMAIN entries' = DOMAIN entries, Len(entries') = Len(entries),
           \A f \in DOMAIN entries : entries'[f].open <=> entries[f].open /\ f \notin E
    PROVE  /\ SessionsOpen' /\ sessions' \in [Sessions -> 0..Len(entries)]
           /\ procs' \subseteq procs /\ \A f \in DOMAIN entries : f \notin E => SameProcs(f)
           /\ disturbed' = disturbed \cup E
<1>1. /\ sessions' = [s \in Sessions |-> IF sessions[s] \in E THEN 0 ELSE sessions[s]]
      /\ procs' = {p \in procs : ~(p.entry \in E /\ p.pid = entries[p.entry].known)}
      /\ disturbed' = disturbed \cup E
  BY DEF ShutDown
<1>2. TypeOK /\ SessionsOpen
  BY DEF IInv
<1>3. sessions' \in [Sessions -> 0..Len(entries)]
  BY <1>1, <1>2, TypeFacts DEF TypeOK
<1>4. \A f \in DOMAIN entries : f # 0
  BY <1>2, TypeFacts
<1>5. ASSUME NEW f \in DOMAIN entries
      PROVE  Current(f)' <=> Current(f) /\ f \notin E
  BY <1>1, <1>4 DEF Current
<1>6. SessionsOpen'
  <2>1. \A f \in DOMAIN entries' : entries'[f].open <=> Current(f)'
    BY <1>2, <1>5 DEF SessionsOpen
  <2>2. ASSUME NEW s \in Sessions, NEW t \in Sessions, sessions'[s] = sessions'[t], sessions'[s] # 0
        PROVE  s = t
    BY <1>1, <1>2, <2>2 DEF SessionsOpen
  <2> QED
    BY <2>1, <2>2 DEF SessionsOpen
<1>7. procs' \subseteq procs
  BY <1>1
<1>8. ASSUME NEW f \in DOMAIN entries, f \notin E
      PROVE  SameProcs(f)
  BY <1>1, <1>8 DEF SameProcs
<1> QED
  BY <1>1, <1>3, <1>6, <1>7, <1>8

\* Entries are closed while no call moves: a client shuts down, or the reaper.
Closes(E) ==
    /\ E \subseteq DOMAIN entries /\ ShutDown(E)
    /\ entries' = [e \in DOMAIN entries |-> IF e \in E THEN Closed(e) ELSE entries[e]]
    /\ stage' \subseteq stage /\ files' \subseteq files /\ calls' = calls
    /\ faults' \in 0..MaxFaults

\* Sessions are closed.
LEMMA ClosesStep ==
    ASSUME IInv, NEW E, Closes(E)
    PROVE  IInv'
<1>1. /\ TypeOK /\ QueuesOK /\ CallsOK /\ ProcsOK /\ CodeUnanswered /\ SessionsOpen
      /\ Undisturbed /\ PublishedIfAnswered /\ OpenOK
  BY DEF IInv
<1>2. /\ E \subseteq DOMAIN entries /\ ShutDown(E)
      /\ stage' \subseteq stage /\ files' \subseteq files /\ calls' = calls
      /\ faults' \in 0..MaxFaults
  BY DEF Closes
<1>3. /\ DOMAIN entries' = DOMAIN entries
      /\ \A f \in DOMAIN entries : f \in E => entries'[f] = Closed(f)
      /\ \A f \in DOMAIN entries : f \notin E => entries'[f] = entries[f]
  BY DEF Closes
<1>4. Len(entries) \in Nat /\ DOMAIN entries = 1..Len(entries)
  BY <1>1, TypeFacts
<1>5. ASSUME NEW f \in DOMAIN entries
      PROVE  /\ entries'[f] \in Entry /\ entries'[f].queue = entries[f].queue
             /\ entries'[f].known = entries[f].known /\ entries'[f].lastPid = entries[f].lastPid
             /\ entries'[f].open <=> entries[f].open /\ f \notin E
             /\ \A d \in Calls : In(entries'[f].inbox, d) => In(entries[f].inbox, d)
  <2>1. CASE f \in E
    <3>1. entries'[f] = Closed(f)
      BY <1>3, <2>1
    <3> QED
      BY <1>1, <2>1, <3>1, ClosedEntry
  <2>2. CASE f \notin E
    BY <1>1, <1>3, <2>2, TypeFacts
  <2> QED
    BY <2>1, <2>2
<1>6. entries' \in Seq(Entry) /\ Len(entries') = Len(entries)
  <2>1. entries' = [f \in 1..Len(entries) |-> entries'[f]]
    BY <1>3, <1>4 DEF Closes
  <2>2. entries' \in [1..Len(entries) -> Entry]
    BY <1>4, <1>5, <2>1
  <2>3. entries' \in Seq(Entry)
    BY <1>4, <2>2, SeqDef
  <2> QED
    BY <1>3, <1>4, <2>3, LenProperties
<1>7. /\ SessionsOpen' /\ sessions' \in [Sessions -> 0..Len(entries)]
      /\ procs' \subseteq procs /\ \A f \in DOMAIN entries : f \notin E => SameProcs(f)
      /\ disturbed' = disturbed \cup E
  BY <1>2, <1>3, <1>5, <1>6, ShutDownView
<1>8. TypeOK'
  <2>1. \A f \in DOMAIN entries' : entries'[f].known \in 1..entries'[f].lastPid
    BY <1>1, <1>3, <1>5 DEF TypeOK
  <2>2. \A p \in procs' : p.entry \in DOMAIN entries' /\ p.pid \in 1..entries'[p.entry].lastPid
    BY <1>1, <1>3, <1>5, <1>7 DEF TypeOK
  <2>3. /\ procs' \subseteq Process /\ stage' \subseteq Calls /\ files' \subseteq Calls
        /\ disturbed' \subseteq DOMAIN entries'
    BY <1>1, <1>2, <1>3, <1>7 DEF TypeOK
  <2>4. calls' \in [Calls -> Call] /\ \A c \in Calls : calls'[c].entry \in 0..Len(entries')
    BY <1>1, <1>2, <1>6 DEF TypeOK
  <2> QED
    BY <1>2, <1>6, <1>7, <2>1, <2>2, <2>3, <2>4 DEF TypeOK
<1>9. QueuesOK'
  BY <1>1, <1>2, <1>3, <1>5, QueueFrame
<1>10. CallsOK'
  <2>1. \A c \in Calls : calls[c].at = "received" => calls[c].entry \in DOMAIN entries
    BY <1>1 DEF QueuesOK, Exchange
  <2>2. \A c \in Calls : calls[c].at = "received" =>
           entries'[calls[c].entry].lastPid = entries[calls[c].entry].lastPid
    BY <1>5, <2>1
  <2> QED
    BY <1>1, <1>2, <2>2 DEF CallsOK
<1>11. ProcsOK'
  BY <1>1, <1>7 DEF ProcsOK
<1>12. CodeUnanswered'
  <2>1. \A e, c : AskedAt(e, c)' <=> AskedAt(e, c)
    BY <1>2 DEF AskedAt, Unanswered
  <2>2. \A p \in procs' : p.does = "runs" => AskedAt(p.entry, p.call)'
    BY <1>1, <1>7, <2>1 DEF CodeUnanswered
  <2>3. \A e \in DOMAIN entries', c \in Calls : In(entries'[e].inbox, c) => AskedAt(e, c)'
    BY <1>1, <1>3, <1>5, <2>1 DEF CodeUnanswered
  <2> QED
    BY <2>2, <2>3 DEF CodeUnanswered, AskedAt, Unanswered, In
<1>13. OpenOK'
  <2> SUFFICES ASSUME NEW f \in DOMAIN entries, entries'[f].open
               PROVE  Mode(f)'
    BY <1>3 DEF OpenOK
  <2>1. f \notin E /\ entries[f].open
    BY <1>5
  <2>2. Mode(f) /\ SameChannel(f) /\ SameProcs(f)
    BY <1>1, <1>3, <1>7, <2>1 DEF OpenOK, SameChannel
  <2> QED
    BY <1>2, <2>2, CallsFrame, ModeFrame
<1>14. Undisturbed'
  <2>1. \A e \in DOMAIN entries' : e \notin disturbed' => entries'[e].open
    BY <1>1, <1>3, <1>5, <1>7 DEF Undisturbed
  <2>2. \A c \in Calls : calls'[c].outcome = "error" => calls'[c].entry \in disturbed'
    BY <1>1, <1>2, <1>7 DEF Undisturbed
  <2> QED
    BY <2>1, <2>2 DEF Undisturbed
<1>15. PublishedIfAnswered'
  BY <1>1, <1>2 DEF PublishedIfAnswered
<1> QED
  BY <1>7, <1>8, <1>9, <1>10, <1>11, <1>12, <1>13, <1>14, <1>15 DEF IInv

\* A client shuts sessions down.
LEMMA ShutdownStep ==
    ASSUME IInv, Shutdown
    PROVE  IInv'
<1>1. TypeOK
  BY DEF IInv
<1>2. PICK S \in {{s} : s \in Sessions} \cup {Sessions} :
        LET E == {sessions[s] : s \in S} \ {0} IN
        /\ ShutDown(E)
        /\ entries' = [e \in DOMAIN entries |-> IF e \in E THEN Closed(e) ELSE entries[e]]
  BY DEF Shutdown
<1>3. PICK E : E = {sessions[s] : s \in S} \ {0}
  OBVIOUS
<1>4. /\ ShutDown(E)
      /\ entries' = [e \in DOMAIN entries |-> IF e \in E THEN Closed(e) ELSE entries[e]]
  BY <1>2, <1>3
<1>5. E \subseteq DOMAIN entries
  <2>1. S \subseteq Sessions
    OBVIOUS
  <2>2. \A s \in S : sessions[s] \in 0..Len(entries)
    BY <1>1, <2>1 DEF TypeOK
  <2> QED
    BY <1>1, <1>3, <2>2, TypeFacts
<1>6. faults' \in 0..MaxFaults /\ calls' = calls /\ stage' = stage /\ files' = files
  BY <1>1, PoolAssumption DEF Shutdown, TypeOK
<1>7. Closes(E)
  BY <1>4, <1>5, <1>6 DEF Closes
<1> QED
  BY <1>7, ClosesStep

\* The reaper closes what is idle and removes what is old.
LEMMA ReapStep ==
    ASSUME IInv, Reap
    PROVE  IInv'
<1>1. TypeOK
  BY DEF IInv
<1>2. PICK E \in SUBSET {e \in DOMAIN entries : Current(e) /\ entries[e].queue = <<>>},
          gone \in SUBSET Old :
        /\ ShutDown(E)
        /\ entries' = [e \in DOMAIN entries |-> IF e \in E THEN Closed(e) ELSE entries[e]]
        /\ stage' = stage \ gone /\ files' = files \ gone
        /\ UNCHANGED <<calls, faults>>
  BY DEF Reap
<1>3. E \subseteq DOMAIN entries
  OBVIOUS
<1>4. Closes(E)
  BY <1>1, <1>2, <1>3 DEF Closes, TypeOK
<1> QED
  BY <1>4, ClosesStep

\* A session whose process is dead is dropped.
LEMMA ReplaceStep ==
    ASSUME IInv, NEW c \in Calls, Replace(c)
    PROVE  IInv'
<1>1. /\ TypeOK /\ QueuesOK /\ CallsOK /\ CodeUnanswered /\ SessionsOpen /\ Undisturbed
      /\ PublishedIfAnswered /\ OpenOK
  BY DEF IInv
<1>2. calls[c] \in Call
  BY <1>1, TypeFacts
<1>3. PICK e, s : e = calls[c].entry /\ s = calls[c].session
  OBVIOUS
<1>4. /\ UNCHANGED <<procs, stage, files, disturbed, faults>>
      /\ calls[c].at = "queued" /\ Holds(e, c) /\ sessions[s] = e /\ Known(e) = {}
      /\ sessions' = [sessions EXCEPT ![s] = 0]
  BY <1>3 DEF Replace
<1>5. e \in DOMAIN entries /\ s \in Sessions
  BY <1>1, <1>2, <1>3, <1>4 DEF QueuesOK, Call
<1>6. entries[e].open
  BY <1>1, <1>4, <1>5 DEF SessionsOpen, Current
<1>7. e \in disturbed
  <2>1. KnownReads(e)
    BY <1>3, <1>4, <1>5, <1>6, WaitsForCall DEF Waits
  <2>2. ProcsOf(e) = {}
    BY <1>4, <2>1 DEF Known, KnownReads
  <2> QED
    BY <2>1, <2>2 DEF KnownReads, Alive
<1>8. PICK r : r = [calls[c] EXCEPT !.at = "new", !.entry = 0]
  OBVIOUS
<1>9. /\ r \in Call /\ r.at = "new" /\ r.entry = 0 /\ r.answer = calls[c].answer
      /\ r.outcome = calls[c].outcome
  BY <1>2, <1>8 DEF Call, Steps
<1>10. CallGiven(c, r)
  BY <1>1, <1>8 DEF CallGiven, TypeOK, Replace
<1>11. r.answer = NoAnswer /\ r.outcome = "none" /\ r.entry \in 0..Len(entries)
  BY <1>1, <1>4, <1>9, TypeFacts DEF CallsOK
<1>12. entries[e].queue \in Seq(Calls) /\ Once(entries[e].queue) /\ entries[e].queue # <<>>
  BY <1>1, <1>4, <1>5, TypeFacts DEF Entry, QueuesOK, Holds
<1>13. PICK q : q = Tail(entries[e].queue)
  OBVIOUS
<1>14. q \in Seq(Calls)
  BY <1>12, <1>13, LeaveHead
<1>15. PICK x : x = [entries[e] EXCEPT !.queue = q, !.open = FALSE]
  OBVIOUS
<1>16. /\ x \in Entry /\ x.outbox = entries[e].outbox /\ x.inbox = entries[e].inbox
       /\ x.queue = q /\ x.known = entries[e].known
       /\ x.lastPid = entries[e].lastPid /\ ~x.open
  BY <1>1, <1>5, <1>14, <1>15, TypeFacts DEF Entry
<1>17. EntryGiven(e, x)
  <2>1. entries' = [entries EXCEPT ![e].queue = q, ![e].open = FALSE]
    BY <1>3, <1>13 DEF Replace
  <2> QED
    BY <1>1, <1>5, <1>15, <2>1, TypeFacts DEF EntryGiven, Entry
<1>18. /\ entries' \in Seq(Entry) /\ entries'[e] = x
       /\ Len(entries') = Len(entries) /\ DOMAIN entries' = DOMAIN entries
       /\ \A f \in DOMAIN entries : f # e => entries'[f] = entries[f]
  BY <1>1, <1>5, <1>16, <1>17, OneEntryChanges
<1>19. QueuesOK'
  <2>1. r.at \notin Waiting
    BY <1>9 DEF Waiting, Exchange
  <2>2. entries'[e].queue = Tail(entries[e].queue)
    BY <1>13, <1>16, <1>18
  <2> QED
    BY <1>1, <1>3, <1>4, <1>5, <1>9, <1>10, <1>18, <2>1, <2>2, QueueLeft
<1>20. sessions' \in [Sessions -> 0..Len(entries)] /\ \A t \in Sessions :
          sessions'[t] = IF t = s THEN 0 ELSE sessions[t]
  BY <1>1, <1>4, <1>5, TypeFacts DEF TypeOK
<1>21. SessionsOpen'
  <2>1. \A f \in DOMAIN entries : f # 0
    BY <1>1, TypeFacts
  <2>2. ASSUME NEW f \in DOMAIN entries
        PROVE  entries'[f].open <=> \E t \in Sessions : sessions'[t] = f
    <3>1. CASE f = e
      <4>1. \A t \in Sessions : sessions[t] = e => t = s
        BY <1>1, <1>4, <1>5, <2>1 DEF SessionsOpen
      <4>2. \A t \in Sessions : sessions'[t] # e
        BY <1>5, <1>20, <2>1, <4>1
      <4> QED
        BY <1>16, <1>18, <3>1, <4>2
    <3>2. CASE f # e
      <4>1. entries'[f].open <=> \E t \in Sessions : sessions[t] = f
        BY <1>1, <1>18, <3>2 DEF SessionsOpen, Current
      <4>2. \A t \in Sessions : sessions[t] = f <=> sessions'[t] = f
        BY <1>4, <1>20, <2>1, <3>2
      <4> QED
        BY <4>1, <4>2
    <3> QED
      BY <3>1, <3>2
  <2>3. ASSUME NEW t \in Sessions, NEW u \in Sessions, sessions'[t] = sessions'[u], sessions'[t] # 0
        PROVE  t = u
    BY <1>1, <1>20, <2>3 DEF SessionsOpen
  <2> QED
    BY <1>18, <2>2, <2>3 DEF SessionsOpen, Current
<1>22. OpenOK'
  <2> SUFFICES ASSUME NEW f \in DOMAIN entries, entries'[f].open
               PROVE  Mode(f)'
    BY <1>18 DEF OpenOK
  <2>1. f # e
    BY <1>16, <1>18
  <2>2. SameChannel(f) /\ SameProcs(f) /\ entries[f].open
    BY <1>1, <1>4, <1>5, <1>16, <1>17, <2>1, OtherEntries
  <2> QED
    BY <1>3, <1>4, <1>9, <1>10, <1>11, <2>1, <2>2, OthersGoOn
<1>23. CodeNot(c)
  BY <1>1, <1>4, CodeGone DEF Unanswered
<1>24. \A f \in DOMAIN entries : /\ entries'[f].lastPid = entries[f].lastPid
                                 /\ entries'[f].known \in 1..entries[f].lastPid
                                 /\ f \notin disturbed' => entries'[f].open
                                 /\ entries'[f].inbox = entries[f].inbox
  BY <1>1, <1>4, <1>7, <1>16, <1>18 DEF TypeOK, Undisturbed
<1>25. disturbed' \subseteq DOMAIN entries /\ faults' \in 0..MaxFaults
  BY <1>1, <1>4 DEF TypeOK
<1>26. \A f \in DOMAIN entries, d \in Calls : In(entries'[f].inbox, d) => In(entries[f].inbox, d)
  BY <1>24, InboxFrame
<1>27. c \notin files
  BY <1>1, <1>4 DEF CallsOK, PublishedIfAnswered
<1> QED
  BY <1>4, <1>9, <1>10, <1>11, <1>18, <1>19, <1>20, <1>21, <1>22, <1>23, <1>24, <1>25, <1>26,
     <1>27, CallStep

\* The step of a call that is given up, with the entries E that it closes.
GivesUp(c, e, E, x) ==
    /\ e = calls[c].entry /\ E = {e} \cap {sessions[s] : s \in Sessions}
    /\ x = IF E = {} THEN entries[e] ELSE Closed(e)
    /\ calls[c].at \in {"sending", "sent"}
    /\ ShutDown(E)
    /\ entries' = [entries EXCEPT ![e] = [x EXCEPT !.queue = Tail(@)]]
    /\ calls' = [calls EXCEPT ![c].at = "ended",
           ![c].outcome = IF calls[c].cancelled THEN "cancelled" ELSE "error"]
    /\ stage' = Discarded(c)
    /\ UNCHANGED <<files, faults>>

\* A call without an answer closes its entry and ends.
LEMMA GivesUpStep ==
    ASSUME IInv, NEW c \in Calls, NEW e, NEW E, NEW x, GivesUp(c, e, E, x)
    PROVE  IInv'
<1>1. /\ TypeOK /\ QueuesOK /\ CallsOK /\ CodeUnanswered /\ SessionsOpen /\ Undisturbed
      /\ PublishedIfAnswered /\ OpenOK
  BY DEF IInv
<1>2. calls[c] \in Call
  BY <1>1, TypeFacts
<1>3. /\ e = calls[c].entry /\ E = {e} \cap {sessions[s] : s \in Sessions}
      /\ x = IF E = {} THEN entries[e] ELSE Closed(e)
      /\ calls[c].at \in {"sending", "sent"} /\ calls[c].at \in Exchange
      /\ ShutDown(E) /\ stage' = Discarded(c) /\ UNCHANGED <<files, faults>>
  BY DEF GivesUp, Exchange
<1>4. e \in DOMAIN entries /\ Holds(e, c)
  BY <1>1, <1>3, ExchangeHolds
<1>5. /\ E \subseteq {e} /\ E \subseteq DOMAIN entries
      /\ E = {} <=> ~Current(e)
  BY <1>3, <1>4 DEF Current
<1>6. /\ x \in Entry /\ ~x.open /\ x.queue = entries[e].queue /\ x.known = entries[e].known
      /\ x.lastPid = entries[e].lastPid
      /\ \A d \in Calls : In(x.inbox, d) => In(entries[e].inbox, d)
  <2>1. CASE E = {}
    BY <1>1, <1>3, <1>4, <1>5, <2>1, TypeFacts DEF SessionsOpen
  <2>2. CASE E # {}
    BY <1>1, <1>3, <1>4, <2>2, ClosedEntry
  <2> QED
    BY <2>1, <2>2
<1>7. PICK o : o = IF calls[c].cancelled THEN "cancelled" ELSE "error"
  OBVIOUS
<1>8. o \in {"cancelled", "error"}
  BY <1>7
<1>9. PICK r : r = [calls[c] EXCEPT !.at = "ended", !.outcome = o]
  OBVIOUS
<1>10. /\ r \in Call /\ r.at = "ended" /\ r.outcome = o /\ r.answer = calls[c].answer
       /\ r.entry = e
  BY <1>2, <1>3, <1>8, <1>9 DEF Call, Steps, Outcomes
<1>11. CallGiven(c, r)
  BY <1>1, <1>7, <1>9 DEF CallGiven, TypeOK, GivesUp
<1>12. r.answer = NoAnswer /\ calls[c].outcome = "none" /\ c \notin files
  BY <1>1, <1>3, <1>10 DEF CallsOK, PublishedIfAnswered
<1>13. entries[e].queue \in Seq(Calls) /\ Once(entries[e].queue) /\ entries[e].queue # <<>>
  BY <1>1, <1>4, TypeFacts DEF Entry, QueuesOK, Holds
<1>14. PICK q : q = Tail(entries[e].queue)
  OBVIOUS
<1>15. q \in Seq(Calls)
  BY <1>13, <1>14, LeaveHead
<1>16. PICK y : y = [x EXCEPT !.queue = q]
  OBVIOUS
<1>17. /\ y \in Entry /\ y.inbox = x.inbox /\ y.queue = q /\ y.known = entries[e].known
       /\ y.lastPid = entries[e].lastPid /\ ~y.open
  BY <1>6, <1>15, <1>16 DEF Entry
<1>18. EntryGiven(e, y)
  BY <1>6, <1>14, <1>16 DEF GivesUp, EntryGiven
<1>19. /\ entries' \in Seq(Entry) /\ entries'[e] = y
       /\ Len(entries') = Len(entries) /\ DOMAIN entries' = DOMAIN entries
       /\ \A f \in DOMAIN entries : f # e => entries'[f] = entries[f]
  BY <1>1, <1>4, <1>17, <1>18, OneEntryChanges
<1>20. QueuesOK'
  <2>1. r.at \notin Waiting
    BY <1>10 DEF Waiting, Exchange
  <2>2. entries'[e].queue = Tail(entries[e].queue)
    BY <1>14, <1>17, <1>19
  <2> QED
    BY <1>1, <1>3, <1>4, <1>10, <1>11, <1>19, <2>1, <2>2, QueueLeft
<1>21. \A f \in DOMAIN entries : entries'[f].open <=> entries[f].open /\ f \notin E
  <2>1. E = {} => ~entries[e].open
    BY <1>1, <1>4, <1>5 DEF SessionsOpen
  <2>2. E # {} => e \in E
    BY <1>5
  <2> QED
    BY <1>5, <1>17, <1>19, <2>1, <2>2
<1>22. /\ SessionsOpen' /\ sessions' \in [Sessions -> 0..Len(entries)]
       /\ procs' \subseteq procs /\ \A f \in DOMAIN entries : f \notin E => SameProcs(f)
       /\ disturbed' = disturbed \cup E
  BY <1>3, <1>5, <1>19, <1>21, ShutDownView
<1>23. e \in disturbed'
  <2>1. CASE E = {}
    BY <1>1, <1>4, <1>5, <1>22, <2>1 DEF SessionsOpen, Undisturbed
  <2>2. CASE E # {}
    BY <1>5, <1>22, <2>2
  <2> QED
    BY <2>1, <2>2
<1>24. OpenOK'
  <2> SUFFICES ASSUME NEW f \in DOMAIN entries, entries'[f].open
               PROVE  Mode(f)'
    BY <1>19 DEF OpenOK
  <2>1. f # e /\ f \notin E /\ entries[f].open
    BY <1>5, <1>17, <1>19, <1>21
  <2>2. SameChannel(f) /\ SameProcs(f)
    BY <1>19, <1>22, <2>1 DEF SameChannel
  <2> QED
    BY <1>3, <1>10, <1>11, <2>1, <2>2, OthersGoOn
<1>25. NotAnswered(r) /\ r.entry = calls[c].entry
  BY <1>3, <1>8, <1>10 DEF NotAnswered
<1>26. \A f \in DOMAIN entries : /\ entries'[f].lastPid = entries[f].lastPid
                                 /\ entries'[f].known \in 1..entries[f].lastPid
                                 /\ f \notin disturbed' => entries'[f].open
  BY <1>1, <1>17, <1>19, <1>22, <1>23 DEF TypeOK, Undisturbed
<1>27. /\ disturbed' \subseteq DOMAIN entries /\ faults' \in 0..MaxFaults
       /\ r.entry \in 0..Len(entries)
  BY <1>1, <1>3, <1>5, <1>10, <1>22 DEF TypeOK
<1>28. \A f \in DOMAIN entries, d \in Calls : In(entries'[f].inbox, d) => In(entries[f].inbox, d)
  BY <1>6, <1>17, <1>19
<1>29. /\ r.outcome = "error" => r.entry \in disturbed'
       /\ r.outcome \notin {"ok", "failed", "timeout", "unpublished"}
       /\ stage' \subseteq stage /\ calls[c].at # "ended" /\ disturbed \subseteq disturbed'
       /\ files' = files
  BY <1>3, <1>8, <1>10, <1>22, <1>23 DEF Discarded
<1> QED
  BY <1>10, <1>11, <1>12, <1>19, <1>20, <1>22, <1>24, <1>25, <1>26, <1>27, <1>28, <1>29, CallStep

\* A call is given up.
LEMMA GiveUpStep ==
    ASSUME IInv, NEW c \in Calls, GiveUp(c)
    PROVE  IInv'
<1>1. PICK e : e = calls[c].entry
  OBVIOUS
<1>2. PICK E : E = {e} \cap {sessions[s] : s \in Sessions}
  OBVIOUS
<1>3. PICK x : x = IF E = {} THEN entries[e] ELSE Closed(e)
  OBVIOUS
<1>4. GivesUp(c, e, E, x)
  BY <1>1, <1>2, <1>3 DEF GiveUp, GivesUp
<1> QED
  BY <1>4, GivesUpStep

(***************************************************************************)
(* A new session                                                           *)
(***************************************************************************)

\* The step of a call that gets a new entry n with its worker.
Opens(c, s, n) ==
    /\ s = calls[c].session /\ n = Len(entries) + 1
    /\ calls[c].at = "new" /\ sessions[s] = 0
    /\ entries' = Append(entries, NewEntry(c))
    /\ sessions' = [sessions EXCEPT ![s] = n]
    /\ procs' = procs \cup {Worker(n)}
    /\ calls' = [calls EXCEPT ![c].at = "queued", ![c].entry = n]
    /\ UNCHANGED <<stage, files, disturbed, faults>>

\* A call opens a session.
LEMMA OpensStep ==
    ASSUME IInv, NEW c \in Calls, NEW s, NEW n, Opens(c, s, n)
    PROVE  IInv'
<1>1. /\ TypeOK /\ QueuesOK /\ CallsOK /\ ProcsOK /\ CodeUnanswered /\ SessionsOpen
      /\ Undisturbed /\ PublishedIfAnswered /\ OpenOK
  BY DEF IInv
<1>2. calls[c] \in Call
  BY <1>1, TypeFacts
<1>3. /\ UNCHANGED <<stage, files, disturbed, faults>> /\ n = Len(entries) + 1
      /\ calls[c].at = "new" /\ sessions[s] = 0
      /\ procs' = procs \cup {Worker(n)}
  BY DEF Opens
<1>4. s \in Sessions
  BY <1>2 DEF Call, Opens
<1>5. Len(entries) \in Nat /\ DOMAIN entries = 1..Len(entries) /\ n \in Nat \ {0}
  BY <1>1, <1>3, TypeFacts
<1>6. PICK x : x = NewEntry(c)
  OBVIOUS
<1>7. /\ x \in Entry /\ x.open /\ x.known = 1 /\ x.lastPid = 1 /\ x.queue = <<c>>
      /\ x.inbox = <<>> /\ x.outbox = <<>>
  <2>1. /\ <<c>> \in Seq(Calls) /\ <<>> \in Seq(Calls \cup {Stop}) /\ <<>> \in Seq(Answers)
    BY EmptySeq
  <2> QED
    BY <1>6, <2>1 DEF NewEntry, Entry
<1>8. /\ entries' \in Seq(Entry) /\ Len(entries') = n /\ entries'[n] = x
      /\ \A f \in DOMAIN entries : entries'[f] = entries[f]
  <2>1. entries \in Seq(Entry) /\ entries' = Append(entries, x)
    BY <1>1, <1>6 DEF TypeOK, Opens
  <2> QED
    BY <1>3, <1>5, <1>7, <2>1, AppendProperties
<1>9. DOMAIN entries' = DOMAIN entries \cup {n} /\ n \notin DOMAIN entries
  <2>1. DOMAIN entries' = 1..n
    BY <1>8, LenProperties
  <2> QED
    BY <1>3, <1>5, <2>1
<1>10. PICK r : r = [calls[c] EXCEPT !.at = "queued", !.entry = n]
  OBVIOUS
<1>11. /\ r \in Call /\ r.at = "queued" /\ r.entry = n /\ r.answer = calls[c].answer
       /\ r.outcome = calls[c].outcome
  BY <1>2, <1>5, <1>10 DEF Call, Steps
<1>12. CallGiven(c, r)
  BY <1>1, <1>10 DEF CallGiven, TypeOK, Opens
<1>13. /\ calls' \in [Calls -> Call] /\ calls'[c] = r
       /\ \A d \in Calls : d # c => calls'[d] = calls[d]
  BY <1>1, <1>11, <1>12, OneCallChanges
<1>14. r.answer = NoAnswer /\ r.outcome = "none" /\ calls[c].outcome = "none"
  BY <1>1, <1>3, <1>11 DEF CallsOK
<1>15. PICK w : w = Worker(n)
  OBVIOUS
<1>16. /\ w \in Process /\ w.entry = n /\ w.pid = 1 /\ w.does = "reads" /\ w.done = {}
       /\ w.result = "none"
       /\ procs' = procs \cup {w}
  BY <1>3, <1>5, <1>15 DEF Worker, Process
<1>17. \A p \in procs : p.entry \in DOMAIN entries
  BY <1>1 DEF TypeOK
<1>18. /\ sessions' \in [Sessions -> 0..n] /\ sessions'[s] = n
       /\ \A t \in Sessions : t # s => sessions'[t] = sessions[t]
  BY <1>1, <1>3, <1>4, <1>5 DEF TypeOK, Opens
<1>19. \A t \in Sessions : sessions[t] # n
  BY <1>1, <1>3, <1>5 DEF TypeOK
<1>20. TypeOK'
  <2>1. \A f \in DOMAIN entries' : entries'[f].known \in 1..entries'[f].lastPid
    BY <1>1, <1>7, <1>8, <1>9 DEF TypeOK
  <2>2. ASSUME NEW p \in procs'
        PROVE  /\ p \in Process /\ p.entry \in DOMAIN entries'
               /\ p.pid \in 1..entries'[p.entry].lastPid
    <3>1. CASE p = w
      BY <1>7, <1>8, <1>9, <1>16, <3>1
    <3>2. CASE p \in procs
      BY <1>1, <1>8, <1>9, <3>2 DEF TypeOK
    <3> QED
      BY <1>16, <2>2, <3>1, <3>2
  <2>3. ASSUME NEW d \in Calls
        PROVE  calls'[d].entry \in 0..Len(entries')
    <3>1. CASE d = c
      BY <1>5, <1>8, <1>11, <1>13, <3>1
    <3>2. CASE d # c
      <4>1. calls[d].entry \in 0..Len(entries) /\ calls'[d] = calls[d]
        BY <1>1, <1>13, <3>2 DEF TypeOK
      <4> QED
        BY <1>3, <1>5, <1>8, <4>1
    <3> QED
      BY <3>1, <3>2
  <2>4. /\ stage' \subseteq Calls /\ files' \subseteq Calls /\ disturbed' \subseteq DOMAIN entries'
        /\ faults' \in 0..MaxFaults
    BY <1>1, <1>3, <1>9 DEF TypeOK
  <2>5. sessions' \in [Sessions -> 0..Len(entries')]
    BY <1>8, <1>18
  <2>6. procs' \subseteq Process
    BY <2>2
  <2> QED
    BY <1>8, <1>13, <2>1, <2>2, <2>3, <2>4, <2>5, <2>6 DEF TypeOK
<1>21. SessionsOpen'
  <2>1. ASSUME NEW f \in DOMAIN entries'
        PROVE  entries'[f].open <=> \E t \in Sessions : sessions'[t] = f
    <3>1. CASE f = n
      BY <1>4, <1>7, <1>8, <1>18, <3>1
    <3>2. CASE f # n
      <4>1. f \in DOMAIN entries /\ f # 0
        BY <1>5, <1>9, <3>2
      <4>2. entries[f].open <=> \E t \in Sessions : sessions[t] = f
        BY <1>1, <4>1 DEF SessionsOpen, Current
      <4>3. \A t \in Sessions : sessions[t] = f <=> sessions'[t] = f
        BY <1>3, <1>18, <3>2, <4>1
      <4> QED
        BY <1>8, <4>1, <4>2, <4>3
    <3> QED
      BY <3>1, <3>2
  <2>2. ASSUME NEW t \in Sessions, NEW u \in Sessions, sessions'[t] = sessions'[u], sessions'[t] # 0
        PROVE  t = u
    BY <1>1, <1>18, <1>19, <2>2 DEF SessionsOpen
  <2> QED
    BY <2>1, <2>2 DEF SessionsOpen, Current
<1>22. QueuesOK'
  <2>1. Len(<<c>>) = 1 /\ <<c>>[1] = c
    OBVIOUS
  <2>2. Once(<<c>>) /\ In(<<c>>, c) /\ \A i \in 1..Len(<<c>>) : i = 1 /\ <<c>>[i] = c
    BY <2>1 DEF Once, In
  <2>3. \A f \in DOMAIN entries' : Once(entries'[f].queue)
    BY <1>1, <1>7, <1>8, <1>9, <2>2 DEF QueuesOK
  <2>4. ASSUME NEW f \in DOMAIN entries', NEW i \in 1..Len(entries'[f].queue)
        PROVE  /\ calls'[entries'[f].queue[i]].entry = f
               /\ calls'[entries'[f].queue[i]].at \in Waiting
               /\ i # 1 => calls'[entries'[f].queue[i]].at = "queued"
    <3>1. CASE f = n
      <4>1. i = 1 /\ entries'[f].queue[i] = c
        BY <1>7, <1>8, <2>2, <3>1
      <4> QED
        BY <1>11, <1>13, <3>1, <4>1 DEF Waiting
    <3>2. CASE f # n
      <4>1. f \in DOMAIN entries /\ entries'[f].queue = entries[f].queue
        BY <1>8, <1>9, <3>2
      <4>2. /\ calls[entries[f].queue[i]].entry = f
            /\ calls[entries[f].queue[i]].at \in Waiting
            /\ i # 1 => calls[entries[f].queue[i]].at = "queued"
        BY <1>1, <4>1 DEF QueuesOK, Waiting
      <4>3. entries[f].queue[i] \in Calls
        BY <1>1, <4>1, TypeFacts, ElementOfSeq DEF Entry
      <4>4. entries[f].queue[i] # c
        BY <1>3, <4>2 DEF Waiting, Exchange
      <4> QED
        BY <1>13, <4>1, <4>2, <4>3, <4>4
    <3> QED
      BY <3>1, <3>2
  <2>5. ASSUME NEW d \in Calls, calls'[d].at \in Waiting
        PROVE  calls'[d].entry \in DOMAIN entries' /\ In(entries'[calls'[d].entry].queue, d)
    <3>1. CASE d = c
      BY <1>7, <1>8, <1>9, <1>11, <1>13, <2>2, <3>1
    <3>2. CASE d # c
      <4>1. calls'[d] = calls[d]
        BY <1>13, <3>2
      <4>2. calls[d].entry \in DOMAIN entries /\ In(entries[calls[d].entry].queue, d)
        BY <1>1, <2>5, <4>1 DEF QueuesOK, Waiting
      <4> QED
        BY <1>8, <1>9, <4>1, <4>2
    <3> QED
      BY <3>1, <3>2
  <2> QED
    BY <2>3, <2>4, <2>5 DEF QueuesOK, Waiting
<1>23. CallsOK'
  <2>1. \A f \in DOMAIN entries : entries'[f].lastPid = entries[f].lastPid
    BY <1>8
  <2> QED
    BY <1>1, <1>11, <1>12, <1>14, <2>1, AnswersKept
<1>24. ProcsOK'
  <2>1. ASSUME NEW p \in procs', NEW q \in procs', p.entry = q.entry, p.pid = q.pid
        PROVE  p = q
    BY <1>1, <1>9, <1>16, <1>17, <2>1 DEF ProcsOK
  <2>2. \A p \in procs' : /\ p.does = "reads" => p.result = "none"
                          /\ p.does = "supervises" => p.call \in Calls
    BY <1>1, <1>16 DEF ProcsOK
  <2> QED
    BY <2>1, <2>2 DEF ProcsOK
<1>25. CodeUnanswered'
  <2>1. ~Unanswered(c)
    BY <1>3 DEF Unanswered
  <2>2. ASSUME NEW e, NEW d, AskedAt(e, d)
        PROVE  AskedAt(e, d)'
    <3>1. d \in Calls /\ d # c
      BY <2>1, <2>2 DEF AskedAt
    <3> QED
      BY <1>13, <2>2, <3>1 DEF AskedAt, Unanswered
  <2>3. ASSUME NEW p \in procs', p.does = "runs"
        PROVE  AskedAt(p.entry, p.call)'
    <3>1. p \in procs
      BY <1>16, <2>3
    <3> QED
      BY <1>1, <2>2, <2>3, <3>1 DEF CodeUnanswered
  <2>4. ASSUME NEW e \in DOMAIN entries', NEW d \in Calls, In(entries'[e].inbox, d)
        PROVE  AskedAt(e, d)'
    <3>1. e # n
      BY <1>7, <1>8, <2>4 DEF In
    <3>2. e \in DOMAIN entries /\ In(entries[e].inbox, d)
      BY <1>8, <1>9, <2>4, <3>1
    <3> QED
      BY <1>1, <2>2, <3>2 DEF CodeUnanswered
  <2> QED
    BY <2>3, <2>4 DEF CodeUnanswered, AskedAt, Unanswered, In
<1>26. Mode(n)'
  <2>1. ProcsOf(n)' = {w}
    BY <1>9, <1>16, <1>17 DEF ProcsOf
  <2>2. \A d \in Calls : d # c => calls[d].entry # n
    BY <1>1, <1>3, <1>5 DEF TypeOK
  <2>3. \A d \in Calls : ~Sent(n, d)' /\ ~Heard(n, d)' /\ ~Good(n, d)'
    BY <1>11, <1>13, <1>14, <2>2 DEF Sent, Heard, Good
  <2>4. Quiet(n)'
    BY <1>7, <1>8 DEF Quiet
  <2>5. Keeps(n, w)'
    BY <1>16, <2>3 DEF Keeps
  <2>6. Alive(n)'
    BY <2>1 DEF Alive
  <2>7. KnownReads(n)'
    BY <1>7, <1>8, <1>16, <2>1, <2>5, <2>6 DEF KnownReads
  <2> QED
    BY <2>3, <2>4, <2>7 DEF Waits, Mode
<1>27. OpenOK'
  <2> SUFFICES ASSUME NEW f \in DOMAIN entries', entries'[f].open
               PROVE  Mode(f)'
    BY DEF OpenOK
  <2>1. CASE f = n
    BY <1>26, <2>1
  <2>2. CASE f # n
    <3>1. f \in DOMAIN entries /\ entries'[f] = entries[f]
      BY <1>8, <1>9, <2>2
    <3>2. Mode(f) /\ SameChannel(f)
      BY <1>1, <3>1 DEF OpenOK, SameChannel
    <3>3. SameProcs(f)
      BY <1>3, <1>16, <2>2 DEF SameProcs
    <3>4. SameGood(f)
      BY <1>1, <1>3, <1>11, <1>12, <2>2, GoodFrame
    <3>5. SameSent(f)
      BY <1>1, <1>3, <1>11, <1>12, <2>2, SentFrame
    <3> QED
      BY <3>2, <3>3, <3>4, <3>5, ModeFrame
  <2> QED
    BY <2>1, <2>2
<1>28. Undisturbed'
  <2>1. \A f \in DOMAIN entries' : f \notin disturbed' => entries'[f].open
    BY <1>1, <1>3, <1>7, <1>8, <1>9 DEF Undisturbed
  <2>2. \A d \in Calls : calls'[d].outcome = "error" => calls'[d].entry \in disturbed'
    BY <1>1, <1>3, <1>13, <1>14, <1>11 DEF Undisturbed
  <2> QED
    BY <2>1, <2>2 DEF Undisturbed
<1>29. PublishedIfAnswered'
  <2>1. ASSUME NEW d \in Calls
        PROVE  /\ d \in files' => calls'[d].outcome = "ok"
               /\ calls'[d].outcome \in {"ok", "failed", "timeout", "unpublished"} =>
                     d \notin stage'
    <3>1. calls'[d].outcome = calls[d].outcome
      BY <1>11, <1>13
    <3> QED
      BY <1>1, <1>3, <3>1 DEF PublishedIfAnswered
  <2> QED
    BY <2>1 DEF PublishedIfAnswered
<1> QED
  BY <1>20, <1>21, <1>22, <1>23, <1>24, <1>25, <1>27, <1>28, <1>29 DEF IInv

\* A call enters: an entry, a new entry, or no place.
LEMMA EnterStep ==
    ASSUME IInv, NEW c \in Calls, Enter(c)
    PROVE  IInv'
<1>1. PICK s, e : s = calls[c].session /\ e = sessions[s]
  OBVIOUS
<1>2. PICK n : n = Len(entries) + 1
  OBVIOUS
<1>3. \/ Joins(c, e)
      \/ /\ calls[c].at = "new" /\ sessions[s] = 0
         /\ entries' = Append(entries, NewEntry(c))
         /\ sessions' = [sessions EXCEPT ![s] = Len(entries')]
         /\ procs' = procs \cup {Worker(Len(entries'))}
         /\ calls' = [calls EXCEPT ![c].at = "queued", ![c].entry = Len(entries')]
         /\ UNCHANGED <<stage, files, disturbed, faults>>
      \/ /\ calls[c].at = "new"
         /\ calls' = [calls EXCEPT ![c].at = "ended", ![c].outcome = "full"]
         /\ UNCHANGED <<sessions, entries, procs>>
         /\ UNCHANGED <<stage, files, disturbed, faults>>
  BY <1>1 DEF Enter, Joins
<1>4. CASE Joins(c, e)
  BY <1>4, EnterJoins
<1>5. CASE /\ calls[c].at = "new" /\ sessions[s] = 0
           /\ entries' = Append(entries, NewEntry(c))
           /\ sessions' = [sessions EXCEPT ![s] = Len(entries')]
           /\ procs' = procs \cup {Worker(Len(entries'))}
           /\ calls' = [calls EXCEPT ![c].at = "queued", ![c].entry = Len(entries')]
           /\ UNCHANGED <<stage, files, disturbed, faults>>
  <2>1. Len(entries') = n
    <3>1. entries \in Seq(Entry)
      BY DEF IInv, TypeOK
    <3>2. NewEntry(c) \in Entry
      <4>1. /\ <<c>> \in Seq(Calls) /\ <<>> \in Seq(Calls \cup {Stop}) /\ <<>> \in Seq(Answers)
        BY EmptySeq
      <4> QED
        BY <4>1 DEF NewEntry, Entry
    <3> QED
      BY <1>2, <1>5, <3>1, <3>2, AppendProperties
  <2>2. Opens(c, s, n)
    BY <1>1, <1>2, <1>5, <2>1 DEF Opens
  <2> QED
    BY <2>2, OpensStep
<1>6. CASE /\ calls[c].at = "new"
           /\ calls' = [calls EXCEPT ![c].at = "ended", ![c].outcome = "full"]
           /\ UNCHANGED <<sessions, entries, procs>>
           /\ UNCHANGED <<stage, files, disturbed, faults>>
  BY <1>6, EnterFull
<1> QED
  BY <1>3, <1>4, <1>5, <1>6

(***************************************************************************)
(* The worker processes                                                    *)
(***************************************************************************)

\* What it takes for a step of the worker of the entry e to keep the invariant.
LEMMA ProcessStep ==
    ASSUME IInv, calls' = calls, sessions' = sessions, files' = files,
           NEW e \in DOMAIN entries,
           entries' \in Seq(Entry), Len(entries') = Len(entries),
           DOMAIN entries' = DOMAIN entries,
           \A f \in DOMAIN entries : /\ entries'[f].open = entries[f].open
                                     /\ entries'[f].queue = entries[f].queue
                                     /\ entries'[f].known = entries[f].known
                                     /\ entries[f].lastPid <= entries'[f].lastPid
                                     /\ f # e => SameChannel(f) /\ SameProcs(f),
           \A p \in procs' : /\ p \in Process /\ p.entry \in DOMAIN entries
                             /\ p.pid \in 1..entries'[p.entry].lastPid,
           \A p \in procs' : p.does = "runs" => AskedAt(p.entry, p.call),
           \A f \in DOMAIN entries, d \in Calls :
              In(entries'[f].inbox, d) => In(entries[f].inbox, d),
           stage \subseteq stage', stage' \subseteq Calls,
           \A c \in stage' \ stage : Unanswered(c),
           disturbed \subseteq disturbed', disturbed' \subseteq DOMAIN entries,
           faults' \in 0..MaxFaults, ProcsOK', entries[e].open => Mode(e)'
    PROVE  IInv'
<1>1. /\ TypeOK /\ QueuesOK /\ CallsOK /\ CodeUnanswered /\ SessionsOpen
      /\ Undisturbed /\ PublishedIfAnswered /\ OpenOK
  BY DEF IInv
<1>2. \A f \in DOMAIN entries : entries[f] \in Entry /\ entries'[f] \in Entry
  BY <1>1, TypeFacts, ElementOfSeq
<1>3. ASSUME NEW f \in DOMAIN entries
      PROVE  1..entries[f].lastPid \subseteq 1..entries'[f].lastPid
  <2>1. /\ entries[f].lastPid \in Nat /\ entries'[f].lastPid \in Nat
        /\ entries[f].lastPid <= entries'[f].lastPid
    BY <1>2 DEF Entry
  <2> QED
    BY <2>1
<1>4. TypeOK'
  <2>1. \A f \in DOMAIN entries' : entries'[f].known \in 1..entries'[f].lastPid
    BY <1>1, <1>3 DEF TypeOK
  <2>2. procs' \subseteq Process
    OBVIOUS
  <2>3. /\ sessions' \in [Sessions -> 0..Len(entries')] /\ calls' \in [Calls -> Call]
        /\ files' \subseteq Calls
        /\ \A c \in Calls : calls'[c].entry \in 0..Len(entries')
    BY <1>1 DEF TypeOK
  <2>4. \A p \in procs' : p.entry \in DOMAIN entries' /\ p.pid \in 1..entries'[p.entry].lastPid
    OBVIOUS
  <2> QED
    BY <2>1, <2>2, <2>3, <2>4 DEF TypeOK
<1>5. SessionsOpen'
  BY <1>1, OpenFrame
<1>6. QueuesOK'
  BY <1>1, QueueFrame
<1>7. CallsOK'
  <2>1. \A c \in Calls : calls[c].at = "received" => calls[c].entry \in DOMAIN entries
    BY <1>1 DEF QueuesOK, Exchange
  <2>2. ASSUME NEW c \in Calls, calls[c].at = "received", calls[c].answer.status = "ok"
        PROVE  calls[c].answer.pid \in 1..entries'[calls[c].entry].lastPid
    BY <1>1, <1>3, <2>1, <2>2 DEF CallsOK
  <2> QED
    BY <1>1, <2>2 DEF CallsOK
<1>8. CodeUnanswered'
  <2>1. \A f, c : AskedAt(f, c)' <=> AskedAt(f, c)
    BY DEF AskedAt, Unanswered
  <2>2. \A p \in procs' : p.does = "runs" => AskedAt(p.entry, p.call)'
    BY <2>1
  <2>3. \A f \in DOMAIN entries', c \in Calls : In(entries'[f].inbox, c) => AskedAt(f, c)'
    BY <1>1, <2>1 DEF CodeUnanswered
  <2> QED
    BY <2>2, <2>3 DEF CodeUnanswered, AskedAt, Unanswered, In
<1>9. OpenOK'
  <2> SUFFICES ASSUME NEW f \in DOMAIN entries, entries'[f].open
               PROVE  Mode(f)'
    BY DEF OpenOK
  <2>1. CASE f = e
    BY <2>1
  <2>2. CASE f # e
    <3>1. Mode(f) /\ SameChannel(f) /\ SameProcs(f)
      BY <1>1, <2>2 DEF OpenOK
    <3> QED
      BY <3>1, CallsFrame, ModeFrame
  <2> QED
    BY <2>1, <2>2
<1>10. Undisturbed'
  <2>1. \A f \in DOMAIN entries' : f \notin disturbed' => entries'[f].open
    BY <1>1 DEF Undisturbed
  <2>2. \A c \in Calls : calls'[c].outcome = "error" => calls'[c].entry \in disturbed'
    BY <1>1 DEF Undisturbed
  <2> QED
    BY <2>1, <2>2 DEF Undisturbed
<1>11. PublishedIfAnswered'
  <2>1. \A c \in Calls :
          calls[c].outcome \in {"ok", "failed", "timeout", "unpublished"} => ~Unanswered(c)
    BY <1>1 DEF CallsOK, Unanswered
  <2>2. \A c \in Calls :
          calls[c].outcome \in {"ok", "failed", "timeout", "unpublished"} => c \notin stage'
    BY <1>1, <2>1 DEF PublishedIfAnswered
  <2> QED
    BY <1>1, <2>2 DEF PublishedIfAnswered
<1> QED
  BY <1>4, <1>5, <1>6, <1>7, <1>8, <1>9, <1>10, <1>11 DEF IInv

\* The entries keep everything, and so do the processes of other entries.
LEMMA EntriesStay ==
    ASSUME TypeOK, entries' = entries
    PROVE  /\ entries' \in Seq(Entry) /\ Len(entries') = Len(entries)
           /\ DOMAIN entries' = DOMAIN entries
           /\ \A f \in DOMAIN entries : /\ entries'[f].open = entries[f].open
                                        /\ entries'[f].queue = entries[f].queue
                                        /\ entries'[f].known = entries[f].known
                                        /\ entries[f].lastPid <= entries'[f].lastPid
                                        /\ SameChannel(f)
           /\ \A f \in DOMAIN entries, d \in Calls :
                 In(entries'[f].inbox, d) => In(entries[f].inbox, d)
<1>1. \A f \in DOMAIN entries : entries[f].lastPid \in Nat
  BY TypeFacts DEF Entry
<1>2. /\ \A f \in DOMAIN entries : entries[f].lastPid <= entries'[f].lastPid
  BY <1>1
<1> QED
  BY <1>2 DEF TypeOK, SameChannel

\* A file is saved by code that was not answered.
LEMMA SaveStep ==
    ASSUME IInv, NEW p \in procs, Save(p)
    PROVE  IInv'
<1>1. TypeOK /\ CodeUnanswered /\ ProcsOK /\ OpenOK
  BY DEF IInv
<1>2. /\ p.does = "runs" /\ stage' = stage \cup {p.call}
      /\ entries' = entries /\ procs' = procs /\ calls' = calls /\ sessions' = sessions
      /\ files' = files /\ disturbed' = disturbed /\ faults' = faults
  BY DEF Save
<1>3. AskedAt(p.entry, p.call)
  BY <1>1, <1>2 DEF CodeUnanswered
<1>4. \A f : SameProcs(f)
  BY <1>2, SameProcsFrame
<1>5. p.entry \in DOMAIN entries
  BY <1>1 DEF TypeOK
<1>6. entries[p.entry].open => Mode(p.entry)'
  <2>1. PICK e : e = p.entry
    OBVIOUS
  <2>2. entries[e].open => Mode(e)
    BY <1>1, <1>5, <2>1 DEF OpenOK
  <2>3. SameChannel(e) /\ SameSent(e) /\ SameGood(e)
    BY <1>1, <1>2, <1>5, <2>1, EntriesStay, CallsFrame
  <2>4. entries[e].open => Mode(e)'
    BY <1>4, <2>2, <2>3, ModeFrame
  <2> QED
    BY <2>1, <2>4 DEF Mode, Waits, Asked, Works, Told, Listens
<1>7. ProcsOK'
  BY <1>1, <1>2 DEF ProcsOK
<1>8. /\ stage \subseteq stage' /\ stage' \subseteq Calls /\ \A c \in stage' \ stage : Unanswered(c)
      /\ faults' \in 0..MaxFaults /\ disturbed' \subseteq DOMAIN entries
  BY <1>1, <1>2, <1>3 DEF TypeOK, AskedAt
<1>9. \A q \in procs' : /\ q \in Process /\ q.entry \in DOMAIN entries
                        /\ q.pid \in 1..entries'[q.entry].lastPid
                        /\ q.does = "runs" => AskedAt(q.entry, q.call)
  BY <1>1, <1>2 DEF TypeOK, CodeUnanswered
<1> QED
  BY <1>1, <1>2, <1>4, <1>5, <1>6, <1>7, <1>8, <1>9, EntriesStay, ProcessStep

\* A process dies, and its session is disturbed.
LEMMA DieStep ==
    ASSUME IInv, NEW p \in procs, Die(p)
    PROVE  IInv'
<1>1. TypeOK /\ CodeUnanswered /\ ProcsOK /\ OpenOK
  BY DEF IInv
<1>2. /\ procs' = procs \ {p} /\ disturbed' = disturbed \cup {p.entry}
      /\ entries' = entries /\ calls' = calls /\ sessions' = sessions
      /\ files' = files /\ stage' = stage /\ faults' = faults + 1 /\ faults < MaxFaults
  BY DEF Die, Becomes
<1>3. PICK e : e = p.entry
  OBVIOUS
<1>4. e \in DOMAIN entries
  BY <1>1, <1>3 DEF TypeOK
<1>5. \A f : SameProcs(f)
  BY <1>2 DEF SameProcs
<1>6. entries[e].open => Mode(e)'
  <2>1. entries[e].open => Mode(e)
    BY <1>1, <1>4 DEF OpenOK
  <2>2. SameChannel(e) /\ SameSent(e) /\ SameGood(e)
    BY <1>1, <1>2, <1>4, EntriesStay, CallsFrame
  <2> QED
    BY <1>5, <2>1, <2>2, ModeFrame
<1>7. ProcsOK'
  BY <1>1, <1>2 DEF ProcsOK
<1>8. faults' \in 0..MaxFaults /\ disturbed' \subseteq DOMAIN entries /\ stage' \subseteq Calls
  BY <1>1, <1>2, <1>3, <1>4, PoolAssumption DEF TypeOK
<1>9. \A q \in procs' : /\ q \in Process /\ q.entry \in DOMAIN entries
                        /\ q.pid \in 1..entries'[q.entry].lastPid
                        /\ q.does = "runs" => AskedAt(q.entry, q.call)
  BY <1>1, <1>2 DEF TypeOK, CodeUnanswered
<1>10. disturbed \subseteq disturbed' /\ stage \subseteq stage' /\ stage' \ stage = {}
  BY <1>2
<1> QED
  BY <1>1, <1>2, <1>4, <1>5, <1>6, <1>7, <1>8, <1>9, <1>10, EntriesStay, ProcessStep

\* The process p does what it says: a session that was asked works from now on.
\* The child of p is kid, and super is what p becomes.
LEMMA WorkBegins ==
    ASSUME IInv, calls' = calls, NEW e \in DOMAIN entries, entries[e].open,
           NEW p \in procs, p.entry = e, p.does = "reads", entries[e].inbox # <<>>,
           NEW m, m = Head(entries[e].inbox), NEW pid, pid = entries[e].lastPid + 1,
           NEW super, super.entry = e, super.pid = p.pid, super.does = "supervises",
           super.call = m, super.child = pid, super.result = p.result, super.done = p.done,
           NEW kid, kid.entry = e, kid.pid = pid, kid.does = "runs", kid.call = m,
           kid.done = p.done,
           procs' = (procs \ {p}) \cup {super, kid}, disturbed' = disturbed,
           entries'[e].known = entries[e].known, entries'[e].lastPid = pid,
           entries'[e].inbox = Tail(entries[e].inbox), entries'[e].outbox = entries[e].outbox
    PROVE  m # Stop /\ Mode(e)'
<1>1. /\ TypeOK /\ ProcsOK /\ Mode(e)
  BY DEF IInv, OpenOK
<1>2. PICK c \in Calls : Asked(e, c)
  BY <1>1 DEF Mode, Waits, Works, Told, Listens, Quiet
<1>3. /\ Sent(e, c) /\ entries[e].inbox = <<c>> /\ entries[e].outbox = <<>> /\ KnownReads(e)
  BY <1>2 DEF Asked
<1>4. m = c /\ Tail(entries[e].inbox) = <<>>
  BY <1>3
<1>5. m # Stop
  BY <1>4, PoolAssumption
<1>6. p \in ProcsOf(e) /\ p.pid = entries[e].known /\ Keeps(e, p) /\ p.result = "none"
  BY <1>1, <1>3 DEF ProcsOf, KnownReads, ProcsOK
<1>7. ProcsOf(e) = {p}
  BY <1>1, <1>3, <1>6 DEF ProcsOf, KnownReads, ProcsOK
<1>8. ProcsOf(e)' = {super, kid}
  BY <1>7 DEF ProcsOf
<1>9. /\ entries[e].known \in 1..entries[e].lastPid /\ entries[e].lastPid \in Nat
      /\ pid # entries[e].known /\ pid \in 1..pid
  <2>1. entries[e].known \in 1..entries[e].lastPid /\ entries[e].lastPid \in Nat
    BY <1>1, TypeFacts DEF TypeOK, Entry
  <2> QED
    BY <2>1
<1>10. Quiet(e)' /\ Sent(e, c)'
  BY <1>3, <1>4 DEF Quiet, Sent
<1>11. \A q : q.done = p.done => Keeps(e, q)'
  BY <1>6 DEF Keeps, Good, Over
<1>12. Supervises(e, c, pid, super)'
  BY <1>4, <1>6, <1>11 DEF Supervises
<1>13. RunsCode(e, c, pid, kid)'
  BY <1>4, <1>6, <1>8, <1>9 DEF RunsCode
<1>14. \E q \in ProcsOf(e)' : /\ q.pid = entries'[e].known
                              /\ q.result # "failed" => \E o \in ProcsOf(e)' : o.pid = pid
  BY <1>6, <1>8
<1>15. Works(e, c)'
  BY <1>8, <1>9, <1>10, <1>12, <1>13, <1>14 DEF Works
<1> QED
  BY <1>5, <1>15 DEF Mode

\* A worker takes a message, with the choices made: m is the message, x the entry
\* without it, and new what becomes of the process.
Takes(p, e, m, pid, x, new) ==
    /\ e = p.entry /\ p.does = "reads" /\ entries[e].inbox # <<>>
    /\ m = Head(entries[e].inbox) /\ pid = entries[e].lastPid + 1
    /\ x = [entries[e] EXCEPT !.inbox = Tail(entries[e].inbox),
                              !.lastPid = IF m = Stop THEN @ ELSE pid]
    /\ entries' = [entries EXCEPT ![e] = x]
    /\ new = IF m = Stop THEN {}
             ELSE {[p EXCEPT !.does = "supervises", !.call = m, !.child = pid],
                   [p EXCEPT !.does = "runs", !.call = m, !.pid = pid]}
    /\ procs' = (procs \ {p}) \cup new
    /\ UNCHANGED <<sessions, calls, stage, files, disturbed, faults>>

\* A worker takes a message.
LEMMA TakesStep ==
    ASSUME IInv, NEW p \in procs, NEW e, NEW m, NEW pid, NEW x, NEW new,
           Takes(p, e, m, pid, x, new)
    PROVE  IInv'
<1>1. TypeOK /\ CodeUnanswered /\ ProcsOK /\ OpenOK
  BY DEF IInv
<1>2. /\ calls' = calls /\ sessions' = sessions /\ files' = files /\ stage' = stage
      /\ disturbed' = disturbed /\ faults' = faults
      /\ e = p.entry /\ p.does = "reads" /\ entries[e].inbox # <<>>
      /\ m = Head(entries[e].inbox) /\ pid = entries[e].lastPid + 1
      /\ procs' = (procs \ {p}) \cup new
  BY DEF Takes
<1>3. p \in Process /\ e \in DOMAIN entries /\ p.pid \in 1..entries[e].lastPid
  BY <1>1, <1>2 DEF TypeOK
<1>4. PICK t : t = Tail(entries[e].inbox)
  OBVIOUS
<1>5. entries[e] \in Entry /\ entries[e].inbox \in Seq(Calls \cup {Stop})
  BY <1>1, <1>3, TypeFacts DEF Entry
<1>6. /\ t \in Seq(Calls \cup {Stop}) /\ Len(t) = Len(entries[e].inbox) - 1
      /\ Len(entries[e].inbox) \in Nat
      /\ \A i \in 1..Len(t) : t[i] = entries[e].inbox[i + 1]
      /\ m \in Calls \cup {Stop}
  BY <1>2, <1>4, <1>5, HeadTailProperties, LenProperties
<1>7. \A d \in Calls : In(t, d) => In(entries[e].inbox, d)
  BY <1>6 DEF In
<1>8. m # Stop => In(entries[e].inbox, m) /\ m \in Calls
  <2>1. Head(entries[e].inbox) = entries[e].inbox[1]
    BY <1>2, <1>5
  <2>2. 1 \in 1..Len(entries[e].inbox)
    BY <1>2, <1>5, EmptySeq
  <2> QED
    BY <1>2, <1>6, <2>1, <2>2 DEF In
<1>9. entries[e].lastPid \in Nat /\ pid \in Nat
  BY <1>2, <1>5 DEF Entry
<1>10. PICK k : k = IF m = Stop THEN entries[e].lastPid ELSE pid
  OBVIOUS
<1>11. k \in Nat /\ entries[e].lastPid <= k /\ (m # Stop => k = pid)
  BY <1>2, <1>9, <1>10
<1>12. x = [entries[e] EXCEPT !.inbox = t, !.lastPid = k]
  BY <1>4, <1>5, <1>10 DEF Takes, Entry
<1>13. /\ x \in Entry /\ x.inbox = t /\ x.lastPid = k /\ x.outbox = entries[e].outbox
       /\ x.known = entries[e].known /\ x.queue = entries[e].queue /\ x.open = entries[e].open
  BY <1>5, <1>6, <1>11, <1>12 DEF Entry
<1>14. EntryGiven(e, x)
  BY DEF Takes, EntryGiven
<1>15. /\ entries' \in Seq(Entry) /\ entries'[e] = x
       /\ Len(entries') = Len(entries) /\ DOMAIN entries' = DOMAIN entries
       /\ \A f \in DOMAIN entries : f # e => entries'[f] = entries[f]
  BY <1>1, <1>3, <1>13, <1>14, OneEntryChanges
<1>16. PICK super, kid :
         /\ super = [p EXCEPT !.does = "supervises", !.call = m, !.child = pid]
         /\ kid = [p EXCEPT !.does = "runs", !.call = m, !.pid = pid]
  OBVIOUS
<1>17. /\ super \in Process /\ super.entry = e /\ super.pid = p.pid /\ super.does = "supervises"
       /\ super.call = m /\ super.child = pid /\ super.result = p.result /\ super.done = p.done
       /\ kid \in Process /\ kid.entry = e /\ kid.pid = pid /\ kid.does = "runs"
       /\ kid.call = m /\ kid.done = p.done
  BY <1>2, <1>3, <1>6, <1>9, <1>16 DEF Process
<1>18. new = IF m = Stop THEN {} ELSE {super, kid}
  BY <1>16 DEF Takes
<1>19. \A q \in new : (q = super \/ q = kid) /\ m # Stop
  BY <1>18
<1>20. \A f \in DOMAIN entries : f # e => SameChannel(f) /\ SameProcs(f)
  <2>1. \A f \in DOMAIN entries : f # e => SameChannel(f)
    BY <1>15 DEF SameChannel
  <2>2. ASSUME NEW f \in DOMAIN entries, f # e
        PROVE  SameProcs(f)
    BY <1>2, <1>17, <1>19, <2>2 DEF SameProcs
  <2> QED
    BY <2>1, <2>2
<1>21. \A f \in DOMAIN entries : /\ entries'[f].open = entries[f].open
                                 /\ entries'[f].queue = entries[f].queue
                                 /\ entries'[f].known = entries[f].known
                                 /\ entries[f].lastPid <= entries'[f].lastPid
  <2>1. \A f \in DOMAIN entries : entries[f].lastPid \in Nat
    BY <1>1, TypeFacts DEF Entry
  <2> QED
    BY <1>11, <1>13, <1>15, <2>1
<1>22. ASSUME NEW q \in procs'
       PROVE  /\ q \in Process /\ q.entry \in DOMAIN entries
              /\ q.pid \in 1..entries'[q.entry].lastPid
              /\ q.does = "runs" => AskedAt(q.entry, q.call)
  <2>1. CASE q \in procs
    <3>1. q \in Process /\ q.entry \in DOMAIN entries /\ q.pid \in 1..entries[q.entry].lastPid
      BY <1>1, <2>1 DEF TypeOK
    <3>2. entries'[q.entry].lastPid \in Nat /\ entries[q.entry].lastPid \in Nat
      <4>1. entries'[q.entry] \in Entry /\ entries[q.entry] \in Entry
        BY <1>1, <1>15, <3>1, ElementOfSeq DEF TypeOK
      <4> QED
        BY <4>1 DEF Entry
    <3>3. q.pid \in 1..entries'[q.entry].lastPid
      BY <1>21, <3>1, <3>2
    <3> QED
      BY <1>1, <2>1, <3>1, <3>3 DEF CodeUnanswered
  <2>2. CASE q \in new
    <3>1. k = pid /\ m # Stop /\ p.pid \in 1..pid /\ pid \in 1..pid
      BY <1>2, <1>3, <1>9, <1>11, <1>19, <2>2
    <3>2. AskedAt(e, m)
      BY <1>1, <1>3, <1>8, <3>1 DEF CodeUnanswered
    <3> QED
      BY <1>3, <1>13, <1>15, <1>17, <1>19, <2>2, <3>1, <3>2
  <2> QED
    BY <1>2, <2>1, <2>2
<1>23. ProcsOK'
  <2>1. ASSUME NEW q \in procs', NEW o \in procs', q.entry = o.entry, q.pid = o.pid
        PROVE  q = o
    <3>1. \A u \in procs : u.entry = e => u.pid # pid
      BY <1>1, <1>2, <1>9 DEF TypeOK
    <3>2. p.pid # pid
      BY <1>2, <3>1
    <3>3. \A u \in procs : u.entry = e /\ u.pid = p.pid => u = p
      BY <1>1, <1>2 DEF ProcsOK
    <3>4. \A u, v \in procs : u.entry = v.entry /\ u.pid = v.pid => u = v
      BY <1>1 DEF ProcsOK
    <3> QED
      BY <1>2, <1>17, <1>19, <2>1, <3>1, <3>2, <3>3, <3>4
  <2>2. \A q \in procs' : /\ q.does = "reads" => q.result = "none"
                          /\ q.does = "supervises" => q.call \in Calls
    BY <1>1, <1>2, <1>8, <1>17, <1>19 DEF ProcsOK
  <2> QED
    BY <2>1, <2>2 DEF ProcsOK
<1>24. entries[e].open => Mode(e)'
  <2> SUFFICES ASSUME entries[e].open
               PROVE  Mode(e)'
    OBVIOUS
  <2>1. CASE m = Stop
    <3>1. PICK c \in Calls : Asked(e, c)
      BY <1>1, <1>2, <1>3 DEF OpenOK, Mode, Waits, Works, Told, Listens, Quiet
    <3>2. m = c
      BY <1>2, <3>1 DEF Asked
    <3> QED
      BY <2>1, <3>2, PoolAssumption
  <2>2. CASE m # Stop
    <3>1. /\ procs' = (procs \ {p}) \cup {super, kid}
          /\ entries'[e].known = entries[e].known /\ entries'[e].lastPid = pid
          /\ entries'[e].inbox = Tail(entries[e].inbox)
          /\ entries'[e].outbox = entries[e].outbox
      BY <1>2, <1>4, <1>11, <1>13, <1>15, <1>18, <2>2
    <3> QED
      BY <1>2, <1>3, <1>17, <3>1, WorkBegins
  <2> QED
    BY <2>1, <2>2
<1>25. \A f \in DOMAIN entries, d \in Calls : In(entries'[f].inbox, d) => In(entries[f].inbox, d)
  BY <1>7, <1>13, <1>15
<1>26. faults' \in 0..MaxFaults /\ disturbed' \subseteq DOMAIN entries /\ stage' \subseteq Calls
  BY <1>1, <1>2 DEF TypeOK
<1> QED
  BY <1>2, <1>3, <1>15, <1>20, <1>21, <1>22, <1>23, <1>24, <1>25, <1>26, ProcessStep

\* A worker takes a message.
LEMMA TakeStep ==
    ASSUME IInv, NEW p \in procs, Take(p)
    PROVE  IInv'
<1>1. PICK e, m, pid : e = p.entry /\ m = Head(entries[e].inbox) /\ pid = entries[e].lastPid + 1
  OBVIOUS
<1>2. PICK x : x = [entries[e] EXCEPT !.inbox = Tail(entries[e].inbox),
                                      !.lastPid = IF m = Stop THEN @ ELSE pid]
  OBVIOUS
<1>3. PICK new : new = IF m = Stop THEN {}
                       ELSE {[p EXCEPT !.does = "supervises", !.call = m, !.child = pid],
                             [p EXCEPT !.does = "runs", !.call = m, !.pid = pid]}
  OBVIOUS
<1>4. /\ p.does = "reads" /\ entries[e].inbox # <<>>
      /\ UNCHANGED <<sessions, calls, stage, files, disturbed, faults>>
  BY <1>1 DEF Take
<1>5. entries[e] \in Entry /\ e \in DOMAIN entries
  BY <1>1, TypeFacts DEF IInv, TypeOK
<1>6. procs' = (procs \ {p}) \cup new
  BY <1>1, <1>3 DEF Take, Becomes
<1>7. entries' = [entries EXCEPT ![e] = x]
  <2>1. CASE m = Stop
    <3>1. entries' = [entries EXCEPT ![e].inbox = Tail(entries[e].inbox)]
      BY <1>1, <2>1 DEF Take
    <3>2. x = [entries[e] EXCEPT !.inbox = Tail(entries[e].inbox)]
      BY <1>2, <1>5, <2>1 DEF Entry
    <3> QED
      BY <3>1, <3>2
  <2>2. CASE m # Stop
    <3>1. entries' = [entries EXCEPT ![e].inbox = Tail(entries[e].inbox), ![e].lastPid = pid]
      BY <1>1, <2>2 DEF Take
    <3>2. x = [entries[e] EXCEPT !.inbox = Tail(entries[e].inbox), !.lastPid = pid]
      BY <1>2, <2>2
    <3> QED
      BY <1>5, <3>1, <3>2 DEF Entry
  <2> QED
    BY <2>1, <2>2
<1>8. Takes(p, e, m, pid, x, new)
  BY <1>1, <1>2, <1>3, <1>4, <1>6, <1>7 DEF Takes
<1> QED
  BY <1>8, TakesStep

(***************************************************************************)
(* The end of the code                                                     *)
(***************************************************************************)

\* A parent that was told the result of its child, and a child that goes on as
\* the process of the session.
Informed(q, result) == [q EXCEPT !.result = result]

Heir(p) == [Resumed(p) EXCEPT !.done = p.done \cup {p.call}]

\* The code of p ends with a result.
Ends(p, result) ==
    /\ p.does = "runs"
    /\ \/ /\ result = "failed"
          /\ procs' = (procs \ ({p} \cup Parent(p))) \cup {Informed(q, result) : q \in Parent(p)}
       \/ /\ result = "ok"
          /\ procs' = (procs \ ({p} \cup Parent(p))) \cup {Informed(q, result) : q \in Parent(p)}
                        \cup {Heir(p) : q \in Parent(p)}
    /\ UNCHANGED <<sessions, entries, calls, stage, files, disturbed, faults>>

\* What those processes are.
LEMMA EndFacts ==
    ASSUME IInv, NEW p \in procs, NEW result, Ends(p, result)
    PROVE  /\ result \in {"ok", "failed"}
           /\ p.entry \in DOMAIN entries /\ AskedAt(p.entry, p.call)
           /\ \A q \in Parent(p) :
                 /\ q \in procs /\ q # p /\ q.entry = p.entry /\ q.child = p.pid
                 /\ q.does = "supervises" /\ q.call \in Calls
                 /\ Informed(q, result) \in Process
                 /\ Informed(q, result).entry = p.entry /\ Informed(q, result).pid = q.pid
                 /\ Informed(q, result).does = "supervises" /\ Informed(q, result).call = q.call
                 /\ Informed(q, result).child = q.child /\ Informed(q, result).result = result
                 /\ Informed(q, result).done = q.done
           /\ Heir(p) \in Process /\ Heir(p).entry = p.entry /\ Heir(p).pid = p.pid
           /\ Heir(p).does = "reads" /\ Heir(p).result = "none"
           /\ Heir(p).done = p.done \cup {p.call}
<1>1. TypeOK /\ CodeUnanswered /\ ProcsOK
  BY DEF IInv
<1>2. p.does = "runs" /\ result \in {"ok", "failed"}
  BY DEF Ends
<1>3. p \in Process /\ p.entry \in DOMAIN entries
  BY <1>1 DEF TypeOK
<1>4. AskedAt(p.entry, p.call)
  BY <1>1, <1>2 DEF CodeUnanswered
<1>5. p.call \in Calls
  BY <1>4 DEF AskedAt
<1>6. ASSUME NEW q \in Parent(p)
      PROVE  /\ q \in procs /\ q # p /\ q.entry = p.entry /\ q.child = p.pid
             /\ q.does = "supervises" /\ q.call \in Calls /\ q \in Process
  <2>1. /\ q \in procs /\ q.entry = p.entry /\ q.child = p.pid /\ q.does = "supervises"
    BY DEF Parent, ProcsOf
  <2> QED
    BY <1>1, <1>2, <2>1 DEF ProcsOK, TypeOK
<1>7. ASSUME NEW q \in Parent(p)
      PROVE  /\ Informed(q, result) \in Process
             /\ Informed(q, result).entry = q.entry /\ Informed(q, result).pid = q.pid
             /\ Informed(q, result).does = q.does /\ Informed(q, result).call = q.call
             /\ Informed(q, result).child = q.child /\ Informed(q, result).result = result
             /\ Informed(q, result).done = q.done
  <2>1. q \in Process
    BY <1>6
  <2> QED
    BY <1>2, <2>1 DEF Informed, Process
<1>8. /\ Heir(p) \in Process /\ Heir(p).entry = p.entry /\ Heir(p).pid = p.pid
      /\ Heir(p).does = "reads" /\ Heir(p).result = "none"
      /\ Heir(p).done = p.done \cup {p.call}
  BY <1>3, <1>5 DEF Heir, Resumed, Process
<1> QED
  BY <1>2, <1>3, <1>4, <1>6, <1>7, <1>8

\* Where the processes come from.
LEMMA EndView ==
    ASSUME NEW p, NEW result, Ends(p, result)
    PROVE  /\ \A u \in procs' : \/ u \in procs /\ u # p /\ u \notin Parent(p)
                                \/ \E q \in Parent(p) : u = Informed(q, result)
                                \/ result = "ok" /\ u = Heir(p)
           /\ \A u \in procs : u # p /\ u \notin Parent(p) => u \in procs'
           /\ \A q \in Parent(p) : Informed(q, result) \in procs'
           /\ \A q \in Parent(p) : result = "ok" => Heir(p) \in procs'
<1>1. CASE result = "failed"
  BY <1>1 DEF Ends
<1>2. CASE result = "ok"
  BY <1>2 DEF Ends
<1> QED
  BY <1>1, <1>2 DEF Ends

\* A session goes on working when its code ends.
LEMMA WorkEnds ==
    ASSUME IInv, NEW p \in procs, NEW result, Ends(p, result),
           NEW e, e = p.entry, entries[e].open
    PROVE  Mode(e)'
<1>1. /\ TypeOK /\ ProcsOK /\ Mode(e) /\ e \in DOMAIN entries
  BY EndFacts DEF IInv, OpenOK
<1>2. /\ p.does = "runs" /\ calls' = calls /\ entries' = entries /\ disturbed' = disturbed
      /\ p \in ProcsOf(e)
  BY DEF Ends, ProcsOf
<1>3. PICK c \in Calls : Works(e, c)
  BY <1>1, <1>2 DEF Mode, Waits, Asked, Told, Listens, KnownReads, AnsweredReads
<1>4. PICK child \in 1..entries[e].lastPid :
          /\ child # entries[e].known
          /\ \A q \in ProcsOf(e) : Supervises(e, c, child, q) \/ RunsCode(e, c, child, q)
                                      \/ HasRun(e, c, child, q)
          /\ e \notin disturbed =>
                \E q \in ProcsOf(e) :
                   /\ q.pid = entries[e].known
                   /\ q.result # "failed" => \E o \in ProcsOf(e) : o.pid = child
  BY <1>3 DEF Works
<1>5. /\ p.pid = child /\ p.call = c
      /\ \A q \in ProcsOf(e) : q.pid = entries[e].known => p.done = q.done
  BY <1>2, <1>4 DEF Supervises, RunsCode, HasRun
<1>6. \A q \in ProcsOf(e) : q.pid = child => q = p
  BY <1>1, <1>2, <1>5 DEF ProcsOf, ProcsOK
<1>7. \A q \in ProcsOf(e) : q # p => q \in Parent(p) /\ Supervises(e, c, child, q)
  BY <1>2, <1>4, <1>5, <1>6 DEF Supervises, RunsCode, HasRun, Parent
<1>8. \A q \in Parent(p) : /\ q \in ProcsOf(e) /\ Supervises(e, c, child, q)
                           /\ Informed(q, result).pid = entries[e].known
                           /\ Informed(q, result).does = "supervises"
                           /\ Informed(q, result).call = c
                           /\ Informed(q, result).child = child
                           /\ Informed(q, result).result = result
                           /\ Informed(q, result).entry = e
                           /\ Informed(q, result).done = q.done
  BY <1>7, EndFacts DEF ProcsOf, Supervises
<1>9. ASSUME NEW u \in ProcsOf(e)'
      PROVE  \/ \E q \in Parent(p) : u = Informed(q, result)
             \/ result = "ok" /\ u = Heir(p)
  <2>1. u \in procs' /\ u.entry = e
    BY DEF ProcsOf
  <2> QED
    BY <1>7, <2>1, EndView DEF ProcsOf
<1>10. ASSUME NEW q \in Parent(p)
       PROVE  Supervises(e, c, child, Informed(q, result))'
  <2>1. Keeps(e, q) /\ Informed(q, result).done = q.done
    BY <1>8 DEF Supervises
  <2>2. Keeps(e, Informed(q, result))'
    BY <1>2, <2>1 DEF Keeps, Good, Over
  <2> QED
    BY <1>2, <1>8, <2>2 DEF Supervises
<1>11. ASSUME result = "ok"
       PROVE  HasRun(e, c, child, Heir(p))'
  <2>1. Heir(p).pid = child /\ Heir(p).does = "reads" /\ Heir(p).done = p.done \cup {c}
    BY <1>5, EndFacts
  <2>2. ASSUME NEW u \in ProcsOf(e)', u.pid = entries[e].known
        PROVE  u.result = "ok" /\ Heir(p).done = u.done \cup {c}
    <3>1. PICK q \in Parent(p) : u = Informed(q, result)
      BY <1>4, <1>9, <2>1, <2>2
    <3>2. q.pid = entries[e].known /\ q \in ProcsOf(e)
      BY <1>8 DEF Supervises
    <3> QED
      BY <1>5, <1>8, <1>11, <2>1, <3>1, <3>2
  <2> QED
    BY <1>2, <2>1, <2>2 DEF HasRun
<1>12. ASSUME e \notin disturbed
       PROVE  \E q \in ProcsOf(e)' :
                 /\ q.pid = entries[e].known
                 /\ q.result # "failed" => \E o \in ProcsOf(e)' : o.pid = child
  <2>1. PICK q \in ProcsOf(e) : q.pid = entries[e].known
    BY <1>4, <1>12
  <2>2. q \in Parent(p)
    BY <1>4, <1>5, <1>7, <2>1
  <2>3. Informed(q, result) \in ProcsOf(e)'
    BY <1>8, <2>2, EndView DEF ProcsOf
  <2>4. CASE result = "failed"
    BY <1>8, <2>2, <2>3, <2>4
  <2>5. CASE result = "ok"
    <3>1. Heir(p) \in procs' /\ Heir(p).entry = e /\ Heir(p).pid = child
      BY <1>5, <2>2, <2>5, EndView, EndFacts
    <3>2. Heir(p) \in ProcsOf(e)'
      BY <3>1 DEF ProcsOf
    <3> QED
      BY <1>8, <2>2, <2>3, <3>1, <3>2
  <2> QED
    BY <2>4, <2>5, EndFacts
<1>13. Sent(e, c)' /\ Quiet(e)'
  BY <1>2, <1>3 DEF Works, Sent, Quiet
<1>14. ASSUME NEW u \in ProcsOf(e)'
       PROVE  Supervises(e, c, child, u)' \/ HasRun(e, c, child, u)'
  BY <1>9, <1>10, <1>11
<1>15. Works(e, c)'
  BY <1>2, <1>4, <1>12, <1>13, <1>14 DEF Works
<1> QED
  BY <1>15 DEF Mode

\* The code of p ends: the invariant holds.
LEMMA EndsStep ==
    ASSUME IInv, NEW p \in procs, NEW result, Ends(p, result)
    PROVE  IInv'
<1>1. TypeOK /\ CodeUnanswered /\ ProcsOK
  BY DEF IInv
<1>2. /\ p.does = "runs" /\ calls' = calls /\ sessions' = sessions /\ files' = files
      /\ stage' = stage /\ disturbed' = disturbed /\ faults' = faults /\ entries' = entries
  BY DEF Ends
<1>3. PICK e : e = p.entry
  OBVIOUS
<1>4. e \in DOMAIN entries
  BY <1>3, EndFacts
<1>5. ASSUME NEW u \in procs'
      PROVE  /\ u \in Process /\ u.entry \in DOMAIN entries
             /\ u.pid \in 1..entries'[u.entry].lastPid
             /\ u.does = "runs" => AskedAt(u.entry, u.call)
             /\ u.does = "reads" => u.result = "none"
             /\ u.does = "supervises" => u.call \in Calls
  <2>1. CASE u \in procs
    BY <1>1, <1>2, <2>1 DEF TypeOK, CodeUnanswered, ProcsOK
  <2>2. ASSUME NEW q \in Parent(p), u = Informed(q, result)
        PROVE  /\ u \in Process /\ u.entry = q.entry /\ u.pid = q.pid /\ q \in procs
               /\ u.does = "supervises" /\ u.call \in Calls
    BY <2>2, EndFacts
  <2>3. CASE \E q \in Parent(p) : u = Informed(q, result)
    BY <1>1, <1>2, <2>2, <2>3 DEF TypeOK
  <2>4. CASE u = Heir(p)
    BY <1>1, <1>2, <2>4, EndFacts DEF TypeOK
  <2> QED
    BY <2>1, <2>3, <2>4, EndView
<1>6. ProcsOK'
  <2>1. \A u, v \in procs : u.entry = v.entry /\ u.pid = v.pid => u = v
    BY <1>1 DEF ProcsOK
  <2>2. \A q \in Parent(p) : /\ q \in procs /\ q # p /\ q.entry = p.entry
                             /\ Informed(q, result).entry = q.entry
                             /\ Informed(q, result).pid = q.pid
    BY EndFacts
  <2>3. Heir(p).entry = p.entry /\ Heir(p).pid = p.pid
    BY EndFacts
  <2>4. ASSUME NEW u \in procs', NEW v \in procs', u.entry = v.entry, u.pid = v.pid
        PROVE  u = v
    <3>1. \/ u \in procs /\ u # p /\ u \notin Parent(p)
          \/ \E q \in Parent(p) : u = Informed(q, result)
          \/ u = Heir(p)
      BY EndView
    <3>2. \/ v \in procs /\ v # p /\ v \notin Parent(p)
          \/ \E q \in Parent(p) : v = Informed(q, result)
          \/ v = Heir(p)
      BY EndView
    <3>3. CASE u \in procs /\ u # p /\ u \notin Parent(p)
      BY <2>1, <2>2, <2>3, <2>4, <3>2, <3>3
    <3>4. CASE \E q \in Parent(p) : u = Informed(q, result)
      BY <2>1, <2>2, <2>3, <2>4, <3>2, <3>4
    <3>5. CASE u = Heir(p)
      BY <2>1, <2>2, <2>3, <2>4, <3>2, <3>5
    <3> QED
      BY <3>1, <3>3, <3>4, <3>5
  <2> QED
    BY <1>5, <2>4 DEF ProcsOK
<1>7. ASSUME NEW f \in DOMAIN entries, f # e
      PROVE  SameProcs(f)
  <2>1. \A u \in procs' : u.entry = f => u \in procs
    BY <1>3, <1>7, EndView, EndFacts
  <2>2. \A u \in procs : u.entry = f => u \in procs'
    BY <1>3, <1>7, EndView, EndFacts
  <2> QED
    BY <1>2, <2>1, <2>2 DEF SameProcs
<1>8. entries[e].open => Mode(e)'
  BY <1>3, WorkEnds
<1>9. /\ stage \subseteq stage' /\ stage' \subseteq Calls /\ stage' \ stage = {}
      /\ faults' \in 0..MaxFaults /\ disturbed \subseteq disturbed'
      /\ disturbed' \subseteq DOMAIN entries
  BY <1>1, <1>2 DEF TypeOK
<1>10. \A u \in procs' : /\ u \in Process /\ u.entry \in DOMAIN entries
                         /\ u.pid \in 1..entries'[u.entry].lastPid
                         /\ u.does = "runs" => AskedAt(u.entry, u.call)
  BY <1>5
<1> QED
  BY <1>1, <1>2, <1>4, <1>6, <1>7, <1>8, <1>9, <1>10, EntriesStay, ProcessStep

\* The code succeeds.
LEMMA SucceedStep ==
    ASSUME IInv, NEW p \in procs, Succeed(p)
    PROVE  IInv'
<1>1. Ends(p, "ok")
  BY DEF Succeed, Ends, Reports, Informed, Heir
<1> QED
  BY <1>1, EndsStep

\* The code fails.
LEMMA FailStep ==
    ASSUME IInv, NEW p \in procs, Fail(p)
    PROVE  IInv'
<1>1. Ends(p, "failed")
  BY DEF Fail, Ends, Reports, Informed
<1> QED
  BY <1>1, EndsStep

(***************************************************************************)
(* The answer of a worker                                                  *)
(***************************************************************************)

\* The process p answers for its child with a; x is the entry with the answer,
\* the processes of gone are no more, and new is what is left of p.
Responds(p, e, a, x, gone, new) ==
    /\ e = p.entry /\ p.does = "supervises" /\ p \in gone
    /\ a.call = p.call /\ a \in Answers
    /\ x = [entries[e] EXCEPT !.outbox = Append(entries[e].outbox, a)]
    /\ entries' = [entries EXCEPT ![e] = x]
    /\ new \subseteq {Resumed(p)}
    /\ \A q \in gone : q.entry = e
    /\ procs' = (procs \ gone) \cup new
    /\ UNCHANGED <<sessions, calls, stage, files, disturbed, faults>>

\* What p is when it reads again.
LEMMA ResumedFacts ==
    ASSUME NEW p \in Process
    PROVE  /\ Resumed(p) \in Process /\ Resumed(p).entry = p.entry /\ Resumed(p).pid = p.pid
           /\ Resumed(p).does = "reads" /\ Resumed(p).result = "none"
           /\ Resumed(p).done = p.done
BY DEF Resumed, Process

\* An answer of the worker: the invariant holds when the session was told it.
LEMMA RespondsStep ==
    ASSUME IInv, NEW p \in procs, NEW e, NEW a, NEW x, NEW gone, NEW new,
           Responds(p, e, a, x, gone, new), entries[e].open => Mode(e)'
    PROVE  IInv'
<1>1. TypeOK /\ CodeUnanswered /\ ProcsOK
  BY DEF IInv
<1>2. /\ calls' = calls /\ sessions' = sessions /\ files' = files
      /\ stage' = stage /\ disturbed' = disturbed /\ faults' = faults
      /\ e = p.entry /\ p.does = "supervises" /\ p \in gone /\ a \in Answers
      /\ \A q \in gone : q.entry = e
  BY DEF Responds
<1>3. p \in Process /\ e \in DOMAIN entries
  BY <1>1, <1>2 DEF TypeOK
<1>4. /\ Resumed(p) \in Process /\ Resumed(p).entry = e /\ Resumed(p).pid = p.pid
      /\ Resumed(p).does = "reads" /\ Resumed(p).result = "none"
  BY <1>2, <1>3, ResumedFacts
<1>5. /\ \A u \in procs' : (u \in procs /\ u # p) \/ u = Resumed(p)
      /\ \A u \in procs : u.entry # e => u \in procs'
  BY <1>2 DEF Responds
<1>6. entries[e] \in Entry
  BY <1>1, <1>3, TypeFacts
<1>7. PICK o : o = Append(entries[e].outbox, a)
  OBVIOUS
<1>8. o \in Seq(Answers)
  BY <1>2, <1>6, <1>7, AppendProperties DEF Entry
<1>9. x = [entries[e] EXCEPT !.outbox = o]
  BY <1>7 DEF Responds
<1>10. /\ x \in Entry /\ x.inbox = entries[e].inbox /\ x.lastPid = entries[e].lastPid
       /\ x.known = entries[e].known /\ x.queue = entries[e].queue /\ x.open = entries[e].open
  BY <1>6, <1>8, <1>9 DEF Entry
<1>11. EntryGiven(e, x)
  BY DEF Responds, EntryGiven
<1>12. /\ entries' \in Seq(Entry) /\ entries'[e] = x
       /\ Len(entries') = Len(entries) /\ DOMAIN entries' = DOMAIN entries
       /\ \A f \in DOMAIN entries : f # e => entries'[f] = entries[f]
  BY <1>1, <1>3, <1>10, <1>11, OneEntryChanges
<1>13. \A f \in DOMAIN entries : /\ entries'[f].open = entries[f].open
                                 /\ entries'[f].queue = entries[f].queue
                                 /\ entries'[f].known = entries[f].known
                                 /\ entries[f].lastPid <= entries'[f].lastPid
                                 /\ entries'[f].lastPid = entries[f].lastPid
                                 /\ entries'[f].inbox = entries[f].inbox
  <2>1. \A f \in DOMAIN entries : entries[f].lastPid \in Nat
    BY <1>1, TypeFacts DEF Entry
  <2> QED
    BY <1>10, <1>12, <2>1
<1>14. ASSUME NEW f \in DOMAIN entries, f # e
       PROVE  SameChannel(f) /\ SameProcs(f)
  <2>1. SameChannel(f)
    BY <1>12, <1>14 DEF SameChannel
  <2>2. SameProcs(f)
    BY <1>2, <1>4, <1>5, <1>14 DEF SameProcs
  <2> QED
    BY <2>1, <2>2
<1>15. ASSUME NEW u \in procs'
       PROVE  /\ u \in Process /\ u.entry \in DOMAIN entries
              /\ u.pid \in 1..entries'[u.entry].lastPid
              /\ u.does = "runs" => AskedAt(u.entry, u.call)
              /\ u.does = "reads" => u.result = "none"
              /\ u.does = "supervises" => u.call \in Calls
  <2>1. CASE u \in procs
    BY <1>1, <1>13, <2>1 DEF TypeOK, CodeUnanswered, ProcsOK
  <2>2. CASE u = Resumed(p)
    BY <1>1, <1>2, <1>3, <1>4, <1>13, <2>2 DEF TypeOK
  <2> QED
    BY <1>5, <2>1, <2>2
<1>16. ProcsOK'
  <2>1. \A u, v \in procs : u.entry = v.entry /\ u.pid = v.pid => u = v
    BY <1>1 DEF ProcsOK
  <2>2. ASSUME NEW u \in procs', NEW v \in procs', u.entry = v.entry, u.pid = v.pid
        PROVE  u = v
    BY <1>2, <1>4, <1>5, <2>1, <2>2
  <2> QED
    BY <1>15, <2>2 DEF ProcsOK
<1>17. /\ stage \subseteq stage' /\ stage' \subseteq Calls /\ stage' \ stage = {}
       /\ faults' \in 0..MaxFaults /\ disturbed \subseteq disturbed'
       /\ disturbed' \subseteq DOMAIN entries
  BY <1>1, <1>2 DEF TypeOK
<1>18. \A f \in DOMAIN entries, d \in Calls : In(entries'[f].inbox, d) => In(entries[f].inbox, d)
  BY <1>13
<1>19. \A u \in procs' : /\ u \in Process /\ u.entry \in DOMAIN entries
                         /\ u.pid \in 1..entries'[u.entry].lastPid
                         /\ u.does = "runs" => AskedAt(u.entry, u.call)
  BY <1>15
<1> QED
  BY <1>2, <1>3, <1>12, <1>13, <1>14, <1>16, <1>17, <1>18, <1>19, ProcessStep

\* What is so of an open session one process of which supervises.
LEMMA Supervised ==
    ASSUME IInv, NEW p \in procs, p.does = "supervises",
           NEW e, e = p.entry, entries[e].open
    PROVE  \E c \in Calls, child \in 1..entries[e].lastPid :
              /\ Sent(e, c) /\ Quiet(e) /\ child # entries[e].known
              /\ Supervises(e, c, child, p)
              /\ \A q \in ProcsOf(e) : q # p =>
                    q.pid = child /\ (RunsCode(e, c, child, q) \/ HasRun(e, c, child, q))
              /\ e \notin disturbed /\ p.result # "failed" =>
                    \E q \in ProcsOf(e) : q.pid = child
<1>1. TypeOK /\ ProcsOK /\ OpenOK
  BY DEF IInv
<1>2. e \in DOMAIN entries /\ p \in ProcsOf(e)
  BY <1>1 DEF TypeOK, ProcsOf
<1>3. PICK c \in Calls : Works(e, c)
  BY <1>1, <1>2 DEF OpenOK, Mode, Waits, Asked, Told, Listens, KnownReads, AnsweredReads
<1>4. PICK child \in 1..entries[e].lastPid :
          /\ child # entries[e].known
          /\ \A q \in ProcsOf(e) : Supervises(e, c, child, q) \/ RunsCode(e, c, child, q)
                                      \/ HasRun(e, c, child, q)
          /\ e \notin disturbed =>
                \E q \in ProcsOf(e) :
                   /\ q.pid = entries[e].known
                   /\ q.result # "failed" => \E o \in ProcsOf(e) : o.pid = child
  BY <1>3 DEF Works
<1>5. Supervises(e, c, child, p)
  BY <1>2, <1>4 DEF RunsCode, HasRun
<1>6. \A q \in ProcsOf(e) : q.pid = entries[e].known => q = p
  BY <1>1, <1>2, <1>5 DEF ProcsOf, ProcsOK, Supervises
<1>7. ASSUME NEW q \in ProcsOf(e), q # p
      PROVE  q.pid = child /\ (RunsCode(e, c, child, q) \/ HasRun(e, c, child, q))
  BY <1>4, <1>6, <1>7 DEF Supervises, RunsCode, HasRun
<1>8. e \notin disturbed /\ p.result # "failed" => \E q \in ProcsOf(e) : q.pid = child
  BY <1>4, <1>6
<1> QED
  BY <1>3, <1>4, <1>5, <1>7, <1>8 DEF Works

\* After an answer the session was told it.
LEMMA RespondsTold ==
    ASSUME IInv, NEW p \in procs, NEW e \in DOMAIN entries, NEW a, NEW x, NEW gone, NEW new,
           Responds(p, e, a, x, gone, new),
           NEW c \in Calls, Sent(e, c), Quiet(e), p.call = c, AnsweredReads(e, c, a)'
    PROVE  Mode(e)'
<1>1. TypeOK /\ entries[e] \in Entry
  BY TypeFacts DEF IInv
<1>2. EntryGiven(e, x) /\ a \in Answers /\ calls' = calls
  BY DEF Responds, EntryGiven
<1>3. Append(entries[e].outbox, a) = <<a>>
  BY DEF Quiet
<1>4. x = [entries[e] EXCEPT !.outbox = <<a>>]
  BY <1>3 DEF Responds
<1>5. <<a>> \in Seq(Answers)
  BY <1>2
<1>6. x \in Entry /\ x.outbox = <<a>> /\ x.inbox = entries[e].inbox
  BY <1>1, <1>4, <1>5 DEF Entry
<1>7. entries'[e].outbox = <<a>> /\ entries'[e].inbox = <<>>
  BY <1>1, <1>2, <1>6, OneEntryChanges DEF Quiet
<1>8. Sent(e, c)'
  BY <1>2 DEF Sent
<1>9. Told(e, c)'
  BY <1>2, <1>7, <1>8 DEF Told
<1> QED
  BY <1>9 DEF Mode

\* An answer leaves the known and the last pid as they are.
LEMMA RespondsKnown ==
    ASSUME IInv, NEW p \in procs, NEW e \in DOMAIN entries, NEW a, NEW x, NEW gone, NEW new,
           Responds(p, e, a, x, gone, new)
    PROVE  entries'[e].known = entries[e].known /\ entries'[e].lastPid = entries[e].lastPid
<1>1. TypeOK /\ entries[e] \in Entry
  BY TypeFacts DEF IInv
<1>2. EntryGiven(e, x) /\ a \in Answers
  BY DEF Responds, EntryGiven
<1>3. Append(entries[e].outbox, a) \in Seq(Answers)
  BY <1>1, <1>2, AppendProperties DEF Entry
<1>4. x \in Entry /\ x.known = entries[e].known /\ x.lastPid = entries[e].lastPid
  BY <1>1, <1>3 DEF Responds, Entry
<1> QED
  BY <1>1, <1>2, <1>4, OneEntryChanges

\* The parent answers a success, and the child is the process of the session.
LEMMA RelaySuccess ==
    ASSUME IInv, NEW p \in procs, p.does = "supervises", p.result = "ok", Relay(p)
    PROVE  IInv'
<1>1. TypeOK /\ CodeUnanswered /\ ProcsOK /\ p \in Process
  BY DEF IInv, TypeOK
<1>2. PICK e, a, x : /\ e = p.entry /\ a = [call |-> p.call, status |-> "ok", pid |-> p.child]
                     /\ x = [entries[e] EXCEPT !.outbox = Append(entries[e].outbox, a)]
  OBVIOUS
<1>3. p.call \in Calls /\ p.child \in Nat
  BY <1>1 DEF ProcsOK, Process
<1>4. a \in Answers /\ a.call = p.call /\ a.status = "ok" /\ a.pid = p.child
  BY <1>2, <1>3 DEF Answers
<1>5. entries' = [entries EXCEPT ![e] = x] /\ procs' = (procs \ {p}) \cup {}
  BY <1>2 DEF Relay, Answer, Becomes
<1>6. Responds(p, e, a, x, {p}, {})
  BY <1>2, <1>4, <1>5 DEF Relay, Responds
<1>7. e \in DOMAIN entries
  BY <1>1, <1>2 DEF TypeOK
<1>8. calls' = calls /\ disturbed' = disturbed
  BY DEF Relay
<1>9. ASSUME entries[e].open
      PROVE  Mode(e)'
  <2>1. PICK c \in Calls, child \in 1..entries[e].lastPid :
              /\ Sent(e, c) /\ Quiet(e) /\ child # entries[e].known
              /\ Supervises(e, c, child, p)
              /\ \A q \in ProcsOf(e) : q # p =>
                    q.pid = child /\ (RunsCode(e, c, child, q) \/ HasRun(e, c, child, q))
              /\ e \notin disturbed /\ p.result # "failed" =>
                    \E q \in ProcsOf(e) : q.pid = child
    BY <1>2, <1>9, Supervised
  <2>2. p \in ProcsOf(e) /\ p.pid = entries[e].known /\ p.call = c /\ p.child = child /\ Keeps(e, p)
    BY <1>2, <2>1 DEF Supervises, ProcsOf
  <2>3. ProcsOf(e)' = ProcsOf(e) \ {p}
    BY <1>5 DEF ProcsOf
  <2>4. ASSUME NEW q \in ProcsOf(e)'
        PROVE  q.does = "reads" /\ q.pid = a.pid /\ Learns(e, q, c)'
    <3>1. q.pid = child /\ HasRun(e, c, child, q)
      BY <2>1, <2>2, <2>3 DEF RunsCode
    <3>2. q.does = "reads" /\ q.done = p.done \cup {c}
      BY <2>2, <3>1 DEF HasRun
    <3>3. Learns(e, q, c)'
      BY <1>8, <2>2, <3>2 DEF Learns, Keeps, Good, Over
    <3> QED
      BY <1>4, <2>2, <3>1, <3>2, <3>3
  <2>5. Alive(e)'
    BY <1>8, <2>1, <2>2, <2>3 DEF Alive
  <2>6. a.pid \in 1..entries'[e].lastPid
    BY <1>4, <1>6, <1>7, <2>1, <2>2, RespondsKnown
  <2>7. AnsweredReads(e, c, a)'
    BY <1>4, <2>2, <2>4, <2>5, <2>6 DEF AnsweredReads
  <2> QED
    BY <1>6, <1>7, <2>1, <2>2, <2>7, RespondsTold
<1> QED
  BY <1>6, <1>9, RespondsStep

\* The process p answers without a success, and is the process of the session:
\* what it takes of the processes that go.
LEMMA KeepsOn ==
    ASSUME IInv, NEW p \in procs, NEW e, NEW a, NEW x, NEW gone,
           Responds(p, e, a, x, gone, {Resumed(p)}), a.status # "ok",
           \/ p.result = "failed"
           \/ \A q \in procs : q.entry = e /\ q.pid = p.child => q \in gone
    PROVE  IInv'
<1>1. TypeOK /\ ProcsOK /\ p \in Process
  BY DEF IInv, TypeOK
<1>2. /\ calls' = calls /\ disturbed' = disturbed /\ e = p.entry /\ p.does = "supervises"
      /\ p \in gone /\ a.call = p.call
      /\ procs' = (procs \ gone) \cup {Resumed(p)}
  BY DEF Responds
<1>3. e \in DOMAIN entries
  BY <1>1, <1>2 DEF TypeOK
<1>4. /\ Resumed(p).entry = e /\ Resumed(p).pid = p.pid
      /\ Resumed(p).does = "reads" /\ Resumed(p).done = p.done
  BY <1>1, <1>2, ResumedFacts
<1>5. ASSUME entries[e].open
      PROVE  Mode(e)'
  <2>1. PICK c \in Calls, child \in 1..entries[e].lastPid :
              /\ Sent(e, c) /\ Quiet(e) /\ child # entries[e].known
              /\ Supervises(e, c, child, p)
              /\ \A q \in ProcsOf(e) : q # p =>
                    q.pid = child /\ (RunsCode(e, c, child, q) \/ HasRun(e, c, child, q))
              /\ e \notin disturbed /\ p.result # "failed" =>
                    \E q \in ProcsOf(e) : q.pid = child
    BY <1>2, <1>5, Supervised
  <2>2. p \in ProcsOf(e) /\ p.pid = entries[e].known /\ p.call = c /\ p.child = child /\ Keeps(e, p)
    BY <1>2, <2>1 DEF Supervises, ProcsOf
  <2>3. ASSUME NEW q \in ProcsOf(e), q # p
        PROVE  q \in gone
    <3>1. q \in procs /\ q.entry = e /\ q.pid = p.child
      BY <2>1, <2>2, <2>3 DEF ProcsOf
    <3>2. p.result # "failed"
      BY <2>1, <2>2, <2>3 DEF RunsCode, HasRun
    <3> QED
      BY <3>1, <3>2
  <2>4. ProcsOf(e)' = {Resumed(p)}
    BY <1>2, <1>4, <2>3 DEF ProcsOf
  <2>5. Keeps(e, Resumed(p))'
    BY <1>2, <1>4, <2>2 DEF Keeps, Good, Over
  <2>6. entries'[e].known = entries[e].known
    BY <1>3, RespondsKnown
  <2>7. \A q \in ProcsOf(e)' : q.does = "reads" /\ q.pid = entries'[e].known /\ Keeps(e, q)'
    BY <1>4, <2>2, <2>4, <2>5, <2>6
  <2>8. AnsweredReads(e, c, a)'
    BY <1>2, <2>2, <2>4, <2>7 DEF AnsweredReads, Alive
  <2> QED
    BY <1>3, <2>1, <2>2, <2>8, RespondsTold
<1> QED
  BY <1>5, RespondsStep

\* The parent answers.
LEMMA RelayStep ==
    ASSUME IInv, NEW p \in procs, Relay(p)
    PROVE  IInv'
<1>1. TypeOK /\ ProcsOK /\ p \in Process
  BY DEF IInv, TypeOK
<1>2. p.does = "supervises" /\ p.result \in {"ok", "failed"} /\ p.call \in Calls
  BY <1>1 DEF Relay, Process, ProcsOK
<1>3. CASE p.result = "ok"
  BY <1>2, <1>3, RelaySuccess
<1>4. CASE p.result = "failed"
  <2>1. PICK e, a, x : /\ e = p.entry /\ a = [call |-> p.call, status |-> "failed", pid |-> 0]
                       /\ x = [entries[e] EXCEPT !.outbox = Append(entries[e].outbox, a)]
    OBVIOUS
  <2>2. a \in Answers /\ a.call = p.call /\ a.status = "failed"
    BY <1>2, <2>1 DEF Answers
  <2>3. entries' = [entries EXCEPT ![e] = x] /\ procs' = (procs \ {p}) \cup {Resumed(p)}
    BY <1>4, <2>1 DEF Relay, Answer, Becomes
  <2>4. Responds(p, e, a, x, {p}, {Resumed(p)})
    BY <1>2, <2>1, <2>2, <2>3 DEF Relay, Responds
  <2> QED
    BY <1>4, <2>2, <2>4, KeepsOn
<1> QED
  BY <1>2, <1>3, <1>4

\* The child ran out of time.
LEMMA ExpireStep ==
    ASSUME IInv, NEW p \in procs, Expire(p)
    PROVE  IInv'
<1>1. TypeOK /\ ProcsOK
  BY DEF IInv
<1>2. p.does = "supervises" /\ p.call \in Calls
  BY <1>1 DEF Expire, ProcsOK
<1>3. PICK e, a, x, gone :
         /\ e = p.entry /\ a = [call |-> p.call, status |-> "timeout", pid |-> 0]
         /\ x = [entries[e] EXCEPT !.outbox = Append(entries[e].outbox, a)]
         /\ gone = {q \in procs : q = p \/ (q.entry = e /\ q.pid = p.child)}
  OBVIOUS
<1>4. a \in Answers /\ a.call = p.call /\ a.status = "timeout"
  BY <1>2, <1>3 DEF Answers
<1>5. entries' = [entries EXCEPT ![e] = x]
  BY <1>3 DEF Expire, Answer
<1>6. procs' = (procs \ gone) \cup {Resumed(p)}
  BY <1>3 DEF Expire
<1>7. Responds(p, e, a, x, gone, {Resumed(p)})
  BY <1>2, <1>3, <1>4, <1>5, <1>6 DEF Expire, Responds
<1>8. \A q \in procs : q.entry = e /\ q.pid = p.child => q \in gone
  BY <1>3
<1> QED
  BY <1>4, <1>7, <1>8, KeepsOn

(***************************************************************************)
(* The theorems                                                            *)
(***************************************************************************)

\* The first state has no session and no process.
LEMMA InitIInv == Init => IInv
<1> SUFFICES ASSUME Init
             PROVE  IInv
  OBVIOUS
<1>1. /\ sessions = [s \in Sessions |-> 0] /\ entries = <<>> /\ procs = {}
      /\ stage = {} /\ files = {} /\ disturbed = {} /\ faults = 0
      /\ Len(entries) = 0 /\ DOMAIN entries = {}
  BY DEF Init
<1>2. PICK f \in [Calls -> Sessions] : calls = [c \in Calls |-> NewCall(f[c])]
  BY DEF Init
<1>3. \A c \in Calls : /\ calls[c].at = "new" /\ calls[c].entry = 0 /\ calls[c].answer = NoAnswer
                       /\ calls[c].outcome = "none" /\ calls[c] \in Call
  BY <1>2 DEF NewCall, Call, Steps, Outcomes
<1>4. TypeOK
  <2>1. entries \in Seq(Entry)
    BY <1>1, EmptySeq
  <2>2. calls \in [Calls -> Call]
    BY <1>2, <1>3
  <2>3. /\ sessions \in [Sessions -> 0..Len(entries)]
        /\ \A c \in Calls : calls[c].entry \in 0..Len(entries)
    BY <1>1, <1>3
  <2>4. faults \in 0..MaxFaults
    BY <1>1, PoolAssumption
  <2> QED
    BY <1>1, <2>1, <2>2, <2>3, <2>4 DEF TypeOK
<1>5. SessionsOpen /\ OpenOK /\ ProcsOK /\ Undisturbed
  BY <1>1, <1>3 DEF SessionsOpen, OpenOK, ProcsOK, Undisturbed
<1>6. QueuesOK /\ CallsOK /\ CodeUnanswered /\ PublishedIfAnswered
  BY <1>1, <1>3 DEF QueuesOK, CallsOK, CodeUnanswered, PublishedIfAnswered, Exchange
<1> QED
  BY <1>4, <1>5, <1>6 DEF IInv

\* Every step of a call, a worker, its code, a client or the reaper keeps it.
LEMMA NextIInv == IInv /\ [Next]_vars => IInv'
<1> SUFFICES ASSUME IInv, [Next]_vars
             PROVE  IInv'
  OBVIOUS
<1>1. ASSUME NEW c \in Calls, PoolStep(c)
      PROVE  IInv'
  BY <1>1, EnterStep, RetryStep, ReplaceStep, ProceedStep, SendStep, ReceiveStep, GiveUpStep,
     FinishStep DEF PoolStep
<1>2. ASSUME NEW c \in Calls, Cancel(c)
      PROVE  IInv'
  BY <1>2, CancelStep
<1>3. CASE WorkerStep
  BY <1>3, TakeStep, RelayStep, ExpireStep DEF WorkerStep
<1>4. CASE CodeStep
  BY <1>4, SaveStep, SucceedStep, FailStep DEF CodeStep
<1>5. ASSUME NEW p \in procs, Die(p)
      PROVE  IInv'
  BY <1>5, DieStep
<1>6. CASE Shutdown
  BY <1>6, ShutdownStep
<1>7. CASE Reap
  BY <1>7, ReapStep
<1>8. CASE UNCHANGED vars
  <2>1. /\ sessions' = sessions /\ entries' = entries /\ procs' = procs /\ calls' = calls
        /\ stage' = stage /\ files' = files /\ disturbed' = disturbed /\ faults' = faults
    BY <1>8 DEF vars
  <2>2. /\ TypeOK /\ QueuesOK /\ CallsOK /\ CodeUnanswered /\ SessionsOpen /\ ProcsOK
        /\ Undisturbed /\ PublishedIfAnswered /\ OpenOK
    BY DEF IInv
  <2>3. TypeOK' /\ ProcsOK' /\ CallsOK' /\ Undisturbed' /\ PublishedIfAnswered'
    BY <2>1, <2>2 DEF TypeOK, ProcsOK, CallsOK, Undisturbed, PublishedIfAnswered
  <2>4. SessionsOpen' /\ QueuesOK'
    BY <2>1, <2>2, OpenFrame, QueueFrame
  <2>5. CodeUnanswered'
    BY <2>1, <2>2 DEF CodeUnanswered, AskedAt, Unanswered, In
  <2>6. OpenOK'
    <3> SUFFICES ASSUME NEW e \in DOMAIN entries, entries[e].open
                 PROVE  Mode(e)'
      BY <2>1 DEF OpenOK
    <3>1. Mode(e) /\ SameChannel(e) /\ SameSent(e) /\ SameGood(e)
      BY <2>1, <2>2, EntriesStay, CallsFrame DEF OpenOK
    <3>2. SameProcs(e)
      BY <2>1, SameProcsFrame
    <3> QED
      BY <3>1, <3>2, ModeFrame
  <2> QED
    BY <2>3, <2>4, <2>5, <2>6 DEF IInv
<1> QED
  BY <1>1, <1>2, <1>3, <1>4, <1>5, <1>6, <1>7, <1>8 DEF Next

\* The inductive invariant holds in every behaviour: an open session waits, was
\* asked, works, has told or is listened to, whatever was cancelled, died or was
\* shut down before.
THEOREM InductiveInvariant == Spec => []IInv
BY InitIInv, NextIInv, PTL DEF Spec

\* The variables have their types, and files are published for calls that were
\* answered with success and for no other.
THEOREM FilesConsistentHolds == Spec => []FilesConsistent
<1>1. IInv => FilesConsistent
  BY DEF IInv, FilesConsistent
<1> QED
  BY <1>1, InductiveInvariant, PTL

\* No call takes the answer to the code of another from the pipe.
THEOREM OwnAnswerHolds == Spec => []OwnAnswer
<1>1. IInv => OwnAnswer
  BY DEF IInv, CallsOK, OwnAnswer
<1> QED
  BY <1>1, InductiveInvariant, PTL

\* A session that waits has one process, the known one, which holds what its
\* successful calls left and nothing of the failed ones; and a session nobody
\* disturbed is still there.
THEOREM SessionKeptHolds == Spec => []SessionKept
<1>1. IInv => RollsBack
  <2> SUFFICES ASSUME IInv, NEW e \in DOMAIN entries, Current(e),
                      entries[e].queue = <<>>, Known(e) # {}
               PROVE  \E p \in procs :
                         /\ ProcsOf(e) = {p} /\ p.does = "reads"
                         /\ \A c \in Calls : calls[c].entry = e =>
                               /\ calls[c].outcome \in {"ok", "unpublished"} => c \in p.done
                               /\ calls[c].outcome \in {"failed", "timeout"} => c \notin p.done
    BY DEF RollsBack
  <2>1. TypeOK /\ QueuesOK /\ ProcsOK /\ Mode(e)
    BY DEF IInv, SessionsOpen, OpenOK
  <2>2. \A c \in Calls : ~Sent(e, c) /\ ~Heard(e, c)
    BY <2>1 DEF QueuesOK, Exchange, In, Sent, Heard
  <2>3. KnownReads(e)
    BY <2>1, <2>2 DEF Mode, Waits, Asked, Works, Told, Listens
  <2>4. PICK p : p \in ProcsOf(e) /\ p.pid = entries[e].known
    BY DEF Known
  <2>5. p \in procs /\ ProcsOf(e) = {p}
    BY <2>1, <2>3, <2>4 DEF ProcsOf, KnownReads, ProcsOK
  <2>6. p.does = "reads" /\ Keeps(e, p)
    BY <2>3, <2>4 DEF KnownReads
  <2>7. ASSUME NEW c \in Calls, calls[c].entry = e
        PROVE  /\ calls[c].outcome \in {"ok", "unpublished"} => c \in p.done
               /\ calls[c].outcome \in {"failed", "timeout"} => c \notin p.done
    BY <2>6, <2>7 DEF Keeps, Good, Over
  <2> QED
    BY <2>5, <2>6, <2>7
<1>2. IInv => SessionSurvives
  BY DEF IInv, SessionsOpen, Undisturbed, SessionSurvives
<1> QED
  BY <1>1, <1>2, InductiveInvariant, PTL DEF SessionKept

=============================================================================
