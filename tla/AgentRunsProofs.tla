--------------------------- MODULE AgentRunsProofs ---------------------------
(***************************************************************************)
(* Theorems about AgentRuns, for any number of runs, tool calls and        *)
(* changes.  The heart of the invariant is who answers for an open turn,   *)
(* and that only the registered run, or a holder of the lock, may write.   *)
(***************************************************************************)
EXTENDS AgentRuns, SequenceTheorems, TLAPS

(***************************************************************************)
(* The inductive invariant                                                 *)
(***************************************************************************)
In(q, u) == \E i \in 1..Len(q) : q[i] = u

First(q, u) == q # <<>> /\ q[1] = u

\* The kinds of two messages one after the other, and the threads made of those.
Follows(a, b) ==
    \/ a \in {"human", "result"} /\ b \in {"call", "answer", "closing"}
    \/ a = "call" /\ b = "result"
    \/ a \in {"answer", "closing"} /\ b = "human"

WellFormed(ms) ==
    /\ ms # <<>> => ms[1].kind = "human"
    /\ \A i \in 1..(Len(ms) - 1) : Follows(ms[i].kind, ms[i + 1].kind)

Ends(ms, kinds) == ms # <<>> /\ ms[Len(ms)].kind \in kinds

Answered(ms) == ms = <<>> \/ Ends(ms, {"answer", "closing"})

Wrote(ms, r) == \E i \in 1..Len(ms) : ms[i].by = r

\* Who waits for the lock of the thread, or has it.
Runner(r) == pump[r] \in {"healing", "input", "running", "over"}

Closer(r) == finisher[r] \in {"repairing", "syncing"}

Deleter == deletion.step \in {"waiting", "erased"}

Editor == edit.waiting = TRUE

LockOK ==
    /\ \A r \in Runs : In(lock, <<"run", r>>) <=> Runner(r)
    /\ \A r \in Runs : In(lock, <<"finish", r>>) <=> Closer(r)
    /\ In(lock, <<"delete", Nobody>>) <=> Deleter
    /\ In(lock, <<"edit", Nobody>>) <=> Editor

\* A cancellation is on its way to every run that is not the registered one.
TasksOK ==
    \A r \in Runs :
       /\ stream[r] = "none" <=> pump[r] = "none"
       /\ pump[r] = "finishing" <=> finisher[r] # "none"
       /\ Cancellable(r) => cancelled[r] \/ registered = r
       /\ stream[r] = "open" /\ Live(r) => registered = r

\* What a task did under the lock it has not done for nothing.
HoldersOK ==
    /\ \A r \in Runs :
          /\ pump[r] \in {"running", "over"} => First(lock, <<"run", r>>)
          /\ pump[r] = "input" /\ mode[r] = "message" =>
                First(lock, <<"run", r>>) /\ Answered(messages)
          /\ pump[r] = "running" => interrupt = Nobody /\ ~Answered(messages)
    /\ deletion.step = "erased" =>
          First(lock, <<"delete", Nobody>>) /\ messages = <<>> /\ snapshots = {}

\* An open turn is somebody's: of the run in progress, of one that asked, or of a finisher.
TurnsOK ==
    /\ WellFormed(messages)
    /\ \A s \in snapshots : WellFormed(s.before) /\ Answered(s.before)
    /\ interrupt # Nobody => Ends(messages, {"call"})
    /\ ~Answered(messages) /\ interrupt = Nobody /\ ~unrepaired =>
          \E r \in Runs : pump[r] = "running" \/ finisher[r] \in {"interrupted", "repairing"}

\* Only runs that began have written.
BegunOK ==
    \A r \in Runs : pump[r] = "none" =>
        ~Wrote(messages, r) /\ \A s \in snapshots : ~Wrote(s.before, r)

\* What a deletion takes does not write any more, and what it took stays away.
Kept(ms) == \A i \in 1..Len(ms) : ms[i].kind = "closing" \/ ms[i].by \notin erased

ErasedOK ==
    /\ \A r \in erased : pump[r] # "none" /\ (Cancellable(r) => cancelled[r])
    /\ deletion = NoDeletion /\ row = "absent" =>
          Kept(messages) /\ \A s \in snapshots : Kept(s.before)

\* The last turn is that of the connected run, once it has written.
InTurnOK == \A r \in Runs : stream[r] = "open" /\ Live(r) /\ Wrote(messages, r) => InLastTurn(r)

IInv ==
    /\ TypeOK /\ LockOK /\ TasksOK /\ HoldersOK /\ TurnsOK
    /\ BegunOK /\ ErasedOK /\ InTurnOK

(***************************************************************************)
(* The queue at the lock                                                   *)
(***************************************************************************)

\* Who was not in the queue stands behind the others.
LEMMA Joining ==
    ASSUME NEW S, NEW q \in Seq(S), NEW u \in S, IsInjective(q), ~In(q, u)
    PROVE  /\ Append(q, u) \in Seq(S) /\ IsInjective(Append(q, u))
           /\ \A v : In(Append(q, u), v) <=> In(q, v) \/ v = u
           /\ \A v : First(q, v) => First(Append(q, u), v)
<1> DEFINE n == Len(q)
           a == Append(q, u)
<1>1. /\ a \in Seq(S) /\ Len(a) = n + 1 /\ n \in Nat
      /\ \A i \in 1..n : a[i] = q[i]
      /\ a[n + 1] = u
      /\ DOMAIN a = 1..(n + 1) /\ DOMAIN q = 1..n
  BY AppendProperties, LenProperties
<1>2. \A i \in 1..n : q[i] # u
  BY DEF In
<1>3. q # <<>> => 1 \in 1..n
  BY EmptySeq, <1>1
<1>4. \A v : In(q, v) <=> \E i \in 1..n : q[i] = v
  BY DEF In
<1>5. \A v : In(a, v) <=> \E i \in 1..(n + 1) : a[i] = v
  BY <1>1 DEF In
<1>6. \A i, j \in 1..n : q[i] = q[j] => i = j
  BY <1>1 DEF IsInjective
<1> HIDE DEF a, n
<1>7. ASSUME NEW i \in 1..(n + 1), NEW j \in 1..(n + 1), a[i] = a[j]
      PROVE  i = j
  <2>1. (i \in 1..n \/ i = n + 1) /\ (j \in 1..n \/ j = n + 1)
    BY <1>1
  <2> QED
    BY <1>1, <1>2, <1>6, <1>7, <2>1
<1>8. IsInjective(a)
  BY <1>1, <1>7 DEF IsInjective
<1>9. ASSUME NEW v
      PROVE  In(a, v) <=> In(q, v) \/ v = u
  <2>1. 1..(n + 1) = 1..n \cup {n + 1}
    BY <1>1
  <2> QED
    BY <1>1, <1>4, <1>5, <2>1
<1>10. ASSUME NEW v, First(q, v)
       PROVE  First(a, v)
  <2>1. a # <<>>
    BY <1>1, EmptySeq
  <2> QED
    BY <1>1, <1>3, <1>10, <2>1 DEF First
<1> QED
  BY <1>1, <1>8, <1>9, <1>10 DEF a

\* Who leaves the queue is gone from it, and the first stays the first.
LEMMA Leaving ==
    ASSUME NEW S, NEW q \in Seq(S), NEW u, IsInjective(q), In(q, u)
    PROVE  /\ Without(q, u) \in Seq(S) /\ IsInjective(Without(q, u))
           /\ \A v : In(Without(q, u), v) <=> In(q, v) /\ v # u
           /\ \A v : First(q, v) /\ v # u => First(Without(q, u), v)
<1> DEFINE n == Len(q)
           w == Without(q, u)
<1>1. n \in Nat /\ DOMAIN q = 1..n /\ \A i \in 1..n : q[i] \in S
  BY LenProperties, ElementOfSeq
<1>2. PICK k \in 1..n : q[k] = u
  BY DEF In
<1>3. n \in Nat \ {0} /\ k \in Nat
  BY <1>1, <1>2
<1>4. \A i, j \in 1..n : q[i] = q[j] => i = j
  BY <1>1 DEF IsInjective
<1>5. \A i \in 1..(n - 1) : (\E j \in 1..i : q[j] = u) <=> k <= i
  BY <1>1, <1>2, <1>3, <1>4
<1>6. w = [i \in 1..(n - 1) |-> IF k <= i THEN q[i + 1] ELSE q[i]]
  BY <1>5 DEF Without
<1>7. \A i \in 1..(n - 1) : w[i] = IF k <= i THEN q[i + 1] ELSE q[i]
  BY <1>6
<1>8. w \in [1..(n - 1) -> S] /\ n - 1 \in Nat
  BY <1>1, <1>3, <1>6
<1>9. w \in Seq(S)
  BY <1>8, SeqDef
<1>10. Len(w) = n - 1 /\ DOMAIN w = 1..(n - 1)
  BY <1>8, <1>9, LenProperties
<1>11. \A v : In(q, v) <=> \E i \in 1..n : q[i] = v
  BY DEF In
<1>12. \A v : In(w, v) <=> \E i \in 1..(n - 1) : w[i] = v
  BY <1>10 DEF In
<1> HIDE DEF w, n
<1>13. ASSUME NEW i \in 1..(n - 1)
       PROVE  \E j \in 1..n : w[i] = q[j] /\ j # k /\ j = IF k <= i THEN i + 1 ELSE i
  <2> DEFINE j == IF k <= i THEN i + 1 ELSE i
  <2>1. w[i] = q[j] /\ j \in 1..n /\ j # k
    BY <1>3, <1>7
  <2> QED
    BY <2>1
<1>14. ASSUME NEW j \in 1..n, j # k
       PROVE  \E i \in 1..(n - 1) : w[i] = q[j]
  <2> DEFINE i == IF k < j THEN j - 1 ELSE j
  <2>1. i \in 1..(n - 1) /\ w[i] = q[j]
    BY <1>3, <1>7, <1>14
  <2> QED
    BY <2>1
<1>15. IsInjective(w)
  <2> SUFFICES ASSUME NEW i \in 1..(n - 1), NEW h \in 1..(n - 1), w[i] = w[h]
               PROVE  i = h
    BY <1>10 DEF IsInjective
  <2>1. PICK a \in 1..n : w[i] = q[a] /\ a = IF k <= i THEN i + 1 ELSE i
    BY <1>13
  <2>2. PICK b \in 1..n : w[h] = q[b] /\ b = IF k <= h THEN h + 1 ELSE h
    BY <1>13
  <2>3. a = b
    BY <1>4, <2>1, <2>2
  <2> QED
    BY <1>3, <2>1, <2>2, <2>3
<1>16. \A v : In(w, v) <=> In(q, v) /\ v # u
  BY <1>2, <1>4, <1>11, <1>12, <1>13, <1>14
<1>17. ASSUME NEW v, First(q, v), v # u
       PROVE  First(w, v)
  <2>1. k # 1 /\ 1 \in 1..(n - 1)
    BY <1>2, <1>3, <1>17 DEF First
  <2>2. w[1] = v
    BY <1>3, <1>7, <1>17, <2>1 DEF First
  <2>3. w # <<>>
    BY <1>9, <1>10, <2>1, EmptySeq
  <2> QED
    BY <2>2, <2>3 DEF First
<1> QED
  BY <1>9, <1>15, <1>16, <1>17 DEF w

(***************************************************************************)
(* Threads                                                                 *)
(***************************************************************************)

\* The messages of ms, then others.
Extends(ms, c) ==
    /\ c \in Seq(Message) /\ Len(ms) <= Len(c)
    /\ \A i \in 1..Len(ms) : c[i] = ms[i]

\* What can be added, and what comes of it.
LEMMA Adding ==
    ASSUME NEW ms \in Seq(Message), WellFormed(ms), NEW m \in Message,
           ms = <<>> => m.kind = "human",
           ms # <<>> => Follows(ms[Len(ms)].kind, m.kind)
    PROVE  /\ Extends(ms, Append(ms, m)) /\ WellFormed(Append(ms, m))
           /\ Len(Append(ms, m)) = Len(ms) + 1 /\ Len(ms) \in Nat
           /\ Append(ms, m) # <<>> /\ Append(ms, m)[Len(ms) + 1] = m
<1> DEFINE n == Len(ms)
           a == Append(ms, m)
<1>1. /\ a \in Seq(Message) /\ Len(a) = n + 1 /\ n \in Nat
      /\ \A i \in 1..n : a[i] = ms[i]
      /\ a[n + 1] = m
  BY AppendProperties, LenProperties
<1>2. (ms = <<>> => n = 0) /\ (ms # <<>> => n \in Nat \ {0})
  BY EmptySeq
<1>3. a # <<>>
  BY <1>1, EmptySeq
<1>4. ms # <<>> => ms[1].kind = "human" /\ \A i \in 1..(n - 1) : Follows(ms[i].kind, ms[i + 1].kind)
  BY DEF WellFormed
<1> HIDE DEF a, n
<1>5. n + 1 - 1 = n /\ n <= n + 1
  BY <1>1
<1>6. a[1].kind = "human"
  BY <1>1, <1>2, <1>4
<1>7. ASSUME NEW i \in 1..n
      PROVE  Follows(a[i].kind, a[i + 1].kind)
  <2>1. CASE i = n
    BY <1>1, <1>2, <2>1 DEF n
  <2>2. CASE i # n
    BY <1>1, <1>2, <1>4, <2>2
  <2> QED
    BY <2>1, <2>2
<1>8. WellFormed(a)
  BY <1>1, <1>5, <1>6, <1>7 DEF WellFormed
<1> QED
  BY <1>1, <1>3, <1>5, <1>8 DEF a, n, Extends

\* The last message of a thread says whether its last turn is closed, and whether a call
\* of it has no result.
LEMMA LastMessage ==
    ASSUME NEW ms \in Seq(Message), WellFormed(ms)
    PROVE  /\ Closed(ms) <=> Answered(ms)
           /\ Unanswered(ms) <=> Ends(ms, {"call"})
           /\ ~Answered(ms) <=> Ends(ms, {"human", "call", "result"})
<1> DEFINE n == Len(ms)
<1>1. /\ n \in Nat /\ DOMAIN ms = 1..n
      /\ \A i \in 1..n : ms[i] \in Message
      /\ ms # <<>> => n \in Nat \ {0}
      /\ ms = <<>> => n = 0
  BY LenProperties, ElementOfSeq, EmptySeq
<1>2. \A i \in 1..n : ms[i].kind \in {"human", "call", "result", "answer", "closing"}
  BY <1>1 DEF Message
<1>3. /\ ms # <<>> => ms[1].kind = "human"
      /\ \A i \in 1..(n - 1) : Follows(ms[i].kind, ms[i + 1].kind)
  BY DEF WellFormed
<1>4. \A i : i \in LastTurn(ms) <=>
                i \in 1..n /\ \A h \in 1..n : ms[h].kind = "human" => h <= i
  BY <1>1 DEF LastTurn
<1>5. ms # <<>> => n \in LastTurn(ms)
  BY <1>1, <1>4
<1>6. Answered(ms) <=> ms = <<>> \/ ms[n].kind \in {"answer", "closing"}
  BY DEF Answered, Ends
<1>7. Closed(ms) <=> \/ \A i \in 1..n : ms[i].kind # "human"
                     \/ \E i \in LastTurn(ms) : ms[i].kind \in {"answer", "closing"}
  BY <1>1 DEF Closed
<1>8. Unanswered(ms) <=>
         \E i \in LastTurn(ms) :
            ms[i].kind = "call" /\ \A j \in LastTurn(ms) : j > i => ms[j].kind # "result"
  BY DEF Unanswered
<1>9. Ends(ms, {"call"}) <=> ms # <<>> /\ ms[n].kind = "call"
  BY DEF Ends
<1>10. Ends(ms, {"human", "call", "result"}) <=>
          ms # <<>> /\ ms[n].kind \in {"human", "call", "result"}
  BY DEF Ends
<1> HIDE DEF n
<1>11. ASSUME NEW i \in LastTurn(ms), ms[i].kind \in {"answer", "closing"}
       PROVE  i = n
  <2> SUFFICES ASSUME i # n PROVE FALSE
    OBVIOUS
  <2>1. i \in 1..(n - 1) /\ i + 1 \in 1..n /\ ~(i + 1 <= i)
    BY <1>1, <1>4
  <2>2. ms[i + 1].kind = "human"
    BY <1>3, <1>11, <2>1 DEF Follows
  <2> QED
    BY <1>4, <2>1, <2>2
<1>12. ASSUME NEW i \in LastTurn(ms), ms[i].kind = "call", i # n
       PROVE  \E j \in LastTurn(ms) : j > i /\ ms[j].kind = "result"
  <2>1. i \in 1..(n - 1) /\ i + 1 \in 1..n /\ i + 1 > i
    BY <1>1, <1>4, <1>12
  <2>2. ms[i + 1].kind = "result"
    BY <1>3, <1>12, <2>1 DEF Follows
  <2>3. i + 1 \in LastTurn(ms)
    BY <1>1, <1>4, <2>1
  <2> QED
    BY <2>1, <2>2, <2>3
<1>13. ms # <<>> => \E i \in 1..n : ms[i].kind = "human"
  BY <1>1, <1>3
<1>14. Closed(ms) <=> Answered(ms)
  BY <1>1, <1>5, <1>6, <1>7, <1>11, <1>13
<1>15. ASSUME ms # <<>>, ms[n].kind = "call"
       PROVE  Unanswered(ms)
  BY <1>1, <1>4, <1>5, <1>8, <1>15
<1>16. ASSUME NEW i \in LastTurn(ms), ms[i].kind = "call",
              \A j \in LastTurn(ms) : j > i => ms[j].kind # "result"
       PROVE  ms # <<>> /\ ms[n].kind = "call"
  BY <1>1, <1>4, <1>12, <1>16
<1>17. Unanswered(ms) <=> Ends(ms, {"call"})
  BY <1>8, <1>9, <1>15, <1>16
<1>18. ~Answered(ms) <=> Ends(ms, {"human", "call", "result"})
  BY <1>1, <1>2, <1>6, <1>10
<1> QED
  BY <1>14, <1>17, <1>18

\* A last turn goes on until a user writes.
LEMMA LastTurnGrows ==
    ASSUME NEW ms \in Seq(Message), NEW c, Extends(ms, c),
           \A i \in (Len(ms) + 1)..Len(c) : c[i].kind # "human",
           NEW i \in LastTurn(ms)
    PROVE  i \in LastTurn(c)
<1>1. /\ Len(ms) \in Nat /\ DOMAIN ms = 1..Len(ms)
      /\ Len(c) \in Nat /\ DOMAIN c = 1..Len(c) /\ Len(ms) <= Len(c)
      /\ \A j \in 1..Len(ms) : c[j] = ms[j]
  BY LenProperties DEF Extends
<1>2. i \in 1..Len(ms) /\ \A h \in 1..Len(ms) : ms[h].kind = "human" => h <= i
  BY <1>1 DEF LastTurn
<1>3. i \in 1..Len(c)
  BY <1>1, <1>2
<1>4. ASSUME NEW h \in 1..Len(c), c[h].kind = "human"
      PROVE  h <= i
  <2>1. h \in 1..Len(ms)
    BY <1>1, <1>4
  <2> QED
    BY <1>1, <1>2, <1>4, <2>1
<1> QED
  BY <1>1, <1>3, <1>4 DEF LastTurn

\* The last message is in it.
LEMMA LastIsLast ==
    ASSUME NEW c \in Seq(Message), c # <<>>
    PROVE  Len(c) \in LastTurn(c) /\ Len(c) \in 1..Len(c)
<1>1. Len(c) \in Nat \ {0} /\ DOMAIN c = 1..Len(c)
  BY LenProperties, EmptySeq
<1> QED
  BY <1>1 DEF LastTurn

\* A repair closes the last turn, and adds nothing to one that is closed.
LEMMA Repairs ==
    ASSUME AgentRunsAssumption, NEW ms \in Seq(Message), WellFormed(ms),
           NEW by \in Runs \cup {Nobody}
    PROVE  /\ Extends(ms, Closing(ms, by)) /\ WellFormed(Closing(ms, by))
           /\ Answered(Closing(ms, by))
           /\ \A i \in (Len(ms) + 1)..Len(Closing(ms, by)) :
                 /\ Closing(ms, by)[i].kind # "human"
                 /\ \/ Closing(ms, by)[i].by = Nobody
                    \/ Closing(ms, by)[i].kind = "closing" /\ Closing(ms, by)[i].by = by
<1> DEFINE stopped == [kind |-> "result", by |-> Nobody]
           closing == [kind |-> "closing", by |-> by]
           n == Len(ms)
           m == Append(ms, stopped)
<1>1. stopped \in Message /\ closing \in Message
  BY DEF Message
<1>2. /\ Closed(ms) <=> Answered(ms)
      /\ Unanswered(ms) <=> Ends(ms, {"call"})
      /\ ~Answered(ms) <=> Ends(ms, {"human", "call", "result"})
  BY LastMessage
<1>3. n \in Nat
  BY LenProperties
<1>4. CASE Closed(ms)
  <2>1. Closing(ms, by) = ms
    BY <1>4 DEF Closing
  <2>2. Extends(ms, ms) /\ \A i \in (n + 1)..n : FALSE
    BY <1>3 DEF Extends
  <2> QED
    BY <1>2, <1>4, <2>1, <2>2
<1>5. CASE ~Closed(ms) /\ ~Unanswered(ms)
  <2> DEFINE c == Append(ms, closing)
  <2>1. Closing(ms, by) = c
    BY <1>5 DEF Closing
  <2>2. ms # <<>> /\ ms[n].kind \in {"human", "result"}
    BY <1>2, <1>5 DEF Ends
  <2>3. Follows(ms[n].kind, closing.kind)
    BY <2>2 DEF Follows
  <2>4. /\ Extends(ms, c) /\ WellFormed(c) /\ Len(c) = n + 1 /\ c # <<>>
        /\ c[n + 1] = closing
    BY <1>1, <2>2, <2>3, Adding
  <2> HIDE DEF c, n
  <2>5. Answered(c)
    BY <2>4 DEF Answered, Ends
  <2>6. \A i \in (n + 1)..Len(c) : c[i].kind = "closing" /\ c[i].by = by
    BY <1>3, <2>4
  <2> QED
    BY <2>1, <2>4, <2>5, <2>6 DEF n
<1>6. CASE ~Closed(ms) /\ Unanswered(ms)
  <2> DEFINE c == Append(m, closing)
  <2>1. Closing(ms, by) = c
    BY <1>6 DEF Closing
  <2>2. ms # <<>> /\ ms[n].kind = "call"
    BY <1>2, <1>6 DEF Ends
  <2>3. Follows(ms[n].kind, stopped.kind)
    BY <2>2 DEF Follows
  <2>4. /\ Extends(ms, m) /\ WellFormed(m) /\ Len(m) = n + 1 /\ m # <<>>
        /\ m[n + 1] = stopped
    BY <1>1, <2>2, <2>3, Adding
  <2>5. m \in Seq(Message)
    BY <2>4 DEF Extends
  <2> HIDE DEF m, n
  <2>6. Follows(m[Len(m)].kind, closing.kind)
    BY <2>4 DEF Follows
  <2>7. /\ Extends(m, c) /\ WellFormed(c) /\ Len(c) = Len(m) + 1 /\ c # <<>>
        /\ c[Len(m) + 1] = closing
    BY <1>1, <2>4, <2>5, <2>6, Adding
  <2> HIDE DEF c
  <2>8. Len(c) = n + 2 /\ c[n + 2] = closing /\ c[n + 1] = stopped
    BY <1>3, <2>4, <2>7 DEF Extends
  <2>9. Extends(ms, c)
    BY <1>3, <2>4, <2>7 DEF Extends, n
  <2>10. Answered(c)
    BY <2>7, <2>8 DEF Answered, Ends
  <2>11. \A i \in (n + 1)..Len(c) : i = n + 1 \/ i = n + 2
    BY <1>3, <2>8
  <2>12. ASSUME NEW i \in (n + 1)..Len(c)
         PROVE  c[i].kind # "human" /\ (c[i].by = Nobody \/ (c[i].kind = "closing" /\ c[i].by = by))
    BY <2>8, <2>11
  <2> QED
    BY <2>1, <2>7, <2>9, <2>10, <2>12 DEF n
<1> QED
  BY <1>4, <1>5, <1>6

(***************************************************************************)
(* Types                                                                   *)
(***************************************************************************)
CheckpointTyped ==
    /\ messages \in Seq(Message) /\ interrupt \in Runs \cup {Nobody}
    /\ snapshots \subseteq Snapshot

Tables ==
    /\ registered \in Runs \cup {Nobody}
    /\ mode \in [Runs -> {"message", "resume"}]
    /\ pump \in [Runs -> {"none", "created", "healing", "input", "running", "over",
                          "finishing", "done", "stillborn"}]
    /\ finisher \in [Runs -> {"none", "completed", "interrupted", "repairing", "syncing"}]
    /\ stream \in [Runs -> {"none", "open", "refused", "closing", "done"}]
    /\ cancelled \in [Runs -> BOOLEAN] /\ partial \in [Runs -> BOOLEAN]

RowTyped ==
    /\ row \in {"absent", "New Chat", "titled"}
    /\ erased \subseteq Runs /\ unrepaired \in BOOLEAN

MutationsTyped ==
    /\ deletion \in [step : {"idle", "cancelling", "waiting", "erased"}, run : Runs \cup {Nobody}]
    /\ edit \in [waiting : BOOLEAN, of : Runs \cup {Nobody}]
    /\ changes \in 0..MaxChanges

\* The parts of the type invariant.
LEMMA Types ==
    TypeOK <=> /\ CheckpointTyped /\ Tables /\ RowTyped /\ MutationsTyped
               /\ lock \in Seq(Users) /\ IsInjective(lock)
BY DEF TypeOK, CheckpointTyped, Tables, RowTyped, MutationsTyped

\* A run that was requested has a pump, and one that has ended a finisher.
LEMMA Stages ==
    ASSUME TasksOK
    PROVE  \A r \in Runs : /\ stream[r] = "none" <=> pump[r] = "none"
                           /\ pump[r] = "finishing" <=> finisher[r] # "none"
BY DEF TasksOK

(***************************************************************************)
(* The lock of the thread                                                  *)
(***************************************************************************)

\* Whom the users of the lock are.
LEMMA UserNames ==
    /\ \A r \in Runs : <<"run", r>> \in Users /\ <<"finish", r>> \in Users
    /\ <<"delete", Nobody>> \in Users /\ <<"edit", Nobody>> \in Users
    /\ \A r, s : /\ <<"run", r>> = <<"run", s>> => r = s
                 /\ <<"finish", r>> = <<"finish", s>> => r = s
                 /\ <<"run", r>> # <<"finish", s>>
                 /\ <<"run", r>> # <<"delete", s>> /\ <<"run", r>> # <<"edit", s>>
                 /\ <<"finish", r>> # <<"delete", s>> /\ <<"finish", r>> # <<"edit", s>>
                 /\ <<"delete", r>> # <<"edit", s>>
BY DEF Users

\* A task that asks for the lock stands behind the others.
LEMMA Entering ==
    ASSUME TypeOK, NEW u \in Users, ~In(lock, u), Enter(u)
    PROVE  /\ lock' \in Seq(Users) /\ IsInjective(lock')
           /\ \A v : In(lock', v) <=> In(lock, v) \/ v = u
           /\ \A v : First(lock, v) => First(lock', v)
<1>1. lock \in Seq(Users) /\ IsInjective(lock) /\ lock' = Append(lock, u)
  BY DEF TypeOK, Enter
<1> QED
  BY <1>1, Joining

\* One that leaves it lets the others move up.
LEMMA Leaves ==
    ASSUME TypeOK, NEW u, In(lock, u), Leave(u)
    PROVE  /\ lock' \in Seq(Users) /\ IsInjective(lock')
           /\ \A v : In(lock', v) <=> In(lock, v) /\ v # u
           /\ \A v : First(lock, v) /\ v # u => First(lock', v)
<1>1. lock \in Seq(Users) /\ IsInjective(lock) /\ lock' = Without(lock, u)
  BY DEF TypeOK, Leave
<1> QED
  BY <1>1, Leaving

\* Who has the lock is in the queue.
LEMMA FirstIsIn ==
    ASSUME TypeOK, NEW u, First(lock, u)
    PROVE  In(lock, u)
<1>1. lock \in Seq(Users) /\ lock # <<>> /\ lock[1] = u
  BY DEF TypeOK, First
<1>2. 1 \in 1..Len(lock)
  BY <1>1, EmptySeq
<1> QED
  BY <1>1, <1>2 DEF In

\* The queue holds those who wait for the lock or have it, each once.
Queue == lock \in Seq(Users) /\ IsInjective(lock) /\ LockOK

\* Who has the lock has it until he leaves.
FirstStays == \A v : First(lock, v) /\ In(lock', v) => First(lock', v)

\* What holds of the queue when its users go on as they were.
LEMMA QueueKept ==
    ASSUME TypeOK, LockOK, lock' = lock,
           \A s \in Runs : Runner(s)' <=> Runner(s),
           \A s \in Runs : Closer(s)' <=> Closer(s),
           Deleter' <=> Deleter, Editor' <=> Editor
    PROVE  Queue' /\ FirstStays
BY DEF TypeOK, LockOK, Queue, FirstStays

\* Every step keeps the queue.
LEMMA QueueStep ==
    ASSUME AgentRunsAssumption, TypeOK, LockOK, TasksOK, HoldersOK, [Next]_vars
    PROVE  Queue' /\ FirstStays
<1> USE UserNames
<1>0. CASE UNCHANGED vars
  BY <1>0, QueueKept DEF vars, tasks, mutations, Runner, Closer, Deleter, Editor
<1>1. ASSUME NEW r \in Runs, StartRun(r)
      PROVE  Queue' /\ FirstStays
  <2>1. lock' = lock /\ edit' = edit /\ deletion'.step = deletion.step
    BY <1>1 DEF StartRun, mutations
  <2>2. finisher' = finisher
    BY <1>1 DEF StartRun, mutations
  <2>3. \A s \in Runs : Runner(s)' <=> Runner(s)
    BY <1>1, Types, Stages DEF Tables, Runner, StartRun, mutations
  <2> QED
    BY <2>1, <2>2, <2>3, QueueKept DEF Closer, Deleter, Editor
<1>2. ASSUME NEW r \in Runs, Stillborn(r)
      PROVE  Queue' /\ FirstStays
  <2>1. lock' = lock /\ edit' = edit /\ deletion'.step = deletion.step
    BY <1>2 DEF Stillborn, mutations
  <2>2. finisher' = finisher
    BY <1>2 DEF Stillborn, mutations
  <2>3. \A s \in Runs : Runner(s)' <=> Runner(s)
    BY <1>2, Types, Stages DEF Tables, Runner, Stillborn, mutations
  <2> QED
    BY <2>1, <2>2, <2>3, QueueKept DEF Closer, Deleter, Editor
<1>3. ASSUME NEW r \in Runs, Heal(r)
      PROVE  Queue' /\ FirstStays
  <2>1. lock' = lock /\ edit' = edit /\ deletion'.step = deletion.step
    BY <1>3 DEF Heal, Goes, mutations
  <2>2. finisher' = finisher
    BY <1>3 DEF Heal, Goes, mutations
  <2>3. \A s \in Runs : Runner(s)' <=> Runner(s)
    BY <1>3, Types, Stages DEF Tables, Runner, Heal, Goes, mutations
  <2> QED
    BY <2>1, <2>2, <2>3, QueueKept DEF Closer, Deleter, Editor
<1>4. ASSUME NEW r \in Runs, Input(r)
      PROVE  Queue' /\ FirstStays
  <2>1. lock' = lock /\ edit' = edit /\ deletion'.step = deletion.step
    BY <1>4 DEF Input, Goes, mutations
  <2>2. finisher' = finisher
    BY <1>4 DEF Input, Goes, mutations
  <2>3. \A s \in Runs : Runner(s)' <=> Runner(s)
    BY <1>4, Types, Stages DEF Tables, Runner, Input, Goes, mutations
  <2> QED
    BY <2>1, <2>2, <2>3, QueueKept DEF Closer, Deleter, Editor
<1>5. ASSUME NEW r \in Runs, Streams(r)
      PROVE  Queue' /\ FirstStays
  <2>1. lock' = lock /\ edit' = edit /\ deletion'.step = deletion.step
    BY <1>5 DEF Streams, Goes, mutations
  <2>2. finisher' = finisher
    BY <1>5 DEF Streams, Goes, mutations
  <2>3. \A s \in Runs : Runner(s)' <=> Runner(s)
    BY <1>5, Types, Stages DEF Tables, Runner, Streams, Goes, mutations
  <2> QED
    BY <2>1, <2>2, <2>3, QueueKept DEF Closer, Deleter, Editor
<1>6. ASSUME NEW r \in Runs, ModelCalls(r)
      PROVE  Queue' /\ FirstStays
  <2>1. lock' = lock /\ edit' = edit /\ deletion'.step = deletion.step
    BY <1>6 DEF ModelCalls, Goes, mutations
  <2>2. finisher' = finisher
    BY <1>6 DEF ModelCalls, Goes, mutations
  <2>3. \A s \in Runs : Runner(s)' <=> Runner(s)
    BY <1>6, Types, Stages DEF Tables, Runner, ModelCalls, Goes, mutations
  <2> QED
    BY <2>1, <2>2, <2>3, QueueKept DEF Closer, Deleter, Editor
<1>7. ASSUME NEW r \in Runs, ModelAnswers(r)
      PROVE  Queue' /\ FirstStays
  <2>1. lock' = lock /\ edit' = edit /\ deletion'.step = deletion.step
    BY <1>7 DEF ModelAnswers, Goes, mutations
  <2>2. finisher' = finisher
    BY <1>7 DEF ModelAnswers, Goes, mutations
  <2>3. \A s \in Runs : Runner(s)' <=> Runner(s)
    BY <1>7, Types, Stages DEF Tables, Runner, ModelAnswers, Goes, mutations
  <2> QED
    BY <2>1, <2>2, <2>3, QueueKept DEF Closer, Deleter, Editor
<1>8. ASSUME NEW r \in Runs, ToolReturns(r)
      PROVE  Queue' /\ FirstStays
  <2>1. lock' = lock /\ edit' = edit /\ deletion'.step = deletion.step
    BY <1>8 DEF ToolReturns, Goes, mutations
  <2>2. finisher' = finisher
    BY <1>8 DEF ToolReturns, Goes, mutations
  <2>3. \A s \in Runs : Runner(s)' <=> Runner(s)
    BY <1>8, Types, Stages DEF Tables, Runner, ToolReturns, Goes, mutations
  <2> QED
    BY <2>1, <2>2, <2>3, QueueKept DEF Closer, Deleter, Editor
<1>9. ASSUME NEW r \in Runs, Asks(r)
      PROVE  Queue' /\ FirstStays
  <2>1. lock' = lock /\ edit' = edit /\ deletion'.step = deletion.step
    BY <1>9 DEF Asks, Goes, mutations
  <2>2. finisher' = finisher
    BY <1>9 DEF Asks, Goes, mutations
  <2>3. \A s \in Runs : Runner(s)' <=> Runner(s)
    BY <1>9, Types, Stages DEF Tables, Runner, Asks, Goes, mutations
  <2> QED
    BY <2>1, <2>2, <2>3, QueueKept DEF Closer, Deleter, Editor
<1>10. ASSUME NEW r \in Runs, Repair(r)
      PROVE  Queue' /\ FirstStays
  <2>1. lock' = lock /\ edit' = edit /\ deletion' = deletion /\ pump' = pump
    BY <1>10 DEF Repair, mutations
  <2>2. \A s \in Runs : Closer(s)' <=> Closer(s)
    BY <1>10, Types DEF Tables, Closer, Repair, Repairing
  <2> QED
    BY <2>1, <2>2, QueueKept DEF Runner, Deleter, Editor
<1>11. ASSUME NEW r \in Runs, StreamEnds(r)
      PROVE  Queue' /\ FirstStays
  <2>1. lock' = lock /\ edit' = edit /\ deletion'.step = deletion.step
    BY <1>11 DEF StreamEnds, Closes, mutations
  <2>2. finisher' = finisher
    BY <1>11 DEF StreamEnds, Closes, mutations
  <2>3. \A s \in Runs : Runner(s)' <=> Runner(s)
    BY <1>11, Types, Stages DEF Tables, Runner, StreamEnds, Closes, mutations
  <2> QED
    BY <2>1, <2>2, <2>3, QueueKept DEF Closer, Deleter, Editor
<1>12. ASSUME NEW r \in Runs, Disconnect(r)
      PROVE  Queue' /\ FirstStays
  <2>1. lock' = lock /\ edit' = edit /\ deletion'.step = deletion.step
    BY <1>12 DEF Disconnect, Closes, mutations
  <2>2. finisher' = finisher
    BY <1>12 DEF Disconnect, Closes, mutations
  <2>3. \A s \in Runs : Runner(s)' <=> Runner(s)
    BY <1>12, Types, Stages DEF Tables, Runner, Disconnect, Closes, mutations
  <2> QED
    BY <2>1, <2>2, <2>3, QueueKept DEF Closer, Deleter, Editor
<1>13. ASSUME NEW r \in Runs, StreamCloses(r)
      PROVE  Queue' /\ FirstStays
  <2>1. lock' = lock /\ edit' = edit /\ deletion'.step = deletion.step
    BY <1>13 DEF StreamCloses, Closes, mutations
  <2>2. finisher' = finisher
    BY <1>13 DEF StreamCloses, Closes, mutations
  <2>3. \A s \in Runs : Runner(s)' <=> Runner(s)
    BY <1>13, Types, Stages DEF Tables, Runner, StreamCloses, Closes, mutations
  <2> QED
    BY <2>1, <2>2, <2>3, QueueKept DEF Closer, Deleter, Editor
<1>14. ASSUME NEW r \in Runs, Begin(r)
      PROVE  Queue' /\ FirstStays
  <2>1. ~In(lock, <<"run", r>>) /\ Enter(<<"run", r>>)
    BY <1>14, FirstIsIn DEF LockOK, First, Holds, Runner, Closer, Deleter, Editor, Begin
  <2>2. /\ lock' \in Seq(Users) /\ IsInjective(lock')
        /\ \A v : In(lock', v) <=> In(lock, v) \/ v = <<"run", r>>
        /\ \A v : First(lock, v) => First(lock', v)
    BY <2>1, Entering
  <2>3. \A s \in Runs : Runner(s)' <=> Runner(s) \/ s = r
    BY <1>14, Types, Stages DEF Tables, Runner, Begin, mutations
  <2>4. \A s \in Runs : Closer(s)' <=> Closer(s)
    BY <1>14, Types, Stages DEF Tables, Closer, Begin, mutations
  <2>5. Deleter' <=> Deleter
    BY <1>14 DEF Deleter, Begin, mutations
  <2>6. Editor' <=> Editor
    BY <1>14 DEF Editor, Begin, mutations
  <2> QED
    BY <2>2, <2>3, <2>4, <2>5, <2>6 DEF LockOK, Queue, FirstStays
<1>15. ASSUME NEW r \in Runs, Complete(r) \/ GraphFails(r) \/ Interrupted(r)
      PROVE  Queue' /\ FirstStays
  <2>1. In(lock, <<"run", r>>) /\ Leave(<<"run", r>>)
    BY <1>15, FirstIsIn DEF LockOK, First, Holds, Runner, Closer, Deleter, Editor, Complete,
       GraphFails, Interrupted, Finish
  <2>2. /\ lock' \in Seq(Users) /\ IsInjective(lock')
        /\ \A v : In(lock', v) <=> In(lock, v) /\ v # <<"run", r>>
        /\ \A v : First(lock, v) /\ v # <<"run", r>> => First(lock', v)
    BY <2>1, Leaves
  <2>3. \A s \in Runs : Runner(s)' <=> Runner(s) /\ s # r
    BY <1>15, Types, Stages DEF Tables, Runner, Complete, GraphFails, Interrupted, Finish,
       mutations
  <2>4. \A s \in Runs : Closer(s)' <=> Closer(s)
    BY <1>15, Types, Stages DEF Tables, Closer, Complete, GraphFails, Interrupted, Finish,
       mutations
  <2>5. Deleter' <=> Deleter
    BY <1>15 DEF Deleter, Complete, GraphFails, Interrupted, Finish, mutations
  <2>6. Editor' <=> Editor
    BY <1>15 DEF Editor, Complete, GraphFails, Interrupted, Finish, mutations
  <2> QED
    BY <2>2, <2>3, <2>4, <2>5, <2>6 DEF LockOK, Queue, FirstStays
<1>16. ASSUME NEW r \in Runs, FinishBegins(r)
      PROVE  Queue' /\ FirstStays
  <2>1. ~In(lock, <<"finish", r>>) /\ Enter(<<"finish", r>>)
    BY <1>16, FirstIsIn DEF LockOK, First, Holds, Runner, Closer, Deleter, Editor, FinishBegins
  <2>2. /\ lock' \in Seq(Users) /\ IsInjective(lock')
        /\ \A v : In(lock', v) <=> In(lock, v) \/ v = <<"finish", r>>
        /\ \A v : First(lock, v) => First(lock', v)
    BY <2>1, Entering
  <2>3. \A s \in Runs : Runner(s)' <=> Runner(s)
    BY <1>16, Types, Stages DEF Tables, Runner, FinishBegins, mutations
  <2>4. \A s \in Runs : Closer(s)' <=> Closer(s) \/ s = r
    BY <1>16, Types, Stages DEF Tables, Closer, FinishBegins, mutations
  <2>5. Deleter' <=> Deleter
    BY <1>16 DEF Deleter, FinishBegins, mutations
  <2>6. Editor' <=> Editor
    BY <1>16 DEF Editor, FinishBegins, mutations
  <2> QED
    BY <2>2, <2>3, <2>4, <2>5, <2>6 DEF LockOK, Queue, FirstStays
<1>17. ASSUME NEW r \in Runs, Sync(r)
      PROVE  Queue' /\ FirstStays
  <2>1. In(lock, <<"finish", r>>) /\ Leave(<<"finish", r>>)
    BY <1>17, FirstIsIn DEF LockOK, First, Holds, Runner, Closer, Deleter, Editor, Sync,
       Finished
  <2>2. /\ lock' \in Seq(Users) /\ IsInjective(lock')
        /\ \A v : In(lock', v) <=> In(lock, v) /\ v # <<"finish", r>>
        /\ \A v : First(lock, v) /\ v # <<"finish", r>> => First(lock', v)
    BY <2>1, Leaves
  <2>3. \A s \in Runs : Runner(s)' <=> Runner(s)
    BY <1>17, Types, Stages DEF Tables, Runner, Sync, Finished
  <2>4. \A s \in Runs : Closer(s)' <=> Closer(s) /\ s # r
    BY <1>17, Types, Stages DEF Tables, Closer, Sync, Finished
  <2>5. Deleter' <=> Deleter
    BY <1>17 DEF Deleter, Sync, Finished
  <2>6. Editor' <=> Editor
    BY <1>17 DEF Editor, Sync, Finished
  <2> QED
    BY <2>2, <2>3, <2>4, <2>5, <2>6 DEF LockOK, Queue, FirstStays
<1>18. ASSUME NEW r \in Runs, FinishFails(r)
      PROVE  Queue' /\ FirstStays
  <2>1. In(lock, <<"finish", r>>) /\ Leave(<<"finish", r>>)
    BY <1>18, FirstIsIn DEF LockOK, First, Holds, Runner, Closer, Deleter, Editor,
       FinishFails, Finished
  <2>2. /\ lock' \in Seq(Users) /\ IsInjective(lock')
        /\ \A v : In(lock', v) <=> In(lock, v) /\ v # <<"finish", r>>
        /\ \A v : First(lock, v) /\ v # <<"finish", r>> => First(lock', v)
    BY <2>1, Leaves
  <2>3. \A s \in Runs : Runner(s)' <=> Runner(s)
    BY <1>18, Types, Stages DEF Tables, Runner, FinishFails, Finished
  <2>4. \A s \in Runs : Closer(s)' <=> Closer(s) /\ s # r
    BY <1>18, Types, Stages DEF Tables, Closer, FinishFails, Finished
  <2>5. Deleter' <=> Deleter
    BY <1>18 DEF Deleter, FinishFails, Finished
  <2>6. Editor' <=> Editor
    BY <1>18 DEF Editor, FinishFails, Finished
  <2> QED
    BY <2>2, <2>3, <2>4, <2>5, <2>6 DEF LockOK, Queue, FirstStays
<1>19. ASSUME NEW r \in Runs, EditBegins(r)
      PROVE  Queue' /\ FirstStays
  <2>1. ~In(lock, <<"edit", Nobody>>) /\ Enter(<<"edit", Nobody>>)
    BY <1>19, FirstIsIn DEF LockOK, First, Holds, Runner, Closer, Deleter, Editor,
       EditBegins, NoEdit
  <2>2. /\ lock' \in Seq(Users) /\ IsInjective(lock')
        /\ \A v : In(lock', v) <=> In(lock, v) \/ v = <<"edit", Nobody>>
        /\ \A v : First(lock, v) => First(lock', v)
    BY <2>1, Entering
  <2>3. \A s \in Runs : Runner(s)' <=> Runner(s)
    BY <1>19, Types, Stages DEF Tables, Runner, EditBegins, tasks
  <2>4. \A s \in Runs : Closer(s)' <=> Closer(s)
    BY <1>19, Types, Stages DEF Tables, Closer, EditBegins, tasks
  <2>5. Deleter' <=> Deleter
    BY <1>19 DEF Deleter, EditBegins, tasks
  <2>6. Editor'
    BY <1>19 DEF Editor, EditBegins, tasks
  <2> QED
    BY <2>2, <2>3, <2>4, <2>5, <2>6 DEF LockOK, Queue, FirstStays
<1>20. ASSUME CancelRun
      PROVE  Queue' /\ FirstStays
  <2>1. lock' = lock /\ edit' = edit /\ deletion'.step = deletion.step
    BY <1>20 DEF CancelRun, mutations
  <2>2. finisher' = finisher
    BY <1>20 DEF CancelRun, mutations
  <2>3. \A s \in Runs : Runner(s)' <=> Runner(s)
    BY <1>20, Types, Stages DEF Tables, Runner, CancelRun, mutations
  <2> QED
    BY <2>1, <2>2, <2>3, QueueKept DEF Closer, Deleter, Editor
<1>21. ASSUME Rename
      PROVE  Queue' /\ FirstStays
  <2>1. lock' = lock /\ edit' = edit /\ deletion'.step = deletion.step
    BY <1>21 DEF Rename, tasks
  <2>2. finisher' = finisher
    BY <1>21 DEF Rename, tasks
  <2>3. \A s \in Runs : Runner(s)' <=> Runner(s)
    BY <1>21, Types, Stages DEF Tables, Runner, Rename, tasks
  <2> QED
    BY <2>1, <2>2, <2>3, QueueKept DEF Closer, Deleter, Editor
<1>22. ASSUME DeleteBegins, Live(registered)
      PROVE  Queue' /\ FirstStays
  <2>1. lock' = lock /\ edit' = edit /\ pump' = pump /\ finisher' = finisher
    BY <1>22 DEF DeleteBegins
  <2>2. ~Deleter /\ ~Deleter'
    BY <1>22 DEF DeleteBegins, Deleter, NoDeletion
  <2> QED
    BY <2>1, <2>2, QueueKept DEF Runner, Closer, Editor
<1>23. ASSUME DeleteBegins, ~Live(registered)
      PROVE  Queue' /\ FirstStays
  <2>1. ~In(lock, <<"delete", Nobody>>) /\ Enter(<<"delete", Nobody>>)
    BY <1>23, FirstIsIn DEF LockOK, First, Holds, Runner, Closer, Deleter, Editor,
       DeleteBegins, NoDeletion
  <2>2. /\ lock' \in Seq(Users) /\ IsInjective(lock')
        /\ \A v : In(lock', v) <=> In(lock, v) \/ v = <<"delete", Nobody>>
        /\ \A v : First(lock, v) => First(lock', v)
    BY <2>1, Entering
  <2>3. \A s \in Runs : Runner(s)' <=> Runner(s)
    BY <1>23, Types, Stages DEF Tables, Runner, DeleteBegins
  <2>4. \A s \in Runs : Closer(s)' <=> Closer(s)
    BY <1>23, Types, Stages DEF Tables, Closer, DeleteBegins
  <2>5. Deleter'
    BY <1>23 DEF Deleter, DeleteBegins
  <2>6. Editor' <=> Editor
    BY <1>23 DEF Editor, DeleteBegins
  <2> QED
    BY <2>2, <2>3, <2>4, <2>5, <2>6 DEF LockOK, Queue, FirstStays
<1>24. ASSUME DeleteWaited
      PROVE  Queue' /\ FirstStays
  <2>1. ~In(lock, <<"delete", Nobody>>) /\ Enter(<<"delete", Nobody>>)
    BY <1>24, FirstIsIn DEF LockOK, First, Holds, Runner, Closer, Deleter, Editor, DeleteWaited
  <2>2. /\ lock' \in Seq(Users) /\ IsInjective(lock')
        /\ \A v : In(lock', v) <=> In(lock, v) \/ v = <<"delete", Nobody>>
        /\ \A v : First(lock, v) => First(lock', v)
    BY <2>1, Entering
  <2>3. \A s \in Runs : Runner(s)' <=> Runner(s)
    BY <1>24, Types, Stages DEF Tables, Runner, DeleteWaited, tasks
  <2>4. \A s \in Runs : Closer(s)' <=> Closer(s)
    BY <1>24, Types, Stages DEF Tables, Closer, DeleteWaited, tasks
  <2>5. Deleter'
    BY <1>24 DEF Deleter, DeleteWaited, tasks
  <2>6. Editor' <=> Editor
    BY <1>24 DEF Editor, DeleteWaited, tasks
  <2> QED
    BY <2>2, <2>3, <2>4, <2>5, <2>6 DEF LockOK, Queue, FirstStays
<1>25. ASSUME DeleteCheckpoint
      PROVE  Queue' /\ FirstStays
  <2>1. lock' = lock /\ edit' = edit /\ pump' = pump /\ finisher' = finisher
    BY <1>25 DEF DeleteCheckpoint, tasks
  <2>2. Deleter /\ Deleter'
    BY <1>25 DEF DeleteCheckpoint, Deleter, TypeOK
  <2> QED
    BY <2>1, <2>2, QueueKept DEF Runner, Closer, Editor
<1>26. ASSUME DeleteRow
      PROVE  Queue' /\ FirstStays
  <2>1. In(lock, <<"delete", Nobody>>) /\ Leave(<<"delete", Nobody>>)
    BY <1>26, FirstIsIn DEF LockOK, First, Holds, Runner, Closer, Deleter, Editor, DeleteRow
  <2>2. /\ lock' \in Seq(Users) /\ IsInjective(lock')
        /\ \A v : In(lock', v) <=> In(lock, v) /\ v # <<"delete", Nobody>>
        /\ \A v : First(lock, v) /\ v # <<"delete", Nobody>> => First(lock', v)
    BY <2>1, Leaves
  <2>3. \A s \in Runs : Runner(s)' <=> Runner(s)
    BY <1>26, Types, Stages DEF Tables, Runner, DeleteRow, NoDeletion, tasks
  <2>4. \A s \in Runs : Closer(s)' <=> Closer(s)
    BY <1>26, Types, Stages DEF Tables, Closer, DeleteRow, NoDeletion, tasks
  <2>5. ~Deleter'
    BY <1>26 DEF Deleter, DeleteRow, NoDeletion, tasks
  <2>6. Editor' <=> Editor
    BY <1>26 DEF Editor, DeleteRow, NoDeletion, tasks
  <2> QED
    BY <2>2, <2>3, <2>4, <2>5, <2>6 DEF LockOK, Queue, FirstStays
<1>27. ASSUME Rewind
      PROVE  Queue' /\ FirstStays
  <2>1. In(lock, <<"edit", Nobody>>) /\ Leave(<<"edit", Nobody>>)
    BY <1>27, FirstIsIn DEF LockOK, First, Holds, Runner, Closer, Deleter, Editor, Rewind
  <2>2. /\ lock' \in Seq(Users) /\ IsInjective(lock')
        /\ \A v : In(lock', v) <=> In(lock, v) /\ v # <<"edit", Nobody>>
        /\ \A v : First(lock, v) /\ v # <<"edit", Nobody>> => First(lock', v)
    BY <2>1, Leaves
  <2>3. \A s \in Runs : Runner(s)' <=> Runner(s)
    BY <1>27, Types, Stages DEF Tables, Runner, Rewind, NoEdit, tasks
  <2>4. \A s \in Runs : Closer(s)' <=> Closer(s)
    BY <1>27, Types, Stages DEF Tables, Closer, Rewind, NoEdit, tasks
  <2>5. Deleter' <=> Deleter
    BY <1>27 DEF Deleter, Rewind, NoEdit, tasks
  <2>6. ~Editor'
    BY <1>27 DEF Editor, Rewind, NoEdit, tasks
  <2> QED
    BY <2>2, <2>3, <2>4, <2>5, <2>6 DEF LockOK, Queue, FirstStays
<1>28. ASSUME ProcessStops
      PROVE  Queue' /\ FirstStays
  <2>1. lock' = <<>> /\ \A v : ~In(<<>>, v)
    BY <1>28, EmptySeq DEF ProcessStops, In
  <2>2. <<>> \in Seq(Users) /\ IsInjective(<<>>)
    BY EmptySeq DEF IsInjective
  <2>3. \A s \in Runs : ~Runner(s)' /\ ~Closer(s)'
    BY <1>28 DEF ProcessStops, Runner, Closer
  <2>4. ~Deleter' /\ ~Editor'
    BY <1>28 DEF ProcessStops, Deleter, Editor, NoDeletion, NoEdit
  <2> QED
    BY <2>1, <2>2, <2>3, <2>4 DEF LockOK, Queue, FirstStays
<1> QED
  BY <1>0, <1>1, <1>2, <1>3, <1>4, <1>5, <1>6, <1>7, <1>8, <1>9, <1>10, <1>11, <1>12,
     <1>13, <1>14, <1>15, <1>16, <1>17, <1>18, <1>19, <1>20, <1>21, <1>22, <1>23, <1>24,
     <1>25, <1>26, <1>27, <1>28
     DEF Next, Task, Pump, Finisher, Stream, Mutations

(***************************************************************************)
(* The steps                                                               *)
(***************************************************************************)

\* The steps that change the checkpoint.
Writes(r) ==
    \/ Heal(r) \/ Input(r) \/ ModelCalls(r) \/ ModelAnswers(r) \/ ToolReturns(r) \/ Asks(r)
    \/ Repair(r)

\* Every other step lets the checkpoint be.
LEMMA WritingSteps ==
    ASSUME [Next]_vars
    PROVE  \/ UNCHANGED checkpoint
           \/ \E r \in Runs : Writes(r)
           \/ DeleteCheckpoint \/ Rewind
<1>1. ASSUME UNCHANGED vars
      PROVE  UNCHANGED checkpoint
  BY <1>1 DEF vars
<1>2. ASSUME NEW r \in Runs, StartRun(r)
      PROVE  UNCHANGED checkpoint
  BY <1>2 DEF StartRun, checkpoint
<1>3. ASSUME NEW r \in Runs, Stillborn(r)
      PROVE  UNCHANGED checkpoint
  BY <1>3 DEF Stillborn, checkpoint
<1>4. ASSUME NEW r \in Runs, Begin(r)
      PROVE  UNCHANGED checkpoint
  BY <1>4 DEF Begin, checkpoint
<1>5. ASSUME NEW r \in Runs, Streams(r)
      PROVE  UNCHANGED checkpoint
  BY <1>5 DEF Streams, checkpoint
<1>6. ASSUME NEW r \in Runs, Complete(r)
      PROVE  UNCHANGED checkpoint
  BY <1>6 DEF Complete, Finish, checkpoint
<1>7. ASSUME NEW r \in Runs, GraphFails(r)
      PROVE  UNCHANGED checkpoint
  BY <1>7 DEF GraphFails, Finish, checkpoint
<1>8. ASSUME NEW r \in Runs, Interrupted(r)
      PROVE  UNCHANGED checkpoint
  BY <1>8 DEF Interrupted, Finish, checkpoint
<1>9. ASSUME NEW r \in Runs, FinishBegins(r)
      PROVE  UNCHANGED checkpoint
  BY <1>9 DEF FinishBegins, checkpoint
<1>10. ASSUME NEW r \in Runs, Sync(r)
      PROVE  UNCHANGED checkpoint
  BY <1>10 DEF Sync, Finished, checkpoint
<1>11. ASSUME NEW r \in Runs, FinishFails(r)
      PROVE  UNCHANGED checkpoint
  BY <1>11 DEF FinishFails, Finished, checkpoint
<1>12. ASSUME NEW r \in Runs, StreamEnds(r)
      PROVE  UNCHANGED checkpoint
  BY <1>12 DEF StreamEnds, Closes, checkpoint
<1>13. ASSUME NEW r \in Runs, Disconnect(r)
      PROVE  UNCHANGED checkpoint
  BY <1>13 DEF Disconnect, Closes, checkpoint
<1>14. ASSUME NEW r \in Runs, StreamCloses(r)
      PROVE  UNCHANGED checkpoint
  BY <1>14 DEF StreamCloses, Closes, checkpoint
<1>15. ASSUME NEW r \in Runs, EditBegins(r)
      PROVE  UNCHANGED checkpoint
  BY <1>15 DEF EditBegins, checkpoint
<1>16. ASSUME CancelRun
      PROVE  UNCHANGED checkpoint
  BY <1>16 DEF CancelRun, checkpoint
<1>17. ASSUME DeleteBegins
      PROVE  UNCHANGED checkpoint
  BY <1>17 DEF DeleteBegins, checkpoint
<1>18. ASSUME DeleteWaited
      PROVE  UNCHANGED checkpoint
  BY <1>18 DEF DeleteWaited, checkpoint
<1>19. ASSUME DeleteRow
      PROVE  UNCHANGED checkpoint
  BY <1>19 DEF DeleteRow, checkpoint
<1>20. ASSUME Rename
      PROVE  UNCHANGED checkpoint
  BY <1>20 DEF Rename, checkpoint
<1>21. ASSUME ProcessStops
      PROVE  UNCHANGED checkpoint
  BY <1>21 DEF ProcessStops, checkpoint
<1> QED
  BY <1>1, <1>2, <1>3, <1>4, <1>5, <1>6, <1>7, <1>8, <1>9, <1>10, <1>11, <1>12, <1>13,
     <1>14, <1>15, <1>16, <1>17, <1>18, <1>19, <1>20, <1>21
     DEF Next, Task, Pump, Finisher, Stream, Mutations, Writes

\* The checkpoint has its type, and that of the lock is kept.
LEMMA CheckpointStep ==
    ASSUME AgentRunsAssumption, CheckpointTyped, TurnsOK, [Next]_vars
    PROVE  CheckpointTyped'
<1>1. CASE UNCHANGED checkpoint
  BY <1>1 DEF CheckpointTyped, checkpoint
<1>2. ASSUME NEW r \in Runs, NEW kind \in {"human", "call", "result", "answer"}, Say(r, kind)
      PROVE  messages' \in Seq(Message)
  <2>1. [kind |-> kind, by |-> r] \in Message
    BY DEF Message
  <2> QED
    BY <1>2, <2>1, AppendProperties DEF Say, CheckpointTyped
<1>3. ASSUME NEW by \in Runs \cup {Nobody}, CloseTurn(by)
      PROVE  CheckpointTyped'
  <2>1. messages' \in Seq(Message)
    BY <1>3, Repairs DEF CloseTurn, CheckpointTyped, TurnsOK, Extends
  <2> QED
    BY <1>3, <2>1 DEF CloseTurn, CheckpointTyped
<1>4. ASSUME NEW r \in Runs, Heal(r)
      PROVE  CheckpointTyped'
  BY <1>3, <1>4 DEF Heal
<1>5. ASSUME NEW r \in Runs, Input(r)
      PROVE  CheckpointTyped'
  <2>1. messages' \in Seq(Message)
    BY <1>2, <1>5 DEF Input, CheckpointTyped
  <2>2. [of |-> r, before |-> messages] \in Snapshot
    BY DEF Snapshot, CheckpointTyped
  <2>3. interrupt' = Nobody /\ snapshots' \subseteq snapshots \cup {[of |-> r, before |-> messages]}
    BY <1>5 DEF Input
  <2> QED
    BY <2>1, <2>2, <2>3 DEF CheckpointTyped
<1>6. ASSUME NEW r \in Runs, ModelCalls(r) \/ ModelAnswers(r) \/ ToolReturns(r)
      PROVE  CheckpointTyped'
  <2>1. interrupt' = interrupt /\ snapshots' = snapshots
    BY <1>6 DEF ModelCalls, ModelAnswers, ToolReturns
  <2>2. Say(r, "call") \/ Say(r, "answer") \/ Say(r, "result")
    BY <1>6 DEF ModelCalls, ModelAnswers, ToolReturns
  <2> QED
    BY <1>2, <2>1, <2>2 DEF CheckpointTyped
<1>7. ASSUME NEW r \in Runs, Asks(r)
      PROVE  CheckpointTyped'
  BY <1>7 DEF Asks, CheckpointTyped
<1>8. ASSUME NEW r \in Runs, Repair(r)
      PROVE  CheckpointTyped'
  BY <1>3, <1>8 DEF Repair
<1>9. ASSUME DeleteCheckpoint
      PROVE  CheckpointTyped'
  BY <1>9, EmptySeq DEF DeleteCheckpoint, CheckpointTyped
<1>10. ASSUME Rewind
       PROVE  CheckpointTyped'
  <2>1. /\ snapshots' = snapshots /\ interrupt' \in {interrupt, Nobody}
        /\ messages' = messages \/ \E s \in snapshots : messages' = s.before
    BY <1>10 DEF Rewind
  <2>2. messages' \in Seq(Message)
    BY <2>1 DEF CheckpointTyped, Snapshot
  <2> QED
    BY <2>1, <2>2 DEF CheckpointTyped
<1> QED
  BY <1>1, <1>4, <1>5, <1>6, <1>7, <1>8, <1>9, <1>10, WritingSteps DEF Writes

\* The tables of the tasks have their types.
LEMMA TablesStep ==
    ASSUME AgentRunsAssumption, Tables, [Next]_vars
    PROVE  Tables'
<1>1. CASE UNCHANGED vars
  BY <1>1 DEF vars, tasks, Tables
<1>2. ASSUME NEW r \in Runs, StartRun(r)
      PROVE  Tables'
  <2>1. PICK m \in {"message", "resume"} : mode' = [mode EXCEPT ![r] = m]
    BY <1>2 DEF StartRun
  <2>2. mode' \in [Runs -> {"message", "resume"}]
    BY <2>1 DEF Tables
  <2>3. /\ registered' \in {r, registered} /\ finisher' = finisher /\ partial' = partial
        /\ pump' = [pump EXCEPT ![r] = "created"]
        /\ stream' = [stream EXCEPT ![r] = "refused"] \/ stream' = [stream EXCEPT ![r] = "open"]
        /\ cancelled' = [cancelled EXCEPT ![r] = TRUE] \/ cancelled' = cancelled
    BY <1>2 DEF StartRun
  <2> QED
    BY <2>2, <2>3 DEF Tables
<1>3. ASSUME NEW r \in Runs, Stillborn(r)
      PROVE  Tables'
  BY <1>3 DEF Tables, Stillborn
<1>4. ASSUME NEW r \in Runs, Begin(r)
      PROVE  Tables'
  BY <1>4 DEF Tables, Begin
<1>5. ASSUME NEW r \in Runs, Heal(r)
      PROVE  Tables'
  BY <1>5 DEF Tables, Heal, Goes
<1>6. ASSUME NEW r \in Runs, Input(r)
      PROVE  Tables'
  BY <1>6 DEF Tables, Input, Goes
<1>7. ASSUME NEW r \in Runs, Streams(r)
      PROVE  Tables'
  BY <1>7 DEF Tables, Streams, Goes
<1>8. ASSUME NEW r \in Runs, ModelCalls(r)
      PROVE  Tables'
  BY <1>8 DEF Tables, ModelCalls, Goes
<1>9. ASSUME NEW r \in Runs, ModelAnswers(r)
      PROVE  Tables'
  BY <1>9 DEF Tables, ModelAnswers, Goes
<1>10. ASSUME NEW r \in Runs, ToolReturns(r)
      PROVE  Tables'
  BY <1>10 DEF Tables, ToolReturns, Goes
<1>11. ASSUME NEW r \in Runs, Asks(r)
      PROVE  Tables'
  BY <1>11 DEF Tables, Asks, Goes
<1>12. ASSUME NEW r \in Runs, Complete(r)
      PROVE  Tables'
  BY <1>12 DEF Tables, Complete, Finish
<1>13. ASSUME NEW r \in Runs, GraphFails(r)
      PROVE  Tables'
  BY <1>13 DEF Tables, GraphFails, Finish
<1>14. ASSUME NEW r \in Runs, Interrupted(r)
      PROVE  Tables'
  BY <1>14 DEF Tables, Interrupted, Finish
<1>15. ASSUME NEW r \in Runs, FinishBegins(r)
      PROVE  Tables'
  BY <1>15 DEF Tables, FinishBegins
<1>16. ASSUME NEW r \in Runs, Repair(r)
      PROVE  Tables'
  BY <1>16 DEF Tables, Repair
<1>17. ASSUME NEW r \in Runs, Sync(r)
      PROVE  Tables'
  BY <1>17 DEF Tables, Sync, Finished
<1>18. ASSUME NEW r \in Runs, FinishFails(r)
      PROVE  Tables'
  BY <1>18 DEF Tables, FinishFails, Finished
<1>19. ASSUME NEW r \in Runs, StreamEnds(r)
      PROVE  Tables'
  BY <1>19 DEF Tables, StreamEnds, Closes, Unregister
<1>20. ASSUME NEW r \in Runs, Disconnect(r)
      PROVE  Tables'
  BY <1>20 DEF Tables, Disconnect, Closes, Unregister, Cancel, Cancellable
<1>21. ASSUME NEW r \in Runs, StreamCloses(r)
      PROVE  Tables'
  BY <1>21 DEF Tables, StreamCloses, Closes
<1>22. ASSUME NEW r \in Runs, EditBegins(r)
      PROVE  Tables'
  BY <1>22 DEF Tables, EditBegins, tasks
<1>23. ASSUME CancelRun
      PROVE  Tables'
  BY <1>23 DEF Tables, CancelRun, Cancel, Cancellable
<1>24. ASSUME DeleteBegins
      PROVE  Tables'
  BY <1>24 DEF Tables, DeleteBegins, Cancel, Cancellable
<1>25. ASSUME DeleteWaited
      PROVE  Tables'
  BY <1>25 DEF Tables, DeleteWaited, tasks
<1>26. ASSUME DeleteCheckpoint
      PROVE  Tables'
  BY <1>26 DEF Tables, DeleteCheckpoint, tasks
<1>27. ASSUME DeleteRow
      PROVE  Tables'
  BY <1>27 DEF Tables, DeleteRow, tasks
<1>28. ASSUME Rewind
      PROVE  Tables'
  BY <1>28 DEF Tables, Rewind, tasks
<1>29. ASSUME Rename
      PROVE  Tables'
  BY <1>29 DEF Tables, Rename, tasks
<1>30. ASSUME ProcessStops
      PROVE  Tables'
  BY <1>30 DEF Tables, ProcessStops
<1> QED
  BY <1>1, <1>2, <1>3, <1>4, <1>5, <1>6, <1>7, <1>8, <1>9, <1>10, <1>11, <1>12, <1>13,
     <1>14, <1>15, <1>16, <1>17, <1>18, <1>19, <1>20, <1>21, <1>22, <1>23, <1>24, <1>25,
     <1>26, <1>27, <1>28, <1>29, <1>30
     DEF Next, Task, Pump, Finisher, Stream, Mutations

\* So have the row and the mutations.
LEMMA RowStep ==
    ASSUME AgentRunsAssumption, Tables, RowTyped, MutationsTyped, [Next]_vars
    PROVE  RowTyped' /\ MutationsTyped'
<1>1. CASE UNCHANGED vars
  BY <1>1 DEF vars, mutations, history, RowTyped, MutationsTyped
<1>2. ASSUME Changes
      PROVE  changes' \in 0..MaxChanges
  <2>1. MaxChanges \in Nat
    BY DEF AgentRunsAssumption
  <2>2. changes \in 0..MaxChanges /\ changes < MaxChanges /\ changes' = changes + 1
    BY <1>2 DEF Changes, MutationsTyped
  <2> QED
    BY <2>1, <2>2
<1>3. ASSUME NEW r \in Runs, StartRun(r)
      PROVE  RowTyped' /\ MutationsTyped'
  BY <1>3 DEF RowTyped, MutationsTyped, StartRun, mutations, history
<1>4. ASSUME NEW r \in Runs, Stillborn(r)
      PROVE  RowTyped' /\ MutationsTyped'
  BY <1>4 DEF RowTyped, MutationsTyped, Stillborn, mutations, history
<1>5. ASSUME NEW r \in Runs, Begin(r)
      PROVE  RowTyped' /\ MutationsTyped'
  BY <1>5 DEF RowTyped, MutationsTyped, Begin, mutations, history
<1>6. ASSUME NEW r \in Runs, Heal(r)
      PROVE  RowTyped' /\ MutationsTyped'
  BY <1>6 DEF RowTyped, MutationsTyped, Heal, CloseTurn, Goes, mutations
<1>7. ASSUME NEW r \in Runs, Input(r)
      PROVE  RowTyped' /\ MutationsTyped'
  BY <1>7 DEF RowTyped, MutationsTyped, Input, Goes, mutations
<1>8. ASSUME NEW r \in Runs, Streams(r)
      PROVE  RowTyped' /\ MutationsTyped'
  BY <1>8 DEF RowTyped, MutationsTyped, Streams, Goes, mutations
<1>9. ASSUME NEW r \in Runs, ModelCalls(r)
      PROVE  RowTyped' /\ MutationsTyped'
  BY <1>9 DEF RowTyped, MutationsTyped, ModelCalls, Goes, mutations
<1>10. ASSUME NEW r \in Runs, ModelAnswers(r)
      PROVE  RowTyped' /\ MutationsTyped'
  BY <1>10 DEF RowTyped, MutationsTyped, ModelAnswers, Goes, mutations
<1>11. ASSUME NEW r \in Runs, ToolReturns(r)
      PROVE  RowTyped' /\ MutationsTyped'
  BY <1>11 DEF RowTyped, MutationsTyped, ToolReturns, Goes, mutations
<1>12. ASSUME NEW r \in Runs, Asks(r)
      PROVE  RowTyped' /\ MutationsTyped'
  BY <1>12 DEF RowTyped, MutationsTyped, Asks, Goes, mutations
<1>13. ASSUME NEW r \in Runs, Complete(r)
      PROVE  RowTyped' /\ MutationsTyped'
  BY <1>13 DEF RowTyped, MutationsTyped, Complete, Finish, mutations, history
<1>14. ASSUME NEW r \in Runs, GraphFails(r)
      PROVE  RowTyped' /\ MutationsTyped'
  BY <1>14 DEF RowTyped, MutationsTyped, GraphFails, Finish, mutations, history
<1>15. ASSUME NEW r \in Runs, Interrupted(r)
      PROVE  RowTyped' /\ MutationsTyped'
  BY <1>15 DEF RowTyped, MutationsTyped, Interrupted, Finish, mutations, history
<1>16. ASSUME NEW r \in Runs, FinishBegins(r)
      PROVE  RowTyped' /\ MutationsTyped'
  BY <1>16 DEF RowTyped, MutationsTyped, FinishBegins, mutations, history
<1>17. ASSUME NEW r \in Runs, Repair(r)
      PROVE  RowTyped' /\ MutationsTyped'
  BY <1>17 DEF RowTyped, MutationsTyped, Repair, CloseTurn, mutations
<1>18. ASSUME NEW r \in Runs, Sync(r)
      PROVE  RowTyped' /\ MutationsTyped'
  BY <1>18 DEF RowTyped, MutationsTyped, Sync, Finished
<1>19. ASSUME NEW r \in Runs, FinishFails(r)
      PROVE  RowTyped' /\ MutationsTyped'
  BY <1>19, <1>2 DEF RowTyped, MutationsTyped, FinishFails, Finished
<1>20. ASSUME NEW r \in Runs, StreamEnds(r)
      PROVE  RowTyped' /\ MutationsTyped'
  BY <1>20 DEF RowTyped, MutationsTyped, StreamEnds, Closes, mutations, history
<1>21. ASSUME NEW r \in Runs, Disconnect(r)
      PROVE  RowTyped' /\ MutationsTyped'
  BY <1>21 DEF RowTyped, MutationsTyped, Disconnect, Closes, mutations, history
<1>22. ASSUME NEW r \in Runs, StreamCloses(r)
      PROVE  RowTyped' /\ MutationsTyped'
  BY <1>22 DEF RowTyped, MutationsTyped, StreamCloses, Closes, mutations, history
<1>23. ASSUME NEW r \in Runs, EditBegins(r)
      PROVE  RowTyped' /\ MutationsTyped'
  BY <1>23, <1>2 DEF RowTyped, MutationsTyped, EditBegins, history
<1>24. ASSUME CancelRun
      PROVE  RowTyped' /\ MutationsTyped'
  BY <1>24 DEF RowTyped, MutationsTyped, CancelRun, mutations, history
<1>25. ASSUME DeleteBegins
       PROVE  RowTyped' /\ MutationsTyped'
  <2>1. changes' \in 0..MaxChanges /\ erased' \subseteq Runs
    BY <1>25, <1>2 DEF DeleteBegins
  <2>2. /\ row' = row /\ unrepaired' = unrepaired /\ edit' = edit
        /\ \/ deletion' = [step |-> "cancelling", run |-> registered]
           \/ deletion' = [step |-> "waiting", run |-> Nobody]
    BY <1>25 DEF DeleteBegins
  <2>3. deletion' \in [step : {"idle", "cancelling", "waiting", "erased"},
                        run : Runs \cup {Nobody}]
    BY <2>2 DEF Tables
  <2> QED
    BY <2>1, <2>2, <2>3 DEF RowTyped, MutationsTyped
<1>26. ASSUME DeleteWaited
      PROVE  RowTyped' /\ MutationsTyped'
  BY <1>26 DEF RowTyped, MutationsTyped, DeleteWaited, history
<1>27. ASSUME DeleteCheckpoint
      PROVE  RowTyped' /\ MutationsTyped'
  BY <1>27 DEF RowTyped, MutationsTyped, DeleteCheckpoint
<1>28. ASSUME DeleteRow
      PROVE  RowTyped' /\ MutationsTyped'
  BY <1>28 DEF RowTyped, MutationsTyped, DeleteRow, NoDeletion, history
<1>29. ASSUME Rewind
      PROVE  RowTyped' /\ MutationsTyped'
  BY <1>29 DEF RowTyped, MutationsTyped, Rewind, NoEdit
<1>30. ASSUME Rename
      PROVE  RowTyped' /\ MutationsTyped'
  BY <1>30, <1>2 DEF RowTyped, MutationsTyped, Rename, history
<1>31. ASSUME ProcessStops
      PROVE  RowTyped' /\ MutationsTyped'
  BY <1>31, <1>2 DEF RowTyped, MutationsTyped, ProcessStops, NoDeletion, NoEdit
<1> QED
  BY <1>1, <1>2, <1>3, <1>4, <1>5, <1>6, <1>7, <1>8, <1>9, <1>10, <1>11, <1>12, <1>13,
     <1>14, <1>15, <1>16, <1>17, <1>18, <1>19, <1>20, <1>21, <1>22, <1>23, <1>24, <1>25,
     <1>26, <1>27, <1>28, <1>29, <1>30, <1>31
     DEF Next, Task, Pump, Finisher, Stream, Mutations

\* Every step keeps the types.
LEMMA TypeStep ==
    ASSUME AgentRunsAssumption, TypeOK, TurnsOK, Queue', [Next]_vars
    PROVE  TypeOK'
<1>1. CheckpointTyped /\ Tables /\ RowTyped /\ MutationsTyped
  BY Types
<1>2. CheckpointTyped' /\ Tables' /\ RowTyped' /\ MutationsTyped'
  BY <1>1, CheckpointStep, TablesStep, RowStep
<1> QED
  BY <1>2 DEF Queue, TypeOK, CheckpointTyped, Tables, RowTyped, MutationsTyped

\* Every step keeps the registry: a run is registered as long as its client is connected,
\* or its cancellation is on its way.
LEMMA TasksStep ==
    ASSUME AgentRunsAssumption, Tables, TasksOK, [Next]_vars
    PROVE  TasksOK'
<1>0. Nobody \notin Runs
  BY DEF AgentRunsAssumption
<1>1. CASE UNCHANGED vars
  BY <1>1 DEF vars, tasks, TasksOK, Live, Cancellable
<1>2. ASSUME NEW r \in Runs, StartRun(r)
      PROVE  TasksOK'
  BY <1>0, <1>2 DEF TasksOK, Tables, Live, Cancellable, StartRun
<1>3. ASSUME NEW r \in Runs, Stillborn(r)
      PROVE  TasksOK'
  BY <1>0, <1>3 DEF TasksOK, Tables, Live, Cancellable, Stillborn
<1>4. ASSUME NEW r \in Runs, Begin(r)
      PROVE  TasksOK'
  BY <1>0, <1>4 DEF TasksOK, Tables, Live, Cancellable, Begin
<1>5. ASSUME NEW r \in Runs, Heal(r)
      PROVE  TasksOK'
  BY <1>0, <1>5 DEF TasksOK, Tables, Live, Cancellable, Heal, Goes
<1>6. ASSUME NEW r \in Runs, Input(r)
      PROVE  TasksOK'
  BY <1>0, <1>6 DEF TasksOK, Tables, Live, Cancellable, Input, Goes
<1>7. ASSUME NEW r \in Runs, Streams(r)
      PROVE  TasksOK'
  BY <1>0, <1>7 DEF TasksOK, Tables, Live, Cancellable, Streams, Goes
<1>8. ASSUME NEW r \in Runs, ModelCalls(r)
      PROVE  TasksOK'
  BY <1>0, <1>8 DEF TasksOK, Tables, Live, Cancellable, ModelCalls, Goes
<1>9. ASSUME NEW r \in Runs, ModelAnswers(r)
      PROVE  TasksOK'
  BY <1>0, <1>9 DEF TasksOK, Tables, Live, Cancellable, ModelAnswers, Goes
<1>10. ASSUME NEW r \in Runs, ToolReturns(r)
      PROVE  TasksOK'
  BY <1>0, <1>10 DEF TasksOK, Tables, Live, Cancellable, ToolReturns, Goes
<1>11. ASSUME NEW r \in Runs, Asks(r)
      PROVE  TasksOK'
  BY <1>0, <1>11 DEF TasksOK, Tables, Live, Cancellable, Asks, Goes
<1>12. ASSUME NEW r \in Runs, Complete(r)
      PROVE  TasksOK'
  BY <1>0, <1>12 DEF TasksOK, Tables, Live, Cancellable, Complete, Finish
<1>13. ASSUME NEW r \in Runs, GraphFails(r)
      PROVE  TasksOK'
  BY <1>0, <1>13 DEF TasksOK, Tables, Live, Cancellable, GraphFails, Finish
<1>14. ASSUME NEW r \in Runs, Interrupted(r)
      PROVE  TasksOK'
  BY <1>0, <1>14 DEF TasksOK, Tables, Live, Cancellable, Interrupted, Finish
<1>15. ASSUME NEW r \in Runs, FinishBegins(r)
      PROVE  TasksOK'
  BY <1>0, <1>15 DEF TasksOK, Tables, Live, Cancellable, FinishBegins
<1>16. ASSUME NEW r \in Runs, Repair(r)
      PROVE  TasksOK'
  BY <1>0, <1>16 DEF TasksOK, Tables, Live, Cancellable, Repair, Repairing
<1>17. ASSUME NEW r \in Runs, Sync(r)
      PROVE  TasksOK'
  BY <1>0, <1>17 DEF TasksOK, Tables, Live, Cancellable, Sync, Finished
<1>18. ASSUME NEW r \in Runs, FinishFails(r)
      PROVE  TasksOK'
  BY <1>0, <1>18 DEF TasksOK, Tables, Live, Cancellable, FinishFails, Finished
<1>19. ASSUME NEW r \in Runs, StreamEnds(r)
      PROVE  TasksOK'
  BY <1>0, <1>19 DEF TasksOK, Tables, Live, Cancellable, StreamEnds, Closes, Unregister
<1>20. ASSUME NEW r \in Runs, Disconnect(r)
      PROVE  TasksOK'
  BY <1>0, <1>20 DEF TasksOK, Tables, Live, Cancellable, Disconnect, Closes, Unregister, Cancel
<1>21. ASSUME NEW r \in Runs, StreamCloses(r)
      PROVE  TasksOK'
  BY <1>0, <1>21 DEF TasksOK, Tables, Live, Cancellable, StreamCloses, Closes
<1>22. ASSUME NEW r \in Runs, EditBegins(r)
      PROVE  TasksOK'
  BY <1>0, <1>22 DEF TasksOK, Tables, Live, Cancellable, EditBegins, tasks
<1>23. ASSUME CancelRun
      PROVE  TasksOK'
  BY <1>0, <1>23 DEF TasksOK, Tables, Live, Cancellable, CancelRun, Cancel
<1>24. ASSUME DeleteBegins
      PROVE  TasksOK'
  BY <1>0, <1>24 DEF TasksOK, Tables, Live, Cancellable, DeleteBegins, Cancel
<1>25. ASSUME DeleteWaited
      PROVE  TasksOK'
  BY <1>0, <1>25 DEF TasksOK, Tables, Live, Cancellable, DeleteWaited, tasks
<1>26. ASSUME DeleteCheckpoint
      PROVE  TasksOK'
  BY <1>0, <1>26 DEF TasksOK, Tables, Live, Cancellable, DeleteCheckpoint, tasks
<1>27. ASSUME DeleteRow
      PROVE  TasksOK'
  BY <1>0, <1>27 DEF TasksOK, Tables, Live, Cancellable, DeleteRow, tasks
<1>28. ASSUME Rewind
      PROVE  TasksOK'
  BY <1>0, <1>28 DEF TasksOK, Tables, Live, Cancellable, Rewind, tasks
<1>29. ASSUME Rename
      PROVE  TasksOK'
  BY <1>0, <1>29 DEF TasksOK, Tables, Live, Cancellable, Rename, tasks
<1>30. ASSUME ProcessStops
      PROVE  TasksOK'
  BY <1>0, <1>30 DEF TasksOK, Tables, Live, Cancellable, ProcessStops
<1> QED
  BY <1>1, <1>2, <1>3, <1>4, <1>5, <1>6, <1>7, <1>8, <1>9, <1>10, <1>11, <1>12, <1>13,
     <1>14, <1>15, <1>16, <1>17, <1>18, <1>19, <1>20, <1>21, <1>22, <1>23, <1>24, <1>25,
     <1>26, <1>27, <1>28, <1>29, <1>30
     DEF Next, Task, Pump, Finisher, Stream, Mutations

(***************************************************************************)
(* Who writes to the thread                                                *)
(***************************************************************************)

\* The lock has one holder.
LEMMA OneHolder ==
    ASSUME HoldersOK, NEW u, Holds(u)
    PROVE  /\ \A s \in Runs : <<"run", s>> # u =>
                 pump[s] \notin {"running", "over"} /\ ~(pump[s] = "input" /\ mode[s] = "message")
           /\ u # <<"delete", Nobody>> => deletion.step # "erased"
           /\ First(lock, u)
BY DEF HoldersOK, Holds, First

\* A message that can follow is added to the thread.
LEMMA Saying ==
    ASSUME CheckpointTyped, TurnsOK, NEW r \in Runs,
           NEW kind \in {"human", "call", "result", "answer"}, Say(r, kind),
           messages = <<>> => kind = "human",
           messages # <<>> => Follows(messages[Len(messages)].kind, kind)
    PROVE  /\ Extends(messages, messages') /\ WellFormed(messages') /\ Ends(messages', {kind})
           /\ \A i \in (Len(messages) + 1)..Len(messages') : messages'[i] = [kind |-> kind, by |-> r]
           /\ Len(messages') = Len(messages) + 1
<1> DEFINE m == [kind |-> kind, by |-> r]
<1>1. m \in Message /\ m.kind = kind
  BY DEF Message
<1>2. messages \in Seq(Message) /\ WellFormed(messages) /\ messages' = Append(messages, m)
  BY DEF CheckpointTyped, TurnsOK, Say
<1>3. /\ Extends(messages, messages') /\ WellFormed(messages')
      /\ Len(messages') = Len(messages) + 1 /\ Len(messages) \in Nat
      /\ messages' # <<>> /\ messages'[Len(messages) + 1] = m
  BY <1>1, <1>2, Adding
<1> HIDE DEF m
<1>4. Ends(messages', {kind})
  BY <1>1, <1>3 DEF Ends
<1>5. \A i \in (Len(messages) + 1)..Len(messages') : i = Len(messages) + 1
  BY <1>3
<1> QED
  BY <1>3, <1>4, <1>5 DEF m

\* The first message of a run, or what an answer to a question resumes.
LEMMA InputSays ==
    ASSUME AgentRunsAssumption, CheckpointTyped, TurnsOK, HoldersOK, NEW r \in Runs, Input(r)
    PROVE  \/ /\ mode[r] = "message" /\ Say(r, "human") /\ Goes(r, "running")
              /\ Answered(messages)
              /\ messages # <<>> => Follows(messages[Len(messages)].kind, "human")
           \/ /\ mode[r] = "resume" /\ Say(r, "result") /\ Goes(r, "running")
              /\ messages # <<>> /\ Follows(messages[Len(messages)].kind, "result")
           \/ /\ mode[r] = "resume" /\ messages' = messages /\ interrupt = Nobody
              /\ Goes(r, "over")
<1>1. CASE mode[r] = "message" /\ Say(r, "human") /\ Goes(r, "running")
  <2>1. Answered(messages)
    BY <1>1 DEF HoldersOK, Input
  <2> QED
    BY <1>1, <2>1 DEF Answered, Ends, Follows
<1>2. CASE mode[r] = "resume" /\ interrupt # Nobody /\ Say(r, "result") /\ Goes(r, "running")
  <2>1. Ends(messages, {"call"})
    BY <1>2 DEF TurnsOK
  <2> QED
    BY <1>2, <2>1 DEF Ends, Follows
<1>3. CASE /\ mode[r] = "resume" /\ interrupt = Nobody /\ UNCHANGED messages
           /\ Goes(r, "over")
  BY <1>3
<1> QED
  BY <1>1, <1>2, <1>3 DEF Input

\* What the graph says goes on with the open turn.
LEMMA GraphSays ==
    ASSUME AgentRunsAssumption, CheckpointTyped, TurnsOK, HoldersOK, NEW r \in Runs,
           ModelCalls(r) \/ ModelAnswers(r) \/ ToolReturns(r)
    PROVE  /\ interrupt = Nobody /\ interrupt' = Nobody /\ messages # <<>>
           /\ \/ /\ ModelCalls(r) /\ Say(r, "call") /\ Goes(r, "running")
                 /\ Follows(messages[Len(messages)].kind, "call")
              \/ /\ ModelAnswers(r) /\ Say(r, "answer") /\ Goes(r, "over")
                 /\ Follows(messages[Len(messages)].kind, "answer")
              \/ /\ ToolReturns(r) /\ Say(r, "result") /\ Goes(r, "running")
                 /\ Follows(messages[Len(messages)].kind, "result")
<1>1. pump[r] = "running" /\ interrupt' = interrupt
  BY DEF ModelCalls, ModelAnswers, ToolReturns
<1>2. interrupt = Nobody /\ ~Answered(messages)
  BY <1>1 DEF HoldersOK
<1>3. messages \in Seq(Message) /\ WellFormed(messages)
  BY DEF CheckpointTyped, TurnsOK
<1>4. /\ Ends(messages, {"human", "call", "result"})
      /\ Unanswered(messages) <=> Ends(messages, {"call"})
  BY <1>2, <1>3, LastMessage
<1>5. /\ messages # <<>> /\ messages[Len(messages)].kind \in {"human", "call", "result"}
      /\ Unanswered(messages) <=> messages[Len(messages)].kind = "call"
  BY <1>4 DEF Ends
<1>6. CASE ModelCalls(r)
  BY <1>1, <1>2, <1>5, <1>6 DEF ModelCalls, Follows
<1>7. CASE ModelAnswers(r)
  BY <1>1, <1>2, <1>5, <1>7 DEF ModelAnswers, Follows
<1>8. CASE ToolReturns(r)
  BY <1>1, <1>2, <1>5, <1>8 DEF ToolReturns, Follows
<1> QED
  BY <1>6, <1>7, <1>8

\* What a holder may count on stays so as long as the thread does.
LEMMA HoldersKept ==
    ASSUME LockOK', FirstStays, HoldersOK, UNCHANGED checkpoint,
           \A s \in Runs : /\ pump'[s] = "running" => pump[s] = "running"
                           /\ pump'[s] = "over" => pump[s] \in {"running", "over"}
                           /\ pump'[s] = "input" /\ mode'[s] = "message" =>
                                 pump[s] = "input" /\ mode[s] = "message",
           deletion'.step = "erased" => deletion.step = "erased"
    PROVE  HoldersOK'
<1>1. messages' = messages /\ interrupt' = interrupt /\ snapshots' = snapshots
  BY DEF checkpoint
<1>2. ASSUME NEW s \in Runs, pump'[s] \in {"running", "over"}
      PROVE  First(lock', <<"run", s>>)
  <2>1. First(lock, <<"run", s>>)
    BY <1>2 DEF HoldersOK
  <2>2. In(lock', <<"run", s>>)
    BY <1>2 DEF LockOK, Runner
  <2> QED
    BY <2>1, <2>2 DEF FirstStays
<1>3. ASSUME NEW s \in Runs, pump'[s] = "input", mode'[s] = "message"
      PROVE  First(lock', <<"run", s>>) /\ Answered(messages')
  <2>1. First(lock, <<"run", s>>) /\ Answered(messages)
    BY <1>3 DEF HoldersOK
  <2>2. In(lock', <<"run", s>>)
    BY <1>3 DEF LockOK, Runner
  <2> QED
    BY <1>1, <2>1, <2>2 DEF FirstStays
<1>4. ASSUME deletion'.step = "erased"
      PROVE  First(lock', <<"delete", Nobody>>) /\ messages' = <<>> /\ snapshots' = {}
  <2>1. First(lock, <<"delete", Nobody>>) /\ messages = <<>> /\ snapshots = {}
    BY <1>4 DEF HoldersOK
  <2>2. In(lock', <<"delete", Nobody>>)
    BY <1>4 DEF LockOK, Deleter
  <2> QED
    BY <1>1, <2>1, <2>2 DEF FirstStays
<1>5. \A s \in Runs : pump'[s] = "running" => interrupt' = Nobody /\ ~Answered(messages')
  BY <1>1 DEF HoldersOK
<1> QED
  BY <1>2, <1>3, <1>4, <1>5 DEF HoldersOK

\* The steps that let the thread be let the holders be.
LEMMA IdleSteps ==
    ASSUME Tables, TasksOK, LockOK', FirstStays, HoldersOK, UNCHANGED checkpoint, [Next]_vars,
           \A r \in Runs : ~Writes(r), ~DeleteCheckpoint, ~Rewind
    PROVE  HoldersOK'
<1> DEFINE Pumps == \A s \in Runs : /\ pump'[s] = "running" => pump[s] = "running"
                                    /\ pump'[s] = "over" => pump[s] \in {"running", "over"}
                                    /\ pump'[s] = "input" /\ mode'[s] = "message" =>
                                          pump[s] = "input" /\ mode[s] = "message"
           Deletion == deletion'.step = "erased" => deletion.step = "erased"
<1>1. CASE UNCHANGED vars
  BY <1>1, HoldersKept DEF vars, tasks, mutations
<1>2. ASSUME NEW r \in Runs, StartRun(r)
      PROVE  Pumps /\ Deletion
  <2>1. PICK m \in {"message", "resume"} : mode' = [mode EXCEPT ![r] = m]
    BY <1>2 DEF StartRun
  <2>2. pump' = [pump EXCEPT ![r] = "created"] /\ deletion' = deletion
    BY <1>2 DEF StartRun, mutations
  <2> QED
    BY <2>1, <2>2 DEF Tables
<1>3. ASSUME NEW r \in Runs, Stillborn(r)
      PROVE  Pumps /\ Deletion
  BY <1>3 DEF Tables, Stillborn, mutations
<1>4. ASSUME NEW r \in Runs, Begin(r)
      PROVE  Pumps /\ Deletion
  BY <1>4 DEF Tables, Begin, mutations
<1>5. ASSUME NEW r \in Runs, Streams(r)
      PROVE  Pumps /\ Deletion
  BY <1>5 DEF Tables, Streams, Goes, mutations
<1>6. ASSUME NEW r \in Runs, Complete(r)
      PROVE  Pumps /\ Deletion
  BY <1>6 DEF Tables, Complete, Finish, mutations
<1>7. ASSUME NEW r \in Runs, GraphFails(r)
      PROVE  Pumps /\ Deletion
  BY <1>7 DEF Tables, GraphFails, Finish, mutations
<1>8. ASSUME NEW r \in Runs, Interrupted(r)
      PROVE  Pumps /\ Deletion
  BY <1>8 DEF Tables, Interrupted, Finish, mutations
<1>9. ASSUME NEW r \in Runs, FinishBegins(r)
      PROVE  Pumps /\ Deletion
  BY <1>9 DEF Tables, FinishBegins, mutations
<1>10. ASSUME NEW r \in Runs, Sync(r)
      PROVE  Pumps /\ Deletion
  BY <1>10 DEF Tables, Sync, Finished
<1>11. ASSUME NEW r \in Runs, FinishFails(r)
      PROVE  Pumps /\ Deletion
  BY <1>11 DEF Tables, FinishFails, Finished
<1>12. ASSUME NEW r \in Runs, StreamEnds(r)
      PROVE  Pumps /\ Deletion
  BY <1>12 DEF Tables, StreamEnds, Closes, mutations
<1>13. ASSUME NEW r \in Runs, Disconnect(r)
      PROVE  Pumps /\ Deletion
  BY <1>13 DEF Tables, Disconnect, Closes, mutations
<1>14. ASSUME NEW r \in Runs, StreamCloses(r)
      PROVE  Pumps /\ Deletion
  BY <1>14 DEF Tables, StreamCloses, Closes, mutations
<1>15. ASSUME NEW r \in Runs, EditBegins(r)
      PROVE  Pumps /\ Deletion
  BY <1>15 DEF Tables, EditBegins, tasks
<1>16. ASSUME CancelRun
      PROVE  Pumps /\ Deletion
  BY <1>16 DEF Tables, CancelRun, mutations
<1>17. ASSUME DeleteBegins
      PROVE  Pumps /\ Deletion
  BY <1>17 DEF Tables, DeleteBegins
<1>18. ASSUME DeleteWaited
      PROVE  Pumps /\ Deletion
  BY <1>18 DEF Tables, DeleteWaited, tasks
<1>19. ASSUME DeleteRow
      PROVE  Pumps /\ Deletion
  BY <1>19 DEF Tables, DeleteRow, NoDeletion, tasks
<1>20. ASSUME Rename
      PROVE  Pumps /\ Deletion
  BY <1>20 DEF Tables, Rename, tasks
<1>21. ASSUME ProcessStops
      PROVE  Pumps /\ Deletion
  BY <1>21 DEF Tables, ProcessStops, NoDeletion
<1>22. UNCHANGED vars \/ (Pumps /\ Deletion)
  BY <1>2, <1>3, <1>4, <1>5, <1>6, <1>7, <1>8, <1>9, <1>10, <1>11, <1>12, <1>13, <1>14,
     <1>15, <1>16, <1>17, <1>18, <1>19, <1>20, <1>21
     DEF Next, Task, Pump, Finisher, Stream, Mutations, Writes
<1> QED
  BY <1>1, <1>22, HoldersKept

\* The end of a run in progress is its finisher's, until it has repaired the turn.
Responsible(r) == pump[r] = "running" \/ finisher[r] \in {"interrupted", "repairing"}

\* An open turn that nobody touches is somebody's still.
LEMMA TurnsKept ==
    ASSUME TurnsOK, UNCHANGED checkpoint, ~unrepaired' => ~unrepaired,
           \A r \in Runs : Responsible(r) => Responsible(r)' \/ unrepaired'
    PROVE  TurnsOK'
<1>1. messages' = messages /\ interrupt' = interrupt /\ snapshots' = snapshots
  BY DEF checkpoint
<1>2. ASSUME ~Answered(messages'), interrupt' = Nobody, ~unrepaired'
      PROVE  \E r \in Runs : Responsible(r)'
  <2>1. PICK r \in Runs : Responsible(r)
    BY <1>1, <1>2 DEF TurnsOK, Responsible
  <2> QED
    BY <1>2, <2>1
<1> QED
  BY <1>1, <1>2 DEF TurnsOK, Responsible

\* The steps that let the thread be leave nobody's turn alone.
LEMMA IdleTurns ==
    ASSUME Tables, RowTyped, TasksOK, TurnsOK, UNCHANGED checkpoint, [Next]_vars,
           \A r \in Runs : ~Writes(r), ~DeleteCheckpoint, ~Rewind
    PROVE  TurnsOK'
<1> DEFINE Goal == /\ ~unrepaired' => ~unrepaired
                   /\ \A s \in Runs : Responsible(s) => Responsible(s)' \/ unrepaired'
<1>1. ASSUME UNCHANGED vars
      PROVE  Goal
  BY <1>1 DEF vars, tasks, history, Responsible
<1>2. ASSUME NEW r \in Runs, StartRun(r)
      PROVE  Goal
  BY <1>2, Stages DEF Tables, Responsible, StartRun, history
<1>3. ASSUME NEW r \in Runs, Stillborn(r)
      PROVE  Goal
  BY <1>3, Stages DEF Tables, Responsible, Stillborn, history
<1>4. ASSUME NEW r \in Runs, Begin(r)
      PROVE  Goal
  BY <1>4, Stages DEF Tables, Responsible, Begin, history
<1>5. ASSUME NEW r \in Runs, Streams(r)
      PROVE  Goal
  BY <1>5, Stages DEF Tables, Responsible, Streams, Goes
<1>6. ASSUME NEW r \in Runs, Complete(r)
      PROVE  Goal
  BY <1>6, Stages DEF Tables, Responsible, Complete, Finish, history
<1>7. ASSUME NEW r \in Runs, GraphFails(r)
      PROVE  Goal
  BY <1>7, Stages DEF Tables, Responsible, GraphFails, Finish, history
<1>8. ASSUME NEW r \in Runs, Interrupted(r)
      PROVE  Goal
  BY <1>8, Stages DEF Tables, Responsible, Interrupted, Finish, history
<1>9. ASSUME NEW r \in Runs, FinishBegins(r)
      PROVE  Goal
  BY <1>9, Stages DEF Tables, Responsible, FinishBegins, history
<1>10. ASSUME NEW r \in Runs, Sync(r)
      PROVE  Goal
  BY <1>10, Stages DEF Tables, Responsible, Sync, Finished
<1>11. ASSUME NEW r \in Runs, FinishFails(r)
      PROVE  Goal
  BY <1>11, Stages DEF Tables, Responsible, FinishFails, Finished, RowTyped
<1>12. ASSUME NEW r \in Runs, StreamEnds(r)
      PROVE  Goal
  BY <1>12, Stages DEF Tables, Responsible, StreamEnds, Closes, history
<1>13. ASSUME NEW r \in Runs, Disconnect(r)
      PROVE  Goal
  BY <1>13, Stages DEF Tables, Responsible, Disconnect, Closes, history
<1>14. ASSUME NEW r \in Runs, StreamCloses(r)
      PROVE  Goal
  BY <1>14, Stages DEF Tables, Responsible, StreamCloses, Closes, history
<1>15. ASSUME NEW r \in Runs, EditBegins(r)
      PROVE  Goal
  BY <1>15, Stages DEF Tables, Responsible, EditBegins, tasks, history
<1>16. ASSUME CancelRun
      PROVE  Goal
  BY <1>16, Stages DEF Tables, Responsible, CancelRun, history
<1>17. ASSUME DeleteBegins
      PROVE  Goal
  BY <1>17, Stages DEF Tables, Responsible, DeleteBegins
<1>18. ASSUME DeleteWaited
      PROVE  Goal
  BY <1>18, Stages DEF Tables, Responsible, DeleteWaited, tasks, history
<1>19. ASSUME DeleteRow
      PROVE  Goal
  BY <1>19, Stages DEF Tables, Responsible, DeleteRow, tasks, history
<1>20. ASSUME Rename
      PROVE  Goal
  BY <1>20, Stages DEF Tables, Responsible, Rename, tasks, history
<1>21. ASSUME ProcessStops
      PROVE  Goal
  BY <1>21, Stages DEF Tables, Responsible, ProcessStops
<1>22. Goal
  BY <1>1, <1>2, <1>3, <1>4, <1>5, <1>6, <1>7, <1>8, <1>9, <1>10, <1>11, <1>12, <1>13,
     <1>14, <1>15, <1>16, <1>17, <1>18, <1>19, <1>20, <1>21
     DEF Next, Task, Pump, Finisher, Stream, Mutations, Writes
<1> QED
  BY <1>22, TurnsKept

(***************************************************************************)
(* The steps that write to the thread                                      *)
(***************************************************************************)

\* The step of a run that has the lock is seen by no other run, and by no deletion.
LEMMA RunWrites ==
    ASSUME Tables, HoldersOK, NEW r \in Runs, Holds(<<"run", r>>),
           NEW to \in {"input", "running", "over"}, Goes(r, to),
           to = "input" /\ mode[r] = "message" => Answered(messages'),
           to = "running" => interrupt' = Nobody /\ ~Answered(messages')
    PROVE  HoldersOK'
<1>1. /\ \A s \in Runs : s # r =>
            pump[s] \notin {"running", "over"} /\ ~(pump[s] = "input" /\ mode[s] = "message")
      /\ deletion.step # "erased" /\ First(lock, <<"run", r>>)
  BY OneHolder
<1>2. /\ pump' = [pump EXCEPT ![r] = to] /\ lock' = lock /\ mode' = mode
      /\ deletion' = deletion
  BY DEF Goes, mutations
<1>3. pump'[r] = to /\ \A s \in Runs : s # r => pump'[s] = pump[s]
  BY <1>2 DEF Tables
<1> QED
  BY <1>1, <1>2, <1>3 DEF HoldersOK

\* Nor is that of another user of the lock.
LEMMA OtherWrites ==
    ASSUME HoldersOK, NEW u, Holds(u), \A s : u # <<"run", s>>,
           pump' = pump, mode' = mode, deletion'.step # "erased"
    PROVE  HoldersOK'
<1>1. \A s \in Runs :
         pump[s] \notin {"running", "over"} /\ ~(pump[s] = "input" /\ mode[s] = "message")
  BY OneHolder
<1> QED
  BY <1>1 DEF HoldersOK

\* A healing or a repair closes the last turn.
LEMMA ClosingTurns ==
    ASSUME AgentRunsAssumption, CheckpointTyped, TurnsOK, NEW by \in Runs \cup {Nobody},
           CloseTurn(by)
    PROVE  TurnsOK' /\ Answered(messages')
<1>1. messages \in Seq(Message) /\ WellFormed(messages)
  BY DEF CheckpointTyped, TurnsOK
<1>2. WellFormed(messages') /\ Answered(messages')
  BY <1>1, Repairs DEF CloseTurn
<1>3. interrupt' = Nobody
  <2>1. CASE Closed(messages)
    <3>1. Answered(messages)
      BY <1>1, <2>1, LastMessage
    <3>2. ~Ends(messages, {"call"})
      BY <3>1 DEF Answered, Ends
    <3> QED
      BY <2>1, <3>2 DEF TurnsOK, CloseTurn
  <2>2. CASE ~Closed(messages)
    BY <2>2 DEF CloseTurn
  <2> QED
    BY <2>1, <2>2
<1>4. snapshots' = snapshots
  BY DEF CloseTurn
<1> QED
  BY <1>2, <1>3, <1>4 DEF TurnsOK

\* Holders and turns are kept by every write.
LEMMA WritesStep ==
    ASSUME AgentRunsAssumption, CheckpointTyped, Tables, HoldersOK, TurnsOK,
           NEW r \in Runs, Writes(r)
    PROVE  HoldersOK' /\ TurnsOK'
<1>1. CASE Heal(r)
  <2>1. /\ Holds(<<"run", r>>) /\ Goes(r, "input") /\ CloseTurn(Nobody)
    BY <1>1 DEF Heal, Executing
  <2>2. TurnsOK' /\ Answered(messages')
    BY <2>1, ClosingTurns
  <2>3. HoldersOK'
    BY <2>1, <2>2, RunWrites
  <2> QED
    BY <2>2, <2>3
<1>2. CASE Repair(r)
  <2>1. /\ Holds(<<"finish", r>>) /\ pump' = pump /\ mode' = mode /\ deletion' = deletion
        /\ CloseTurn(r) \/ CloseTurn(Nobody)
    BY <1>2 DEF Repair, Repairing, mutations
  <2>2. TurnsOK'
    BY <2>1, ClosingTurns
  <2>3. deletion'.step # "erased"
    BY <2>1, OneHolder, UserNames
  <2>4. HoldersOK'
    BY <2>1, <2>3, OtherWrites, UserNames
  <2> QED
    BY <2>2, <2>4
<1>3. CASE Input(r)
  <2>1. Holds(<<"run", r>>) /\ interrupt' = Nobody
    BY <1>3 DEF Input, Executing
  <2>2. CASE /\ mode[r] = "message" /\ Say(r, "human") /\ Goes(r, "running")
             /\ Answered(messages)
             /\ messages # <<>> => Follows(messages[Len(messages)].kind, "human")
    <3>1. WellFormed(messages') /\ Ends(messages', {"human"})
      BY <2>2, Saying
    <3>2. ~Answered(messages')
      BY <3>1 DEF Answered, Ends
    <3>3. HoldersOK'
      BY <2>1, <2>2, <3>2, RunWrites
    <3>4. pump'[r] = "running"
      BY <2>2 DEF Goes, Tables
    <3>5. snapshots' = snapshots \cup {[of |-> r, before |-> messages]}
      BY <1>3, <2>2 DEF Input
    <3>6. WellFormed(messages) /\ Answered(messages)
      BY <2>2 DEF TurnsOK
    <3>7. \A s \in snapshots' : WellFormed(s.before) /\ Answered(s.before)
      BY <3>5, <3>6 DEF TurnsOK
    <3>8. TurnsOK'
      BY <2>1, <3>1, <3>4, <3>7 DEF TurnsOK
    <3> QED
      BY <3>3, <3>8
  <2>3. CASE /\ mode[r] = "resume" /\ Say(r, "result") /\ Goes(r, "running")
             /\ messages # <<>> /\ Follows(messages[Len(messages)].kind, "result")
    <3>1. WellFormed(messages') /\ Ends(messages', {"result"})
      BY <2>3, Saying
    <3>2. ~Answered(messages')
      BY <3>1 DEF Answered, Ends
    <3>3. HoldersOK'
      BY <2>1, <2>3, <3>2, RunWrites
    <3>4. pump'[r] = "running"
      BY <2>3 DEF Goes, Tables
    <3>5. snapshots' = snapshots
      BY <1>3, <2>3 DEF Input
    <3>6. TurnsOK'
      BY <2>1, <3>1, <3>4, <3>5 DEF TurnsOK
    <3> QED
      BY <3>3, <3>6
  <2>4. CASE /\ mode[r] = "resume" /\ messages' = messages /\ interrupt = Nobody
             /\ Goes(r, "over")
    <3>1. HoldersOK'
      BY <2>1, <2>4, RunWrites
    <3>2. snapshots' = snapshots /\ unrepaired' = unrepaired
      BY <1>3, <2>4 DEF Input
    <3>3. UNCHANGED checkpoint
      BY <2>1, <2>4, <3>2 DEF checkpoint
    <3>4. pump[r] = "input" /\ pump' = [pump EXCEPT ![r] = "over"] /\ finisher' = finisher
      BY <1>3, <2>4 DEF Input, Goes
    <3>5. \A s \in Runs : Responsible(s) => Responsible(s)'
      BY <3>4 DEF Responsible, Tables
    <3>6. TurnsOK'
      BY <3>2, <3>3, <3>5, TurnsKept
    <3> QED
      BY <3>1, <3>6
  <2> QED
    BY <1>3, <2>2, <2>3, <2>4, InputSays
<1>4. CASE ModelCalls(r) \/ ModelAnswers(r) \/ ToolReturns(r)
  <2>1. Holds(<<"run", r>>) /\ snapshots' = snapshots
    BY <1>4 DEF ModelCalls, ModelAnswers, ToolReturns, Executing
  <2>2. interrupt = Nobody /\ interrupt' = Nobody /\ messages # <<>>
    BY <1>4, GraphSays
  <2>3. CASE Say(r, "answer") /\ Goes(r, "over") /\ Follows(messages[Len(messages)].kind, "answer")
    <3>1. WellFormed(messages') /\ Ends(messages', {"answer"})
      BY <2>2, <2>3, Saying
    <3>2. Answered(messages')
      BY <3>1 DEF Answered, Ends
    <3>3. HoldersOK'
      BY <2>1, <2>3, <3>2, RunWrites
    <3>4. TurnsOK'
      BY <2>1, <2>2, <3>1, <3>2 DEF TurnsOK
    <3> QED
      BY <3>3, <3>4
  <2>4. ASSUME NEW kind \in {"call", "result"}, Say(r, kind), Goes(r, "running"),
               Follows(messages[Len(messages)].kind, kind)
        PROVE  HoldersOK' /\ TurnsOK'
    <3>1. WellFormed(messages') /\ Ends(messages', {kind})
      BY <2>2, <2>4, Saying
    <3>2. ~Answered(messages')
      BY <3>1 DEF Answered, Ends
    <3>3. HoldersOK'
      BY <2>1, <2>2, <2>4, <3>2, RunWrites
    <3>4. pump'[r] = "running"
      BY <2>4 DEF Goes, Tables
    <3>5. TurnsOK'
      BY <2>1, <2>2, <3>1, <3>4 DEF TurnsOK
    <3> QED
      BY <3>3, <3>5
  <2> QED
    BY <1>4, <2>3, <2>4, GraphSays
<1>5. CASE Asks(r)
  <2>1. /\ Holds(<<"run", r>>) /\ Goes(r, "over") /\ interrupt' = r
        /\ messages' = messages /\ snapshots' = snapshots /\ Unanswered(messages)
    BY <1>5 DEF Asks, Executing
  <2>2. HoldersOK'
    BY <2>1, RunWrites
  <2>3. Ends(messages, {"call"})
    BY <2>1, LastMessage DEF CheckpointTyped, TurnsOK
  <2>4. r # Nobody
    BY DEF AgentRunsAssumption
  <2>5. TurnsOK'
    BY <2>1, <2>3, <2>4 DEF TurnsOK
  <2> QED
    BY <2>2, <2>5
<1> QED
  BY <1>1, <1>2, <1>3, <1>4, <1>5 DEF Writes

\* So they are by a deletion and by an edit.
LEMMA ErasesStep ==
    ASSUME AgentRunsAssumption, CheckpointTyped, MutationsTyped, HoldersOK, TurnsOK,
           DeleteCheckpoint
    PROVE  HoldersOK' /\ TurnsOK'
<1>1. /\ Holds(<<"delete", Nobody>>) /\ pump' = pump /\ mode' = mode /\ lock' = lock
      /\ messages' = <<>> /\ interrupt' = Nobody /\ snapshots' = {}
  BY DEF DeleteCheckpoint, tasks
<1>2. \A s \in Runs :
         pump[s] \notin {"running", "over"} /\ ~(pump[s] = "input" /\ mode[s] = "message")
  BY <1>1, OneHolder, UserNames
<1>3. First(lock, <<"delete", Nobody>>)
  BY <1>1, OneHolder
<1>4. HoldersOK'
  BY <1>1, <1>2, <1>3 DEF HoldersOK
<1>5. WellFormed(<<>>) /\ Answered(<<>>)
  BY EmptySeq DEF WellFormed, Answered
<1> QED
  BY <1>1, <1>4, <1>5 DEF TurnsOK

\* An edit goes back to a thread whose turns are closed.
LEMMA RewindsStep ==
    ASSUME AgentRunsAssumption, CheckpointTyped, HoldersOK, TurnsOK, Rewind
    PROVE  HoldersOK' /\ TurnsOK'
<1>1. /\ Holds(<<"edit", Nobody>>) /\ UNCHANGED tasks /\ deletion' = deletion
      /\ snapshots' = snapshots
  BY DEF Rewind
<1>2. deletion'.step # "erased"
  BY <1>1, OneHolder, UserNames
<1>3. HoldersOK'
  BY <1>1, <1>2, OtherWrites, UserNames DEF tasks
<1>4. CASE UNCHANGED <<messages, interrupt, unrepaired>>
  <2>1. UNCHANGED checkpoint
    BY <1>1, <1>4 DEF checkpoint
  <2>2. \A s \in Runs : Responsible(s) => Responsible(s)'
    BY <1>1 DEF Responsible, tasks
  <2> QED
    BY <1>3, <1>4, <2>1, <2>2, TurnsKept
<1>5. CASE /\ \E s \in snapshots : s.of = edit.of /\ messages' = s.before
           /\ interrupt' = Nobody
  <2>1. WellFormed(messages') /\ Answered(messages')
    BY <1>5 DEF TurnsOK
  <2> QED
    BY <1>1, <1>3, <1>5, <2>1 DEF TurnsOK
<1> QED
  BY <1>4, <1>5 DEF Rewind

\* Every step keeps what holders may count on, and somebody answers for an open turn.
LEMMA TurnsStep ==
    ASSUME AgentRunsAssumption, TypeOK, TasksOK, LockOK', FirstStays, HoldersOK, TurnsOK,
           [Next]_vars
    PROVE  HoldersOK' /\ TurnsOK'
<1>1. CheckpointTyped /\ Tables /\ RowTyped /\ MutationsTyped
  BY Types
<1>2. CASE \E r \in Runs : Writes(r)
  BY <1>1, <1>2, WritesStep
<1>3. CASE DeleteCheckpoint
  BY <1>1, <1>3, ErasesStep
<1>4. CASE Rewind
  BY <1>1, <1>4, RewindsStep
<1>5. CASE UNCHANGED checkpoint /\ (\A r \in Runs : ~Writes(r)) /\ ~DeleteCheckpoint /\ ~Rewind
  BY <1>1, <1>5, IdleSteps, IdleTurns
<1> QED
  BY <1>2, <1>3, <1>4, <1>5, WritingSteps

(***************************************************************************)
(* What was written, by whom, and what was taken away                      *)
(***************************************************************************)

\* The tasks go on, and none of them is young again.
Ages == \A s \in Runs : pump'[s] = "none" => pump[s] = "none"

Connects ==
    \A s \in Runs : stream'[s] = "open" /\ Live(s)' =>
        (stream[s] = "open" /\ Live(s)) \/ pump[s] = "none"

Erases ==
    /\ erased' = erased
    /\ \A s \in erased : pump[s] # "none" /\ (Cancellable(s) => cancelled[s]) =>
          pump'[s] # "none" /\ (Cancellable(s)' => cancelled'[s])
    /\ deletion' = NoDeletion /\ row' = "absent" => deletion = NoDeletion /\ row = "absent"

\* The writers are the same as long as the thread is.
LEMMA UnwrittenKept ==
    ASSUME UNCHANGED checkpoint, BegunOK, InTurnOK, Ages, Connects
    PROVE  BegunOK' /\ InTurnOK'
<1>1. messages' = messages /\ snapshots' = snapshots
  BY DEF checkpoint
<1>2. BegunOK'
  BY <1>1 DEF BegunOK, Ages
<1>3. ASSUME NEW s \in Runs, stream'[s] = "open", Live(s)', Wrote(messages', s)
      PROVE  InLastTurn(s)'
  <2>1. Wrote(messages, s)
    BY <1>1, <1>3
  <2>2. pump[s] # "none"
    BY <2>1 DEF BegunOK
  <2>3. InLastTurn(s)
    BY <1>3, <2>1, <2>2 DEF Connects, InTurnOK
  <2> QED
    BY <1>1, <2>3 DEF InLastTurn
<1> QED
  BY <1>2, <1>3 DEF InTurnOK

\* What was taken away does not come back by itself.
LEMMA ErasedKept ==
    ASSUME UNCHANGED checkpoint, ErasedOK, Erases
    PROVE  ErasedOK'
BY DEF checkpoint, ErasedOK, Erases, Kept

\* The steps that let the thread be keep its writers, and what was taken away.
LEMMA IdleWriters ==
    ASSUME AgentRunsAssumption, Tables, RowTyped, TasksOK, HoldersOK, BegunOK, ErasedOK, InTurnOK,
           UNCHANGED checkpoint, [Next]_vars,
           \A r \in Runs : ~Writes(r), ~DeleteCheckpoint, ~Rewind
    PROVE  BegunOK' /\ ErasedOK' /\ InTurnOK'
<1>0. Nobody \notin Runs
  BY DEF AgentRunsAssumption
<1> DEFINE Goal == Ages /\ Connects /\ Erases
<1>1. ASSUME UNCHANGED vars
      PROVE  Goal
  BY <1>1 DEF vars, tasks, mutations, history, Ages, Connects, Erases, Live, Cancellable
<1>2. ASSUME NEW r \in Runs, StartRun(r)
      PROVE  Goal
  <2>1. Ages /\ Connects
    BY <1>2, Stages DEF Tables, Ages, Connects, Live, StartRun
  <2>2. /\ pump[r] = "none" /\ pump' = [pump EXCEPT ![r] = "created"]
        /\ cancelled' = cancelled \/ cancelled' = [cancelled EXCEPT ![r] = TRUE]
    BY <1>2, Stages DEF StartRun
  <2>3. erased' = erased /\ deletion' = deletion /\ row' = row
    BY <1>2 DEF StartRun, mutations, history
  <2>4. \A s \in Runs : s # r => pump'[s] = pump[s] /\ cancelled'[s] = cancelled[s]
    BY <2>2 DEF Tables
  <2>5. Erases
    BY <2>2, <2>3, <2>4 DEF Erases, Cancellable, RowTyped
  <2> QED
    BY <2>1, <2>5
<1>3. ASSUME NEW r \in Runs, Stillborn(r)
      PROVE  Goal
  <2>1. Ages /\ Connects
    BY <1>3, Stages DEF Tables, Ages, Connects, Live, Stillborn, mutations, history
  <2>2. Erases
    BY <1>3, Stages DEF Tables, RowTyped, Erases, Cancellable, Stillborn, mutations, history
  <2> QED
    BY <2>1, <2>2
<1>4. ASSUME NEW r \in Runs, Begin(r)
      PROVE  Goal
  <2>1. Ages /\ Connects
    BY <1>4, Stages DEF Tables, Ages, Connects, Live, Begin, mutations, history
  <2>2. Erases
    BY <1>4, Stages DEF Tables, RowTyped, Erases, Cancellable, Begin, mutations, history
  <2> QED
    BY <2>1, <2>2
<1>5. ASSUME NEW r \in Runs, Streams(r)
      PROVE  Goal
  <2>1. Ages /\ Connects
    BY <1>5, Stages DEF Tables, Ages, Connects, Live, Streams, Goes, mutations
  <2>2. Erases
    BY <1>5, Stages DEF Tables, RowTyped, Erases, Cancellable, Streams, Goes, mutations
  <2> QED
    BY <2>1, <2>2
<1>6. ASSUME NEW r \in Runs, Complete(r)
      PROVE  Goal
  <2>1. Ages /\ Connects
    BY <1>6, Stages DEF Tables, Ages, Connects, Live, Complete, Finish, mutations, history
  <2>2. Erases
    BY <1>6, Stages DEF Tables, RowTyped, Erases, Cancellable, Complete, Finish, mutations,
       history
  <2> QED
    BY <2>1, <2>2
<1>7. ASSUME NEW r \in Runs, GraphFails(r)
      PROVE  Goal
  <2>1. Ages /\ Connects
    BY <1>7, Stages DEF Tables, Ages, Connects, Live, GraphFails, Finish, mutations, history
  <2>2. Erases
    BY <1>7, Stages DEF Tables, RowTyped, Erases, Cancellable, GraphFails, Finish,
       mutations, history
  <2> QED
    BY <2>1, <2>2
<1>8. ASSUME NEW r \in Runs, Interrupted(r)
      PROVE  Goal
  <2>1. Ages /\ Connects
    BY <1>8, Stages DEF Tables, Ages, Connects, Live, Interrupted, Finish, mutations, history
  <2>2. Erases
    BY <1>8, Stages DEF Tables, RowTyped, Erases, Cancellable, Interrupted, Finish,
       mutations, history
  <2> QED
    BY <2>1, <2>2
<1>9. ASSUME NEW r \in Runs, FinishBegins(r)
      PROVE  Goal
  <2>1. Ages /\ Connects
    BY <1>9, Stages DEF Tables, Ages, Connects, Live, FinishBegins, mutations, history
  <2>2. Erases
    BY <1>9, Stages DEF Tables, RowTyped, Erases, Cancellable, FinishBegins, mutations, history
  <2> QED
    BY <2>1, <2>2
<1>10. ASSUME NEW r \in Runs, Sync(r)
      PROVE  Goal
  <2>1. Ages /\ Connects
    BY <1>10, Stages DEF Tables, Ages, Connects, Live, Sync, Finished
  <2>2. Erases
    BY <1>10, Stages DEF Tables, RowTyped, Erases, Cancellable, Sync, Finished
  <2> QED
    BY <2>1, <2>2
<1>11. ASSUME NEW r \in Runs, FinishFails(r)
      PROVE  Goal
  <2>1. Ages /\ Connects
    BY <1>11, Stages DEF Tables, Ages, Connects, Live, FinishFails, Finished
  <2>2. Erases
    BY <1>11, Stages DEF Tables, RowTyped, Erases, Cancellable, FinishFails, Finished
  <2> QED
    BY <2>1, <2>2
<1>12. ASSUME NEW r \in Runs, StreamEnds(r)
      PROVE  Goal
  <2>1. Ages /\ Connects
    BY <1>12, Stages DEF Tables, Ages, Connects, Live, StreamEnds, Closes, mutations, history
  <2>2. Erases
    BY <1>12, Stages DEF Tables, RowTyped, Erases, Cancellable, StreamEnds, Closes,
       mutations, history
  <2> QED
    BY <2>1, <2>2
<1>13. ASSUME NEW r \in Runs, Disconnect(r)
      PROVE  Goal
  <2>1. Ages /\ Connects
    BY <1>13, Stages DEF Tables, Ages, Connects, Live, Disconnect, Closes, Cancel,
       mutations, history
  <2>2. Erases
    BY <1>13, Stages DEF Tables, RowTyped, Erases, Cancellable, Disconnect, Closes, Cancel,
       mutations, history
  <2> QED
    BY <2>1, <2>2
<1>14. ASSUME NEW r \in Runs, StreamCloses(r)
      PROVE  Goal
  <2>1. Ages /\ Connects
    BY <1>14, Stages DEF Tables, Ages, Connects, Live, StreamCloses, Closes, mutations, history
  <2>2. Erases
    BY <1>14, Stages DEF Tables, RowTyped, Erases, Cancellable, StreamCloses, Closes,
       mutations, history
  <2> QED
    BY <2>1, <2>2
<1>15. ASSUME NEW r \in Runs, EditBegins(r)
      PROVE  Goal
  <2>1. Ages /\ Connects
    BY <1>15, Stages DEF Tables, Ages, Connects, Live, EditBegins, tasks, history
  <2>2. Erases
    BY <1>15, Stages DEF Tables, RowTyped, Erases, Cancellable, EditBegins, tasks, history
  <2> QED
    BY <2>1, <2>2
<1>16. ASSUME CancelRun
      PROVE  Goal
  <2>1. Ages /\ Connects
    BY <1>16, Stages DEF Tables, Ages, Connects, Live, CancelRun, Cancel, mutations, history
  <2>2. Erases
    BY <1>16, Stages DEF Tables, RowTyped, Erases, Cancellable, CancelRun, Cancel,
       mutations, history
  <2> QED
    BY <2>1, <2>2
<1>17. ASSUME DeleteWaited
      PROVE  Goal
  <2>1. Ages /\ Connects
    BY <1>17, Stages DEF Tables, Ages, Connects, Live, DeleteWaited, NoDeletion, tasks, history
  <2>2. Erases
    BY <1>17, Stages DEF Tables, RowTyped, Erases, Cancellable, DeleteWaited, NoDeletion,
       tasks, history
  <2> QED
    BY <2>1, <2>2
<1>18. ASSUME Rename
      PROVE  Goal
  <2>1. Ages /\ Connects
    BY <1>18, Stages DEF Tables, Ages, Connects, Live, Rename, tasks, history
  <2>2. Erases
    BY <1>18, Stages DEF Tables, RowTyped, Erases, Cancellable, Rename, tasks, history
  <2> QED
    BY <2>1, <2>2
<1>19. ASSUME DeleteBegins
       PROVE  Ages /\ Connects /\ ErasedOK'
  <2>1. /\ pump' = pump /\ stream' = stream /\ erased' = {r \in Runs : pump[r] # "none"}
        /\ deletion' # NoDeletion
    BY <1>19 DEF DeleteBegins, NoDeletion
  <2>2. Ages /\ Connects
    BY <2>1 DEF Ages, Connects, Live
  <2>3. CASE Live(registered)
    <3>1. cancelled' = [cancelled EXCEPT ![registered] = @ \/ Cancellable(registered)]
      BY <1>19, <2>3 DEF DeleteBegins, Cancel
    <3>2. \A s \in Runs : Cancellable(s) => cancelled'[s]
      BY <3>1 DEF TasksOK, Tables
    <3> QED
      BY <2>1, <2>2, <3>2 DEF ErasedOK, Cancellable
  <2>4. CASE ~Live(registered)
    <3>1. cancelled' = cancelled
      BY <1>19, <2>4 DEF DeleteBegins
    <3>2. \A s \in Runs : Cancellable(s) => cancelled[s]
      BY <1>0, <2>4 DEF TasksOK, Live, Cancellable
    <3> QED
      BY <2>1, <2>2, <3>1, <3>2 DEF ErasedOK, Cancellable
  <2> QED
    BY <2>3, <2>4
<1>20. ASSUME DeleteRow
       PROVE  Ages /\ Connects /\ ErasedOK'
  <2>1. UNCHANGED tasks /\ erased' = erased /\ deletion.step = "erased"
    BY <1>20 DEF DeleteRow, history
  <2>2. Ages /\ Connects
    BY <2>1 DEF tasks, Ages, Connects, Live
  <2>3. messages' = <<>> /\ snapshots' = {}
    BY <2>1 DEF HoldersOK, checkpoint
  <2>4. Kept(messages)'
    BY <2>3, EmptySeq DEF Kept
  <2> QED
    BY <2>1, <2>2, <2>3, <2>4 DEF ErasedOK, tasks, Cancellable
<1>21. ASSUME ProcessStops
       PROVE  Ages /\ Connects /\ ErasedOK'
  <2>1. Ages /\ Connects
    BY <1>21 DEF ProcessStops, Ages, Connects, Live
  <2>2. \A s \in Runs : ~Cancellable(s)' /\ (pump'[s] = "none" => pump[s] = "none")
    BY <1>21 DEF ProcessStops, Cancellable
  <2>3. CASE deletion = NoDeletion
    <3>1. erased' = erased /\ deletion' = deletion /\ row' = row
      BY <1>21, <2>3 DEF ProcessStops
    <3>2. Erases
      BY <2>2, <3>1 DEF Erases, RowTyped
    <3> QED
      BY <2>1, <3>2, ErasedKept
  <2>4. CASE deletion # NoDeletion
    <3>1. erased' = {}
      BY <1>21, <2>4 DEF ProcessStops
    <3> QED
      BY <2>1, <3>1 DEF ErasedOK, Kept
  <2> QED
    BY <2>3, <2>4
<1>22. Goal \/ (Ages /\ Connects /\ ErasedOK')
  BY <1>1, <1>2, <1>3, <1>4, <1>5, <1>6, <1>7, <1>8, <1>9, <1>10, <1>11, <1>12, <1>13,
     <1>14, <1>15, <1>16, <1>17, <1>18, <1>19, <1>20, <1>21
     DEF Next, Task, Pump, Finisher, Stream, Mutations, Writes
<1> QED
  BY <1>22, UnwrittenKept, ErasedKept

\* What is new in a last turn to which no user wrote.
LEMMA NewInTurn ==
    ASSUME NEW ms \in Seq(Message), NEW c, Extends(ms, c),
           \A i \in (Len(ms) + 1)..Len(c) : c[i].kind # "human",
           NEW i \in (Len(ms) + 1)..Len(c)
    PROVE  i \in LastTurn(c)
<1>1. /\ Len(ms) \in Nat /\ Len(c) \in Nat /\ DOMAIN c = 1..Len(c)
  BY LenProperties DEF Extends
<1>2. ASSUME NEW h \in 1..Len(c), c[h].kind = "human"
      PROVE  h <= i
  <2>1. h \notin (Len(ms) + 1)..Len(c)
    BY <1>2
  <2> QED
    BY <1>1, <2>1
<1> QED
  BY <1>1, <1>2 DEF LastTurn

\* Run r has added to the thread: results and a closing as a finisher or a healing, or
\* one message that nobody has cancelled.
Added(r) ==
    /\ Extends(messages, messages')
    /\ \/ \A i \in (Len(messages) + 1)..Len(messages') :
             /\ messages'[i].kind # "human"
             /\ \/ messages'[i].by = Nobody
                \/ messages'[i].kind = "closing" /\ messages'[i].by = r
       \/ /\ Len(messages') = Len(messages) + 1 /\ messages' # <<>>
          /\ messages'[Len(messages')].by = r /\ registered = r
          /\ Cancellable(r) /\ ~cancelled[r]
       \/ messages' = messages
    /\ snapshots' \subseteq snapshots \cup {[of |-> r, before |-> messages]}

\* And nothing else was seen of it.
Unseen(r) ==
    /\ pump[r] # "none"
    /\ \A s \in Runs : /\ pump'[s] = "none" => pump[s] = "none"
                       /\ Live(s)' => Live(s)
                       /\ Cancellable(s)' => Cancellable(s)
    /\ cancelled' = cancelled /\ stream' = stream /\ erased' = erased
    /\ deletion' = deletion /\ row' = row

\* Every write of a run or its finisher is of that kind.
LEMMA WritesAdd ==
    ASSUME AgentRunsAssumption, CheckpointTyped, Tables, TasksOK, HoldersOK, TurnsOK,
           NEW r \in Runs, Writes(r)
    PROVE  Added(r) /\ Unseen(r)
<1>0. messages \in Seq(Message) /\ WellFormed(messages) /\ Len(messages) \in Nat
  BY LenProperties DEF CheckpointTyped, TurnsOK
<1>1. Extends(messages, messages)
  BY <1>0 DEF Extends
<1>2. ASSUME NEW by \in Runs \cup {Nobody}, CloseTurn(by), by \in {r, Nobody}
      PROVE  Added(r)
  <2>1. snapshots' = snapshots /\ messages' = Closing(messages, by)
    BY <1>2 DEF CloseTurn
  <2>2. /\ Extends(messages, messages')
        /\ \A i \in (Len(messages) + 1)..Len(messages') :
              /\ messages'[i].kind # "human"
              /\ \/ messages'[i].by = Nobody
                 \/ messages'[i].kind = "closing" /\ messages'[i].by = by
    BY <1>0, <2>1, Repairs
  <2> QED
    BY <1>2, <2>1, <2>2 DEF Added
<1>3. ASSUME NEW kind \in {"human", "call", "result", "answer"}, Say(r, kind),
             messages = <<>> => kind = "human",
             messages # <<>> => Follows(messages[Len(messages)].kind, kind),
             Executing(r), Cancellable(r),
             snapshots' \subseteq snapshots \cup {[of |-> r, before |-> messages]}
      PROVE  Added(r)
  <2>1. /\ Extends(messages, messages') /\ Ends(messages', {kind})
        /\ \A i \in (Len(messages) + 1)..Len(messages') : messages'[i] = [kind |-> kind, by |-> r]
        /\ Len(messages') = Len(messages) + 1
    BY <1>3, Saying
  <2>2. Len(messages') \in (Len(messages) + 1)..Len(messages')
    BY <1>0, <2>1
  <2>3. messages'[Len(messages')].by = r
    BY <2>1, <2>2
  <2>4. registered = r /\ ~cancelled[r]
    BY <1>3 DEF TasksOK, Executing
  <2>5. messages' # <<>>
    BY <2>1 DEF Ends
  <2> QED
    BY <1>3, <2>1, <2>3, <2>4, <2>5 DEF Added
<1>4. ASSUME NEW to \in {"input", "running", "over"}, Goes(r, to), Cancellable(r), row' = row,
             erased' = erased
      PROVE  Unseen(r)
  <2>1. /\ pump' = [pump EXCEPT ![r] = to] /\ cancelled' = cancelled /\ stream' = stream
        /\ deletion' = deletion
    BY <1>4 DEF Goes, mutations
  <2>2. pump'[r] = to /\ \A s \in Runs : s # r => pump'[s] = pump[s]
    BY <2>1 DEF Tables
  <2>3. pump[r] \in {"created", "healing", "input", "running", "over"} /\ r # Nobody
    BY <1>4 DEF Cancellable, AgentRunsAssumption
  <2> QED
    BY <1>4, <2>1, <2>2, <2>3 DEF Unseen, Live, Cancellable
<1>5. CASE Heal(r)
  <2>1. Added(r)
    BY <1>2, <1>5 DEF Heal
  <2>2. Unseen(r)
    BY <1>4, <1>5 DEF Heal, Goes, Cancellable
  <2> QED
    BY <2>1, <2>2
<1>6. CASE Repair(r)
  <2>1. Added(r)
    BY <1>2, <1>6 DEF Repair
  <2>2. pump[r] = "finishing"
    BY <1>6, Stages DEF Repair, Repairing
  <2>3. /\ pump' = pump /\ cancelled' = cancelled /\ stream' = stream /\ erased' = erased
        /\ deletion' = deletion /\ row' = row
    BY <1>6 DEF Repair, mutations
  <2>4. Unseen(r)
    BY <2>2, <2>3 DEF Unseen, Live, Cancellable
  <2> QED
    BY <2>1, <2>4
<1>7. CASE Input(r)
  <2>1. /\ Executing(r) /\ Cancellable(r)
        /\ snapshots' \subseteq snapshots \cup {[of |-> r, before |-> messages]}
        /\ Goes(r, "running") \/ Goes(r, "over")
    BY <1>7 DEF Input, Cancellable
  <2>2. Unseen(r)
    BY <1>4, <2>1 DEF Goes
  <2>3. CASE /\ Say(r, "human")
             /\ messages # <<>> => Follows(messages[Len(messages)].kind, "human")
    BY <1>3, <2>1, <2>2, <2>3
  <2>4. CASE /\ Say(r, "result") /\ messages # <<>>
             /\ Follows(messages[Len(messages)].kind, "result")
    BY <1>3, <2>1, <2>2, <2>4
  <2>5. CASE messages' = messages
    BY <1>1, <2>1, <2>2, <2>5 DEF Added
  <2> QED
    BY <1>7, <2>3, <2>4, <2>5, InputSays
<1>8. CASE ModelCalls(r) \/ ModelAnswers(r) \/ ToolReturns(r)
  <2>1. Executing(r) /\ Cancellable(r) /\ snapshots' = snapshots
    BY <1>8 DEF ModelCalls, ModelAnswers, ToolReturns, Cancellable
  <2>2. Goes(r, "running") \/ Goes(r, "over")
    BY <1>8 DEF ModelCalls, ModelAnswers, ToolReturns
  <2>3. Unseen(r)
    BY <1>4, <2>1, <2>2 DEF Goes
  <2>4. /\ messages # <<>>
        /\ \E kind \in {"call", "answer", "result"} :
              Say(r, kind) /\ Follows(messages[Len(messages)].kind, kind)
    BY <1>8, GraphSays
  <2> QED
    BY <1>3, <2>1, <2>3, <2>4
<1>9. CASE Asks(r)
  <2>1. messages' = messages /\ snapshots' = snapshots /\ Goes(r, "over") /\ Cancellable(r)
    BY <1>9 DEF Asks, Cancellable
  <2>2. Unseen(r)
    BY <1>4, <2>1 DEF Goes
  <2> QED
    BY <1>1, <2>1, <2>2 DEF Added
<1> QED
  BY <1>5, <1>6, <1>7, <1>8, <1>9 DEF Writes

\* Such a write is of a run that has begun and was not taken away, or of a closing.
LEMMA AddedKept ==
    ASSUME AgentRunsAssumption, CheckpointTyped, CheckpointTyped', RowTyped, TasksOK,
           BegunOK, ErasedOK, InTurnOK, NEW r \in Runs, Added(r), Unseen(r)
    PROVE  BegunOK' /\ ErasedOK' /\ InTurnOK'
<1> DEFINE n == Len(messages)
           c == messages'
<1>1. /\ n \in Nat /\ Len(c) \in Nat /\ n <= Len(c)
      /\ \A i \in 1..n : c[i] = messages[i]
      /\ messages \in Seq(Message) /\ c \in Seq(Message) /\ Extends(messages, c)
  BY LenProperties DEF CheckpointTyped, Added, Extends
<1>2. \A i \in 1..Len(c) : i \in 1..n \/ i \in (n + 1)..Len(c)
  BY <1>1
<1>3. Nobody \notin Runs /\ Nobody \notin erased
  BY DEF AgentRunsAssumption, RowTyped
<1>4. ASSUME NEW i \in (n + 1)..Len(c)
      PROVE  /\ c[i].by \in {Nobody, r}
             /\ \/ c[i].kind = "closing" \/ c[i].by = Nobody
                \/ Cancellable(r) /\ ~cancelled[r]
  <2>1. CASE \A j \in (n + 1)..Len(c) :
                /\ c[j].kind # "human"
                /\ \/ c[j].by = Nobody
                   \/ c[j].kind = "closing" /\ c[j].by = r
    BY <1>4, <2>1
  <2>2. CASE /\ Len(c) = n + 1 /\ c[Len(c)].by = r
             /\ Cancellable(r) /\ ~cancelled[r]
    <3>1. i = Len(c)
      BY <1>1, <1>4, <2>2
    <3> QED
      BY <2>2, <3>1
  <2>3. CASE c = messages
    BY <1>1, <1>4, <2>3
  <2> QED
    BY <2>1, <2>2, <2>3 DEF Added
<1> HIDE DEF n, c
<1>5. BegunOK'
  <2>1. ASSUME NEW s \in Runs, pump'[s] = "none"
        PROVE  ~Wrote(c, s) /\ \A t \in snapshots' : ~Wrote(t.before, s)
    <3>1. s # r /\ pump[s] = "none"
      BY <2>1 DEF Unseen
    <3>2. ~Wrote(messages, s) /\ \A t \in snapshots : ~Wrote(t.before, s)
      BY <3>1 DEF BegunOK
    <3>3. \A i \in 1..n : c[i].by # s
      BY <1>1, <3>2 DEF Wrote, n
    <3>4. ~Wrote(c, s)
      BY <1>2, <1>3, <1>4, <3>1, <3>3 DEF Wrote
    <3> QED
      BY <3>2, <3>4 DEF Added
  <2> QED
    BY <2>1 DEF BegunOK, c
<1>6. ErasedOK'
  <2>1. erased' = erased /\ deletion' = deletion /\ row' = row /\ erased \subseteq Runs
    BY DEF Unseen, RowTyped
  <2>2. \A s \in erased : pump'[s] # "none" /\ (Cancellable(s)' => cancelled'[s])
    BY <2>1 DEF Unseen, ErasedOK
  <2>3. ASSUME deletion = NoDeletion, row = "absent"
        PROVE  Kept(messages)' /\ \A t \in snapshots' : Kept(t.before)'
    <3>1. Kept(messages) /\ \A t \in snapshots : Kept(t.before)
      BY <2>3 DEF ErasedOK
    <3>2. \A t \in snapshots' : t \in snapshots \/ t.before = messages
      BY DEF Added
    <3>3. \A t \in snapshots' : Kept(t.before)
      BY <3>1, <3>2
    <3>4. Cancellable(r) /\ ~cancelled[r] => r \notin erased
      BY DEF ErasedOK
    <3>5. \A i \in 1..n : c[i].kind = "closing" \/ c[i].by \notin erased
      BY <1>1, <3>1 DEF Kept, n
    <3>6. \A i \in 1..Len(c) : c[i].kind = "closing" \/ c[i].by \notin erased
      BY <1>2, <1>3, <1>4, <3>4, <3>5
    <3> QED
      BY <2>1, <3>3, <3>6 DEF Kept, c
  <2> QED
    BY <2>1, <2>2, <2>3 DEF ErasedOK
<1>7. ASSUME NEW s \in Runs, stream'[s] = "open", Live(s)', Wrote(c, s)
      PROVE  \E i \in LastTurn(c) : c[i].by = s
  <2>1. stream[s] = "open" /\ Live(s)
    BY <1>7 DEF Unseen
  <2>2. Wrote(messages, s) => \E i \in LastTurn(messages) : messages[i].by = s
    BY <2>1 DEF InTurnOK, InLastTurn
  <2>3. LastTurn(messages) \subseteq 1..n
    BY <1>1, LenProperties DEF LastTurn, n
  <2>4. CASE \A j \in (n + 1)..Len(c) : c[j].kind # "human"
    <3>1. CASE Wrote(messages, s)
      <4>1. PICK i \in LastTurn(messages) : messages[i].by = s
        BY <2>2, <3>1
      <4>2. i \in LastTurn(c)
        BY <1>1, <2>4, <4>1, LastTurnGrows DEF n
      <4>3. c[i].by = s
        BY <1>1, <2>3, <4>1
      <4> QED
        BY <4>2, <4>3
    <3>2. CASE ~Wrote(messages, s)
      <4>1. PICK i \in 1..Len(c) : c[i].by = s
        BY <1>7 DEF Wrote
      <4>2. i \in (n + 1)..Len(c)
        BY <1>1, <1>2, <3>2, <4>1 DEF Wrote, n
      <4>3. i \in LastTurn(c)
        BY <1>1, <2>4, <4>2, NewInTurn DEF n
      <4> QED
        BY <4>1, <4>3
    <3> QED
      BY <3>1, <3>2
  <2>5. CASE c # <<>> /\ c[Len(c)].by = r /\ registered = r
    <3>1. registered = s
      BY <2>1 DEF TasksOK
    <3>2. Len(c) \in LastTurn(c)
      BY <1>1, <2>5, LastIsLast
    <3> QED
      BY <2>5, <3>1, <3>2
  <2>6. CASE c = messages
    BY <1>7, <2>2, <2>6
  <2> QED
    BY <2>4, <2>5, <2>6 DEF Added, n, c
<1>8. InTurnOK'
  BY <1>7 DEF InTurnOK, InLastTurn, c
<1> QED
  BY <1>5, <1>6, <1>8

\* A deletion leaves nothing, and an edit what there was before.
LEMMA ErasesWriters ==
    ASSUME CheckpointTyped, ErasedOK, DeleteCheckpoint
    PROVE  BegunOK' /\ ErasedOK' /\ InTurnOK'
<1>1. /\ messages' = <<>> /\ snapshots' = {} /\ UNCHANGED tasks /\ erased' = erased
      /\ deletion' = [deletion EXCEPT !.step = "erased"]
  BY DEF DeleteCheckpoint
<1>2. \A s : ~Wrote(<<>>, s)
  BY EmptySeq DEF Wrote
<1>3. Kept(messages)'
  BY <1>1, EmptySeq DEF Kept
<1>4. BegunOK' /\ InTurnOK'
  BY <1>1, <1>2 DEF BegunOK, InTurnOK
<1>5. ErasedOK'
  BY <1>1, <1>3 DEF ErasedOK, tasks, Cancellable
<1> QED
  BY <1>4, <1>5

\* An edit brings back nothing that was taken away, and no run is in progress.
LEMMA RewindsWriters ==
    ASSUME AgentRunsAssumption, TasksOK, BegunOK, ErasedOK, InTurnOK, Rewind
    PROVE  BegunOK' /\ ErasedOK' /\ InTurnOK'
<1>1. /\ UNCHANGED tasks /\ erased' = erased /\ deletion' = deletion /\ row' = row
      /\ snapshots' = snapshots
  BY DEF Rewind
<1>2. Ages /\ Connects /\ Erases
  BY <1>1 DEF tasks, Ages, Connects, Erases, Live, Cancellable
<1>3. CASE UNCHANGED <<messages, interrupt, unrepaired>>
  <2>1. UNCHANGED checkpoint
    BY <1>1, <1>3 DEF checkpoint
  <2> QED
    BY <1>2, <2>1, UnwrittenKept, ErasedKept
<1>4. CASE ~Live(registered) /\ \E s \in snapshots : s.of = edit.of /\ messages' = s.before
  <2>1. PICK t \in snapshots : messages' = t.before
    BY <1>4
  <2>2. BegunOK'
    BY <1>1, <2>1 DEF BegunOK, tasks
  <2>3. ErasedOK'
    BY <1>1, <2>1 DEF ErasedOK, tasks, Cancellable, Kept
  <2>4. \A s \in Runs : ~(stream[s] = "open" /\ Live(s))
    BY <1>4 DEF TasksOK
  <2>5. InTurnOK'
    BY <1>1, <2>4 DEF InTurnOK, tasks, Live
  <2> QED
    BY <2>2, <2>3, <2>5
<1> QED
  BY <1>3, <1>4 DEF Rewind

\* Every step keeps what was written, by whom, and what was taken away.
LEMMA WritersStep ==
    ASSUME AgentRunsAssumption, TypeOK, TasksOK, HoldersOK, TurnsOK, BegunOK, ErasedOK, InTurnOK,
           [Next]_vars
    PROVE  BegunOK' /\ ErasedOK' /\ InTurnOK'
<1>1. CheckpointTyped /\ Tables /\ RowTyped /\ MutationsTyped
  BY Types
<1>2. CheckpointTyped'
  BY <1>1, CheckpointStep
<1>3. ASSUME NEW r \in Runs, Writes(r)
      PROVE  BegunOK' /\ ErasedOK' /\ InTurnOK'
  BY <1>1, <1>2, <1>3, WritesAdd, AddedKept
<1>4. CASE DeleteCheckpoint
  BY <1>1, <1>4, ErasesWriters
<1>5. CASE Rewind
  BY <1>5, RewindsWriters
<1>6. CASE UNCHANGED checkpoint /\ (\A r \in Runs : ~Writes(r)) /\ ~DeleteCheckpoint /\ ~Rewind
  BY <1>1, <1>6, IdleWriters
<1> QED
  BY <1>3, <1>4, <1>5, <1>6, WritingSteps

(***************************************************************************)
(* Theorems                                                                *)
(***************************************************************************)
LEMMA Initially ==
    ASSUME AgentRunsAssumption, Init
    PROVE  IInv
<1>1. <<>> \in Seq(Message) /\ <<>> \in Seq(Users) /\ IsInjective(<<>>) /\ \A u : ~In(<<>>, u)
  BY EmptySeq DEF IsInjective, In
<1>2. 0 \in 0..MaxChanges
  BY DEF AgentRunsAssumption
<1>3. TypeOK
  BY <1>1, <1>2 DEF Init, TypeOK, NoDeletion, NoEdit
<1>4. LockOK
  BY <1>1 DEF Init, LockOK, Runner, Closer, Deleter, Editor, NoDeletion, NoEdit
<1>5. TasksOK /\ HoldersOK
  BY DEF Init, TasksOK, HoldersOK, Live, Cancellable, NoDeletion
<1>6. WellFormed(<<>>) /\ Answered(<<>>) /\ \A r : ~Wrote(<<>>, r)
  BY EmptySeq DEF WellFormed, Answered, Wrote
<1>7. TurnsOK
  BY <1>6 DEF Init, TurnsOK
<1>8. BegunOK /\ ErasedOK /\ InTurnOK
  BY <1>6 DEF Init, BegunOK, ErasedOK, InTurnOK
<1> QED
  BY <1>3, <1>4, <1>5, <1>7, <1>8 DEF IInv

\* The invariant is inductive.
THEOREM InductiveInvariant == Spec => []IInv
<1>1. Init => IInv
  BY Initially, AgentRunsAssumption
<1>2. IInv /\ [Next]_vars => IInv'
  <2> SUFFICES ASSUME IInv, [Next]_vars
               PROVE  IInv'
    OBVIOUS
  <2>1. /\ TypeOK /\ LockOK /\ TasksOK /\ HoldersOK /\ TurnsOK
        /\ BegunOK /\ ErasedOK /\ InTurnOK
    BY DEF IInv
  <2>2. Queue' /\ FirstStays
    BY <2>1, AgentRunsAssumption, QueueStep
  <2>3. TypeOK'
    BY <2>1, <2>2, AgentRunsAssumption, TypeStep
  <2>4. LockOK'
    BY <2>2 DEF Queue
  <2>5. TasksOK'
    BY <2>1, AgentRunsAssumption, Types, TasksStep
  <2>6. HoldersOK' /\ TurnsOK'
    BY <2>1, <2>2, <2>4, AgentRunsAssumption, TurnsStep
  <2>7. BegunOK' /\ ErasedOK' /\ InTurnOK'
    BY <2>1, AgentRunsAssumption, WritersStep
  <2> QED
    BY <2>3, <2>4, <2>5, <2>6, <2>7 DEF IInv
<1> QED
  BY <1>1, <1>2, PTL DEF Spec

\* Turns are closed once, left open only to ask, and gone when they are deleted, and a
\* cancellation reaches the run of the connected client: for any number of runs, calls and
\* changes.
THEOREM RunsConsistentHolds == Spec => []RunsConsistent
<1>1. ASSUME IInv
      PROVE  RunsConsistent
  <2>1. TypeOK /\ TasksOK /\ TurnsOK /\ ErasedOK
    BY <1>1 DEF IInv
  <2>2. CheckpointTyped /\ Nobody \notin Runs
    BY <2>1, Types, AgentRunsAssumption DEF AgentRunsAssumption
  <2>3. CancelReaches
    BY <2>1 DEF TasksOK, CancelReaches
  <2>4. /\ messages \in Seq(Message) /\ WellFormed(messages) /\ DOMAIN messages = 1..Len(messages)
        /\ Len(messages) \in Nat
    BY <2>1, <2>2, LenProperties DEF CheckpointTyped, TurnsOK
  <2>5. ClosedOnce
    <3> SUFFICES ASSUME NEW i \in 1..Len(messages)
                 PROVE  /\ messages[i].kind \in {"answer", "closing"} =>
                              i = Len(messages) \/ messages[i + 1].kind = "human"
                        /\ messages[i].kind = "call" =>
                              i = Len(messages) \/ messages[i + 1].kind = "result"
                        /\ messages[i].kind = "result" => i > 1 /\ messages[i - 1].kind = "call"
      BY <2>4 DEF ClosedOnce
    <3>0. Len(messages) \in Nat
      BY <2>4
    <3>1. i = Len(messages) \/ i \in 1..(Len(messages) - 1)
      BY <3>0
    <3>2. i \in 1..(Len(messages) - 1) => Follows(messages[i].kind, messages[i + 1].kind)
      BY <2>4 DEF WellFormed
    <3>3. i = 1 => messages[i].kind = "human"
      <4>1. messages # <<>>
        BY EmptySeq
      <4> QED
        BY <2>4, <4>1 DEF WellFormed
    <3>4. i # 1 => i > 1 /\ i - 1 \in 1..(Len(messages) - 1) /\ i - 1 + 1 = i
      BY <2>4
    <3>5. i # 1 => Follows(messages[i - 1].kind, messages[i].kind)
      BY <2>4, <3>4 DEF WellFormed
    <3> QED
      BY <3>1, <3>2, <3>3, <3>4, <3>5 DEF Follows
  <2>6. TurnsEnd
    <3> SUFFICES ASSUME \A r \in Runs : ~Live(r), ~unrepaired, interrupt = Nobody
                 PROVE  Closed(messages)
      BY DEF TurnsEnd
    <3>1. \A r \in Runs : pump[r] # "running" /\ finisher[r] \notin {"interrupted", "repairing"}
      BY <2>1, <2>2, Stages DEF Live
    <3>2. Answered(messages)
      BY <2>1, <3>1 DEF TurnsOK
    <3> QED
      BY <2>4, <3>2, LastMessage
  <2>7. DeletedIsGone
    BY <2>1, <2>4 DEF ErasedOK, Kept, DeletedIsGone
  <2> QED
    BY <2>1, <2>3, <2>5, <2>6, <2>7 DEF RunsConsistent
<1> QED
  BY <1>1, InductiveInvariant, PTL

\* No finisher closes the turn of a later run, while the client of its own is connected.
THEOREM NoLateRepairHolds == Spec => []NoLateRepair
<1>1. ASSUME IInv
      PROVE  NoLateRepair
  <2>1. TypeOK /\ TasksOK /\ InTurnOK
    BY <1>1 DEF IInv
  <2>2. CheckpointTyped /\ Nobody \notin Runs
    BY <2>1, Types, AgentRunsAssumption DEF AgentRunsAssumption
  <2>3. DOMAIN messages = 1..Len(messages)
    BY <2>2, LenProperties DEF CheckpointTyped
  <2> SUFFICES ASSUME NEW r \in Runs, Repairing(r), stream[r] = "open", Took(r)
               PROVE  InLastTurn(r)
    BY DEF NoLateRepair
  <2>4. pump[r] = "finishing"
    BY <2>1, Stages DEF Repairing
  <2>5. Live(r) /\ Wrote(messages, r)
    BY <2>2, <2>3, <2>4 DEF Live, Took, Wrote
  <2> QED
    BY <2>1, <2>5 DEF InTurnOK
<1> QED
  BY <1>1, InductiveInvariant, PTL
=============================================================================
