--------------------------- MODULE EventJobsProofs ---------------------------
(***************************************************************************)
(* Theorems about EventJobs, for any jobs, requests and changes.  The      *)
(* invariant says what a request on a job that nothing disturbed has read  *)
(* and what it will do about each subscription it knows of, and that two   *)
(* jobs that do not share a subscription know of different ones.           *)
(***************************************************************************)
EXTENDS EventJobs, SequenceTheorems, TLAPS

(***************************************************************************)
(* The inductive invariant                                                 *)
(***************************************************************************)
Rows == [is: BOOLEAN, enabled: BOOLEAN, key: Keys \cup {Same}, sub: 0..Len(subs)]

Stages == {"idle", "insert", "undo", "write", "prepare", "replace",
           "settle", "resolve", "set", "release", "erase"}

RequestType == [at: Stages, job: Jobs \cup {Same}, change: Changes \cup {Same},
                key: Keys \cup {Same}, prev: Rows, upd: Rows, id: 0..Len(subs)]

WorkerType == [at: {"down", "sync", "subscribe", "store", "up"},
               left: SUBSET [job: Jobs, key: Keys, sub: 0..Len(subs)],
               job: Jobs \cup {Same}, id: 0..Len(subs), entry: 0..Len(stream)]

Entry == [id: 1..Len(subs), fired: SUBSET Jobs, owed: SUBSET Jobs]

TypesOK ==
    /\ subs \in Seq(Subscription)
    /\ jobs \in [Jobs -> Rows]
    /\ requests \in [Requests -> RequestType]
    /\ worker \in WorkerType
    /\ stream \in Seq(Entry)
    /\ faults \in Nat
    /\ disturbed \subseteq Jobs /\ shared \subseteq Jobs

\* What holds of rows and requests whatever happened to them.
FormOK ==
    /\ \A j \in Jobs: IF jobs[j].is THEN jobs[j].key \in Keys ELSE jobs[j] = NoRow
    /\ \A q \in Requests:
          /\ ~At(q, "idle") => requests[q].job \in Jobs
          /\ requests[q].at \in {"insert", "undo"} => requests[q].id # 0
          /\ requests[q].at \in {"write", "prepare"} => requests[q].id = 0
          /\ requests[q].at \in {"insert", "write", "prepare", "replace"} =>
                requests[q].key \in Keys
          /\ At(q, "write") => /\ requests[q].change \in Changes
                               /\ requests[q].change.enabled \in BOOLEAN
          /\ requests[q].at \in {"settle", "resolve"} =>
                requests[q].upd.is /\ requests[q].upd.key \in Keys
    /\ worker.at \in {"down", "up"} => worker.left = {}
    /\ worker.at = "sync" => worker.left # {}
    /\ worker.at \in {"subscribe", "store"} =>
          \E r \in worker.left: r.job = worker.job
    /\ worker.id # 0 <=> worker.at = "store"
    /\ worker.entry # 0 => worker.at = "up"
    /\ \A r, s \in worker.left: r.job = s.job => r = s

\* A subscription nobody can have any more: a record does not come back.
Gone(id) == id = 0 \/ subs[id].record = "none"

Has(key, id) == id # 0 => subs[id].key = key

Right(row) == row.enabled <=> row.sub # 0

\* What a request has read is still so, and it has done what it says.
StageOK(q) ==
    LET r == requests[q]
        row == jobs[r.job] IN
    /\ r.at = "insert" => ~row.is /\ Has(r.key, r.id)
    /\ r.at = "undo" => ~row.is
    /\ r.at \in {"write", "prepare", "replace", "settle", "release"} => row.is
    /\ r.at = "write" => r.upd = row /\ r.prev = row /\ Right(row)
    /\ r.at \in {"prepare", "replace"} => r.upd = row /\ r.prev.sub = row.sub
    /\ r.at = "replace" => Has(r.key, r.id) /\ (row.enabled <=> r.id # 0)
    /\ r.at = "settle" => r.upd = row /\ (r.prev.sub = row.sub \/ Right(row))
    /\ r.at = "resolve" => row.is /\ r.upd = row /\ Right(row)
    /\ r.at = "set" => /\ row.is /\ row.key = r.key /\ Has(r.key, r.id)
                       /\ row.enabled <=> r.id # 0
                       /\ Gone(row.sub)
                       /\ r.id # 0 => row.sub = 0
    /\ r.at = "release" => r.prev = row /\ Right(row)
    /\ r.at = "erase" => Gone(row.sub)

\* Nothing overlaps on a job that nothing disturbed.
RequestsOK ==
    \A q \in Requests:
       ~At(q, "idle") /\ requests[q].job \notin disturbed =>
          /\ \A p \in Requests:
                ~At(p, "idle") /\ requests[p].job = requests[q].job => p = q
          /\ ~Syncing(requests[q].job)
          /\ StageOK(q)

Quiet(j) == \A q \in Requests: ~At(q, "idle") => requests[q].job # j

RowsOK ==
    \A j \in Jobs \ disturbed:
       /\ Has(jobs[j].key, jobs[j].sub)
       /\ Quiet(j) => Right(jobs[j])

SyncOK ==
    /\ \A r \in worker.left: r.job \notin disturbed =>
          /\ jobs[r.job].is /\ jobs[r.job].enabled
          /\ jobs[r.job].key = r.key /\ jobs[r.job].sub = r.sub
    /\ worker.at \in {"subscribe", "store"} /\ worker.job \notin disturbed =>
          Gone(jobs[worker.job].sub)
    /\ worker.at = "store" /\ worker.job \notin disturbed =>
          Has(jobs[worker.job].key, worker.id)

\* Of one key one subscription is tracked.  Devices and setups do as they are told
\* while something is undisturbed.
SubsOK ==
    /\ \A i, k \in Ids: subs[i].key = subs[k].key /\ subs[i].record # "none"
                           /\ subs[k].record # "none" => i = k
    /\ disturbed # Jobs =>
          \A i \in Ids: /\ subs[i].record = "pending" => /\ subs[i].setup = "running"
                                                         /\ subs[i].device = "off"
                        /\ subs[i].record = "active" => /\ subs[i].setup = "over"
                                                        /\ subs[i].device = "on"
                        /\ subs[i].setup # "late"
    /\ disturbed = {} => Stray = {}

\* Jobs that share nothing know of different subscriptions.
ApartOK ==
    \A i, j \in Jobs: i # j /\ i \notin shared =>
       \A id \in Ids: ~(Refers(i, id) /\ Refers(j, id))

\* The job is about to lose the subscription of its row, or to get another.
Losing(j) ==
    \/ \E q \in Requests: /\ requests[q].at \in {"set", "erase"}
                          /\ requests[q].job = j
    \/ worker.at \in {"subscribe", "store"} /\ worker.job = j

\* What a job that shares nothing was answered with is still there.
LiveOK ==
    \A j \in Jobs \ (disturbed \cup shared):
       /\ jobs[j].sub # 0 /\ ~Losing(j) => subs[jobs[j].sub].record # "none"
       /\ \A q \in Requests:
             /\ requests[q].at \in {"insert", "replace", "set"}
             /\ requests[q].job = j /\ requests[q].id # 0
             => subs[requests[q].id].record # "none"
       /\ worker.at = "store" /\ worker.job = j => subs[worker.id].record # "none"

\* Somebody takes care of a subscription.
Kept(i) ==
    \/ \E j \in Jobs: jobs[j].sub = i
    \/ \E q \in Requests: /\ requests[q].at \in {"insert", "undo", "replace", "set"}
                          /\ requests[q].id = i
    \/ \E q \in Requests: At(q, "settle") /\ requests[q].prev.sub = i
    \/ worker.at = "store" /\ worker.id = i

KeptOK == disturbed = {} => \A i \in Ids: subs[i].record # "none" => Kept(i)

StreamOK ==
    \A n \in DOMAIN stream:
       /\ stream[n].owed \subseteq Triggered(stream[n].id)
       /\ worker.entry = n => stream[n].owed \subseteq stream[n].fired

IInv ==
    /\ TypesOK /\ FormOK /\ RequestsOK /\ RowsOK /\ SyncOK /\ SubsOK
    /\ ApartOK /\ LiveOK /\ KeptOK /\ StreamOK

(***************************************************************************)
(* The subscriptions of the runtime                                        *)
(***************************************************************************)

\* A table of the length of a sequence is a sequence of that length.
LEMMA Tables ==
    ASSUME NEW S, NEW s \in Seq(S), NEW t \in [1..Len(s) -> S]
    PROVE  t \in Seq(S) /\ Len(t) = Len(s) /\ DOMAIN t = 1..Len(s)
<1>1. Len(s) \in Nat
  BY LenProperties
<1>2. t \in Seq(S)
  BY <1>1, SeqDef
<1> QED
  BY <1>1, <1>2, LenProperties

\* No step gives a subscription another key, or brings its record back.
Later ==
    /\ Len(subs) <= Len(subs')
    /\ \A i \in 1..Len(subs): /\ subs'[i].key = subs[i].key
                              /\ subs[i].record = "none" => subs'[i].record = "none"

\* No record goes, but for that of l: of no one when l is 0.
Loses(l) ==
    \A i \in 1..Len(subs): i # l /\ subs[i].record # "none" => subs'[i].record # "none"

\* A request for key is answered with id.
Answers(key, id) ==
    /\ id \in 1..Len(subs')
    /\ subs'[id].key = key /\ subs'[id].record # "none"
    /\ \A i \in 1..Len(subs'): i \in 1..Len(subs) \/ i = id

\* The subscriptions are numbered from 1.
LEMMA SubsDomain ==
    ASSUME subs \in Seq(Subscription)
    PROVE  /\ Len(subs) \in Nat /\ Ids = 1..Len(subs) /\ DOMAIN subs = 1..Len(subs)
           /\ \A i \in 1..Len(subs): subs[i] \in Subscription
           /\ subs \in [1..Len(subs) -> Subscription]
  BY LenProperties, ElementOfSeq DEF Ids

\* What a change of one subscription makes of the others.
OneChanges(i) ==
    /\ subs' \in Seq(Subscription) /\ Len(subs') = Len(subs)
    /\ \A k \in 1..Len(subs): k # i => subs'[k] = subs[k]

\* A request for a subscription is answered with the tracked one of its key or a new one.
LEMMA EnsureSubs ==
    ASSUME subs \in Seq(Subscription), NEW key \in Keys, NEW id, Ensure(key, id)
    PROVE  /\ subs' \in Seq(Subscription) /\ Later /\ Loses(0) /\ Answers(key, id)
           /\ \A i \in 1..Len(subs): subs'[i] = subs[i]
           /\ \/ subs' = subs
              \/ /\ id = Len(subs) + 1 /\ Len(subs') = id /\ subs'[id] = Pending(key)
                 /\ Tracked(key) = {}
<1> USE SubsDomain
<1>1. CASE id \in Tracked(key) /\ UNCHANGED subs
  BY <1>1 DEF Tracked, Later, Loses, Answers
<1>2. CASE Tracked(key) = {} /\ id = Len(subs) + 1 /\ subs' = Append(subs, Pending(key))
  <2>1. Pending(key) \in Subscription
    BY DEF Pending, Subscription
  <2>2. /\ subs' \in Seq(Subscription) /\ Len(subs') = Len(subs) + 1
        /\ \A i \in 1..Len(subs): subs'[i] = subs[i]
        /\ subs'[id] = Pending(key)
    BY <1>2, <2>1, AppendProperties
  <2>3. Later /\ Loses(0)
    BY <2>2 DEF Later, Loses
  <2>4. Answers(key, id)
    BY <1>2, <2>2 DEF Answers, Pending
  <2> QED
    BY <1>2, <2>2, <2>3, <2>4
<1> QED
  BY <1>1, <1>2 DEF Ensure

\* Removing, by whatever way it goes.
LEMMA RemoveSubs ==
    ASSUME subs \in Seq(Subscription), NEW id,
           RemoveSubscription(id) \/ RemoveFails(id)
    PROVE  /\ OneChanges(id) /\ Later /\ Loses(id)
           /\ id \in 1..Len(subs) =>
                 /\ subs'[id].record = "none" /\ subs'[id].setup = subs[id].setup
                 /\ RemoveSubscription(id) /\ subs[id].record = "pending" =>
                       subs'[id].device = subs[id].device
                 /\ RemoveSubscription(id) /\ subs[id].record = "active" =>
                       subs'[id].device = "off"
                 /\ subs[id].record = "none" => subs'[id] = subs[id]
           /\ id \notin 1..Len(subs) => subs' = subs
<1> USE SubsDomain
<1>1. CASE UNCHANGED subs /\ (id \in 1..Len(subs) => subs[id].record = "none")
  BY <1>1 DEF OneChanges, Later, Loses
<1>2. ASSUME id \in 1..Len(subs), subs[id].record # "none",
             NEW device \in {"on", "off"}, subs' = Forgotten(id, device)
      PROVE  /\ OneChanges(id) /\ Later /\ Loses(id)
             /\ subs'[id].record = "none" /\ subs'[id].setup = subs[id].setup
             /\ subs'[id].device = device
  <2>1. /\ subs' \in [1..Len(subs) -> Subscription]
        /\ \A k \in 1..Len(subs): k # id => subs'[k] = subs[k]
        /\ subs'[id].key = subs[id].key /\ subs'[id].record = "none"
        /\ subs'[id].setup = subs[id].setup /\ subs'[id].device = device
    BY <1>2 DEF Forgotten, Subscription
  <2>2. subs' \in Seq(Subscription) /\ Len(subs') = Len(subs)
    BY <2>1, Tables
  <2>3. OneChanges(id)
    BY <2>1, <2>2 DEF OneChanges
  <2>4. Loses(id)
    BY <2>1, <2>2 DEF Loses
  <2>5. ASSUME NEW k \in 1..Len(subs)
        PROVE  subs'[k].key = subs[k].key /\ (subs[k].record = "none" => subs'[k].record = "none")
    BY <1>2, <2>1
  <2>6. Later
    BY <2>2, <2>5 DEF Later
  <2> QED
    BY <1>2, <2>1, <2>3, <2>4, <2>6
<1>3. id \in 1..Len(subs) =>
        subs[id].device \in {"on", "off"} /\ subs[id].record \in {"pending", "active", "none"}
  BY DEF Subscription
<1>4. CASE RemoveSubscription(id)
  BY <1>1, <1>2, <1>3, <1>4 DEF RemoveSubscription
<1>5. CASE RemoveFails(id) /\ ~RemoveSubscription(id)
  <2>1. id \in Ids /\ subs[id].record = "active" /\ \E device \in {"on", "off"}: subs' = Forgotten(id, device)
    BY <1>5 DEF RemoveFails
  <2> QED
    BY <1>2, <1>3, <1>5, <2>1
<1> QED
  BY <1>4, <1>5

\* The steps of a setup and of a device, as far as a job can tell.
LEMMA RuntimeSubs ==
    ASSUME subs \in Seq(Subscription), NEW i \in Ids,
           \/ SetupSucceeds(i) \/ LateAnswer(i) \/ SetupFails(i) \/ SetupTimesOut(i)
           \/ SetupStrays(i) \/ DeviceDrops(i)
    PROVE  /\ OneChanges(i) /\ Later
           /\ subs'[i].record # "none" => subs[i].record # "none"
<1> USE SubsDomain
<1> DEFINE Same3 == /\ subs' \in [1..Len(subs) -> Subscription]
                    /\ \A k \in 1..Len(subs): k # i => subs'[k] = subs[k]
                    /\ subs'[i].key = subs[i].key
<1>1. subs[i] \in Subscription /\ i \in 1..Len(subs)
  OBVIOUS
<1>2. Same3 => OneChanges(i)
  BY Tables DEF OneChanges
<1>3. Same3 /\ (subs[i].record = "none" => subs'[i].record = "none") => Later
  BY <1>1, <1>2 DEF OneChanges, Later
<1>4. ASSUME SetupSucceeds(i) PROVE Same3 /\ (subs'[i].record = "none" <=> subs[i].record # "pending")
  BY <1>1, <1>4 DEF SetupSucceeds, Subscription
<1>5. ASSUME LateAnswer(i) PROVE Same3 /\ subs'[i].record = subs[i].record
  <2>1. PICK device \in {"on", "off"}: subs' = [subs EXCEPT ![i].setup = "over", ![i].device = device]
    BY <1>5 DEF LateAnswer
  <2> QED
    BY <1>1, <2>1 DEF Subscription
<1>6. ASSUME SetupFails(i) PROVE Same3 /\ subs'[i].record = "none"
  BY <1>1, <1>6 DEF SetupFails, Subscription
<1>7. ASSUME SetupTimesOut(i) PROVE Same3 /\ subs'[i].record = "none"
  BY <1>1, <1>7 DEF SetupTimesOut, Subscription
<1>8. ASSUME SetupStrays(i) PROVE Same3 /\ subs'[i].record = subs[i].record
  BY <1>1, <1>8 DEF SetupStrays, Subscription
<1>9. ASSUME DeviceDrops(i) PROVE Same3 /\ subs'[i].record = subs[i].record
  BY <1>1, <1>9 DEF DeviceDrops, Subscription
<1> QED
  BY <1>2, <1>3, <1>4, <1>5, <1>6, <1>7, <1>8, <1>9

\* After a restart of the runtime nothing is tracked.
LEMMA RestartSubs ==
    ASSUME subs \in Seq(Subscription), RuntimeRestarts
    PROVE  /\ subs' \in Seq(Subscription) /\ Len(subs') = Len(subs) /\ Later
           /\ \A i \in 1..Len(subs): subs'[i].record = "none"
<1> USE SubsDomain
<1>1. /\ subs' \in [1..Len(subs) -> Subscription]
      /\ \A i \in 1..Len(subs): subs'[i].key = subs[i].key /\ subs'[i].record = "none"
  BY DEF RuntimeRestarts, Subscription
<1> QED
  BY <1>1, Tables DEF Later

(***************************************************************************)
(* What every step on a job preserves                                      *)
(***************************************************************************)

\* What has its type keeps it while the tables grow.
LEMMA Widens ==
    ASSUME subs \in Seq(Subscription), subs' \in Seq(Subscription), Len(subs) <= Len(subs')
    PROVE  /\ \A row \in Rows: row \in Rows'
           /\ \A r \in RequestType: r \in RequestType'
           /\ \A e \in Entry: e \in Entry'
           /\ Len(stream) \in Nat /\ Len(stream') \in Nat /\ Len(stream) <= Len(stream') =>
                 \A w \in WorkerType: w \in WorkerType'
<1>1. Len(subs) \in Nat /\ Len(subs') \in Nat
  BY LenProperties
<1>2. \A row \in Rows: row \in Rows'
  BY <1>1 DEF Rows
<1>3. ASSUME NEW r \in RequestType PROVE r \in RequestType'
  BY <1>1, <1>2 DEF RequestType, Stages
<1>4. \A e \in Entry: e \in Entry'
  BY <1>1 DEF Entry
<1>5. ASSUME Len(stream) \in Nat /\ Len(stream') \in Nat /\ Len(stream) <= Len(stream'),
             NEW w \in WorkerType
      PROVE  w \in WorkerType'
  <2>1. /\ w \in [at: {"down", "sync", "subscribe", "store", "up"}, left: {w.left},
                  job: Jobs \cup {Same}, id: 0..Len(subs), entry: 0..Len(stream)]
        /\ \A r \in w.left: r \in [job: Jobs, key: Keys, sub: 0..Len(subs)]
    BY DEF WorkerType
  <2>2. \A r \in w.left: r \in [job: Jobs, key: Keys, sub: 0..Len(subs')]
    BY <1>1, <2>1
  <2> QED
    BY <1>1, <1>5, <2>1, <2>2 DEF WorkerType
<1> QED
  BY <1>2, <1>3, <1>4, <1>5

\* What a step on a job, by a request or the reconciliation, does at the runtime.
Calls ==
    \/ UNCHANGED subs
    \/ \E key \in Keys, id \in 1..Len(subs) + 1: Ensure(key, id)
    \/ \E id \in 0..Len(subs): RemoveSubscription(id)
    \/ disturbed' # {} /\ \E id \in 0..Len(subs): RemoveFails(id)

Disturbing == disturbed \subseteq disturbed' /\ disturbed' \subseteq Jobs

\* A call to the runtime keeps what holds of its subscriptions.
LEMMA CallsSubs ==
    ASSUME subs \in Seq(Subscription), SubsOK, Calls, Disturbing
    PROVE  subs' \in Seq(Subscription) /\ Later /\ SubsOK'
<1> USE SubsDomain
<1> DEFINE Old == \A i, k \in Ids: subs[i].key = subs[k].key /\ subs[i].record # "none"
                     /\ subs[k].record # "none" => i = k
           Fine(i) == /\ subs[i].record = "pending" => /\ subs[i].setup = "running"
                                                       /\ subs[i].device = "off"
                      /\ subs[i].record = "active" => /\ subs[i].setup = "over"
                                                      /\ subs[i].device = "on"
                      /\ subs[i].setup # "late"
<1>0. /\ Old
      /\ disturbed # Jobs => \A i \in 1..Len(subs): Fine(i)
      /\ disturbed = {} => \A i \in 1..Len(subs): subs[i].device = "on" => subs[i].record # "none"
  BY DEF SubsOK, Stray
<1>d. (disturbed' # Jobs => disturbed # Jobs) /\ (disturbed' = {} => disturbed = {})
  BY DEF Disturbing
<1>s. ASSUME subs' \in Seq(Subscription),
             \A i, k \in 1..Len(subs'): subs'[i].key = subs'[k].key /\ subs'[i].record # "none"
                                     /\ subs'[k].record # "none" => i = k,
             disturbed' # Jobs => \A i \in 1..Len(subs'):
                      /\ subs'[i].record = "pending" => /\ subs'[i].setup = "running"
                                                          /\ subs'[i].device = "off"
                      /\ subs'[i].record = "active" => /\ subs'[i].setup = "over"
                                                      /\ subs'[i].device = "on"
                      /\ subs'[i].setup # "late",
             disturbed' = {} => \A i \in 1..Len(subs'): subs'[i].device = "on" => subs'[i].record # "none"
      PROVE  SubsOK'
  <2>1. Ids' = 1..Len(subs')
    BY <1>s, LenProperties DEF Ids
  <2> QED
    BY <1>s, <2>1 DEF SubsOK, Stray
<1>1. CASE UNCHANGED subs
  <2>1. Later
    BY <1>1 DEF Later
  <2> QED
    BY <1>0, <1>d, <1>s, <1>1, <2>1
<1>2. ASSUME NEW key \in Keys, NEW id \in 1..Len(subs) + 1, Ensure(key, id)
      PROVE  subs' \in Seq(Subscription) /\ Later /\ SubsOK'
  <2>1. /\ subs' \in Seq(Subscription) /\ Later
        /\ \A i \in 1..Len(subs): subs'[i] = subs[i]
        /\ \/ subs' = subs
           \/ /\ id = Len(subs) + 1 /\ Len(subs') = id /\ subs'[id] = Pending(key)
              /\ Tracked(key) = {}
    BY <1>2, EnsureSubs
  <2>2. CASE subs' = subs
    BY <1>0, <1>d, <1>s, <2>1, <2>2
  <2>3. CASE /\ id = Len(subs) + 1 /\ Len(subs') = id /\ subs'[id] = Pending(key)
             /\ Tracked(key) = {}
    <3>1. \A i \in 1..Len(subs'): i \in 1..Len(subs) \/ i = id
      BY <2>3
    <3>2. \A i \in 1..Len(subs): subs[i].key = key => subs[i].record = "none"
      BY <2>3 DEF Tracked
    <3>3. /\ subs'[id].key = key /\ subs'[id].record = "pending" /\ subs'[id].setup = "running"
          /\ subs'[id].device = "off"
      BY <2>3 DEF Pending
    <3> QED
      BY <1>0, <1>d, <1>s, <2>1, <3>1, <3>2, <3>3
  <2> QED
    BY <2>1, <2>2, <2>3
<1>3. ASSUME NEW id \in 0..Len(subs), RemoveSubscription(id) \/ RemoveFails(id),
             RemoveSubscription(id) \/ disturbed' # {}
      PROVE  subs' \in Seq(Subscription) /\ Later /\ SubsOK'
  <2>1. /\ OneChanges(id) /\ Later
        /\ id \in 1..Len(subs) =>
              /\ subs'[id].record = "none" /\ subs'[id].setup = subs[id].setup
              /\ RemoveSubscription(id) /\ subs[id].record = "pending" =>
                    subs'[id].device = subs[id].device
              /\ RemoveSubscription(id) /\ subs[id].record = "active" =>
                    subs'[id].device = "off"
              /\ subs[id].record = "none" => subs'[id] = subs[id]
        /\ id \notin 1..Len(subs) => subs' = subs
    BY <1>3, RemoveSubs
  <2>2. /\ subs' \in Seq(Subscription) /\ Len(subs') = Len(subs)
        /\ \A k \in 1..Len(subs): k # id => subs'[k] = subs[k]
    BY <2>1 DEF OneChanges
  <2>3. \A k \in 1..Len(subs): /\ subs'[k].key = subs[k].key
                               /\ subs'[k].record # "none" => subs'[k] = subs[k]
                               /\ subs'[k].setup = subs[k].setup
    BY <2>1, <2>2 DEF Later
  <2>4. \A i, k \in 1..Len(subs'): subs'[i].key = subs'[k].key /\ subs'[i].record # "none"
                                     /\ subs'[k].record # "none" => i = k
    BY <1>0, <2>2, <2>3
  <2>5. disturbed' # Jobs => \A i \in 1..Len(subs'):
                      /\ subs'[i].record = "pending" => /\ subs'[i].setup = "running"
                                                          /\ subs'[i].device = "off"
                      /\ subs'[i].record = "active" => /\ subs'[i].setup = "over"
                                                      /\ subs'[i].device = "on"
                      /\ subs'[i].setup # "late"
    BY <1>0, <1>d, <2>2, <2>3
  <2>6. ASSUME disturbed' = {}, NEW i \in 1..Len(subs'), subs'[i].device = "on"
        PROVE  subs'[i].record # "none"
    <3>1. CASE i # id
      BY <1>0, <1>d, <2>2, <2>6, <3>1
    <3>2. CASE i = id
      <4>1. subs[id].record \in {"pending", "active", "none"} /\ id \in 1..Len(subs)
        BY <2>2, <2>6, <3>2 DEF Subscription
      <4>2. Jobs # {} /\ RemoveSubscription(id)
        BY <1>3, <2>6, EventJobsAssumption
      <4>3. subs[id].record = "none" => FALSE
        BY <1>0, <1>d, <2>1, <2>6, <3>2, <4>1
      <4>4. subs[id].record # "active"
        BY <2>1, <2>6, <3>2, <4>1, <4>2
      <4>5. subs[id].record = "pending" => subs[id].device = "on"
        BY <2>1, <2>6, <3>2, <4>1, <4>2
      <4> QED
        BY <1>0, <1>d, <2>6, <4>1, <4>2, <4>3, <4>4, <4>5
    <3> QED
      BY <3>1, <3>2
  <2> QED
    BY <1>s, <2>1, <2>2, <2>4, <2>5, <2>6
<1> QED
  BY <1>1, <1>2, <1>3 DEF Calls

\* A step on job j, by a request or the reconciliation, that is answered with the
\* subscription n, 0 for none: it takes away no subscription that j does not know.
OnJob(j, n) ==
    /\ Calls /\ Disturbing /\ Shares(j, n)
    /\ \A i \in 1..Len(subs): subs[i].record # "none" => subs'[i].record # "none" \/ Refers(j, i)
    /\ jobs' \in [Jobs -> Rows']
    /\ \A i \in Jobs: i # j => jobs'[i] = jobs[i]
    /\ UNCHANGED <<jobs, stream>> \/ WriteRow(j, jobs'[j])
    /\ faults' \in Nat
    /\ IF jobs'[j].is THEN jobs'[j].key \in Keys ELSE jobs'[j] = NoRow

\* Who knows a subscription, knew it before or was answered with it.
Learns(j, n) ==
    \A i \in Jobs, id \in 1..Len(subs'): Refers(i, id)' => Refers(i, id) \/ (i = j /\ id = n)

\* What a job refers to is a subscription or none.
LEMMA RefersTypes ==
    ASSUME TypesOK, NEW j \in Jobs, NEW id, Refers(j, id)
    PROVE  id \in 0..Len(subs)
<1>1. \A q \in Requests: requests[q].id \in 0..Len(subs) /\ requests[q].prev.sub \in 0..Len(subs)
                            /\ requests[q].upd.sub \in 0..Len(subs)
  BY DEF TypesOK, RequestType, Rows
<1>2. jobs[j].sub \in 0..Len(subs) /\ worker.id \in 0..Len(subs)
  BY DEF TypesOK, Rows, WorkerType
<1>3. \A r \in worker.left: r.sub \in 0..Len(subs)
  BY DEF TypesOK, WorkerType
<1> QED
  BY <1>1, <1>2, <1>3 DEF Refers, Active

\* Jobs that come to know one subscription are recorded as sharing.
LEMMA SharesGrows ==
    ASSUME TypesOK, NEW j \in Jobs, NEW n, Shares(j, n)
    PROVE  /\ shared \subseteq shared' /\ shared' \subseteq Jobs
           /\ \A i \in Jobs: i # j /\ n # 0 /\ Refers(i, n) => i \in shared' /\ j \in shared'
  BY DEF Shares, Sharers, TypesOK

\* An answer to one job keeps the jobs apart that share nothing.
LEMMA ApartStays ==
    ASSUME TypesOK, ApartOK, NEW j \in Jobs, NEW n, OnJob(j, n), Learns(j, n),
           subs' \in Seq(Subscription), Later
    PROVE  ApartOK'
<1>1. /\ shared \subseteq shared'
      /\ \A i \in Jobs: i # j /\ n # 0 /\ Refers(i, n) => i \in shared' /\ j \in shared'
  BY SharesGrows DEF OnJob
<1>2. Ids' = 1..Len(subs') /\ Ids = 1..Len(subs) /\ Len(subs) \in Nat
  BY LenProperties DEF Ids, TypesOK
<1>3. ASSUME NEW i \in Jobs, NEW k \in Jobs, i # k, i \notin shared',
             NEW id \in 1..Len(subs'), Refers(i, id)', Refers(k, id)'
      PROVE  FALSE
  <2>1. /\ Refers(i, id) \/ (i = j /\ id = n)
        /\ Refers(k, id) \/ (k = j /\ id = n)
    BY <1>3 DEF Learns
  <2>2. CASE Refers(i, id) /\ Refers(k, id)
    <3>1. id \in 1..Len(subs)
      BY <1>3, <2>2, RefersTypes
    <3> QED
      BY <1>1, <1>2, <1>3, <2>2, <3>1 DEF ApartOK
  <2>3. CASE Refers(k, id) /\ i = j /\ id = n
    BY <1>1, <1>3, <2>3
  <2>4. CASE Refers(i, id) /\ k = j /\ id = n
    BY <1>1, <1>3, <2>4
  <2> QED
    BY <1>3, <2>1, <2>2, <2>3, <2>4
<1> QED
  BY <1>2, <1>3 DEF ApartOK

\* Records of jobs that share nothing are not taken by others.
LEMMA OthersLive ==
    ASSUME TypesOK, ApartOK, NEW j \in Jobs, NEW n, OnJob(j, n),
           NEW i \in Jobs, i # j, i \notin shared', NEW id \in 1..Len(subs),
           Refers(i, id), subs[id].record # "none"
    PROVE  subs'[id].record # "none"
<1>1. i \notin shared
  BY SharesGrows DEF OnJob
<1>2. id \in Ids
  BY LenProperties DEF Ids, TypesOK
<1>3. ~Refers(j, id)
  BY <1>1, <1>2 DEF ApartOK
<1> QED
  BY <1>3 DEF OnJob

\* A row is written, and nothing received before is owed to its job any more.
LEMMA StreamStays ==
    ASSUME TypesOK, StreamOK, NEW j \in Jobs, NEW n, OnJob(j, n),
           subs' \in Seq(Subscription), Later
    PROVE  /\ stream' \in Seq(Entry') /\ Len(stream') = Len(stream)
           /\ worker'.entry = worker.entry => StreamOK'
<1>1. /\ stream \in Seq(Entry) /\ Len(stream) \in Nat /\ DOMAIN stream = 1..Len(stream)
      /\ \A k \in 1..Len(stream): stream[k] \in Entry
  BY LenProperties, ElementOfSeq DEF TypesOK
<1>2. \A e \in Entry: e \in Entry'
  BY Widens DEF TypesOK, Later
<1>3. CASE UNCHANGED <<jobs, stream>>
  <2>1. stream \in [1..Len(stream) -> Entry']
    BY <1>1, <1>2
  <2> HIDE DEF Entry
  <2>2. stream \in Seq(Entry')
    BY <2>1, <1>1, Tables
  <2> QED
    BY <1>1, <1>3, <2>2 DEF StreamOK, Triggered
<1>4. CASE WriteRow(j, jobs'[j])
  <2>1. /\ stream' \in [1..Len(stream) -> Entry']
        /\ \A k \in 1..Len(stream): /\ stream'[k].id = stream[k].id
                                    /\ stream'[k].fired = stream[k].fired
                                    /\ stream'[k].owed = stream[k].owed \ {j}
    <3>1. stream' = [k \in 1..Len(stream) |-> [stream[k] EXCEPT !.owed = @ \ {j}]]
      BY <1>1, <1>4 DEF WriteRow
    <3>2. \A e \in Entry: /\ [e EXCEPT !.owed = @ \ {j}] \in Entry
                          /\ [e EXCEPT !.owed = @ \ {j}].id = e.id
                          /\ [e EXCEPT !.owed = @ \ {j}].fired = e.fired
                          /\ [e EXCEPT !.owed = @ \ {j}].owed = e.owed \ {j}
      BY DEF Entry
    <3> QED
      BY <1>1, <1>2, <3>1, <3>2
  <2>2. stream' \in Seq(Entry') /\ Len(stream') = Len(stream) /\ DOMAIN stream' = 1..Len(stream)
    BY <2>1, <1>1, Tables
  <2>3. \A i \in Jobs: i # j => jobs'[i] = jobs[i]
    BY DEF OnJob
  <2>4. ASSUME NEW k \in 1..Len(stream)
        PROVE  /\ stream'[k].owed \subseteq {i \in Jobs: jobs'[i].is /\ jobs'[i].enabled
                                                          /\ jobs'[i].sub = stream'[k].id}
               /\ worker.entry = k => stream'[k].owed \subseteq stream'[k].fired
    BY <1>1, <2>1, <2>3, <2>4 DEF StreamOK, Triggered
  <2> QED
    BY <2>2, <2>4 DEF StreamOK, Triggered
<1> QED
  BY <1>3, <1>4 DEF OnJob

\* What holds of a request on another job holds on.
LEMMA StageStays ==
    ASSUME TypesOK, FormOK, NEW p \in Requests, ~At(p, "idle"), StageOK(p),
           requests'[p] = requests[p], jobs'[requests[p].job] = jobs[requests[p].job],
           subs' \in Seq(Subscription), Later
    PROVE  StageOK(p)'
<1> DEFINE r == requests[p]
           row == jobs[r.job]
<1>1. r \in RequestType /\ r.job \in Jobs /\ row \in Rows
  BY DEF TypesOK, FormOK
<1>2. /\ r.id \in 0..Len(subs) /\ row.sub \in 0..Len(subs) /\ Len(subs) \in Nat
  BY <1>1, LenProperties DEF RequestType, Rows, TypesOK
<1>3. /\ Has(r.key, r.id) => (r.id # 0 => subs'[r.id].key = r.key)
      /\ Gone(row.sub) => row.sub = 0 \/ subs'[row.sub].record = "none"
  BY <1>2 DEF Has, Gone, Later
<1> QED
  BY <1>3 DEF StageOK, Has, Gone, Right

(***************************************************************************)
(* A step of a request                                                     *)
(***************************************************************************)

\* What FormOK says of one request.
Formed(q) ==
    /\ ~At(q, "idle") => requests[q].job \in Jobs
    /\ requests[q].at \in {"insert", "undo"} => requests[q].id # 0
    /\ requests[q].at \in {"write", "prepare"} => requests[q].id = 0
    /\ requests[q].at \in {"insert", "write", "prepare", "replace"} => requests[q].key \in Keys
    /\ At(q, "write") => /\ requests[q].change \in Changes
                         /\ requests[q].change.enabled \in BOOLEAN
    /\ requests[q].at \in {"settle", "resolve"} =>
          requests[q].upd.is /\ requests[q].upd.key \in Keys

\* The subscriptions a request knows.
Known(q) == IF At(q, "idle") THEN {}
            ELSE {requests[q].id, requests[q].prev.sub, requests[q].upd.sub}

\* Request q holds i until it has removed it or put it into the row.
Holds(q, i) ==
    \/ requests[q].at \in {"insert", "undo", "replace", "set"} /\ requests[q].id = i
    \/ At(q, "settle") /\ requests[q].prev.sub = i

\* A step of request q on job j, before, during or after.
ByRequest(q, j, n) ==
    /\ OnJob(j, n) /\ UNCHANGED worker
    /\ requests' \in [Requests -> RequestType']
    /\ \A p \in Requests: p # q => requests'[p] = requests[p]
    /\ ~At(q, "idle") => requests[q].job = j
    /\ requests'[q].at # "idle" => requests'[q].job = j
    /\ At(q, "idle") /\ j \notin disturbed' => Quiet(j) /\ ~Syncing(j)
    /\ Known(q)' \subseteq Known(q) \cup {0, n, jobs[j].sub}
    /\ jobs'[j].sub \in Known(q) \cup {0, n, jobs[j].sub}

\* Of a job that nothing disturbs, the request leaves what the invariant says.
LeavesRight(q, j) ==
    j \notin disturbed' =>
       /\ requests'[q].at # "idle" => StageOK(q)'
       /\ jobs'[j].sub # 0 => subs'[jobs'[j].sub].key = jobs'[j].key
       /\ requests'[q].at = "idle" => (jobs'[j].enabled <=> jobs'[j].sub # 0)

LeavesLive(q, j) ==
    j \notin disturbed' \cup shared' =>
       /\ jobs'[j].sub # 0 /\ requests'[q].at \notin {"set", "erase"} =>
             subs'[jobs'[j].sub].record # "none"
       /\ requests'[q].at \in {"insert", "replace", "set"} /\ requests'[q].id # 0 =>
             subs'[requests'[q].id].record # "none"

LeavesKept(q, j) ==
    disturbed' = {} =>
       \A i \in 1..Len(subs'):
          /\ subs'[i].record # "none"
          /\ jobs[j].sub = i \/ Holds(q, i) \/ i \notin 1..Len(subs)
          => jobs'[j].sub = i \/ Holds(q, i)'

\* Nothing else is under way on a job that nothing disturbs.
LEMMA Alone ==
    ASSUME TypesOK, FormOK, RequestsOK, NEW q \in Requests, NEW j \in Jobs, NEW n,
           ByRequest(q, j, n), j \notin disturbed'
    PROVE  /\ \A p \in Requests: p # q /\ ~At(p, "idle") => requests[p].job # j
           /\ ~Syncing(j)
           /\ worker.at \in {"subscribe", "store"} => worker.job # j
<1>1. j \notin disturbed
  BY DEF ByRequest, OnJob, Disturbing
<1>2. CASE At(q, "idle")
  BY <1>2, EventJobsAssumption DEF ByRequest, Quiet, Syncing, FormOK
<1>3. CASE ~At(q, "idle")
  <2>1. requests[q].job = j
    BY <1>3 DEF ByRequest
  <2> QED
    BY <1>1, <1>3, <2>1 DEF RequestsOK, Syncing, FormOK
<1> QED
  BY <1>2, <1>3

\* What the steps of a request keep by themselves.
LEMMA RequestFacts ==
    ASSUME IInv, NEW q \in Requests, NEW j \in Jobs, NEW n, ByRequest(q, j, n), Formed(q)'
    PROVE  /\ subs' \in Seq(Subscription) /\ Later /\ SubsOK'
           /\ TypesOK' /\ FormOK' /\ StreamOK' /\ ApartOK'
<1>1. subs' \in Seq(Subscription) /\ Later /\ SubsOK'
  BY CallsSubs DEF IInv, TypesOK, ByRequest, OnJob
<1>2. stream' \in Seq(Entry') /\ Len(stream') = Len(stream) /\ StreamOK'
  BY <1>1, StreamStays DEF IInv, ByRequest
<1>3. TypesOK'
  <2>1. worker' \in WorkerType'
    <3>1. Len(stream) \in Nat
      BY LenProperties DEF IInv, TypesOK
    <3> QED
      BY <1>1, <1>2, <3>1, Widens DEF IInv, TypesOK, ByRequest, Later
  <2>2. shared' \subseteq Jobs
    BY SharesGrows DEF IInv, ByRequest, OnJob
  <2>3. disturbed' \subseteq Jobs
    BY DEF ByRequest, OnJob, Disturbing
  <2> QED
    BY <1>1, <1>2, <2>1, <2>2, <2>3 DEF TypesOK, ByRequest, OnJob
<1>4. FormOK'
  <2>1. \A i \in Jobs: IF jobs'[i].is THEN jobs'[i].key \in Keys ELSE jobs'[i] = NoRow
    BY DEF IInv, FormOK, ByRequest, OnJob
  <2>2. \A p \in Requests: p # q => Formed(p)'
    BY DEF IInv, FormOK, Formed, At, ByRequest
  <2>3. \A p \in Requests: Formed(p)'
    BY <2>2
  <2>4. worker' = worker
    BY DEF ByRequest
  <2> QED
    BY <2>1, <2>3, <2>4 DEF IInv, FormOK, Formed, At
<1>5. Learns(j, n)
  <2> SUFFICES ASSUME NEW i \in Jobs, NEW id \in 1..Len(subs'), Refers(i, id)',
                      ~(i = j /\ id = n)
               PROVE  Refers(i, id)
    BY DEF Learns
  <2>1. /\ worker' = worker
        /\ \A p \in Requests: p # q => requests'[p] = requests[p]
        /\ ~At(q, "idle") => requests[q].job = j
        /\ requests'[q].at # "idle" => requests'[q].job = j
        /\ \A k \in Jobs: k # j => jobs'[k] = jobs[k]
        /\ Known(q)' \subseteq Known(q) \cup {0, n, jobs[j].sub}
        /\ jobs'[j].sub \in Known(q) \cup {0, n, jobs[j].sub}
    BY DEF ByRequest, OnJob
  <2>2. id # 0
    OBVIOUS
  <2>3. \A k: k \in Known(q) => Refers(j, k)
    BY <2>1 DEF Known, Refers, Active, At
  <2>4. Refers(j, jobs[j].sub)
    BY DEF Refers
  <2>5. CASE jobs'[i].sub = id
    BY <2>1, <2>2, <2>3, <2>4, <2>5 DEF Refers
  <2>6. CASE \E r \in worker.left: r.job = i /\ r.sub = id
    BY <2>6 DEF Refers
  <2>7. CASE worker.job = i /\ worker.id = id
    BY <2>7 DEF Refers
  <2>8. ASSUME NEW p \in Requests, requests'[p].at # "idle", requests'[p].job = i,
               id \in {requests'[p].id, requests'[p].prev.sub, requests'[p].upd.sub}
        PROVE  Refers(i, id)
    <3>1. CASE p # q
      BY <2>1, <2>8, <3>1 DEF Refers, Active
    <3>2. CASE p = q
      <4>1. id \in Known(q)' /\ i = j
        BY <2>1, <2>8, <3>2 DEF Known, At
      <4> QED
        BY <2>1, <2>2, <2>3, <2>4, <4>1
    <3> QED
      BY <3>1, <3>2
  <2> QED
    BY <2>1, <2>5, <2>6, <2>7, <2>8 DEF Refers, Active
<1>6. ApartOK'
  BY <1>1, <1>5, ApartStays DEF IInv, ByRequest
<1> QED
  BY <1>1, <1>2, <1>3, <1>4, <1>6

\* A step of a request keeps the invariant if it leaves its own job right, its
\* subscriptions live, and somebody in charge of each.
LEMMA RequestStep ==
    ASSUME IInv, NEW q \in Requests, NEW j \in Jobs, NEW n, ByRequest(q, j, n), Formed(q)',
           LeavesRight(q, j), LeavesLive(q, j), LeavesKept(q, j)
    PROVE  IInv'
<1> USE DEF IInv
<1>1. /\ subs' \in Seq(Subscription) /\ Later /\ SubsOK'
      /\ TypesOK' /\ FormOK' /\ StreamOK' /\ ApartOK'
  BY RequestFacts
<1>2. /\ worker' = worker /\ disturbed \subseteq disturbed' /\ shared \subseteq shared'
      /\ \A p \in Requests: p # q => requests'[p] = requests[p]
      /\ ~At(q, "idle") => requests[q].job = j
      /\ requests'[q].at # "idle" => requests'[q].job = j
      /\ \A i \in Jobs: i # j => jobs'[i] = jobs[i]
  BY SharesGrows DEF ByRequest, OnJob, Disturbing
<1>3. j \notin disturbed' =>
         /\ \A p \in Requests: p # q /\ ~At(p, "idle") => requests[p].job # j
         /\ ~Syncing(j)
         /\ worker.at \in {"subscribe", "store"} => worker.job # j
  BY Alone
<1>4. /\ \A p \in Requests: ~At(p, "idle") => requests[p].job \in Jobs
      /\ \A i \in Jobs: jobs[i].sub \in 0..Len(subs)
      /\ \A p \in Requests: requests[p].id \in 0..Len(subs)
      /\ worker.id \in 0..Len(subs) /\ Len(subs) \in Nat
      /\ worker.at \in {"subscribe", "store"} => worker.job \in Jobs
      /\ \A r \in worker.left: r.job \in Jobs
  BY LenProperties DEF TypesOK, FormOK, Rows, RequestType, WorkerType
<1>5. RequestsOK'
  <2> SUFFICES ASSUME NEW p \in Requests, requests'[p].at # "idle", requests'[p].job \notin disturbed'
               PROVE  /\ \A o \in Requests: requests'[o].at # "idle"
                            /\ requests'[o].job = requests'[p].job => o = p
                      /\ ~ \E r \in worker'.left: r.job = requests'[p].job
                      /\ StageOK(p)'
    BY DEF RequestsOK, At, Syncing
  <2>1. CASE p = q
    BY <1>2, <1>3, <2>1 DEF LeavesRight, At, Syncing
  <2>2. CASE p # q
    <3>1. requests'[p] = requests[p] /\ ~At(p, "idle") /\ requests[p].job \notin disturbed
      BY <1>2, <2>2 DEF At
    <3>2. requests[p].job # j
      BY <1>3, <2>2, <3>1
    <3>3. StageOK(p)'
      BY <1>1, <1>2, <1>4, <3>1, <3>2, StageStays DEF RequestsOK
    <3>4. /\ \A o \in Requests: requests'[o].at # "idle"
                            /\ requests'[o].job = requests'[p].job => o = p
          /\ ~ \E r \in worker'.left: r.job = requests'[p].job
      BY <1>2, <3>1, <3>2 DEF RequestsOK, At, Syncing
    <3> QED
      BY <3>3, <3>4
  <2> QED
    BY <2>1, <2>2
<1>6. RowsOK'
  <2> SUFFICES ASSUME NEW i \in Jobs \ disturbed'
               PROVE  /\ jobs'[i].sub # 0 => subs'[jobs'[i].sub].key = jobs'[i].key
                      /\ (\A p \in Requests: requests'[p].at # "idle" => requests'[p].job # i) =>
                            (jobs'[i].enabled <=> jobs'[i].sub # 0)
    BY DEF RowsOK, Has, Quiet, Right, At
  <2>1. CASE i = j
    BY <1>2, <2>1 DEF LeavesRight
  <2>2. CASE i # j
    <3>1. jobs'[i] = jobs[i] /\ i \notin disturbed /\ jobs[i].sub \in 0..Len(subs)
      BY <1>2, <1>4, <2>2
    <3>2. /\ jobs[i].sub # 0 => subs[jobs[i].sub].key = jobs[i].key
          /\ Quiet(i) => (jobs[i].enabled <=> jobs[i].sub # 0)
      BY <3>1 DEF RowsOK, Has, Right
    <3>3. jobs[i].sub # 0 => subs'[jobs[i].sub].key = jobs[i].key
      BY <1>1, <1>4, <3>1, <3>2 DEF Later
    <3>4. (\A p \in Requests: requests'[p].at # "idle" => requests'[p].job # i) => Quiet(i)
      BY <1>2, <2>2 DEF Quiet, At
    <3> QED
      BY <3>1, <3>2, <3>3, <3>4
  <2> QED
    BY <2>1, <2>2
<1>7. SyncOK'
  <2>1. ASSUME NEW i \in Jobs, i \notin disturbed',
               Syncing(i) \/ (worker.at \in {"subscribe", "store"} /\ worker.job = i)
        PROVE  i # j /\ jobs'[i] = jobs[i] /\ i \notin disturbed
    BY <1>2, <1>3, <2>1
  <2>2. ASSUME NEW r \in worker.left, r.job \notin disturbed'
        PROVE  /\ jobs'[r.job].is /\ jobs'[r.job].enabled
               /\ jobs'[r.job].key = r.key /\ jobs'[r.job].sub = r.sub
    BY <1>4, <2>1, <2>2 DEF SyncOK, Syncing
  <2>3. ASSUME worker.at \in {"subscribe", "store"}, worker.job \notin disturbed'
        PROVE  /\ jobs'[worker.job].sub = 0 \/ subs'[jobs'[worker.job].sub].record = "none"
               /\ worker.at = "store" /\ worker.id # 0 =>
                     subs'[worker.id].key = jobs'[worker.job].key
    <3>1. /\ worker.job \in Jobs /\ jobs'[worker.job] = jobs[worker.job]
          /\ worker.job \notin disturbed
      BY <1>4, <2>1, <2>3
    <3>2. /\ jobs[worker.job].sub = 0 \/ subs[jobs[worker.job].sub].record = "none"
          /\ worker.at = "store" /\ worker.id # 0 => subs[worker.id].key = jobs[worker.job].key
      BY <2>3, <3>1 DEF SyncOK, Gone, Has
    <3> QED
      BY <1>1, <1>4, <3>1, <3>2 DEF Later
  <2> QED
    BY <1>2, <2>2, <2>3 DEF SyncOK, Gone, Has
<1>8. LiveOK'
  <2> SUFFICES ASSUME NEW i \in Jobs, i \notin disturbed' \cup shared'
               PROVE  /\ jobs'[i].sub # 0 /\ ~Losing(i)' => subs'[jobs'[i].sub].record # "none"
                      /\ \A p \in Requests:
                            /\ requests'[p].at \in {"insert", "replace", "set"}
                            /\ requests'[p].job = i /\ requests'[p].id # 0
                            => subs'[requests'[p].id].record # "none"
                      /\ worker'.at = "store" /\ worker'.job = i => subs'[worker'.id].record # "none"
    BY DEF LiveOK
  <2>1. CASE i = j
    <3>1. i \notin disturbed' /\ i \notin shared'
      OBVIOUS
    <3>2. ~Losing(i)' => requests'[q].at \notin {"set", "erase"}
      BY <1>2, <2>1 DEF Losing
    <3>3. ASSUME NEW p \in Requests, requests'[p].at \in {"insert", "replace", "set"},
                 requests'[p].job = i
          PROVE  p = q
      BY <1>2, <1>3, <2>1, <3>1, <3>3 DEF At
    <3> QED
      BY <1>2, <1>3, <2>1, <3>1, <3>2, <3>3 DEF LeavesLive
  <2>2. CASE i # j
    <3>1. i \notin disturbed /\ i \notin shared /\ jobs'[i] = jobs[i] /\ i \notin shared'
      BY <1>2, <2>2
    <3>2. \A id \in 1..Len(subs): Refers(i, id) /\ subs[id].record # "none"
                                     => subs'[id].record # "none"
      BY <2>2, OthersLive DEF ByRequest
    <3>3. Losing(i) => Losing(i)'
      BY <1>2, <2>2, EventJobsAssumption DEF Losing, At
    <3>4. jobs[i].sub # 0 /\ ~Losing(i) => subs[jobs[i].sub].record # "none"
      BY <3>1 DEF LiveOK
    <3>5. Refers(i, jobs[i].sub)
      BY DEF Refers
    <3>6. jobs'[i].sub # 0 /\ ~Losing(i)' => subs'[jobs'[i].sub].record # "none"
      BY <1>4, <3>1, <3>2, <3>3, <3>4, <3>5
    <3>7. ASSUME NEW p \in Requests, requests'[p].at \in {"insert", "replace", "set"},
                 requests'[p].job = i, requests'[p].id # 0
          PROVE  subs'[requests'[p].id].record # "none"
      <4>1. p # q /\ requests'[p] = requests[p]
        BY <1>2, <2>2, <3>7
      <4>2. Refers(i, requests[p].id) /\ subs[requests[p].id].record # "none"
        BY <3>1, <3>7, <4>1 DEF Refers, Active, LiveOK
      <4> QED
        BY <1>4, <3>2, <3>7, <4>1, <4>2
    <3>8. ASSUME worker.at = "store", worker.job = i PROVE subs'[worker.id].record # "none"
      <4>1. Refers(i, worker.id) /\ worker.id # 0 /\ subs[worker.id].record # "none"
        BY <3>1, <3>8 DEF Refers, LiveOK, FormOK
      <4> QED
        BY <1>4, <3>2, <4>1
    <3> QED
      BY <1>2, <3>6, <3>7, <3>8
  <2> QED
    BY <2>1, <2>2
<1>9. KeptOK'
  <2> SUFFICES ASSUME disturbed' = {}, NEW i \in 1..Len(subs'), subs'[i].record # "none"
               PROVE  Kept(i)'
    BY <1>1, LenProperties DEF KeptOK, Ids
  <2>1. disturbed = {}
    BY <1>2
  <2>2. jobs'[j].sub = i \/ Holds(q, i)' => Kept(i)'
    BY DEF Holds, Kept, At
  <2>3. CASE jobs[j].sub = i \/ Holds(q, i) \/ i \notin 1..Len(subs)
    BY <2>2, <2>3 DEF LeavesKept
  <2>4. CASE ~(jobs[j].sub = i \/ Holds(q, i) \/ i \notin 1..Len(subs))
    <3>1. Kept(i)
      BY <1>1, <2>1, <2>4, SubsDomain DEF KeptOK, Later, TypesOK
    <3> QED
      BY <1>2, <2>4, <3>1 DEF Kept, Holds, At
  <2> QED
    BY <2>3, <2>4
<1> QED
  BY <1>1, <1>5, <1>6, <1>7, <1>8, <1>9

\* The answers of the runtime, as a step on a job sees them.
LEMMA SubscribeCall ==
    ASSUME TypesOK, NEW j \in Jobs, NEW key \in Keys, NEW id \in 0..Len(subs) + 1,
           Subscribe(j, key, id)
    PROVE  /\ Calls /\ Disturbing /\ faults' \in Nat
           /\ subs' \in Seq(Subscription) /\ Later /\ Loses(0) /\ id \in 0..Len(subs')
           /\ id # 0 => Answers(key, id)
           /\ id = 0 => j \in disturbed'
<1>1. subs \in Seq(Subscription) /\ Len(subs) \in Nat /\ faults \in Nat /\ disturbed \subseteq Jobs
  BY LenProperties DEF TypesOK
<1>2. CASE Ensure(key, id) /\ NoFault
  <2>1. id \in 1..Len(subs) + 1
    BY <1>1, <1>2, SubsDomain DEF Ensure, Tracked
  <2>2. Calls /\ Disturbing /\ faults' \in Nat /\ id # 0
    BY <1>1, <1>2, <2>1 DEF Calls, Disturbing, NoFault
  <2>3. subs' \in Seq(Subscription) /\ Later /\ Loses(0) /\ Answers(key, id)
    BY <1>1, <1>2, EnsureSubs
  <2> QED
    BY <2>2, <2>3 DEF Answers
<1>3. CASE id = 0 /\ Fault({j}) /\ UNCHANGED subs
  BY <1>1, <1>3 DEF Fault, Disturbs, Calls, Disturbing, Later, Loses
<1>4. ASSUME id = 0, Fault({j}), NEW i \in 1..Len(subs) + 1, Ensure(key, i)
      PROVE  /\ Calls /\ Disturbing /\ faults' \in Nat
             /\ subs' \in Seq(Subscription) /\ Later /\ Loses(0) /\ id \in 0..Len(subs')
             /\ id # 0 => Answers(key, id)
             /\ id = 0 => j \in disturbed'
  <2>1. subs' \in Seq(Subscription) /\ Later /\ Loses(0)
    BY <1>1, <1>4, EnsureSubs
  <2>2. Len(subs') \in Nat
    BY <2>1, LenProperties
  <2> QED
    BY <1>1, <1>4, <2>1, <2>2 DEF Fault, Disturbs, Calls, Disturbing
<1> QED
  BY <1>2, <1>3, <1>4 DEF Subscribe

\* A removal loses the one subscription, and surely so if it succeeded.
LEMMA UnsubscribeCall ==
    ASSUME TypesOK, NEW j \in Jobs, NEW id \in 0..Len(subs), NEW ok \in BOOLEAN,
           Unsubscribe(j, id, ok)
    PROVE  /\ Calls /\ Disturbing /\ faults' \in Nat
           /\ subs' \in Seq(Subscription) /\ Later /\ Loses(id) /\ Len(subs') = Len(subs)
           /\ id # 0 /\ ok => subs'[id].record = "none"
           /\ ~ok => j \in disturbed'
<1>1. subs \in Seq(Subscription) /\ Len(subs) \in Nat /\ faults \in Nat /\ disturbed \subseteq Jobs
  BY LenProperties DEF TypesOK
<1>2. CASE ~ok /\ Fault({j}) /\ UNCHANGED subs
  BY <1>1, <1>2 DEF Fault, Disturbs, Calls, Disturbing, Later, Loses
<1>3. CASE \/ ok /\ RemoveSubscription(id) /\ NoFault
           \/ ~ok /\ Fault({j}) /\ RemoveFails(id)
  <2>1. Calls /\ Disturbing /\ faults' \in Nat /\ (~ok => j \in disturbed')
    BY <1>1, <1>3 DEF Fault, Disturbs, NoFault, Calls, Disturbing
  <2>2. OneChanges(id) /\ Later /\ Loses(id) /\ (id \in 1..Len(subs) => subs'[id].record = "none")
    BY <1>1, <1>3, RemoveSubs
  <2> QED
    BY <1>1, <2>1, <2>2 DEF OneChanges
<1> QED
  BY <1>2, <1>3 DEF Unsubscribe

\* Without a call nothing of the runtime changes.
LEMMA NoCall ==
    ASSUME TypesOK, UNCHANGED subs, NEW S \in SUBSET Jobs, NoFault \/ Fault(S)
    PROVE  /\ Calls /\ Disturbing /\ faults' \in Nat /\ Later /\ Loses(0)
           /\ NoFault \/ S \subseteq disturbed'
  BY LenProperties DEF TypesOK, Fault, Disturbs, NoFault, Calls, Disturbing, Later, Loses

\* Without an answer nothing is shared that was not shared before.
LEMMA SharesNothing ==
    ASSUME UNCHANGED shared, NEW j PROVE Shares(j, 0)
  BY DEF Shares, Sharers

\* What has its type has it after a step, too.
LEMMA Typed ==
    ASSUME TypesOK, subs' \in Seq(Subscription), Later
    PROVE  /\ \A p \in Requests: requests[p] \in RequestType'
           /\ \A i \in Jobs: jobs[i] \in Rows'
           /\ NoRow \in Rows' /\ Idle \in RequestType' /\ 0 \in 0..Len(subs')
           /\ \A row \in Rows: row \in Rows'
<1>1. subs \in Seq(Subscription) /\ Len(subs) \in Nat /\ Len(subs') \in Nat /\ Len(subs) <= Len(subs')
  BY LenProperties DEF TypesOK, Later
<1>2. NoRow \in Rows'
  BY <1>1 DEF NoRow, Rows
<1>3. Idle \in RequestType'
  BY <1>1, <1>2 DEF Idle, RequestType, Stages
<1> QED
  BY <1>1, <1>2, <1>3, Widens DEF TypesOK

\* What a request that nothing disturbs finds.
LEMMA Finds ==
    ASSUME IInv, NEW q \in Requests, ~At(q, "idle"), NEW j, j = requests[q].job, j \notin disturbed
    PROVE  /\ StageOK(q) /\ Has(jobs[j].key, jobs[j].sub)
           /\ j \notin shared =>
                 /\ jobs[j].sub # 0 /\ requests[q].at \notin {"set", "erase"} =>
                       subs[jobs[j].sub].record # "none"
                 /\ requests[q].at \in {"insert", "replace", "set"} /\ requests[q].id # 0 =>
                       subs[requests[q].id].record # "none"
<1>1. /\ j \in Jobs /\ StageOK(q) /\ ~Syncing(j)
      /\ \A p \in Requests: ~At(p, "idle") /\ requests[p].job = j => p = q
  BY DEF IInv, FormOK, RequestsOK
<1>2. Has(jobs[j].key, jobs[j].sub)
  BY <1>1 DEF IInv, RowsOK
<1>3. requests[q].at \notin {"set", "erase"} => ~Losing(j)
  <2>1. worker.at \in {"subscribe", "store"} => worker.job # j
    BY <1>1 DEF IInv, FormOK, Syncing
  <2> QED
    BY <1>1, <2>1 DEF Losing, At
<1> QED
  BY <1>1, <1>2, <1>3 DEF IInv, LiveOK

\* The fields of the records that rows and requests are made of.
LEMMA Records ==
    /\ NoRow.is = FALSE /\ NoRow.enabled = FALSE /\ NoRow.sub = 0
    /\ Idle.at = "idle" /\ Idle.id = 0 /\ Idle.prev = NoRow /\ Idle.upd = NoRow
    /\ \A enabled, key, sub: /\ Row(enabled, key, sub).is = TRUE
                             /\ Row(enabled, key, sub).enabled = enabled
                             /\ Row(enabled, key, sub).key = key
                             /\ Row(enabled, key, sub).sub = sub
  BY DEF NoRow, Idle, Row

\* A job without a row has no subscription.
LEMMA NoRowOf ==
    ASSUME FormOK, NEW j \in Jobs, ~jobs[j].is
    PROVE  jobs[j] = NoRow /\ jobs[j].sub = 0
<1>1. jobs[j] = NoRow
  BY DEF FormOK
<1> QED
  BY <1>1, Records

\* A creation begins with the subscription, before there is a row.
LEMMA CreateStep ==
    ASSUME IInv, NEW q \in Requests, Create(q)
    PROVE  IInv'
<1>t. TypesOK /\ FormOK /\ RowsOK /\ SyncOK
  BY DEF IInv
<1>0. PICK j \in Jobs, key \in Keys, id \in 0..Len(subs) + 1:
         /\ At(q, "idle") /\ ~jobs[j].is /\ Active(j) = {}
         /\ Subscribe(j, key, id)
         /\ Shares(j, id)
         /\ Goes(q, IF id = 0 THEN Idle
                    ELSE [Idle EXCEPT !.at = "insert", !.job = j, !.key = key, !.id = id])
         /\ UNCHANGED <<jobs, worker, stream, events>>
  BY DEF Create, Comes
<1>1. /\ Calls /\ Disturbing /\ faults' \in Nat
      /\ subs' \in Seq(Subscription) /\ Later /\ Loses(0) /\ id \in 0..Len(subs')
      /\ id # 0 => Answers(key, id)
      /\ id = 0 => j \in disturbed'
  BY <1>t, <1>0, SubscribeCall
<1>2. jobs[j] = NoRow /\ jobs[j].sub = 0
  BY <1>t, <1>0, NoRowOf
<1>s. SUFFICES ASSUME NEW s, s = IF id = 0 THEN Idle
                  ELSE [Idle EXCEPT !.at = "insert", !.job = j, !.key = key, !.id = id]
             PROVE  IInv'
  OBVIOUS
<1>f. IF id = 0 THEN s = Idle
      ELSE /\ s.at = "insert" /\ s.job = j /\ s.key = key /\ s.id = id
           /\ s.prev.sub = 0 /\ s.upd.sub = 0
  BY <1>s DEF Idle, NoRow
<1>r. s \in RequestType'
  <2>1. [Idle EXCEPT !.at = "insert", !.job = j, !.key = key, !.id = id] \in RequestType'
    BY <1>t, <1>1, Typed DEF RequestType, Stages, Idle
  <2> QED
    BY <1>t, <1>1, <1>s, <2>1, Typed
<1>3. requests'[q] = s /\ \A p \in Requests: p # q => requests'[p] = requests[p]
  BY <1>t, <1>0, <1>s DEF TypesOK, Goes
<1>4. requests' \in [Requests -> RequestType'] /\ jobs' \in [Jobs -> Rows']
  BY <1>t, <1>0, <1>1, <1>s, <1>r, Typed DEF TypesOK, Goes
<1>5. OnJob(j, id)
  BY <1>0, <1>1, <1>2, <1>4, Records DEF OnJob, Loses
<1>6. ByRequest(q, j, id)
  <2>1. Quiet(j)
    BY <1>0 DEF Quiet, Active, At
  <2>2. j \notin disturbed' => ~Syncing(j)
    BY <1>t, <1>0, <1>1 DEF Disturbing, SyncOK, Syncing
  <2>3. Known(q)' \subseteq {0, id}
    BY <1>3, <1>f DEF Known, At, Idle
  <2> QED
    BY <1>0, <1>2, <1>3, <1>4, <1>5, <1>f, <2>1, <2>2, <2>3, Records DEF ByRequest, At
<1>7. Formed(q)'
  BY <1>3, <1>f, Records DEF Formed, At
<1>8. LeavesRight(q, j)
  BY <1>0, <1>1, <1>2, <1>3, <1>f DEF LeavesRight, StageOK, Has, Answers
<1>9. LeavesLive(q, j)
  BY <1>0, <1>1, <1>2, <1>3, <1>f DEF LeavesLive, Answers
<1>10. LeavesKept(q, j)
  BY <1>0, <1>1, <1>2, <1>3, <1>f DEF LeavesKept, Holds, At, Answers
<1> QED
  BY <1>6, <1>7, <1>8, <1>9, <1>10, RequestStep

\* A step of a request that is under way, which leaves the request as s and the
\* row as row, and takes away the subscription l at most.
ContinuesWith(q, j, row, s, n, l) ==
    /\ ~At(q, "idle") /\ j = requests[q].job
    /\ Calls /\ Disturbing /\ faults' \in Nat /\ Later /\ subs' \in Seq(Subscription)
    /\ Loses(l) /\ (l = 0 \/ Refers(j, l))
    /\ Shares(j, n) /\ UNCHANGED worker /\ Goes(q, s)
    /\ (UNCHANGED <<jobs, stream>> /\ row = jobs[j]) \/ WriteRow(j, row)
    /\ row \in Rows' /\ (row.is => row.key \in Keys) /\ (~row.is => row = NoRow)
    /\ row.sub \in Known(q) \cup {0, n, jobs[j].sub}
    /\ s \in RequestType'
    /\ s.at # "idle" =>
          s.job = j /\ {s.id, s.prev.sub, s.upd.sub} \subseteq Known(q) \cup {0, n, jobs[j].sub}

\* A step of a request under way writes its own record and the row of its job only.
LEMMA Continued ==
    ASSUME TypesOK, FormOK, NEW q \in Requests, NEW j, NEW row, NEW s, NEW n, NEW l,
           ContinuesWith(q, j, row, s, n, l)
    PROVE  ByRequest(q, j, n) /\ requests'[q] = s /\ jobs'[j] = row
<1> USE DEF ContinuesWith
<1>1. j \in Jobs
  BY DEF FormOK
<1>2. /\ requests'[q] = s /\ \A p \in Requests: p # q => requests'[p] = requests[p]
      /\ jobs'[j] = row /\ \A i \in Jobs: i # j => jobs'[i] = jobs[i]
  BY <1>1 DEF TypesOK, Goes, WriteRow
<1>3. jobs' \in [Jobs -> Rows'] /\ requests' \in [Requests -> RequestType']
  <2>1. /\ \A p \in Requests: requests[p] \in RequestType'
        /\ \A i \in Jobs: jobs[i] \in Rows'
    BY Typed
  <2>2. jobs' \in [Jobs -> Rows']
    BY <1>1, <2>1 DEF TypesOK, WriteRow
  <2>3. requests' \in [Requests -> RequestType']
    BY <2>1 DEF TypesOK, Goes
  <2> QED
    BY <2>2, <2>3
<1>4. IF row.is THEN row.key \in Keys ELSE row = NoRow
  OBVIOUS
<1>5. OnJob(j, n)
  <2>1. \A i \in 1..Len(subs): subs[i].record # "none" => subs'[i].record # "none" \/ Refers(j, i)
    BY DEF Loses
  <2>2. UNCHANGED <<jobs, stream>> \/ WriteRow(j, jobs'[j])
    BY <1>2
  <2> QED
    BY <1>2, <1>3, <1>4, <2>1, <2>2 DEF OnJob
<1>6. Known(q)' \subseteq Known(q) \cup {0, n, jobs[j].sub}
  <2>1. Known(q)' = IF s.at = "idle" THEN {} ELSE {s.id, s.prev.sub, s.upd.sub}
    BY <1>2 DEF Known, At
  <2> QED
    BY <2>1
<1> QED
  BY <1>2, <1>3, <1>5, <1>6 DEF ByRequest

\* The row takes the subscription, or the request is left with it to undo.
LEMMA InsertStep ==
    ASSUME IInv, NEW q \in Requests, Insert(q)
    PROVE  IInv'
<1>t. TypesOK /\ FormOK
  BY DEF IInv
<1>j. SUFFICES ASSUME NEW j, j = requests[q].job
             PROVE  IInv'
  OBVIOUS
<1>0. /\ requests[q].at = "insert" /\ ~At(q, "idle") /\ j \in Jobs
      /\ requests[q].key \in Keys /\ requests[q].id # 0
      /\ UNCHANGED <<subs, worker, shared>>
  BY <1>t, <1>j DEF Insert, At, FormOK
<1>c. PICK row \in {Row(TRUE, requests[q].key, requests[q].id), jobs[j]},
            s \in {Idle, [requests[q] EXCEPT !.at = "undo"]}:
         \/ /\ row = Row(TRUE, requests[q].key, requests[q].id) /\ s = Idle
            /\ WriteRow(j, row) /\ NoFault /\ Goes(q, s)
         \/ /\ row = jobs[j] /\ s = [requests[q] EXCEPT !.at = "undo"]
            /\ Fault({}) /\ Goes(q, s) /\ UNCHANGED <<jobs, stream>>
  BY <1>j DEF Insert, Ends
<1>1. Calls /\ Disturbing /\ faults' \in Nat /\ Later /\ Loses(0) /\ subs' \in Seq(Subscription)
  BY <1>t, <1>0, <1>c, NoCall DEF TypesOK
<1>l. Shares(j, 0)
  BY <1>0, SharesNothing
<1>3. row \in Rows' /\ s \in RequestType'
  <2>1. requests[q] \in RequestType' /\ jobs[j] \in Rows'
    BY <1>t, <1>0, <1>1, Typed
  <2>2. Row(TRUE, requests[q].key, requests[q].id) \in Rows'
    BY <1>0, <2>1 DEF Row, Rows, RequestType
  <2>3. [requests[q] EXCEPT !.at = "undo"] \in RequestType'
    BY <2>1 DEF RequestType, Stages
  <2> QED
    BY <1>t, <1>0, <1>1, <1>c, <2>1, <2>2, <2>3, Typed
<1>s. \/ /\ s.at = "idle" /\ row.is /\ row.enabled /\ row.key = requests[q].key
         /\ row.sub = requests[q].id
      \/ /\ s.at = "undo" /\ s.job = j /\ s.id = requests[q].id /\ s.prev = requests[q].prev
         /\ s.upd = requests[q].upd /\ row = jobs[j]
  <2>1. requests[q] \in RequestType
    BY <1>t DEF TypesOK
  <2>2. CASE row = Row(TRUE, requests[q].key, requests[q].id) /\ s = Idle
    BY <2>2 DEF Row, Idle
  <2>3. CASE row = jobs[j] /\ s = [requests[q] EXCEPT !.at = "undo"]
    BY <1>j, <2>1, <2>3 DEF RequestType
  <2> QED
    BY <1>c, <2>2, <2>3
<1>4. (row.is => row.key \in Keys) /\ (~row.is => row = NoRow)
  BY <1>t, <1>0, <1>s DEF FormOK
<1>2. ByRequest(q, j, 0) /\ requests'[q] = s /\ jobs'[j] = row
  <2>1. s.at # "idle" => s.job = j /\ {s.id, s.prev.sub, s.upd.sub} \subseteq Known(q)
    BY <1>0, <1>s DEF Known
  <2>2. row.sub \in Known(q) \cup {jobs[j].sub}
    BY <1>0, <1>s DEF Known
  <2>3. Goes(q, s) /\ ((UNCHANGED <<jobs, stream>> /\ row = jobs[j]) \/ WriteRow(j, row))
    BY <1>c
  <2>4. ContinuesWith(q, j, row, s, 0, 0)
    BY <1>j, <1>0, <1>1, <1>l, <1>3, <1>4, <2>1, <2>2, <2>3 DEF ContinuesWith
  <2> QED
    BY <1>t, <2>4, Continued
<1>7. Formed(q)'
  BY <1>0, <1>2, <1>s DEF Formed, At
<1>f. j \notin disturbed' => j \notin disturbed
  BY <1>1 DEF Disturbing
<1>g. j \notin disturbed => /\ StageOK(q)
                            /\ j \notin shared => subs[requests[q].id].record # "none"
  BY <1>0, <1>j, Finds
<1>h. j \notin disturbed => ~jobs[j].is /\ jobs[j].enabled = FALSE /\ jobs[j].sub = 0
  BY <1>t, <1>0, <1>j, <1>g, NoRowOf, Records DEF StageOK
<1>8. LeavesRight(q, j)
  BY <1>0, <1>j, <1>2, <1>s, <1>f, <1>g, <1>h DEF LeavesRight, StageOK, Has
<1>9. LeavesLive(q, j)
  BY <1>0, <1>2, <1>s, <1>f, <1>g, <1>h DEF LeavesLive
<1>10. LeavesKept(q, j)
  BY <1>0, <1>2, <1>s, <1>f, <1>h DEF LeavesKept, Holds, At
<1> QED
  BY <1>0, <1>2, <1>7, <1>8, <1>9, <1>10, RequestStep

\* What is known of a request under way.
LEMMA UnderWay ==
    ASSUME TypesOK, FormOK, NEW q \in Requests, ~At(q, "idle"), NEW j, j = requests[q].job
    PROVE  /\ j \in Jobs /\ requests[q] \in RequestType /\ jobs[j] \in Rows
           /\ requests[q].prev \in Rows /\ requests[q].upd \in Rows
           /\ requests[q].id \in 0..Len(subs) /\ requests[q].prev.sub \in 0..Len(subs)
           /\ requests[q].upd.sub \in 0..Len(subs) /\ jobs[j].sub \in 0..Len(subs)
           /\ Known(q) = {requests[q].id, requests[q].prev.sub, requests[q].upd.sub}
           /\ Refers(j, requests[q].id) /\ Refers(j, requests[q].prev.sub)
           /\ Refers(j, requests[q].upd.sub)
           /\ jobs[j].is => jobs[j].key \in Keys
           /\ ~jobs[j].is => jobs[j] = NoRow
           /\ subs \in Seq(Subscription) /\ Len(subs) \in Nat
<1>1. requests[q] \in RequestType /\ j \in Jobs /\ jobs[j] \in Rows
  BY DEF TypesOK, FormOK
<1>2. requests[q].prev \in Rows /\ requests[q].upd \in Rows /\ requests[q].id \in 0..Len(subs)
  BY <1>1 DEF RequestType
<1>3. /\ requests[q].prev.sub \in 0..Len(subs)
      /\ requests[q].upd.sub \in 0..Len(subs) /\ jobs[j].sub \in 0..Len(subs)
  BY <1>1, <1>2 DEF Rows
<1>4. Known(q) = {requests[q].id, requests[q].prev.sub, requests[q].upd.sub}
  BY DEF Known
<1>5. q \in Active(j)
  BY DEF Active, At
<1>6. /\ Refers(j, requests[q].id) /\ Refers(j, requests[q].prev.sub)
      /\ Refers(j, requests[q].upd.sub)
  BY <1>5 DEF Refers
<1>7. (jobs[j].is => jobs[j].key \in Keys) /\ (~jobs[j].is => jobs[j] = NoRow)
  BY <1>1 DEF FormOK
<1> QED
  BY <1>1, <1>2, <1>3, <1>4, <1>6, <1>7, LenProperties DEF TypesOK

\* What was prepared is removed, and a failure disturbs the job.
LEMMA UndoStep ==
    ASSUME IInv, NEW q \in Requests, Undo(q)
    PROVE  IInv'
<1>t. TypesOK /\ FormOK
  BY DEF IInv
<1>j. SUFFICES ASSUME NEW j, j = requests[q].job, NEW id, id = requests[q].id
             PROVE  IInv'
  OBVIOUS
<1>0. /\ requests[q].at = "undo" /\ ~At(q, "idle") /\ UNCHANGED <<jobs, worker, stream, shared>>
      /\ Goes(q, Idle)
  BY DEF Undo, At, Ends
<1>u. /\ j \in Jobs /\ id \in 0..Len(subs) /\ Refers(j, id) /\ jobs[j] \in Rows /\ requests[q].id # 0
      /\ (jobs[j].is => jobs[j].key \in Keys) /\ (~jobs[j].is => jobs[j] = NoRow)
  BY <1>t, <1>j, <1>0, UnderWay DEF FormOK
<1>c. PICK ok \in BOOLEAN: Unsubscribe(j, id, ok)
  BY <1>j DEF Undo
<1>1. /\ Calls /\ Disturbing /\ faults' \in Nat
      /\ subs' \in Seq(Subscription) /\ Later /\ Loses(id) /\ Len(subs') = Len(subs)
      /\ id # 0 /\ ok => subs'[id].record = "none"
      /\ ~ok => j \in disturbed'
  BY <1>t, <1>u, <1>c, UnsubscribeCall
<1>2. ByRequest(q, j, 0) /\ requests'[q] = Idle /\ jobs'[j] = jobs[j]
  <2>1. PICK s \in {Idle}, row \in {jobs[j]}: s = Idle /\ row = jobs[j]
    OBVIOUS
  <2>2. s \in RequestType' /\ row \in Rows' /\ Shares(j, 0) /\ s.at = "idle"
    BY <1>t, <1>0, <1>1, <1>u, <2>1, Typed, Records, SharesNothing
  <2>3. /\ Goes(q, s) /\ UNCHANGED <<jobs, stream>> /\ row.sub \in {jobs[j].sub}
        /\ row.is => row.key \in Keys
        /\ ~row.is => row = NoRow
    BY <1>0, <1>u, <2>1
  <2>4. ContinuesWith(q, j, row, s, 0, id)
    BY <1>j, <1>0, <1>u, <1>1, <2>1, <2>2, <2>3 DEF ContinuesWith
  <2> QED
    BY <1>t, <2>1, <2>4, Continued
<1>7. Formed(q)'
  BY <1>2, Records DEF Formed, At
<1>g. j \notin disturbed' => /\ ~jobs[j].is /\ jobs[j].sub = 0 /\ jobs[j].enabled = FALSE /\ ok
  <2>1. j \notin disturbed' => j \notin disturbed /\ ok
    BY <1>1 DEF Disturbing
  <2>2. j \notin disturbed => ~jobs[j].is
    BY <1>0, <1>j, Finds DEF StageOK
  <2> QED
    BY <1>t, <1>u, <2>1, <2>2, NoRowOf, Records
<1>8. LeavesRight(q, j)
  BY <1>0, <1>2, <1>g, Records DEF LeavesRight
<1>9. LeavesLive(q, j)
  BY <1>2, <1>g, Records DEF LeavesLive
<1>10. LeavesKept(q, j)
  BY <1>0, <1>j, <1>u, <1>1, <1>2, <1>g DEF LeavesKept, Holds, At
<1> QED
  BY <1>u, <1>2, <1>7, <1>8, <1>9, <1>10, RequestStep

\* The beginning of a change or of a deletion reads the row.
LEMMA BeginStep ==
    ASSUME IInv, NEW q \in Requests, NEW j \in Jobs, NEW s, Begins(q, j), Goes(q, s),
           s \in RequestType, s.at \in {"prepare", "write", "release"}, s.job = j, s.id = 0,
           s.prev = jobs[j], s.upd = IF s.at = "release" THEN NoRow ELSE jobs[j],
           s.at # "release" => s.key \in Keys,
           s.at = "write" => s.change \in Changes /\ s.change.enabled \in BOOLEAN,
           UNCHANGED <<subs, jobs, worker, stream, faults, shared>>
    PROVE  IInv'
<1>t. TypesOK /\ FormOK /\ RowsOK
  BY DEF IInv
<1>0. At(q, "idle") /\ jobs[j].is /\ jobs[j].key \in Keys
  BY <1>t DEF Begins, Comes, FormOK
<1>1. Disturbing /\ (j \notin disturbed' => Quiet(j) /\ ~Syncing(j))
  BY <1>t DEF Begins, Disturbing, Active, Quiet, At, TypesOK
<1>2. /\ requests'[q] = s /\ \A p \in Requests: p # q => requests'[p] = requests[p]
  BY <1>t DEF TypesOK, Goes
<1>3. requests' \in [Requests -> RequestType'] /\ jobs' \in [Jobs -> Rows'] /\ faults' \in Nat
  <2>1. s \in RequestType'
    BY <1>t, LenProperties, Widens DEF TypesOK
  <2>2. subs' \in Seq(Subscription) /\ Later
    BY <1>t, LenProperties DEF TypesOK, Later
  <2> QED
    BY <1>t, <2>1, <2>2, Typed DEF TypesOK, Goes
<1>4. OnJob(j, 0)
  BY <1>0, <1>1, <1>3, SharesNothing DEF OnJob, Calls
<1>5. ByRequest(q, j, 0)
  <2>1. Known(q)' = {s.id, s.prev.sub, s.upd.sub}
    BY <1>2 DEF Known, At
  <2>2. s.upd.sub \in {0, jobs[j].sub}
    BY Records
  <2> QED
    BY <1>0, <1>1, <1>2, <1>3, <1>4, <2>1, <2>2 DEF ByRequest, At
<1>6. Formed(q)'
  BY <1>2 DEF Formed, At
<1>7. j \notin disturbed' =>
         /\ Has(jobs[j].key, jobs[j].sub) /\ Right(jobs[j])
         /\ j \notin shared => (jobs[j].sub # 0 => subs[jobs[j].sub].record # "none")
  <2>1. j \notin disturbed' => j \notin disturbed
    BY <1>1 DEF Disturbing
  <2>2. ~Syncing(j) => ~(worker.at \in {"subscribe", "store"} /\ worker.job = j)
    BY <1>t DEF FormOK, Syncing
  <2>3. Quiet(j) /\ ~Syncing(j) => ~Losing(j)
    BY <2>2, EventJobsAssumption DEF Losing, Quiet, At
  <2> QED
    BY <1>t, <1>1, <2>1, <2>3 DEF RowsOK, IInv, LiveOK
<1>8. LeavesRight(q, j)
  BY <1>0, <1>2, <1>7 DEF LeavesRight, StageOK, Has, Right
<1>9. LeavesLive(q, j)
  BY <1>2, <1>7 DEF LeavesLive
<1>10. LeavesKept(q, j)
  BY <1>0, <1>2 DEF LeavesKept, Holds, At
<1> QED
  BY <1>5, <1>6, <1>8, <1>9, <1>10, RequestStep

\* An update reads the row, which nobody else is changing unless it is disturbed.
LEMMA UpdateStep ==
    ASSUME IInv, NEW q \in Requests, Update(q)
    PROVE  IInv'
<1>t. TypesOK /\ FormOK
  BY DEF IInv
<1>0. PICK j \in Jobs, change \in Changes:
         /\ Begins(q, j)
         /\ Goes(q, [Idle EXCEPT !.at = IF change.enabled = Same THEN "prepare" ELSE "write",
                     !.job = j, !.change = change,
                     !.key = IF change.key = Same THEN jobs[j].key ELSE change.key,
                     !.prev = jobs[j], !.upd = jobs[j]])
         /\ UNCHANGED <<subs, jobs, worker, stream, faults, shared>>
  BY DEF Update
<1>1. /\ change.enabled \in BOOLEAN \cup {Same} /\ change.key \in Keys \cup {Same}
      /\ jobs[j].key \in Keys /\ jobs[j] \in Rows
  BY <1>t, <1>0, EventJobsAssumption DEF Begins, FormOK, TypesOK
<1>2. SUFFICES ASSUME NEW s, s = [Idle EXCEPT !.at = IF change.enabled = Same THEN "prepare"
                                 ELSE "write",
                     !.job = j, !.change = change,
                     !.key = IF change.key = Same THEN jobs[j].key ELSE change.key,
                     !.prev = jobs[j], !.upd = jobs[j]]
             PROVE  IInv'
  OBVIOUS
<1>3. /\ s.at = IF change.enabled = Same THEN "prepare" ELSE "write"
      /\ s.job = j /\ s.change = change /\ s.id = 0 /\ s.prev = jobs[j] /\ s.upd = jobs[j]
      /\ s.key = IF change.key = Same THEN jobs[j].key ELSE change.key
  BY <1>2 DEF Idle
<1>4. s \in RequestType
  <2>1. Idle \in RequestType
    BY <1>t, LenProperties DEF Idle, NoRow, Rows, RequestType, Stages, TypesOK
  <2> QED
    BY <1>1, <1>2, <2>1 DEF RequestType, Stages
<1>5. Goes(q, s)
  BY <1>0, <1>2
<1>6. /\ s.at \in {"prepare", "write", "release"} /\ s.at # "release" /\ s.key \in Keys
      /\ s.at = "write" => s.change \in Changes /\ s.change.enabled \in BOOLEAN
  BY <1>1, <1>3
<1> QED
  BY <1>0, <1>3, <1>4, <1>5, <1>6, BeginStep

\* A deletion reads the row.
LEMMA DeleteStep ==
    ASSUME IInv, NEW q \in Requests, Delete(q)
    PROVE  IInv'
<1>t. TypesOK /\ FormOK
  BY DEF IInv
<1>0. PICK j \in Jobs:
         /\ Begins(q, j)
         /\ Goes(q, [Idle EXCEPT !.at = "release", !.job = j, !.key = jobs[j].key,
                                 !.prev = jobs[j]])
         /\ UNCHANGED <<subs, jobs, worker, stream, faults, shared>>
  BY DEF Delete
<1>2. SUFFICES ASSUME NEW s,
                      s = [Idle EXCEPT !.at = "release", !.job = j, !.key = jobs[j].key, !.prev = jobs[j]]
             PROVE  IInv'
  OBVIOUS
<1>3. s.at = "release" /\ s.job = j /\ s.id = 0 /\ s.prev = jobs[j] /\ s.upd = NoRow
  BY <1>2 DEF Idle
<1>4. s \in RequestType
  <2>1. jobs[j] \in Rows /\ jobs[j].key \in Keys \cup {Same}
    BY <1>t DEF TypesOK, Rows
  <2>2. Idle \in RequestType
    BY <1>t, LenProperties DEF Idle, NoRow, Rows, RequestType, Stages, TypesOK
  <2> QED
    BY <1>2, <2>1, <2>2 DEF RequestType, Stages
<1>5. Goes(q, s)
  BY <1>0, <1>2
<1> QED
  BY <1>0, <1>3, <1>4, <1>5, BeginStep

\* Enabling or disabling leaves the subscription for a later step to put right.
LEMMA WriteStep ==
    ASSUME IInv, NEW q \in Requests, Write(q)
    PROVE  IInv'
<1>t. TypesOK /\ FormOK
  BY DEF IInv
<1>j. SUFFICES ASSUME NEW j, j = requests[q].job, NEW r, r = requests[q]
             PROVE  IInv'
  OBVIOUS
<1>0. /\ r.at = "write" /\ ~At(q, "idle") /\ UNCHANGED <<subs, worker, faults, disturbed, shared>>
      /\ r.key \in Keys /\ r.change.enabled \in BOOLEAN /\ r.id = 0
  BY <1>t, <1>j DEF Write, At, FormOK
<1>u. /\ j \in Jobs /\ jobs[j] \in Rows /\ (jobs[j].is => jobs[j].key \in Keys)
      /\ (~jobs[j].is => jobs[j] = NoRow) /\ Known(q) = {r.id, r.prev.sub, r.upd.sub}
  BY <1>t, <1>j, <1>0, UnderWay
<1>a. SUFFICES ASSUME NEW at, at = IF r.change.key = Same THEN "settle" ELSE "prepare"
             PROVE  IInv'
  OBVIOUS
<1>b. SUFFICES ASSUME NEW row, row = IF jobs[j].is THEN [jobs[j] EXCEPT !.enabled = r.change.enabled]
                                     ELSE jobs[j]
             PROVE  IInv'
  OBVIOUS
<1>d. SUFFICES ASSUME NEW s, s = IF jobs[j].is THEN [r EXCEPT !.at = at, !.change = Same, !.upd = row]
                                 ELSE Idle
             PROVE  IInv'
  OBVIOUS
<1>c. /\ Goes(q, s)
      /\ \/ jobs[j].is /\ WriteRow(j, row)
         \/ ~jobs[j].is /\ UNCHANGED <<jobs, stream>>
  <2>1. CASE jobs[j].is
    BY <1>j, <1>a, <1>b, <1>d, <2>1 DEF Write
  <2>2. CASE ~jobs[j].is
    BY <1>j, <1>d, <2>2 DEF Write, Ends
  <2> QED
    BY <2>1, <2>2
<1>1. Calls /\ Disturbing /\ faults' \in Nat /\ Later /\ Loses(0) /\ subs' \in Seq(Subscription)
  BY <1>t, <1>0, NoCall DEF TypesOK, NoFault
<1>3. /\ r \in RequestType' /\ jobs[j] \in Rows' /\ Shares(j, 0) /\ Idle \in RequestType'
      /\ at \in Stages /\ at \in {"settle", "prepare"}
  BY <1>t, <1>j, <1>u, <1>0, <1>1, <1>a, Typed, SharesNothing DEF Stages
<1>s. \/ /\ jobs[j].is /\ row \in Rows' /\ row.is /\ row.enabled = r.change.enabled
         /\ row.key = jobs[j].key /\ row.sub = jobs[j].sub
         /\ s \in RequestType' /\ s.at = at /\ s.job = r.job /\ s.key = r.key
         /\ s.prev = r.prev /\ s.upd = row /\ s.id = r.id
      \/ ~jobs[j].is /\ row = jobs[j] /\ row \in Rows' /\ s \in RequestType' /\ s.at = "idle"
  <2>1. CASE jobs[j].is
    <3>0. /\ row = [jobs[j] EXCEPT !.enabled = r.change.enabled]
          /\ s = [r EXCEPT !.at = at, !.change = Same, !.upd = row]
      BY <1>b, <1>d, <2>1
    <3>1. /\ row \in Rows' /\ row.is = jobs[j].is /\ row.enabled = r.change.enabled
          /\ row.key = jobs[j].key /\ row.sub = jobs[j].sub
      BY <1>0, <1>3, <3>0 DEF Rows
    <3>2. /\ s \in RequestType' /\ s.at = at /\ s.job = r.job /\ s.key = r.key
          /\ s.prev = r.prev /\ s.upd = row /\ s.id = r.id
      BY <1>3, <3>0, <3>1 DEF RequestType
    <3> QED
      BY <2>1, <3>1, <3>2
  <2>2. CASE ~jobs[j].is
    BY <1>b, <1>d, <1>3, <2>2, Records
  <2> QED
    BY <2>1, <2>2
<1>2. ByRequest(q, j, 0) /\ requests'[q] = s /\ jobs'[j] = row
  <2>1. /\ Goes(q, s)
        /\ (UNCHANGED <<jobs, stream>> /\ row = jobs[j]) \/ WriteRow(j, row)
    BY <1>b, <1>c
  <2>2. /\ row \in Rows' /\ (row.is => row.key \in Keys) /\ (~row.is => row = NoRow)
        /\ row.sub = jobs[j].sub /\ s \in RequestType'
        /\ s.at # "idle" => /\ s.job = j
                            /\ {s.id, s.prev.sub, s.upd.sub} \subseteq Known(q) \cup {jobs[j].sub}
    BY <1>j, <1>u, <1>s
  <2>3. ContinuesWith(q, j, row, s, 0, 0)
    BY <1>j, <1>0, <1>1, <1>3, <2>1, <2>2 DEF ContinuesWith
  <2> QED
    BY <1>t, <2>3, Continued
<1>7. Formed(q)'
  BY <1>0, <1>j, <1>u, <1>2, <1>3, <1>s DEF Formed, At
<1>g. j \notin disturbed' =>
         /\ StageOK(q) /\ Has(jobs[j].key, jobs[j].sub) /\ jobs[j].is
         /\ j \notin shared => (jobs[j].sub # 0 => subs[jobs[j].sub].record # "none")
  BY <1>0, <1>j, Finds DEF StageOK
<1>8. LeavesRight(q, j)
  <2> SUFFICES ASSUME j \notin disturbed'
               PROVE  /\ StageOK(q)'
                      /\ jobs'[j].sub # 0 => subs'[jobs'[j].sub].key = jobs'[j].key
                      /\ requests'[q].at # "idle"
    BY DEF LeavesRight
  <2>1. /\ row.is /\ row.key = jobs[j].key /\ row.sub = jobs[j].sub
        /\ s.at \in {"settle", "prepare"} /\ s.job = j /\ s.prev = r.prev /\ s.upd = row
    BY <1>j, <1>3, <1>s, <1>g
  <2>2. r.prev.sub = jobs[j].sub
    BY <1>0, <1>j, <1>g DEF StageOK
  <2>3. StageOK(q)'
    BY <1>2, <2>1, <2>2 DEF StageOK
  <2> QED
    BY <1>0, <1>2, <1>g, <2>1, <2>3 DEF Has
<1>9. LeavesLive(q, j)
  BY <1>0, <1>2, <1>s, <1>g DEF LeavesLive
<1>10. LeavesKept(q, j)
  BY <1>0, <1>j, <1>2, <1>s, <1>g DEF LeavesKept, Holds, At
<1> QED
  BY <1>u, <1>2, <1>7, <1>8, <1>9, <1>10, RequestStep

\* The new definition has its subscription before the row has it.
LEMMA PrepareStep ==
    ASSUME IInv, NEW q \in Requests, Prepare(q)
    PROVE  IInv'
<1>t. TypesOK /\ FormOK
  BY DEF IInv
<1>j. SUFFICES ASSUME NEW j, j = requests[q].job, NEW r, r = requests[q]
             PROVE  IInv'
  OBVIOUS
<1>0. /\ r.at = "prepare" /\ ~At(q, "idle") /\ UNCHANGED <<jobs, worker, stream>>
      /\ r.key \in Keys /\ r.id = 0
  BY <1>t, <1>j DEF Prepare, At, FormOK
<1>u. /\ j \in Jobs /\ jobs[j] \in Rows /\ (jobs[j].is => jobs[j].key \in Keys)
      /\ (~jobs[j].is => jobs[j] = NoRow) /\ Known(q) = {r.id, r.prev.sub, r.upd.sub}
      /\ Len(subs) \in Nat
  BY <1>t, <1>j, <1>0, UnderWay
<1>i. PICK id \in 0..Len(subs) + 1:
         /\ Shares(j, id)
         /\ Goes(q, IF r.upd.enabled /\ id = 0 THEN Idle
                    ELSE [r EXCEPT !.at = "replace", !.id = id])
         /\ \/ r.upd.enabled /\ Subscribe(j, r.key, id)
            \/ ~r.upd.enabled /\ id = 0 /\ NoFault /\ UNCHANGED subs
  <2>1. CASE r.upd.enabled
    BY <1>j, <2>1 DEF Prepare
  <2>2. CASE ~r.upd.enabled
    <3>1. Goes(q, [r EXCEPT !.at = "replace"]) /\ NoFault /\ UNCHANGED <<subs, shared>>
      BY <1>j, <2>2 DEF Prepare
    <3>2. [r EXCEPT !.at = "replace"] = [r EXCEPT !.at = "replace", !.id = 0]
      BY <1>t, <1>j, <1>0 DEF TypesOK, RequestType
    <3>3. 0 \in 0..Len(subs) + 1 /\ Shares(j, 0)
      BY <1>u, <3>1, SharesNothing
    <3> QED
      BY <2>2, <3>1, <3>2, <3>3
  <2> QED
    BY <2>1, <2>2
<1>e. SUFFICES ASSUME NEW s, s = IF r.upd.enabled /\ id = 0 THEN Idle
                                 ELSE [r EXCEPT !.at = "replace", !.id = id]
             PROVE  IInv'
  OBVIOUS
<1>c. /\ Shares(j, id) /\ Goes(q, s)
      /\ \/ r.upd.enabled /\ Subscribe(j, r.key, id)
         \/ ~r.upd.enabled /\ id = 0 /\ NoFault /\ UNCHANGED subs
      /\ s = IF r.upd.enabled /\ id = 0 THEN Idle ELSE [r EXCEPT !.at = "replace", !.id = id]
  BY <1>i, <1>e
<1>1. /\ Calls /\ Disturbing /\ faults' \in Nat
      /\ subs' \in Seq(Subscription) /\ Later /\ Loses(0) /\ id \in 0..Len(subs')
      /\ id # 0 => r.upd.enabled /\ Answers(r.key, id)
      /\ id = 0 => j \in disturbed' \/ (~r.upd.enabled /\ UNCHANGED subs)
  <2>1. CASE r.upd.enabled /\ Subscribe(j, r.key, id)
    BY <1>t, <1>0, <1>u, <2>1, SubscribeCall
  <2>2. CASE ~r.upd.enabled /\ id = 0 /\ NoFault /\ UNCHANGED subs
    <3>1. /\ Calls /\ Disturbing /\ faults' \in Nat /\ Later /\ Loses(0)
          /\ subs' \in Seq(Subscription)
      BY <1>t, <2>2, NoCall DEF TypesOK
    <3> QED
      BY <1>u, <2>2, <3>1
  <2> QED
    BY <1>c, <2>1, <2>2
<1>3. /\ r \in RequestType' /\ jobs[j] \in Rows' /\ Idle \in RequestType' /\ "replace" \in Stages
  BY <1>t, <1>j, <1>u, <1>1, Typed DEF Stages
<1>s. /\ s \in RequestType'
      /\ \/ s.at = "idle" /\ id = 0 /\ r.upd.enabled
         \/ /\ s.at = "replace" /\ s.job = j /\ s.key = r.key
            /\ s.prev = r.prev /\ s.upd = r.upd /\ s.id = id /\ (id = 0 => ~r.upd.enabled)
  <2>1. CASE r.upd.enabled /\ id = 0 /\ s = Idle
    BY <1>3, <2>1, Records
  <2>2. CASE s = [r EXCEPT !.at = "replace", !.id = id] /\ ~(r.upd.enabled /\ id = 0)
    BY <1>j, <1>1, <1>3, <2>2 DEF RequestType
  <2> QED
    BY <1>c, <2>1, <2>2
<1>2. ByRequest(q, j, id) /\ requests'[q] = s /\ jobs'[j] = jobs[j]
  <2>1. s.at # "idle" => /\ s.job = j
                         /\ {s.id, s.prev.sub, s.upd.sub} \subseteq Known(q) \cup {id}
    BY <1>j, <1>u, <1>s
  <2>2. ContinuesWith(q, j, jobs[j], s, id, 0)
    BY <1>j, <1>0, <1>u, <1>c, <1>1, <1>3, <1>s, <2>1 DEF ContinuesWith
  <2> QED
    BY <1>t, <2>2, Continued
<1>7. Formed(q)'
  BY <1>0, <1>2, <1>s, <1>u DEF Formed, At
<1>g. j \notin disturbed' =>
         /\ StageOK(q) /\ Has(jobs[j].key, jobs[j].sub) /\ jobs[j].is /\ r.upd = jobs[j]
         /\ j \notin shared' => (jobs[j].sub # 0 => subs[jobs[j].sub].record # "none")
  <2>1. /\ j \notin disturbed' => j \notin disturbed
        /\ j \notin shared' => j \notin shared
    BY <1>t, <1>c, <1>1, <1>u, SharesGrows DEF Disturbing
  <2>2. j \notin disturbed =>
         /\ StageOK(q) /\ Has(jobs[j].key, jobs[j].sub) /\ jobs[j].is /\ r.upd = jobs[j]
         /\ j \notin shared => (jobs[j].sub # 0 => subs[jobs[j].sub].record # "none")
    BY <1>0, <1>j, Finds DEF StageOK
  <2> QED
    BY <2>1, <2>2
<1>h. jobs[j].sub \in 0..Len(subs)
  BY <1>u DEF Rows
<1>8. LeavesRight(q, j)
  BY <1>0, <1>j, <1>1, <1>2, <1>s, <1>g, <1>h DEF LeavesRight, StageOK, Has, Answers, Later
<1>9. LeavesLive(q, j)
  BY <1>0, <1>1, <1>2, <1>s, <1>g, <1>h DEF LeavesLive, Answers, Loses
<1>10. LeavesKept(q, j)
  BY <1>0, <1>j, <1>1, <1>2, <1>s, <1>g DEF LeavesKept, Holds, At, Answers
<1> QED
  BY <1>u, <1>2, <1>7, <1>8, <1>9, <1>10, RequestStep

\* The row takes the new subscription, and the request keeps the old one to remove.
LEMMA ReplaceStep ==
    ASSUME IInv, NEW q \in Requests, Replace(q)
    PROVE  IInv'
<1>t. TypesOK /\ FormOK
  BY DEF IInv
<1>j. SUFFICES ASSUME NEW j, j = requests[q].job, NEW r, r = requests[q]
             PROVE  IInv'
  OBVIOUS
<1>0. /\ r.at = "replace" /\ ~At(q, "idle") /\ UNCHANGED <<subs, worker, shared>>
      /\ r.key \in Keys
  BY <1>t, <1>j DEF Replace, At, FormOK
<1>u. /\ j \in Jobs /\ jobs[j] \in Rows /\ (jobs[j].is => jobs[j].key \in Keys)
      /\ (~jobs[j].is => jobs[j] = NoRow) /\ Known(q) = {r.id, r.prev.sub, r.upd.sub}
      /\ r.id \in 0..Len(subs) /\ jobs[j].sub \in 0..Len(subs)
  BY <1>t, <1>j, <1>0, UnderWay
<1>a. SUFFICES ASSUME NEW new, new = Row(jobs[j].enabled, r.key, r.id)
             PROVE  IInv'
  OBVIOUS
<1>b. SUFFICES ASSUME NEW undo, undo = IF r.id = 0 THEN Idle ELSE [r EXCEPT !.at = "undo"]
             PROVE  IInv'
  OBVIOUS
<1>d. SUFFICES ASSUME NEW done, done = [r EXCEPT !.at = "settle", !.change = Same, !.upd = new]
             PROVE  IInv'
  OBVIOUS
<1>c. PICK row \in {new, jobs[j]}, s \in {done, undo}:
         \/ /\ jobs[j].is /\ NoFault /\ row = new /\ s = done
            /\ WriteRow(j, row) /\ Goes(q, s)
         \/ /\ row = jobs[j] /\ s = undo /\ Goes(q, s) /\ UNCHANGED <<jobs, stream>>
            /\ (~jobs[j].is /\ NoFault) \/ Fault({j})
  <2>1. \/ jobs[j].is /\ NoFault /\ WriteRow(j, new) /\ Goes(q, done)
        \/ /\ Goes(q, undo) /\ UNCHANGED <<jobs, stream>>
           /\ (~jobs[j].is /\ NoFault) \/ Fault({j})
    BY <1>j, <1>a, <1>b, <1>d DEF Replace
  <2> QED
    BY <2>1
<1>1. /\ Calls /\ Disturbing /\ faults' \in Nat /\ Later /\ Loses(0) /\ subs' \in Seq(Subscription)
      /\ NoFault \/ j \in disturbed'
  BY <1>t, <1>0, <1>u, <1>c, NoCall DEF TypesOK
<1>3. /\ r \in RequestType' /\ jobs[j] \in Rows' /\ Shares(j, 0) /\ Idle \in RequestType'
      /\ r.id \in 0..Len(subs')
  BY <1>t, <1>j, <1>u, <1>0, <1>1, Typed, SharesNothing
<1>4. /\ new \in Rows' /\ new.is /\ new.enabled = jobs[j].enabled /\ new.key = r.key
      /\ new.sub = r.id
  BY <1>0, <1>3, <1>a DEF Row, Rows
<1>5. /\ done \in RequestType' /\ done.at = "settle" /\ done.job = j /\ done.id = r.id
      /\ done.prev = r.prev /\ done.upd = new
  BY <1>j, <1>3, <1>4, <1>d DEF RequestType, Stages
<1>6. /\ undo \in RequestType'
      /\ undo.at # "idle" => /\ undo.at = "undo" /\ undo.job = j /\ undo.id = r.id /\ r.id # 0
                             /\ undo.prev = r.prev /\ undo.upd = r.upd
  BY <1>j, <1>3, <1>b, Records DEF RequestType, Stages
<1>2. ByRequest(q, j, 0) /\ requests'[q] = s /\ jobs'[j] = row
  <2>1. /\ Goes(q, s)
        /\ (UNCHANGED <<jobs, stream>> /\ row = jobs[j]) \/ WriteRow(j, row)
    BY <1>c
  <2>2. /\ row \in Rows' /\ (row.is => row.key \in Keys) /\ (~row.is => row = NoRow)
        /\ row.sub \in {jobs[j].sub} \cup Known(q) /\ s \in RequestType'
    BY <1>0, <1>u, <1>c, <1>3, <1>4, <1>5, <1>6
  <2>3. s.at # "idle" => s.job = j /\ {s.id, s.prev.sub, s.upd.sub} \subseteq Known(q)
    BY <1>u, <1>c, <1>4, <1>5, <1>6
  <2>4. ContinuesWith(q, j, row, s, 0, 0)
    BY <1>j, <1>0, <1>1, <1>3, <2>1, <2>2, <2>3 DEF ContinuesWith
  <2> QED
    BY <1>t, <2>4, Continued
<1>7. Formed(q)'
  BY <1>0, <1>c, <1>u, <1>2, <1>4, <1>5, <1>6 DEF Formed, At
<1>g. j \notin disturbed' =>
         /\ StageOK(q) /\ jobs[j].is
         /\ j \notin shared => (r.id # 0 => subs[r.id].record # "none")
  <2>1. j \notin disturbed' => j \notin disturbed
    BY <1>1 DEF Disturbing
  <2> QED
    BY <1>0, <1>j, <2>1, Finds DEF StageOK
<1>h. j \notin disturbed' => row = new /\ s = done
  BY <1>c, <1>g DEF Fault, Disturbs
<1>8. LeavesRight(q, j)
  <2> SUFFICES ASSUME j \notin disturbed'
               PROVE  /\ StageOK(q)'
                      /\ jobs'[j].sub # 0 => subs'[jobs'[j].sub].key = jobs'[j].key
                      /\ requests'[q].at # "idle"
    BY DEF LeavesRight
  <2>1. /\ r.id # 0 => subs[r.id].key = r.key
        /\ jobs[j].enabled <=> r.id # 0
    BY <1>0, <1>j, <1>g DEF StageOK, Has
  <2>2. StageOK(q)'
    BY <1>2, <1>4, <1>5, <1>h, <2>1 DEF StageOK, Right
  <2> QED
    BY <1>0, <1>2, <1>4, <1>5, <1>h, <2>1, <2>2
<1>9. LeavesLive(q, j)
  BY <1>0, <1>2, <1>4, <1>5, <1>g, <1>h DEF LeavesLive
<1>10. LeavesKept(q, j)
  <2> SUFFICES ASSUME disturbed' = {}, NEW i \in 1..Len(subs'), subs'[i].record # "none",
                      jobs[j].sub = i \/ Holds(q, i) \/ i \notin 1..Len(subs)
               PROVE  jobs'[j].sub = i \/ Holds(q, i)'
    BY DEF LeavesKept
  <2>1. r.prev.sub = jobs[j].sub
    BY <1>0, <1>j, <1>g DEF StageOK
  <2> QED
    BY <1>0, <1>j, <1>2, <1>4, <1>5, <1>h, <2>1 DEF Holds, At
<1> QED
  BY <1>u, <1>2, <1>7, <1>8, <1>9, <1>10, RequestStep

\* The subscription of the former definition is removed.
LEMMA SettleStep ==
    ASSUME IInv, NEW q \in Requests, Settle(q)
    PROVE  IInv'
<1>t. TypesOK /\ FormOK
  BY DEF IInv
<1>j. SUFFICES ASSUME NEW j, j = requests[q].job, NEW r, r = requests[q],
                      NEW id, id = requests[q].prev.sub
             PROVE  IInv'
  OBVIOUS
<1>0. /\ r.at = "settle" /\ ~At(q, "idle") /\ UNCHANGED <<jobs, worker, stream, shared>>
      /\ id # 0 /\ id # r.upd.sub /\ r.upd.is /\ r.upd.key \in Keys
  BY <1>t, <1>j DEF Settle, Left, At, FormOK
<1>u. /\ j \in Jobs /\ jobs[j] \in Rows /\ (jobs[j].is => jobs[j].key \in Keys)
      /\ (~jobs[j].is => jobs[j] = NoRow) /\ Known(q) = {r.id, r.prev.sub, r.upd.sub}
      /\ id \in 0..Len(subs) /\ jobs[j].sub \in 0..Len(subs) /\ Refers(j, id)
  BY <1>t, <1>j, <1>0, UnderWay
<1>a. PICK ok \in BOOLEAN:
         /\ Unsubscribe(j, id, ok)
         /\ Goes(q, IF ok THEN [r EXCEPT !.at = "resolve", !.prev = NoRow] ELSE Idle)
  BY <1>j DEF Settle, Ends
<1>c. SUFFICES ASSUME NEW s, s = IF ok THEN [r EXCEPT !.at = "resolve", !.prev = NoRow]
                                 ELSE Idle
             PROVE  IInv'
  OBVIOUS
<1>1. /\ Calls /\ Disturbing /\ faults' \in Nat
      /\ subs' \in Seq(Subscription) /\ Later /\ Loses(id) /\ Len(subs') = Len(subs)
      /\ id # 0 /\ ok => subs'[id].record = "none"
      /\ ~ok => j \in disturbed'
  BY <1>t, <1>u, <1>a, UnsubscribeCall
<1>3. /\ r \in RequestType' /\ jobs[j] \in Rows' /\ Shares(j, 0) /\ Idle \in RequestType'
      /\ NoRow \in Rows'
  BY <1>t, <1>j, <1>u, <1>0, <1>1, Typed, SharesNothing
<1>s. /\ s \in RequestType'
      /\ IF ok THEN /\ s.at = "resolve" /\ s.job = j /\ s.id = r.id /\ s.prev = NoRow
                    /\ s.upd = r.upd
         ELSE s.at = "idle"
  BY <1>j, <1>3, <1>c, Records DEF RequestType, Stages
<1>2. ByRequest(q, j, 0) /\ requests'[q] = s /\ jobs'[j] = jobs[j]
  <2>1. s.at # "idle" => s.job = j /\ {s.id, s.prev.sub, s.upd.sub} \subseteq Known(q) \cup {0}
    BY <1>u, <1>s, Records
  <2>2. Goes(q, s)
    BY <1>a, <1>c
  <2>3. ContinuesWith(q, j, jobs[j], s, 0, id)
    BY <1>j, <1>0, <1>u, <1>1, <1>3, <1>s, <2>1, <2>2 DEF ContinuesWith
  <2> QED
    BY <1>t, <2>3, Continued
<1>7. Formed(q)'
  BY <1>0, <1>u, <1>2, <1>s DEF Formed, At
<1>g. j \notin disturbed' =>
         /\ ok /\ StageOK(q) /\ Has(jobs[j].key, jobs[j].sub)
         /\ jobs[j].is /\ r.upd = jobs[j] /\ Right(jobs[j])
         /\ j \notin shared => (jobs[j].sub # 0 => subs[jobs[j].sub].record # "none")
  <2>1. j \notin disturbed' => j \notin disturbed /\ ok
    BY <1>1 DEF Disturbing
  <2> QED
    BY <1>0, <1>j, <2>1, Finds DEF StageOK
<1>8. LeavesRight(q, j)
  BY <1>0, <1>j, <1>1, <1>u, <1>2, <1>s, <1>g DEF LeavesRight, StageOK, Right, Has, Later
<1>9. LeavesLive(q, j)
  BY <1>0, <1>1, <1>u, <1>2, <1>s, <1>g DEF LeavesLive, Loses
<1>10. LeavesKept(q, j)
  BY <1>0, <1>j, <1>u, <1>1, <1>2, <1>g DEF LeavesKept, Holds, At
<1> QED
  BY <1>u, <1>2, <1>7, <1>8, <1>9, <1>10, RequestStep

\* A row that is not right gets its subscription or loses it.
LEMMA ResolveStep ==
    ASSUME IInv, NEW q \in Requests, Resolve(q)
    PROVE  IInv'
<1>t. TypesOK /\ FormOK
  BY DEF IInv
<1>j. SUFFICES ASSUME NEW j, j = requests[q].job, NEW r, r = requests[q]
             PROVE  IInv'
  OBVIOUS
<1>0. /\ r.at \in {"resolve", "settle"} /\ ~At(q, "idle") /\ UNCHANGED <<jobs, worker, stream>>
      /\ r.at = "settle" => r.prev.sub = 0 \/ r.prev.sub = r.upd.sub
      /\ r.upd.is /\ r.upd.key \in Keys
  BY <1>t, <1>j DEF Resolve, Left, At, FormOK
<1>u. /\ j \in Jobs /\ jobs[j] \in Rows /\ (jobs[j].is => jobs[j].key \in Keys)
      /\ (~jobs[j].is => jobs[j] = NoRow) /\ Known(q) = {r.id, r.prev.sub, r.upd.sub}
      /\ r.upd.sub \in 0..Len(subs) /\ jobs[j].sub \in 0..Len(subs) /\ Refers(j, r.upd.sub)
      /\ Len(subs) \in Nat
  BY <1>t, <1>j, <1>0, UnderWay
\* The job is unsubscribed, subscribed, or left alone; with a failure it ends here.
<1>a. PICK id \in 0..Len(subs) + 1, ok \in BOOLEAN:
         /\ Shares(j, id)
         /\ \/ /\ ~r.upd.enabled /\ r.upd.sub # 0 /\ id = 0 /\ Unsubscribe(j, r.upd.sub, ok)
               /\ Goes(q, IF ok THEN [Idle EXCEPT !.at = "set", !.job = r.job, !.key = r.upd.key,
                                                  !.id = id] ELSE Idle)
            \/ /\ r.upd.enabled /\ r.upd.sub = 0 /\ Subscribe(j, r.upd.key, id) /\ ok = (id # 0)
               /\ Goes(q, IF ok THEN [Idle EXCEPT !.at = "set", !.job = r.job, !.key = r.upd.key,
                                                  !.id = id] ELSE Idle)
            \/ /\ r.upd.enabled = (r.upd.sub # 0) /\ id = 0 /\ ok = FALSE
               /\ Goes(q, Idle) /\ NoFault /\ UNCHANGED subs
  <2>1. CASE ~r.upd.enabled /\ r.upd.sub # 0
    <3>1. PICK ok \in BOOLEAN:
             /\ Unsubscribe(j, r.upd.sub, ok)
             /\ Goes(q, IF ok THEN [Idle EXCEPT !.at = "set", !.job = r.job, !.key = r.upd.key,
                                                !.id = 0] ELSE Idle)
             /\ UNCHANGED shared
      BY <1>j, <2>1 DEF Resolve
    <3>2. 0 \in 0..Len(subs) + 1 /\ Shares(j, 0)
      BY <1>u, <3>1, SharesNothing
    <3> QED
      BY <2>1, <3>1, <3>2
  <2>2. CASE r.upd.enabled /\ r.upd.sub = 0
    <3>1. PICK id \in 0..Len(subs) + 1:
             /\ Subscribe(j, r.upd.key, id) /\ Shares(j, id)
             /\ Goes(q, IF id # 0 THEN [Idle EXCEPT !.at = "set", !.job = r.job,
                                                    !.key = r.upd.key, !.id = id] ELSE Idle)
      BY <1>j, <2>2 DEF Resolve
    <3>2. PICK ok \in BOOLEAN: ok = (id # 0)
      OBVIOUS
    <3> QED
      BY <2>2, <3>1, <3>2
  <2>3. CASE r.upd.enabled = (r.upd.sub # 0)
    <3>1. Goes(q, Idle) /\ NoFault /\ UNCHANGED <<subs, shared>>
      BY <1>j, <2>3 DEF Resolve, Ends
    <3>2. 0 \in 0..Len(subs) + 1 /\ Shares(j, 0)
      BY <1>u, <3>1, SharesNothing
    <3> QED
      BY <2>3, <3>1, <3>2
  <2>4. r.upd.enabled \in BOOLEAN
    BY <1>t, <1>j, <1>0, UnderWay DEF Rows
  <2> QED
    BY <2>1, <2>2, <2>3, <2>4
<1>c. SUFFICES ASSUME NEW s,
                      s = IF ok THEN [Idle EXCEPT !.at = "set", !.job = r.job, !.key = r.upd.key, !.id = id]
                  ELSE Idle
             PROVE  IInv'
  OBVIOUS
<1>d. Goes(q, s)
  BY <1>a, <1>c
<1>b. SUFFICES ASSUME NEW l, l = IF ~r.upd.enabled /\ r.upd.sub # 0 THEN r.upd.sub ELSE 0
             PROVE  IInv'
  OBVIOUS
<1>1. /\ Calls /\ Disturbing /\ faults' \in Nat
      /\ subs' \in Seq(Subscription) /\ Later /\ Loses(l) /\ id \in 0..Len(subs')
      /\ id # 0 => Answers(r.upd.key, id) /\ r.upd.enabled /\ r.upd.sub = 0 /\ ok
      /\ id = 0 => Len(subs') = Len(subs) \/ j \in disturbed'
      /\ l # 0 /\ ok => subs'[l].record = "none"
      /\ ~ok => j \in disturbed' \/ r.upd.enabled = (r.upd.sub # 0)
      /\ ok => r.upd.enabled # (r.upd.sub # 0)
  <2>1. CASE ~r.upd.enabled /\ r.upd.sub # 0 /\ id = 0 /\ Unsubscribe(j, r.upd.sub, ok)
    <3>1. l = r.upd.sub
      BY <1>b, <2>1
    <3>2. /\ Calls /\ Disturbing /\ faults' \in Nat
          /\ subs' \in Seq(Subscription) /\ Later /\ Loses(l) /\ Len(subs') = Len(subs)
          /\ l # 0 /\ ok => subs'[l].record = "none"
          /\ ~ok => j \in disturbed'
      BY <1>t, <1>u, <2>1, <3>1, UnsubscribeCall
    <3> QED
      BY <1>u, <2>1, <3>2
  <2>2. CASE r.upd.enabled /\ r.upd.sub = 0 /\ Subscribe(j, r.upd.key, id) /\ ok = (id # 0)
    <3>1. l = 0
      BY <1>b, <2>2
    <3>2. /\ Calls /\ Disturbing /\ faults' \in Nat
          /\ subs' \in Seq(Subscription) /\ Later /\ Loses(0) /\ id \in 0..Len(subs')
          /\ id # 0 => Answers(r.upd.key, id)
          /\ id = 0 => j \in disturbed'
      BY <1>t, <1>0, <1>u, <2>2, SubscribeCall
    <3> QED
      BY <2>2, <3>1, <3>2
  <2>3. CASE r.upd.enabled = (r.upd.sub # 0) /\ id = 0 /\ ok = FALSE /\ NoFault /\ UNCHANGED subs
    <3>1. l = 0
      BY <1>b, <2>3
    <3>2. /\ Calls /\ Disturbing /\ faults' \in Nat /\ Later /\ Loses(0)
          /\ subs' \in Seq(Subscription)
      BY <1>t, <2>3, NoCall DEF TypesOK
    <3> QED
      BY <1>u, <2>3, <3>1, <3>2
  <2> QED
    BY <1>a, <2>1, <2>2, <2>3
<1>3. jobs[j] \in Rows' /\ Idle \in RequestType'
  BY <1>t, <1>u, <1>1, Typed
<1>s. /\ s \in RequestType'
      /\ IF ok THEN /\ s.at = "set" /\ s.job = j /\ s.id = id /\ s.prev.sub = 0 /\ s.upd.sub = 0
                    /\ s.key = r.upd.key
         ELSE s.at = "idle"
  <2>1. CASE ok
    <3>1. s = [Idle EXCEPT !.at = "set", !.job = j, !.key = r.upd.key, !.id = id]
      BY <1>j, <1>c, <2>1
    <3>2. s \in RequestType'
      BY <1>0, <1>1, <1>3, <1>u, <3>1 DEF RequestType, Stages
    <3> QED
      BY <2>1, <3>1, <3>2 DEF Idle, NoRow
  <2>2. CASE ~ok
    BY <1>c, <1>3, <2>2, Records
  <2> QED
    BY <2>1, <2>2
<1>2. ByRequest(q, j, id) /\ requests'[q] = s /\ jobs'[j] = jobs[j]
  <2>1. s.at # "idle" => s.job = j /\ {s.id, s.prev.sub, s.upd.sub} \subseteq {0, id}
    BY <1>s
  <2>2. l = 0 \/ Refers(j, l)
    BY <1>b, <1>u
  <2>3. ContinuesWith(q, j, jobs[j], s, id, l)
    BY <1>j, <1>0, <1>a, <1>d, <1>u, <1>1, <1>3, <1>s, <2>1, <2>2 DEF ContinuesWith
  <2> QED
    BY <1>t, <2>3, Continued
<1>7. Formed(q)'
  BY <1>u, <1>2, <1>s DEF Formed, At
<1>g. j \notin disturbed' =>
         /\ StageOK(q) /\ Has(jobs[j].key, jobs[j].sub) /\ jobs[j].is /\ r.upd = jobs[j]
         /\ j \notin shared' => (jobs[j].sub # 0 => subs[jobs[j].sub].record # "none")
  <2>1. /\ j \notin disturbed' => j \notin disturbed
        /\ j \notin shared' => j \notin shared
    BY <1>t, <1>a, <1>1, <1>u, SharesGrows DEF Disturbing
  <2> QED
    BY <1>0, <1>j, <2>1, Finds DEF StageOK
<1>8. LeavesRight(q, j)
  <2> SUFFICES ASSUME j \notin disturbed'
               PROVE  /\ s.at # "idle" => StageOK(q)'
                      /\ jobs'[j].sub # 0 => subs'[jobs'[j].sub].key = jobs'[j].key
                      /\ s.at = "idle" => (jobs'[j].enabled <=> jobs'[j].sub # 0)
    BY <1>2 DEF LeavesRight
  <2>1. jobs[j].sub # 0 => subs'[jobs[j].sub].key = jobs[j].key
    BY <1>u, <1>1, <1>g DEF Has, Later
  <2>2. s.at = "idle" => (jobs[j].enabled <=> jobs[j].sub # 0)
    BY <1>1, <1>s, <1>g
  <2>3. ASSUME s.at # "idle" PROVE StageOK(q)'
    <3>1. /\ s.at = "set" /\ s.job = j /\ s.id = id /\ s.key = jobs[j].key /\ ok
      BY <1>s, <1>g, <2>3
    <3>2. /\ id # 0 => subs'[id].key = jobs[j].key
          /\ jobs[j].enabled <=> id # 0
          /\ jobs[j].sub = 0 \/ subs'[jobs[j].sub].record = "none"
          /\ id # 0 => jobs[j].sub = 0
      BY <1>a, <1>b, <1>1, <1>g, <3>1 DEF Answers
    <3> QED
      BY <1>2, <1>g, <3>1, <3>2 DEF StageOK, Has, Gone
  <2> QED
    BY <1>2, <2>1, <2>2, <2>3
<1>9. LeavesLive(q, j)
  <2> SUFFICES ASSUME j \notin disturbed', j \notin shared'
               PROVE  /\ jobs[j].sub # 0 /\ s.at # "set" => subs'[jobs[j].sub].record # "none"
                      /\ s.at = "set" /\ s.id # 0 => subs'[s.id].record # "none"
    BY <1>2, <1>s DEF LeavesLive
  <2>1. ~ok => l = 0
    BY <1>b, <1>1
  <2> QED
    BY <1>u, <1>1, <1>s, <1>g, <2>1 DEF Loses, Answers
<1>10. LeavesKept(q, j)
  <2> SUFFICES ASSUME disturbed' = {}, NEW i \in 1..Len(subs'), subs'[i].record # "none",
                      jobs[j].sub = i \/ Holds(q, i) \/ i \notin 1..Len(subs)
               PROVE  jobs[j].sub = i \/ Holds(q, i)'
    BY <1>2 DEF LeavesKept
  <2>1. CASE i \notin 1..Len(subs)
    <3>1. id # 0 /\ i = id
      BY <1>1, <2>1 DEF Answers
    <3> QED
      BY <1>1, <1>2, <1>s, <3>1 DEF Holds
  <2>2. CASE Holds(q, i)
    BY <1>0, <1>j, <1>g, <2>2 DEF Holds, At
  <2> QED
    BY <2>1, <2>2
<1> QED
  BY <1>u, <1>2, <1>7, <1>8, <1>9, <1>10, RequestStep

\* The row takes the subscription the request was answered with, or none.
LEMMA SetStep ==
    ASSUME IInv, NEW q \in Requests, Set(q)
    PROVE  IInv'
<1>t. TypesOK /\ FormOK
  BY DEF IInv
<1>j. SUFFICES ASSUME NEW j, j = requests[q].job, NEW r, r = requests[q]
             PROVE  IInv'
  OBVIOUS
<1>0. r.at = "set" /\ ~At(q, "idle") /\ UNCHANGED <<subs, worker, shared>> /\ Goes(q, Idle)
  BY <1>j DEF Set, At, Ends
<1>u. /\ j \in Jobs /\ jobs[j] \in Rows /\ (jobs[j].is => jobs[j].key \in Keys)
      /\ (~jobs[j].is => jobs[j] = NoRow) /\ Known(q) = {r.id, r.prev.sub, r.upd.sub}
      /\ r.id \in 0..Len(subs) /\ jobs[j].sub \in 0..Len(subs)
  BY <1>t, <1>j, <1>0, UnderWay
<1>a. SUFFICES ASSUME NEW new, new = [jobs[j] EXCEPT !.sub = r.id]
             PROVE  IInv'
  OBVIOUS
<1>b. SUFFICES ASSUME NEW row, row = IF jobs[j].is /\ NoFault THEN new ELSE jobs[j]
             PROVE  IInv'
  OBVIOUS
<1>c. \/ jobs[j].is /\ NoFault /\ row = new /\ WriteRow(j, row)
      \/ /\ row = jobs[j] /\ UNCHANGED <<jobs, stream>>
         /\ (~jobs[j].is /\ NoFault) \/ (Fault({j}) /\ j \in disturbed')
  <2>1. CASE NoFault /\ SetSubscription(j, r.id)
    BY <1>j, <1>a, <1>b, <2>1 DEF SetSubscription
  <2>2. CASE Fault({j}) /\ UNCHANGED <<jobs, stream>>
    <3>1. ~NoFault
      BY <1>t, <2>2 DEF TypesOK, Fault, NoFault
    <3> QED
      BY <1>b, <2>2, <3>1 DEF Fault, Disturbs
  <2> QED
    BY <1>j, <2>1, <2>2 DEF Set
<1>1. /\ Calls /\ Disturbing /\ faults' \in Nat /\ Later /\ Loses(0) /\ subs' \in Seq(Subscription)
      /\ NoFault \/ j \in disturbed'
  BY <1>t, <1>0, <1>u, <1>c, NoCall DEF TypesOK
<1>3. jobs[j] \in Rows' /\ Shares(j, 0) /\ Idle \in RequestType' /\ r.id \in 0..Len(subs')
  BY <1>t, <1>u, <1>0, <1>1, Typed, SharesNothing
<1>4. /\ new \in Rows' /\ new.is = jobs[j].is /\ new.enabled = jobs[j].enabled
      /\ new.key = jobs[j].key /\ new.sub = r.id
  BY <1>3, <1>a DEF Rows
<1>2. ByRequest(q, j, 0) /\ requests'[q] = Idle /\ jobs'[j] = row
  <2>1. (UNCHANGED <<jobs, stream>> /\ row = jobs[j]) \/ WriteRow(j, row)
    BY <1>c
  <2>2. /\ row \in Rows' /\ (row.is => row.key \in Keys) /\ (~row.is => row = NoRow)
        /\ row.sub \in {jobs[j].sub} \cup Known(q)
    BY <1>u, <1>c, <1>3, <1>4
  <2>3. PICK s \in {Idle}: s = Idle
    OBVIOUS
  <2>4. s.at = "idle"
    BY <2>3, Records
  <2>5. ContinuesWith(q, j, row, s, 0, 0)
    BY <1>j, <1>0, <1>1, <1>3, <2>1, <2>2, <2>3, <2>4 DEF ContinuesWith
  <2> QED
    BY <1>t, <2>3, <2>5, Continued
<1>7. Formed(q)'
  BY <1>2, Records DEF Formed, At
<1>g. j \notin disturbed' =>
         /\ StageOK(q) /\ row = new
         /\ j \notin shared => (r.id # 0 => subs[r.id].record # "none")
  <2>1. j \notin disturbed' => j \notin disturbed
    BY <1>1 DEF Disturbing
  <2>2. j \notin disturbed' =>
         /\ StageOK(q) /\ jobs[j].is
         /\ j \notin shared => (r.id # 0 => subs[r.id].record # "none")
    BY <1>0, <1>j, <2>1, Finds DEF StageOK
  <2> QED
    BY <1>c, <2>2
<1>8. LeavesRight(q, j)
  BY <1>0, <1>j, <1>2, <1>4, <1>g, Records DEF LeavesRight, StageOK, Has
<1>9. LeavesLive(q, j)
  BY <1>0, <1>2, <1>4, <1>g, Records DEF LeavesLive
<1>10. LeavesKept(q, j)
  BY <1>0, <1>j, <1>2, <1>4, <1>g DEF LeavesKept, Holds, At, StageOK, Gone
<1> QED
  BY <1>u, <1>2, <1>7, <1>8, <1>9, <1>10, RequestStep

\* The subscription of a job to be deleted is removed before the row.
LEMMA ReleaseStep ==
    ASSUME IInv, NEW q \in Requests, Release(q)
    PROVE  IInv'
<1>t. TypesOK /\ FormOK
  BY DEF IInv
<1>j. SUFFICES ASSUME NEW j, j = requests[q].job, NEW r, r = requests[q],
                      NEW id, id = requests[q].prev.sub
             PROVE  IInv'
  OBVIOUS
<1>0. r.at = "release" /\ ~At(q, "idle") /\ UNCHANGED <<jobs, worker, stream, shared>>
  BY <1>j DEF Release, At
<1>u. /\ j \in Jobs /\ jobs[j] \in Rows /\ (jobs[j].is => jobs[j].key \in Keys)
      /\ (~jobs[j].is => jobs[j] = NoRow) /\ Known(q) = {r.id, r.prev.sub, r.upd.sub}
      /\ id \in 0..Len(subs) /\ jobs[j].sub \in 0..Len(subs) /\ Refers(j, id)
  BY <1>t, <1>j, <1>0, UnderWay
<1>a. PICK ok \in BOOLEAN:
         /\ Unsubscribe(j, id, ok)
         /\ Goes(q, IF ok THEN [r EXCEPT !.at = "erase", !.prev = NoRow] ELSE Idle)
  BY <1>j DEF Release, Ends
<1>c. SUFFICES ASSUME NEW s, s = IF ok THEN [r EXCEPT !.at = "erase", !.prev = NoRow] ELSE Idle
             PROVE  IInv'
  OBVIOUS
<1>1. /\ Calls /\ Disturbing /\ faults' \in Nat
      /\ subs' \in Seq(Subscription) /\ Later /\ Loses(id) /\ Len(subs') = Len(subs)
      /\ id # 0 /\ ok => subs'[id].record = "none"
      /\ ~ok => j \in disturbed'
  BY <1>t, <1>u, <1>a, UnsubscribeCall
<1>3. /\ r \in RequestType' /\ jobs[j] \in Rows' /\ Shares(j, 0) /\ Idle \in RequestType'
      /\ NoRow \in Rows'
  BY <1>t, <1>j, <1>u, <1>0, <1>1, Typed, SharesNothing
<1>s. /\ s \in RequestType'
      /\ IF ok THEN /\ s.at = "erase" /\ s.job = j /\ s.id = r.id /\ s.prev = NoRow
                    /\ s.upd = r.upd
         ELSE s.at = "idle"
  BY <1>j, <1>3, <1>c, Records DEF RequestType, Stages
<1>2. ByRequest(q, j, 0) /\ requests'[q] = s /\ jobs'[j] = jobs[j]
  <2>1. s.at # "idle" => s.job = j /\ {s.id, s.prev.sub, s.upd.sub} \subseteq Known(q) \cup {0}
    BY <1>u, <1>s, Records
  <2>2. Goes(q, s)
    BY <1>a, <1>c
  <2>3. ContinuesWith(q, j, jobs[j], s, 0, id)
    BY <1>j, <1>0, <1>u, <1>1, <1>3, <1>s, <2>1, <2>2 DEF ContinuesWith
  <2> QED
    BY <1>t, <2>3, Continued
<1>7. Formed(q)'
  BY <1>0, <1>u, <1>2, <1>s DEF Formed, At
<1>g. j \notin disturbed' =>
         /\ ok /\ StageOK(q) /\ Has(jobs[j].key, jobs[j].sub) /\ r.prev = jobs[j]
  <2>1. j \notin disturbed' => j \notin disturbed /\ ok
    BY <1>1 DEF Disturbing
  <2> QED
    BY <1>0, <1>j, <2>1, Finds DEF StageOK
<1>8. LeavesRight(q, j)
  BY <1>0, <1>j, <1>1, <1>u, <1>2, <1>s, <1>g DEF LeavesRight, StageOK, Gone, Has, Later
<1>9. LeavesLive(q, j)
  BY <1>2, <1>s, <1>g DEF LeavesLive
<1>10. LeavesKept(q, j)
  BY <1>0, <1>j, <1>u, <1>1, <1>2, <1>g DEF LeavesKept, Holds, At
<1> QED
  BY <1>u, <1>2, <1>7, <1>8, <1>9, <1>10, RequestStep

\* The row goes after its subscription.
LEMMA EraseStep ==
    ASSUME IInv, NEW q \in Requests, Erase(q)
    PROVE  IInv'
<1>t. TypesOK /\ FormOK
  BY DEF IInv
<1>j. SUFFICES ASSUME NEW j, j = requests[q].job, NEW r, r = requests[q]
             PROVE  IInv'
  OBVIOUS
<1>0. r.at = "erase" /\ ~At(q, "idle") /\ UNCHANGED <<subs, worker, shared>> /\ Goes(q, Idle)
  BY <1>j DEF Erase, At, Ends
<1>u. /\ j \in Jobs /\ jobs[j] \in Rows /\ (jobs[j].is => jobs[j].key \in Keys)
      /\ (~jobs[j].is => jobs[j] = NoRow)
  BY <1>t, <1>j, <1>0, UnderWay
<1>b. SUFFICES ASSUME NEW row, row = IF NoFault THEN NoRow ELSE jobs[j]
             PROVE  IInv'
  OBVIOUS
<1>c. \/ NoFault /\ row = NoRow /\ WriteRow(j, row)
      \/ /\ row = jobs[j] /\ UNCHANGED <<jobs, stream>> /\ Fault({j}) /\ j \in disturbed'
  <2>1. CASE NoFault /\ WriteRow(j, NoRow)
    BY <1>b, <2>1
  <2>2. CASE Fault({j}) /\ UNCHANGED <<jobs, stream>>
    <3>1. ~NoFault
      BY <1>t, <2>2 DEF TypesOK, Fault, NoFault
    <3> QED
      BY <1>b, <2>2, <3>1 DEF Fault, Disturbs
  <2> QED
    BY <1>j, <2>1, <2>2 DEF Erase
<1>1. /\ Calls /\ Disturbing /\ faults' \in Nat /\ Later /\ Loses(0) /\ subs' \in Seq(Subscription)
      /\ NoFault \/ j \in disturbed'
  BY <1>t, <1>0, <1>u, <1>c, NoCall DEF TypesOK
<1>3. jobs[j] \in Rows' /\ Shares(j, 0) /\ Idle \in RequestType' /\ NoRow \in Rows'
  BY <1>t, <1>u, <1>0, <1>1, Typed, SharesNothing
<1>2. ByRequest(q, j, 0) /\ requests'[q] = Idle /\ jobs'[j] = row
  <2>1. (UNCHANGED <<jobs, stream>> /\ row = jobs[j]) \/ WriteRow(j, row)
    BY <1>c
  <2>2. /\ row \in Rows' /\ (row.is => row.key \in Keys) /\ (~row.is => row = NoRow)
        /\ row.sub \in {0, jobs[j].sub}
    BY <1>u, <1>c, <1>3, Records
  <2>3. PICK s \in {Idle}: s = Idle
    OBVIOUS
  <2>4. s.at = "idle"
    BY <2>3, Records
  <2>5. ContinuesWith(q, j, row, s, 0, 0)
    BY <1>j, <1>0, <1>1, <1>3, <2>1, <2>2, <2>3, <2>4 DEF ContinuesWith
  <2> QED
    BY <1>t, <2>3, <2>5, Continued
<1>7. Formed(q)'
  BY <1>2, Records DEF Formed, At
<1>g. j \notin disturbed' => StageOK(q) /\ row = NoRow
  <2>1. j \notin disturbed' => j \notin disturbed
    BY <1>1 DEF Disturbing
  <2> QED
    BY <1>0, <1>c, <1>j, <2>1, Finds
<1>8. LeavesRight(q, j)
  BY <1>2, <1>g, Records DEF LeavesRight
<1>9. LeavesLive(q, j)
  BY <1>2, <1>g, Records DEF LeavesLive
<1>10. LeavesKept(q, j)
  BY <1>0, <1>j, <1>2, <1>g DEF LeavesKept, Holds, At, StageOK, Gone
<1> QED
  BY <1>u, <1>2, <1>7, <1>8, <1>9, <1>10, RequestStep

(***************************************************************************)
(* The worker's reconciliation                                             *)
(***************************************************************************)

WorkerFormed ==
    /\ worker.at \in {"down", "up"} => worker.left = {}
    /\ worker.at = "sync" => worker.left # {}
    /\ worker.at \in {"subscribe", "store"} => \E r \in worker.left: r.job = worker.job
    /\ worker.id # 0 <=> worker.at = "store"
    /\ worker.entry # 0 => worker.at = "up"
    /\ \A r, s \in worker.left: r.job = s.job => r = s

\* A step of the reconciliation of job j.
BySync(j, n) ==
    /\ OnJob(j, n) /\ UNCHANGED requests
    /\ worker' \in WorkerType' /\ worker'.entry = worker.entry
    /\ Syncing(j) /\ worker'.left \subseteq worker.left
    /\ worker.at \in {"subscribe", "store"} => worker.job = j
    /\ worker'.at \in {"subscribe", "store"} => worker'.job = j
    /\ worker'.id # 0 => worker'.job = j /\ worker'.id = n
    /\ jobs'[j].sub \in {0, jobs[j].sub} \/ (jobs'[j].sub = worker.id /\ worker.job = j)

SyncsRight(j) ==
    j \notin disturbed' =>
       /\ jobs'[j].sub # 0 => subs'[jobs'[j].sub].key = jobs'[j].key
       /\ Quiet(j) => (jobs'[j].enabled <=> jobs'[j].sub # 0)
       /\ \A r \in worker'.left: r.job = j =>
             /\ jobs'[j].is /\ jobs'[j].enabled
             /\ jobs'[j].key = r.key /\ jobs'[j].sub = r.sub
       /\ worker'.at \in {"subscribe", "store"} =>
             jobs'[j].sub = 0 \/ subs'[jobs'[j].sub].record = "none"
       /\ worker'.at = "store" => subs'[worker'.id].key = jobs'[j].key

SyncsLive(j) ==
    j \notin disturbed' \cup shared' =>
       /\ jobs'[j].sub # 0 /\ worker'.at \notin {"subscribe", "store"} =>
             subs'[jobs'[j].sub].record # "none"
       /\ worker'.at = "store" => subs'[worker'.id].record # "none"

SyncsKept(j) ==
    disturbed' = {} =>
       \A i \in 1..Len(subs'):
          /\ subs'[i].record # "none"
          /\ \/ jobs[j].sub = i \/ (worker.at = "store" /\ worker.id = i)
             \/ i \notin 1..Len(subs)
          => jobs'[j].sub = i \/ (worker'.at = "store" /\ worker'.id = i)

\* What the steps of the reconciliation keep by themselves.
LEMMA SyncFacts ==
    ASSUME IInv, NEW j \in Jobs, NEW n, BySync(j, n), WorkerFormed'
    PROVE  /\ subs' \in Seq(Subscription) /\ Later /\ SubsOK'
           /\ TypesOK' /\ FormOK' /\ StreamOK' /\ ApartOK'
<1> USE DEF IInv
<1>1. subs' \in Seq(Subscription) /\ Later /\ SubsOK'
  BY CallsSubs DEF TypesOK, BySync, OnJob
<1>2. stream' \in Seq(Entry') /\ Len(stream') = Len(stream) /\ StreamOK'
  BY <1>1, StreamStays DEF BySync
<1>3. TypesOK'
  <2>1. requests' \in [Requests -> RequestType']
    BY <1>1, Typed DEF TypesOK, BySync
  <2>2. shared' \subseteq Jobs
    BY SharesGrows DEF BySync, OnJob
  <2>3. disturbed' \subseteq Jobs
    BY DEF BySync, OnJob, Disturbing
  <2> QED
    BY <1>1, <1>2, <2>1, <2>2, <2>3 DEF TypesOK, BySync, OnJob
<1>4. FormOK'
  <2>1. \A i \in Jobs: IF jobs'[i].is THEN jobs'[i].key \in Keys ELSE jobs'[i] = NoRow
    BY DEF FormOK, BySync, OnJob
  <2>2. requests' = requests
    BY DEF BySync
  <2> QED
    BY <2>1, <2>2 DEF FormOK, WorkerFormed, At
<1>5. Learns(j, n)
  <2> SUFFICES ASSUME NEW i \in Jobs, NEW id \in 1..Len(subs'), Refers(i, id)',
                      ~(i = j /\ id = n)
               PROVE  Refers(i, id)
    BY DEF Learns
  <2>1. /\ requests' = requests /\ worker'.left \subseteq worker.left
        /\ \A k \in Jobs: k # j => jobs'[k] = jobs[k]
        /\ worker'.id # 0 => worker'.job = j /\ worker'.id = n
        /\ jobs'[j].sub \in {0, jobs[j].sub} \/ (jobs'[j].sub = worker.id /\ worker.job = j)
    BY DEF BySync, OnJob
  <2>2. id # 0
    OBVIOUS
  <2>3. CASE jobs'[i].sub = id
    BY <2>1, <2>2, <2>3 DEF Refers
  <2>4. CASE \E r \in worker'.left: r.job = i /\ r.sub = id
    BY <2>1, <2>4 DEF Refers
  <2>5. CASE worker'.job = i /\ worker'.id = id
    BY <2>1, <2>2, <2>5
  <2>6. CASE \E q \in Requests: /\ requests[q].at # "idle" /\ requests[q].job = i
                                /\ id \in {requests[q].id, requests[q].prev.sub, requests[q].upd.sub}
    BY <2>6 DEF Refers, Active
  <2> QED
    BY <2>1, <2>3, <2>4, <2>5, <2>6 DEF Refers, Active
<1>6. ApartOK'
  BY <1>1, <1>5, ApartStays DEF BySync
<1> QED
  BY <1>1, <1>2, <1>3, <1>4, <1>6

\* A step of the reconciliation keeps the invariant on the same terms as one of a request.
LEMMA SyncStep ==
    ASSUME IInv, NEW j \in Jobs, NEW n, BySync(j, n), WorkerFormed',
           SyncsRight(j), SyncsLive(j), SyncsKept(j)
    PROVE  IInv'
<1> USE DEF IInv
<1>1. /\ subs' \in Seq(Subscription) /\ Later /\ SubsOK'
      /\ TypesOK' /\ FormOK' /\ StreamOK' /\ ApartOK'
  BY SyncFacts
<1>2. /\ requests' = requests /\ disturbed \subseteq disturbed' /\ shared \subseteq shared'
      /\ worker'.left \subseteq worker.left
      /\ \A i \in Jobs: i # j => jobs'[i] = jobs[i]
      /\ worker.at \in {"subscribe", "store"} => worker.job = j
      /\ worker'.at \in {"subscribe", "store"} => worker'.job = j
      /\ Syncing(j)
  BY SharesGrows DEF BySync, OnJob, Disturbing
<1>3. j \notin disturbed' => Quiet(j)
  BY <1>2 DEF RequestsOK, Quiet
<1>4. /\ \A p \in Requests: ~At(p, "idle") => requests[p].job \in Jobs
      /\ \A i \in Jobs: jobs[i].sub \in 0..Len(subs)
      /\ \A p \in Requests: requests[p].id \in 0..Len(subs)
      /\ Len(subs) \in Nat
      /\ \A r \in worker.left: r.job \in Jobs
  BY LenProperties DEF TypesOK, FormOK, Rows, RequestType, WorkerType
<1>5. RequestsOK'
  <2> SUFFICES ASSUME NEW p \in Requests, requests'[p].at # "idle", requests'[p].job \notin disturbed'
               PROVE  /\ \A o \in Requests: requests'[o].at # "idle"
                            /\ requests'[o].job = requests'[p].job => o = p
                      /\ ~ \E r \in worker'.left: r.job = requests'[p].job
                      /\ StageOK(p)'
    BY DEF RequestsOK, At, Syncing
  <2>1. requests'[p] = requests[p] /\ ~At(p, "idle") /\ requests[p].job \notin disturbed
    BY <1>2 DEF At
  <2>2. requests[p].job # j
    BY <1>3, <1>2, <2>1 DEF Quiet
  <2>3. StageOK(p)'
    BY <1>1, <1>2, <1>4, <2>1, <2>2, StageStays DEF RequestsOK
  <2> QED
    BY <1>2, <2>1, <2>3 DEF RequestsOK, At, Syncing
<1>6. RowsOK'
  <2> SUFFICES ASSUME NEW i \in Jobs \ disturbed'
               PROVE  /\ jobs'[i].sub # 0 => subs'[jobs'[i].sub].key = jobs'[i].key
                      /\ Quiet(i) => (jobs'[i].enabled <=> jobs'[i].sub # 0)
    BY <1>2 DEF RowsOK, Has, Quiet, Right, At
  <2>1. CASE i = j
    BY <2>1 DEF SyncsRight
  <2>2. CASE i # j
    <3>1. jobs'[i] = jobs[i] /\ i \notin disturbed /\ jobs[i].sub \in 0..Len(subs)
      BY <1>2, <1>4, <2>2
    <3>2. /\ jobs[i].sub # 0 => subs[jobs[i].sub].key = jobs[i].key
          /\ Quiet(i) => (jobs[i].enabled <=> jobs[i].sub # 0)
      BY <3>1 DEF RowsOK, Has, Right
    <3>3. jobs[i].sub # 0 => subs'[jobs[i].sub].key = jobs[i].key
      BY <1>1, <1>4, <3>1, <3>2 DEF Later
    <3> QED
      BY <3>1, <3>2, <3>3
  <2> QED
    BY <2>1, <2>2
<1>7. SyncOK'
  <2>1. ASSUME NEW r \in worker'.left, r.job \notin disturbed'
        PROVE  /\ jobs'[r.job].is /\ jobs'[r.job].enabled
               /\ jobs'[r.job].key = r.key /\ jobs'[r.job].sub = r.sub
    <3>1. CASE r.job = j
      BY <2>1, <3>1 DEF SyncsRight
    <3>2. CASE r.job # j
      BY <1>2, <1>4, <2>1, <3>2 DEF SyncOK
    <3> QED
      BY <3>1, <3>2
  <2>2. ASSUME worker'.at \in {"subscribe", "store"}, worker'.job \notin disturbed'
        PROVE  /\ jobs'[worker'.job].sub = 0 \/ subs'[jobs'[worker'.job].sub].record = "none"
               /\ worker'.at = "store" => subs'[worker'.id].key = jobs'[worker'.job].key
    BY <1>2, <2>2 DEF SyncsRight
  <2> QED
    BY <2>1, <2>2 DEF SyncOK, Gone, Has
<1>8. LiveOK'
  <2> SUFFICES ASSUME NEW i \in Jobs, i \notin disturbed' \cup shared'
               PROVE  /\ jobs'[i].sub # 0 /\ ~Losing(i)' => subs'[jobs'[i].sub].record # "none"
                      /\ \A p \in Requests:
                            /\ requests'[p].at \in {"insert", "replace", "set"}
                            /\ requests'[p].job = i /\ requests'[p].id # 0
                            => subs'[requests'[p].id].record # "none"
                      /\ worker'.at = "store" /\ worker'.job = i => subs'[worker'.id].record # "none"
    BY DEF LiveOK
  <2>1. CASE i = j
    <3>1. ~Losing(i)' => worker'.at \notin {"subscribe", "store"}
      BY <1>2, <2>1 DEF Losing
    <3>2. \A p \in Requests: requests'[p].at \in {"insert", "replace", "set"} => requests'[p].job # i
      BY <1>2, <1>3, <2>1 DEF Quiet, At
    <3> QED
      BY <2>1, <3>1, <3>2 DEF SyncsLive
  <2>2. CASE i # j
    <3>1. i \notin disturbed /\ i \notin shared /\ jobs'[i] = jobs[i] /\ i \notin shared'
      BY <1>2, <2>2
    <3>2. \A id \in 1..Len(subs): Refers(i, id) /\ subs[id].record # "none"
                                     => subs'[id].record # "none"
      BY <2>2, OthersLive DEF BySync
    <3>3. Losing(i) => Losing(i)'
      BY <1>2, <2>2 DEF Losing
    <3>4. jobs[i].sub # 0 /\ ~Losing(i) => subs[jobs[i].sub].record # "none"
      BY <3>1 DEF LiveOK
    <3>5. Refers(i, jobs[i].sub)
      BY DEF Refers
    <3>6. jobs'[i].sub # 0 /\ ~Losing(i)' => subs'[jobs'[i].sub].record # "none"
      BY <1>4, <3>1, <3>2, <3>3, <3>4, <3>5
    <3>7. ASSUME NEW p \in Requests, requests[p].at \in {"insert", "replace", "set"},
                 requests[p].job = i, requests[p].id # 0
          PROVE  subs'[requests[p].id].record # "none"
      <4>1. Refers(i, requests[p].id) /\ subs[requests[p].id].record # "none"
        BY <3>1, <3>7 DEF Refers, Active, LiveOK
      <4> QED
        BY <1>4, <3>2, <3>7, <4>1
    <3> QED
      BY <1>2, <2>2, <3>6, <3>7
  <2> QED
    BY <2>1, <2>2
<1>9. KeptOK'
  <2> SUFFICES ASSUME disturbed' = {}, NEW i \in 1..Len(subs'), subs'[i].record # "none"
               PROVE  Kept(i)'
    BY <1>1, LenProperties DEF KeptOK, Ids
  <2>1. disturbed = {}
    BY <1>2
  <2>2. jobs'[j].sub = i \/ (worker'.at = "store" /\ worker'.id = i) => Kept(i)'
    BY DEF Kept
  <2>3. CASE jobs[j].sub = i \/ (worker.at = "store" /\ worker.id = i) \/ i \notin 1..Len(subs)
    BY <2>2, <2>3 DEF SyncsKept
  <2>4. CASE ~(jobs[j].sub = i \/ (worker.at = "store" /\ worker.id = i) \/ i \notin 1..Len(subs))
    <3>1. Kept(i)
      BY <1>1, <2>1, <2>4, SubsDomain DEF KeptOK, Later, TypesOK
    <3> QED
      BY <1>2, <2>4, <3>1 DEF Kept, At
  <2> QED
    BY <2>3, <2>4
<1> QED
  BY <1>1, <1>5, <1>6, <1>7, <1>8, <1>9

\* What the reconciliation finds of a row it has read.
LEMMA SyncFinds ==
    ASSUME IInv, NEW r \in worker.left, NEW j, j = r.job
    PROVE  /\ j \in Jobs /\ r.key \in Keys /\ r.sub \in 0..Len(subs) /\ Refers(j, r.sub)
           /\ Syncing(j) /\ jobs[j] \in Rows /\ jobs[j].sub \in 0..Len(subs)
           /\ jobs[j].is => jobs[j].key \in Keys
           /\ ~jobs[j].is => jobs[j] = NoRow
           /\ \A s \in worker.left: s.job = j => s = r
           /\ j \notin disturbed =>
                 /\ Quiet(j) /\ jobs[j].is /\ jobs[j].enabled /\ jobs[j].key = r.key
                 /\ jobs[j].sub = r.sub /\ Has(jobs[j].key, jobs[j].sub)
           /\ worker \in WorkerType
           /\ subs \in Seq(Subscription) /\ Len(subs) \in Nat
<1> USE DEF IInv
<1>1. j \in Jobs /\ r.key \in Keys /\ r.sub \in 0..Len(subs) /\ worker \in WorkerType
  BY DEF TypesOK, WorkerType
<1>2. /\ jobs[j] \in Rows /\ (jobs[j].is => jobs[j].key \in Keys)
      /\ ~jobs[j].is => jobs[j] = NoRow
  BY <1>1 DEF TypesOK, FormOK
<1>3. Syncing(j) /\ Refers(j, r.sub) /\ \A s \in worker.left: s.job = j => s = r
  BY DEF Syncing, Refers, FormOK
<1>4. j \notin disturbed =>
         /\ Quiet(j) /\ jobs[j].is /\ jobs[j].enabled /\ jobs[j].key = r.key
         /\ jobs[j].sub = r.sub /\ Has(jobs[j].key, jobs[j].sub)
  BY <1>1, <1>3 DEF RequestsOK, SyncOK, RowsOK, Quiet
<1> QED
  BY <1>1, <1>2, <1>3, <1>4, LenProperties DEF TypesOK, Rows

\* The reconciliation goes on to the next row.
LEMMA SyncedFields ==
    ASSUME IInv, NEW j, worker.at \in {"subscribe", "store"}, worker' = Synced(j),
           subs' \in Seq(Subscription), Later, Len(stream') = Len(stream)
    PROVE  /\ worker' \in WorkerType' /\ WorkerFormed' /\ worker'.entry = worker.entry
           /\ worker'.left = {r \in worker.left: r.job # j} /\ worker'.id = 0
           /\ worker'.at \in {"sync", "up"}
<1>1. worker \in WorkerType /\ Len(stream) \in Nat /\ Len(subs) \in Nat /\ Len(subs') \in Nat
  BY LenProperties DEF IInv, TypesOK
<1>2. SUFFICES ASSUME NEW left, left = {r \in worker.left: r.job # j}
             PROVE  /\ worker' \in WorkerType' /\ WorkerFormed' /\ worker'.entry = worker.entry
           /\ worker'.left = {r \in worker.left: r.job # j} /\ worker'.id = 0
           /\ worker'.at \in {"sync", "up"}
  OBVIOUS
<1>3. worker' = [worker EXCEPT !.at = IF left = {} THEN "up" ELSE "sync", !.left = left,
                               !.job = Same, !.id = 0]
  BY <1>2 DEF Synced
<1>4. /\ worker'.at = IF left = {} THEN "up" ELSE "sync"
      /\ worker'.left = left /\ worker'.id = 0 /\ worker'.entry = worker.entry
      /\ worker' \in WorkerType
  <2>1. left \in SUBSET [job: Jobs, key: Keys, sub: 0..Len(subs)]
    BY <1>1, <1>2 DEF WorkerType
  <2>2. PICK at \in {"sync", "up"}: at = IF left = {} THEN "up" ELSE "sync"
    OBVIOUS
  <2>3. worker' = [worker EXCEPT !.at = at, !.left = left, !.job = Same, !.id = 0]
    BY <1>3, <2>2
  <2>4. /\ worker'.at = at /\ worker'.left = left /\ worker'.id = 0
        /\ worker'.entry = worker.entry
    BY <1>1, <2>3 DEF WorkerType
  <2>5. worker' \in WorkerType
    <3>1. worker' = [at |-> at, left |-> left, job |-> Same, id |-> 0, entry |-> worker.entry]
      BY <1>1, <2>3 DEF WorkerType
    <3>2. worker.entry \in 0..Len(stream)
      BY <1>1 DEF WorkerType
    <3> QED
      BY <1>1, <2>1, <3>1, <3>2 DEF WorkerType
  <2> QED
    BY <2>2, <2>4, <2>5
<1>5. worker' \in WorkerType'
  BY <1>1, <1>4, Widens DEF IInv, TypesOK, Later
<1>6. WorkerFormed'
  <2>1. worker.entry = 0 /\ \A r, s \in worker.left: r.job = s.job => r = s
    BY DEF IInv, FormOK
  <2>2. worker'.entry = 0 /\ \A r, s \in worker'.left: r.job = s.job => r = s
    BY <1>2, <1>4, <2>1
  <2> QED
    BY <1>4, <2>2 DEF WorkerFormed
<1> QED
  BY <1>2, <1>4, <1>5, <1>6

\* The reconciliation removes the subscription of a row, or disturbs its job.
LEMMA SyncRemovesStep ==
    ASSUME IInv, SyncRemoves
    PROVE  IInv'
<1>a. PICK r \in worker.left, ok \in BOOLEAN:
         /\ worker.at = "sync" /\ Unsubscribe(r.job, r.sub, ok)
         /\ worker' = [worker EXCEPT !.at = "subscribe", !.job = r.job]
         /\ UNCHANGED <<jobs, requests, stream, shared>>
  BY DEF SyncRemoves, Works
<1>j. SUFFICES ASSUME NEW j, j = r.job
             PROVE  IInv'
  OBVIOUS
<1>t. TypesOK /\ FormOK
  BY DEF IInv
<1>u. /\ j \in Jobs /\ r.sub \in 0..Len(subs) /\ Refers(j, r.sub)
      /\ Syncing(j) /\ jobs[j] \in Rows /\ jobs[j].sub \in 0..Len(subs)
      /\ jobs[j].is => jobs[j].key \in Keys
      /\ ~jobs[j].is => jobs[j] = NoRow
      /\ \A s \in worker.left: s.job = j => s = r
      /\ j \notin disturbed =>
            /\ Quiet(j) /\ jobs[j].is /\ jobs[j].enabled /\ jobs[j].key = r.key
            /\ jobs[j].sub = r.sub /\ Has(jobs[j].key, jobs[j].sub)
      /\ worker \in WorkerType /\ Len(subs) \in Nat
  BY <1>j, SyncFinds
<1>1. /\ Calls /\ Disturbing /\ faults' \in Nat
      /\ subs' \in Seq(Subscription) /\ Later /\ Loses(r.sub) /\ Len(subs') = Len(subs)
      /\ r.sub # 0 /\ ok => subs'[r.sub].record = "none"
      /\ ~ok => j \in disturbed'
  BY <1>t, <1>a, <1>j, <1>u, UnsubscribeCall
<1>2. /\ worker' \in WorkerType /\ worker'.at = "subscribe" /\ worker'.job = j
      /\ worker'.left = worker.left /\ worker'.id = worker.id /\ worker'.entry = worker.entry
      /\ worker.id = 0 /\ worker.entry = 0
  BY <1>t, <1>a, <1>j, <1>u DEF WorkerType, FormOK
<1>3. worker' \in WorkerType'
  BY <1>t, <1>a, <1>1, <1>2, Widens, LenProperties DEF TypesOK, Later
<1>4. WorkerFormed'
  BY <1>t, <1>j, <1>2 DEF WorkerFormed, FormOK
<1>5. BySync(j, 0)
  <2>1. jobs' \in [Jobs -> Rows'] /\ Shares(j, 0)
    BY <1>t, <1>a, <1>1, Typed, SharesNothing DEF TypesOK
  <2>2. \A i \in 1..Len(subs): subs[i].record # "none" => subs'[i].record # "none" \/ Refers(j, i)
    BY <1>1, <1>u DEF Loses
  <2>3. OnJob(j, 0)
    BY <1>a, <1>u, <1>1, <2>1, <2>2 DEF OnJob
  <2> QED
    BY <1>a, <1>u, <1>2, <1>3, <2>3 DEF BySync
<1>d. j \notin disturbed' => j \notin disturbed /\ ok
  BY <1>1 DEF Disturbing
<1>6. SyncsRight(j)
  <2> SUFFICES ASSUME j \notin disturbed'
               PROVE  /\ jobs[j].sub # 0 => subs'[jobs[j].sub].key = jobs[j].key
                      /\ jobs[j].enabled <=> jobs[j].sub # 0
                      /\ \A s \in worker.left: s.job = j =>
                            /\ jobs[j].is /\ jobs[j].enabled
                            /\ jobs[j].key = s.key /\ jobs[j].sub = s.sub
                      /\ jobs[j].sub = 0 \/ subs'[jobs[j].sub].record = "none"
    BY <1>a, <1>2 DEF SyncsRight
  <2>1. jobs[j].enabled <=> jobs[j].sub # 0
    BY <1>u, <1>d DEF IInv, RowsOK, Right
  <2> QED
    BY <1>u, <1>d, <1>1, <2>1 DEF Has, Later
<1>7. SyncsLive(j)
  BY <1>2 DEF SyncsLive
<1>8. SyncsKept(j)
  BY <1>a, <1>1 DEF SyncsKept
<1> QED
  BY <1>u, <1>4, <1>5, <1>6, <1>7, <1>8, SyncStep

\* The row is subscribed again, which only its own job knows of.
LEMMA SyncSubscribesStep ==
    ASSUME IInv, SyncSubscribes
    PROVE  IInv'
<1>a. PICK r \in worker.left, id \in 0..Len(subs) + 1:
         /\ worker.at = "subscribe" /\ worker.job = r.job
         /\ Subscribe(r.job, r.key, id) /\ Shares(r.job, id)
         /\ worker' = IF id = 0 THEN Synced(r.job) ELSE [worker EXCEPT !.at = "store", !.id = id]
         /\ UNCHANGED <<jobs, requests, stream>>
  BY DEF SyncSubscribes, Works
<1>j. SUFFICES ASSUME NEW j, j = r.job
             PROVE  IInv'
  OBVIOUS
<1>t. TypesOK /\ FormOK
  BY DEF IInv
<1>u. /\ j \in Jobs /\ r.key \in Keys
      /\ Syncing(j) /\ jobs[j] \in Rows /\ jobs[j].sub \in 0..Len(subs)
      /\ jobs[j].is => jobs[j].key \in Keys
      /\ ~jobs[j].is => jobs[j] = NoRow
      /\ \A s \in worker.left: s.job = j => s = r
      /\ j \notin disturbed =>
            /\ Quiet(j) /\ jobs[j].is /\ jobs[j].enabled /\ jobs[j].key = r.key
            /\ jobs[j].sub = r.sub /\ Has(jobs[j].key, jobs[j].sub)
      /\ worker \in WorkerType /\ Len(subs) \in Nat
  BY <1>j, SyncFinds
<1>1. /\ Calls /\ Disturbing /\ faults' \in Nat
      /\ subs' \in Seq(Subscription) /\ Later /\ Loses(0) /\ id \in 0..Len(subs')
      /\ id # 0 => Answers(r.key, id)
      /\ id = 0 => j \in disturbed'
  BY <1>t, <1>a, <1>j, <1>u, SubscribeCall
<1>2. /\ worker' \in WorkerType' /\ WorkerFormed' /\ worker'.entry = worker.entry
      /\ worker'.left \subseteq worker.left
      /\ IF id = 0 THEN worker'.at \in {"sync", "up"} /\ worker'.id = 0
         ELSE worker'.at = "store" /\ worker'.job = j /\ worker'.id = id
  <2>1. CASE id = 0
    BY <1>a, <1>1, <2>1, SyncedFields
  <2>2. CASE id # 0
    <3>1. worker \in WorkerType'
      BY <1>t, <1>a, <1>1, <1>u, Widens, LenProperties DEF TypesOK, Later
    <3>2. /\ worker' \in WorkerType' /\ worker'.at = "store" /\ worker'.id = id
          /\ worker'.job = worker.job /\ worker'.left = worker.left
          /\ worker'.entry = worker.entry
      BY <1>a, <1>1, <2>2, <3>1 DEF WorkerType
    <3>3. worker.entry = 0
      BY <1>t, <1>a DEF FormOK
    <3>4. WorkerFormed'
      BY <1>t, <1>a, <2>2, <3>2, <3>3 DEF WorkerFormed, FormOK
    <3> QED
      BY <1>a, <1>j, <2>2, <3>2, <3>4
  <2> QED
    BY <2>1, <2>2
<1>5. BySync(j, id)
  <2>1. jobs' \in [Jobs -> Rows'] /\ Shares(j, id)
    BY <1>t, <1>a, <1>j, <1>1, Typed DEF TypesOK
  <2>2. \A i \in 1..Len(subs): subs[i].record # "none" => subs'[i].record # "none" \/ Refers(j, i)
    BY <1>1 DEF Loses
  <2>3. OnJob(j, id)
    BY <1>a, <1>u, <1>1, <2>1, <2>2 DEF OnJob
  <2> QED
    BY <1>a, <1>j, <1>u, <1>2, <2>3 DEF BySync
<1>d. j \notin disturbed' => j \notin disturbed /\ id # 0
  BY <1>1 DEF Disturbing
<1>6. SyncsRight(j)
  <2> SUFFICES ASSUME j \notin disturbed'
               PROVE  /\ jobs[j].sub # 0 => subs'[jobs[j].sub].key = jobs[j].key
                      /\ jobs[j].enabled <=> jobs[j].sub # 0
                      /\ \A s \in worker'.left: s.job = j =>
                            /\ jobs[j].is /\ jobs[j].enabled
                            /\ jobs[j].key = s.key /\ jobs[j].sub = s.sub
                      /\ jobs[j].sub = 0 \/ subs'[jobs[j].sub].record = "none"
                      /\ subs'[worker'.id].key = jobs[j].key
    BY <1>a, <1>2 DEF SyncsRight
  <2>1. jobs[j].enabled <=> jobs[j].sub # 0
    BY <1>u, <1>d DEF IInv, RowsOK, Right
  <2>2. jobs[j].sub = 0 \/ subs[jobs[j].sub].record = "none"
    BY <1>a, <1>d, <1>j DEF IInv, SyncOK, Gone
  <2> QED
    BY <1>u, <1>d, <1>1, <1>2, <2>1, <2>2 DEF Has, Later, Answers
<1>7. SyncsLive(j)
  BY <1>1, <1>2, <1>d DEF SyncsLive, Answers
<1>8. SyncsKept(j)
  BY <1>a, <1>1, <1>2 DEF SyncsKept, Answers
<1> QED
  BY <1>u, <1>2, <1>5, <1>6, <1>7, <1>8, SyncStep

\* The row has the new subscription and the reconciliation is done with it.
LEMMA SyncStoresStep ==
    ASSUME IInv, SyncStores
    PROVE  IInv'
<1>t. TypesOK /\ FormOK
  BY DEF IInv
<1>j. SUFFICES ASSUME NEW j, j = worker.job, NEW id, id = worker.id
             PROVE  IInv'
  OBVIOUS
<1>a. /\ worker.at = "store" /\ SetSubscription(j, id) /\ worker' = Synced(j)
      /\ UNCHANGED <<subs, requests, faults, disturbed, shared>>
  BY <1>j DEF SyncStores, Works
<1>b. PICK r \in worker.left: r.job = j
  BY <1>t, <1>j, <1>a DEF FormOK
<1>u. /\ j \in Jobs
      /\ Syncing(j) /\ jobs[j] \in Rows /\ jobs[j].sub \in 0..Len(subs)
      /\ jobs[j].is => jobs[j].key \in Keys
      /\ ~jobs[j].is => jobs[j] = NoRow
      /\ j \notin disturbed =>
            /\ Quiet(j) /\ jobs[j].is /\ jobs[j].enabled /\ jobs[j].key = r.key
            /\ jobs[j].sub = r.sub /\ Has(jobs[j].key, jobs[j].sub)
      /\ worker \in WorkerType /\ subs \in Seq(Subscription) /\ Len(subs) \in Nat
  BY <1>b, SyncFinds
<1>i. id # 0 /\ id \in 0..Len(subs)
  BY <1>t, <1>j, <1>a, <1>u DEF FormOK, WorkerType
<1>c. SUFFICES ASSUME NEW row, row = IF jobs[j].is THEN [jobs[j] EXCEPT !.sub = id] ELSE jobs[j]
             PROVE  IInv'
  OBVIOUS
<1>w. (UNCHANGED <<jobs, stream>> /\ row = jobs[j]) \/ WriteRow(j, row)
  BY <1>a, <1>c DEF SetSubscription
<1>r. /\ row \in Rows /\ row.is = jobs[j].is /\ row.enabled = jobs[j].enabled
      /\ row.key = jobs[j].key /\ row.sub = IF jobs[j].is THEN id ELSE jobs[j].sub
      /\ ~jobs[j].is => row = jobs[j]
  BY <1>c, <1>u, <1>i DEF Rows
<1>1. /\ jobs'[j] = row /\ \A i \in Jobs: i # j => jobs'[i] = jobs[i]
      /\ jobs' \in [Jobs -> Rows]
  BY <1>t, <1>w, <1>r, <1>u DEF TypesOK, WriteRow
<1>3. Calls /\ Disturbing /\ faults' \in Nat /\ Later /\ Loses(0) /\ subs' \in Seq(Subscription)
  BY <1>t, <1>a, <1>u, NoCall DEF NoFault
<1>5. OnJob(j, 0)
  <2>1. jobs' \in [Jobs -> Rows']
    BY <1>t, <1>1, <1>3, Typed
  <2>2. \A i \in 1..Len(subs): subs[i].record # "none" => subs'[i].record # "none" \/ Refers(j, i)
    BY <1>a
  <2>3. IF jobs'[j].is THEN jobs'[j].key \in Keys ELSE jobs'[j] = NoRow
    BY <1>1, <1>r, <1>u
  <2>4. UNCHANGED <<jobs, stream>> \/ WriteRow(j, jobs'[j])
    BY <1>1, <1>w
  <2> QED
    BY <1>1, <1>3, <1>a, <2>1, <2>2, <2>3, <2>4, SharesNothing DEF OnJob
<1>s. Len(stream') = Len(stream)
  BY <1>t, <1>3, <1>5, <1>u, StreamStays DEF IInv
<1>2. /\ worker' \in WorkerType' /\ WorkerFormed' /\ worker'.entry = worker.entry
      /\ worker'.left = {s \in worker.left: s.job # j} /\ worker'.id = 0
      /\ worker'.at \in {"sync", "up"}
  BY <1>a, <1>3, <1>s, SyncedFields
<1>6. BySync(j, 0)
  <2>1. jobs'[j].sub \in {0, jobs[j].sub} \/ (jobs'[j].sub = worker.id /\ worker.job = j)
    BY <1>1, <1>r, <1>j
  <2> QED
    BY <1>a, <1>j, <1>u, <1>2, <1>5, <2>1 DEF BySync
<1>7. SyncsRight(j)
  <2> SUFFICES ASSUME j \notin disturbed
               PROVE  /\ row.sub # 0 => subs[row.sub].key = row.key
                      /\ row.enabled <=> row.sub # 0
    BY <1>a, <1>1, <1>2 DEF SyncsRight
  <2>1. subs[id].key = jobs[j].key
    BY <1>a, <1>i, <1>j DEF IInv, SyncOK, Has
  <2> QED
    BY <1>u, <1>r, <1>i, <2>1
<1>8. SyncsLive(j)
  <2>1. j \notin disturbed \cup shared => subs[id].record # "none"
    BY <1>a, <1>j, <1>u DEF IInv, LiveOK
  <2> QED
    BY <1>a, <1>1, <1>2, <1>r, <1>u, <2>1 DEF SyncsLive
<1>9. SyncsKept(j)
  <2>1. disturbed = {} => jobs[j].sub = 0 \/ subs[jobs[j].sub].record = "none"
    BY <1>a, <1>j DEF IInv, SyncOK, Gone
  <2> QED
    BY <1>a, <1>j, <1>1, <1>r, <1>u, <2>1 DEF SyncsKept
<1> QED
  BY <1>u, <1>2, <1>6, <1>7, <1>8, <1>9, SyncStep

\* What the reconciliation reads is so, and jobs that requests are changing are disturbed.
LEMMA WorkerStartsStep ==
    ASSUME IInv, WorkerStarts
    PROVE  IInv'
<1> USE DEF IInv
<1>a. SUFFICES ASSUME NEW rows, rows = {[job |-> j, key |-> jobs[j].key, sub |-> jobs[j].sub]:
                            j \in {i \in Jobs: jobs[i].is /\ jobs[i].enabled}}
             PROVE  IInv'
  OBVIOUS
<1>b. /\ worker.at = "down"
      /\ worker' = [WorkerDown EXCEPT !.at = IF rows = {} THEN "up" ELSE "sync", !.left = rows]
      /\ disturbed' = disturbed \cup {r.job: r \in {s \in rows: Active(s.job) # {}}}
      /\ UNCHANGED <<subs, jobs, requests, stream, faults, shared>>
  BY <1>a DEF WorkerStarts, Works, Disturbs
<1>t. TypesOK /\ FormOK /\ worker \in WorkerType /\ Len(stream) \in Nat /\ Len(subs) \in Nat
  BY LenProperties DEF TypesOK
<1>c. \A r \in rows: /\ r.job \in Jobs /\ jobs[r.job].is /\ jobs[r.job].enabled
                     /\ r.key = jobs[r.job].key /\ r.sub = jobs[r.job].sub
                     /\ r.key \in Keys /\ r.sub \in 0..Len(subs)
                     /\ r = [job |-> r.job, key |-> r.key, sub |-> r.sub]
  <2> SUFFICES ASSUME NEW j \in Jobs, jobs[j].is, jobs[j].enabled
               PROVE  jobs[j].key \in Keys /\ jobs[j].sub \in 0..Len(subs)
    BY <1>a
  <2> QED
    BY <1>t DEF TypesOK, FormOK, Rows
<1>d. rows \subseteq [job: Jobs, key: Keys, sub: 0..Len(subs)]
  BY <1>c
<1>e. \A r, s \in rows: r.job = s.job => r = s
  BY <1>c
<1>f. /\ worker'.at = IF rows = {} THEN "up" ELSE "sync"
      /\ worker'.left = rows /\ worker'.job = Same /\ worker'.id = 0 /\ worker'.entry = 0
      /\ worker' \in WorkerType
  <2>1. worker' = [at |-> IF rows = {} THEN "up" ELSE "sync", left |-> rows, job |-> Same,
                   id |-> 0, entry |-> 0]
    BY <1>b DEF WorkerDown
  <2> QED
    BY <1>d, <1>t, <2>1 DEF WorkerType
<1>g. worker.left = {} /\ worker.id = 0 /\ worker.entry = 0
  BY <1>b, <1>t DEF FormOK
<1>h. disturbed \subseteq disturbed' /\ disturbed' \subseteq Jobs
  BY <1>b, <1>c, <1>t DEF TypesOK
<1>1. TypesOK'
  BY <1>b, <1>f, <1>h DEF TypesOK, Rows, RequestType, WorkerType, Entry
<1>2. FormOK'
  BY <1>b, <1>e, <1>f DEF FormOK, At
<1>3. RequestsOK'
  <2> SUFFICES ASSUME NEW q \in Requests, ~At(q, "idle"), requests[q].job \notin disturbed'
               PROVE  /\ \A p \in Requests:
                            ~At(p, "idle") /\ requests[p].job = requests[q].job => p = q
                      /\ ~ \E r \in rows: r.job = requests[q].job
                      /\ StageOK(q)
    <3>1. \A q \in Requests: StageOK(q) => StageOK(q)'
      BY <1>b DEF StageOK, Has, Gone, Right
    <3> QED
      BY <1>b, <1>f, <3>1 DEF RequestsOK, At, Syncing
  <2>1. q \in Active(requests[q].job)
    BY DEF Active, At
  <2>2. ~ \E r \in rows: r.job = requests[q].job
    BY <1>b, <2>1
  <2> QED
    BY <1>h, <2>2 DEF RequestsOK
<1>4. RowsOK'
  BY <1>b, <1>h DEF RowsOK, Has, Right, Quiet, At
<1>5. SyncOK'
  BY <1>b, <1>c, <1>f DEF SyncOK
<1>6. SubsOK'
  BY <1>b, CallsSubs, <1>h, <1>t DEF Calls, Disturbing, TypesOK
<1>7. ApartOK'
  <2>1. ASSUME NEW i \in Jobs, NEW id \in Ids, Refers(i, id)'
        PROVE  Refers(i, id)
    <3>1. id # 0
      BY <1>t, SubsDomain DEF TypesOK
    <3> QED
      BY <1>b, <1>c, <1>f, <2>1, <3>1 DEF Refers, Active
  <2> QED
    BY <1>b, <2>1 DEF ApartOK, Ids
<1>8. LiveOK'
  BY <1>b, <1>f, <1>h DEF LiveOK, Losing
<1>9. KeptOK'
  BY <1>b, <1>h DEF KeptOK, Kept, Ids, At
<1>10. StreamOK'
  BY <1>b, <1>f, <1>t DEF StreamOK, Triggered, TypesOK
<1> QED
  BY <1>1, <1>2, <1>3, <1>4, <1>5, <1>6, <1>7, <1>8, <1>9, <1>10

\* The jobs whose reconciliation is cut short are disturbed.
LEMMA WorkerStopsStep ==
    ASSUME IInv, WorkerStops
    PROVE  IInv'
<1> USE DEF IInv
<1>b. /\ worker.at # "down" /\ worker' = WorkerDown /\ faults' = faults + 1
      /\ disturbed' = disturbed \cup {r.job: r \in worker.left}
      /\ UNCHANGED <<subs, jobs, requests, stream, shared>>
  BY DEF WorkerStops, Works, Fault, Disturbs
<1>t. TypesOK /\ FormOK /\ worker \in WorkerType /\ Len(stream) \in Nat /\ Len(subs) \in Nat
  BY LenProperties DEF TypesOK
<1>f. /\ worker'.at = "down" /\ worker'.left = {} /\ worker'.job = Same
      /\ worker'.id = 0 /\ worker'.entry = 0 /\ worker' \in WorkerType
  BY <1>b, <1>t DEF WorkerDown, WorkerType
<1>h. disturbed \subseteq disturbed' /\ disturbed' \subseteq Jobs
  BY <1>b, <1>t DEF TypesOK, WorkerType
<1>g. \A j \in Jobs \ disturbed': worker.at \in {"subscribe", "store"} => worker.job # j
  BY <1>b, <1>t DEF FormOK
<1>1. TypesOK'
  BY <1>b, <1>f, <1>h DEF TypesOK, Rows, RequestType, WorkerType, Entry
<1>2. FormOK'
  BY <1>b, <1>f DEF FormOK, At
<1>3. RequestsOK'
  BY <1>b, <1>f, <1>h DEF RequestsOK, At, Syncing, StageOK, Has, Gone, Right
<1>4. RowsOK'
  BY <1>b, <1>h DEF RowsOK, Has, Right, Quiet, At
<1>5. SyncOK'
  BY <1>f DEF SyncOK
<1>6. SubsOK'
  BY <1>b, CallsSubs, <1>h, <1>t DEF Calls, Disturbing, TypesOK
<1>7. ApartOK'
  <2>1. ASSUME NEW i \in Jobs, NEW id \in Ids, Refers(i, id)'
        PROVE  Refers(i, id)
    <3>1. id # 0
      BY <1>t, SubsDomain DEF TypesOK
    <3> QED
      BY <1>b, <1>f, <2>1, <3>1 DEF Refers, Active
  <2> QED
    BY <1>b, <2>1 DEF ApartOK, Ids
<1>8. LiveOK'
  <2> SUFFICES ASSUME NEW j \in Jobs, j \notin disturbed' \cup shared
               PROVE  /\ jobs[j].sub # 0 /\ ~Losing(j)' => subs[jobs[j].sub].record # "none"
                      /\ \A q \in Requests:
                            /\ requests[q].at \in {"insert", "replace", "set"}
                            /\ requests[q].job = j /\ requests[q].id # 0
                            => subs[requests[q].id].record # "none"
    BY <1>b, <1>f DEF LiveOK
  <2>1. Losing(j) => Losing(j)'
    BY <1>b, <1>g DEF Losing
  <2> QED
    BY <1>h, <2>1 DEF LiveOK
<1>9. KeptOK'
  <2> SUFFICES ASSUME disturbed' = {}, NEW i \in Ids, subs[i].record # "none"
               PROVE  Kept(i)'
    BY <1>b DEF KeptOK, Ids
  <2>1. disturbed = {} /\ worker.left = {}
    BY <1>b
  <2>2. worker.at # "store"
    BY <1>t, <2>1 DEF FormOK
  <2> QED
    BY <1>b, <2>1, <2>2 DEF KeptOK, Kept, At
<1>10. StreamOK'
  BY <1>b, <1>f, <1>t DEF StreamOK, Triggered, TypesOK
<1> QED
  BY <1>1, <1>2, <1>3, <1>4, <1>5, <1>6, <1>7, <1>8, <1>9, <1>10

(***************************************************************************)
(* The consumer of the stream                                              *)
(***************************************************************************)

\* Nothing but the stream and the entry that is handled change.
LEMMA Consuming ==
    ASSUME IInv, UNCHANGED <<subs, jobs, requests, disturbed, shared>>,
           worker'.at = worker.at, worker'.left = worker.left, worker'.job = worker.job,
           worker'.id = worker.id, TypesOK', FormOK', StreamOK'
    PROVE  IInv'
<1> USE DEF IInv
<1>3. RequestsOK'
  BY DEF RequestsOK, At, Syncing, StageOK, Has, Gone, Right
<1>4. RowsOK'
  BY DEF RowsOK, Has, Right, Quiet, At
<1>5. SyncOK'
  BY DEF SyncOK, Gone, Has
<1>6. SubsOK'
  BY CallsSubs DEF Calls, Disturbing, TypesOK
<1>7. ApartOK'
  <2>1. ASSUME NEW i \in Jobs, NEW id \in Ids, Refers(i, id)'
        PROVE  Refers(i, id)
    BY <2>1 DEF Refers, Active
  <2> QED
    BY <2>1 DEF ApartOK, Ids
<1>8. LiveOK'
  BY DEF LiveOK, Losing
<1>9. KeptOK'
  BY DEF KeptOK, Kept, Ids, At
<1> QED
  BY <1>3, <1>4, <1>5, <1>6, <1>7, <1>8, <1>9

\* The stream has its entries at the places 1 to its length.
LEMMA StreamDomain ==
    ASSUME TypesOK
    PROVE  /\ Len(stream) \in Nat /\ DOMAIN stream = 1..Len(stream)
           /\ \A n \in 1..Len(stream): stream[n] \in Entry
           /\ worker.entry \in 0..Len(stream) /\ worker \in WorkerType
           /\ subs \in Seq(Subscription) /\ Len(subs) \in Nat
<1>1. stream \in Seq(Entry) /\ worker \in WorkerType /\ subs \in Seq(Subscription)
  BY DEF TypesOK
<1>2. worker.entry \in 0..Len(stream)
  BY <1>1 DEF WorkerType
<1> QED
  BY <1>1, <1>2, LenProperties, ElementOfSeq

\* Runs of some jobs with the subscription of entry n are enqueued.
LEMMA Fires ==
    ASSUME IInv, NEW n \in DOMAIN stream, NEW some \in SUBSET Triggered(stream[n].id),
           worker.at = "up", worker.entry = 0, faults' \in Nat,
           stream' = [stream EXCEPT ![n].fired = @ \cup some],
           UNCHANGED <<subs, jobs, requests, disturbed, shared>>,
           \/ UNCHANGED worker
           \/ worker' = [worker EXCEPT !.entry = n] /\ some = Triggered(stream[n].id)
    PROVE  IInv'
<1>t. TypesOK /\ FormOK /\ StreamOK
  BY DEF IInv
<1>d. /\ Len(stream) \in Nat /\ DOMAIN stream = 1..Len(stream) /\ n \in 1..Len(stream)
      /\ \A k \in 1..Len(stream): stream[k] \in Entry
      /\ worker \in WorkerType /\ Len(subs) \in Nat
  BY <1>t, StreamDomain
<1>1. /\ stream' \in [1..Len(stream) -> Entry]
      /\ \A k \in 1..Len(stream): /\ stream'[k].id = stream[k].id
                                  /\ stream'[k].owed = stream[k].owed
                                  /\ stream[k].fired \subseteq stream'[k].fired
      /\ stream'[n].fired = stream[n].fired \cup some
  <2>1. some \subseteq Jobs
    BY DEF Triggered
  <2>2. stream' = [k \in 1..Len(stream) |->
                      IF k = n THEN [stream[n] EXCEPT !.fired = @ \cup some] ELSE stream[k]]
    BY <1>d, <1>t DEF TypesOK
  <2>3. PICK e \in {[stream[n] EXCEPT !.fired = @ \cup some]}:
          e = [stream[n] EXCEPT !.fired = @ \cup some]
    OBVIOUS
  <2>4. /\ e \in Entry /\ e.id = stream[n].id /\ e.owed = stream[n].owed
        /\ e.fired = stream[n].fired \cup some
    BY <1>d, <2>1, <2>3 DEF Entry
  <2> QED
    BY <1>d, <2>2, <2>3, <2>4
<1>2. stream' \in Seq(Entry) /\ Len(stream') = Len(stream) /\ DOMAIN stream' = 1..Len(stream)
  BY <1>1, <1>d, Tables
<1>3. /\ worker'.at = worker.at /\ worker'.left = worker.left /\ worker'.job = worker.job
      /\ worker'.id = worker.id /\ worker' \in WorkerType
      /\ worker'.entry = 0 \/ (worker'.entry = n /\ some = Triggered(stream[n].id))
  BY <1>d DEF WorkerType
<1>4. TypesOK'
  <2>1. worker' \in WorkerType'
    BY <1>2, <1>3 DEF WorkerType
  <2> QED
    BY <1>t, <1>2, <2>1 DEF TypesOK, Rows, RequestType, Entry
<1>5. FormOK'
  BY <1>t, <1>3 DEF FormOK, At
<1>6. StreamOK'
  <2>1. \A k \in 1..Len(stream): stream[k].owed \subseteq Triggered(stream[k].id)
    BY <1>t, <1>d DEF StreamOK
  <2> QED
    BY <1>1, <1>2, <1>3, <1>d, <2>1 DEF StreamOK, Triggered
<1> QED
  BY <1>3, <1>4, <1>5, <1>6, Consuming

\* An entry starts runs of the jobs that have its subscription, of all or of some of them.
LEMMA HandleStep ==
    ASSUME IInv, Handle \/ HandleFails
    PROVE  IInv'
<1>1. faults \in Nat /\ disturbed \cup {} = disturbed
  BY DEF IInv, TypesOK
<1>2. ASSUME Handle PROVE IInv'
  BY <1>1, <1>2, Fires DEF Handle, Works
<1>3. ASSUME HandleFails PROVE IInv'
  <2>0. PICK n \in DOMAIN stream: \E some \in SUBSET Triggered(stream[n].id):
           /\ worker.at = "up" /\ worker.entry = 0 /\ Fault({})
           /\ stream' = [stream EXCEPT ![n].fired = @ \cup some]
           /\ UNCHANGED <<subs, jobs, requests, worker, shared>>
    BY <1>3 DEF HandleFails
  <2>1. PICK some \in SUBSET Triggered(stream[n].id):
           /\ worker.at = "up" /\ worker.entry = 0 /\ Fault({})
           /\ stream' = [stream EXCEPT ![n].fired = @ \cup some]
           /\ UNCHANGED <<subs, jobs, requests, worker, shared>>
    BY <2>0
  <2>2. faults' \in Nat /\ disturbed' = disturbed
    BY <1>1, <2>1 DEF Fault, Disturbs
  <2> QED
    BY <2>1, <2>2, Fires
<1> QED
  BY <1>2, <1>3

\* An entry that was handled goes, and the others move up.
LEMMA AcknowledgeStep ==
    ASSUME IInv, Acknowledge
    PROVE  IInv'
<1>t. TypesOK /\ FormOK /\ StreamOK
  BY DEF IInv
<1>b. /\ worker.at = "up" /\ worker.entry # 0
      /\ worker' = [worker EXCEPT !.entry = 0]
      /\ stream' = RemoveAt(stream, worker.entry)
      /\ UNCHANGED <<subs, jobs, requests, faults, disturbed, shared>>
  BY DEF Acknowledge, Works
<1>d. /\ Len(stream) \in Nat /\ DOMAIN stream = 1..Len(stream)
      /\ \A k \in 1..Len(stream): stream[k] \in Entry
      /\ worker \in WorkerType /\ worker.entry \in 1..Len(stream) /\ Len(subs) \in Nat
      /\ stream \in Seq(Entry)
  BY <1>t, <1>b, StreamDomain DEF TypesOK
<1>p. PICK n \in 1..Len(stream): n = worker.entry
  BY <1>d
<1>1. SUFFICES ASSUME NEW s, s = SubSeq(stream, 1, n - 1),
                      NEW u, u = SubSeq(stream, n + 1, Len(stream))
             PROVE  IInv'
  OBVIOUS
<1>2. /\ s \in Seq(Entry) /\ Len(s) = n - 1 /\ \A k \in 1..Len(s): s[k] = stream[k]
      /\ u \in Seq(Entry) /\ Len(u) = Len(stream) - n
      /\ \A k \in 1..Len(u): u[k] = stream[n + k]
  <2> HIDE DEF Entry
  <2>1. /\ SubSeq(stream, 1, n - 1) \in Seq(Entry) /\ Len(SubSeq(stream, 1, n - 1)) = n - 1
        /\ \A k \in 1..(n - 1): SubSeq(stream, 1, n - 1)[k] = stream[k]
    BY <1>d, SubSeqProperties
  <2>2. /\ SubSeq(stream, n + 1, Len(stream)) \in Seq(Entry)
        /\ Len(SubSeq(stream, n + 1, Len(stream))) = Len(stream) - n
        /\ \A k \in 1..(Len(stream) - n):
              SubSeq(stream, n + 1, Len(stream))[k] = stream[n + k]
    <3>1. /\ SubSeq(stream, n + 1, Len(stream)) \in Seq(Entry)
          /\ Len(SubSeq(stream, n + 1, Len(stream))) =
                IF n + 1 <= Len(stream) THEN Len(stream) - (n + 1) + 1 ELSE 0
          /\ \A k \in 1..Len(stream) - (n + 1) + 1:
                SubSeq(stream, n + 1, Len(stream))[k] = stream[(n + 1) + k - 1]
      BY <1>d, SubSeqProperties
    <3>2. \A k \in 1..(Len(stream) - n): (n + 1) + k - 1 = n + k
      BY <1>d
    <3>0. n \in Int /\ Len(stream) \in Int /\ n <= Len(stream)
      BY <1>d
    <3>3. /\ Len(stream) - (n + 1) + 1 = Len(stream) - n
          /\ n + 1 <= Len(stream) \/ Len(stream) - n = 0
      BY <3>0
    <3> QED
      BY <3>1, <3>2, <3>3
  <2> QED
    BY <1>1, <2>1, <2>2
<1>3. stream' = s \o u
  BY <1>b, <1>p, <1>1 DEF RemoveAt
<1>4. /\ stream' \in Seq(Entry) /\ Len(stream') = Len(stream) - 1
      /\ \A k \in 1..Len(stream'): \E m \in 1..Len(stream): stream'[k] = stream[m]
  <2> HIDE DEF Entry
  <2>1. /\ stream' \in Seq(Entry) /\ Len(stream') = Len(s) + Len(u)
        /\ \A k \in 1..Len(s) + Len(u): stream'[k] = IF k <= Len(s) THEN s[k] ELSE u[k - Len(s)]
    BY <1>2, <1>3, ConcatProperties
  <2>2. Len(stream') = Len(stream) - 1
    BY <1>2, <1>d, <2>1
  <2>3. ASSUME NEW k \in 1..Len(stream') PROVE \E m \in 1..Len(stream): stream'[k] = stream[m]
    <3>1. CASE k <= Len(s)
      BY <1>2, <1>d, <2>1, <2>2, <3>1
    <3>2. CASE ~(k <= Len(s))
      <4>1. k - Len(s) \in 1..Len(u) /\ n + (k - Len(s)) = k + 1 /\ k + 1 \in 1..Len(stream)
        BY <1>2, <1>d, <2>1, <2>2, <3>2
      <4>2. stream'[k] = stream[k + 1]
        BY <1>2, <2>1, <3>2, <4>1
      <4> QED
        BY <4>1, <4>2
    <3> QED
      BY <3>1, <3>2
  <2> QED
    BY <2>1, <2>2, <2>3
<1>5. DOMAIN stream' = 1..Len(stream') /\ Len(stream') \in Nat
  BY <1>4, LenProperties
<1>6. /\ worker'.at = worker.at /\ worker'.left = worker.left /\ worker'.job = worker.job
      /\ worker'.id = worker.id /\ worker'.entry = 0 /\ worker' \in WorkerType
  BY <1>b, <1>d DEF WorkerType
<1>7. TypesOK'
  <2>1. worker' \in WorkerType'
    BY <1>b, <1>5, <1>6 DEF WorkerType
  <2> QED
    BY <1>t, <1>b, <1>4, <2>1 DEF TypesOK, Rows, RequestType, Entry
<1>8. FormOK'
  BY <1>t, <1>b, <1>6 DEF FormOK, At
<1>9. StreamOK'
  <2>1. \A k \in 1..Len(stream): stream[k].owed \subseteq Triggered(stream[k].id)
    BY <1>t, <1>d DEF StreamOK
  <2>2. \A k \in 1..Len(stream'): k # 0 /\ stream'[k].owed \subseteq Triggered(stream'[k].id)
    BY <1>4, <1>5, <2>1
  <2> QED
    BY <1>b, <1>5, <1>6, <2>2 DEF StreamOK, Triggered
<1> QED
  BY <1>b, <1>6, <1>7, <1>8, <1>9, Consuming

\* What a device sends is owed to the jobs that have its subscription.
LEMMA EmitStep ==
    ASSUME IInv, Emit
    PROVE  IInv'
<1>t. TypesOK /\ FormOK /\ StreamOK
  BY DEF IInv
<1>a. PICK i \in Ids:
         /\ stream' = Append(stream, [id |-> i, fired |-> {},
               owed |-> {j \in Jobs: jobs[j].is /\ jobs[j].enabled /\ jobs[j].sub = i}])
         /\ UNCHANGED <<subs, jobs, requests, worker, faults, disturbed, shared>>
  BY DEF Emit
<1>d. /\ Len(stream) \in Nat /\ DOMAIN stream = 1..Len(stream) /\ stream \in Seq(Entry)
      /\ \A k \in 1..Len(stream): stream[k] \in Entry
      /\ worker \in WorkerType /\ Len(subs) \in Nat /\ i \in 1..Len(subs)
      /\ worker.entry \in 0..Len(stream)
  BY <1>t, <1>a, StreamDomain, SubsDomain DEF TypesOK
<1>1. SUFFICES ASSUME NEW e, e = [id |-> i, fired |-> {},
                   owed |-> {j \in Jobs: jobs[j].is /\ jobs[j].enabled /\ jobs[j].sub = i}]
             PROVE  IInv'
  OBVIOUS
<1>2. e \in Entry /\ e.owed = Triggered(e.id)
  BY <1>1, <1>d DEF Entry, Triggered
<1>3. /\ stream' \in Seq(Entry) /\ Len(stream') = Len(stream) + 1
      /\ \A k \in 1..Len(stream): stream'[k] = stream[k]
      /\ stream'[Len(stream) + 1] = e
  <2> HIDE DEF Entry
  <2> QED
    BY <1>a, <1>d, <1>1, <1>2, AppendProperties
<1>4. DOMAIN stream' = 1..Len(stream')
  BY <1>3, LenProperties
<1>5. TypesOK'
  <2>1. worker' \in WorkerType'
    BY <1>a, <1>3, <1>d DEF WorkerType
  <2> QED
    BY <1>t, <1>a, <1>3, <2>1 DEF TypesOK, Rows, RequestType, Entry
<1>6. FormOK'
  BY <1>t, <1>a DEF FormOK, At
<1>7. StreamOK'
  <2>1. \A k \in 1..Len(stream): /\ stream[k].owed \subseteq Triggered(stream[k].id)
                                 /\ worker.entry = k => stream[k].owed \subseteq stream[k].fired
    BY <1>t, <1>d DEF StreamOK
  <2>2. \A k \in 1..Len(stream'): /\ stream'[k].owed \subseteq Triggered(stream'[k].id)
                                  /\ worker.entry = k => stream'[k].owed \subseteq stream'[k].fired
    BY <1>2, <1>3, <1>d, <2>1
  <2> QED
    BY <1>a, <1>4, <2>2 DEF StreamOK, Triggered
<1> QED
  BY <1>a, <1>5, <1>6, <1>7, Consuming

(***************************************************************************)
(* The runtime                                                             *)
(***************************************************************************)

\* While everything is disturbed, the runtime may do as it likes.
LEMMA Ruined ==
    ASSUME IInv, UNCHANGED <<jobs, requests, worker, stream, shared>>,
           disturbed' = Jobs, faults' \in Nat, subs' \in Seq(Subscription), Len(subs') = Len(subs),
           \A i \in 1..Len(subs): /\ subs'[i].key = subs[i].key
                                  /\ subs'[i].record # "none" => subs[i].record # "none"
    PROVE  IInv'
<1> USE DEF IInv
<1>d. /\ Ids = 1..Len(subs) /\ Ids' = 1..Len(subs) /\ subs \in Seq(Subscription)
      /\ Jobs # {} /\ Len(subs) \in Nat
  BY EventJobsAssumption, LenProperties DEF TypesOK, Ids
<1>1. TypesOK'
  BY DEF TypesOK, Rows, RequestType, WorkerType, Entry
<1>2. FormOK'
  BY DEF FormOK, At
<1>3. RequestsOK'
  BY <1>2 DEF RequestsOK, At, FormOK
<1>4. RowsOK'
  BY DEF RowsOK
<1>5. SyncOK'
  <2>1. \A r \in worker.left: r.job \in Jobs
    BY DEF TypesOK, WorkerType
  <2>2. worker.at \in {"subscribe", "store"} => worker.job \in Jobs
    BY <2>1 DEF FormOK
  <2> QED
    BY <2>1, <2>2 DEF SyncOK
<1>6. SubsOK'
  BY <1>d DEF SubsOK
<1>7. ApartOK'
  <2>1. \A i \in Jobs, id \in Ids: Refers(i, id)' => Refers(i, id)
    BY DEF Refers, Active
  <2> QED
    BY <1>d, <2>1 DEF ApartOK
<1>8. LiveOK'
  BY DEF LiveOK
<1>9. KeptOK'
  BY <1>d DEF KeptOK
<1>10. StreamOK'
  BY DEF StreamOK, Triggered
<1> QED
  BY <1>1, <1>2, <1>3, <1>4, <1>5, <1>6, <1>7, <1>8, <1>9, <1>10

\* A device that confirms makes a pending subscription an active one.
LEMMA Confirmed ==
    ASSUME IInv, disturbed # Jobs, NEW i \in Ids, SetupSucceeds(i),
           UNCHANGED <<jobs, requests, worker, stream, faults, disturbed, shared>>
    PROVE  IInv'
<1> USE DEF IInv
<1>d. /\ Ids = 1..Len(subs) /\ subs \in Seq(Subscription)
      /\ Len(subs) \in Nat /\ i \in 1..Len(subs) /\ subs[i] \in Subscription
      /\ subs \in [1..Len(subs) -> Subscription]
  BY SubsDomain DEF TypesOK
<1>r. /\ subs[i].record \in {"pending", "none"} /\ subs[i].setup = "running"
      /\ subs[i].record = "pending" => subs[i].device = "off"
  BY <1>d DEF SubsOK, SetupSucceeds, Subscription
<1>a. /\ subs' \in Seq(Subscription) /\ Len(subs') = Len(subs)
      /\ \A k \in 1..Len(subs): k # i => subs'[k] = subs[k]
  BY <1>d, RuntimeSubs DEF OneChanges
<1>b. /\ subs'[i].key = subs[i].key /\ subs'[i].setup = "over"
      /\ IF subs[i].record = "pending" THEN subs'[i].record = "active" /\ subs'[i].device = "on"
         ELSE subs'[i].record = "none" /\ subs'[i].device = "off"
  BY <1>d DEF SetupSucceeds, Subscription
<1>c. Ids' = 1..Len(subs)
  BY <1>a, <1>d, LenProperties DEF Ids
\* As far as records are there, nothing changed.
<1>e. \A k \in 1..Len(subs): /\ subs'[k].key = subs[k].key
                             /\ subs'[k].record = "none" <=> subs[k].record = "none"
  BY <1>a, <1>b, <1>r
<1>1. TypesOK'
  BY <1>a DEF TypesOK, Rows, RequestType, WorkerType, Entry
<1>2. FormOK'
  BY DEF FormOK, At
<1>v. /\ \A q \in Requests: requests[q].id \in 0..Len(subs)
      /\ \A j \in Jobs: jobs[j].sub \in 0..Len(subs)
      /\ worker.id \in 0..Len(subs)
      /\ \A q \in Requests: ~At(q, "idle") => requests[q].job \in Jobs
      /\ worker.at \in {"subscribe", "store"} => worker.job \in Jobs
  BY DEF TypesOK, RequestType, Rows, WorkerType, FormOK
<1>3. RequestsOK'
  <2>1. Len(subs) <= Len(subs') /\ Later
    BY <1>a, <1>d, <1>e DEF Later
  <2>2. \A q \in Requests: ~At(q, "idle") /\ StageOK(q) => StageOK(q)'
    BY <1>a, <2>1, StageStays
  <2> QED
    BY <2>2 DEF RequestsOK, At, Syncing
<1>4. RowsOK'
  BY <1>d, <1>e, <1>v DEF RowsOK, Has, Right, Quiet, At
<1>5. SyncOK'
  <2>1. ASSUME worker.at \in {"subscribe", "store"}, worker.job \notin disturbed
        PROVE  /\ jobs[worker.job].sub = 0 \/ subs'[jobs[worker.job].sub].record = "none"
               /\ worker.at = "store" /\ worker.id # 0 =>
                     subs'[worker.id].key = jobs[worker.job].key
    <3>1. jobs[worker.job].sub \in 0..Len(subs)
      BY <1>v, <2>1
    <3> QED
      BY <1>d, <1>e, <1>v, <2>1, <3>1 DEF SyncOK, Gone, Has
  <2> QED
    BY <2>1 DEF SyncOK, Gone, Has
<1>6. SubsOK'
  <2>1. \A k, l \in 1..Len(subs): subs'[k].key = subs'[l].key /\ subs'[k].record # "none"
                           /\ subs'[l].record # "none" => k = l
    BY <1>d, <1>e DEF SubsOK
  <2>2. \A k \in Ids':
           /\ subs'[k].record = "pending" => subs'[k].setup = "running" /\ subs'[k].device = "off"
           /\ subs'[k].record = "active" => subs'[k].setup = "over" /\ subs'[k].device = "on"
           /\ subs'[k].setup # "late"
    BY <1>a, <1>b, <1>c, <1>d DEF SubsOK
  <2>3. disturbed = {} => \A k \in 1..Len(subs): subs'[k].device = "on" => subs'[k].record # "none"
    BY <1>a, <1>b, <1>d DEF SubsOK, Stray
  <2>4. Stray' = {k \in 1..Len(subs): subs'[k].device = "on" /\ subs'[k].record = "none"}
    BY <1>c DEF Stray
  <2>5. disturbed' = {} => Stray' = {}
    <3>1. ASSUME disturbed = {} PROVE Stray' = {}
      BY <2>3, <2>4, <3>1
    <3> QED
      BY <3>1
  <2> QED
    BY <1>c, <2>1, <2>2, <2>5 DEF SubsOK
<1>7. ApartOK'
  <2>1. \A k \in Jobs, id \in Ids: Refers(k, id)' => Refers(k, id)
    BY DEF Refers, Active
  <2> QED
    BY <1>c, <1>d, <2>1 DEF ApartOK
<1>8. LiveOK'
  BY <1>d, <1>e, <1>v DEF LiveOK, Losing, FormOK
<1>9. KeptOK'
  BY <1>c, <1>d, <1>e DEF KeptOK, Kept, At
<1>10. StreamOK'
  BY DEF StreamOK, Triggered
<1> QED
  BY <1>1, <1>2, <1>3, <1>4, <1>5, <1>6, <1>7, <1>8, <1>9, <1>10

\* Whatever the runtime and the devices do.
LEMMA RuntimeStepStep ==
    ASSUME IInv, RuntimeStep \/ Restart
    PROVE  IInv'
<1> USE DEF IInv
<1>d. /\ Ids = 1..Len(subs) /\ subs \in Seq(Subscription) /\ Len(subs) \in Nat
      /\ \A i \in 1..Len(subs): subs[i] \in Subscription
      /\ faults \in Nat /\ disturbed \subseteq Jobs
  BY SubsDomain DEF TypesOK
<1>1. ASSUME RuntimeStep PROVE IInv'
  <2>1. PICK i \in Ids:
          \/ SetupSucceeds(i) /\ NoFault
          \/ LateAnswer(i) /\ NoFault
          \/ /\ SetupFails(i) \/ SetupTimesOut(i) \/ SetupStrays(i) \/ DeviceDrops(i)
             /\ Fault(Jobs)
    BY <1>1 DEF RuntimeStep
  <2>2. UNCHANGED <<jobs, requests, worker, stream, shared>>
    BY <1>1 DEF RuntimeStep
  <2>3. OneChanges(i) /\ Later /\ (subs'[i].record # "none" => subs[i].record # "none")
    BY <1>d, <2>1, RuntimeSubs
  <2>4. /\ subs' \in Seq(Subscription) /\ Len(subs') = Len(subs)
        /\ \A k \in 1..Len(subs): /\ subs'[k].key = subs[k].key
                                  /\ subs'[k].record # "none" => subs[k].record # "none"
    BY <2>3 DEF OneChanges, Later
  <2>5. CASE SetupSucceeds(i) /\ NoFault /\ disturbed # Jobs
    BY <2>2, <2>5, Confirmed DEF NoFault
  <2>6. CASE LateAnswer(i) /\ NoFault
    <3>1. disturbed = Jobs
      BY <2>6 DEF LateAnswer, SubsOK
    <3> QED
      BY <1>d, <2>2, <2>4, <2>6, <3>1, Ruined DEF NoFault
  <2>7. CASE disturbed' = Jobs /\ faults' \in Nat
    BY <2>2, <2>4, <2>7, Ruined
  <2>8. CASE SetupSucceeds(i) /\ NoFault /\ disturbed = Jobs
    BY <1>d, <2>7, <2>8 DEF NoFault
  <2>9. CASE Fault(Jobs)
    <3>1. disturbed \cup Jobs = Jobs /\ faults + 1 \in Nat
      BY <1>d
    <3> QED
      BY <2>7, <2>9, <3>1 DEF Fault, Disturbs
  <2> QED
    BY <2>1, <2>5, <2>6, <2>8, <2>9
<1>2. ASSUME Restart PROVE IInv'
  <2>1. /\ RuntimeRestarts /\ disturbed' = Jobs /\ faults' \in Nat
        /\ UNCHANGED <<jobs, requests, worker, stream, shared>>
    BY <1>2, <1>d DEF Restart, Fault, Disturbs
  <2>2. /\ subs' \in Seq(Subscription) /\ Len(subs') = Len(subs) /\ Later
        /\ \A i \in 1..Len(subs): subs'[i].record = "none"
    BY <1>d, <2>1, RestartSubs
  <2> QED
    BY <2>1, <2>2, Ruined DEF Later
<1> QED
  BY <1>1, <1>2

(***************************************************************************)
(* The specification                                                       *)
(***************************************************************************)

\* One job has a subscription that is tracked and sends, and nothing goes on.
LEMMA InitStep ==
    ASSUME Init
    PROVE  IInv
<1>1. PICK key \in Keys:
        /\ subs = <<[key |-> key, record |-> "active", setup |-> "over", device |-> "on"]>>
        /\ jobs = [j \in Jobs |-> IF j = CHOOSE i \in Jobs: TRUE THEN Row(TRUE, key, 1)
                                  ELSE NoRow]
  BY EventJobsAssumption DEF Init
<1>2. PICK first \in Jobs: jobs = [j \in Jobs |-> IF j = first THEN Row(TRUE, key, 1) ELSE NoRow]
  BY <1>1, EventJobsAssumption
<1>3. /\ subs = <<[key |-> key, record |-> "active", setup |-> "over", device |-> "on"]>>
      /\ Len(subs) = 1 /\ Ids = {1} /\ subs \in Seq(Subscription)
      /\ subs[1] = [key |-> key, record |-> "active", setup |-> "over", device |-> "on"]
  <2> DEFINE s == [key |-> key, record |-> "active", setup |-> "over", device |-> "on"]
  <2>1. subs = <<s>> /\ s \in Subscription
    <3>1. s \in Subscription
      BY DEF Subscription
    <3> QED
      BY <1>1, <3>1
  <2> HIDE DEF s
  <2>2. Len(<<s>>) = 1 /\ <<s>> \in Seq(Subscription) /\ <<s>>[1] = s /\ DOMAIN <<s>> = {1}
    BY <2>1
  <2> QED
    BY <2>1, <2>2 DEF Ids, s
<1>4. /\ worker = [at |-> "up", left |-> {}, job |-> Same, id |-> 0, entry |-> 0]
      /\ stream = <<>> /\ Len(stream) = 0 /\ DOMAIN stream = {} /\ stream \in Seq(Entry)
      /\ faults = 0 /\ disturbed = {} /\ shared = {}
  <2>1. /\ worker = [WorkerDown EXCEPT !.at = "up"] /\ stream = <<>>
        /\ faults = 0 /\ disturbed = {} /\ shared = {}
    BY DEF Init
  <2>2. Len(<<>>) = 0 /\ DOMAIN <<>> = {} /\ <<>> \in Seq(Entry)
    OBVIOUS
  <2> QED
    BY <2>1, <2>2 DEF WorkerDown
<1>5. /\ requests = [q \in Requests |-> Idle]
      /\ \A q \in Requests: requests[q].at = "idle" /\ requests[q] = Idle
  BY DEF Init, Idle
<1>6. /\ jobs[first] = [is |-> TRUE, enabled |-> TRUE, key |-> key, sub |-> 1]
      /\ \A j \in Jobs: j # first => jobs[j] = [is |-> FALSE, enabled |-> FALSE, key |-> Same,
                                               sub |-> 0]
  BY <1>2 DEF Row, NoRow
<1>7. TypesOK
  <2>1. jobs \in [Jobs -> Rows]
    <3>1. \A j \in Jobs: jobs[j] \in Rows
      <4>1. [is |-> TRUE, enabled |-> TRUE, key |-> key, sub |-> 1] \in Rows
        BY <1>3 DEF Rows
      <4>2. [is |-> FALSE, enabled |-> FALSE, key |-> Same, sub |-> 0] \in Rows
        BY <1>3 DEF Rows
      <4> HIDE DEF Rows
      <4> QED
        BY <1>6, <4>1, <4>2
    <3> QED
      BY <1>2, <3>1
  <2>2. requests \in [Requests -> RequestType]
    <3>1. NoRow \in Rows
      BY <1>3 DEF NoRow, Rows
    <3>2. Idle \in RequestType
      BY <1>3, <3>1 DEF Idle, RequestType, Stages
    <3> QED
      BY <1>5, <3>2
  <2>3. worker \in WorkerType
    BY <1>3, <1>4 DEF WorkerType
  <2> QED
    BY <1>3, <1>4, <2>1, <2>2, <2>3 DEF TypesOK
<1>8. FormOK
  <2>1. \A j \in Jobs: IF jobs[j].is THEN jobs[j].key \in Keys ELSE jobs[j] = NoRow
    <3>1. ASSUME NEW j \in Jobs, j = first
          PROVE  jobs[j].is /\ jobs[j].key \in Keys
      BY <1>6, <3>1
    <3>2. ASSUME NEW j \in Jobs, j # first
          PROVE  ~jobs[j].is /\ jobs[j] = NoRow
      BY <1>2, <3>2 DEF NoRow
    <3> QED
      BY <3>1, <3>2
  <2> QED
    BY <1>4, <1>5, <2>1 DEF FormOK, At
<1>9. RequestsOK
  BY <1>5 DEF RequestsOK, At
<1>10. RowsOK
  BY <1>3, <1>6 DEF RowsOK, Has, Right
<1>11. SyncOK
  BY <1>4 DEF SyncOK
<1>12. SubsOK
  BY <1>3 DEF SubsOK, Stray
<1>13. ApartOK
  <2>1. ASSUME NEW j \in Jobs, Refers(j, 1) PROVE j = first
    BY <1>4, <1>5, <1>6, <2>1 DEF Refers, Active
  <2> QED
    BY <1>3, <2>1 DEF ApartOK
<1>14. LiveOK
  BY <1>3, <1>4, <1>5, <1>6 DEF LiveOK
<1>15. KeptOK
  BY <1>3, <1>6 DEF KeptOK, Kept
<1>16. StreamOK
  BY <1>4 DEF StreamOK
<1> QED
  BY <1>7, <1>8, <1>9, <1>10, <1>11, <1>12, <1>13, <1>14, <1>15, <1>16 DEF IInv

\* Every step keeps the invariant.
LEMMA NextStep ==
    ASSUME IInv, [Next]_vars
    PROVE  IInv'
<1>1. ASSUME NEW q \in Requests, Create(q) \/ Update(q) \/ Delete(q) \/ Continues(q)
      PROVE  IInv'
  <2>1. CASE Continues(q)
    BY <2>1, InsertStep, UndoStep, WriteStep, PrepareStep, ReplaceStep, SettleStep,
       ResolveStep, SetStep, ReleaseStep, EraseStep DEF Continues
  <2> QED
    BY <1>1, <2>1, CreateStep, UpdateStep, DeleteStep
<1>2. CASE Reconciles
  BY <1>2, SyncRemovesStep, SyncSubscribesStep, SyncStoresStep DEF Reconciles
<1>3. CASE Consumes \/ HandleFails
  BY <1>3, HandleStep, AcknowledgeStep DEF Consumes
<1>4. CASE WorkerStarts \/ WorkerStops \/ RuntimeStep \/ Restart \/ Emit
  BY <1>4, WorkerStartsStep, WorkerStopsStep, RuntimeStepStep, EmitStep
<1>5. CASE UNCHANGED vars
  <2>1. /\ TypesOK => TypesOK'
        /\ FormOK => FormOK'
        /\ StreamOK => StreamOK'
    BY <1>5 DEF vars, TypesOK, Rows, RequestType, WorkerType, Entry, FormOK, At, StreamOK,
                Triggered
  <2>2. /\ RequestsOK => RequestsOK'
        /\ RowsOK => RowsOK'
        /\ SyncOK => SyncOK'
    BY <1>5 DEF vars, RequestsOK, StageOK, At, Syncing, Has, Right, Gone, RowsOK, Quiet, SyncOK
  <2>3. /\ SubsOK => SubsOK'
        /\ ApartOK => ApartOK'
    BY <1>5 DEF vars, SubsOK, Stray, Ids, ApartOK, Refers, Active
  <2>4. /\ LiveOK => LiveOK'
        /\ KeptOK => KeptOK'
    BY <1>5 DEF vars, LiveOK, Losing, KeptOK, Kept, Ids, At
  <2> QED
    BY <2>1, <2>2, <2>3, <2>4 DEF IInv
<1> QED
  BY <1>1, <1>2, <1>3, <1>4, <1>5 DEF Next

\* At rest nobody but a row takes care of a subscription, and a row that is right
\* has one if and only if its job is enabled.
LEMMA Rest ==
    ASSUME IInv
    PROVE  JobsAligned
<1> USE DEF IInv
<1>d. Ids = 1..Len(subs) /\ Len(subs) \in Nat /\ DOMAIN stream = 1..Len(stream)
  BY LenProperties DEF TypesOK, Ids
<1>f. \A j \in Jobs: /\ jobs[j].is \in BOOLEAN /\ jobs[j].enabled \in BOOLEAN
                     /\ jobs[j].sub \in 0..Len(subs)
                     /\ ~jobs[j].is => ~jobs[j].enabled /\ jobs[j].sub = 0
  BY DEF TypesOK, Rows, FormOK, NoRow
<1>1. TypeOK
  <2>1. \A n \in DOMAIN stream: stream[n].id \in Ids
    <3>1. ASSUME NEW n \in DOMAIN stream PROVE stream[n] \in Entry
      BY <1>d, <3>1 DEF TypesOK
    <3> QED
      BY <1>d, <3>1 DEF Entry
  <2> QED
    BY <2>1 DEF TypesOK, TypeOK, Rows, RequestType, Stages, WorkerType
<1>2. ASSUME AtRest PROVE \A j \in Jobs: Quiet(j) /\ ~Losing(j)
  BY <1>2 DEF AtRest, Quiet, Losing, At
<1>3. ASSUME AtRest, NEW j \in Jobs \ (disturbed \cup shared)
      PROVE  IF Enabled(j) THEN Subscribed(j) /\ subs[jobs[j].sub].device = "on"
             ELSE jobs[j].sub = 0
  <2>1. Right(jobs[j]) /\ Has(jobs[j].key, jobs[j].sub)
    BY <1>2, <1>3 DEF RowsOK
  <2>2. CASE ~Enabled(j)
    BY <1>f, <2>1, <2>2 DEF Enabled, Right
  <2>3. CASE Enabled(j)
    <3>1. jobs[j].sub # 0 /\ jobs[j].sub \in Ids
      BY <1>d, <1>f, <2>1, <2>3 DEF Enabled, Right
    <3>2. subs[jobs[j].sub].record # "none" /\ subs[jobs[j].sub].key = jobs[j].key
      BY <1>2, <1>3, <2>1, <3>1 DEF LiveOK, Has
    <3>3. subs[jobs[j].sub].setup # "running" /\ subs[jobs[j].sub] \in Subscription
      BY <1>3, <1>d, <3>1 DEF AtRest, TypesOK
    <3>4. disturbed # Jobs
      BY <1>3
    <3>5. subs[jobs[j].sub].record = "active" /\ subs[jobs[j].sub].device = "on"
      BY <3>1, <3>2, <3>3, <3>4 DEF SubsOK, Subscription
    <3> QED
      BY <2>3, <3>1, <3>2, <3>5 DEF Subscribed, Tracked
  <2> QED
    BY <2>2, <2>3
<1>4. ASSUME AtRest, disturbed = {}
      PROVE  /\ \A i \in Ids: subs[i].record # "none" =>
                   \E j \in Jobs: Enabled(j) /\ jobs[j].sub = i
             /\ Stray = {}
  <2>1. ASSUME NEW i \in Ids, subs[i].record # "none"
        PROVE  \E j \in Jobs: Enabled(j) /\ jobs[j].sub = i
    <3>1. Kept(i)
      BY <1>4, <2>1 DEF KeptOK
    <3>2. PICK j \in Jobs: jobs[j].sub = i
      BY <1>4, <3>1 DEF Kept, AtRest, At
    <3>3. jobs[j].sub # 0 /\ Right(jobs[j])
      BY <1>2, <1>4, <1>d, <3>2 DEF RowsOK
    <3> QED
      BY <1>f, <3>2, <3>3 DEF Right, Enabled
  <2> QED
    BY <1>4, <2>1 DEF SubsOK
<1> QED
  BY <1>1, <1>3, <1>4 DEF JobsAligned, Aligned, NoneLeft

\* Only an acknowledgement shortens the stream.
LEMMA Shortened ==
    ASSUME TypesOK, Next, ~Acknowledge
    PROVE  ~(Len(stream') < Len(stream))
<1>d. stream \in Seq(Entry) /\ Len(stream) \in Nat /\ DOMAIN stream = 1..Len(stream)
  BY LenProperties DEF TypesOK
<1>w. ASSUME NEW j, NEW row, WriteRow(j, row) PROVE Len(stream') = Len(stream)
  BY <1>d, <1>w, LenProperties DEF WriteRow
<1>1. ASSUME NEW q \in Requests, Create(q) \/ Update(q) \/ Delete(q) \/ Continues(q)
      PROVE  Len(stream') = Len(stream)
  <2>1. CASE Create(q) \/ Update(q) \/ Delete(q)
    BY <2>1 DEF Create, Update, Delete
  <2>2. CASE Insert(q) \/ Write(q) \/ Replace(q) \/ Erase(q)
    BY <1>w, <2>2 DEF Insert, Write, Replace, Erase
  <2>3. CASE Set(q)
    BY <1>w, <2>3 DEF Set, SetSubscription
  <2>4. CASE Undo(q) \/ Prepare(q) \/ Settle(q) \/ Resolve(q) \/ Release(q)
    BY <2>4 DEF Undo, Prepare, Settle, Resolve, Release
  <2> QED
    BY <1>1, <2>1, <2>2, <2>3, <2>4 DEF Continues
<1>2. CASE Reconciles
  <2>1. CASE SyncStores
    BY <1>w, <2>1 DEF SyncStores, SetSubscription
  <2>2. CASE SyncRemoves \/ SyncSubscribes
    <3>1. UNCHANGED stream
      <4>1. CASE SyncRemoves
        BY <4>1 DEF SyncRemoves
      <4>2. CASE SyncSubscribes
        BY <4>2 DEF SyncSubscribes
      <4> QED
        BY <2>2, <4>1, <4>2
    <3> QED
      BY <3>1
  <2> QED
    BY <1>2, <1>d, <2>1, <2>2 DEF Reconciles
<1>3. CASE Handle \/ HandleFails
  <2>1. PICK n \in DOMAIN stream: \E some \in SUBSET Triggered(stream[n].id):
          stream' = [stream EXCEPT ![n].fired = @ \cup some]
    <3>1. CASE Handle
      BY <3>1 DEF Handle
    <3>2. CASE HandleFails
      BY <3>2 DEF HandleFails
    <3> QED
      BY <1>3, <3>1, <3>2
  <2>2. PICK some \in SUBSET Triggered(stream[n].id):
          stream' = [stream EXCEPT ![n].fired = @ \cup some]
    BY <2>1
  <2>3. \A e: Len([stream EXCEPT ![n] = e]) = Len(stream)
    BY <1>d
  <2> QED
    BY <1>d, <2>2, <2>3
<1>4. CASE WorkerStarts \/ WorkerStops \/ RuntimeStep \/ Restart
  BY <1>4, <1>d DEF WorkerStarts, WorkerStops, RuntimeStep, Restart
<1>5. CASE Emit
  <2>1. \E e: stream' = Append(stream, e)
    BY <1>5 DEF Emit
  <2>2. \A e: Len(Append(stream, e)) = Len(stream) + 1
    BY <1>d
  <2> QED
    BY <1>d, <2>1, <2>2
<1> QED
  BY <1>d, <1>1, <1>2, <1>3, <1>4, <1>5 DEF Next, Consumes

\* The invariant is inductive: nothing overlaps on an undisturbed job, what a
\* request has read of it is still so, and of what each job was answered with
\* nobody else knows (manager.py:80-331, event_subscriptions.py:16-75).
THEOREM InductiveInvariant == Spec => []IInv
<1>1. Init => IInv
  BY InitStep
<1>2. IInv /\ [Next]_vars => IInv'
  BY NextStep
<1> QED
  BY <1>1, <1>2, PTL DEF Spec

\* At rest the runtime has the subscriptions of the enabled jobs, for their
\* events, and no others, for any number of jobs, requests and failures, but for
\* the jobs that were disturbed or had the event of another job.
THEOREM JobsAlignedHolds == Spec => []JobsAligned
<1>1. IInv => JobsAligned
  BY Rest
<1> QED
  BY <1>1, InductiveInvariant, PTL

\* What the worker acknowledges has started a run of every job that it arrived
\* for and whose row was not written meanwhile (events.py:174-204).
THEOREM NoEventLostHolds == Spec => NoEventLost
<1> DEFINE Handled == Len(stream') < Len(stream) =>
                         stream[worker.entry].owed \subseteq stream[worker.entry].fired
<1>1. IInv /\ [Next]_vars => [Handled]_vars
  <2> SUFFICES ASSUME IInv, [Next]_vars PROVE [Handled]_vars
    OBVIOUS
  <2>1. CASE UNCHANGED vars
    BY <2>1
  <2>2. CASE Next /\ ~Acknowledge
    BY <2>2, Shortened DEF IInv
  <2>3. CASE Acknowledge
    <3>1. worker.entry # 0 /\ worker.entry \in 0..Len(stream) /\ DOMAIN stream = 1..Len(stream)
          /\ Len(stream) \in Nat
      BY <2>3, LenProperties DEF Acknowledge, IInv, TypesOK, WorkerType
    <3>2. stream[worker.entry].owed \subseteq stream[worker.entry].fired
      BY <3>1 DEF IInv, StreamOK
    <3> QED
      BY <3>2
  <2> QED
    BY <2>1, <2>2, <2>3
<1> QED
  BY <1>1, InductiveInvariant, PTL DEF Spec, NoEventLost
=============================================================================
