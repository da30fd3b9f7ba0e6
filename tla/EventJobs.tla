------------------------------ MODULE EventJobs ------------------------------
(***************************************************************************)
(* Jobs triggered by an event of a device, and the runtime subscriptions   *)
(* they depend on: the requests that create, change and delete a job       *)
(* (jobs/service.py, jobs/resources/manager.py), each a sequence of        *)
(* database transactions and calls to the runtime, the reconciliation when *)
(* a worker starts (jobs/resources/event_subscriptions.py) and the         *)
(* consumer of the runtime's stream, which enqueues runs (jobs/events.py). *)
(*                                                                        *)
(* Only event triggers are modelled here; schedules and record Things are  *)
(* resources of the other kinds of job.                                    *)
(***************************************************************************)
EXTENDS RuntimeSubscriptions, SequencesExt

CONSTANTS
    Jobs,
    Requests,   \* the requests in progress, one step at a time each
    Changes,    \* the updates a client sends: [enabled, key], each or Same
    Same,       \* a field that an update leaves alone
    MaxOps,     \* bound: requests made
    MaxEvents,  \* bound: events sent by devices
    MaxFaults   \* bound: failures of calls, transactions, setups, devices, processes

ASSUME EventJobsAssumption ==
    /\ Jobs # {} /\ Keys # {}
    /\ Changes \subseteq [enabled: BOOLEAN \cup {Same}, key: Keys \cup {Same}]
    /\ MaxOps \in Nat /\ MaxEvents \in Nat /\ MaxFaults \in Nat

VARIABLES
    jobs,       \* the rows of jobs: enabled, key, subscription id, 0 for none
    requests,   \* what each request does and has read
    worker,     \* the worker's reconciliation and consumer
    stream,     \* the runtime's stream, as far as the group has not acknowledged
    ops, events, faults,    \* how many there were of each
    disturbed,  \* jobs with overlapping operations or a failure (a history)
    shared      \* jobs whose subscription another job had as well (a history)

vars == <<subs, jobs, requests, worker, stream, ops, events, faults, disturbed, shared>>

NoRow == [is |-> FALSE, enabled |-> FALSE, key |-> Same, sub |-> 0]

Row(enabled, key, sub) == [is |-> TRUE, enabled |-> enabled, key |-> key, sub |-> sub]

Idle == [at |-> "idle", job |-> Same, change |-> Same, key |-> Same,
         prev |-> NoRow, upd |-> NoRow, id |-> 0]

WorkerDown == [at |-> "down", left |-> {}, job |-> Same, id |-> 0, entry |-> 0]

-----------------------------------------------------------------------------
(* History of what the properties make an exception for.                   *)

Active(j) == {q \in Requests: requests[q].at # "idle" /\ requests[q].job = j}

Syncing(j) == \E r \in worker.left: r.job = j

\* The row of j, a request on it or its reconciliation knows the subscription.
Refers(j, id) ==
    \/ jobs[j].sub = id
    \/ \E q \in Active(j): id \in {requests[q].id, requests[q].prev.sub, requests[q].upd.sub}
    \/ \E r \in worker.left: r.job = j /\ r.sub = id
    \/ worker.job = j /\ worker.id = id

\* Jobs that share the subscription j is answered with.
Sharers(j, id) == {i \in Jobs \ {j}: id # 0 /\ Refers(i, id)}

Shares(j, id) ==
    shared' = IF Sharers(j, id) = {} THEN shared
              ELSE shared \cup Sharers(j, id) \cup {j}

Disturbs(S) == disturbed' = disturbed \cup S

Fault(S) == faults < MaxFaults /\ faults' = faults + 1 /\ Disturbs(S)

NoFault == UNCHANGED <<faults, disturbed>>

\* A change of the row of j: what was received for it is no longer owed a run.
WriteRow(j, row) ==
    /\ jobs' = [jobs EXCEPT ![j] = row]
    /\ stream' = [n \in DOMAIN stream |-> [stream[n] EXCEPT !.owed = @ \ {j}]]

-----------------------------------------------------------------------------
(* Calls to the runtime, by a request or by the reconciliation.            *)

\* The call is answered with id, or fails before or after its effect (id 0).
Subscribe(j, key, id) ==
    \/ Ensure(key, id) /\ NoFault
    \/ /\ id = 0 /\ Fault({j})
       /\ UNCHANGED subs \/ \E i \in 1..Len(subs) + 1: Ensure(key, i)

\* The call is answered, or fails (ok is FALSE) with or without its effect.
Unsubscribe(j, id, ok) ==
    \/ ok /\ RemoveSubscription(id) /\ NoFault
    \/ ~ok /\ Fault({j}) /\ (UNCHANGED subs \/ RemoveFails(id))

-----------------------------------------------------------------------------
(* The requests.                                                           *)

Goes(q, r) == requests' = [requests EXCEPT ![q] = r]

Ends(q) == Goes(q, Idle)

At(q, at) == requests[q].at = at

\* It makes no difference which of the idle ones serves a request.
Comes(q) ==
    /\ ops < MaxOps /\ ops' = ops + 1
    /\ At(q, "idle") /\ q = CHOOSE p \in Requests: At(p, "idle")

\* create_job, prepare_create: the subscription comes before the row.
Create(q) ==
    \E j \in Jobs, key \in Keys, id \in 0..Len(subs) + 1:
       /\ Comes(q) /\ ~jobs[j].is /\ Active(j) = {}
       /\ Subscribe(j, key, id)
       /\ Shares(j, id)
       /\ Goes(q, IF id = 0 THEN Idle
                  ELSE [Idle EXCEPT !.at = "insert", !.job = j, !.key = key, !.id = id])
       /\ UNCHANGED <<jobs, worker, stream, events>>

\* The row, or cleanup_prepared_create after a failure of its transaction.
Insert(q) ==
    LET r == requests[q] IN
    /\ At(q, "insert")
    /\ \/ WriteRow(r.job, Row(TRUE, r.key, r.id)) /\ Ends(q) /\ NoFault
       \/ Fault({}) /\ Goes(q, [r EXCEPT !.at = "undo"]) /\ UNCHANGED <<jobs, stream>>
    /\ UNCHANGED <<subs, worker, ops, events, shared>>

\* cleanup_prepared_create: a failure is only logged.
Undo(q) ==
    /\ At(q, "undo")
    /\ \E ok \in BOOLEAN: Unsubscribe(requests[q].job, requests[q].id, ok)
    /\ Ends(q)
    /\ UNCHANGED <<jobs, worker, stream, ops, events, shared>>

\* A request on j begins with a read of its row.
Begins(q, j) ==
    /\ Comes(q) /\ jobs[j].is
    /\ disturbed' = IF Active(j) # {} \/ Syncing(j) THEN disturbed \cup {j} ELSE disturbed

\* update_job reads the previous job.
Update(q) ==
    \E j \in Jobs, change \in Changes:
       /\ Begins(q, j)
       /\ Goes(q, [Idle EXCEPT !.at = IF change.enabled = Same THEN "prepare" ELSE "write",
                   !.job = j, !.change = change,
                   !.key = IF change.key = Same THEN jobs[j].key ELSE change.key,
                   !.prev = jobs[j], !.upd = jobs[j]])
       /\ UNCHANGED <<subs, jobs, worker, stream, events, faults, shared>>

\* update_job_metadata, when the request enables or disables.
Write(q) ==
    LET r == requests[q]
        row == [jobs[r.job] EXCEPT !.enabled = r.change.enabled]
        next == IF r.change.key = Same THEN "settle" ELSE "prepare" IN
    /\ At(q, "write")
    /\ \/ /\ jobs[r.job].is
          /\ WriteRow(r.job, row)
          /\ Goes(q, [r EXCEPT !.at = next, !.change = Same, !.upd = row])
       \/ ~jobs[r.job].is /\ Ends(q) /\ UNCHANGED <<jobs, stream>>
    /\ UNCHANGED <<subs, worker, ops, events, faults, disturbed, shared>>

\* prepare_definition: an enabled job is subscribed under its new definition.
Prepare(q) ==
    LET r == requests[q] IN
    /\ At(q, "prepare")
    /\ \/ /\ r.upd.enabled
          /\ \E id \in 0..Len(subs) + 1:
                /\ Subscribe(r.job, r.key, id)
                /\ Shares(r.job, id)
                /\ Goes(q, IF id = 0 THEN Idle ELSE [r EXCEPT !.at = "replace", !.id = id])
       \/ /\ ~r.upd.enabled
          /\ Goes(q, [r EXCEPT !.at = "replace"])
          /\ NoFault /\ UNCHANGED <<subs, shared>>
    /\ UNCHANGED <<jobs, worker, stream, ops, events>>

\* replace_job_definition: definition and subscription in one transaction, or
\* cleanup_prepared_create when it fails, as without a row.
Replace(q) ==
    LET r == requests[q]
        row == Row(jobs[r.job].enabled, r.key, r.id)
        undo == IF r.id = 0 THEN Idle ELSE [r EXCEPT !.at = "undo"] IN
    /\ At(q, "replace")
    /\ \/ /\ jobs[r.job].is /\ NoFault
          /\ WriteRow(r.job, row)
          /\ Goes(q, [r EXCEPT !.at = "settle", !.change = Same, !.upd = row])
       \/ ~jobs[r.job].is /\ NoFault /\ Goes(q, undo) /\ UNCHANGED <<jobs, stream>>
       \/ Fault({r.job}) /\ Goes(q, undo) /\ UNCHANGED <<jobs, stream>>
    /\ UNCHANGED <<subs, worker, ops, events, shared>>

\* The previous row had a subscription that the new one has not.
Left(r) == r.prev.sub # 0 /\ r.prev.sub # r.upd.sub

\* update_job_resources removes it.
Settle(q) ==
    LET r == requests[q] IN
    /\ At(q, "settle") /\ Left(r)
    /\ \E ok \in BOOLEAN:
          /\ Unsubscribe(r.job, r.prev.sub, ok)
          /\ IF ok THEN Goes(q, [r EXCEPT !.at = "resolve", !.prev = NoRow]) ELSE Ends(q)
    /\ UNCHANGED <<jobs, worker, stream, ops, events, shared>>

\* Mutant: a disabled job keeps the id of the subscription it had.
ResolveKeeps(q) ==
    LET r == requests[q]
        set(id) == [Idle EXCEPT !.at = "set", !.job = r.job, !.key = r.upd.key, !.id = id] IN
    /\ At(q, "resolve") \/ (At(q, "settle") /\ ~Left(r))
    /\ \/ /\ ~r.upd.enabled /\ r.upd.sub # 0
          /\ \E ok \in BOOLEAN: Unsubscribe(r.job, r.upd.sub, ok)
          /\ Ends(q) /\ UNCHANGED shared
       \/ /\ r.upd.enabled /\ r.upd.sub = 0
          /\ \E id \in 0..Len(subs) + 1:
                /\ Subscribe(r.job, r.upd.key, id)
                /\ Shares(r.job, id)
                /\ Goes(q, IF id # 0 THEN set(id) ELSE Idle)
       \/ /\ r.upd.enabled = (r.upd.sub # 0)
          /\ Ends(q) /\ NoFault /\ UNCHANGED <<subs, shared>>
    /\ UNCHANGED <<jobs, worker, stream, ops, events>>

\* _update_event_job_resources: a disabled job is unsubscribed, an enabled one
\* without a subscription is subscribed.
Resolve(q) ==
    LET r == requests[q]
        set(id) == [Idle EXCEPT !.at = "set", !.job = r.job, !.key = r.upd.key, !.id = id] IN
    /\ At(q, "resolve") \/ (At(q, "settle") /\ ~Left(r))
    /\ \/ /\ ~r.upd.enabled /\ r.upd.sub # 0
          /\ \E ok \in BOOLEAN:
                /\ Unsubscribe(r.job, r.upd.sub, ok)
                /\ Goes(q, IF ok THEN set(0) ELSE Idle)
          /\ UNCHANGED shared
       \/ /\ r.upd.enabled /\ r.upd.sub = 0
          /\ \E id \in 0..Len(subs) + 1:
                /\ Subscribe(r.job, r.upd.key, id)
                /\ Shares(r.job, id)
                /\ Goes(q, IF id # 0 THEN set(id) ELSE Idle)
       \/ /\ r.upd.enabled = (r.upd.sub # 0)
          /\ Ends(q) /\ NoFault /\ UNCHANGED <<subs, shared>>
    /\ UNCHANGED <<jobs, worker, stream, ops, events>>

\* set_subscription_id: nothing happens to a row that is gone.
SetSubscription(j, id) ==
    IF jobs[j].is THEN WriteRow(j, [jobs[j] EXCEPT !.sub = id])
    ELSE UNCHANGED <<jobs, stream>>

\* The new subscription, unless the transaction fails.
Set(q) ==
    /\ At(q, "set") /\ Ends(q)
    /\ \/ NoFault /\ SetSubscription(requests[q].job, requests[q].id)
       \/ Fault({requests[q].job}) /\ UNCHANGED <<jobs, stream>>
    /\ UNCHANGED <<subs, worker, ops, events, shared>>

\* delete_job reads the job.
Delete(q) ==
    \E j \in Jobs:
       /\ Begins(q, j)
       /\ Goes(q, [Idle EXCEPT !.at = "release", !.job = j, !.key = jobs[j].key,
                               !.prev = jobs[j]])
       /\ UNCHANGED <<subs, jobs, worker, stream, events, faults, shared>>

\* delete_job_resources: a failure leaves the row.
Release(q) ==
    LET r == requests[q] IN
    /\ At(q, "release")
    /\ \E ok \in BOOLEAN:
          /\ Unsubscribe(r.job, r.prev.sub, ok)
          /\ r.prev.sub = 0 => ok
          /\ IF ok THEN Goes(q, [r EXCEPT !.at = "erase", !.prev = NoRow]) ELSE Ends(q)
    /\ UNCHANGED <<jobs, worker, stream, ops, events, shared>>

\* The row, unless the transaction fails.
Erase(q) ==
    /\ At(q, "erase") /\ Ends(q)
    /\ \/ NoFault /\ WriteRow(requests[q].job, NoRow)
       \/ Fault({requests[q].job}) /\ UNCHANGED <<jobs, stream>>
    /\ UNCHANGED <<subs, worker, ops, events, shared>>

-----------------------------------------------------------------------------
(* The worker.                                                             *)

Works(w) == worker' = w

\* The worker starts: reconciliation reads the enabled event jobs, in no order.
WorkerStarts ==
    LET rows == {[job |-> j, key |-> jobs[j].key, sub |-> jobs[j].sub]:
                    j \in {i \in Jobs: jobs[i].is /\ jobs[i].enabled}} IN
    /\ worker.at = "down"
    /\ Works([WorkerDown EXCEPT !.at = IF rows = {} THEN "up" ELSE "sync", !.left = rows])
    /\ Disturbs({r.job: r \in {s \in rows: Active(s.job) # {}}})
    /\ UNCHANGED <<subs, jobs, requests, stream, ops, events, faults, shared>>

\* EventSubscriptionReconciler.sync removes the subscription of a row, whatever
\* comes of it, ...
SyncRemoves ==
    \E r \in worker.left, ok \in BOOLEAN:
       /\ worker.at = "sync"
       /\ Unsubscribe(r.job, r.sub, ok)
       /\ Works([worker EXCEPT !.at = "subscribe", !.job = r.job])
       /\ UNCHANGED <<jobs, requests, stream, ops, events, shared>>

Synced(j) ==
    LET left == {r \in worker.left: r.job # j} IN
    [worker EXCEPT !.at = IF left = {} THEN "up" ELSE "sync", !.left = left,
             !.job = Same, !.id = 0]

\* ... subscribes again, ...
SyncSubscribes ==
    \E r \in worker.left, id \in 0..Len(subs) + 1:
       /\ worker.at = "subscribe" /\ worker.job = r.job
       /\ Subscribe(r.job, r.key, id)
       /\ Shares(r.job, id)
       /\ Works(IF id = 0 THEN Synced(r.job)
                ELSE [worker EXCEPT !.at = "store", !.id = id])
       /\ UNCHANGED <<jobs, requests, stream, ops, events>>

\* Mutant: the row is taken up again.
SyncStoresAgain ==
    /\ worker.at = "store"
    /\ SetSubscription(worker.job, worker.id)
    /\ Works([worker EXCEPT !.at = "sync", !.job = Same, !.id = 0])
    /\ UNCHANGED <<subs, requests, ops, events, faults, disturbed, shared>>

\* ... and stores the id.
SyncStores ==
    /\ worker.at = "store"
    /\ SetSubscription(worker.job, worker.id)
    /\ Works(Synced(worker.job))
    /\ UNCHANGED <<subs, requests, ops, events, faults, disturbed, shared>>

\* list_event_jobs_for_subscription.
Triggered(id) == {j \in Jobs: jobs[j].is /\ jobs[j].enabled /\ jobs[j].sub = id}

\* _handle_stream_entry enqueues a run of every enabled job with the entry's
\* subscription, one after the other, ...
Handle ==
    \E n \in DOMAIN stream:
       /\ worker.at = "up" /\ worker.entry = 0
       /\ stream' = [stream EXCEPT ![n].fired = @ \cup Triggered(stream[n].id)]
       /\ Works([worker EXCEPT !.entry = n])
       /\ UNCHANGED <<subs, jobs, requests, ops, events, faults, disturbed, shared>>

\* Mutant: the failure is logged and the entry acknowledged.
HandleSwallows ==
    \E n \in DOMAIN stream: \E some \in SUBSET Triggered(stream[n].id):
       /\ worker.at = "up" /\ worker.entry = 0 /\ Fault({})
       /\ stream' = [stream EXCEPT ![n].fired = @ \cup some]
       /\ Works([worker EXCEPT !.entry = n])
       /\ UNCHANGED <<subs, jobs, requests, ops, events, shared>>

\* ... or fails on the way: the entry stays pending and is claimed later.
HandleFails ==
    \E n \in DOMAIN stream: \E some \in SUBSET Triggered(stream[n].id):
       /\ worker.at = "up" /\ worker.entry = 0 /\ Fault({})
       /\ stream' = [stream EXCEPT ![n].fired = @ \cup some]
       /\ UNCHANGED <<subs, jobs, requests, worker, ops, events, shared>>

\* XACK, after the entry was handled.
Acknowledge ==
    /\ worker.at = "up" /\ worker.entry # 0
    /\ stream' = RemoveAt(stream, worker.entry)
    /\ Works([worker EXCEPT !.entry = 0])
    /\ UNCHANGED <<subs, jobs, requests, ops, events, faults, disturbed, shared>>

\* The worker stops.  The entry it had and did not acknowledge is claimed again.
WorkerStops ==
    /\ worker.at # "down" /\ Fault({r.job: r \in worker.left})
    /\ Works(WorkerDown)
    /\ UNCHANGED <<subs, jobs, requests, stream, ops, events, shared>>

-----------------------------------------------------------------------------
(* The runtime and the devices.                                            *)

RuntimeStep ==
    /\ \E i \in Ids:
          \/ SetupSucceeds(i) /\ NoFault
          \/ LateAnswer(i) /\ NoFault
          \/ /\ SetupFails(i) \/ SetupTimesOut(i) \/ SetupStrays(i) \/ DeviceDrops(i)
             /\ Fault(Jobs)
    /\ UNCHANGED <<jobs, requests, worker, stream, ops, events, shared>>

Restart ==
    /\ RuntimeRestarts /\ Fault(Jobs)
    /\ UNCHANGED <<jobs, requests, worker, stream, ops, events, shared>>

\* A device sends an event and the runtime publishes it.
Emit ==
    \E i \in Ids:
       /\ subs[i].device = "on" /\ events < MaxEvents
       /\ events' = events + 1
       /\ stream' = Append(stream, [id |-> i, fired |-> {},
             owed |-> {j \in Jobs: jobs[j].is /\ jobs[j].enabled /\ jobs[j].sub = i}])
       /\ UNCHANGED <<subs, jobs, requests, worker, ops, faults, disturbed, shared>>

-----------------------------------------------------------------------------

\* The worker is up and one job has been there for a while; which job and which
\* event make no difference.
Init ==
    /\ LET key == CHOOSE k \in Keys: TRUE IN
          /\ subs = <<[key |-> key, record |-> "active", setup |-> "over", device |-> "on"]>>
          /\ jobs = [j \in Jobs |-> IF j = CHOOSE i \in Jobs: TRUE THEN Row(TRUE, key, 1)
                                    ELSE NoRow]
    /\ requests = [q \in Requests |-> Idle]
    /\ worker = [WorkerDown EXCEPT !.at = "up"]
    /\ stream = <<>>
    /\ ops = 0 /\ events = 0 /\ faults = 0
    /\ disturbed = {} /\ shared = {}

Continues(q) ==
    \/ Insert(q) \/ Undo(q) \/ Write(q) \/ Prepare(q) \/ Replace(q)
    \/ Settle(q) \/ Resolve(q) \/ Set(q) \/ Release(q) \/ Erase(q)

Reconciles == SyncRemoves \/ SyncSubscribes \/ SyncStores

Consumes == Handle \/ Acknowledge

Next ==
    \/ \E q \in Requests: Create(q) \/ Update(q) \/ Delete(q) \/ Continues(q)
    \/ WorkerStarts \/ WorkerStops \/ Reconciles \/ Consumes \/ HandleFails
    \/ RuntimeStep \/ Restart \/ Emit

\* A worker that is up, or reconciles, goes on.
Spec == Init /\ [][Next]_vars /\ WF_vars(Reconciles \/ Consumes)

-----------------------------------------------------------------------------

TypeOK ==
    /\ subs \in Seq(Subscription)
    /\ \A j \in Jobs: jobs[j] \in
          [is: BOOLEAN, enabled: BOOLEAN, key: Keys \cup {Same}, sub: 0..Len(subs)]
    /\ \A q \in Requests:
          /\ requests[q].at \in {"idle", "insert", "undo", "write", "prepare", "replace",
                                 "settle", "resolve", "set", "release", "erase"}
          /\ requests[q].job \in Jobs \cup {Same} /\ requests[q].id \in 0..Len(subs)
    /\ worker.at \in {"down", "sync", "subscribe", "store", "up"}
    /\ worker.id \in 0..Len(subs) /\ worker.entry \in 0..Len(stream)
    /\ \A n \in DOMAIN stream: stream[n].id \in Ids
    /\ disturbed \subseteq Jobs /\ shared \subseteq Jobs

\* No request, reconciliation or setup is under way.
AtRest ==
    /\ \A q \in Requests: At(q, "idle")
    /\ worker.at \in {"down", "up"}
    /\ \A i \in Ids: subs[i].setup # "running"

Subscribed(j) == jobs[j].sub \in Tracked(jobs[j].key)

Enabled(j) == jobs[j].is /\ jobs[j].enabled

\* At rest an enabled job has a live subscription for its own event and no
\* other job has one, unless operations on it overlapped, a step failed, or it
\* had a subscription of another job (event_subscriptions.py:16, manager.py:212-331).
Aligned ==
    AtRest => \A j \in Jobs \ (disturbed \cup shared):
       IF Enabled(j) THEN Subscribed(j) /\ subs[jobs[j].sub].device = "on"
       ELSE jobs[j].sub = 0

\* At rest every subscription of the runtime is one of an enabled job, and no
\* device sends under a handle that was given up, unless operations of one job
\* overlapped or a step failed (manager.py:138-145 and 212-227).
NoneLeft ==
    AtRest /\ disturbed = {} =>
       /\ \A i \in Ids: subs[i].record # "none" => \E j \in Jobs: Enabled(j) /\ jobs[j].sub = i
       /\ Stray = {}

\* The variables have their types, and at rest the runtime has the subscriptions of the
\* enabled jobs and no others.
JobsAligned == TypeOK /\ Aligned /\ NoneLeft

\* An event that arrived for a job starts a run of it before it is acknowledged,
\* whatever the worker's restarts, if the row was not written meanwhile: of all
\* the jobs that share the subscription (events.py:174-204).
NoEventLost ==
    [][Len(stream') < Len(stream) =>
          stream[worker.entry].owed \subseteq stream[worker.entry].fired]_vars

\* A reconciliation ends, and a worker that stays up handles what has arrived,
\* under the fairness of what has begun (events.py:64-77).
WorkerDrains == []<>(worker.at = "down" \/ (worker.at = "up" /\ stream = <<>>))

=============================================================================
