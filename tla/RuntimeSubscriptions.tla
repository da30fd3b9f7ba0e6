------------------------ MODULE RuntimeSubscriptions ------------------------
(***************************************************************************)
(* The subscriptions of the WoT runtime (wot-runtime/src/services/        *)
(* subscriptions.ts): a request for an event or an observation is answered *)
(* with a handle at once and set up in the background, requests of one key *)
(* (target, operation, namespace and parameters) share a subscription, and *)
(* a subscription lives in the memory of the runtime only.                 *)
(*                                                                        *)
(* The maps by id and by key hold the same records, so a subscription has  *)
(* one field for both.  Device is the WoT binding's side: it may confirm a *)
(* setup after the runtime has given it up or removed the record.          *)
(***************************************************************************)
EXTENDS Naturals, Sequences, FiniteSets

CONSTANT Keys   \* what a subscription is made of, as one value

VARIABLE subs   \* the subscriptions ever requested, in order: id = position

\* record: in subscriptionsById and subscriptionsByKey, as pending or active.
\* setup: the start function runs, was left by its timeout, or is over.
\* device: the device sends, and the runtime publishes, under this id.
Subscription == [key: Keys, record: {"pending", "active", "none"},
                 setup: {"running", "late", "over"}, device: {"on", "off"}]

Ids == DOMAIN subs

Tracked(key) == {i \in Ids: subs[i].key = key /\ subs[i].record # "none"}

Pending(key) == [key |-> key, record |-> "pending", setup |-> "running", device |-> "off"]

\* ensureEventSubscription and ensurePropertyObservation answer with id.
Ensure(key, id) ==
    \/ /\ id \in Tracked(key)
       /\ UNCHANGED subs
    \/ /\ Tracked(key) = {} /\ id = Len(subs) + 1
       /\ subs' = Append(subs, Pending(key))

\* The record goes first, then the device is told to stop.
\* A pending one is stopped by its setup; an unknown one needs nothing.
Forgotten(i, device) == [subs EXCEPT ![i].record = "none", ![i].device = device]

RemoveSubscription(id) ==
    IF id \notin Ids \/ subs[id].record = "none" THEN UNCHANGED subs
    ELSE subs' = Forgotten(id, IF subs[id].record = "pending" THEN subs[id].device ELSE "off")

\* The stop fails, or the answer is lost: the record is gone all the same.
RemoveFails(id) ==
    IF id \notin Ids \/ subs[id].record # "active" THEN RemoveSubscription(id)
    ELSE \E device \in {"on", "off"}: subs' = Forgotten(id, device)

\* The device confirms.  The record becomes active, or, when it was removed
\* meanwhile, the device is told to stop, ...
SetupSucceeds(i) ==
    /\ subs[i].setup = "running"
    /\ subs' = [subs EXCEPT ![i].setup = "over",
           ![i].device = IF subs[i].record = "pending" THEN "on" ELSE "off",
           ![i].record = IF subs[i].record = "pending" THEN "active" ELSE "none"]

\* ... whose failure is ignored.
SetupStrays(i) ==
    /\ subs[i].setup = "running" /\ subs[i].record = "none"
    /\ subs' = [subs EXCEPT ![i].setup = "over", ![i].device = "on"]

\* The Thing, the affordance or the device refuses.
SetupFails(i) ==
    /\ subs[i].setup = "running"
    /\ subs' = [subs EXCEPT ![i].setup = "over", ![i].record = "none"]

\* subscriptionSetupTimeoutMs has passed: the record goes, the request to the
\* device stays out.
SetupTimesOut(i) ==
    /\ subs[i].setup = "running"
    /\ subs' = [subs EXCEPT ![i].setup = "late", ![i].record = "none"]

\* The device confirms or refuses what nobody waits for any more.
LateAnswer(i) ==
    /\ subs[i].setup = "late"
    /\ \E device \in {"on", "off"}:
          subs' = [subs EXCEPT ![i].setup = "over", ![i].device = device]

\* The device ends a subscription: the error callback only publishes it.
DeviceDrops(i) ==
    /\ subs[i].device = "on"
    /\ subs' = [subs EXCEPT ![i].device = "off"]

\* stopAllSubscriptions, or a crash: the runtime starts again with nothing.
RuntimeRestarts ==
    subs' = [i \in Ids |-> [subs[i] EXCEPT !.record = "none", !.setup = "over",
                                           !.device = "off"]]

\* A device sends under a handle that nobody can use to stop it.
Stray == {i \in Ids: subs[i].device = "on" /\ subs[i].record = "none"}

=============================================================================
