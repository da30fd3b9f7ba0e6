---------------------------- MODULE ProviderActions ----------------------------
(***************************************************************************)
(* Actions of a discovered Thing that its provider carries out              *)
(* (wot-runtime bindings/provider, discovery/service.py invoke_thing_action, *)
(* providers/edc_v3.py, tx_bootstrap.py, udata.py): the runtime asks wotbot   *)
(* under one timer; wotbot reads the Thing and its source, negotiates a      *)
(* contract with the dataspace connector, starts a transfer, reads its        *)
(* endpoint data reference (EDR), and calls the API itself or leaves a         *)
(* handle in Redis that the runtime then streams from.  Nothing tells wotbot  *)
(* that the runtime has given up.                                             *)
(***************************************************************************)
EXTENDS Naturals, SequencesExt

CONSTANTS Calls, Datasets, None,
          Offers,         \* dataset -> the contract offers it may have
          Actions,        \* what the Thing's action may be: [operation, kind, dataset]
          Lifetimes,      \* lifetimes the connector gives an EDR, None where it says nothing
          Polling,        \* poll_timeout_seconds
          RuntimeTimeout, \* providerActionTimeoutMs
          DownloadTtl,    \* discovery_download_ttl_seconds
          Budget,         \* requests a public source allows one call, None for a private one
          MaxChanges, MaxClock

VARIABLES clock,
          thing,       \* the Thing's action, or None once it is gone
          source,      \* the source record: None, or its credential: "none", "old", "new"
          accepted,    \* the credential the connector accepts
          entry,       \* the dataset the federated catalog's entry names
          offer,       \* dataset -> its contract offer, or None
          negotiation, \* the connector's: sequence of [call, dataset, offer, state]
          transfer,    \* the connector's: sequence of [negotiation, state, edr]
          handle,      \* Redis: sequence of [transfer, stored, expires]
          changes,
          call         \* what the runtime and wotbot know of each call

world == <<thing, source, accepted, entry, offer, changes>>
vars == <<clock, world, negotiation, transfer, handle, call>>

NoCall == [client |-> "new", server |-> "none", deadline |-> 0, since |-> 0, requests |-> 0,
           operation |-> None, kind |-> None, secret |-> None, dataset |-> None, offer |-> None,
           negotiation |-> 0, transfer |-> 0, edr |-> None, read |-> 0, handle |-> 0, answer |-> None]

Least(a, b) == IF a <= b THEN a ELSE b
Expired(edr) == IF edr = None THEN FALSE ELSE edr.expires # None /\ clock >= edr.expires

-----------------------------------------------------------------------------
(* What changes while a call is under way.                                  *)

Change ==
    /\ changes < MaxChanges /\ changes' = changes + 1
    /\ \/ thing' = None /\ UNCHANGED <<source, accepted, entry, offer>>
       \/ source' \in {None, "none", "old", "new"} \ {source} /\ UNCHANGED <<thing, accepted, entry, offer>>
       \/ accepted' \in {"old", "new"} \ {accepted} /\ UNCHANGED <<thing, source, entry, offer>>
       \/ entry' \in Datasets \ {entry} /\ UNCHANGED <<thing, source, accepted, offer>>
       \/ \E d \in Datasets : \E o \in (Offers[d] \cup {None}) \ {offer[d]} :
             offer' = [offer EXCEPT ![d] = o] /\ UNCHANGED <<thing, source, accepted, entry>>
    /\ UNCHANGED <<clock, negotiation, transfer, handle, call>>

Tick == clock < MaxClock /\ clock' = clock + 1 /\ UNCHANGED <<world, negotiation, transfer, handle, call>>

(* The connector agrees to an offer it still makes.                        *)
Decide(n) ==
    /\ negotiation[n].state = "requested"
    /\ \E state \in IF offer[negotiation[n].dataset] = negotiation[n].offer
                    THEN {"finalized", "terminated"} ELSE {"terminated"} :
          negotiation' = [negotiation EXCEPT ![n].state = state]
    /\ UNCHANGED <<clock, world, transfer, handle, call>>

StartTransfer(t) ==
    /\ transfer[t].state = "requested"
    /\ \/ \E life \in Lifetimes :
             transfer' = [transfer EXCEPT ![t].state = "started",
                              ![t].edr = [expires |-> IF life = None THEN None ELSE clock + life]]
       \/ transfer' = [transfer EXCEPT ![t].state = "terminated"]
    /\ UNCHANGED <<clock, world, negotiation, handle, call>>

-----------------------------------------------------------------------------
(* wotbot's handler of one call.                                            *)

Step(c, change) == call' = [call EXCEPT ![c] = change @@ @]
Answer(c, answer) == Step(c, [server |-> "answered", answer |-> answer])

(* A request to the connector or the portal: it costs one of the budget,   *)
(* and is refused where the credential is no longer the right one.          *)
Affordable(c) == IF Budget = None THEN TRUE ELSE call[c].requests < Budget
Spent(c) == IF Budget = None THEN 0 ELSE call[c].requests + 1
Refused(c, answer) == Step(c, [server |-> "answered", answer |-> answer, requests |-> Spent(c)])
ServerAsked(c, change) ==
    \/ ~Affordable(c) /\ Answer(c, "unavailable")
    \/ Affordable(c) /\ Refused(c, "unavailable")
    \/ Affordable(c) /\ call[c].secret # accepted /\ Refused(c, "challenge")
    \/ /\ Affordable(c) /\ call[c].secret = accepted
       /\ Step(c, [requests |-> Spent(c)] @@ change)

ReadThing(c) ==
    /\ call[c].server = "thing"
    /\ IF thing = None THEN Answer(c, "invalid")
       ELSE Step(c, [server |-> "source"] @@ thing)
    /\ UNCHANGED <<clock, world, negotiation, transfer, handle>>

ReadSource(c) ==
    /\ call[c].server = "source"
    /\ CASE source = None -> Answer(c, "unavailable")
         [] source = "none" -> Answer(c, "challenge")
         [] OTHER -> Step(c, [secret |-> source,
                              server |-> CASE call[c].kind = "tx-bootstrap" -> "entry"
                                           [] call[c].kind = "udata" -> "resource"
                                           [] OTHER -> "dataset"])
    /\ UNCHANGED <<clock, world, negotiation, transfer, handle>>

(* tx-bootstrap: the entry is read anew, and names the dataset.            *)
ReadEntry(c) ==
    /\ call[c].server = "entry"
    /\ ServerAsked(c, [server |-> "dataset", dataset |-> entry])
    /\ UNCHANGED <<clock, world, negotiation, transfer, handle>>

(* A portal's dataset is asked again for the resource; no capability       *)
(* expires, none is secret.                                                 *)
ReadResource(c) ==
    /\ call[c].server = "resource"
    /\ ServerAsked(c, [server |-> "store"]) \/ ServerAsked(c, [server |-> "answered", answer |-> "unavailable"])
    /\ UNCHANGED <<clock, world, negotiation, transfer, handle>>

(* The connector may answer with more than the dataset asked for, or less. *)
SelectDataset(c) ==
    /\ call[c].server = "dataset"
    /\ \E answered \in SUBSET Datasets :
          ServerAsked(c, IF call[c].dataset \notin answered \/ offer[call[c].dataset] = None
                      THEN [server |-> "answered", answer |-> "unavailable"]
                      ELSE [server |-> "negotiate", offer |-> offer[call[c].dataset]])
    /\ UNCHANGED <<clock, world, negotiation, transfer, handle>>

(* The negotiation may have begun although its answer is lost.             *)
Negotiate(c) ==
    /\ call[c].server = "negotiate"
    /\ LET asked == Append(negotiation, [call |-> c, dataset |-> call[c].dataset,
                                         offer |-> call[c].offer, state |-> "requested"])
           id == Len(negotiation) + 1
       IN  \/ /\ ServerAsked(c, [server |-> "agreeing", since |-> clock, negotiation |-> id])
              /\ negotiation' = IF call'[c].server = "agreeing" THEN asked ELSE negotiation
           \/ Affordable(c) /\ Refused(c, "unavailable") /\ negotiation' = asked
    /\ UNCHANGED <<clock, world, transfer, handle>>

(* One question of _poll, which stops at its deadline.                     *)
Poll(c, stage, state, success, next) ==
    /\ call[c].server = stage
    /\ IF clock >= call[c].since + Polling THEN Answer(c, "unavailable")
       ELSE ServerAsked(c, IF state \in success THEN next
                        ELSE IF state = "terminated" THEN [server |-> "answered", answer |-> "unavailable"]
                        ELSE [server |-> stage])
    /\ UNCHANGED <<clock, world, negotiation, transfer, handle>>

PollNegotiation(c) ==
    /\ call[c].server = "agreeing"
    /\ Poll(c, "agreeing", negotiation[call[c].negotiation].state, {"finalized"}, [server |-> "transfer"])

RequestTransfer(c) ==
    /\ call[c].server = "transfer"
    /\ LET asked == Append(transfer, [negotiation |-> call[c].negotiation, state |-> "requested", edr |-> None])
           id == Len(transfer) + 1
       IN  \/ /\ ServerAsked(c, [server |-> "starting", since |-> clock, transfer |-> id])
              /\ transfer' = IF call'[c].server = "starting" THEN asked ELSE transfer
           \/ Affordable(c) /\ Refused(c, "unavailable") /\ transfer' = asked
    /\ UNCHANGED <<clock, world, negotiation, handle>>

PollTransfer(c) ==
    /\ call[c].server = "starting"
    /\ Poll(c, "starting", transfer[call[c].transfer].state, {"started"}, [server |-> "address"])

(* An EDR that is incomplete, unsafe or past its end is refused.           *)
ReadAddress(c) ==
    /\ call[c].server = "address"
    /\ LET edr == transfer[call[c].transfer].edr
       IN  ServerAsked(c, IF Expired(edr) THEN [server |-> "answered", answer |-> "unavailable"]
                       ELSE [server |-> IF call[c].operation = "download" THEN "store" ELSE "api",
                             edr |-> edr, read |-> clock])
    /\ UNCHANGED <<clock, world, negotiation, transfer, handle>>

(* What is left of the EDR when it was read, never more than the setting.  *)
Lifetime(ttl) == IF ttl = None THEN DownloadTtl ELSE Least(ttl, DownloadTtl)

StoreHandle(c) ==
    /\ call[c].server = "store"
    /\ LET edr == call[c].edr
           ttl == IF edr = None \/ edr.expires = None THEN None ELSE edr.expires - call[c].read
       IN  handle' = Append(handle, [transfer |-> call[c].transfer, edr |-> edr, read |-> call[c].read,
                                     stored |-> clock, expires |-> clock + Lifetime(ttl)])
    /\ Step(c, [server |-> "answered", answer |-> "download", handle |-> Len(handle) + 1])
    /\ UNCHANGED <<clock, world, negotiation, transfer>>

(* The endpoint is asked with the EDR's header, and its answer passed on.  *)
CallApi(c) ==
    /\ call[c].server = "api"
    /\ \/ Answer(c, "unavailable")
       \/ ~Expired(call[c].edr) /\ Answer(c, "response")
    /\ UNCHANGED <<clock, world, negotiation, transfer, handle>>

Serve(c) ==
    \/ ReadThing(c) \/ ReadSource(c) \/ ReadEntry(c) \/ ReadResource(c) \/ SelectDataset(c)
    \/ Negotiate(c) \/ PollNegotiation(c) \/ RequestTransfer(c) \/ PollTransfer(c)
    \/ ReadAddress(c) \/ StoreHandle(c) \/ CallApi(c)

-----------------------------------------------------------------------------
(* The runtime's side of one call: one timer covers all of it.             *)

Invoke(c) ==
    /\ call[c].client = "new"
    /\ Step(c, [client |-> "waiting", server |-> "thing", deadline |-> clock + RuntimeTimeout])
    /\ UNCHANGED <<clock, world, negotiation, transfer, handle>>

(* A challenge is content like any other.                                  *)
Receive(c) ==
    /\ call[c].client = "waiting" /\ call[c].server = "answered"
    /\ Step(c, [client |-> CASE call[c].answer = "download" -> "fetching"
                             [] call[c].answer \in {"response", "challenge"} -> "done"
                             [] OTHER -> "failed"])
    /\ UNCHANGED <<clock, world, negotiation, transfer, handle>>

(* _download_response: a handle that has expired is not found, and the     *)
(* endpoint refuses an EDR past its end.                                    *)
Fetch(c) ==
    /\ call[c].client = "fetching"
    /\ LET h == handle[call[c].handle]
       IN  \/ Step(c, [client |-> "failed"])
           \/ /\ clock < h.expires /\ ~Expired(h.edr)
              /\ Step(c, [client |-> "streaming"])
    /\ UNCHANGED <<clock, world, negotiation, transfer, handle>>

Stream(c) ==
    /\ call[c].client = "streaming"
    /\ Step(c, [client |-> "done"])
    /\ UNCHANGED <<clock, world, negotiation, transfer, handle>>

Abort(c) ==
    /\ call[c].client \in {"waiting", "fetching", "streaming"} /\ clock >= call[c].deadline
    /\ Step(c, [client |-> "timed out"])
    /\ UNCHANGED <<clock, world, negotiation, transfer, handle>>

-----------------------------------------------------------------------------
ActionsInit ==
    /\ clock = 0 /\ changes = 0
    /\ thing \in Actions
    /\ source = "old" /\ accepted = "old"
    /\ entry \in Datasets /\ offer = [d \in Datasets |-> CHOOSE o \in Offers[d] : TRUE]
    /\ negotiation = <<>> /\ transfer = <<>> /\ handle = <<>>
    /\ call = [c \in Calls |-> NoCall]

ActionsNext ==
    \/ Change \/ Tick
    \/ \E n \in DOMAIN negotiation : Decide(n)
    \/ \E t \in DOMAIN transfer : StartTransfer(t)
    \/ \E c \in Calls : Invoke(c) \/ Serve(c) \/ Receive(c) \/ Fetch(c) \/ Stream(c) \/ Abort(c)

-----------------------------------------------------------------------------
(* A call agrees to one contract at most, for the dataset its Thing stands  *)
(* for and under the offer it was shown for it, and starts one transfer at  *)
(* most, under that very agreement (edc_v3.py:408-455).                     *)
AgreesOnce ==
    /\ \A n, m \in DOMAIN negotiation : negotiation[n].call = negotiation[m].call => n = m
    /\ \A t, u \in DOMAIN transfer : transfer[t].negotiation = transfer[u].negotiation => t = u
    /\ \A n \in DOMAIN negotiation :
          LET c == negotiation[n].call
          IN  /\ negotiation[n].dataset = call[c].dataset
              /\ negotiation[n].offer = call[c].offer /\ call[c].offer \in Offers[call[c].dataset]
    /\ \A t \in DOMAIN transfer : negotiation[transfer[t].negotiation].state = "finalized"

(* What a call delivers is its own, also when calls overlap.               *)
DeliversOwn ==
    \A c \in Calls :
       (call[c].client = "done" /\ call[c].kind # "udata" /\ call[c].answer # "challenge") =>
          /\ negotiation[call[c].negotiation].call = c
          /\ transfer[call[c].transfer].negotiation = call[c].negotiation
          /\ call[c].answer = "download" => handle[call[c].handle].transfer = call[c].transfer

(* No handle outlives the setting, nor its EDR by more than the time        *)
(* between reading that and storing the handle (store.py:116, edc_v3.py:1136). *)
HandlesExpire ==
    \A h \in DOMAIN handle :
       /\ handle[h].expires > handle[h].stored
       /\ handle[h].expires <= handle[h].stored + DownloadTtl
       /\ handle[h].edr # None /\ handle[h].edr.expires # None =>
             handle[h].expires <= handle[h].edr.expires + (handle[h].stored - handle[h].read)

(* A call the runtime gave up goes on in wotbot, within the budget of its   *)
(* source, and no call succeeds before its answer (edc_v3.py:624, client.ts:78). *)
AbandonedBounded ==
    \A c \in Calls :
       /\ Budget # None => call[c].requests <= Budget
       /\ call[c].client = "done" => call[c].server = "answered"

ActionsSound == AgreesOnce /\ DeliversOwn /\ HandlesExpire /\ AbandonedBounded
=============================================================================
