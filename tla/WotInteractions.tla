--------------------------- MODULE WotInteractions ---------------------------
(***************************************************************************)
(* Reads, writes and invocations of the WoT runtime                         *)
(* (http/runtime-routes.ts, runtime/operations.ts): the Thing Description    *)
(* is fetched for every request, the client is started by the first one      *)
(* (runtime/servient.ts) and keeps the credentials that a timer refreshes    *)
(* (runtime/credentials.ts), and answers of safe actions are cached in       *)
(* Valkey (services/cache.ts).  Everything between two awaits is one step.   *)
(***************************************************************************)
EXTENDS FormSelection

CONSTANTS Requests,    \* requests, each handled once
          Bodies,      \* what a request may carry
          Documents,   \* Thing Descriptions of the one Thing, as they affect one affordance
          Secrets,     \* entries the registry may hold for the Thing
          FileSecrets, \* the secrets of the local file: entries, or Malformed
          Refreshes,   \* refreshes that may be under way at once
          Schemes,     \* bindings the runtime has
          None, Malformed, Ambiguous,
          MaxChanges   \* changes of the catalog, of the secrets, and outages of the registry

VARIABLES catalog,     \* the Thing Description in the catalog
          registry,    \* the entries the registry holds for the Thing
          reachable,   \* whether the registry answers
          changes,
          wot,         \* the client: none, fetching, starting, ready
          loaded,      \* what startWot has loaded
          store,       \* the credential store of the running servient
          refresh,     \* refresh -> what it fetched, or None
          cache,       \* key -> entry
          req          \* request -> its stage and what it knows

vars == <<catalog, registry, reachable, changes, wot, loaded, store, refresh, cache, req>>

Fresh == [stage |-> "new", body |-> None, doc |-> None, index |-> 0, input |-> None,
          names |-> {}, sent |-> <<>>, cached |-> None, outcome |-> None]

-----------------------------------------------------------------------------
(* What a request means.                                                    *)

(* A payload of no bytes is no payload; null is one for writes only.       *)
DecodeInput(op, raw) ==
    IF raw = "empty" \/ raw = "absent" \/ (raw = "null" /\ op # "writeproperty") THEN None ELSE raw

(* An omitted input of an object action without required fields is {}.     *)
ActionInput(doc, input) == IF input = None /\ doc.input = "optional" THEN "object" ELSE input
MissingInput(doc, input) == input = None /\ doc.input = "required"

(* GET and HEAD carry no body: declared parameters in it become variables. *)
Bodiless == {"GET", "HEAD"}
ActionParameters(doc, op, index, input, body) ==
    IF FormHttpMethod(doc, op, index) \notin Bodiless
    THEN [input |-> input, names |-> body.names]
    ELSE [input |-> None,
          names |-> IF body.names = {} /\ input = "object"
                    THEN body.fields \cap doc.variables ELSE body.names]

Cacheable(r) == req[r].body.op = "invokeaction" /\ req[r].doc.safe

CacheKey(r) == [names |-> req[r].names, input |-> req[r].input, index |-> req[r].index]

(* The credentials of the security the document names: by its name, by its *)
(* scheme if that is unambiguous, else the only entry there is.            *)
Named(security, entries) == {e \in entries : e.name = security.name}
OfScheme(security, entries) == {e \in entries : e.scheme = security.scheme}
Resolve(security, entries) ==
    CASE entries = None -> None
      [] entries # None /\ Named(security, entries) # {} -> CHOOSE e \in Named(security, entries) : TRUE
      [] OTHER -> IF Cardinality(OfScheme(security, entries)) = 1
                  THEN CHOOSE e \in OfScheme(security, entries) : TRUE
                  ELSE IF OfScheme(security, entries) = {} /\ Cardinality(entries) = 1
                       THEN CHOOSE e \in entries : TRUE ELSE Ambiguous

(* node-wot: the form of the index, else the first a binding can serve.    *)
FormUsed(doc, op, index) ==
    IF index # 0 THEN index
    ELSE FirstForm({i \in DOMAIN doc.forms : Supports(doc.forms[i], op) /\ FormScheme(doc, doc.forms[i]) \in Schemes})

-----------------------------------------------------------------------------
(* The registry and the catalog change under the runtime.                   *)

ChangeDocument ==
    /\ changes < MaxChanges /\ changes' = changes + 1
    /\ catalog' \in (Documents \cup {None}) \ {catalog}
    /\ UNCHANGED <<registry, reachable, wot, loaded, store, refresh, cache, req>>

ChangeSecrets ==
    /\ changes < MaxChanges /\ changes' = changes + 1
    /\ registry' \in (Secrets \cup {None}) \ {registry}
    /\ UNCHANGED <<catalog, reachable, wot, loaded, store, refresh, cache, req>>

Outage ==
    /\ changes < MaxChanges /\ changes' = changes + 1
    /\ reachable' = ~reachable
    /\ UNCHANGED <<catalog, registry, wot, loaded, store, refresh, cache, req>>

Recover ==
    /\ ~reachable /\ reachable' = TRUE
    /\ UNCHANGED <<catalog, registry, changes, wot, loaded, store, refresh, cache, req>>

Expire ==
    /\ \E k \in DOMAIN cache : cache' = [j \in DOMAIN cache \ {k} |-> cache[j]]
    /\ UNCHANGED <<catalog, registry, reachable, changes, wot, loaded, store, refresh, req>>

-----------------------------------------------------------------------------
(* The client: started once, by whoever asks first; a failed start is       *)
(* forgotten, so that the next request tries again.                         *)

LoadSecrets ==
    /\ wot = "fetching"
    /\ loaded' = IF reachable THEN registry ELSE FileSecrets
    /\ wot' = "starting"
    /\ UNCHANGED <<catalog, registry, reachable, changes, store, refresh, cache, req>>

Waiting(r) == req[r].stage = "client"

StartClient ==
    /\ wot = "starting" /\ loaded # Malformed
    /\ wot' = "ready" /\ store' = loaded
    /\ UNCHANGED <<catalog, registry, reachable, changes, loaded, refresh, cache, req>>

(* Secrets of a wrong shape, or a servient that does not start.            *)
FailStart ==
    /\ wot = "starting"
    /\ wot' = "none"
    /\ req' = [r \in Requests |-> IF Waiting(r) THEN [req[r] EXCEPT !.stage = "done", !.outcome = "unknown"]
                                  ELSE req[r]]
    /\ UNCHANGED <<catalog, registry, reachable, changes, loaded, store, refresh, cache>>

(* The timer does not wait for the refresh before.                         *)
FetchSecrets(f) ==
    /\ wot = "ready" /\ reachable /\ refresh[f] = None
    /\ refresh' = [refresh EXCEPT ![f] = [entries |-> registry]]
    /\ UNCHANGED <<catalog, registry, reachable, changes, wot, loaded, store, cache, req>>

(* The store is cleared and filled from what was fetched.                  *)
ApplySecrets(f) ==
    /\ refresh[f] # None
    /\ store' = refresh[f].entries
    /\ refresh' = [refresh EXCEPT ![f] = None]
    /\ UNCHANGED <<catalog, registry, reachable, changes, wot, loaded, cache, req>>

-----------------------------------------------------------------------------
(* A request.                                                               *)

World == <<catalog, registry, reachable, changes, loaded, store, refresh>>

Step(r, change) == req' = [req EXCEPT ![r] = change @@ @]
End(r, outcome) == Step(r, [stage |-> "done", outcome |-> outcome])

Receive(r) ==
    /\ req[r].stage = "new"
    /\ \E b \in Bodies :
          Step(r, IF \/ ~b.named
                     \/ b.op = "writeproperty" /\ DecodeInput(b.op, b.raw) = None
                  THEN [stage |-> "done", outcome |-> "invalid_argument", body |-> b]
                  ELSE [stage |-> "fetch", body |-> b])
    /\ UNCHANGED <<World, wot, cache>>

(* The registry is asked for the document, then the client for its promise. *)
FetchDocument(r) ==
    /\ req[r].stage = "fetch"
    /\ IF catalog = None \/ ~reachable
       THEN End(r, "not_found") /\ UNCHANGED wot
       ELSE /\ Step(r, [stage |-> "client", doc |-> catalog])
            /\ wot' = IF wot = "none" THEN "fetching" ELSE wot
    /\ UNCHANGED <<World, cache>>

(* Everything that is decided about the request before it is sent.  Reads   *)
(* and writes pass no bindings, and carry their variables as they are.      *)
Readies(r, op) == Waiting(r) /\ wot = "ready" /\ req[r].body.op = op

PrepareAccess(r, input) ==
    LET body == req[r].body
        doc == req[r].doc
        index == ResolveFormIndex(doc, body.op, body.selector, {})
    IN  IF ~doc.defined THEN End(r, "not_found")
        ELSE IF index = Unmatched THEN End(r, "invalid_argument")
        ELSE Step(r, [stage |-> "send", index |-> index, input |-> input, names |-> body.names])

PrepareRead(r) ==
    /\ Readies(r, "readproperty")
    /\ PrepareAccess(r, None)
    /\ UNCHANGED <<World, wot, cache>>

PrepareWrite(r) ==
    /\ Readies(r, "writeproperty")
    /\ PrepareAccess(r, DecodeInput("writeproperty", req[r].body.raw))
    /\ UNCHANGED <<World, wot, cache>>

PrepareInvoke(r) ==
    /\ Readies(r, "invokeaction")
    /\ LET body == req[r].body
           doc == req[r].doc
           index == ResolveFormIndex(doc, body.op, body.selector, Schemes)
           input == DecodeInput(body.op, body.raw)
           given == ActionParameters(doc, body.op, index, ActionInput(doc, input), body)
       IN  IF ~doc.defined THEN End(r, "not_found")
           ELSE IF index = Unmatched \/ MissingInput(doc, input) THEN End(r, "invalid_argument")
           ELSE IF ~doc.synchronous THEN End(r, "unimplemented")
           ELSE Step(r, [stage |-> IF doc.safe THEN "lookup" ELSE "send",
                         index |-> index, input |-> given.input, names |-> given.names])
    /\ UNCHANGED <<World, wot, cache>>

(* A hit answers the request unless it holds an HTML page; a Valkey that    *)
(* fails is a miss.                                                         *)
LookUp(r) ==
    /\ req[r].stage = "lookup"
    /\ \/ Step(r, [stage |-> "send"])
       \/ /\ CacheKey(r) \in DOMAIN cache
          /\ LET entry == cache[CacheKey(r)]
             IN  Step(r, IF entry.page THEN [stage |-> "evict"]
                         ELSE [stage |-> "done", outcome |-> "ok", cached |-> entry.of])
    /\ UNCHANGED <<World, wot, cache>>

Evict(r) ==
    /\ req[r].stage = "evict"
    /\ Step(r, [stage |-> "send"])
    /\ cache' \in {cache, [k \in DOMAIN cache \ {CacheKey(r)} |-> cache[k]]}
    /\ UNCHANGED <<World, wot>>

(* node-wot picks the form and asks for credentials as it sends.           *)
Send(r) ==
    /\ req[r].stage = "send"
    /\ LET form == FormUsed(req[r].doc, req[r].body.op, req[r].index)
           entry == Resolve(req[r].doc.security, store)
           provider == FormScheme(req[r].doc, req[r].doc.forms[form]) = "provider"
       IN  IF form = Unmatched \/ (~provider /\ entry = Ambiguous) THEN End(r, "unknown")
           ELSE Step(r, [stage |-> "answer",
                         sent |-> Append(req[r].sent,
                                         [form |-> form, input |-> req[r].input, names |-> req[r].names,
                                          entry |-> IF provider THEN None ELSE entry,
                                          held |-> store])])
    /\ UNCHANGED <<World, wot, cache>>

(* The device answers, with a page that says HTML where the form promises   *)
(* JSON perhaps, or fails; an action may answer nothing.                    *)
Answered(r) ==
    /\ req[r].stage = "answer"
    /\ \/ End(r, "unknown")
       \/ End(r, "invalid_argument")
       \/ req[r].body.op = "writeproperty" /\ End(r, "ok")
       \/ req[r].body.op = "invokeaction" /\ End(r, "ok")
       \/ /\ req[r].body.op # "writeproperty"
          /\ \/ End(r, "invalid_response")
             \/ Step(r, [stage |-> IF Cacheable(r) THEN "save" ELSE "done", outcome |-> "ok"])
    /\ UNCHANGED <<World, wot, cache>>

(* Too large, disabled or a failing Valkey: the answer is not cached.      *)
Save(r) ==
    /\ req[r].stage = "save"
    /\ Step(r, [stage |-> "done"])
    /\ cache' \in {cache, (CacheKey(r) :> [page |-> FALSE, of |-> r]) @@ cache}
    /\ UNCHANGED <<World, wot>>

Handle(r) ==
    \/ Receive(r) \/ FetchDocument(r) \/ PrepareRead(r) \/ PrepareWrite(r) \/ PrepareInvoke(r)
    \/ LookUp(r) \/ Evict(r)
    \/ Send(r) \/ Answered(r) \/ Save(r)

-----------------------------------------------------------------------------
(* An entry written before pages were refused may be in the cache.         *)
InteractionsInit ==
    /\ catalog \in Documents /\ registry \in Secrets /\ reachable = TRUE /\ changes = 0
    /\ wot = "none" /\ loaded = None /\ store = None
    /\ refresh = [f \in Refreshes |-> None]
    /\ req = [r \in Requests |-> Fresh]
    /\ cache \in {<<>>, [k \in {[names |-> {}, input |-> None, index |-> 2]} |->
                            [page |-> TRUE, of |-> None]]}

InteractionsNext ==
    \/ ChangeDocument \/ ChangeSecrets \/ Outage \/ Recover \/ Expire
    \/ LoadSecrets \/ StartClient \/ FailStart
    \/ \E f \in Refreshes : FetchSecrets(f) \/ ApplySecrets(f)
    \/ \E r \in Requests : Handle(r)

(* The registry comes back, the timer fires on, and what is awaited ends.   *)
InteractionsFairness ==
    /\ WF_vars(Recover) /\ WF_vars(LoadSecrets) /\ WF_vars(StartClient \/ FailStart)
    /\ \A f \in Refreshes : WF_vars(FetchSecrets(f)) /\ WF_vars(ApplySecrets(f))
    /\ \A r \in Requests : WF_vars(Handle(r))

InteractionsSpec == InteractionsInit /\ [][InteractionsNext]_vars /\ InteractionsFairness

-----------------------------------------------------------------------------
Done(r) == req[r].stage = "done" /\ req[r].outcome = "ok"

(* An action that was not safe is carried out by each request that reports  *)
(* success, once, and nothing is sent twice (operations.ts:398-432).        *)
CarriedOut ==
    \A r \in Requests :
       /\ Len(req[r].sent) <= 1
       /\ Done(r) /\ ~Cacheable(r) => Len(req[r].sent) = 1 /\ req[r].cached = None

(* What comes from the cache was answered to the same request: the same     *)
(* form, input and variables, and never a page (operations.ts:399, 412).    *)
CacheFaithful ==
    \A r \in Requests :
       Done(r) /\ Len(req[r].sent) = 0 =>
          /\ req[r].cached \in Requests
          /\ LET origin == req[r].cached
             IN  /\ Done(origin) \/ req[origin].stage = "save"
                 /\ req[origin].sent[1].names = req[r].names
                 /\ req[origin].sent[1].input = req[r].input
                 /\ req[origin].index = req[r].index

(* What is sent fits the form it is sent by: no body with GET or HEAD,      *)
(* where declared parameters are not lost either, and the whole input       *)
(* otherwise (operations.ts:159-160).                                       *)
InputFollowsForm ==
    \A r \in Requests : req[r].body # None /\ req[r].sent # <<>> =>
       LET s == req[r].sent[1]
           doc == req[r].doc
           body == req[r].body
           given == ActionInput(doc, DecodeInput(body.op, body.raw))
       IN  body.op = "invokeaction" =>
             IF FormScheme(doc, doc.forms[s.form]) \in HttpSchemes /\ doc.forms[s.form].method \in Bodiless
             THEN /\ s.input = None
                  /\ body.names # {} => s.names = body.names
                  /\ given = "object" /\ body.names = {} => body.fields \cap doc.variables \subseteq s.names
             ELSE s.input = given /\ s.names = body.names

(* No credentials are guessed: what was presented is named by the document, *)
(* or is the only entry of its scheme, or the only entry; and the source's  *)
(* credentials never travel by this way (credentials.ts:120-121,            *)
(* provider/client.ts:204).                                                 *)
NeverGuessed ==
    \A r \in Requests : \A i \in DOMAIN req[r].sent :
       LET s == req[r].sent[i]
           security == req[r].doc.security
       IN  /\ s.entry # Ambiguous
           /\ s.entry # None =>
                /\ s.entry \in s.held
                /\ \/ s.entry.name = security.name
                   \/ \A e \in s.held : e.name # security.name /\ (e = s.entry \/ e.scheme # security.scheme)
           /\ FormScheme(req[r].doc, req[r].doc.forms[s.form]) = "provider" => s.entry = None

InteractionsSound == CarriedOut /\ CacheFaithful /\ InputFollowsForm /\ NeverGuessed

(* Once the registry is left alone the store of a started client follows    *)
(* it, whatever answers overtake each other (servient.ts:134), and every    *)
(* request ends, also those that wait for a start that fails                *)
(* (servient.ts:222).                                                       *)
StoreFollows == wot = "ready" => store = registry
Settled(r) == req[r].stage \in {"new", "done"}
SecretsFollow == []<>StoreFollows /\ \A r \in Requests : []<>Settled(r)
=============================================================================
