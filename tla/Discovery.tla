----------------------------- MODULE Discovery -----------------------------
(***************************************************************************)
(* Provider-backed Things: the registry of discovery sources and their    *)
(* credentials (discovery/service.py, source_store.py), the candidates    *)
(* and refresh previews held in Redis (discovery/store.py), the Things    *)
(* onboarded from them, and the catalog's own writes to those Things      *)
(* (catalog/service.py) and to their credentials (catalog/credentials).   *)
(*                                                                        *)
(* One source is modelled with the Things of its resources; the id of     *)
(* each follows from where it comes from.  A transaction reads what is    *)
(* committed and locks no row before it writes, so every read and every   *)
(* write of a request is a step of its own.  A document has a generated   *)
(* part, made by the provider from the specification and the              *)
(* configuration of the source, and the actions its users added.          *)
(***************************************************************************)
EXTENDS Naturals, FiniteSets

CONSTANTS
    Requests,       \* requests in flight at the same time
    Resources,      \* what the source offers, each a Thing once it is onboarded
    Specs,          \* the versions of the provider's specification
    Configs,        \* the configurations of the source
    Schemes,        \* the security schemes of the source
    NoSec,          \* the scheme of a source without credentials
    Names,          \* the names of actions
    Offers,         \* the actions generated from each version
    None,
    MaxOps          \* bound: requests started and specifications published

ASSUME DiscoveryAssumption ==
    /\ NoSec \in Schemes
    /\ Offers \in [Specs -> SUBSET Names]
    /\ None \notin Specs \cup Schemes \cup Requests
    /\ MaxOps \in Nat

VARIABLES
    source,         \* the row of the source, or NoSource
    secret,         \* the scheme of its credential, or None
    upstream,       \* the specification the provider serves
    things,         \* the Things, by resource
    keys,           \* the version for which each Thing's credential was given
    candidates,     \* candidates in Redis
    previews,       \* refresh previews in Redis
    req,            \* where each request is
    raced,          \* a request wrote a Thing that was no longer what it had checked
    ops

vars == <<source, secret, upstream, things, keys, candidates, previews, req,
          raced, ops>>

Definitions == [config: Configs, scheme: Schemes]

\* A table row that is not there.
NoSource == [config |-> None, scheme |-> None]

Generated == [spec: Specs, config: Configs]

Ungenerated == [spec |-> None, config |-> None]

Documents == [gen: Generated \cup {Ungenerated}, man: SUBSET Names]

NoDocument == [gen |-> Ungenerated, man |-> {}]

Things == [kind: {"absent", "manual", "discovery"}, doc: Documents]

NoThing == [kind |-> "absent", doc |-> NoDocument]

\* A preview: the document it replaces, the source it was made from, the new one.
Preview == [thing: Resources, base: Documents, source: Definitions, doc: Documents]

Idle == [at |-> "idle", op |-> "none"]

Candidate == [thing: Resources, spec: Specs]

\* What a request has read and will use, at each of its steps.
Seeking == [at: {"runtime", "search"}, op: {"register", "discover"}, def: Definitions]
Onboarding == [at: {"runtime", "existing", "fetch"}, op: {"onboard"}, def: Definitions,
               cand: Candidate]
Creating == [at: {"create"}, op: {"onboard"}, cand: Candidate, gen: Generated]
Finding == [at: {"find"}, op: {"preview"}, thing: Resources, base: Documents]
Previewing == [at: {"runtime", "fetch"}, op: {"preview"}, thing: Resources, base: Documents,
               def: Definitions]
Checking == [at: {"check"}, op: {"apply"}, preview: Preview]
Writing == [at: {"write"}, op: {"apply"}, preview: Preview, thing: Things, def: Definitions]
Putting == [at: {"put"}, op: {"edit"}, thing: Resources, old: Things, doc: Documents]
Keying == [at: {"key"}, op: {"key"}, thing: Resources, old: Things]
Defining == [at: {"insert"}, op: {"register"}, def: Definitions]
Replacing == [at: {"replace"}, op: {"update"}, def: Definitions, old: Definitions]
Removing == [at: {"delete"}, op: {"delete"}]
Securing == [at: {"secret"}, op: {"secret"}, def: Definitions]

Request ==
    {Idle} \cup Defining \cup Replacing \cup Removing \cup Securing \cup Seeking
       \cup Onboarding \cup Creating \cup Finding \cup Previewing \cup Checking
       \cup Writing \cup Putting \cup Keying

Offered(doc) == IF doc.gen = Ungenerated THEN {} ELSE Offers[doc.gen.spec]

-----------------------------------------------------------------------------

\* A source's runtime definition needs a credential of the scheme of the record.
Usable(def) == def.scheme = NoSec \/ secret = def.scheme

Discovered(x) == things[x].kind = "discovery"

\* count_source_dependents
Dependents == {x \in Resources: Discovered(x)}

\* The foreign keys: a discovered Thing needs its source, and restricts its
\* deletion; the credential of a source goes with it.
MayRemoveSource == source # NoSource /\ Dependents = {}

\* merge_generated_document: what its users added to the current document stays.
Merged(doc, gen) == [gen |-> gen, man |-> doc.man]

Collides(doc, gen) == doc.man \cap Offers[gen.spec] # {}

\* Mutant: the generated part may be edited.
KeepsOnlyNames(current, doc) == doc.man \cap Offered(current) = {}

\* _validate_protected_resource_update: the generated part stays as it is.
KeepsProtected(current, doc) == doc.gen = current.gen /\ doc.man \cap Offered(current) = {}

\* What update() lets a client write over the Thing it read.
Permitted(thing, doc) ==
    IF thing.kind = "discovery"
    THEN KeepsProtected(thing.doc, doc)
    ELSE doc.gen = Ungenerated

\* put_thing: the document of the row, or a new row of a manual Thing.
Upserted(thing, doc) ==
    [kind |-> IF thing.kind = "absent" THEN "manual" ELSE thing.kind, doc |-> doc]

Start(r, state) ==
    /\ req[r] = Idle
    /\ ops < MaxOps
    /\ ops' = ops + 1
    /\ req' = [req EXCEPT ![r] = state]

Go(r, state) ==
    /\ req' = [req EXCEPT ![r] = state]
    /\ UNCHANGED ops

End(r) == Go(r, Idle)

CatalogSame == UNCHANGED <<things, keys, raced>>

SourceSame == UNCHANGED <<source, secret>>

StoresSame == UNCHANGED <<candidates, previews>>

-----------------------------------------------------------------------------
(* Registering, changing and deleting the source.                          *)

\* register_source: the source is looked up by its identity.
Register(r, def) ==
    /\ Start(r, IF source = NoSource
                THEN [at |-> "insert", op |-> "register", def |-> def]
                ELSE [at |-> "runtime", op |-> "register", def |-> source])
    /\ CatalogSame /\ SourceSame /\ StoresSame /\ UNCHANGED upstream

\* The insertion, or the record that another request inserted first.
InsertSource(r) ==
    /\ req[r].at = "insert"
    /\ source' = IF source = NoSource THEN req[r].def ELSE source
    /\ Go(r, [at |-> "runtime", op |-> "register", def |-> source'])
    /\ CatalogSame /\ StoresSame /\ UNCHANGED <<secret, upstream>>

\* update_registered_source: the current record is read in a transaction ...
Update(r, def) ==
    /\ source # NoSource
    /\ Start(r, [at |-> "replace", op |-> "update", def |-> def, old |-> source])
    /\ CatalogSame /\ SourceSame /\ StoresSame /\ UNCHANGED upstream

\* ... and replaced in another, with its credentials when the scheme changes.
ReplaceSource(r) ==
    /\ req[r].at = "replace"
    /\ \/ /\ source = NoSource
          /\ End(r)
          /\ SourceSame
       \/ /\ source # NoSource
          /\ source' = req[r].def
          /\ secret' = IF req[r].old.scheme # req[r].def.scheme THEN None ELSE secret
          /\ Go(r, [at |-> "runtime", op |-> "register", def |-> req[r].def])
    /\ CatalogSame /\ StoresSame /\ UNCHANGED upstream

\* delete_registered_source: a source with dependents is refused.
Remove(r) ==
    /\ source # NoSource
    /\ Dependents = {}
    /\ Start(r, [at |-> "delete", op |-> "delete"])
    /\ CatalogSame /\ SourceSame /\ StoresSame /\ UNCHANGED upstream

\* The deletion, which fails on a Thing that was onboarded since.
RemoveSource(r) ==
    /\ req[r].at = "delete"
    /\ IF MayRemoveSource
       THEN source' = NoSource /\ secret' = None
       ELSE SourceSame
    /\ End(r)
    /\ CatalogSame /\ StoresSame /\ UNCHANGED upstream

\* upsert_discovery_source_credential: the scheme is checked against the record.
Authorize(r) ==
    /\ source # NoSource
    /\ source.scheme # NoSec
    /\ Start(r, [at |-> "secret", op |-> "secret", def |-> source])
    /\ CatalogSame /\ SourceSame /\ StoresSame /\ UNCHANGED upstream

StoreSecret(r) ==
    /\ req[r].at = "secret"
    /\ secret' = IF source = NoSource THEN secret ELSE req[r].def.scheme
    /\ End(r)
    /\ CatalogSame /\ StoresSame /\ UNCHANGED <<source, upstream>>

\* remove_discovery_source_credential
DropSecret ==
    /\ secret # None /\ ops < MaxOps
    /\ secret' = None
    /\ ops' = ops + 1
    /\ CatalogSame /\ StoresSame /\ UNCHANGED <<source, upstream, req>>

-----------------------------------------------------------------------------
(* Discovering and onboarding.                                             *)

\* discover: the record of the source.
Discover(r) ==
    /\ source # NoSource
    /\ Start(r, [at |-> "runtime", op |-> "discover", def |-> source])
    /\ CatalogSame /\ SourceSame /\ StoresSame /\ UNCHANGED upstream

\* onboard: the candidate, then the record of the source.
Onboard(r, c) ==
    /\ c \in candidates
    /\ source # NoSource
    /\ Start(r, [at |-> "runtime", op |-> "onboard", def |-> source, cand |-> c])
    /\ CatalogSame /\ SourceSame /\ StoresSame /\ UNCHANGED upstream

\* _source_runtime, and for a registration the challenge before it: the
\* credential of the record that was read.  A registration goes on only if it may
\* onboard.
Runtime(r) ==
    /\ req[r].at = "runtime"
    /\ \/ /\ Usable(req[r].def)
          /\ Go(r, [req[r] EXCEPT !.at = CASE req[r].op \in {"register", "discover"} -> "search"
                                           [] req[r].op = "onboard" -> "existing"
                                           [] req[r].op = "preview" -> "fetch"])
       \/ /\ ~Usable(req[r].def) \/ req[r].op = "register"
          /\ End(r)
    /\ CatalogSame /\ SourceSame /\ StoresSame /\ UNCHANGED upstream

\* provider.search: candidates for the thread, or the one resource of a source
\* that was registered.  A call of the provider may fail.
Search(r) ==
    /\ req[r].at = "search"
    /\ \/ /\ req[r].op = "discover"
          /\ candidates' = candidates \cup [thing: Resources, spec: {upstream}]
          /\ End(r)
       \/ /\ req[r].op = "register" /\ Cardinality(Resources) = 1
          /\ \E x \in Resources:
                Go(r, [at |-> "existing", op |-> "onboard", def |-> req[r].def,
                       cand |-> [thing |-> x, spec |-> upstream]])
          /\ UNCHANGED candidates
       \/ End(r) /\ UNCHANGED candidates
    /\ CatalogSame /\ SourceSame /\ UNCHANGED <<upstream, previews>>

\* _onboard_resource: a Thing of the same origin is answered as it is.
Existing(r) ==
    /\ req[r].at = "existing"
    /\ IF Discovered(req[r].cand.thing)
       THEN End(r)
       ELSE Go(r, [req[r] EXCEPT !.at = "fetch"])
    /\ CatalogSame /\ SourceSame /\ StoresSame /\ UNCHANGED upstream

\* onboarding_document: a candidate of another specification is stale.
Compile(r) ==
    /\ req[r].at = "fetch" /\ req[r].op = "onboard"
    /\ \/ /\ req[r].cand.spec = upstream
          /\ Go(r, [at |-> "create", op |-> "onboard", cand |-> req[r].cand,
                    gen |-> [spec |-> upstream, config |-> req[r].def.config]])
       \/ End(r)
    /\ CatalogSame /\ SourceSame /\ StoresSame /\ UNCHANGED upstream

\* create_discovered: a Thing or a missing source makes the insertion fail.
Create(r) ==
    LET x == req[r].cand.thing IN
    /\ req[r].at = "create"
    /\ IF things[x] = NoThing /\ source # NoSource
       THEN things' = [things EXCEPT ![x] =
                          [kind |-> "discovery", doc |-> [gen |-> req[r].gen, man |-> {}]]]
       ELSE UNCHANGED things
    /\ End(r)
    /\ SourceSame /\ StoresSame /\ UNCHANGED <<upstream, keys, raced>>

-----------------------------------------------------------------------------
(* Refreshing a Thing.                                                     *)

\* preview_thing_refresh: the Thing, then the record of its source.
PreviewRefresh(r, x) ==
    /\ Discovered(x)
    /\ Start(r, [at |-> "find", op |-> "preview", thing |-> x, base |-> things[x].doc])
    /\ CatalogSame /\ SourceSame /\ StoresSame /\ UNCHANGED upstream

FindSource(r) ==
    /\ req[r].at = "find"
    /\ IF source = NoSource
       THEN End(r)
       ELSE Go(r, [at |-> "runtime", op |-> "preview", thing |-> req[r].thing,
                   base |-> req[r].base, def |-> source])
    /\ CatalogSame /\ SourceSame /\ StoresSame /\ UNCHANGED upstream

\* refresh_document and merge_refresh: the preview is stored for its user.
Regenerate(r) ==
    LET gen == [spec |-> upstream, config |-> req[r].def.config] IN
    /\ req[r].at = "fetch" /\ req[r].op = "preview"
    /\ \/ /\ ~Collides(req[r].base, gen)
          /\ previews' = previews \cup {[thing |-> req[r].thing, base |-> req[r].base,
                                         source |-> req[r].def,
                                         doc |-> Merged(req[r].base, gen)]}
       \/ UNCHANGED previews
    /\ End(r)
    /\ CatalogSame /\ SourceSame /\ UNCHANGED <<upstream, candidates>>

\* apply_thing_refresh: the preview is read.
ApplyRefresh(r, p) ==
    /\ p \in previews
    /\ Start(r, [at |-> "check", op |-> "apply", preview |-> p])
    /\ CatalogSame /\ SourceSame /\ StoresSame /\ UNCHANGED upstream

\* Mutant: the preview is applied to whatever the Thing has become.
CheckNothing(r) ==
    LET p == req[r].preview IN
    /\ req[r].at = "check"
    /\ IF Discovered(p.thing) /\ source # NoSource
       THEN Go(r, [at |-> "write", op |-> "apply", preview |-> p,
                   thing |-> things[p.thing], def |-> source])
       ELSE End(r)
    /\ CatalogSame /\ SourceSame /\ StoresSame /\ UNCHANGED upstream

\* The hashes of the Thing and its source, compared before the transaction and
\* again in it.
CheckRefresh(r) ==
    LET p == req[r].preview IN
    /\ req[r].at = "check"
    /\ IF Discovered(p.thing) /\ things[p.thing].doc = p.base /\ source = p.source
       THEN Go(r, [at |-> "write", op |-> "apply", preview |-> p,
                   thing |-> things[p.thing], def |-> source])
       ELSE End(r)
    /\ CatalogSame /\ SourceSame /\ StoresSame /\ UNCHANGED upstream

\* update_discovered: the document is written, unless that would insert it, the
\* credentials of a changed definition are removed, then the preview is deleted.
WriteRefresh(r) ==
    LET p == req[r].preview
        x == p.thing
    IN
    /\ req[r].at = "write"
    /\ IF things[x] = NoThing
       THEN CatalogSame /\ UNCHANGED previews
       ELSE /\ things' = [things EXCEPT ![x] = Upserted(@, p.doc)]
            /\ keys' = [keys EXCEPT ![x] =
                           IF p.base.gen.spec # p.doc.gen.spec THEN None ELSE @]
            /\ raced' = (raced \/ things[x] # req[r].thing \/ source # req[r].def)
            /\ previews' = previews \ {p}
    /\ End(r)
    /\ SourceSame /\ UNCHANGED <<upstream, candidates>>


-----------------------------------------------------------------------------
(* The catalog's own writes.                                               *)

\* ThingCatalogWriteService.create: a document with a provider's bindings is
\* refused.
CreateManual(x, man) ==
    /\ things[x] = NoThing
    /\ ops < MaxOps
    /\ things' = [things EXCEPT ![x] =
                     [kind |-> "manual", doc |-> [gen |-> Ungenerated, man |-> man]]]
    /\ ops' = ops + 1
    /\ SourceSame /\ StoresSame /\ UNCHANGED <<upstream, keys, req, raced>>

\* update: the document of a client against the Thing as it is ...
Edit(r, x, doc) ==
    /\ Permitted(things[x], doc)
    /\ doc # things[x].doc
    /\ Start(r, [at |-> "put", op |-> "edit", thing |-> x, old |-> things[x], doc |-> doc])
    /\ CatalogSame /\ SourceSame /\ StoresSame /\ UNCHANGED upstream

\* ... and its upsert over the Thing as it is by then.
Put(r) ==
    LET x == req[r].thing IN
    /\ req[r].at = "put"
    /\ things' = [things EXCEPT ![x] = Upserted(@, req[r].doc)]
    /\ raced' = (raced \/ things[x] # req[r].old)
    /\ End(r)
    /\ SourceSame /\ StoresSame /\ UNCHANGED <<upstream, keys>>

\* Mutant: the credentials stay.
DeleteOnlyThing(x) ==
    /\ things[x] # NoThing
    /\ ops < MaxOps
    /\ things' = [things EXCEPT ![x] = NoThing]
    /\ ops' = ops + 1
    /\ SourceSame /\ StoresSame /\ UNCHANGED <<upstream, keys, req, raced>>

\* delete: the Thing and its credentials.
DeleteThing(x) ==
    /\ things[x] # NoThing
    /\ ops < MaxOps
    /\ things' = [things EXCEPT ![x] = NoThing]
    /\ keys' = [keys EXCEPT ![x] = None]
    /\ ops' = ops + 1
    /\ SourceSame /\ StoresSame /\ UNCHANGED <<upstream, req, raced>>

\* A user reads the security of a Thing, and CredentialService.upsert stores what
\* they give for it without a look at the Thing.
ReadSecurity(r, x) ==
    /\ Discovered(x)
    /\ Start(r, [at |-> "key", op |-> "key", thing |-> x, old |-> things[x]])
    /\ CatalogSame /\ SourceSame /\ StoresSame /\ UNCHANGED upstream

StoreKey(r) ==
    LET x == req[r].thing IN
    /\ req[r].at = "key"
    /\ keys' = [keys EXCEPT ![x] = req[r].old.doc.gen.spec]
    /\ raced' = (raced \/ things[x] # req[r].old)
    /\ End(r)
    /\ SourceSame /\ StoresSame /\ UNCHANGED <<upstream, things>>

-----------------------------------------------------------------------------
(* The provider and the clock.                                             *)

\* Another version of the specification is served.
Publish(v) ==
    /\ v # upstream /\ ops < MaxOps
    /\ upstream' = v
    /\ ops' = ops + 1
    /\ CatalogSame /\ SourceSame /\ StoresSame /\ UNCHANGED req

\* The entries of the stores reach the end of their lives.
Expire ==
    /\ candidates # {} \/ previews # {}
    /\ \/ candidates' = {} /\ UNCHANGED previews
       \/ previews' = {} /\ UNCHANGED candidates
    /\ CatalogSame /\ SourceSame /\ UNCHANGED <<upstream, req, ops>>

-----------------------------------------------------------------------------

\* A new system, or one with a source whose Things were onboarded.
Init ==
    /\ upstream \in Specs
    /\ \/ /\ source = NoSource
          /\ things = [x \in Resources |-> NoThing]
       \/ /\ source \in [config: Configs, scheme: {NoSec}]
          /\ things = [x \in Resources |->
                          [kind |-> "discovery",
                           doc |-> [gen |-> [spec |-> upstream, config |-> source.config],
                                    man |-> {}]]]
    /\ secret = None
    /\ keys = [x \in Resources |-> None]
    /\ candidates = {}
    /\ previews = {}
    /\ req = [r \in Requests |-> Idle]
    /\ raced = FALSE
    /\ ops = 0

SourceStep(r) ==
    \/ \E def \in Definitions: Register(r, def) \/ Update(r, def)
    \/ InsertSource(r) \/ ReplaceSource(r)
    \/ Remove(r) \/ RemoveSource(r)
    \/ Authorize(r) \/ StoreSecret(r)

OnboardStep(r) ==
    \/ Discover(r)
    \/ \E c \in candidates: Onboard(r, c)
    \/ Runtime(r) \/ Search(r) \/ Existing(r) \/ Compile(r) \/ Create(r)

RefreshStep(r) ==
    \/ \E x \in Resources: PreviewRefresh(r, x)
    \/ FindSource(r) \/ Regenerate(r)
    \/ \E p \in previews: ApplyRefresh(r, p)
    \/ CheckRefresh(r) \/ WriteRefresh(r)

CatalogStep(r) ==
    \/ \E x \in Resources, doc \in Documents: Edit(r, x, doc)
    \/ Put(r)
    \/ \E x \in Resources: ReadSecurity(r, x)
    \/ StoreKey(r)

Next ==
    \/ \E r \in Requests: SourceStep(r) \/ OnboardStep(r) \/ RefreshStep(r) \/ CatalogStep(r)
    \/ \E x \in Resources: DeleteThing(x) \/ \E man \in SUBSET Names: CreateManual(x, man)
    \/ \E v \in Specs: Publish(v)
    \/ DropSecret \/ Expire

Spec == Init /\ [][Next]_vars

-----------------------------------------------------------------------------

\* The types, and the foreign key: a discovered Thing has its source
\* (catalog/models.py).
TypeOK ==
    /\ source \in Definitions \cup {NoSource}
    /\ secret \in Schemes \cup {None}
    /\ upstream \in Specs
    /\ things \in [Resources -> Things]
    /\ keys \in [Resources -> Specs \cup {None}]
    /\ candidates \subseteq [thing: Resources, spec: Specs]
    /\ previews \subseteq Preview
    /\ req \in [Requests -> Request]
    /\ raced \in BOOLEAN
    /\ ops \in 0..MaxOps
    /\ Dependents # {} => source # NoSource

\* The part of a Thing that its provider generates changes only as somebody was
\* shown it: from a candidate that is onboarded, whose specification is the one
\* that is compiled, or from an applied preview.  No edit of the catalog changes
\* it, unless the Thing changes within the transaction of the edit, which
\* compares what it read and locks nothing (catalog/service.py:154-172).
GeneratedAsShown ==
    [][\A x \in Resources:
          (Discovered(x)' /\ things'[x].doc.gen # things[x].doc.gen) =>
             \/ raced'
             \/ ~Discovered(x) /\ \E r \in Requests:
                   /\ req[r].at = "create"
                   /\ req[r].cand = [thing |-> x, spec |-> things'[x].doc.gen.spec]
             \/ \E r \in Requests:
                   /\ req[r].at = "write"
                   /\ req[r].preview.thing = x /\ req[r].preview.doc = things'[x].doc]_vars

\* A refresh is written over the document and under the source definition that its
\* preview was made from, so no edit or source update that was made since is lost,
\* and what users added to the Thing stays (service.py:577-603); again unless one falls
\* between the reads and the write of the refresh's own transaction.
RefreshOverBase ==
    [][\A r \in Requests:
          (WriteRefresh(r) /\ things' # things) =>
             LET p == req[r].preview IN
             \/ raced'
             \/ /\ things[p.thing].doc = p.base
                /\ source = p.source
                /\ things'[p.thing].doc.man = things[p.thing].doc.man]_vars

\* A stored credential was given for the security definition its Thing has now: a
\* refresh that changes the definition drops it, and so does the deletion of the
\* Thing (discovery/refresh.py:89-95), unless a Thing changed under a request.
KeysFit ==
    \A x \in Resources:
        keys[x] # None => raced \/ (Discovered(x) /\ keys[x] = things[x].doc.gen.spec)

\* The variables have their types and the credentials fit.
CredentialsConsistent == TypeOK /\ KeysFit
=============================================================================
