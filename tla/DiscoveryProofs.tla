-------------------------- MODULE DiscoveryProofs --------------------------
(***************************************************************************)
(* Theorems about Discovery, for any number of requests, resources,        *)
(* specifications and configurations.  What a request has read tells what  *)
(* it will write, as long as nothing changed under it; the rest follows    *)
(* from the rules of each write.                                           *)
(***************************************************************************)
EXTENDS Discovery, TLAPS

(***************************************************************************)
(* The inductive invariant                                                 *)
(***************************************************************************)

\* A refresh that was previewed keeps what users added.
Previewed(p) == p.doc.man = p.base.man

\* What a request knows of what it will write: what is created is what the candidate
\* showed, a refresh goes over the document and the source of its preview, an edit was
\* permitted over what it read, and keys are given for a discovered Thing.
Knows(q) ==
    /\ q.at = "create" => q.gen.spec = q.cand.spec
    /\ q.at \in {"check", "write"} => Previewed(q.preview)
    /\ q.at = "write" => /\ q.thing.kind = "discovery" /\ q.thing.doc = q.preview.base
                         /\ q.def = q.preview.source
    /\ q.at = "put" => Permitted(q.old, q.doc)
    /\ q.at = "key" => q.old.kind = "discovery"

RequestsKnow == \A r \in Requests : Knows(req[r])

PreviewsKeep == \A p \in previews : Previewed(p)

IInv == TypeOK /\ KeysFit /\ RequestsKnow /\ PreviewsKeep

(***************************************************************************)
(* Requests                                                                *)
(***************************************************************************)

\* Whatever a request has read is a request.
LEMMA RequestKinds ==
    /\ Idle \in Request /\ Defining \subseteq Request /\ Replacing \subseteq Request
    /\ Removing \subseteq Request /\ Securing \subseteq Request /\ Seeking \subseteq Request
    /\ Onboarding \subseteq Request /\ Creating \subseteq Request /\ Finding \subseteq Request
    /\ Previewing \subseteq Request /\ Checking \subseteq Request /\ Writing \subseteq Request
    /\ Putting \subseteq Request /\ Keying \subseteq Request
BY DEF Request

\* Where a request is tells what it has read.
LEMMA RequestAt ==
    ASSUME NEW q \in Request
    PROVE  /\ q.at = "insert" => q \in Defining
           /\ q.at = "replace" => q \in Replacing
           /\ q.at = "secret" => q \in Securing
           /\ q.at = "create" => q \in Creating
           /\ q.at = "find" => q \in Finding
           /\ q.at = "check" => q \in Checking
           /\ q.at = "write" => q \in Writing
           /\ q.at = "put" => q \in Putting
           /\ q.at = "key" => q \in Keying
           /\ q.at = "existing" => q \in Onboarding
           /\ q.at = "search" => q \in Seeking
           /\ q.at = "runtime" => q \in Seeking \cup Onboarding \cup Previewing
           /\ q.at = "fetch" => q \in Onboarding \cup Previewing
<1>1. \/ q = Idle \/ q \in Defining \/ q \in Replacing \/ q \in Removing \/ q \in Securing
      \/ q \in Seeking \/ q \in Onboarding \/ q \in Creating \/ q \in Finding
      \/ q \in Previewing \/ q \in Checking \/ q \in Writing \/ q \in Putting \/ q \in Keying
  BY DEF Request
<1>2. /\ q = Idle => q.at = "idle"
      /\ q \in Defining => q.at = "insert"
      /\ q \in Replacing => q.at = "replace"
      /\ q \in Removing => q.at = "delete"
      /\ q \in Securing => q.at = "secret"
      /\ q \in Creating => q.at = "create"
      /\ q \in Finding => q.at = "find"
  BY DEF Idle, Defining, Replacing, Removing, Securing, Creating, Finding
<1>3. /\ q \in Seeking => q.at \in {"runtime", "search"}
      /\ q \in Onboarding => q.at \in {"runtime", "existing", "fetch"}
      /\ q \in Previewing => q.at \in {"runtime", "fetch"}
      /\ q \in Checking => q.at = "check"
      /\ q \in Writing => q.at = "write"
      /\ q \in Putting => q.at = "put"
      /\ q \in Keying => q.at = "key"
  BY DEF Seeking, Onboarding, Previewing, Checking, Writing, Putting, Keying
<1> QED
  BY <1>1, <1>2, <1>3

\* The request r goes on to q, and the others stay where they are.
Turns(r, q) == req' = [req EXCEPT ![r] = q]

\* A request that goes on to something it knows leaves all requests knowing.
LEMMA TurnsStep ==
    ASSUME TypeOK, RequestsKnow, NEW r \in Requests, NEW q \in Request, Knows(q), Turns(r, q)
    PROVE  req' \in [Requests -> Request] /\ RequestsKnow'
<1>1. /\ req' \in [Requests -> Request]
      /\ \A s \in Requests : req'[s] = IF s = r THEN q ELSE req[s]
  BY DEF TypeOK, Turns
<1> QED
  BY <1>1 DEF RequestsKnow

\* What remains to be shown when requests, source, secret and stores change, and the
\* Things do not.
LEMMA QuietStep ==
    ASSUME IInv, UNCHANGED <<things, keys, raced>>, req' \in [Requests -> Request], RequestsKnow',
           source' \in Definitions \cup {NoSource}, secret' \in Schemes \cup {None},
           upstream' \in Specs, candidates' \subseteq Candidate, previews' \subseteq Preview,
           PreviewsKeep', ops' \in 0..MaxOps, Dependents # {} => source' # NoSource
    PROVE  IInv'
<1>1. TypeOK /\ KeysFit
  BY DEF IInv
<1>2. Dependents' = Dependents
  BY DEF Dependents, Discovered
<1>3. TypeOK'
  BY <1>1, <1>2 DEF TypeOK, Candidate
<1>4. KeysFit'
  BY <1>1 DEF KeysFit, Discovered
<1> QED
  BY <1>3, <1>4 DEF IInv

\* A request that only reads.
LEMMA ReadStep ==
    ASSUME IInv, NEW r \in Requests, NEW q \in Request, Knows(q), Turns(r, q),
           CatalogSame, SourceSame, StoresSame, UNCHANGED upstream, ops' \in 0..MaxOps
    PROVE  IInv'
<1>1. TypeOK /\ RequestsKnow /\ PreviewsKeep
  BY DEF IInv
<1>2. req' \in [Requests -> Request] /\ RequestsKnow'
  BY <1>1, TurnsStep
<1>3. /\ UNCHANGED <<things, keys, raced>> /\ source' = source /\ secret' = secret
      /\ candidates' = candidates /\ previews' = previews /\ upstream' = upstream
  BY DEF CatalogSame, SourceSame, StoresSame
<1>4. PreviewsKeep'
  BY <1>1, <1>3 DEF PreviewsKeep
<1>5. /\ source' \in Definitions \cup {NoSource} /\ secret' \in Schemes \cup {None}
      /\ upstream' \in Specs /\ candidates' \subseteq Candidate /\ previews' \subseteq Preview
      /\ (Dependents # {} => source' # NoSource)
  BY <1>1, <1>3 DEF TypeOK, Candidate
<1> QED
  BY <1>2, <1>3, <1>4, <1>5, QuietStep

\* Starting a request ...
LEMMA StartTurns ==
    ASSUME TypeOK, NEW r, NEW q, Start(r, q)
    PROVE  Turns(r, q) /\ ops' \in 0..MaxOps
BY DiscoveryAssumption DEF Start, Turns, TypeOK

\* ... and going on with one.
LEMMA GoTurns ==
    ASSUME TypeOK, NEW r, NEW q, Go(r, q)
    PROVE  Turns(r, q) /\ ops' \in 0..MaxOps
BY DEF Go, Turns, TypeOK

\* A request that starts by reading ...
LEMMA StartReads ==
    ASSUME IInv, NEW r \in Requests, NEW q \in Request, Knows(q), Start(r, q),
           CatalogSame, SourceSame, StoresSame, UNCHANGED upstream
    PROVE  IInv'
BY StartTurns, ReadStep DEF IInv

\* ... one that goes on reading ...
LEMMA GoReads ==
    ASSUME IInv, NEW r \in Requests, NEW q \in Request, Knows(q), Go(r, q),
           CatalogSame, SourceSame, StoresSame, UNCHANGED upstream
    PROVE  IInv'
BY GoTurns, ReadStep DEF IInv

\* An idle request has nothing to know.
LEMMA IdleKnows == Idle \in Request /\ Knows(Idle)
BY RequestKinds DEF Idle, Knows

\* ... and one that ends without a write.
LEMMA EndReads ==
    ASSUME IInv, NEW r \in Requests, End(r), CatalogSame, SourceSame, StoresSame,
           UNCHANGED upstream
    PROVE  IInv'
BY IdleKnows, GoReads DEF End

\* A definition is not the row that is not there.
LEMMA DefinitionIsSource == \A d \in Definitions : d # NoSource
BY DiscoveryAssumption DEF Definitions, NoSource

(***************************************************************************)
(* The steps on the source                                                 *)
(***************************************************************************)

\* Registering: what is looked up, inserted and read again is a definition.
LEMMA RegisterStep ==
    ASSUME IInv, NEW r \in Requests, NEW def \in Definitions, Register(r, def)
    PROVE  IInv'
<1>1. PICK q : q = IF source = NoSource
                   THEN [at |-> "insert", op |-> "register", def |-> def]
                   ELSE [at |-> "runtime", op |-> "register", def |-> source]
  OBVIOUS
<1>2. source # NoSource => source \in Definitions
  BY DEF IInv, TypeOK
<1>3. q \in Defining \cup Seeking
  BY <1>1, <1>2 DEF Defining, Seeking
<1>4. q \in Request
  BY <1>3, RequestKinds
<1>5. Knows(q)
  BY <1>1 DEF Knows
<1>6. Start(r, q) /\ CatalogSame /\ SourceSame /\ StoresSame /\ UNCHANGED upstream
  BY <1>1 DEF Register
<1> QED
  BY <1>4, <1>5, <1>6, StartReads

\* The record that is there, or the one that is inserted, is read again.
LEMMA InsertSourceStep ==
    ASSUME IInv, NEW r \in Requests, InsertSource(r)
    PROVE  IInv'
<1>1. TypeOK /\ RequestsKnow /\ PreviewsKeep
  BY DEF IInv
<1>2. req[r] \in Defining
  BY <1>1, RequestAt DEF TypeOK, InsertSource
<1>3. source' \in Definitions /\ source' # NoSource
  <2>1. req[r].def \in Definitions
    BY <1>2 DEF Defining
  <2> QED
    BY <1>1, <2>1, DefinitionIsSource DEF InsertSource, TypeOK
<1>4. PICK q : q = [at |-> "runtime", op |-> "register", def |-> source']
  OBVIOUS
<1>5. q \in Request /\ Knows(q)
  <2>1. q \in Seeking
    BY <1>3, <1>4 DEF Seeking
  <2> QED
    BY <1>4, <2>1, RequestKinds DEF Knows
<1>6. Turns(r, q) /\ ops' \in 0..MaxOps
  BY <1>1, <1>4, GoTurns DEF InsertSource
<1>7. req' \in [Requests -> Request] /\ RequestsKnow'
  BY <1>1, <1>5, <1>6, TurnsStep
<1>8. /\ UNCHANGED <<things, keys, raced>> /\ secret' = secret /\ upstream' = upstream
      /\ candidates' = candidates /\ previews' = previews
  BY DEF InsertSource, CatalogSame, StoresSame
<1>9. /\ secret' \in Schemes \cup {None} /\ upstream' \in Specs
      /\ candidates' \subseteq Candidate /\ previews' \subseteq Preview /\ PreviewsKeep'
  BY <1>1, <1>8 DEF TypeOK, Candidate, PreviewsKeep
<1> QED
  BY <1>3, <1>6, <1>7, <1>8, <1>9, QuietStep

\* Changing: the definition that was asked for replaces the row.
LEMMA UpdateStep ==
    ASSUME IInv, NEW r \in Requests, NEW def \in Definitions, Update(r, def)
    PROVE  IInv'
<1>1. source \in Definitions
  BY DEF IInv, TypeOK, Update
<1>2. PICK q : q = [at |-> "replace", op |-> "update", def |-> def, old |-> source]
  OBVIOUS
<1>3. q \in Replacing
  BY <1>1, <1>2 DEF Replacing
<1>4. q \in Request /\ Knows(q)
  BY <1>2, <1>3, RequestKinds DEF Knows
<1>5. Start(r, q) /\ CatalogSame /\ SourceSame /\ StoresSame /\ UNCHANGED upstream
  BY <1>2 DEF Update
<1> QED
  BY <1>4, <1>5, StartReads

\* A replacement writes the definition that was asked for, if the row is there.
LEMMA ReplaceSourceStep ==
    ASSUME IInv, NEW r \in Requests, ReplaceSource(r)
    PROVE  IInv'
<1>1. TypeOK /\ RequestsKnow /\ PreviewsKeep
  BY DEF IInv
<1>2. req[r].def \in Definitions
  <2>1. req[r] \in Replacing
    BY <1>1, RequestAt DEF TypeOK, ReplaceSource
  <2> QED
    BY <2>1 DEF Replacing
<1>3. CASE source = NoSource
  <2>1. End(r) /\ CatalogSame /\ SourceSame /\ StoresSame /\ UNCHANGED upstream
    BY <1>3 DEF ReplaceSource
  <2> QED
    BY <2>1, EndReads
<1>4. CASE source # NoSource
  <2>1. /\ source' = req[r].def /\ (secret' = None \/ secret' = secret)
        /\ Go(r, [at |-> "runtime", op |-> "register", def |-> req[r].def])
        /\ UNCHANGED <<things, keys, raced, upstream, candidates, previews>>
    BY <1>4 DEF ReplaceSource, CatalogSame, StoresSame
  <2>2. PICK q : q = [at |-> "runtime", op |-> "register", def |-> req[r].def]
    OBVIOUS
  <2>3. q \in Request /\ Knows(q)
    <3>1. q \in Seeking
      BY <1>2, <2>2 DEF Seeking
    <3> QED
      BY <2>2, <3>1, RequestKinds DEF Knows
  <2>4. Turns(r, q) /\ ops' \in 0..MaxOps
    BY <1>1, <2>1, <2>2, GoTurns
  <2>5. req' \in [Requests -> Request] /\ RequestsKnow'
    BY <1>1, <2>3, <2>4, TurnsStep
  <2>6. /\ source' \in Definitions /\ source' # NoSource /\ secret' \in Schemes \cup {None}
        /\ upstream' \in Specs /\ candidates' \subseteq Candidate /\ previews' \subseteq Preview
        /\ PreviewsKeep'
    BY <1>1, <1>2, <2>1, DefinitionIsSource DEF TypeOK, Candidate, PreviewsKeep
  <2> QED
    BY <2>1, <2>4, <2>5, <2>6, QuietStep
<1> QED
  BY <1>3, <1>4

\* Deleting: only without dependents.
LEMMA RemoveStep ==
    ASSUME IInv, NEW r \in Requests, Remove(r)
    PROVE  IInv'
<1>1. PICK q : q = [at |-> "delete", op |-> "delete"]
  OBVIOUS
<1>2. q \in Removing
  BY <1>1 DEF Removing
<1>3. q \in Request /\ Knows(q)
  BY <1>1, <1>2, RequestKinds DEF Knows
<1>4. Start(r, q) /\ CatalogSame /\ SourceSame /\ StoresSame /\ UNCHANGED upstream
  BY <1>1 DEF Remove
<1> QED
  BY <1>3, <1>4, StartReads

\* A deletion happens only while no Thing needs the source.
LEMMA RemoveSourceStep ==
    ASSUME IInv, NEW r \in Requests, RemoveSource(r)
    PROVE  IInv'
<1>1. TypeOK /\ RequestsKnow /\ PreviewsKeep
  BY DEF IInv
<1>2. CASE MayRemoveSource
  <2>1. /\ source' = NoSource /\ secret' = None /\ Dependents = {}
        /\ UNCHANGED <<things, keys, raced, upstream, candidates, previews>>
    BY <1>2 DEF RemoveSource, MayRemoveSource, CatalogSame, StoresSame
  <2>2. Turns(r, Idle) /\ ops' \in 0..MaxOps
    BY <1>1, GoTurns DEF RemoveSource, End
  <2>3. req' \in [Requests -> Request] /\ RequestsKnow'
    BY <1>1, <2>2, TurnsStep, IdleKnows
  <2>4. /\ upstream' \in Specs /\ candidates' \subseteq Candidate /\ previews' \subseteq Preview
        /\ PreviewsKeep'
    BY <1>1, <2>1 DEF TypeOK, Candidate, PreviewsKeep
  <2> QED
    BY <2>1, <2>2, <2>3, <2>4, QuietStep
<1>3. CASE ~MayRemoveSource
  BY <1>3, EndReads DEF RemoveSource
<1> QED
  BY <1>2, <1>3

\* Authorizing: the scheme of the record that was read.
LEMMA AuthorizeStep ==
    ASSUME IInv, NEW r \in Requests, Authorize(r)
    PROVE  IInv'
<1>1. source \in Definitions
  BY DEF IInv, TypeOK, Authorize
<1>2. PICK q : q = [at |-> "secret", op |-> "secret", def |-> source]
  OBVIOUS
<1>3. q \in Securing
  BY <1>1, <1>2 DEF Securing
<1>4. q \in Request /\ Knows(q)
  BY <1>2, <1>3, RequestKinds DEF Knows
<1>5. Start(r, q) /\ CatalogSame /\ SourceSame /\ StoresSame /\ UNCHANGED upstream
  BY <1>2 DEF Authorize
<1> QED
  BY <1>4, <1>5, StartReads

\* The secret is stored for the scheme that was read.
LEMMA StoreSecretStep ==
    ASSUME IInv, NEW r \in Requests, StoreSecret(r)
    PROVE  IInv'
<1>1. TypeOK /\ RequestsKnow /\ PreviewsKeep
  BY DEF IInv
<1>2. req[r].def.scheme \in Schemes
  <2>1. req[r] \in Securing
    BY <1>1, RequestAt DEF TypeOK, StoreSecret
  <2> QED
    BY <2>1 DEF Securing, Definitions
<1>3. /\ (secret' = secret \/ secret' = req[r].def.scheme)
      /\ UNCHANGED <<things, keys, raced, source, upstream, candidates, previews>>
  BY DEF StoreSecret, CatalogSame, StoresSame
<1>4. Turns(r, Idle) /\ ops' \in 0..MaxOps
  BY <1>1, GoTurns DEF StoreSecret, End
<1>5. req' \in [Requests -> Request] /\ RequestsKnow'
  BY <1>1, <1>4, TurnsStep, IdleKnows
<1>6. /\ source' \in Definitions \cup {NoSource} /\ secret' \in Schemes \cup {None}
      /\ upstream' \in Specs /\ candidates' \subseteq Candidate /\ previews' \subseteq Preview
      /\ PreviewsKeep' /\ (Dependents # {} => source' # NoSource)
  BY <1>1, <1>2, <1>3 DEF TypeOK, Candidate, PreviewsKeep
<1> QED
  BY <1>3, <1>4, <1>5, <1>6, QuietStep

\* Dropping a secret, publishing a specification, and the end of candidates and
\* previews concern no request.
LEMMA ClockStep ==
    ASSUME IInv, DropSecret \/ Expire \/ \E v \in Specs : Publish(v)
    PROVE  IInv'
<1>1. TypeOK /\ RequestsKnow /\ PreviewsKeep
  BY DEF IInv
<1>2. UNCHANGED <<things, keys, raced, source, req>>
  BY DEF DropSecret, Expire, Publish, CatalogSame, SourceSame
<1>3. req' \in [Requests -> Request] /\ RequestsKnow'
  BY <1>1, <1>2 DEF TypeOK, RequestsKnow
<1>4. candidates' \subseteq candidates /\ previews' \subseteq previews
  BY DEF DropSecret, Expire, Publish, StoresSame
<1>5. upstream' \in Specs /\ secret' \in Schemes \cup {None}
  BY <1>1 DEF DropSecret, Expire, Publish, SourceSame, TypeOK
<1>6. ops' \in 0..MaxOps
  BY <1>1, DiscoveryAssumption DEF DropSecret, Expire, Publish, TypeOK
<1>7. /\ source' \in Definitions \cup {NoSource} /\ (Dependents # {} => source' # NoSource)
      /\ candidates' \subseteq Candidate /\ previews' \subseteq Preview /\ PreviewsKeep'
  BY <1>1, <1>2, <1>4 DEF TypeOK, Candidate, PreviewsKeep
<1> QED
  BY <1>2, <1>3, <1>5, <1>6, <1>7, QuietStep


(***************************************************************************)
(* The steps that read and look for candidates                             *)
(***************************************************************************)

\* A discovery starts with the record of the source.
LEMMA DiscoverStep ==
    ASSUME IInv, NEW r \in Requests, Discover(r)
    PROVE  IInv'
<1>1. source \in Definitions
  BY DEF IInv, TypeOK, Discover
<1>2. PICK q : q = [at |-> "runtime", op |-> "discover", def |-> source]
  OBVIOUS
<1>3. q \in Seeking
  BY <1>1, <1>2 DEF Seeking
<1>4. q \in Request /\ Knows(q)
  BY <1>2, <1>3, RequestKinds DEF Knows
<1>5. Start(r, q) /\ CatalogSame /\ SourceSame /\ StoresSame /\ UNCHANGED upstream
  BY <1>2 DEF Discover
<1> QED
  BY <1>4, <1>5, StartReads

\* An onboarding with a candidate and the record of the source.
LEMMA OnboardsStep ==
    ASSUME IInv, NEW r \in Requests, NEW c \in candidates, Onboard(r, c)
    PROVE  IInv'
<1>1. source \in Definitions
  BY DEF IInv, TypeOK, Onboard
<1>2. c \in Candidate
  BY DEF IInv, TypeOK, Candidate
<1>3. PICK q : q = [at |-> "runtime", op |-> "onboard", def |-> source, cand |-> c]
  OBVIOUS
<1>4. q \in Onboarding
  BY <1>1, <1>2, <1>3 DEF Onboarding
<1>5. q \in Request /\ Knows(q)
  BY <1>3, <1>4, RequestKinds DEF Knows
<1>6. Start(r, q) /\ CatalogSame /\ SourceSame /\ StoresSame /\ UNCHANGED upstream
  BY <1>3 DEF Onboard
<1> QED
  BY <1>5, <1>6, StartReads

\* With a credential of its record a request goes on with what it has read.
LEMMA RuntimeStep ==
    ASSUME IInv, NEW r \in Requests, Runtime(r)
    PROVE  IInv'
<1>1. TypeOK
  BY DEF IInv
<1>2. req[r] \in Seeking \cup Onboarding \cup Previewing
  BY <1>1, RequestAt DEF TypeOK, Runtime
<1>3. CatalogSame /\ SourceSame /\ StoresSame /\ UNCHANGED upstream
  BY DEF Runtime
<1>4. ASSUME NEW a,
             a = CASE req[r].op \in {"register", "discover"} -> "search"
                   [] req[r].op = "onboard" -> "existing"
                   [] req[r].op = "preview" -> "fetch",
             NEW q, q = [req[r] EXCEPT !.at = a]
      PROVE  q \in Request /\ Knows(q)
  <2>1. CASE req[r] \in Seeking
    <3>1. a = "search"
      BY <1>4, <2>1 DEF Seeking
    <3>2. q \in Seeking /\ q.at = "search"
      BY <1>4, <2>1, <3>1 DEF Seeking
    <3> QED
      BY <3>2, RequestKinds DEF Knows
  <2>2. CASE req[r] \in Onboarding
    <3>1. a = "existing"
      BY <1>4, <2>2 DEF Onboarding
    <3>2. q \in Onboarding /\ q.at = "existing"
      BY <1>4, <2>2, <3>1 DEF Onboarding
    <3> QED
      BY <3>2, RequestKinds DEF Knows
  <2>3. CASE req[r] \in Previewing
    <3>1. a = "fetch"
      BY <1>4, <2>3 DEF Previewing
    <3>2. q \in Previewing /\ q.at = "fetch"
      BY <1>4, <2>3, <3>1 DEF Previewing
    <3> QED
      BY <3>2, RequestKinds DEF Knows
  <2> QED
    BY <1>2, <2>1, <2>2, <2>3
<1>5. CASE End(r)
  BY <1>3, <1>5, EndReads
<1>6. CASE Go(r, [req[r] EXCEPT !.at = CASE req[r].op \in {"register", "discover"} -> "search"
                                         [] req[r].op = "onboard" -> "existing"
                                         [] req[r].op = "preview" -> "fetch"])
  <2>1. PICK a : a = CASE req[r].op \in {"register", "discover"} -> "search"
                       [] req[r].op = "onboard" -> "existing"
                       [] req[r].op = "preview" -> "fetch"
    OBVIOUS
  <2>2. PICK q : q = [req[r] EXCEPT !.at = a]
    OBVIOUS
  <2>3. q \in Request /\ Knows(q)
    BY <1>4, <2>1, <2>2
  <2>4. Go(r, q)
    BY <1>6, <2>1, <2>2
  <2> QED
    BY <1>3, <2>3, <2>4, GoReads
<1> QED
  BY <1>5, <1>6 DEF Runtime

\* A search stores candidates, or goes on with the only resource there is.
LEMMA SearchStep ==
    ASSUME IInv, NEW r \in Requests, Search(r)
    PROVE  IInv'
<1>1. TypeOK /\ RequestsKnow /\ PreviewsKeep
  BY DEF IInv
<1>2. req[r] \in Seeking
  BY <1>1, RequestAt DEF TypeOK, Search
<1>3. /\ UNCHANGED <<things, keys, raced>> /\ source' = source /\ secret' = secret
      /\ upstream' = upstream /\ previews' = previews
  BY DEF Search, CatalogSame, SourceSame
<1>4. candidates' \subseteq Candidate
  BY <1>1 DEF Search, TypeOK, Candidate
<1>5. req' \in [Requests -> Request] /\ RequestsKnow' /\ ops' \in 0..MaxOps
  <2>1. CASE End(r)
    BY <1>1, <2>1, GoTurns, TurnsStep, IdleKnows DEF End
  <2>2. CASE ~End(r)
    <3>1. PICK x \in Resources :
             Go(r, [at |-> "existing", op |-> "onboard", def |-> req[r].def,
                    cand |-> [thing |-> x, spec |-> upstream]])
      BY <2>2 DEF Search
    <3>2. PICK q : q = [at |-> "existing", op |-> "onboard", def |-> req[r].def,
                        cand |-> [thing |-> x, spec |-> upstream]]
      OBVIOUS
    <3>3. q \in Onboarding
      <4>1. req[r].def \in Definitions
        BY <1>2 DEF Seeking
      <4>2. [thing |-> x, spec |-> upstream] \in Candidate
        BY <1>1 DEF Candidate, TypeOK
      <4> QED
        BY <3>2, <4>1, <4>2 DEF Onboarding
    <3>4. q \in Request /\ Knows(q)
      BY <3>2, <3>3, RequestKinds DEF Knows
    <3>5. Turns(r, q) /\ ops' \in 0..MaxOps
      BY <1>1, <3>1, <3>2, GoTurns
    <3> QED
      BY <1>1, <3>4, <3>5, TurnsStep
  <2> QED
    BY <2>1, <2>2
<1>6. /\ source' \in Definitions \cup {NoSource} /\ secret' \in Schemes \cup {None}
      /\ upstream' \in Specs /\ previews' \subseteq Preview /\ PreviewsKeep'
      /\ (Dependents # {} => source' # NoSource)
  BY <1>1, <1>3 DEF TypeOK, PreviewsKeep
<1> QED
  BY <1>3, <1>4, <1>5, <1>6, QuietStep

\* An onboarding goes on unless its Thing is there.
LEMMA ExistingStep ==
    ASSUME IInv, NEW r \in Requests, Existing(r)
    PROVE  IInv'
<1>1. TypeOK
  BY DEF IInv
<1>2. req[r] \in Onboarding
  BY <1>1, RequestAt DEF TypeOK, Existing
<1>3. CatalogSame /\ SourceSame /\ StoresSame /\ UNCHANGED upstream
  BY DEF Existing
<1>4. CASE End(r)
  BY <1>3, <1>4, EndReads
<1>5. CASE Go(r, [req[r] EXCEPT !.at = "fetch"])
  <2>1. PICK q : q = [req[r] EXCEPT !.at = "fetch"]
    OBVIOUS
  <2>2. q \in Onboarding /\ q.at = "fetch"
    BY <1>2, <2>1 DEF Onboarding
  <2>3. q \in Request /\ Knows(q)
    BY <2>2, RequestKinds DEF Knows
  <2>4. Go(r, q)
    BY <1>5, <2>1
  <2> QED
    BY <1>3, <2>3, <2>4, GoReads
<1> QED
  BY <1>4, <1>5 DEF Existing

\* What is compiled is of the version the candidate showed.
LEMMA CompileStep ==
    ASSUME IInv, NEW r \in Requests, Compile(r)
    PROVE  IInv'
<1>1. TypeOK
  BY DEF IInv
<1>2. CatalogSame /\ SourceSame /\ StoresSame /\ UNCHANGED upstream
  BY DEF Compile
<1>3. req[r] \in Onboarding
  <2>1. req[r] \in Onboarding \cup Previewing
    BY <1>1, RequestAt DEF TypeOK, Compile
  <2> QED
    BY <2>1 DEF Compile, Previewing
<1>4. CASE End(r)
  BY <1>2, <1>4, EndReads
<1>5. CASE ~End(r)
  <2>1. PICK q : q = [at |-> "create", op |-> "onboard", cand |-> req[r].cand,
                      gen |-> [spec |-> upstream, config |-> req[r].def.config]]
    OBVIOUS
  <2>2. Go(r, q) /\ req[r].cand.spec = upstream
    BY <1>5, <2>1 DEF Compile
  <2>3. q \in Creating
    <3>1. req[r].cand \in Candidate /\ req[r].def.config \in Configs
      BY <1>3 DEF Onboarding, Definitions
    <3>2. upstream \in Specs
      BY <1>1 DEF TypeOK
    <3> QED
      BY <2>1, <3>1, <3>2 DEF Creating, Generated
  <2>4. q \in Request /\ Knows(q)
    BY <2>1, <2>2, <2>3, RequestKinds DEF Knows
  <2> QED
    BY <1>2, <2>2, <2>4, GoReads
<1> QED
  BY <1>4, <1>5

(***************************************************************************)
(* The steps of a refresh                                                  *)
(***************************************************************************)

\* A preview starts with the Thing as it is.
LEMMA PreviewRefreshStep ==
    ASSUME IInv, NEW r \in Requests, NEW x \in Resources, PreviewRefresh(r, x)
    PROVE  IInv'
<1>1. things[x].doc \in Documents
  <2>1. things[x] \in Things
    BY DEF IInv, TypeOK
  <2> QED
    BY <2>1 DEF Things
<1>2. PICK q : q = [at |-> "find", op |-> "preview", thing |-> x, base |-> things[x].doc]
  OBVIOUS
<1>3. q \in Finding
  BY <1>1, <1>2 DEF Finding
<1>4. q \in Request /\ Knows(q)
  BY <1>2, <1>3, RequestKinds DEF Knows
<1>5. Start(r, q) /\ CatalogSame /\ SourceSame /\ StoresSame /\ UNCHANGED upstream
  BY <1>2 DEF PreviewRefresh
<1> QED
  BY <1>4, <1>5, StartReads

\* It goes on with the record of the source.
LEMMA FindSourceStep ==
    ASSUME IInv, NEW r \in Requests, FindSource(r)
    PROVE  IInv'
<1>1. TypeOK
  BY DEF IInv
<1>2. req[r] \in Finding
  BY <1>1, RequestAt DEF TypeOK, FindSource
<1>3. CatalogSame /\ SourceSame /\ StoresSame /\ UNCHANGED upstream
  BY DEF FindSource
<1>4. CASE source = NoSource
  BY <1>3, <1>4, EndReads DEF FindSource
<1>5. CASE source # NoSource
  <2>1. PICK q : q = [at |-> "runtime", op |-> "preview", thing |-> req[r].thing,
                      base |-> req[r].base, def |-> source]
    OBVIOUS
  <2>2. Go(r, q)
    BY <1>5, <2>1 DEF FindSource
  <2>3. source \in Definitions
    BY <1>1, <1>5 DEF TypeOK
  <2>4. q \in Previewing
    BY <1>2, <2>1, <2>3 DEF Finding, Previewing
  <2>5. q \in Request /\ Knows(q)
    BY <2>1, <2>4, RequestKinds DEF Knows
  <2> QED
    BY <1>3, <2>2, <2>5, GoReads
<1> QED
  BY <1>4, <1>5

\* A preview keeps what users added to the document it was made from.
LEMMA RegenerateStep ==
    ASSUME IInv, NEW r \in Requests, Regenerate(r)
    PROVE  IInv'
<1>1. TypeOK /\ RequestsKnow /\ PreviewsKeep
  BY DEF IInv
<1>2. req[r] \in Previewing
  <2>1. req[r] \in Onboarding \cup Previewing
    BY <1>1, RequestAt DEF TypeOK, Regenerate
  <2> QED
    BY <2>1 DEF Regenerate, Onboarding
<1>3. /\ UNCHANGED <<things, keys, raced>> /\ source' = source /\ secret' = secret
      /\ upstream' = upstream /\ candidates' = candidates
  BY DEF Regenerate, CatalogSame, SourceSame
<1>4. req' \in [Requests -> Request] /\ RequestsKnow' /\ ops' \in 0..MaxOps
  <2>1. Turns(r, Idle) /\ ops' \in 0..MaxOps
    BY <1>1, GoTurns DEF Regenerate, End
  <2> QED
    BY <1>1, <2>1, TurnsStep, IdleKnows
<1>5. previews' \subseteq Preview /\ PreviewsKeep'
  <2>1. PICK gen : gen = [spec |-> upstream, config |-> req[r].def.config]
    OBVIOUS
  <2>2. gen \in Generated
    <3>1. req[r].def.config \in Configs /\ upstream \in Specs
      BY <1>1, <1>2 DEF Previewing, Definitions, TypeOK
    <3> QED
      BY <2>1, <3>1 DEF Generated
  <2>3. PICK p : p = [thing |-> req[r].thing, base |-> req[r].base,
                      source |-> req[r].def, doc |-> Merged(req[r].base, gen)]
    OBVIOUS
  <2>4. req[r].thing \in Resources /\ req[r].base \in Documents /\ req[r].def \in Definitions
    BY <1>2 DEF Previewing
  <2>5. Merged(req[r].base, gen) \in Documents
    BY <2>2, <2>4 DEF Merged, Documents
  <2>6. p \in Preview /\ Previewed(p)
    <3>1. p \in Preview
      BY <2>3, <2>4, <2>5 DEF Preview
    <3>2. p.doc.man = p.base.man
      BY <2>3 DEF Merged
    <3> QED
      BY <3>1, <3>2 DEF Previewed
  <2>7. previews' \subseteq previews \cup {p}
    BY <2>1, <2>3 DEF Regenerate
  <2> QED
    BY <1>1, <2>6, <2>7 DEF TypeOK, PreviewsKeep
<1>6. /\ source' \in Definitions \cup {NoSource} /\ secret' \in Schemes \cup {None}
      /\ upstream' \in Specs /\ candidates' \subseteq Candidate
      /\ (Dependents # {} => source' # NoSource)
  BY <1>1, <1>3 DEF TypeOK, Candidate
<1> QED
  BY <1>3, <1>4, <1>5, <1>6, QuietStep

\* An application starts with the stored preview.
LEMMA ApplyRefreshStep ==
    ASSUME IInv, NEW r \in Requests, NEW p \in previews, ApplyRefresh(r, p)
    PROVE  IInv'
<1>1. p \in Preview /\ Previewed(p)
  BY DEF IInv, TypeOK, PreviewsKeep
<1>2. PICK q : q = [at |-> "check", op |-> "apply", preview |-> p]
  OBVIOUS
<1>3. q \in Checking
  BY <1>1, <1>2 DEF Checking
<1>4. q \in Request /\ Knows(q)
  BY <1>1, <1>2, <1>3, RequestKinds DEF Knows
<1>5. Start(r, q) /\ CatalogSame /\ SourceSame /\ StoresSame /\ UNCHANGED upstream
  BY <1>2 DEF ApplyRefresh
<1> QED
  BY <1>4, <1>5, StartReads

\* It goes on when the Thing and the source are those of the preview.
LEMMA CheckRefreshStep ==
    ASSUME IInv, NEW r \in Requests, CheckRefresh(r)
    PROVE  IInv'
<1>1. TypeOK /\ RequestsKnow
  BY DEF IInv
<1>2. PICK p : p = req[r].preview
  OBVIOUS
<1>3. req[r].at = "check" /\ req[r] \in Checking
  BY <1>1, RequestAt DEF TypeOK, CheckRefresh
<1>4. p \in Preview /\ Previewed(p)
  BY <1>1, <1>2, <1>3 DEF Checking, RequestsKnow, Knows
<1>5. CatalogSame /\ SourceSame /\ StoresSame /\ UNCHANGED upstream
  BY DEF CheckRefresh
<1>6. CASE End(r)
  BY <1>5, <1>6, EndReads
<1>7. CASE ~End(r)
  <2>1. PICK q : q = [at |-> "write", op |-> "apply", preview |-> p,
                      thing |-> things[p.thing], def |-> source]
    OBVIOUS
  <2>2. /\ Discovered(p.thing) /\ things[p.thing].doc = p.base /\ source = p.source
        /\ Go(r, q)
    BY <1>2, <1>7, <2>1 DEF CheckRefresh
  <2>3. p.thing \in Resources /\ source \in Definitions
    BY <1>4, <2>2 DEF Preview
  <2>4. things[p.thing] \in Things
    BY <1>1, <2>3 DEF TypeOK
  <2>5. q \in Writing
    BY <1>4, <2>1, <2>3, <2>4 DEF Writing
  <2>6. Knows(q)
    BY <1>4, <2>1, <2>2 DEF Knows, Discovered
  <2> QED
    BY <1>5, <2>2, <2>5, <2>6, RequestKinds, GoReads
<1> QED
  BY <1>6, <1>7

\* An edit was permitted over the Thing it read.
LEMMA EditStep ==
    ASSUME IInv, NEW r \in Requests, NEW x \in Resources, NEW doc \in Documents, Edit(r, x, doc)
    PROVE  IInv'
<1>1. things[x] \in Things
  BY DEF IInv, TypeOK
<1>2. PICK q : q = [at |-> "put", op |-> "edit", thing |-> x, old |-> things[x], doc |-> doc]
  OBVIOUS
<1>3. q \in Putting
  BY <1>1, <1>2 DEF Putting
<1>4. Start(r, q) /\ CatalogSame /\ SourceSame /\ StoresSame /\ UNCHANGED upstream
  BY <1>2 DEF Edit
<1>5. Knows(q)
  <2>1. Permitted(things[x], doc)
    BY DEF Edit
  <2>2. Permitted(q.old, q.doc)
    BY <1>2, <2>1
  <2> QED
    BY <1>2, <2>2 DEF Knows
<1> QED
  BY <1>3, <1>4, <1>5, RequestKinds, StartReads

\* Credentials are given for the discovered Thing that was read.
LEMMA ReadSecurityStep ==
    ASSUME IInv, NEW r \in Requests, NEW x \in Resources, ReadSecurity(r, x)
    PROVE  IInv'
<1>1. things[x] \in Things
  BY DEF IInv, TypeOK
<1>2. PICK q : q = [at |-> "key", op |-> "key", thing |-> x, old |-> things[x]]
  OBVIOUS
<1>3. q \in Keying
  BY <1>1, <1>2 DEF Keying
<1>4. Start(r, q) /\ CatalogSame /\ SourceSame /\ StoresSame /\ UNCHANGED upstream
  BY <1>2 DEF ReadSecurity
<1>5. Knows(q)
  BY <1>2 DEF Knows, ReadSecurity, Discovered
<1> QED
  BY <1>3, <1>4, <1>5, RequestKinds, StartReads

(***************************************************************************)
(* The steps that write Things and their credentials                       *)
(***************************************************************************)

\* What remains to be shown when Things or their credentials change.
LEMMA ThingStep ==
    ASSUME IInv, SourceSame, upstream' = upstream, candidates' = candidates,
           previews' \subseteq previews, req' \in [Requests -> Request], RequestsKnow',
           ops' \in 0..MaxOps, things' \in [Resources -> Things],
           keys' \in [Resources -> Specs \cup {None}], raced' \in BOOLEAN, KeysFit',
           \A x \in Resources :
              things'[x].kind = "discovery" => Discovered(x) \/ source # NoSource
    PROVE  IInv'
<1>1. TypeOK /\ PreviewsKeep
  BY DEF IInv
<1>2. Dependents' # {} => source' # NoSource
  <2>1. \A x \in Resources : Discovered(x) => source # NoSource
    BY <1>1 DEF TypeOK, Dependents
  <2>2. source' = source
    BY DEF SourceSame
  <2> QED
    BY <2>1, <2>2 DEF Dependents, Discovered
<1>3. TypeOK'
  BY <1>1, <1>2 DEF TypeOK, SourceSame
<1>4. PreviewsKeep'
  BY <1>1 DEF PreviewsKeep
<1> QED
  BY <1>3, <1>4 DEF IInv

\* A request that writes ends.
LEMMA EndStep ==
    ASSUME IInv, NEW r \in Requests, End(r)
    PROVE  req' \in [Requests -> Request] /\ RequestsKnow' /\ ops' \in 0..MaxOps
<1>1. TypeOK /\ RequestsKnow
  BY DEF IInv
<1>2. Turns(r, Idle) /\ ops' \in 0..MaxOps
  BY <1>1, GoTurns DEF End
<1> QED
  BY <1>1, <1>2, TurnsStep, IdleKnows

\* What the catalog does between a request and the next leaves the requests alone.
LEMMA RequestsStay ==
    ASSUME IInv, UNCHANGED req, ops < MaxOps, ops' = ops + 1
    PROVE  req' \in [Requests -> Request] /\ RequestsKnow' /\ ops' \in 0..MaxOps
<1>1. TypeOK /\ RequestsKnow
  BY DEF IInv
<1>2. req' \in [Requests -> Request] /\ RequestsKnow'
  BY <1>1 DEF TypeOK, RequestsKnow
<1>3. ops' \in 0..MaxOps
  BY <1>1, DiscoveryAssumption DEF TypeOK
<1> QED
  BY <1>2, <1>3

\* The rows that are not there, and those a client or a provider writes, are Things.
LEMMA ThingKinds ==
    /\ NoThing \in Things
    /\ \A gen \in Generated : [kind |-> "discovery", doc |-> [gen |-> gen, man |-> {}]] \in Things
    /\ \A man \in SUBSET Names :
          [kind |-> "manual", doc |-> [gen |-> Ungenerated, man |-> man]] \in Things
    /\ \A t \in Things, doc \in Documents :
          /\ Upserted(t, doc) \in Things
          /\ Upserted(t, doc).doc = doc
          /\ Upserted(t, doc).kind = "discovery" <=> t.kind = "discovery"
<1>1. NoDocument \in Documents
  BY DEF NoDocument, Documents
<1>2. /\ \A gen \in Generated : [gen |-> gen, man |-> {}] \in Documents
      /\ \A man \in SUBSET Names : [gen |-> Ungenerated, man |-> man] \in Documents
  BY DEF Documents
<1>3. ASSUME NEW t \in Things, NEW doc \in Documents
      PROVE  /\ Upserted(t, doc) \in Things
             /\ Upserted(t, doc).doc = doc
             /\ Upserted(t, doc).kind = "discovery" <=> t.kind = "discovery"
  BY <1>3 DEF Upserted, Things
<1> QED
  BY <1>1, <1>2, <1>3 DEF NoThing, Things

\* The row of x becomes t, and its credential k.
Writes(x, t, k) ==
    /\ things' = [things EXCEPT ![x] = t]
    /\ keys' = [keys EXCEPT ![x] = k]

\* A write keeps the credentials fitting when they fit the row it writes.
LEMMA WritesStep ==
    ASSUME TypeOK, KeysFit, NEW x \in Resources, NEW t \in Things, NEW k \in Specs \cup {None},
           Writes(x, t, k), raced => raced', raced' \in BOOLEAN,
           k # None => raced' \/ (t.kind = "discovery" /\ k = t.doc.gen.spec)
    PROVE  /\ things' \in [Resources -> Things]
           /\ keys' \in [Resources -> Specs \cup {None}]
           /\ KeysFit'
<1>1. /\ things' \in [Resources -> Things] /\ keys' \in [Resources -> Specs \cup {None}]
      /\ things'[x] = t /\ keys'[x] = k
      /\ \A y \in Resources : y # x => things'[y] = things[y] /\ keys'[y] = keys[y]
  BY DEF TypeOK, Writes
<1>2. ASSUME NEW y \in Resources, keys'[y] # None
      PROVE  raced' \/ (things'[y].kind = "discovery" /\ keys'[y] = things'[y].doc.gen.spec)
  <2>1. CASE y = x
    BY <1>1, <1>2, <2>1
  <2>2. CASE y # x
    BY <1>1, <1>2, <2>2 DEF KeysFit, Discovered
  <2> QED
    BY <2>1, <2>2
<1> QED
  BY <1>1, <1>2 DEF KeysFit, Discovered

\* A row that stays as it is, and a credential that does.
LEMMA WritesOne ==
    ASSUME TypeOK, NEW x \in Resources
    PROVE  /\ things = [things EXCEPT ![x] = things[x]]
           /\ keys = [keys EXCEPT ![x] = keys[x]]
           /\ things[x] \in Things /\ keys[x] \in Specs \cup {None}
BY DEF TypeOK

\* The version a Thing was generated from, if any.
LEMMA SpecOfThing ==
    ASSUME NEW t \in Things
    PROVE  t.doc \in Documents /\ t.doc.gen.spec \in Specs \cup {None}
<1>1. t.doc \in Documents
  BY DEF Things
<1>2. t.doc.gen \in Generated \cup {Ungenerated}
  BY <1>1 DEF Documents
<1> QED
  BY <1>1, <1>2 DEF Generated, Ungenerated

\* A Thing is created where there was none, under a source.
LEMMA CreateStep ==
    ASSUME IInv, NEW r \in Requests, Create(r)
    PROVE  IInv'
<1>1. TypeOK /\ KeysFit
  BY DEF IInv
<1>2. PICK x : x = req[r].cand.thing
  OBVIOUS
<1>3. req[r] \in Creating
  BY <1>1, RequestAt DEF TypeOK, Create
<1>4. x \in Resources /\ req[r].gen \in Generated
  BY <1>2, <1>3 DEF Creating, Candidate
<1>5. /\ End(r) /\ SourceSame /\ StoresSame /\ UNCHANGED <<upstream, keys, raced>>
  BY DEF Create
<1>6. CASE UNCHANGED things
  <2>1. CatalogSame
    BY <1>5, <1>6 DEF CatalogSame
  <2> QED
    BY <1>5, <2>1, EndReads
<1>7. CASE ~UNCHANGED things
  <2>1. PICK t : t = [kind |-> "discovery", doc |-> [gen |-> req[r].gen, man |-> {}]]
    OBVIOUS
  <2>2. things[x] = NoThing /\ source # NoSource /\ things' = [things EXCEPT ![x] = t]
    BY <1>2, <1>7, <2>1 DEF Create
  <2>3. t \in Things
    BY <1>4, <2>1, ThingKinds
  <2>4. Writes(x, t, keys[x]) /\ keys[x] \in Specs \cup {None}
    BY <1>1, <1>4, <1>5, <2>2, WritesOne DEF Writes
  <2>5. keys[x] # None => raced'
    BY <1>1, <1>4, <1>5, <2>2 DEF KeysFit, Discovered, NoThing
  <2>6. raced' = raced /\ raced' \in BOOLEAN
    BY <1>1, <1>5 DEF TypeOK
  <2>7. /\ things' \in [Resources -> Things]
        /\ keys' \in [Resources -> Specs \cup {None}] /\ KeysFit'
    BY <1>1, <1>4, <2>3, <2>4, <2>5, <2>6, WritesStep
  <2>8. upstream' = upstream /\ candidates' = candidates /\ previews' \subseteq previews
    BY <1>5 DEF StoresSame
  <2>9. req' \in [Requests -> Request] /\ RequestsKnow' /\ ops' \in 0..MaxOps
    BY <1>5, EndStep
  <2> QED
    BY <1>5, <2>2, <2>6, <2>7, <2>8, <2>9, ThingStep
<1> QED
  BY <1>6, <1>7

\* A manual Thing is created where there was none.
LEMMA CreateManualStep ==
    ASSUME IInv, NEW x \in Resources, NEW man \in SUBSET Names, CreateManual(x, man)
    PROVE  IInv'
<1>1. TypeOK /\ KeysFit
  BY DEF IInv
<1>2. PICK t : t = [kind |-> "manual", doc |-> [gen |-> Ungenerated, man |-> man]]
  OBVIOUS
<1>3. t \in Things /\ t.kind = "manual"
  BY <1>2, ThingKinds
<1>4. /\ things[x] = NoThing /\ things' = [things EXCEPT ![x] = t]
      /\ ops < MaxOps /\ ops' = ops + 1 /\ SourceSame /\ StoresSame
      /\ UNCHANGED <<upstream, keys, req, raced>>
  BY <1>2 DEF CreateManual
<1>5. Writes(x, t, keys[x]) /\ keys[x] \in Specs \cup {None}
  BY <1>1, <1>4, WritesOne DEF Writes
<1>6. keys[x] # None => raced'
  BY <1>1, <1>4 DEF KeysFit, Discovered, NoThing
<1>7. raced' = raced /\ raced' \in BOOLEAN
  BY <1>1, <1>4 DEF TypeOK
<1>8. /\ things' \in [Resources -> Things]
      /\ keys' \in [Resources -> Specs \cup {None}] /\ KeysFit'
  BY <1>1, <1>3, <1>5, <1>6, <1>7, WritesStep
<1>9. \A y \in Resources : things'[y].kind = "discovery" => Discovered(y)
  <2>1. things'[x] = t /\ \A y \in Resources : y # x => things'[y] = things[y]
    BY <1>1, <1>4 DEF TypeOK
  <2> QED
    BY <1>3, <2>1 DEF Discovered
<1>10. upstream' = upstream /\ candidates' = candidates /\ previews' \subseteq previews
  BY <1>4 DEF StoresSame
<1>11. req' \in [Requests -> Request] /\ RequestsKnow' /\ ops' \in 0..MaxOps
  BY <1>4, RequestsStay
<1> QED
  BY <1>4, <1>7, <1>8, <1>9, <1>10, <1>11, ThingStep

\* A deletion takes the credential with the Thing.
LEMMA DeleteThingStep ==
    ASSUME IInv, NEW x \in Resources, DeleteThing(x)
    PROVE  IInv'
<1>1. TypeOK /\ KeysFit
  BY DEF IInv
<1>2. /\ Writes(x, NoThing, None)
      /\ ops < MaxOps /\ ops' = ops + 1 /\ SourceSame /\ StoresSame
      /\ UNCHANGED <<upstream, req, raced>>
  BY DEF DeleteThing, Writes
<1>3. raced' = raced /\ raced' \in BOOLEAN
  BY <1>1, <1>2 DEF TypeOK
<1>4. NoThing \in Things
  BY ThingKinds
<1>5. /\ things' \in [Resources -> Things]
      /\ keys' \in [Resources -> Specs \cup {None}] /\ KeysFit'
  BY <1>1, <1>2, <1>3, <1>4, WritesStep
<1>6. \A y \in Resources : things'[y].kind = "discovery" => Discovered(y)
  <2>1. things'[x] = NoThing /\ \A y \in Resources : y # x => things'[y] = things[y]
    BY <1>1, <1>2 DEF TypeOK, Writes
  <2> QED
    BY <2>1 DEF Discovered, NoThing
<1>7. upstream' = upstream /\ candidates' = candidates /\ previews' \subseteq previews
  BY <1>2 DEF StoresSame
<1>8. req' \in [Requests -> Request] /\ RequestsKnow' /\ ops' \in 0..MaxOps
  BY <1>2, RequestsStay
<1> QED
  BY <1>2, <1>3, <1>5, <1>6, <1>7, <1>8, ThingStep

\* A row that is written over keeps its kind.
LEMMA KindStays ==
    ASSUME TypeOK, NEW x \in Resources, NEW doc \in Documents,
           things' = [things EXCEPT ![x] = Upserted(@, doc)]
    PROVE  /\ Upserted(things[x], doc) \in Things
           /\ things' = [things EXCEPT ![x] = Upserted(things[x], doc)]
           /\ \A y \in Resources : things'[y].kind = "discovery" => Discovered(y)
<1>1. things[x] \in Things
  BY DEF TypeOK
<1>2. PICK t : t = Upserted(things[x], doc)
  OBVIOUS
<1>3. t \in Things /\ (t.kind = "discovery" <=> things[x].kind = "discovery")
  BY <1>1, <1>2, ThingKinds
<1>4. things' = [things EXCEPT ![x] = t]
  BY <1>2
<1>5. things'[x] = t /\ \A y \in Resources : y # x => things'[y] = things[y]
  BY <1>4 DEF TypeOK
<1> QED
  BY <1>2, <1>3, <1>4, <1>5 DEF Discovered

\* A refresh over the document of its preview keeps the credential only when the
\* security definition stays.
LEMMA WriteRefreshStep ==
    ASSUME IInv, NEW r \in Requests, WriteRefresh(r)
    PROVE  IInv'
<1>1. TypeOK /\ KeysFit /\ RequestsKnow
  BY DEF IInv
<1>2. PICK p : p = req[r].preview
  OBVIOUS
<1>3. PICK x : x = p.thing
  OBVIOUS
<1>4. req[r] \in Writing /\ req[r].at = "write"
  BY <1>1, RequestAt DEF TypeOK, WriteRefresh
<1>5. p \in Preview
  BY <1>2, <1>4 DEF Writing
<1>6. x \in Resources /\ p.doc \in Documents
  BY <1>3, <1>5 DEF Preview
<1>7. req[r].thing.kind = "discovery" /\ req[r].thing.doc = p.base
  BY <1>1, <1>2, <1>4 DEF RequestsKnow, Knows
<1>8. /\ End(r) /\ SourceSame /\ UNCHANGED <<upstream, candidates>>
  BY DEF WriteRefresh
<1>9. CASE things[x] = NoThing
  <2>1. CatalogSame /\ StoresSame
    BY <1>2, <1>3, <1>8, <1>9 DEF WriteRefresh, StoresSame
  <2> QED
    BY <1>8, <2>1, EndReads
<1>10. CASE things[x] # NoThing
  <2>1. PICK k : k = IF p.base.gen.spec # p.doc.gen.spec THEN None ELSE keys[x]
    OBVIOUS
  <2>2. PICK t : t = Upserted(things[x], p.doc)
    OBVIOUS
  <2>3. /\ things' = [things EXCEPT ![x] = Upserted(@, p.doc)]
        /\ keys' = [keys EXCEPT ![x] = k]
        /\ raced' = (raced \/ things[x] # req[r].thing \/ source # req[r].def)
        /\ previews' \subseteq previews
    BY <1>2, <1>3, <1>10, <2>1 DEF WriteRefresh
  <2>4. t \in Things /\ \A y \in Resources : things'[y].kind = "discovery" => Discovered(y)
    BY <1>1, <1>6, <2>2, <2>3, KindStays
  <2>5. Writes(x, t, k)
    BY <2>2, <2>3 DEF Writes
  <2>6. k \in Specs \cup {None}
    BY <1>1, <1>6, <2>1, WritesOne
  <2>7. raced' \in BOOLEAN /\ (raced => raced')
    BY <2>3
  <2>8. ASSUME k # None, ~raced'
        PROVE  t.kind = "discovery" /\ k = t.doc.gen.spec
    <3>1. things[x] = req[r].thing /\ ~raced
      BY <2>3, <2>8
    <3>2. t.kind = "discovery" /\ t.doc = p.doc
      <4>1. things[x] \in Things
        BY <1>1, <1>6 DEF TypeOK
      <4> QED
        BY <1>6, <1>7, <2>2, <3>1, <4>1, ThingKinds
    <3>3. k = keys[x] /\ p.base.gen.spec = p.doc.gen.spec
      BY <2>1, <2>8
    <3>4. keys[x] = things[x].doc.gen.spec
      BY <1>1, <1>6, <2>8, <3>1, <3>3 DEF KeysFit
    <3> QED
      BY <1>7, <3>1, <3>2, <3>3, <3>4
  <2>9. /\ things' \in [Resources -> Things]
        /\ keys' \in [Resources -> Specs \cup {None}] /\ KeysFit'
    BY <1>1, <1>6, <2>4, <2>5, <2>6, <2>7, <2>8, WritesStep
  <2>10. req' \in [Requests -> Request] /\ RequestsKnow' /\ ops' \in 0..MaxOps
    BY <1>8, EndStep
  <2> QED
    BY <1>8, <2>3, <2>4, <2>7, <2>9, <2>10, ThingStep
<1> QED
  BY <1>9, <1>10

\* An edit that was permitted keeps the generated part of the Thing it goes over.
LEMMA PutStep ==
    ASSUME IInv, NEW r \in Requests, Put(r)
    PROVE  IInv'
<1>1. TypeOK /\ KeysFit /\ RequestsKnow
  BY DEF IInv
<1>2. PICK x : x = req[r].thing
  OBVIOUS
<1>3. PICK doc : doc = req[r].doc
  OBVIOUS
<1>4. req[r] \in Putting /\ req[r].at = "put"
  BY <1>1, RequestAt DEF TypeOK, Put
<1>5. x \in Resources /\ doc \in Documents
  BY <1>2, <1>3, <1>4 DEF Putting
<1>6. Permitted(req[r].old, doc)
  BY <1>1, <1>3, <1>4 DEF RequestsKnow, Knows
<1>7. /\ End(r) /\ SourceSame /\ StoresSame /\ UNCHANGED <<upstream, keys>>
      /\ things' = [things EXCEPT ![x] = Upserted(@, doc)]
      /\ raced' = (raced \/ things[x] # req[r].old)
  BY <1>2, <1>3 DEF Put
<1>8. PICK t : t = Upserted(things[x], doc)
  OBVIOUS
<1>9. t \in Things /\ \A y \in Resources : things'[y].kind = "discovery" => Discovered(y)
  BY <1>1, <1>5, <1>7, <1>8, KindStays
<1>10. Writes(x, t, keys[x]) /\ keys[x] \in Specs \cup {None}
  BY <1>1, <1>5, <1>7, <1>8, WritesOne DEF Writes
<1>11. raced' \in BOOLEAN /\ (raced => raced')
  BY <1>7
<1>12. ASSUME keys[x] # None, ~raced'
       PROVE  t.kind = "discovery" /\ keys[x] = t.doc.gen.spec
  <2>1. things[x] = req[r].old /\ ~raced
    BY <1>7, <1>12
  <2>2. things[x].kind = "discovery" /\ keys[x] = things[x].doc.gen.spec
    BY <1>1, <1>5, <1>12, <2>1 DEF KeysFit, Discovered
  <2>3. doc.gen = things[x].doc.gen
    BY <1>6, <2>1, <2>2 DEF Permitted, KeepsProtected
  <2>4. t.kind = "discovery" /\ t.doc = doc
    <3>1. things[x] \in Things
      BY <1>1, <1>5 DEF TypeOK
    <3> QED
      BY <1>5, <1>8, <2>2, <3>1, ThingKinds
  <2> QED
    BY <2>2, <2>3, <2>4
<1>13. /\ things' \in [Resources -> Things]
       /\ keys' \in [Resources -> Specs \cup {None}] /\ KeysFit'
  BY <1>1, <1>5, <1>9, <1>10, <1>11, <1>12, WritesStep
<1>14. upstream' = upstream /\ candidates' = candidates /\ previews' \subseteq previews
  BY <1>7 DEF StoresSame
<1>15. req' \in [Requests -> Request] /\ RequestsKnow' /\ ops' \in 0..MaxOps
  BY <1>7, EndStep
<1> QED
  BY <1>7, <1>9, <1>11, <1>13, <1>14, <1>15, ThingStep

\* A credential is stored for the Thing whose security was read.
LEMMA StoreKeyStep ==
    ASSUME IInv, NEW r \in Requests, StoreKey(r)
    PROVE  IInv'
<1>1. TypeOK /\ KeysFit /\ RequestsKnow
  BY DEF IInv
<1>2. PICK x : x = req[r].thing
  OBVIOUS
<1>3. req[r] \in Keying /\ req[r].at = "key"
  BY <1>1, RequestAt DEF TypeOK, StoreKey
<1>4. x \in Resources /\ req[r].old \in Things
  BY <1>2, <1>3 DEF Keying
<1>5. req[r].old.kind = "discovery"
  BY <1>1, <1>3 DEF RequestsKnow, Knows
<1>6. PICK k : k = req[r].old.doc.gen.spec
  OBVIOUS
<1>7. /\ End(r) /\ SourceSame /\ StoresSame /\ UNCHANGED <<upstream, things>>
      /\ keys' = [keys EXCEPT ![x] = k]
      /\ raced' = (raced \/ things[x] # req[r].old)
  BY <1>2, <1>6 DEF StoreKey
<1>8. k \in Specs \cup {None}
  BY <1>4, <1>6, SpecOfThing
<1>9. Writes(x, things[x], k) /\ things[x] \in Things
  BY <1>1, <1>4, <1>7, WritesOne DEF Writes
<1>10. raced' \in BOOLEAN /\ (raced => raced')
  BY <1>7
<1>11. ~raced' => things[x].kind = "discovery" /\ k = things[x].doc.gen.spec
  BY <1>5, <1>6, <1>7
<1>12. /\ things' \in [Resources -> Things]
       /\ keys' \in [Resources -> Specs \cup {None}] /\ KeysFit'
  BY <1>1, <1>4, <1>8, <1>9, <1>10, <1>11, WritesStep
<1>13. upstream' = upstream /\ candidates' = candidates /\ previews' \subseteq previews
  BY <1>7 DEF StoresSame
<1>14. \A y \in Resources : things'[y].kind = "discovery" => Discovered(y)
  BY <1>7 DEF Discovered
<1>15. req' \in [Requests -> Request] /\ RequestsKnow' /\ ops' \in 0..MaxOps
  BY <1>7, EndStep
<1> QED
  BY <1>7, <1>10, <1>12, <1>13, <1>14, <1>15, ThingStep

(***************************************************************************)
(* The invariant and the theorems                                          *)
(***************************************************************************)

\* At first, no request and no credential is there.
LEMMA InitIInv == Init => IInv
<1> SUFFICES ASSUME Init PROVE IInv
  OBVIOUS
<1>1. source \in Definitions \cup {NoSource} /\ upstream \in Specs
  BY DiscoveryAssumption DEF Init, Definitions
<1>2. things \in [Resources -> Things] /\ (Dependents # {} => source # NoSource)
  <2>1. CASE source = NoSource /\ things = [x \in Resources |-> NoThing]
    BY <2>1, ThingKinds DEF Dependents, Discovered, NoThing
  <2>2. CASE ~(source = NoSource /\ things = [x \in Resources |-> NoThing])
    <3>1. source \in [config: Configs, scheme: {NoSec}]
      BY <2>2 DEF Init
    <3>2. PICK gen : gen = [spec |-> upstream, config |-> source.config]
      OBVIOUS
    <3>3. gen \in Generated
      BY <1>1, <3>1, <3>2 DEF Generated
    <3>4. things = [x \in Resources |-> [kind |-> "discovery", doc |-> [gen |-> gen, man |-> {}]]]
      BY <2>2, <3>2 DEF Init
    <3>5. source # NoSource
      BY <3>1, DefinitionIsSource, DiscoveryAssumption DEF Definitions
    <3> QED
      BY <3>3, <3>4, <3>5, ThingKinds
  <2> QED
    BY <2>1, <2>2
<1>3. /\ secret = None /\ keys = [x \in Resources |-> None] /\ candidates = {} /\ previews = {}
      /\ req = [r \in Requests |-> Idle] /\ raced = FALSE /\ ops = 0
  BY DEF Init
<1>4. req \in [Requests -> Request] /\ RequestsKnow
  BY <1>3, IdleKnows DEF RequestsKnow
<1>5. TypeOK
  <2>1. secret \in Schemes \cup {None} /\ keys \in [Resources -> Specs \cup {None}]
    BY <1>3
  <2>2. candidates \subseteq [thing: Resources, spec: Specs] /\ previews \subseteq Preview
    BY <1>3
  <2>3. raced \in BOOLEAN
    BY <1>3
  <2>4. ops \in 0..MaxOps
    <3>1. ops = 0 /\ MaxOps \in Nat
      BY <1>3, DiscoveryAssumption
    <3> QED
      BY <3>1
  <2> QED
    BY <1>1, <1>2, <1>4, <2>1, <2>2, <2>3, <2>4 DEF TypeOK
<1>6. KeysFit /\ PreviewsKeep
  BY <1>3 DEF KeysFit, PreviewsKeep
<1> QED
  BY <1>4, <1>5, <1>6 DEF IInv

\* Every step keeps what requests know and what credentials were given for.
LEMMA NextIInv == IInv /\ [Next]_vars => IInv'
<1> SUFFICES ASSUME IInv, [Next]_vars PROVE IInv'
  OBVIOUS
<1>1. CASE UNCHANGED vars
  <2>1. UNCHANGED <<source, secret, upstream, things, keys, candidates, previews, req, raced, ops>>
    BY <1>1 DEF vars
  <2> QED
    BY <2>1 DEF IInv, TypeOK, KeysFit, RequestsKnow, PreviewsKeep, Dependents, Discovered
<1>2. ASSUME NEW r \in Requests, SourceStep(r)
      PROVE  IInv'
  BY <1>2, RegisterStep, UpdateStep, InsertSourceStep, ReplaceSourceStep, RemoveStep,
     RemoveSourceStep, AuthorizeStep, StoreSecretStep DEF SourceStep
<1>3. ASSUME NEW r \in Requests, OnboardStep(r)
      PROVE  IInv'
  BY <1>3, DiscoverStep, OnboardsStep, RuntimeStep, SearchStep, ExistingStep, CompileStep,
     CreateStep DEF OnboardStep
<1>4. ASSUME NEW r \in Requests, RefreshStep(r)
      PROVE  IInv'
  BY <1>4, PreviewRefreshStep, FindSourceStep, RegenerateStep, ApplyRefreshStep,
     CheckRefreshStep, WriteRefreshStep DEF RefreshStep
<1>5. ASSUME NEW r \in Requests, CatalogStep(r)
      PROVE  IInv'
  BY <1>5, EditStep, PutStep, ReadSecurityStep, StoreKeyStep DEF CatalogStep
<1>6. ASSUME NEW x \in Resources,
             DeleteThing(x) \/ \E man \in SUBSET Names : CreateManual(x, man)
      PROVE  IInv'
  BY <1>6, DeleteThingStep, CreateManualStep
<1>7. CASE DropSecret \/ Expire \/ \E v \in Specs : Publish(v)
  BY <1>7, ClockStep
<1> QED
  BY <1>1, <1>2, <1>3, <1>4, <1>5, <1>6, <1>7 DEF Next

\* What requests have read fits what they will write, in every state.
THEOREM InductiveInvariant == Spec => []IInv
<1>1. Init => IInv
  BY InitIInv
<1>2. IInv /\ [Next]_vars => IInv'
  BY NextIInv
<1> QED
  BY <1>1, <1>2, PTL DEF Spec

\* The types hold, a discovered Thing has its source, and a stored credential was given
\* for the definition its Thing has now, unless a Thing changed under a request.
THEOREM CredentialsConsistentHolds == Spec => []CredentialsConsistent
<1>1. IInv => CredentialsConsistent
  BY DEF IInv, CredentialsConsistent
<1> QED
  BY <1>1, InductiveInvariant, PTL

\* The steps that may change a Thing.
LEMMA ThingChanges ==
    ASSUME Next
    PROVE  \/ things' = things
           \/ \E r \in Requests : Create(r) \/ WriteRefresh(r) \/ Put(r)
           \/ \E x \in Resources : DeleteThing(x) \/ \E man \in SUBSET Names : CreateManual(x, man)
<1>1. ASSUME NEW r \in Requests, SourceStep(r)
      PROVE  things' = things
  BY <1>1 DEF SourceStep, Register, Update, InsertSource, ReplaceSource, Remove, RemoveSource,
     Authorize, StoreSecret, CatalogSame
<1>2. ASSUME NEW r \in Requests, OnboardStep(r), ~Create(r)
      PROVE  things' = things
  BY <1>2 DEF OnboardStep, Discover, Onboard, Runtime, Search, Existing, Compile, CatalogSame
<1>3. ASSUME NEW r \in Requests, RefreshStep(r), ~WriteRefresh(r)
      PROVE  things' = things
  BY <1>3 DEF RefreshStep, PreviewRefresh, FindSource, Regenerate, ApplyRefresh, CheckRefresh,
     CatalogSame
<1>4. ASSUME NEW r \in Requests, CatalogStep(r), ~Put(r)
      PROVE  things' = things
  BY <1>4 DEF CatalogStep, Edit, ReadSecurity, StoreKey, CatalogSame
<1>5. CASE DropSecret \/ Expire \/ \E v \in Specs : Publish(v)
  BY <1>5 DEF DropSecret, Expire, Publish, CatalogSame
<1> QED
  BY <1>1, <1>2, <1>3, <1>4, <1>5 DEF Next

\* How the generated part of the Thing of x may change in a step.
Shown(x) ==
    (Discovered(x)' /\ things'[x].doc.gen # things[x].doc.gen) =>
       \/ raced'
       \/ ~Discovered(x) /\ \E r \in Requests:
             /\ req[r].at = "create"
             /\ req[r].cand = [thing |-> x, spec |-> things'[x].doc.gen.spec]
       \/ \E r \in Requests:
             /\ req[r].at = "write"
             /\ req[r].preview.thing = x /\ req[r].preview.doc = things'[x].doc

\* What is created is what the candidate showed.
LEMMA CreateShows ==
    ASSUME IInv, NEW r \in Requests, Create(r), NEW x \in Resources
    PROVE  Shown(x)
<1>1. TypeOK /\ RequestsKnow
  BY DEF IInv
<1>2. req[r] \in Creating /\ req[r].at = "create"
  BY <1>1, RequestAt DEF TypeOK, Create
<1>3. CASE things'[x] = things[x]
  BY <1>3 DEF Shown
<1>4. CASE things'[x] # things[x]
  <2>1. PICK t : t = [kind |-> "discovery", doc |-> [gen |-> req[r].gen, man |-> {}]]
    OBVIOUS
  <2>2. /\ things[req[r].cand.thing] = NoThing
        /\ things' = [things EXCEPT ![req[r].cand.thing] = t]
    BY <1>4, <2>1 DEF Create
  <2>3. x = req[r].cand.thing /\ things'[x] = t /\ things[x] = NoThing
    BY <1>1, <1>4, <2>2 DEF TypeOK
  <2>4. req[r].gen.spec = req[r].cand.spec
    BY <1>1, <1>2 DEF RequestsKnow, Knows
  <2>5. req[r].cand = [thing |-> req[r].cand.thing, spec |-> req[r].cand.spec]
    <3>1. req[r].cand \in Candidate
      BY <1>2 DEF Creating
    <3> QED
      BY <3>1 DEF Candidate
  <2>6. things'[x].doc.gen.spec = req[r].cand.spec
    BY <2>1, <2>3, <2>4
  <2>7. ~Discovered(x)
    BY <2>3 DEF Discovered, NoThing
  <2> QED
    BY <1>2, <2>3, <2>5, <2>6, <2>7 DEF Shown
<1> QED
  BY <1>3, <1>4

\* What a refresh writes is the document of its preview.
LEMMA WriteRefreshShows ==
    ASSUME IInv, NEW r \in Requests, WriteRefresh(r), NEW x \in Resources
    PROVE  Shown(x)
<1>1. TypeOK
  BY DEF IInv
<1>2. PICK p : p = req[r].preview
  OBVIOUS
<1>3. req[r] \in Writing /\ req[r].at = "write"
  BY <1>1, RequestAt DEF TypeOK, WriteRefresh
<1>4. p.thing \in Resources /\ p.doc \in Documents
  <2>1. p \in Preview
    BY <1>2, <1>3 DEF Writing
  <2> QED
    BY <2>1 DEF Preview
<1>5. CASE things'[x] = things[x]
  BY <1>5 DEF Shown
<1>6. CASE things'[x] # things[x]
  <2>1. things' = [things EXCEPT ![p.thing] = Upserted(@, p.doc)]
    BY <1>2, <1>6 DEF WriteRefresh, CatalogSame
  <2>2. PICK t : t = Upserted(things[p.thing], p.doc)
    OBVIOUS
  <2>3. things' = [things EXCEPT ![p.thing] = t]
    BY <2>1, <2>2
  <2>4. x = p.thing /\ things'[x] = t
    BY <1>1, <1>6, <2>3 DEF TypeOK
  <2>5. t.doc = p.doc
    BY <2>2 DEF Upserted
  <2> QED
    BY <1>2, <1>3, <2>4, <2>5 DEF Shown
<1> QED
  BY <1>5, <1>6

\* An edit keeps the generated part.
LEMMA PutShows ==
    ASSUME IInv, NEW r \in Requests, Put(r), NEW x \in Resources
    PROVE  Shown(x)
<1>1. TypeOK /\ RequestsKnow
  BY DEF IInv
<1>2. req[r] \in Putting /\ req[r].at = "put"
  BY <1>1, RequestAt DEF TypeOK, Put
<1>3. PICK t : t = Upserted(things[req[r].thing], req[r].doc)
  OBVIOUS
<1>4. /\ things' = [things EXCEPT ![req[r].thing] = t]
      /\ raced' = (raced \/ things[req[r].thing] # req[r].old)
  BY <1>3 DEF Put
<1>5. CASE x # req[r].thing
  BY <1>1, <1>4, <1>5 DEF Shown, TypeOK
<1>6. CASE x = req[r].thing /\ ~raced' /\ Discovered(x)'
  <2>1. things'[x] = t /\ things[x] = req[r].old /\ things[x] \in Things
    BY <1>1, <1>4, <1>6 DEF TypeOK
  <2>2. t.doc = req[r].doc /\ things[x].kind = "discovery"
    <3>1. req[r].doc \in Documents
      BY <1>2 DEF Putting
    <3>2. t.kind = "discovery"
      BY <1>6, <2>1 DEF Discovered
    <3> QED
      BY <1>3, <1>6, <2>1, <3>1, <3>2, ThingKinds
  <2>3. Permitted(req[r].old, req[r].doc)
    BY <1>1, <1>2 DEF RequestsKnow, Knows
  <2>4. req[r].doc.gen = things[x].doc.gen
    BY <2>1, <2>2, <2>3 DEF Permitted, KeepsProtected
  <2> QED
    BY <2>1, <2>2, <2>4 DEF Shown
<1>7. CASE raced' \/ ~Discovered(x)'
  BY <1>7 DEF Shown
<1> QED
  BY <1>5, <1>6, <1>7

\* What the catalog creates and deletes is not discovered.
LEMMA CatalogShows ==
    ASSUME IInv, NEW y \in Resources,
           DeleteThing(y) \/ \E man \in SUBSET Names : CreateManual(y, man),
           NEW x \in Resources
    PROVE  Shown(x)
<1>1. TypeOK
  BY DEF IInv
<1>2. PICK t : things' = [things EXCEPT ![y] = t] /\ t.kind # "discovery"
  <2>1. CASE DeleteThing(y)
    <3>1. things' = [things EXCEPT ![y] = NoThing]
      BY <2>1 DEF DeleteThing
    <3>2. NoThing.kind # "discovery"
      BY DEF NoThing
    <3> QED
      BY <3>1, <3>2
  <2>2. ASSUME NEW man \in SUBSET Names, CreateManual(y, man)
        PROVE  \E t : things' = [things EXCEPT ![y] = t] /\ t.kind # "discovery"
    <3>1. PICK t : t = [kind |-> "manual", doc |-> [gen |-> Ungenerated, man |-> man]]
      OBVIOUS
    <3>2. things' = [things EXCEPT ![y] = t] /\ t.kind # "discovery"
      BY <2>2, <3>1 DEF CreateManual
    <3> QED
      BY <3>2
  <2> QED
    BY <2>1, <2>2
<1>3. \A z \in Resources : things'[z] = IF z = y THEN t ELSE things[z]
  BY <1>1, <1>2 DEF TypeOK
<1>4. CASE x = y
  <2>1. ~Discovered(x)'
    BY <1>2, <1>3, <1>4 DEF Discovered
  <2> QED
    BY <2>1 DEF Shown
<1>5. CASE x # y
  BY <1>3, <1>5 DEF Shown
<1> QED
  BY <1>4, <1>5

\* The generated part of a Thing changes only as somebody was shown it.
THEOREM GeneratedAsShownHolds == Spec => GeneratedAsShown
<1>1. ASSUME IInv, Next, NEW x \in Resources
      PROVE  Shown(x)
  <2>1. CASE things' = things
    BY <2>1 DEF Shown
  <2> QED
    BY <1>1, <2>1, ThingChanges, CreateShows, WriteRefreshShows, PutShows, CatalogShows
<1>2. IInv /\ [Next]_vars => [\A x \in Resources : Shown(x)]_vars
  BY <1>1
<1>3. Spec => [][\A x \in Resources : Shown(x)]_vars
  BY <1>2, InductiveInvariant, PTL DEF Spec
<1> QED
  BY <1>3 DEF GeneratedAsShown, Shown

\* A refresh goes over the document and under the source its preview was made from.
LEMMA RefreshKeeps ==
    ASSUME IInv, NEW r \in Requests, WriteRefresh(r), things' # things, ~raced'
    PROVE  /\ things[req[r].preview.thing].doc = req[r].preview.base
           /\ source = req[r].preview.source
           /\ things'[req[r].preview.thing].doc.man = things[req[r].preview.thing].doc.man
<1>1. TypeOK /\ RequestsKnow
  BY DEF IInv
<1>2. PICK p : p = req[r].preview
  OBVIOUS
<1>3. req[r] \in Writing /\ req[r].at = "write"
  BY <1>1, RequestAt DEF TypeOK, WriteRefresh
<1>4. p.thing \in Resources
  <2>1. p \in Preview
    BY <1>2, <1>3 DEF Writing
  <2> QED
    BY <2>1 DEF Preview
<1>5. /\ req[r].thing.doc = p.base /\ req[r].def = p.source /\ p.doc.man = p.base.man
  BY <1>1, <1>2, <1>3 DEF RequestsKnow, Knows, Previewed
<1>6. PICK t : t = Upserted(things[p.thing], p.doc)
  OBVIOUS
<1>7. /\ things' = [things EXCEPT ![p.thing] = t]
      /\ raced' = (raced \/ things[p.thing] # req[r].thing \/ source # req[r].def)
  BY <1>2, <1>6 DEF WriteRefresh, CatalogSame
<1>8. things'[p.thing] = t /\ t.doc = p.doc
  BY <1>1, <1>4, <1>6, <1>7 DEF TypeOK, Upserted
<1>9. things[p.thing] = req[r].thing /\ source = req[r].def
  BY <1>7
<1> QED
  BY <1>2, <1>5, <1>8, <1>9

\* A refresh loses neither an edit nor a change of the source made since its preview.
THEOREM RefreshOverBaseHolds == Spec => RefreshOverBase
<1> DEFINE Kept(r) ==
              (WriteRefresh(r) /\ things' # things) =>
                 LET p == req[r].preview IN
                 \/ raced'
                 \/ /\ things[p.thing].doc = p.base
                    /\ source = p.source
                    /\ things'[p.thing].doc.man = things[p.thing].doc.man
<1>1. ASSUME IInv, NEW r \in Requests
      PROVE  Kept(r)
  BY <1>1, RefreshKeeps
<1>2. IInv /\ [Next]_vars => [\A r \in Requests : Kept(r)]_vars
  BY <1>1
<1>3. Spec => [][\A r \in Requests : Kept(r)]_vars
  BY <1>2, InductiveInvariant, PTL DEF Spec
<1> QED
  BY <1>3 DEF RefreshOverBase
=============================================================================
