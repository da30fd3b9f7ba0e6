----------------------------- MODULE MCDiscovery -----------------------------
(***************************************************************************)
(* Discovery and what stands on both sides of it on small instances.  A     *)
(* behaviour is one of one part: the registry, whose provider serves two    *)
(* versions of its specification; the actions of one Thing, or two calls of  *)
(* one, at a dataspace; the reading of a listing; the Things compiled from   *)
(* an OpenAPI document, over many documents or while it changes; on the      *)
(* other side MCP servers: their sessions, their tools and their results;    *)
(* the enrichment of a description before it is kept; and the Things that     *)
(* jobs make for their records.                                              *)
(***************************************************************************)
EXTENDS Discovery, Sequences, TLC

CONSTANTS r1, r2, v1, v2, get, set, m1, m2, d1, k1, k2, x1, x2

VARIABLES part,
          clock, thing, record, accepted, entry, offer, negotiation, transfer, handle,
          changes, action,                                         \* ProviderActions
          portal, directory, edits, http, visited, search,         \* SourceListing
          site, spec, api, published, offered, compiled,           \* OpenApiThings
          pool, pending, conns, call,                              \* McpSessions
          listing, tools, returned,                                \* McpBinding
          vocabulary, td, attempt, proposal, errors, outcome,      \* ThingEnrichment
          outputs, rows, virtual, records, saga, delivery, ticks, epoch, disturbed,
          begun, faults                                            \* JobRecords

actionVars == <<clock, thing, record, accepted, entry, offer, negotiation, transfer, handle,
                changes, action>>
listingVars == <<portal, directory, edits, http, visited, search>>
compileVars == <<site, spec, api, published, offered, compiled>>
sessionVars == <<pool, pending, conns, call>>
bindingVars == <<listing, tools, returned>>
enrichVars == <<vocabulary, td, attempt, proposal, errors, outcome>>
jobVars == <<outputs, rows, virtual, records, saga, delivery, ticks, epoch, disturbed, begun, faults>>

(* The state of the parts a behaviour is not about.                        *)
NoRegistry == source = NoSource /\ upstream = v1
NoActions == /\ clock = 0 /\ thing = None /\ record = None /\ accepted = None /\ entry = None /\ offer = None
             /\ negotiation = None /\ transfer = None /\ handle = None /\ changes = 0 /\ action = None
NoListing == /\ portal = None /\ directory = None /\ edits = 0 /\ http = None /\ visited = None
             /\ search = None
NoCompile == /\ site = None /\ spec = None /\ api = None /\ published = 0 /\ offered = None
             /\ compiled = None
NoSessions == pool = None /\ pending = None /\ conns = None /\ call = None
NoBinding == listing = None /\ tools = None /\ returned = None
NoEnrichment == /\ vocabulary = None /\ td = None /\ attempt = 0 /\ proposal = None /\ errors = None
                /\ outcome = None
NoJobs == /\ outputs = None /\ rows = None /\ virtual = None /\ records = None /\ saga = None
          /\ delivery = None /\ ticks = 0 /\ epoch = None /\ disturbed = None /\ begun = 0
          /\ faults = 0

MCOffers == (v1 :> {get}) @@ (v2 :> {get, set})

-----------------------------------------------------------------------------
(* One call of any action at two datasets, one change; two calls of one.   *)

AnyAction ==
    {[operation |-> "download", kind |-> k, dataset |-> "d1"] : k \in {"edc-v3", "tx-bootstrap", "udata"}}
    \cup {[operation |-> "invoke", kind |-> k, dataset |-> "d1"] : k \in {"edc-v3", "tx-bootstrap"}}
TwoOffers == ("d1" :> {"o1", "o2"}) @@ ("d2" :> {"p1"})
OneOffer == "d1" :> {"o1"}
OneAction == {[operation |-> "download", kind |-> "edc-v3", dataset |-> "d1"]}
Acquire == INSTANCE ProviderActions WITH
    source <- record, call <- action, Calls <- {"c1"}, Datasets <- {"d1", "d2"},
    Offers <- TwoOffers, Actions <- AnyAction,
    Lifetimes <- {1, None}, Polling <- 1, RuntimeTimeout <- 1, DownloadTtl <- 2, Budget <- 7,
    MaxChanges <- 1, MaxClock <- 2
Overlap == INSTANCE ProviderActions WITH
    source <- record, call <- action, Calls <- {"c1", "c2"}, Datasets <- {"d1"},
    Offers <- OneOffer, Actions <- OneAction,
    Lifetimes <- {2}, Polling <- 1, RuntimeTimeout <- 1, DownloadTtl <- 1, Budget <- None,
    MaxChanges <- 0, MaxClock <- 1

-----------------------------------------------------------------------------
(* Two queries that share an item, and directories up to one Thing more     *)
(* than are allowed.                                                        *)

Numbers(n) == [i \in 1..n |-> i]
TwoListings == <<Numbers(7), <<5, 2, 8>>>>
SomeDirectories == {Numbers(n) : n \in {0, 3, 7, 9}}
Reading == INSTANCE SourceListing WITH
    source <- portal, changes <- edits,
    Listings <- TwoListings, Directories <- SomeDirectories,
    Weights <- {1, 4}, MaxBytes <- 5, PageSize <- 5, SearchLimit <- 7, Limit <- 10,
    MaxThings <- 8, MaxRequests <- 8, MaxRedirects <- 1, MaxChanges <- 1

-----------------------------------------------------------------------------
(* OpenAPI documents: every mix of securities of two operations, every       *)
(* shape of one, every schema of three nodes; and documents that change.     *)

ApiNode(ref, types, properties, required, items, anyOf, allOf) ==
    [ref |-> ref, types |-> types, properties |-> properties, required |-> required,
     items |-> items, anyOf |-> anyOf, allOf |-> allOf]
ApiLeaf(types) == ApiNode(None, types, <<>>, {}, None, <<>>, <<>>)
ApiLeaves == {ApiLeaf(<<"string">>), ApiLeaf(<<"null">>), ApiLeaf(<<"string", "null">>),
              ApiLeaf(<<"string", "object">>)}
ApiInner == {ApiNode("x", <<>>, <<>>, {}, None, <<>>, <<>>),
             ApiNode("root", <<>>, <<>>, {}, None, <<>>, <<>>),
             ApiNode(None, <<>>, "a" :> "x", {"a"}, None, <<>>, <<>>),
             ApiNode(None, <<"object", "null">>, "a" :> "root" @@ "b" :> "y", {}, None, <<>>, <<>>),
             ApiNode(None, <<>>, <<>>, {}, "x", <<>>, <<>>),
             ApiNode(None, <<>>, <<>>, {}, None, <<"x", "y">>, <<>>),
             ApiNode(None, <<>>, <<>>, {}, None, <<>>, <<"x", "y">>),
             ApiNode(None, <<>>, "b" :> "y", {}, None, <<>>, <<"x">>)}
ApiSchemas == {"root" :> r @@ "x" :> x @@ "y" :> y : r \in ApiInner, x \in ApiInner \cup ApiLeaves, y \in ApiLeaves}
Plain == "root" :> ApiLeaf(<<"string">>)

Value(t) == [type |-> t, fields |-> <<>>]
Flat == {Value("null"), Value("string"), Value("number"), Value("object"), Value("array")}
JsonValues ==
    Flat \cup {[type |-> "object", fields |-> f] : f \in UNION {[D -> Flat] : D \in SUBSET {"a", "b"}}}
    \cup {[type |-> "array", fields |-> <<v>>] : v \in Flat}

Param(in, required, primitive) == [in |-> in, name |-> "v", required |-> required, primitive |-> primitive]
Op(key, id, tag, security, parameters, template) ==
    [key |-> key, id |-> id, tag |-> tag, security |-> security, parameters |-> parameters,
     template |-> template, callbacks |-> FALSE, body |-> "none", bodyRequired |-> FALSE,
     response |-> "json", schema |-> "root"]
OpenApi(security, schemes, operations, schemas) ==
    [security |-> security, schemes |-> schemes, operations |-> operations, schemas |-> schemas,
     servers |-> <<[resolved |-> TRUE, url |-> "s1"]>>]

Securities == {None, <<>>, <<{"a"}>>, <<{"b"}>>, <<{"a", "b"}, {"b"}>>, <<{}, {"a"}>>}
TwoSchemes(a, b) == <<[name |-> "a", kind |-> a], [name |-> "b", kind |-> b]>>
Secured ==
    {OpenApi(s, k, <<Op(1, "x", "t", o, <<>>, {}), Op(2, "x", "t", p, <<>>, {})>>, Plain) :
       s \in Securities, o \in Securities, p \in Securities,
       k \in {TwoSchemes("bearer", "basic"), TwoSchemes("oauth2", "basic"), TwoSchemes("bearer", "oauth2")}}
OneParam == {<<Param(i, r, q)>> : i \in {"path", "query", "header"}, r \in BOOLEAN, q \in BOOLEAN}
ParameterLists == {<<>>} \cup OneParam \cup {p \o q : p \in OneParam, q \in OneParam}
Shapes ==
    {Op(1, "x", "t", None, ps, t) : ps \in ParameterLists, t \in {{}, {"v"}}}
    \cup {o \in {[Op(1, "x", "t", None, <<>>, {}) EXCEPT !.callbacks = c, !.body = b, !.bodyRequired = r, !.response = s] :
                   c \in BOOLEAN, b \in {"none", "json", "other"}, r \in BOOLEAN, s \in {"none", "json", "other"}} :
            o.body = "none" => ~o.bodyRequired}
Shaped == {OpenApi(None, <<>>, <<o, Op(2, "y", "t", None, <<>>, {})>>, Plain) : o \in Shapes}
Schemad == {OpenApi(None, <<>>, <<[Op(1, "x", "t", None, <<>>, {}) EXCEPT !.body = "json"]>>, s) : s \in ApiSchemas}

Tagged(tags) == OpenApi(None, <<>>, [i \in DOMAIN tags |-> Op(i, "x", tags[i], None, <<>>, {})], Plain)
Unresolved == [resolved |-> FALSE, url |-> "s1"]
Changing ==
    {Tagged(<<"t", "t", "u", "t">>), Tagged(<<"t", "u", "t", "t", "t">>),
     [Tagged(<<"t", "u">>) EXCEPT !.servers = <<Unresolved, [resolved |-> TRUE, url |-> "s2"]>>],
     [Tagged(<<"t">>) EXCEPT !.servers = <<Unresolved>>]}

Direct == [page |-> "specification", file |-> FALSE, declared |-> "none", specs |-> {}]
Pages == [page : {"html", "other", "missing", "refused", "unreachable"}, file : BOOLEAN,
          declared : {"none", "same origin", "other origin"},
          specs : SUBSET {"declared", "openapi.json", "swagger.json"}]

ManyDocuments == Secured \cup Shaped \cup Schemad
Document == INSTANCE OpenApiThings WITH
    visited <- site, source <- spec, things <- compiled,
    Documents <- ManyDocuments, Overrides <- {None}, Sites <- {Direct},
    Values <- JsonValues, MaxGroup <- 2, MaxDepth <- 4, MaxNodes <- 12, MaxPublished <- 0
Republish == INSTANCE OpenApiThings WITH
    visited <- site, source <- spec, things <- compiled,
    Documents <- Changing, Overrides <- {None, "s3"}, Sites <- {Direct},
    Values <- JsonValues, MaxGroup <- 2, MaxDepth <- 4, MaxNodes <- 12, MaxPublished <- 2
Simple == {Tagged(<<"t">>)}
Detection == INSTANCE OpenApiThings WITH
    visited <- site, source <- spec, things <- compiled,
    Documents <- Simple, Overrides <- {None}, Sites <- Pages,
    Values <- JsonValues, MaxGroup <- 2, MaxDepth <- 4, MaxNodes <- 12, MaxPublished <- 0

-----------------------------------------------------------------------------
(* MCP: two calls and a description of two endpoints; every schema of three *)
(* nodes; the pages of a server and its results.                            *)

Sessions == INSTANCE McpSessions WITH
    Calls <- {m1, m2}, Describers <- {d1}, Keys <- {k1, k2}, Limit <- 1, MaxConns <- 5

McpNode(ref, union, types, properties, required, items) ==
    [ref |-> ref, union |-> union, types |-> types, properties |-> properties,
     required |-> required, items |-> items]
McpLeaf(types) == McpNode(None, <<>>, types, <<>>, {}, None)
McpLeaves == {McpLeaf(<<"string">>), McpLeaf(<<"null">>), McpLeaf(<<"string", "null">>), McpLeaf(<<>>)}
McpInner == {McpNode("x", <<>>, <<>>, <<>>, {}, None), McpNode("root", <<>>, <<>>, <<>>, {}, None),
             McpNode("remote", <<>>, <<>>, <<>>, {}, None),
             McpNode(None, <<"x", "y">>, <<>>, <<>>, {}, None),
             McpNode(None, <<"y", "x">>, <<"object">>, <<>>, {}, None),
             McpNode(None, <<>>, <<"object">>, "a" :> "x", {"a"}, None),
             McpNode(None, <<>>, <<"object">>, "a" :> "root" @@ "b" :> "y", {}, None),
             McpNode(None, <<>>, <<"array", "null">>, <<>>, {}, "x"),
             McpNode(None, <<>>, <<>>, "a" :> "x", {}, None)}
McpSchemas == {"root" :> r @@ "x" :> x @@ "y" :> y :
                 r \in McpInner \cup McpLeaves, x \in McpInner \cup McpLeaves, y \in McpLeaves \cup McpInner}
Tool(name, schema) == [name |-> name, schema |-> schema]
AnySchema == [n \in {"root", "x", "y"} |-> McpLeaf(<<>>)]
OneSchema == {AnySchema}
NamePages == {<<>>} \cup {<<Tool(<<"t">>, AnySchema), Tool(n, AnySchema)>> : n \in {<<"t">>, <<"t", 2>>}}
Blocks == {[kind |-> k, json |-> j] : k \in {"text", "image", "link"}, j \in BOOLEAN}
ToolResults == {[isError |-> e, structured |-> s, blocks |-> b] : e \in BOOLEAN, s \in BOOLEAN,
                  b \in {<<>>} \cup {<<x>> : x \in Blocks} \cup {<<x, y>> : x \in Blocks, y \in Blocks}}
SchemaPages == {<<Tool(<<"t">>, s)>> : s \in McpSchemas}
Translation == INSTANCE McpBinding WITH
    actions <- tools, Cursors <- {}, PageTools <- SchemaPages,
    Schemas <- McpSchemas, Values <- JsonValues, Results <- {}, MaxDepth <- 3
Description == INSTANCE McpBinding WITH
    actions <- tools, Cursors <- {x1, x2}, PageTools <- NamePages,
    Schemas <- OneSchema, Values <- {}, Results <- {}, MaxDepth <- 3
Answers == INSTANCE McpBinding WITH
    actions <- tools, Cursors <- {}, PageTools <- {<<>>},
    Schemas <- {}, Values <- {}, Results <- ToolResults, MaxDepth <- 3

-----------------------------------------------------------------------------
(* Enrichment: overlays that take the units away or give the devices another *)
(* namespace; a property with and without types, a label or a unit; and     *)
(* proposals with one annotation or two of the property.                    *)

Term(iri, kind, labels, default) == [iri |-> iri, kind |-> kind, labels |-> labels, default |-> default]
Ontology(prefix, namespace, units, terms) ==
    [prefix |-> prefix, namespace |-> namespace, units |-> units, terms |-> terms]
Iri(prefix, rest) == [prefix |-> prefix, rest |-> rest]
UnitOf == Term(<<"q", "unit">>, "property", {"unit"}, None)
Packaged ==
    <<Ontology("dev", <<"d">>, FALSE, <<Term(<<"d", "Sensor">>, "class", {}, None),
                                        Term(<<"d", "Heat">>, "class", {}, Iri("unit", <<"C">>))>>),
      Ontology("qudt", <<"q">>, TRUE, <<UnitOf>>),
      Ontology("unit", <<"q", "u">>, FALSE, <<Term(<<"q", "u", "C">>, "unit", {"C"}, None)>>)>>
Deployed ==
    {<<>>, <<Ontology("qudt", <<"q">>, FALSE, <<UnitOf>>)>>,
     <<Ontology("dev", <<"e">>, FALSE, <<Term(<<"e", "Sensor">>, "class", {}, None)>>),
       Ontology("room", <<"d", "r">>, FALSE, <<Term(<<"d", "r", "Office">>, "class", {}, None)>>)>>}
DescriptionNode(numeric, types, label, unit) ==
    [numeric |-> numeric, types |-> types, label |-> label, unitIri |-> unit]
Described ==
    {[context |-> c, nodes |-> (<<"thing", "">> :> DescriptionNode(FALSE, t, None, None))
                               @@ (<<"properties", "p">> :> n)] :
       c \in {<<>>, "dev" :> <<"d">>, "dev" :> <<"x">>}, t \in {<<>>, <<Iri("http", <<"d", "Sensor">>)>>},
       n \in {DescriptionNode(TRUE, <<>>, "C", None), DescriptionNode(FALSE, <<>>, "K", None),
              DescriptionNode(TRUE, <<Iri("http", <<"d", "Heat">>)>>, None, None),
              DescriptionNode(FALSE, <<Iri("x", <<"y">>), Iri("dev", <<"Heat">>)>>, None, Iri("unit", <<"K">>))}}
Heat == Iri("dev", <<"Heat">>)
Annotation(name, types, unit) == [section |-> "properties", name |-> name, types |-> types, unit |-> unit]
OneAnnotation ==
    {Annotation("p", <<Heat>>, None), Annotation("p", <<Heat>>, Iri("unit", <<"C">>)),
     Annotation("p", <<Iri("room", <<"Office">>), Iri("dev", <<"Sensor">>)>>, None),
     Annotation("p", <<>>, Iri("unit", <<"C">>)), Annotation("q", <<Heat>>, None)}
Proposed ==
    {[types |-> t, affordances |-> <<>>] : t \in {<<>>, <<Iri("http", <<"d", "Sensor">>)>>, <<Iri("dev", <<"Nothing">>)>>}}
    \cup {[types |-> <<Iri("dev", <<"Sensor">>)>>, affordances |-> <<a>>] : a \in OneAnnotation}
    \cup {[types |-> <<>>, affordances |-> <<a, b>>] :
            a \in {x \in OneAnnotation : x.unit # None}, b \in {x \in OneAnnotation : x.name = "p"}}
Measurements == {Iri("http", <<"d", "Heat">>)}
Enrichment == INSTANCE ThingEnrichment WITH
    document <- td, Core <- Packaged, Overlays <- Deployed, Documents <- Described,
    Proposals <- Proposed, Shapes <- Measurements, MaxRepairs <- 1

-----------------------------------------------------------------------------
(* Jobs with records: two that share two Things; a run delivered twice while *)
(* the schema changes, two fields of one name; and two runs that are read.    *)
Field(name, scalar) == [name |-> name, scalar |-> scalar]
RecordSchemas == [one |-> <<Field("a", TRUE)>>,
                  two |-> <<Field("b b", TRUE), Field("b-b", TRUE), Field("c", FALSE)>>]
SafeName == [n \in {"a", "b b", "b-b", "c"} |-> IF n \in {"b b", "b-b"} THEN "b_b" ELSE n]
Output(t, fields) == [thing |-> t, schema |-> [version |-> 1, fields |-> fields]]
Saga == INSTANCE JobRecords WITH
    jobs <- outputs, op <- saga, attempt <- delivery, clock <- ticks, ops <- begun,
    Gone <- NoSource, Safe <- SafeName,
    Jobs <- {"j", "k"}, Things <- {"t", "u"}, Callers <- {"v", "w"},
    Outputs <- {Output(t, RecordSchemas.one) : t \in {"t", "u", None}},
    Data <- {}, Attempts <- {}, JobOf <- <<>>, Analysis <- {},
    MaxOps <- 3, MaxFaults <- 1, MaxTries <- 1, MaxLimit <- 1
Submission == INSTANCE JobRecords WITH
    jobs <- outputs, op <- saga, attempt <- delivery, clock <- ticks, ops <- begun,
    Gone <- NoSource, Safe <- SafeName,
    Jobs <- {"j"}, Things <- {"t"}, Callers <- {"v"},
    Outputs <- {Output("t", RecordSchemas.one), Output("t", RecordSchemas.two)},
    Data <- {{"a"}, {"a", "b b", "b-b", "c"}}, Attempts <- {<<"p", 1>>, <<"p", 2>>},
    JobOf <- "p" :> "j", Analysis <- {},
    MaxOps <- 2, MaxFaults <- 0, MaxTries <- 2, MaxLimit <- 1
Readers == INSTANCE JobRecords WITH
    jobs <- outputs, op <- saga, attempt <- delivery, clock <- ticks, ops <- begun,
    Gone <- NoSource, Safe <- SafeName,
    Jobs <- {"j"}, Things <- {"t"}, Callers <- {"v"},
    Outputs <- {Output("t", RecordSchemas.one), Output("t", RecordSchemas.two)},
    Data <- {{"a"}, {"a", "b b", "b-b", "c"}}, Attempts <- {<<"p", 1>>, <<"q", 1>>},
    JobOf <- "p" :> "j" @@ "q" :> "j", Analysis <- {"q"},
    MaxOps <- 2, MaxFaults <- 0, MaxTries <- 1, MaxLimit <- 2

-----------------------------------------------------------------------------
DiscoveryInit ==
    /\ Init
    /\ \/ part = "registry" /\ NoActions /\ NoListing /\ NoCompile /\ NoSessions /\ NoBinding /\ NoEnrichment /\ NoJobs
       \/ /\ \/ part = "acquire" /\ Acquire!ActionsInit
             \/ part = "overlap" /\ Overlap!ActionsInit
          /\ NoRegistry /\ NoListing /\ NoCompile /\ NoSessions /\ NoBinding /\ NoEnrichment /\ NoJobs
       \/ part = "listing" /\ Reading!ListingInit /\ NoRegistry /\ NoActions /\ NoCompile /\ NoSessions /\ NoBinding /\ NoEnrichment /\ NoJobs
       \/ /\ \/ part = "compile" /\ Document!OpenApiInit
             \/ part = "change" /\ Republish!OpenApiInit
             \/ part = "detect" /\ Detection!OpenApiInit
          /\ NoRegistry /\ NoActions /\ NoListing /\ NoSessions /\ NoBinding /\ NoEnrichment /\ NoJobs
       \/ part = "sessions" /\ Sessions!McpInit /\ NoRegistry /\ NoActions /\ NoListing /\ NoCompile /\ NoBinding /\ NoEnrichment /\ NoJobs
       \/ /\ part \in {"schemas", "described", "results"} /\ Translation!DescriptionInit
          /\ NoRegistry /\ NoActions /\ NoListing /\ NoCompile /\ NoSessions /\ NoEnrichment /\ NoJobs
       \/ /\ part = "enrichment" /\ Enrichment!EnrichInit
          /\ NoRegistry /\ NoActions /\ NoListing /\ NoCompile /\ NoSessions /\ NoBinding /\ NoJobs
       \/ /\ \/ part = "saga" /\ Saga!RecordsInit
             \/ part = "submit" /\ Submission!RecordsInit
             \/ part = "read" /\ Readers!RecordsInit
          /\ NoRegistry /\ NoActions /\ NoListing /\ NoCompile /\ NoSessions /\ NoBinding /\ NoEnrichment

DiscoveryNext ==
    /\ UNCHANGED part
    /\ \/ /\ part = "registry" /\ Next
          /\ UNCHANGED <<actionVars, listingVars, compileVars, sessionVars, bindingVars, enrichVars, jobVars>>
       \/ /\ \/ part = "acquire" /\ Acquire!ActionsNext
             \/ part = "overlap" /\ Overlap!ActionsNext
          /\ UNCHANGED <<vars, listingVars, compileVars, sessionVars, bindingVars, enrichVars, jobVars>>
       \/ /\ part = "listing" /\ Reading!ListingNext
          /\ UNCHANGED <<vars, actionVars, compileVars, sessionVars, bindingVars, enrichVars, jobVars>>
       \/ /\ \/ part = "compile" /\ Document!OpenApiNext
             \/ part = "change" /\ Republish!OpenApiNext
             \/ part = "detect" /\ Detection!OpenApiNext
          /\ UNCHANGED <<vars, actionVars, listingVars, sessionVars, bindingVars, enrichVars, jobVars>>
       \/ /\ part = "sessions" /\ Sessions!McpNext
          /\ UNCHANGED <<vars, actionVars, listingVars, compileVars, bindingVars, enrichVars, jobVars>>
       \/ /\ \/ part = "schemas" /\ Translation!DescriptionNext
             \/ part = "described" /\ Description!DescriptionNext
             \/ part = "results" /\ Answers!DescriptionNext
          /\ UNCHANGED <<vars, actionVars, listingVars, compileVars, sessionVars, enrichVars, jobVars>>
       \/ /\ part = "enrichment" /\ Enrichment!EnrichNext
          /\ UNCHANGED <<vars, actionVars, listingVars, compileVars, sessionVars, bindingVars, jobVars>>
       \/ /\ \/ part = "saga" /\ Saga!RecordsNext
             \/ part = "submit" /\ Submission!RecordsNext
             \/ part = "read" /\ Readers!RecordsNext
          /\ UNCHANGED <<vars, actionVars, listingVars, compileVars, sessionVars, bindingVars, enrichVars>>

DiscoverySpec ==
    /\ DiscoveryInit
    /\ [][DiscoveryNext]_<<part, vars, actionVars, listingVars, compileVars, sessionVars, bindingVars, enrichVars, jobVars>>

Symmetry == Permutations(Requests) \cup Permutations({m1, m2}) \cup Permutations({k1, k2})

(* What the providers do: the contracts and handles of a call, the listings *)
(* that are read, the Things compiled from OpenAPI documents.               *)
ProvidersSound ==
    /\ part = "acquire" => Acquire!ActionsSound
    /\ part = "overlap" => Overlap!ActionsSound
    /\ part = "listing" => Reading!ListingSound
    /\ part = "compile" => Document!OpenApiSound
    /\ part = "change" => Republish!OpenApiSound
    /\ part = "detect" => Detection!OpenApiSound

(* What the MCP binding of the runtime does: its sessions, descriptions and *)
(* results.                                                                 *)
McpSound ==
    /\ part = "sessions" => Sessions!McpSound
    /\ part = "schemas" => Translation!BindingSound
    /\ part = "described" => Description!BindingSound
    /\ part = "results" => Answers!BindingSound

=============================================================================
