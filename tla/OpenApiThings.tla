----------------------------- MODULE OpenApiThings -----------------------------
(***************************************************************************)
(* Things compiled from an OpenAPI document (discovery/providers/openapi.py): *)
(* one security scheme is selected, the operations that need another one or  *)
(* what a form cannot express are dropped, the rest is split into groups, and *)
(* each group becomes a Thing, which is compiled anew when it is refreshed.   *)
(* The document of the source changes between these steps, and so may the     *)
(* source's server_url_override.  Equality of documents stands for equality   *)
(* of their digests.                                                          *)
(***************************************************************************)
EXTENDS Naturals, FiniteSets, SequencesExt, Functions

CONSTANTS Documents,    \* what the source may serve
          Overrides,    \* servers the source may name, None among them
          Sites,        \* pages a source may be detected at
          Values,       \* JSON values an operation may be called with
          MaxGroup,     \* _MAX_GROUP_OPERATIONS
          MaxDepth,     \* _MAX_SCHEMA_DEPTH
          MaxNodes,     \* _MAX_SCHEMA_NODES
          MaxPublished, \* changes of the document, its place or the override
          None

VARIABLES visited,   \* the page to be detected, until then
          source,    \* None, or the source: url, where that redirects to now, and its override
          api,       \* its document, and what is made of it
          published,
          offered,   \* candidates of searches: [external, group, doc]
          things     \* external id -> the Thing compiled for it

vars == <<visited, source, api, published, offered, things>>

-----------------------------------------------------------------------------
(* The security scheme of a document.  A requirement is a set of schemes.  *)

Mapped == {"basic", "bearer", "header key"}
SchemeNames(document) == {document.schemes[i].name : i \in DOMAIN document.schemes}
Supported(document, s) ==
    \E i \in DOMAIN document.schemes : document.schemes[i].name = s /\ document.schemes[i].kind \in Mapped
Position(document, s) == CHOOSE i \in DOMAIN document.schemes : document.schemes[i].name = s

Requirements(security) == IF security = None THEN {} ELSE Range(security)
Usable(document, security) == {s \in SchemeNames(document) : {s} \in Requirements(security) /\ Supported(document, s)}

Count(document, s) ==
    Cardinality({i \in DOMAIN document.operations : s \in Usable(document, document.operations[i].security)})

(* The first requirement of the document that is supported, else the        *)
(* scheme that most operations name, the earlier defined one of equals.     *)
Selected(document) ==
    LET first == SelectSeq(IF document.security = None THEN <<>> ELSE document.security,
                           LAMBDA r : \E s \in Usable(document, document.security) : r = {s})
        named == {s \in SchemeNames(document) : Count(document, s) > 0}
    IN  IF first # <<>> THEN CHOOSE s \in SchemeNames(document) : {s} = Head(first)
        ELSE IF named = {} THEN None
        ELSE CHOOSE s \in named : \A t \in named \ {s} :
                \/ Count(document, s) > Count(document, t)
                \/ Count(document, s) = Count(document, t) /\ Position(document, s) < Position(document, t)

(* What the form of an operation names, or None where nothing fits.        *)
OperationSecurity(document, selected, operation) ==
    LET needs == IF operation.security = None THEN document.security ELSE operation.security
    IN  IF needs \in {None, <<>>} THEN "nosec"
        ELSE IF {selected} \in Range(needs) THEN selected ELSE None

-----------------------------------------------------------------------------
(* Schemas: a node is [ref, types, properties, required, items, anyOf,      *)
(* allOf] over names of nodes.  The translation is None where it fails.     *)

Follow(schemas) ==
    LET follow[n \in DOMAIN schemas, left \in 0..Cardinality(DOMAIN schemas)] ==
            IF schemas[n].ref = None THEN n
            ELSE IF left = 0 \/ schemas[n].ref \notin DOMAIN schemas THEN None
            ELSE follow[schemas[n].ref, left - 1]
    IN  [n \in DOMAIN schemas |-> follow[n, Cardinality(DOMAIN schemas)]]

NonNull(types) == SelectSeq(types, LAMBDA t : t # "null")
IsNull(node) == node.types = <<"null">>

(* What is declared is kept, and what the only variant says is added.      *)
Filled(td, variant) ==
    [type |-> IF td.type = None THEN variant.type ELSE td.type,
     properties |-> IF td.properties = <<>> THEN variant.properties ELSE td.properties,
     required |-> IF td.required = {} THEN variant.required ELSE td.required,
     items |-> IF td.items = <<>> THEN variant.items ELSE td.items,
     anyOf |-> IF td.anyOf = <<>> THEN variant.anyOf ELSE td.anyOf]

WithVariants(td, variants) ==
    CASE variants = <<>> -> td
      [] Len(variants) = 1 -> Filled(td, Head(variants))
      [] OTHER -> [td EXCEPT !.anyOf = variants]

WithPart(td, part) ==
    [td EXCEPT !.type = IF part.properties # <<>> /\ @ = None THEN "object" ELSE @,
               !.properties = [p \in DOMAIN part.properties \cup DOMAIN @ |->
                                  IF p \in DOMAIN part.properties THEN part.properties[p] ELSE @[p]],
               !.required = @ \cup part.required]

(* The nodes a translation visits; all of it fails on one too many, or on   *)
(* one too deep, so a schema that contains itself always fails.             *)
Children(node) ==
    SetToSeq(Range(node.properties)) \o (IF node.items = None THEN <<>> ELSE <<node.items>>)
        \o node.anyOf \o node.allOf

Visited(schemas) ==
    LET final == Follow(schemas)
        nodes[n \in DOMAIN schemas, depth \in 0..MaxDepth + 1] ==
            IF depth > MaxDepth \/ final[n] = None THEN MaxNodes + 1
            ELSE FoldSeq(LAMBDA child, total : total + nodes[child, depth + 1], 1,
                         Children(schemas[final[n]]))
    IN  [n \in DOMAIN schemas |-> nodes[n, 0]]

Translated(schemas, root) ==
    LET final == Follow(schemas)
        convert[n \in DOMAIN schemas, depth \in 0..MaxDepth] ==
            LET node == schemas[final[n]]
                inner(names) == [i \in DOMAIN names |-> convert[names[i], depth + 1]]
                declared == IF Len(NonNull(node.types)) = 1 THEN Head(NonNull(node.types))
                            ELSE IF IsNull(node) THEN "null" ELSE None
                plain == [type |-> IF declared # None THEN declared
                                   ELSE IF node.properties # <<>> THEN "object"
                                   ELSE IF node.items # None THEN "array" ELSE None,
                          properties |-> [p \in DOMAIN node.properties |-> convert[node.properties[p], depth + 1]],
                          required |-> IF node.properties = <<>> THEN {} ELSE node.required,
                          items |-> IF node.items = None THEN <<>> ELSE <<convert[node.items, depth + 1]>>,
                          anyOf |-> <<>>]
                variants == SelectSeq(node.anyOf, LAMBDA v : ~IsNull(schemas[final[v]]))
            IN  FoldLeft(WithPart, WithVariants(plain, inner(variants)), inner(node.allOf))
    IN  IF Visited(schemas)[root] > MaxNodes THEN None ELSE convert[root, 0]

-----------------------------------------------------------------------------
(* Operations.  A parameter list begins with the path item's parameters,    *)
(* and the first definition of a parameter counts.                          *)

Defined(operation) ==
    LET all == operation.parameters
    IN  {all[i] : i \in {j \in DOMAIN all : \A k \in 1..(j - 1) :
                            <<all[k].in, all[k].name>> # <<all[j].in, all[j].name>>}}

Variables(operation) == {p \in Defined(operation) : p.in \in {"path", "query"} /\ p.primitive}

Expressible(operation) ==
    /\ ~operation.callbacks
    /\ \A p \in Defined(operation) : p \in Variables(operation) \/ (~p.required /\ p.in # "path")
    /\ {p.name : p \in {v \in Variables(operation) : v.in = "path"}} = operation.template
    /\ operation.body = "other" => ~operation.bodyRequired
    /\ operation.response # "other"

Operation(document, selected, operation) ==
    [operation |-> operation, security |-> OperationSecurity(document, selected, operation),
     variables |-> {p.name : p \in Variables(operation)},
     input |-> IF operation.body = "json" THEN <<Translated(document.schemas, operation.schema)>> ELSE <<>>]

CollectOperations(document, selected) ==
    SelectSeq([i \in DOMAIN document.operations |-> Operation(document, selected, document.operations[i])],
              LAMBDA o : o.security # None /\ Expressible(o.operation) /\ o.input # <<None>>)

Chunk(values, part) ==
    SubSeq(values, (part - 1) * MaxGroup + 1, IF part * MaxGroup < Len(values) THEN part * MaxGroup ELSE Len(values))

(* Group key -> operations: one group, or parts of the operations of a tag. *)
OperationGroups(all) ==
    LET tagged(tag) == SelectSeq(all, LAMBDA o : o.operation.tag = tag)
        tags == {all[i].operation.tag : i \in DOMAIN all}
    IN  IF Len(all) <= MaxGroup THEN [k \in {<<"all">>} |-> all]
        ELSE [k \in {k \in {<<tag, part>> : tag \in tags, part \in 1..Len(all)} : Chunk(tagged(k[1]), k[2]) # <<>>}
                |-> Chunk(tagged(k[1]), k[2])]

(* _load.                                                                  *)
ParsedApi(document) ==
    LET all == CollectOperations(document, Selected(document))
    IN  [document |-> document, operations |-> all, groups |-> OperationGroups(all)]

(* The second operation of a name carries its key as well.                 *)
ActionNames(group) ==
    [i \in DOMAIN group |->
        LET o == group[i].operation
        IN  IF \E j \in 1..(i - 1) : group[j].operation.id = o.id THEN <<o.id, o.key>> ELSE <<o.id>>]

CompileThing(server, external, key) ==
    LET group == api.groups[key]
        names == ActionNames(group)
    IN  [external |-> external, group |-> key, api |-> api, server |-> server,
         actions |-> [n \in Range(names) |-> group[CHOOSE i \in DOMAIN group : names[i] = n]]]

(* The override, or the first server whose variables all have values.      *)
ResolveServer ==
    LET usable == SelectSeq(api.document.servers, LAMBDA s : s.resolved)
    IN  IF source.override # None THEN source.override
        ELSE IF api.document.servers = <<>> THEN "root"
        ELSE IF usable = <<>> THEN None ELSE Head(usable).url

Loads ==
    /\ source # None
    /\ source.at = source.url /\ ResolveServer # None /\ api.operations # <<>>

-----------------------------------------------------------------------------
(* The probe of a page: the document itself, one link it declares on its    *)
(* own origin, two conventional paths; its requests are listed in order.     *)

Probe(site) ==
    LET declared == IF site.page = "html" /\ site.declared = "same origin" THEN <<"declared">> ELSE <<>>
        conventional == IF site.page = "refused" \/ site.file THEN <<>> ELSE <<"openapi.json", "swagger.json">>
        tries == declared \o conventional
        hit == SelectSeq([i \in DOMAIN tries |-> i], LAMBDA i : tries[i] \in site.specs)
    IN  IF site.page = "specification" THEN [found |-> "page", asked |-> <<"page">>]
        ELSE IF site.page = "unreachable" THEN [found |-> None, asked |-> <<"page">>]
        ELSE IF hit = <<>> THEN [found |-> None, asked |-> <<"page">> \o tries]
        ELSE [found |-> tries[Head(hit)], asked |-> <<"page">> \o SubSeq(tries, 1, Head(hit))]

-----------------------------------------------------------------------------
Detect ==
    /\ source = None /\ visited # None
    /\ LET found == Probe(visited).found
       IN  \/ found = None /\ UNCHANGED <<source, api>>
           \/ /\ found # None
              /\ source' = [url |-> found, at |-> found, override |-> None]
              /\ \E document \in Documents : api' = ParsedApi(document)
    /\ visited' = None
    /\ UNCHANGED <<published, offered, things>>

Publish ==
    /\ source # None
    /\ published < MaxPublished /\ published' = published + 1
    /\ \/ (\E document \in Documents \ {api.document} : api' = ParsedApi(document)) /\ UNCHANGED source
       \/ \E o \in Overrides \ {source.override} : source' = [source EXCEPT !.override = o] /\ UNCHANGED api
       \/ source' = [source EXCEPT !.at = "elsewhere"] /\ UNCHANGED api
    /\ UNCHANGED <<visited, offered, things>>

(* A candidate's identity is made of the server and the group.             *)
Search ==
    /\ Loads
    /\ offered' = offered \cup {[external |-> <<ResolveServer, k>>, group |-> k, doc |-> api.document] : k \in DOMAIN api.groups}
    /\ UNCHANGED <<visited, source, api, published, things>>

(* The document must be the one that was searched.                         *)
Onboard(c) ==
    /\ Loads /\ c.doc = api.document
    /\ c.external \notin DOMAIN things
    /\ things' = [x \in DOMAIN things \cup {c.external} |->
                    IF x = c.external THEN CompileThing(ResolveServer, x, c.group) ELSE things[x]]
    /\ UNCHANGED <<visited, source, api, published, offered>>

(* The group of the same key, whatever is in it by now.                    *)
Refresh(x) ==
    /\ Loads /\ things[x].group \in DOMAIN api.groups
    /\ things' = [things EXCEPT ![x] = CompileThing(ResolveServer, x, @.group)]
    /\ UNCHANGED <<visited, source, api, published, offered>>

OpenApiInit ==
    /\ visited \in Sites /\ source = None
    /\ api = None /\ published = 0
    /\ offered = {} /\ things = <<>>

OpenApiNext ==
    \/ Detect \/ Publish \/ Search
    \/ \E c \in offered : Onboard(c)
    \/ \E x \in DOMAIN things : Refresh(x)

-----------------------------------------------------------------------------
Needs(document, operation) == IF operation.security = None THEN document.security ELSE operation.security
Operations(thing) == {thing.actions[n].operation : n \in DOMAIN thing.actions}

(* An action carries a credential that its operation accepts, and none only *)
(* where the operation asks for none (openapi.py:849-877).                  *)
NoneUnprotected ==
    \A x \in DOMAIN things : \A n \in DOMAIN things[x].actions :
       LET a == things[x].actions[n]
           needs == Requirements(Needs(things[x].api.document, a.operation))
       IN  /\ a.security = "nosec" => needs = {}
           /\ a.security # "nosec" => {a.security} \in needs /\ Supported(things[x].api.document, a.security)

(* A client that knows the action's variables and its body can make the     *)
(* call: nothing the operation requires is missing from the form, its path   *)
(* is filled in, and no operation of the group was lost to another's name.   *)
Callable ==
    \A x \in DOMAIN things :
       /\ Cardinality(DOMAIN things[x].actions) = Len(things[x].api.groups[things[x].group])
       /\ \A n \in DOMAIN things[x].actions :
             LET a == things[x].actions[n]
             IN  /\ a.operation.template \subseteq a.variables
                 /\ \A p \in Defined(a.operation) : p.required => p.name \in a.variables
                 /\ a.operation.bodyRequired => a.operation.body = "json"

(* Things of one document and one server share no operation, none has more  *)
(* than MaxGroup, and when every group has a Thing of it, no supported       *)
(* operation is missing (openapi.py:911-933).                               *)
GroupsPartition ==
    \A x \in DOMAIN things :
       LET same == {y \in DOMAIN things : things[y].api.document = things[x].api.document /\ y[1] = x[1]}
       IN  /\ Cardinality(Operations(things[x])) \in 1..MaxGroup
           /\ \A y \in same \ {x} : Operations(things[x]) \cap Operations(things[y]) = {}
           /\ DOMAIN things[x].api.groups \subseteq {things[y].group : y \in same} =>
                 UNION {Operations(things[y]) : y \in same} = {o.operation : o \in Range(things[x].api.operations)}

RECURSIVE Accepts(_, _, _)
Accepts(schemas, n, value) ==
    LET node == schemas[Follow(schemas)[n]]
        implied == IF node.types # <<>> THEN Range(node.types)
                   ELSE IF node.properties # <<>> THEN {"object"}
                   ELSE IF node.items # None THEN {"array"} ELSE {value.type}
    IN  /\ value.type \in implied
        /\ value.type = "object" =>
             /\ node.required \subseteq DOMAIN value.fields
             /\ \A p \in DOMAIN node.properties \cap DOMAIN value.fields :
                   Accepts(schemas, node.properties[p], value.fields[p])
        /\ value.type = "array" /\ node.items # None =>
             \A i \in DOMAIN value.fields : Accepts(schemas, node.items, value.fields[i])
        /\ node.anyOf # <<>> => \E i \in DOMAIN node.anyOf : Accepts(schemas, node.anyOf[i], value)
        /\ \A i \in DOMAIN node.allOf : Accepts(schemas, node.allOf[i], value)

RECURSIVE TdAccepts(_, _)
TdAccepts(td, value) ==
    /\ td.type \in {None, value.type}
    /\ value.type = "object" =>
         /\ td.required \subseteq DOMAIN value.fields
         /\ \A p \in DOMAIN td.properties \cap DOMAIN value.fields : TdAccepts(td.properties[p], value.fields[p])
    /\ value.type = "array" => \A i \in DOMAIN td.items : \A j \in DOMAIN value.fields : TdAccepts(td.items[i], value.fields[j])
    /\ td.anyOf # <<>> => \E i \in DOMAIN td.anyOf : TdAccepts(td.anyOf[i], value)

RECURSIVE HoldsNull(_)
HoldsNull(value) == value.type = "null" \/ \E f \in DOMAIN value.fields : HoldsNull(value.fields[f])

(* The input of an action refuses no body that the operation takes, but for *)
(* null in place of an optional value (openapi.py:1108-1213).               *)
TakesWhatItTook ==
    \A x \in DOMAIN things : \A n \in DOMAIN things[x].actions :
       LET a == things[x].actions[n]
       IN  a.input # <<>> =>
              \A v \in Values : ~HoldsNull(v) /\ Accepts(things[x].api.document.schemas, a.operation.schema, v)
                                => TdAccepts(a.input[1], v)

(* A source is where a document was found: by the page's own link or at a   *)
(* conventional path even when that link leads nowhere, within four requests *)
(* (openapi.py:197-265).                                                    *)
DetectionComplete ==
    visited # None =>
       LET probe == Probe(visited)
       IN  /\ Len(probe.asked) <= 4
           /\ probe.found # None /\ probe.found # "page" => probe.found \in visited.specs
           /\ visited.page \in {"html", "missing"} /\ ~visited.file /\ visited.specs \cap {"openapi.json", "swagger.json"} # {}
                 => probe.found # None

OpenApiSound == NoneUnprotected /\ Callable /\ GroupsPartition /\ TakesWhatItTook /\ DetectionComplete
=============================================================================
