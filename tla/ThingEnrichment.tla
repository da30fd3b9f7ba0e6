--------------------------- MODULE ThingEnrichment ---------------------------
(***************************************************************************)
(* The semantic enrichment of a Thing Description (catalog/enrichment): a   *)
(* model proposes annotations, which are checked against a vocabulary,      *)
(* merged into a copy of the description, completed with units, and         *)
(* accepted or sent back with what was wrong, a bounded number of times.    *)
(*                                                                          *)
(* An IRI is a sequence of segments, and a value is one as it is written:   *)
(* whole, or behind a prefix.  A description is its context of prefixes     *)
(* and its nodes, the Thing and its affordances, by section and name; of a  *)
(* node what is kept is whether its schema is numeric, its types, its unit  *)
(* label and the unit IRI under the vocabulary's unit predicate.            *)
(***************************************************************************)
EXTENDS Naturals, SequencesExt

CONSTANTS
    Core,           \* the packaged ontologies
    Overlays,       \* the ontologies a deployment may lay over them
    Documents,      \* descriptions to enrich
    Proposals,      \* what the model may answer
    Shapes,         \* the classes whose instances the SHACL shapes want a unit of
    MaxRepairs,     \* thing_enrichment_max_repair_attempts
    None

VARIABLES
    vocabulary,     \* the namespaces, the terms and the unit predicate of the configuration
    document,       \* the description to enrich, as it was sanitized
    attempt,        \* the model calls so far
    proposal,       \* the latest proposal
    errors,         \* what was wrong with it, told to the model
    outcome         \* Running, Failed, or the result

vars == <<vocabulary, document, attempt, proposal, errors, outcome>>

Running == [stage |-> "running"]
Failed(stage) == [stage |-> stage]

-----------------------------------------------------------------------------
(* The vocabulary.                                                          *)

Whole(iri) == [prefix |-> "http", rest |-> iri]

(* An overlay replaces the ontology of its prefix, or is added behind.      *)
Laid(kept, ontology) ==
    IF \E i \in DOMAIN kept : kept[i].prefix = ontology.prefix
    THEN [i \in DOMAIN kept |-> IF kept[i].prefix = ontology.prefix THEN ontology ELSE kept[i]]
    ELSE Append(kept, ontology)

LoadConfig(overlay) == FoldLeft(Laid, Core, overlay)

(* The first property of an ontology of units links a property to its unit. *)
BuildVocabulary(ontologies) ==
    LET used == ToSet(ontologies)
        unitTerms == FlattenSeq([i \in DOMAIN ontologies |->
                         SelectSeq(ontologies[i].terms,
                                   LAMBDA t : ontologies[i].units /\ t.kind = "property")])
    IN  [namespaces |-> [p \in {o.prefix : o \in used} |-> (CHOOSE o \in used : o.prefix = p).namespace],
         terms |-> FlattenSeq([i \in DOMAIN ontologies |-> ontologies[i].terms]),
         predicate |-> IF unitTerms = <<>> THEN None ELSE unitTerms[1].iri]

Namespaces == vocabulary.namespaces
Terms == vocabulary.terms
UnitPredicate == vocabulary.predicate

Expand(value) ==
    IF value.prefix \in DOMAIN Namespaces
    THEN Whole(Namespaces[value.prefix] \o value.rest) ELSE value

(* The longest namespace that fits; what fits none is left as it is.        *)
Compact(value) ==
    LET fit == {p \in DOMAIN Namespaces : /\ value.prefix = "http"
                                          /\ IsPrefix(Namespaces[p], value.rest)}
        best == CHOOSE p \in fit : \A q \in fit : Len(Namespaces[q]) <= Len(Namespaces[p])
    IN  IF fit = {} THEN value
        ELSE [prefix |-> best,
              rest |-> SubSeq(value.rest, Len(Namespaces[best]) + 1, Len(value.rest))]

Known(value) == \E i \in DOMAIN Terms : Expand(value) = Whole(Terms[i].iri)

FirstUnit(terms, Unit(_)) == IF terms = <<>> THEN None ELSE Unit(terms[1])

(* Of several terms of one IRI the last says the default unit.             *)
DefaultUnit(value) ==
    FirstUnit(SelectSeq(Reverse(Terms), LAMBDA t : Whole(t.iri) = Expand(value) /\ t.default # None),
              LAMBDA t : Expand(t.default))
UnitForLabel(label) ==
    FirstUnit(SelectSeq(Terms, LAMBDA t : t.kind = "unit" /\ label \in t.labels),
              LAMBDA t : Whole(t.iri))

Emitted(p) ==
    ToSet(p.types) \cup UNION {ToSet(a.types) \cup ({a.unit} \ {None}) : a \in ToSet(p.affordances)}
Unknown(p) == {v \in Emitted(p) : ~Known(v)}

-----------------------------------------------------------------------------
(* Merging: a description with the list of what was added to it.            *)

Thing == <<"thing", "">>
Properties(doc) == {n \in DOMAIN doc.nodes : n[1] = "properties"}

Added(kind, at, value) == [kind |-> kind, at |-> at, value |-> value]

EnsurePrefixes(m) ==
    LET new == DOMAIN Namespaces \ DOMAIN m.doc.context
    IN  [doc |-> [m.doc EXCEPT !.context = [p \in new \cup DOMAIN @ |->
                     IF p \in new THEN Namespaces[p] ELSE @[p]]],
         diff |-> m.diff \cup {Added("prefix", Thing, p) : p \in new}]

AddType(m, node, value) ==
    IF value \in ToSet(m.doc.nodes[node].types) THEN m
    ELSE [doc |-> [m.doc EXCEPT !.nodes[node].types = Append(@, value)],
          diff |-> m.diff \cup {Added("type", node, value)}]

AddTypes(m, node, values) ==
    FoldLeft(LAMBDA acc, v : AddType(acc, node, Compact(Expand(v))), m, values)

NeedsUnit(schema) == UnitPredicate # None /\ schema.unitIri = None /\ (schema.numeric \/ schema.types # <<>>)

AddUnit(m, node, value) ==
    LET unit == Compact(Expand(value))
    IN  [doc |-> [m.doc EXCEPT !.nodes[node].unitIri = unit],
         diff |-> m.diff \cup {Added("unit", node, unit)}]

(* An annotation of an affordance the description lacks is passed over.     *)
MergeAffordance(m, a) ==
    LET node == <<a.section, a.name>>
        typed == AddTypes(m, node, a.types)
    IN  IF node \notin DOMAIN m.doc.nodes THEN m
        ELSE IF /\ a.section = "properties" /\ a.unit # None
                /\ NeedsUnit(typed.doc.nodes[node])
             THEN AddUnit(typed, node, a.unit) ELSE typed

(* The unit the label names, else the default of the first type with one.   *)
InferUnit(schema) ==
    LET labelled == UnitForLabel(schema.label)
        typed == SelectSeq(schema.types, LAMBDA t : DefaultUnit(t) # None)
    IN  IF labelled # None THEN labelled ELSE FirstUnit(typed, DefaultUnit)

CompleteUnits(m) ==
    LET open == {n \in Properties(m.doc) : /\ NeedsUnit(m.doc.nodes[n])
                                           /\ InferUnit(m.doc.nodes[n]) # None}
    IN  FoldLeft(LAMBDA acc, n : AddUnit(acc, n, InferUnit(m.doc.nodes[n])), m, SetToSeq(open))

Merge(doc, p) ==
    LET named == EnsurePrefixes([doc |-> doc, diff |-> {}])
        typed == AddTypes(named, Thing, p.types)
    IN  CompleteUnits(FoldLeft(MergeAffordance, typed, p.affordances))

(* What a value means in a description, by the description's own context.   *)
Meaning(doc, value) ==
    IF value.prefix \in DOMAIN doc.context
    THEN Whole(doc.context[value.prefix] \o value.rest) ELSE value

Measured(doc, schema) == \E i \in DOMAIN schema.types : Meaning(doc, schema.types[i]) \in Shapes
HasUnit(doc, schema) ==
    /\ schema.unitIri # None
    /\ UnitPredicate # None =>
          Meaning(doc, Compact(Whole(UnitPredicate))) = Whole(UnitPredicate)

Conforms(doc) ==
    \A n \in DOMAIN doc.nodes : Measured(doc, doc.nodes[n]) => HasUnit(doc, doc.nodes[n])

-----------------------------------------------------------------------------
(* The attempts.                                                            *)

MaxAttempts == MaxRepairs + 1

EnrichInit ==
    /\ \E overlay \in Overlays : vocabulary = BuildVocabulary(LoadConfig(overlay))
    /\ document \in Documents
    /\ attempt = 0 /\ proposal = None /\ errors = "none" /\ outcome = Running

(* The model answers what it is asked, knowing what was wrong before.       *)
Invoke(p) ==
    /\ outcome = Running
    /\ attempt' = attempt + 1 /\ proposal' = p
    /\ UNCHANGED <<vocabulary, document>>

SendBack(problem) ==
    /\ errors' = problem
    /\ outcome' = IF attempt' = MaxAttempts THEN Failed("exhausted") ELSE Running

RejectUnknown(p) == Invoke(p) /\ Unknown(p) # {} /\ SendBack("unknown")

RejectShapes(p) ==
    Invoke(p) /\ Unknown(p) = {} /\ ~Conforms(Merge(document, p).doc) /\ SendBack("shacl")

\* The schema of Thing Descriptions is not modelled: any verdict.
RejectInvalid(p) ==
    Invoke(p) /\ Unknown(p) = {} /\ Conforms(Merge(document, p).doc) /\ SendBack("invalid")

Accept(p) ==
    /\ Invoke(p) /\ Unknown(p) = {}
    /\ LET m == Merge(document, p)
       IN  /\ Conforms(m.doc)
           /\ outcome' = [stage |-> "done", enriched |-> m.doc, diff |-> m.diff, attempts |-> attempt']
    /\ UNCHANGED errors

\* The model's provider fails, or answers what is no proposal.
ModelFails ==
    /\ outcome = Running
    /\ attempt' = attempt + 1 /\ outcome' = Failed("model")
    /\ UNCHANGED <<vocabulary, document, proposal, errors>>

EnrichNext ==
    \/ \E p \in Proposals : RejectUnknown(p) \/ RejectShapes(p) \/ RejectInvalid(p) \/ Accept(p)
    \/ ModelFails

EnrichSpec == EnrichInit /\ [][EnrichNext]_vars

-----------------------------------------------------------------------------
(* Properties.                                                              *)

Done == outcome.stage = "done"
Enriched == outcome.enriched

(* Nothing the user wrote is lost or changed: prefixes, types in their      *)
(* order, labels and units.                                                 *)
Additive ==
    /\ \A p \in DOMAIN document.context : Enriched.context[p] = document.context[p]
    /\ DOMAIN Enriched.nodes = DOMAIN document.nodes
    /\ \A n \in DOMAIN document.nodes :
          LET old == document.nodes[n]  new == Enriched.nodes[n]
          IN  /\ IsPrefix(old.types, new.types)
              /\ old.unitIri \in {None, new.unitIri}
              /\ new.numeric = old.numeric /\ new.label = old.label

(* The list of changes the user reviews is what changed, no more, no less.  *)
DiffExact ==
    outcome.diff =
        {Added("prefix", Thing, p) : p \in DOMAIN Enriched.context \ DOMAIN document.context}
        \cup UNION {{Added("type", n, t) : t \in ToSet(Enriched.nodes[n].types)
                                                  \ ToSet(document.nodes[n].types)} :
                    n \in DOMAIN document.nodes}
        \cup {Added("unit", n, Enriched.nodes[n].unitIri) :
                n \in {k \in DOMAIN document.nodes : Enriched.nodes[k].unitIri # document.nodes[k].unitIri}}

(* Where the description does not itself use a prefix for something else,   *)
(* every annotation means, by its context, a term of the vocabulary.        *)
Rebound == \E p \in DOMAIN Namespaces \cap DOMAIN document.context :
              document.context[p] # Namespaces[p]
MeansKnownTerms ==
    ~Rebound => \A d \in outcome.diff :
        d.kind = "prefix" \/ \E i \in DOMAIN Terms : Meaning(Enriched, d.value) = Whole(Terms[i].iri)

(* A property that measures something gets the unit its class defaults to,  *)
(* when nothing else names one.                                             *)
UnitsComplete ==
    UnitPredicate # None =>
        \A n \in Properties(Enriched) :
            (\E i \in DOMAIN Enriched.nodes[n].types : DefaultUnit(Enriched.nodes[n].types[i]) # None)
            => Enriched.nodes[n].unitIri # None

(* Applying a proposal again changes nothing, if it annotates no affordance *)
(* twice: of two annotations the unit of the first may be passed over for   *)
(* want of the types of the second.                                         *)
AnnotatedOnce ==
    \A i, j \in DOMAIN proposal.affordances :
        LET a == proposal.affordances[i]  b == proposal.affordances[j]
        IN  a.section = b.section /\ a.name = b.name => i = j
Idempotent == AnnotatedOnce => Merge(Enriched, proposal) = [doc |-> Enriched, diff |-> {}]

(* The model is asked a bounded number of times, each time about the        *)
(* description itself, and only an answer that stands ends the attempts.    *)
AttemptsBounded ==
    /\ attempt <= MaxAttempts
    /\ outcome = Failed("exhausted") => attempt = MaxAttempts
    /\ (outcome = Running /\ attempt > 0) => errors # "none"
    /\ Done => outcome.attempts = attempt

(* What an enrichment returns is the user's description with known          *)
(* annotations added, all of them listed, and complete.                     *)
EnrichmentSound ==
    /\ AttemptsBounded
    /\ Done => Additive /\ DiffExact /\ MeansKnownTerms /\ UnitsComplete /\ Idempotent
=============================================================================
