------------------------------ MODULE McpBinding ------------------------------
(***************************************************************************)
(* How the WoT runtime describes an MCP server as a Thing and hands back     *)
(* what its tools return (bindings/mcp/client.ts, describe.ts, schema.ts,    *)
(* content.ts): the pages of its tools are read until there is no further    *)
(* cursor, every tool becomes an action under a name of its own, and its     *)
(* JSON Schema the closest DataSchema.  A schema is a graph of nodes, since  *)
(* local references may form cycles; a name is a sequence of its parts.      *)
(***************************************************************************)
EXTENDS Naturals, FiniteSets, SequencesExt

CONSTANTS Cursors,   \* cursors a server may answer with
          PageTools, \* what a page may hold: sequences of [name, schema]
          Schemas,   \* JSON Schemas: node -> node record, with the node "root"
          Values,    \* JSON values a tool may be called with
          Results,   \* results of a tool call: [isError, structured, blocks]
          MaxDepth,  \* MAX_DEPTH
          None

VARIABLES listing,   \* the reading of the pages
          actions,   \* the actions of the draft, in the order of the tools
          returned   \* the result of a call, and what becomes of it

vars == <<listing, actions, returned>>

-----------------------------------------------------------------------------
(* Names (describe.ts).                                                     *)

AffordanceName(name, taken) ==
    IF name \notin taken THEN name
    ELSE LET free == {i \in 2..(Cardinality(taken) + 2) : Append(name, i) \notin taken}
         IN  Append(name, CHOOSE i \in free : \A j \in free : i <= j)

-----------------------------------------------------------------------------
(* Translation (schema.ts).                                                 *)


(* The branch that stands for a union: the only one that is not null.      *)
CollapseUnion(schema, branches) ==
    LET real == SelectSeq(branches, LAMBDA b : schema[b].types # <<"null">>)
    IN  IF Len(real) = 1 THEN Head(real) ELSE None

(* A type, or the only one of several that is not null.                    *)
ConcreteType(types) ==
    IF Len(types) = 1 THEN Head(types)
    ELSE LET concrete == SelectSeq(types, LAMBDA t : t # "null")
         IN  IF Len(concrete) = 1 THEN Head(concrete) ELSE None

Nothing == [type |-> None, properties |-> <<>>, required |-> {}, items |-> None]

RECURSIVE Convert(_, _, _)
Convert(schema, n, depth) ==
    IF n \notin DOMAIN schema \/ depth > MaxDepth THEN Nothing
    ELSE LET node == schema[n]
             properties == [p \in DOMAIN node.properties |-> Convert(schema, node.properties[p], depth + 1)]
         IN  CASE node.ref # None -> Convert(schema, node.ref, depth + 1)
               [] node.union # <<>> -> Convert(schema, CollapseUnion(schema, node.union), depth + 1)
               [] OTHER -> [type |-> IF ConcreteType(node.types) # None THEN ConcreteType(node.types)
                                     ELSE IF DOMAIN properties # {} THEN "object"
                                     ELSE IF node.items # None THEN "array" ELSE None,
                            properties |-> properties,
                            required |-> node.required,
                            items |-> IF node.items = None THEN None
                                      ELSE Convert(schema, node.items, depth + 1)]

-----------------------------------------------------------------------------
(* Results (content.ts).                                                    *)

(* The media type of a block that can stand alone.                         *)
SingleBlock(block) ==
    CASE block.kind \in {"text", "embedded text"} -> IF block.json THEN "json" ELSE "text"
      [] block.kind \in {"image", "embedded blob"} -> "binary"
      [] OTHER -> None

Content(media, blocks) == [media |-> media, blocks |-> blocks]

ToolResultToContent(result) ==
    IF result.isError THEN Content("error", result.blocks)
    ELSE IF result.structured THEN Content("json", <<[kind |-> "structured", json |-> TRUE]>>)
    ELSE IF Len(result.blocks) = 1 /\ SingleBlock(result.blocks[1]) # None
         THEN Content(SingleBlock(result.blocks[1]), result.blocks)
    ELSE Content("json", result.blocks)

(* A resource without contents is an error, not an empty answer.           *)
ResourceResultToContent(result) ==
    IF result.blocks = <<>> THEN Content("error", <<>>)
    ELSE IF Len(result.blocks) = 1 /\ SingleBlock(result.blocks[1]) # None
         THEN Content(SingleBlock(result.blocks[1]), result.blocks)
    ELSE Content("json", result.blocks)

ReturnResult ==
    /\ returned = None
    /\ \E r \in Results :
          returned' \in {[result |-> r, content |-> ToolResultToContent(r), tool |-> TRUE],
                        [result |-> r, content |-> ResourceResultToContent(r), tool |-> FALSE]}
    /\ UNCHANGED <<listing, actions>>

-----------------------------------------------------------------------------
(* Pages and the document.                                                  *)

ListPage ==
    /\ listing.stage = "listing"
    /\ \E page \in PageTools, next \in Cursors \cup {None} :
          listing' = [listing EXCEPT
              !.tools = @ \o page,
              !.pages = @ + 1,
              !.seen = IF next = None THEN @ ELSE @ \cup {next},
              !.stage = IF next = None THEN "listed"
                        ELSE IF next \in listing.seen THEN "refused" ELSE "listing"]
    /\ UNCHANGED <<actions, returned>>

(* Tools are named in the order of their pages.                            *)
Translate ==
    /\ listing.stage = "listed" /\ actions = <<>>
    /\ LET NameOf[i \in 0..Len(listing.tools)] ==
               IF i = 0 THEN <<>>
               ELSE Append(NameOf[i - 1],
                           AffordanceName(listing.tools[i].name, Range(NameOf[i - 1])))
           names == NameOf[Len(listing.tools)]
       IN  actions' = [i \in DOMAIN listing.tools |->
                          [name |-> names[i], tool |-> listing.tools[i].name,
                           schema |-> listing.tools[i].schema,
                           input |-> Convert(listing.tools[i].schema, "root", 0)]]
    /\ listing' = [listing EXCEPT !.stage = "done"]
    /\ UNCHANGED returned

DescriptionInit ==
    /\ listing = [stage |-> "listing", tools |-> <<>>, seen |-> {}, pages |-> 0]
    /\ actions = <<>> /\ returned = None

DescriptionNext == ListPage \/ Translate \/ ReturnResult

-----------------------------------------------------------------------------
(* What a schema accepts: the original, where a reference that leads        *)
(* nowhere accepts nothing, and the translation.                            *)

RECURSIVE Accepts(_, _, _, _)
Accepts(schema, n, value, fuel) ==
    IF fuel = 0 \/ n \notin DOMAIN schema THEN FALSE
    ELSE LET node == schema[n]
         IN  CASE node.ref # None -> Accepts(schema, node.ref, value, fuel - 1)
               [] node.union # <<>> -> \E b \in Range(node.union) : Accepts(schema, b, value, fuel - 1)
               [] OTHER ->
                    /\ node.types = <<>> \/ value.type \in Range(node.types)
                    /\ value.type = "object" =>
                         /\ node.required \subseteq DOMAIN value.fields
                         /\ \A p \in DOMAIN node.properties \cap DOMAIN value.fields :
                               Accepts(schema, node.properties[p], value.fields[p], fuel - 1)
                    /\ value.type = "array" /\ node.items # None =>
                         \A i \in DOMAIN value.fields : Accepts(schema, node.items, value.fields[i], fuel - 1)

RECURSIVE AcceptsTranslated(_, _)
AcceptsTranslated(s, value) ==
    /\ s.type \in {None, value.type}
    /\ value.type = "object" =>
         /\ s.required \subseteq DOMAIN value.fields
         /\ \A p \in DOMAIN s.properties \cap DOMAIN value.fields :
               AcceptsTranslated(s.properties[p], value.fields[p])
    /\ value.type = "array" /\ s.items # None =>
         \A i \in DOMAIN value.fields : AcceptsTranslated(s.items, value.fields[i])

RECURSIVE HoldsNull(_)
HoldsNull(value) == value.type = "null" \/ \E f \in DOMAIN value.fields : HoldsNull(value.fields[f])

(* A schema that gives its objects and arrays their type.                  *)
Typed(schema) == \A n \in DOMAIN schema :
    /\ DOMAIN schema[n].properties # {} => "object" \in Range(schema[n].types)
    /\ schema[n].items # None => "array" \in Range(schema[n].types)

(* Every tool has an action of its own, and the translation refuses no      *)
(* arguments the server would take, but for null in place of an optional    *)
(* field (describe.ts:65-81, schema.ts:72-85); a server whose cursors come  *)
(* back is refused rather than read for ever (client.ts:64).               *)
DescribesEveryTool ==
    /\ listing.pages <= Cardinality(Cursors) + 1
    /\ listing.stage = "done" =>
         /\ Len(actions) = Len(listing.tools)
         /\ \A i, j \in DOMAIN actions : actions[i].name = actions[j].name => i = j
         /\ \A i \in DOMAIN actions : Typed(actions[i].schema) =>
               \A v \in Values : ~HoldsNull(v) /\ Accepts(actions[i].schema, "root", v, 8)
                  => AcceptsTranslated(actions[i].input, v)

(* No block of a result is lost but to a structured form of the whole, and  *)
(* only what parses is called JSON unless the blocks are handed back as     *)
(* such (content.ts:142, 159).                                              *)
ReturnsEveryBlock ==
    returned # None =>
       LET r == returned.result
           c == returned.content
       IN  /\ returned.tool /\ r.isError <=> returned.tool /\ c.media = "error"
           /\ c.media # "error" => c.blocks = r.blocks \/ (returned.tool /\ r.structured)
           /\ Len(c.blocks) = 1 /\ c.media = "text" => ~r.blocks[1].json

BindingSound == DescribesEveryTool /\ ReturnsEveryBlock
=============================================================================
