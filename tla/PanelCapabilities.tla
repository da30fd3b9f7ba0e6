-------------------------- MODULE PanelCapabilities --------------------------
(***************************************************************************)
(* The capability allowlist of a generated panel.  The tool normalizes     *)
(* what the agent declared, the store and the browser each clean it again, *)
(* and three separate checks read it: panels/validate.py before the panel  *)
(* runs, panels/browser_protocol.py while it is validated, and             *)
(* web-interface-model.ts when a user runs it.                             *)
(*                                                                         *)
(* A declared capability is a record of a Thing ID, a sequence of names    *)
(* and a sequence of operations, any of which may be NotText, a value that *)
(* is not a string, and Blank is the empty string.                         *)
(***************************************************************************)
EXTENDS Sequences

CONSTANTS Things, Names, Blank, NotText

Ops == {"readProperty", "writeProperty", "invokeAction", "observeProperty",
        "subscribeEvent"}

Texts(names) == SelectSeq(names, LAMBDA n : n # NotText)
Known(ops) == SelectSeq(ops, LAMBDA o : o \in Ops)

(* The entries of caps that pass Keep, each rewritten by Clean.            *)
Cleaned(caps, Keep(_), Clean(_)) ==
    LET kept == SelectSeq(caps, Keep) IN [i \in DOMAIN kept |-> Clean(kept[i])]

Usable(c) == c.thingId \notin {Blank, NotText} /\ Known(c.ops) # <<>>

(* _normalize_capabilities: also drops blank names.                        *)
Normalized(caps) ==
    Cleaned(caps, Usable,
            LAMBDA c : [thingId |-> c.thingId, ops |-> Known(c.ops),
                        affordances |-> SelectSeq(c.affordances, LAMBDA n : n # Blank)])

(* _clean_capabilities of the panel store.                                 *)
CleanCapabilities(caps) ==
    Cleaned(caps, Usable,
            LAMBDA c : [thingId |-> c.thingId, ops |-> Known(c.ops),
                        affordances |-> Texts(c.affordances)])

(* parseCapabilities of the chat user interface.                           *)
ParseCapabilities(caps) ==
    Cleaned(caps, Usable,
            LAMBDA c : [thingId |-> c.thingId, ops |-> Known(c.ops),
                        affordances |-> Texts(c.affordances)])

In(x, seq) == \E i \in DOMAIN seq : seq[i] = x

Covers(c, call) == /\ c.thingId = call.thing
                   /\ In(call.op, c.ops)
                   /\ c.affordances = <<>> \/ In(call.name, c.affordances)

(* _is_allowed of panels/validate.py, for literal calls of the script.     *)
IsAllowed(caps, call) == \E i \in DOMAIN caps : Covers(caps[i], call)

(* isInteractionAllowed of the bridge in the user's browser.               *)
IsInteractionAllowed(caps, call) == \E i \in DOMAIN caps : Covers(caps[i], call)

(* request_problem of both ends of the validation bridge.                  *)
RequestProblem(caps, call) ==
    IF call.op # "readProperty" THEN "bridge_blocked"
    ELSE IF \/ call.thing \in {Blank, NotText}
            \/ call.name \in {Blank, NotText}
            \/ ~\E i \in DOMAIN caps : Covers(caps[i], call)
         THEN "capability"
         ELSE "none"
=============================================================================
