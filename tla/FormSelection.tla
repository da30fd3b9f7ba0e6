---------------------------- MODULE FormSelection ----------------------------
(***************************************************************************)
(* How the WoT runtime picks the form of an interaction                     *)
(* (services/form-selection.ts): the first form that matches the selector   *)
(* of the request, else, for actions, the first form a binding can serve.   *)
(* Forms are counted from 1; 0 leaves the choice to node-wot.               *)
(***************************************************************************)
EXTENDS Integers, SequencesExt

CONSTANT Absent   \* a field the selector or the form leaves out

Unmatched == -1

(* An absolute href carries the scheme, a relative one the base's.         *)
FormScheme(doc, form) == IF form.scheme = Absent THEN doc.base ELSE form.scheme

Supports(form, op) == form.ops = {} \/ op \in form.ops

(* A preferred scheme is compared with the href alone, never the base.     *)
Matches(form, index, selector, op) ==
    /\ selector.index \in {Absent, index}
    /\ Supports(form, op)
    /\ selector.href \in {Absent, form.href}
    /\ selector.scheme \in {Absent, form.scheme}
    /\ selector.subprotocol = Absent \/ selector.subprotocol \in form.subprotocols

FirstForm(fits) == IF fits = {} THEN Unmatched ELSE CHOOSE i \in fits : \A j \in fits : i <= j

NoSelector(selector) == \A field \in DOMAIN selector : selector[field] = Absent

(* schemes = {} where the caller passes no bindings: reads and writes.     *)
ResolveFormIndex(doc, op, selector, schemes) ==
    IF NoSelector(selector)
    THEN IF schemes = {} THEN 0
         ELSE FirstForm({i \in DOMAIN doc.forms : /\ Supports(doc.forms[i], op)
                                                  /\ FormScheme(doc, doc.forms[i]) \in schemes})
    ELSE FirstForm({i \in DOMAIN doc.forms : Matches(doc.forms[i], i, selector, op)})

(* The method of the form an interaction will use, where it is HTTP's.     *)
HttpSchemes == {"https", "provider"}
\* Mutant: the method is read from the first form that supports the operation.
FirstFormMethod(doc, op, index) ==
    LET i == FirstForm({k \in DOMAIN doc.forms : Supports(doc.forms[k], op)})
    IN  IF i \in DOMAIN doc.forms /\ FormScheme(doc, doc.forms[i]) \in HttpSchemes
        THEN doc.forms[i].method ELSE Absent

FormHttpMethod(doc, op, index) ==
    LET i == IF index # 0 THEN index ELSE FirstForm({k \in DOMAIN doc.forms : Supports(doc.forms[k], op)})
    IN  IF i \in DOMAIN doc.forms /\ FormScheme(doc, doc.forms[i]) \in HttpSchemes
        THEN doc.forms[i].method ELSE Absent
=============================================================================
