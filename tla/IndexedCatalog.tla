--------------------------- MODULE IndexedCatalog ---------------------------
(***************************************************************************)
(* What the indexes of the catalog promise, whatever happens between them  *)
(* and it: a derived store shows of a Thing nothing, or something that the *)
(* catalog has committed for that Thing and for no other.                  *)
(***************************************************************************)
CONSTANTS Things, Documents, Stores, Absent

VARIABLES
    said,       \* the documents the catalog has committed for a Thing
    index       \* what each derived store shows of it

Init ==
    /\ said = [t \in Things |-> {}]
    /\ index = [g \in Stores |-> [t \in Things |-> Absent]]

Write(t) ==
    /\ \E d \in Documents : said' = [said EXCEPT ![t] = @ \cup {d}]
    /\ UNCHANGED index

Shows(g, t) ==
    /\ \E d \in said[t] \cup {Absent} : index' = [index EXCEPT ![g][t] = d]
    /\ UNCHANGED said

\* A store may also be rebuilt as a whole.
Rebuilt(g) ==
    /\ \E shown \in [Things -> Documents \cup {Absent}] :
          /\ \A t \in Things : shown[t] \in said[t] \cup {Absent}
          /\ index' = [index EXCEPT ![g] = shown]
    /\ UNCHANGED said

Next ==
    \/ \E t \in Things : Write(t)
    \/ \E g \in Stores : Rebuilt(g) \/ \E t \in Things : Shows(g, t)

Spec == Init /\ [][Next]_<<said, index>>
=============================================================================
