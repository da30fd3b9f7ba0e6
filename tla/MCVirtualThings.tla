--------------------------- MODULE MCVirtualThings ---------------------------
(* Instances of VirtualThings for TLC. *)
EXTENDS VirtualThings, TLC

\* Calls and affordances are interchangeable.
Symmetry == Permutations(Calls) \cup Permutations(Affordances)

=============================================================================
