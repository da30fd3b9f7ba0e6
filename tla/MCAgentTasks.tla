---------------------------- MODULE MCAgentTasks ----------------------------
(* Instances of AgentTasks for TLC. *)
EXTENDS AgentTasks, TLC

\* Message ids and contexts are interchangeable.
Symmetry == Permutations(Messages) \cup Permutations(Contexts)

=============================================================================
