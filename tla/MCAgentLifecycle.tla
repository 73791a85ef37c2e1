--------------------------- MODULE MCAgentLifecycle --------------------------
(* Small instances of AgentLifecycle. *)
EXTENDS AgentLifecycle, TLC

\* Starts are interchangeable.
Symmetry == Permutations(Starts)
==============================================================================
