------------------------- MODULE MCAgentEnrollment -------------------------
(* Small instances of AgentEnrollment. *)
EXTENDS AgentEnrollment, TLC

\* Handlers and agents are interchangeable; tokens too.
Symmetry == Permutations(Handlers) \cup Permutations(Agents) \cup Permutations(Tokens)
=============================================================================
