------------------------------ MODULE MCPgStore ------------------------------
\* Small instances of PgStore for TLC.
EXTENDS PgStore, TLC

\* Callers and agents are interchangeable.
Symmetry == Permutations(Callers) \cup Permutations(Agents)
=============================================================================
