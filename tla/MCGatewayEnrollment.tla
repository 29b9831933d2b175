------------------------- MODULE MCGatewayEnrollment -------------------------
\* Small instances of GatewayEnrollment for TLC.
EXTENDS GatewayEnrollment, TLC

\* Handlers and identities are interchangeable.
Symmetry == Permutations(Handlers) \cup Permutations(Identities)
=============================================================================
