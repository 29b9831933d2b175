----------------------------- MODULE MCRateLimit -----------------------------
\* Small instances of RateLimit for TLC.
EXTENDS RateLimit, TLC

\* Clients are interchangeable, and so are the requests that serve them.
Symmetry == Permutations(Keys) \cup Permutations(Handlers)
=============================================================================
