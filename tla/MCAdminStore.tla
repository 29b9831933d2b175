---------------------------- MODULE MCAdminStore -----------------------------
\* Two processes share a store: two calls run in one, one in the other.
EXTENDS AdminStore

CONSTANTS c1, c2, c3, p1, p2

RunnerDef(c) == IF c = c3 THEN p2 ELSE p1
=============================================================================
