--------------------------- MODULE MCFleetStatus ---------------------------
\* A small instance of FleetStatus for TLC: one gateway that is seeded and one
\* that has yet to enrol, so they are not interchangeable.
EXTENDS FleetStatus
=============================================================================
