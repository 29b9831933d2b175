SPECIFICATION Spec
CONSTANTS
    Callers = {c1, c2, c3}
    Gateways = {g1}
    Agents = {a1, a2}
    MaxCalls = 3
    MaxSecond = 1
    MaxFaults = 1
SYMMETRY Symmetry
CHECK_DEADLOCK FALSE
INVARIANTS
    UsesOverlap
    FirstReportsOverlap
    AcknowledgedNotHidden
    ReleaseWhole
PROPERTIES
    InitializedForGood
