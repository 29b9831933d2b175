SPECIFICATION Spec
CONSTANTS
    Callers = {c1, c2}
    Gateways = {g1}
    Agents = {a1}
    MaxCalls = 3
    MaxSecond = 0
    MaxFaults = 0
CHECK_DEADLOCK FALSE
INVARIANTS
    TokenUsedOnce
