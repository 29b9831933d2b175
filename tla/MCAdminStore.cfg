SPECIFICATION FairSpec
CONSTANTS
    c1 = c1
    c2 = c2
    c3 = c3
    p1 = p1
    p2 = p2
    Calls = {c1, c2, c3}
    Processes = {p1, p2}
    Runner <- RunnerDef
INVARIANTS
    NeverTorn
    NoLostUpdate
PROPERTIES
    ImplementsAtomicStore
    CallsEnd
