SPECIFICATION Spec
CONSTANTS
    Keys = {k1, k2}
    Handlers = {h1, h2}
    MaxFailures = 2
    Window = 2
    Block = 2
    MaxBuckets = 1
    MaxTime = 6
SYMMETRY Symmetry
INVARIANTS
    BucketsBounded
    OvershootBounded
PROPERTIES
    BlockHeldInWindow
