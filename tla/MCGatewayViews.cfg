SPECIFICATION ViewsSpec
CONSTANTS
    Hosts = {h1, h2}
    MaxWrites = 2
    Agents = {a1, a2}
    Views = {v1}
    Cards = 2
    Window = 1
    Requested = {1}
    MaxSecond = 2
    Reporters = {a1}
    MaxReports = 2
    Leaves <- MCLeaves
    LossGroups = {"miss", "residue", "error"}
    Curves <- MCCurves
    MaxChanges = 2
SYMMETRY Symmetry
INVARIANTS
    CacheTrue
    FailsOnlyIfDisturbed
    CardsOfEnrolled
    OnlineCounted
    RowsAddUp
