SPECIFICATION Spec
CONSTANTS
    p = p
    q = q
    Projects = {p, q}
    First = p
    o = o
    Existing = {o}
    n = n
    Children = {n}
    NoProject = NoProject
    NoThread = NoThread
    Kinds = {"session", "fork"}
    SlowCreations = TRUE
    MaxLosses = 1
    MaxFaults = 1
    MaxMoves = 1
    MaxScans = 1
INVARIANTS
    NothingIsMistaken
PROPERTIES
    ScansUndoNothing
    RecoveryEnds
CHECK_DEADLOCK FALSE
