SPECIFICATION Spec
CONSTANTS
    Sessions = {s}
    SideChats = {x}
    Subagents = {c}
    Requests = {q, r}
    Quiet = {r}
    NoThread = NoThread
    MaxTurns = 2
    Outcomes = {"justFinished"}
    MaxActivity = 3
    MaxTroubles = 1
INVARIANTS
    ShownStatesCanEnd
    NobodyWaitsForNothing
PROPERTIES
    GoneStaysGone
