SPECIFICATION MCSpec
CONSTANTS
    MaxSpawns = 4
    MaxFailures = 2
    Parents = {p1, p2}
    Files = {a, b}
    Messages = {m, n}
    Drafts = {{a}, {a, b}}
    MaxChats = 2
    MaxRefusals = 3
    MaxCommits = 3
    MaxLines = 3
    Procs = {1, 2, 3}
    AgyTurns = 2
INVARIANTS
    LinkIsSafe
    TheDiskIsTrue
    TurnsHaveTheirProcess
    ShownIsTrue
PROPERTIES
    PageGetsInStep
    ChatsCostNothing
    PartsRecover
CHECK_DEADLOCK FALSE
