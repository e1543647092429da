SPECIFICATION Spec
CONSTANTS
    Msgs = {m1, m2}
    NoMsg = NoMsg
    MaxTurns = 2
    MaxLosses = 2
    MaxTimeouts = 0
    Attempts = 2
    Paginated = TRUE
    SharedServer = TRUE
    SlowServer = TRUE
    ColdSend = TRUE
    BatchedLines = TRUE
    Announces = FALSE
SYMMETRY Interchangeable
INVARIANTS
    NoConcurrentStart
    AtMostOnce
    NotAppliedIsTrue
