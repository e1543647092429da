SPECIFICATION FairSpec
CONSTANTS
    Msgs = {m1, m2}
    NoMsg = NoMsg
    MaxTurns = 2
    MaxLosses = 1
    MaxTimeouts = 0
    Attempts = 2
    Paginated = FALSE
    SharedServer = FALSE
    SlowServer = TRUE
    ColdSend = TRUE
    BatchedLines = TRUE
    Announces = TRUE
PROPERTIES
    NothingIsHeldForEver
