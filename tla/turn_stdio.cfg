SPECIFICATION FairSpec
CONSTANTS
    Msgs = {m1, m2}
    NoMsg = NoMsg
    MaxTurns = 2
    MaxLosses = 1
    MaxTimeouts = 1
    Attempts = 2
    Paginated = TRUE
    SharedServer = FALSE
    SlowServer = FALSE
    ColdSend = FALSE
    BatchedLines = TRUE
    Announces = FALSE
INVARIANTS
    AppliedIsTrue
    QuiescentTruth
    BlockedIsOffered
    StaysDisconnected
PROPERTIES
    EndedTurnIsShown
