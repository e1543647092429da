SPECIFICATION FairSpec
CONSTANTS
    MaxTurns = 3
    MaxSets = 2
    MaxStops = 1
    MaxLosses = 1
INVARIANTS
    OncePerInterval
    ConfirmedIsLast
PROPERTIES
    NoStaleWrite
    ConfirmationPauses
