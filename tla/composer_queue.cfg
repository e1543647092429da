SPECIFICATION Spec
CONSTANTS
    Items = {1, 2, 3}
    Compacts = {2}
    Outlives = FALSE
    MaxOthers = 2
    MaxLosses = 1
    MaxRemounts = 1
INVARIANTS
    EachOnceInOrder
    OneAfterAnother
PROPERTIES
    QueueMoves
CHECK_DEADLOCK FALSE
