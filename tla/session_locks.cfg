SPECIFICATION Spec
CONSTANTS
    Ops <- MCOps
    Keys <- MCKeys
    Plan <- MCPlan
    NoOp = NoOp
INVARIANTS
    MutualExclusion
    FirstComeFirstServed
PROPERTIES
    ServedFromQueues
    AllKeysComeFree
