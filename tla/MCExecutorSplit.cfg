SPECIFICATION Spec
CONSTANTS
    MaxStateId = 3
    ConcolicMode = FALSE
    UseMaxDepth = FALSE
INVARIANT
    SplitsActiveNode
