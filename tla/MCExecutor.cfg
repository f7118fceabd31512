SPECIFICATION MCSpec
CONSTANTS
    MaxStateId = 4
    ConcolicMode = FALSE
    UseMaxDepth = TRUE
INVARIANTS
    StatesPartitioned
    TreeActiveExact
PROPERTY
    TerminatedFreed
