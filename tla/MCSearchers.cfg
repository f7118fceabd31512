SPECIFICATION MCSpec
CONSTANTS
    MaxStateId = 4
    Setups <- MCSetups
    GuestMisnames = FALSE
    MergesCleanly = TRUE
    Items = {1, 2, 3, 4, 5, 6}
INVARIANTS SearcherHoldsStates SelectsInOrder WeightsExact
PROPERTY SelectionSpec
