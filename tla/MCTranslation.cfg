SPECIFICATION MCSpec
CONSTANTS
    MaxTb = 2
    MaxStateId = 2
INVARIANTS CountsExact ChainsExact NativeIsConcrete
PROPERTY ExitAnswered
