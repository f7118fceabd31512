SPECIFICATION MCSpec
CONSTANTS
    Word = 5
    Starts = {0, 1, 2, 3, 4}
    Sizes = {0, 1, 2, 4}
    Perms = {{"read"}, {"read", "write"}}
    Types = {"", "pool"}
    Handles = {h1}
    NoRegion = NoRegion
    NoType = ""
    Symbolic = Symbolic
    NoFunctor = NoFunctor
INVARIANTS
    NoFalseAlarm
      CheckerHearsModules ListingsExact FramesLive
CHECK_DEADLOCK FALSE
