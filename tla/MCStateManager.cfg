SPECIFICATION SMSpec
CONSTANTS
    Pid = {p1, p2, p3}
    NoPid = NoPid
    InitialPid = p1
    MaxProcesses = 3
    MaxFileId = 3
    MaxStateId = 4
    UseTimeout = FALSE
SYMMETRY Symmetry
INVARIANTS
    PathsRunOnce
    NoPathLost
    NotAllKilled
