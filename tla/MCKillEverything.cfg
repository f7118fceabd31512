SPECIFICATION SMSpec
CONSTANTS
    Pid = {p1, p2, p3}
    NoPid = NoPid
    InitialPid = p1
    MaxProcesses = 2
    MaxFileId = 2
    MaxStateId = 2
    UseTimeout = TRUE
SYMMETRY Symmetry
INVARIANT
    NotAllKilled
