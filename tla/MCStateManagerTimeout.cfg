SPECIFICATION FairSMSpec
CONSTANTS
    Pid = {p1, p2, p3}
    NoPid = NoPid
    InitialPid = p1
    MaxProcesses = 2
    MaxFileId = 3
    MaxStateId = 3
    UseTimeout = TRUE
INVARIANTS
    SuccessCountExact
    KillNamesKeeper
    AllSuspendedIsQuiet
PROPERTY
    WaitersResume
