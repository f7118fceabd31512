SPECIFICATION MCSpec
CONSTANTS
    Pid = {p1, p2, p3, p4, p5}
    InitialPid = p1
    NoPid = NoPid
    MaxProcesses = 3
    MaxFileId = 5
    Process = {q1, q2, q3, q4}
INVARIANTS SlotForEveryChild SlotOwned FreshDirectory MutualExclusion
PROPERTIES PoolSpec WaiterEnters
CHECK_DEADLOCK FALSE
