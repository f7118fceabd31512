------------------------------ MODULE MCPlugins ------------------------------
(***************************************************************************)
(* The analysis plugins, for TLC.  Each is a specification of its own; the *)
(* variable plugin says which takes the steps of a behaviour, and the      *)
(* others rest.                                                            *)
(***************************************************************************)
EXTENDS MemoryChecker, TLC

CONSTANTS Symbolic, NoFunctor

VARIABLES
    plugin,
    thread, frames, redo, at, f, symbolic, todo, calls, newCalls, returns, due, seen, twice,
    running, table, file, made,
    inputs, taken, paths, size, crashed, reports, passed, onBugs,
    path, current, data, con, failed,
    guest, active, m_state, walk, nowtask, nowmmap, lines,
    sp, loc, scheduled, loaded, m_cached, m_stacks, stackFailed

MonitorPid == [t1 |-> "p1", t2 |-> "p2"]
MonitorTarget ==
    [all |-> [eip |-> "any function", cr3 |-> "any process"],
     alloc |-> [eip |-> "alloc", cr3 |-> "any process"],
     map |-> [eip |-> "map", cr3 |-> "p1"]]
MonitorAct == [all |-> "register", alloc |-> "symbolic", map |-> "bypass"]
MonitorModule == [functions |-> {"map"}, pid |-> "p1"]

\* Two processes with one thread each, on the same stack addresses, and one
\* handler of each kind: one for all functions that registers others, and one
\* for each function of the module.
Monitor == INSTANCE FunctionMonitor WITH
    Threads <- {"t1", "t2"}, Pid <- MonitorPid,
    Functions <- {"alloc", "map"}, Handlers <- {"all", "alloc", "map"},
    Target <- MonitorTarget, Act <- MonitorAct, Module <- MonitorModule,
    AnyFunction <- "any function", AnyPid <- "any process", NoRedo <- "no redo",
    MaxDepth <- 2, UnwindsMonitored <- FALSE

\* Two processes, and tables of four entries that do not overflow.
Tracer == INSTANCE CallTracer WITH
    Processes <- {0, 1}, First <- 0, Capacity <- 4,
    Functions <- {"sys_read", "kmalloc", "interrupt"}, Filtered <- "interrupt", Words <- 2

\* A negative size, zero, a legal size, the limit and a size above it.
Manager == INSTANCE MemoryManager WITH
    Paths <- {"p1", "p2"}, First <- "p1", Values <- -1 .. 3, Limit <- 2, MaxReports <- 3,
    alive <- paths, terminate <- onBugs

\* Two modules, two paths and both plugins that listen to memory accesses.
Tracking == INSTANCE ModuleTracking WITH
    Modules <- {"m1", "m2"}, Elsewhere <- "elsewhere",
    Listeners <- {"MemoryChecker", "MemoryTracer"}, Quiet <- FALSE, MaxStateId <- 1, MaxSlots <- 4

\* Three tasks, of which two are printed at most, and two paths.
Linux == INSTANCE LinuxInfo WITH
    Tasks <- {"init_task", "t1", "t2"}, InitTask <- "init_task", Areas <- {"a1", "a2"},
    Null <- "null", Wild <- "wild", Limit <- 2, MaxStateId <- 1,
    current <- active, at <- walk

StackPid == [a |-> 1, b |-> 1, c |-> 2]
StackBase == [a |-> 4, b |-> 8, c |-> 4]

\* Two threads of one process, and one of another whose stack has the same
\* addresses as the first.
Stacks == INSTANCE StackMonitor WITH
    Modules <- {"m1", "m2"}, Threads <- {"a", "b", "c"},
    Pid <- StackPid, Base <- StackBase,
    Size <- 2, System <- "system",
    thread <- scheduled, failed <- stackFailed

ASSUME PluginsAssumption ==
    /\ Monitor!MonitorAssumption /\ Tracer!TracerAssumption /\ Manager!ManagerAssumption
    /\ Tracking!TrackingAssumption /\ Linux!LinuxAssumption /\ Stacks!StackAssumption

monitorVars == <<thread, frames, redo, at, f, symbolic, todo, calls, newCalls, returns, due, seen, twice>>
tracerVars == <<running, table, file, made>>
managerVars == <<inputs, taken, paths, size, crashed, reports, passed, onBugs>>
trackingVars == <<path, current, data, con, failed>>
linuxVars == <<guest, active, m_state, walk, nowtask, nowmmap, lines>>
stackVars == <<sp, loc, scheduled, loaded, m_cached, m_stacks, stackFailed>>

MCInit ==
    /\ plugin \in {"MemoryChecker", "FunctionMonitor", "CallTracer", "MemoryManager",
                   "ModuleTracking", "LinuxInfo", "StackMonitor"}
    /\ CheckerInit /\ (plugin = "MemoryChecker" \/ terminate = {})
    /\ Monitor!Init /\ (plugin = "FunctionMonitor" \/ (thread = "t1" /\ f = "map"))
    /\ Tracer!Init
    /\ Manager!Init /\ (plugin = "MemoryManager" \/ onBugs = FALSE)
    /\ Tracking!Init
    /\ Linux!Init
    /\ Stacks!Init /\ (plugin = "StackMonitor" \/ scheduled = "a")

CheckerMoves ==
    /\ plugin = "MemoryChecker" /\ CheckerNext
    /\ UNCHANGED <<plugin, monitorVars, tracerVars, managerVars, trackingVars, linuxVars, stackVars>>

MonitorMoves ==
    /\ plugin = "FunctionMonitor" /\ Monitor!Next
    /\ UNCHANGED <<plugin, checkerVars, tracerVars, managerVars, trackingVars, linuxVars, stackVars>>

TracerMoves ==
    /\ plugin = "CallTracer" /\ Tracer!Next
    /\ UNCHANGED <<plugin, checkerVars, monitorVars, managerVars, trackingVars, linuxVars, stackVars>>

ManagerMoves ==
    /\ plugin = "MemoryManager" /\ Manager!Next
    /\ UNCHANGED <<plugin, checkerVars, monitorVars, tracerVars, trackingVars, linuxVars, stackVars>>

TrackingMoves ==
    /\ plugin = "ModuleTracking" /\ Tracking!Next
    /\ UNCHANGED <<plugin, checkerVars, monitorVars, tracerVars, managerVars, linuxVars, stackVars>>

LinuxMoves ==
    /\ plugin = "LinuxInfo" /\ Linux!Next
    /\ UNCHANGED <<plugin, checkerVars, monitorVars, tracerVars, managerVars, trackingVars, stackVars>>

StacksMove ==
    /\ plugin = "StackMonitor" /\ Stacks!Next
    /\ UNCHANGED <<plugin, checkerVars, monitorVars, tracerVars, managerVars, trackingVars, linuxVars>>

MCNext ==
    \/ CheckerMoves \/ MonitorMoves \/ TracerMoves \/ ManagerMoves
    \/ TrackingMoves \/ LinuxMoves \/ StacksMove

MCSpec ==
    /\ MCInit
    /\ [][MCNext]_<<plugin, checkerVars, monitorVars, tracerVars, managerVars, trackingVars, linuxVars, stackVars>>

-----------------------------------------------------------------------------


\* MemoryChecker listens whenever a block of a module runs, whichever paths ran
\* before; a connected plugin keeps the connection of a slot that holds its
\* functor, and the asserts of ModuleExecutionDetector and the signals hold.
CheckerHearsModules ==
    plugin = "ModuleTracking" =>
        Tracking!AssertsHold /\ Tracking!CheckerHearsModules /\ Tracking!HoldsItsSlot

\* What a plugin lists is what the guest did and has.  CallTracer: every call
\* that some process saw with a symbolic word is in wanted_functions, and no
\* process writes a line twice, while the table has room.  Linux_pro: the
\* processes of the guest, each once and in order, up to its limit, and all
\* areas of a process that has memory of its own.
ListingsExact ==
    /\ plugin = "CallTracer" => Tracer!RecordedAll /\ Tracer!RecordedOnce
    /\ plugin = "LinuxInfo" => Linux!TasksListed /\ Linux!ModulesListed

\* StackMonitor: "The frames are sorted by decreasing stack pointer"; while a
\* module runs, every frame of its thread is above the stack pointer; and the
\* asserts of Stack and of update hold.
FramesLive ==
    plugin = "StackMonitor" => Stacks!AssertsHold /\ Stacks!FramesSorted /\ Stacks!FramesLive
=============================================================================
