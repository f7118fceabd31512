---------------------------- MODULE StateManager ----------------------------
(***************************************************************************)
(* The StateManager plugin on top of the process table: states that        *)
(* succeed are suspended, a process that has nothing left to run waits     *)
(* until all do, and a kill leaves one successful state in one process.    *)
(*                                                                         *)
(* A critical section on m_shared is one action.  Of the time only whether *)
(* m_timeout seconds have passed since timeOfLastNewBlock is kept.         *)
(***************************************************************************)
EXTENDS ProcessTable, FiniteSetsExt

CONSTANTS MaxStateId,    \* bound on lastStateId, for model checking
          UseTimeout     \* m_timeout # 0

ASSUME MaxStateIdAssumption == MaxStateId \in Nat \ {0} /\ UseTimeout \in BOOLEAN

VARIABLES
    successCount, commands, suspendedProcesses, keepOneStateOnNode, \* StateManagerShared
    timeUp,             \* timeOfLastNewBlock is at least m_timeout seconds old
    lastStateId,        \* S2EShared
    states,             \* the states the executor of each process can run
    m_succeeded,        \* the suspended successful states of each process
    g_s2e_state,        \* the current state of each process
    step,               \* where each process stands
    finished,           \* history: the states that ran to their end
    killIssued          \* history: a kill has been decided

smShared == <<successCount, commands, suspendedProcesses, keepOneStateOnNode,
              timeUp>>
local == <<states, m_succeeded, g_s2e_state, step>>
history == <<finished, killIssued>>
smVars == <<smShared, lastStateId, local, history>>
allVars == <<vars, smVars>>

StateId == 0 .. MaxStateId - 1
NoState == -1

\* The command of a slot: EMPTY, or KILL with the slot that keeps one state
\* (Everyone is nodeId 255, which names no slot).
EMPTY == -2
Everyone == -1

\* "exec": between two timer callbacks.   "forking": in doLoadBalancing.
\* "postfork": the child, before onProcessFork.   "select": doLoadBalancing has
\* returned.   "suspending", "suspended", "woken": in sm_callback, around the
\* waiting loop.   "exiting": exit(0) called.   "destroyed": ~StateManager done.
Step == {"exec", "select", "forking", "postfork", "suspending", "suspended",
         "woken", "exiting", "destroyed"}

SlotOf(p) == m_currentProcessId[p]

SMInit ==
    /\ Init
    /\ successCount = [i \in Slot |-> 0]
    /\ commands = [i \in Slot |-> EMPTY]
    /\ suspendedProcesses = [i \in Slot |-> FALSE]
    /\ keepOneStateOnNode = None
    /\ timeUp = FALSE
    /\ lastStateId = 1
    /\ states = [p \in Pid |-> IF p = InitialPid THEN {0} ELSE {}]
    /\ m_succeeded = [p \in Pid |-> {}]
    /\ g_s2e_state = [p \in Pid |-> IF p = InitialPid THEN 0 ELSE NoState]
    /\ step = [p \in Pid |-> "exec"]
    /\ finished = {}
    /\ killIssued = FALSE

-----------------------------------------------------------------------------
(* The functions of the plugin, on a view of what the caller can change.    *)
(* "killed" states stay in "states" until updateStates; "thrown" is the     *)
(* CpuExitException that killing the current state raises.                  *)

View(p) ==
    [slot |-> SlotOf(p), states |-> states[p], killed |-> {},
     succeeded |-> m_succeeded[p], current |-> g_s2e_state[p],
     count |-> successCount, commands |-> commands,
     suspended |-> suspendedProcesses, keepOne |-> keepOneStateOnNode,
     timeUp |-> timeUp,
     thrown |-> FALSE]

resumeSucceeded(v) ==
    [v EXCEPT !.states = @ \cup v.succeeded, !.succeeded = {}, !.count[v.slot] = 0]

killAllExcept(v, toKeep) ==
    LET dying == v.states \ toKeep IN
    [v EXCEPT !.killed = @ \cup dying, !.thrown = v.current \in dying]

sendKillToAllInstances(v, nodeId) ==
    [v EXCEPT !.commands = [i \in Slot |-> IF i = v.slot THEN @[i] ELSE nodeId]]

\* m_succeeded is ordered by address, so "*m_succeeded.begin()" is any of them.
killAllButOneSuccessfulLocal(v) ==
    {killAllExcept(resumeSucceeded(v), {one}) : one \in v.succeeded}

\* Mutant of processCommands: the node a KILL spares is not looked at.
processCommands_SparesNobody(v) ==
    LET read == [v EXCEPT !.commands[v.slot] = EMPTY] IN
    IF v.commands[v.slot] = EMPTY THEN {v} ELSE {killAllExcept(resumeSucceeded(read), {})}

processCommands(v) ==
    LET read == [v EXCEPT !.commands[v.slot] = EMPTY]
        mine == [read EXCEPT !.keepOne = None]
    IN CASE v.commands[v.slot] = EMPTY -> {v}
         [] v.commands[v.slot] = v.slot ->
                IF v.succeeded = {} THEN {mine} ELSE killAllButOneSuccessfulLocal(mine)
         [] OTHER -> {killAllExcept(resumeSucceeded(read), {})}

\* Mutant of killAllButOneSuccessful: the chosen node is not recorded.
killAllButOneSuccessful_ForgetsNode(v) ==
    LET candidates == {i \in UsedSlots : v.count[i] > 0}
        chosen == IF v.keepOne # None /\ v.succeeded # {} THEN v.keepOne
                  ELSE IF candidates # {} THEN Min(candidates) ELSE MaxProcesses
    IN CASE chosen = MaxProcesses -> {v}
         [] chosen = v.slot -> killAllButOneSuccessfulLocal(sendKillToAllInstances(v, Everyone))
         [] OTHER -> {killAllExcept(sendKillToAllInstances(v, chosen), {})}

killAllButOneSuccessful(v) ==
    LET candidates == {i \in UsedSlots : v.count[i] > 0}
        chosen == IF v.keepOne # None /\ v.succeeded # {} THEN v.keepOne
                  ELSE IF candidates # {} THEN Min(candidates) ELSE MaxProcesses
    IN CASE chosen = MaxProcesses -> {v}
         [] chosen = v.slot -> killAllButOneSuccessfulLocal(sendKillToAllInstances(v, Everyone))
         [] OTHER -> {killAllExcept(
                        sendKillToAllInstances([v EXCEPT !.keepOne = chosen], chosen), {})}

SharedFrom(v) ==
    /\ successCount' = v.count
    /\ commands' = v.commands
    /\ suspendedProcesses' = v.suspended
    /\ keepOneStateOnNode' = v.keepOne
    /\ timeUp' = v.timeUp

\* sm_callback returns or throws into selectNextState: the killed states go
\* away (updateStates), and the searcher picks a state or the process exits.
Reschedule(p, v) ==
    LET left == v.states \ v.killed IN
    /\ SharedFrom(v)
    /\ states' = [states EXCEPT ![p] = left]
    /\ m_succeeded' = [m_succeeded EXCEPT ![p] = v.succeeded]
    /\ \/ /\ left = {}
          /\ g_s2e_state' = [g_s2e_state EXCEPT ![p] = NoState]
          /\ step' = [step EXCEPT ![p] = "exiting"]
       \/ \E s \in left :
          /\ g_s2e_state' = [g_s2e_state EXCEPT ![p] = s]
          /\ step' = [step EXCEPT ![p] = "exec"]

\* sm_callback goes on to wait, or goes on after it has waited.
Continue(p, v, next) ==
    /\ SharedFrom(v)
    /\ states' = [states EXCEPT ![p] = v.states \ v.killed]
    /\ m_succeeded' = [m_succeeded EXCEPT ![p] = v.succeeded]
    /\ step' = [step EXCEPT ![p] = next]
    /\ UNCHANGED g_s2e_state

-----------------------------------------------------------------------------
(* The guest.  Only the timer switches states, so a state that has just     *)
(* succeeded runs on until the timer fires; a state that has ended does not *)
(* (s2e_is_runnable).                                                       *)

Runs(p) == /\ phase[p] = "running" /\ step[p] = "exec"
           /\ g_s2e_state[p] \in states[p] \cup m_succeeded[p]

\* The current state forks; the new state takes the next id of S2EShared.
ForkState(p) ==
    /\ Runs(p)
    /\ lastStateId < MaxStateId
    /\ states' = [states EXCEPT ![p] = @ \cup {lastStateId}]
    /\ lastStateId' = lastStateId + 1
    /\ UNCHANGED <<vars, smShared, m_succeeded, g_s2e_state, step, history>>

\* The current state ends: terminateState, where a succeeded state is resumed
\* first (resumeSucceededState), then updateStates.
FinishState(p) ==
    LET s == g_s2e_state[p] IN
    /\ Runs(p)
    /\ states' = [states EXCEPT ![p] = @ \ {s}]
    /\ m_succeeded' = [m_succeeded EXCEPT ![p] = @ \ {s}]
    /\ successCount' = [successCount EXCEPT
                          ![SlotOf(p)] = IF s \in m_succeeded[p] THEN @ - 1 ELSE @]
    /\ finished' = finished \cup {s}
    /\ UNCHANGED <<vars, commands, suspendedProcesses, keepOneStateOnNode,
                   timeUp, lastStateId, g_s2e_state, step, killIssued>>

\* onCustomInstruction(SUCCEED): succeedState; a second time it does nothing.
SucceedState(p) ==
    LET s == g_s2e_state[p] IN
    /\ Runs(p)
    /\ s \notin m_succeeded[p]
    /\ m_succeeded' = [m_succeeded EXCEPT ![p] = @ \cup {s}]
    /\ states' = [states EXCEPT ![p] = @ \ {s}]
    /\ successCount' = [successCount EXCEPT ![SlotOf(p)] = Cardinality(m_succeeded'[p])]
    /\ UNCHANGED <<vars, commands, suspendedProcesses, keepOneStateOnNode,
                   timeUp, lastStateId, g_s2e_state, step, history>>

\* onNewBlockCovered: resetTimeout.
NewBlockCovered(p) ==
    /\ Runs(p)
    /\ timeUp
    /\ timeUp' = FALSE
    /\ UNCHANGED <<vars, successCount, commands, suspendedProcesses,
                   keepOneStateOnNode, lastStateId, local, history>>

\* m_timeout seconds pass and nobody covers a new block.
Tick ==
    /\ UseTimeout /\ ~ timeUp /\ Alive # {}
    /\ timeUp' = TRUE
    /\ UNCHANGED <<vars, successCount, commands, suspendedProcesses,
                   keepOneStateOnNode, lastStateId, local, history>>

-----------------------------------------------------------------------------
(* stateSwitchTimerCallback: doLoadBalancing, then selectNextState.         *)

\* S2E::fork gets past the full-table test (MaxFileId bounds the model).
CanBalance(p) == /\ Cardinality(states[p]) >= 2
                 /\ currentProcessCount # MaxProcesses
                 /\ lastFileId < MaxFileId

BalanceStart(p) ==
    /\ phase[p] = "running" /\ step[p] = "exec"
    /\ Cardinality(states[p]) >= 2
    /\ ForkReserve(p)
    /\ step' = [step EXCEPT ![p] = "forking"]
    /\ UNCHANGED <<smShared, lastStateId, states, m_succeeded, g_s2e_state, history>>

BalanceFailed(p) ==
    /\ step[p] = "forking"
    /\ ForkFailed(p)
    /\ step' = [step EXCEPT ![p] = "select"]
    /\ UNCHANGED <<smShared, lastStateId, states, m_succeeded, g_s2e_state, history>>

\* Mutant of BalanceFork: the child keeps every state.
BalanceFork_ChildKeepsAll(p, c) ==
    /\ step[p] = "forking"
    /\ ForkChild(p, c)
    /\ \E lower \in kSubset(Cardinality(states[p]) \div 2, states[p]) :
          states' = [states EXCEPT ![p] = lower, ![c] = states[p]]
    /\ m_succeeded' = [m_succeeded EXCEPT ![c] = m_succeeded[p]]
    /\ g_s2e_state' = [g_s2e_state EXCEPT ![c] = g_s2e_state[p]]
    /\ step' = [step EXCEPT ![p] = "select", ![c] = "postfork"]
    /\ UNCHANGED <<smShared, lastStateId, history>>

\* Mutant of BalanceFork: both processes terminate the state in the middle.
BalanceFork_DropsOne(p, c) ==
    /\ step[p] = "forking"
    /\ ForkChild(p, c)
    /\ \E lower \in kSubset(Cardinality(states[p]) \div 2, states[p]) :
       \E middle \in states[p] \ lower :
          states' = [states EXCEPT ![p] = lower, ![c] = states[p] \ (lower \cup {middle})]
    /\ m_succeeded' = [m_succeeded EXCEPT ![c] = m_succeeded[p]]
    /\ g_s2e_state' = [g_s2e_state EXCEPT ![c] = g_s2e_state[p]]
    /\ step' = [step EXCEPT ![p] = "select", ![c] = "postfork"]
    /\ UNCHANGED <<smShared, lastStateId, history>>

\* The child terminates the first half of the states, its parent the second;
\* the vector is ordered by address, so the halves are any.
BalanceFork(p, c) ==
    /\ step[p] = "forking"
    /\ ForkChild(p, c)
    /\ \E lower \in kSubset(Cardinality(states[p]) \div 2, states[p]) :
          states' = [states EXCEPT ![p] = lower, ![c] = states[p] \ lower]
    /\ m_succeeded' = [m_succeeded EXCEPT ![c] = m_succeeded[p]]
    /\ g_s2e_state' = [g_s2e_state EXCEPT ![c] = g_s2e_state[p]]
    /\ step' = [step EXCEPT ![p] = "select", ![c] = "postfork"]
    /\ UNCHANGED <<smShared, lastStateId, history>>

ChildStep(c) ==
    /\ RegisterChild(c) \/ InitOutputDirectory(c)
    /\ UNCHANGED smVars

\* Mutant of onProcessFork: the copied successful states are not counted.
onProcessFork_NotCounted(c) ==
    /\ phase[c] = "running" /\ step[c] = "postfork"
    /\ commands' = [commands EXCEPT ![SlotOf(c)] = EMPTY]
    /\ suspendedProcesses' = [suspendedProcesses EXCEPT ![SlotOf(c)] = FALSE]
    /\ step' = [step EXCEPT ![c] = "select"]
    /\ UNCHANGED <<vars, successCount, keepOneStateOnNode, timeUp, lastStateId,
                   states, m_succeeded, g_s2e_state, history>>

\* The child's onProcessFork.
onProcessFork(c) ==
    /\ phase[c] = "running" /\ step[c] = "postfork"
    /\ successCount' = [successCount EXCEPT ![SlotOf(c)] = Cardinality(m_succeeded[c])]
    /\ commands' = [commands EXCEPT ![SlotOf(c)] = EMPTY]
    /\ suspendedProcesses' = [suspendedProcesses EXCEPT ![SlotOf(c)] = FALSE]
    /\ step' = [step EXCEPT ![c] = "select"]
    /\ UNCHANGED <<vars, keepOneStateOnNode, timeUp, lastStateId, states, m_succeeded,
                   g_s2e_state, history>>

resetTimeout(v) == [v EXCEPT !.timeUp = FALSE]

\* selectNextState with the first critical section of sm_callback.  Where the
\* time is up, killOnTimeOut may still miss it: m_currentTime is a second old.
SelectNextState(p) ==
    /\ phase[p] = "running"
    /\ \/ step[p] = "exec" /\ ~ CanBalance(p)
       \/ step[p] = "select"
    /\ \E v \in processCommands(View(p)) :
          \/ /\ v.thrown \/ (v.states = {} /\ v.succeeded = {})
             /\ Reschedule(p, v)
             /\ UNCHANGED killIssued
          \/ /\ ~ v.thrown /\ v.states = {} /\ v.succeeded # {}
             /\ Continue(p, v, "suspending")
             /\ UNCHANGED killIssued
          \/ /\ ~ v.thrown /\ v.states # {}
             /\ Reschedule(p, v)
             /\ UNCHANGED killIssued
          \/ /\ ~ v.thrown /\ v.states # {} /\ v.timeUp
             /\ \E w \in killAllButOneSuccessful(resetTimeout(v)) :
                  /\ Reschedule(p, w)
                  /\ killIssued' = (killIssued \/ w # resetTimeout(v))
    /\ UNCHANGED <<vars, lastStateId, finished>>

\* suspendCurrentProcess up to its loop.
Suspend(p) ==
    /\ step[p] = "suspending"
    /\ suspendedProcesses' = [suspendedProcesses EXCEPT ![SlotOf(p)] = TRUE]
    /\ step' = [step EXCEPT ![p] = "suspended"]
    /\ UNCHANGED <<vars, successCount, commands, keepOneStateOnNode, timeUp, lastStateId,
                   states, m_succeeded, g_s2e_state, history>>

getSuspendedProcessCount == Cardinality({i \in Slot : suspendedProcesses[i]})

resumeAllProcesses(v) == [v EXCEPT !.suspended = [i \in Slot |-> FALSE]]

\* Mutant of Poll: the suspended processes are compared with all slots.
Poll_ExpectsAllSlots(p) ==
    /\ step[p] = "suspended"
    /\ \/ /\ ~ suspendedProcesses[SlotOf(p)]
          /\ Continue(p, View(p), "woken")
          /\ UNCHANGED killIssued
       \/ /\ suspendedProcesses[SlotOf(p)]
          /\ getSuspendedProcessCount = MaxProcesses
          /\ \E v \in killAllButOneSuccessful(resumeAllProcesses(View(p))) :
               IF v.thrown THEN Reschedule(p, v) ELSE Continue(p, v, "woken")
          /\ killIssued' = TRUE
    /\ UNCHANGED <<vars, lastStateId, finished>>

\* One turn of the loop of suspendCurrentProcess that ends it.
Poll(p) ==
    /\ step[p] = "suspended"
    /\ \/ /\ ~ suspendedProcesses[SlotOf(p)]
          /\ Continue(p, View(p), "woken")
          /\ UNCHANGED killIssued
       \/ /\ suspendedProcesses[SlotOf(p)]
          /\ getSuspendedProcessCount = currentProcessCount
          /\ \E v \in killAllButOneSuccessful(resumeAllProcesses(View(p))) :
               IF v.thrown THEN Reschedule(p, v) ELSE Continue(p, v, "woken")
          /\ killIssued' = TRUE
    /\ UNCHANGED <<vars, lastStateId, finished>>

\* The last critical section of sm_callback, after the wait.
Woken(p) ==
    /\ step[p] = "woken"
    /\ \E v \in processCommands(View(p)) : Reschedule(p, v)
    /\ UNCHANGED <<vars, lastStateId, history>>

\* exit(0): ~StateManager, then the rest of ~S2E.
DestroyStateManager(p) ==
    /\ step[p] = "exiting"
    /\ successCount' = [successCount EXCEPT
                          ![SlotOf(p)] = @ - Cardinality(m_succeeded[p])]
    /\ keepOneStateOnNode' =
           IF keepOneStateOnNode = SlotOf(p) THEN None ELSE keepOneStateOnNode
    /\ m_succeeded' = [m_succeeded EXCEPT ![p] = {}]
    /\ step' = [step EXCEPT ![p] = "destroyed"]
    /\ UNCHANGED <<vars, commands, suspendedProcesses, timeUp, lastStateId, states,
                   g_s2e_state, history>>

Exit(p) ==
    /\ step[p] = "destroyed"
    /\ Close(p)
    /\ step' = [step EXCEPT ![p] = "exec"]
    /\ UNCHANGED <<smShared, lastStateId, states, m_succeeded, g_s2e_state, history>>

\* Every process has exited.
Terminated == Alive = {} /\ UNCHANGED allVars

SMNext ==
    \/ \E p \in Pid : \/ ForkState(p)
                      \/ FinishState(p)
                      \/ SucceedState(p)
                      \/ NewBlockCovered(p)
                      \/ BalanceStart(p)
                      \/ BalanceFailed(p)
                      \/ ChildStep(p)
                      \/ onProcessFork(p)
                      \/ SelectNextState(p)
                      \/ Suspend(p)
                      \/ Poll(p)
                      \/ Woken(p)
                      \/ DestroyStateManager(p)
                      \/ Exit(p)
    \/ \E p, c \in Pid : BalanceFork(p, c)
    \/ Tick
    \/ Terminated

\* Every process is scheduled by the operating system, the timer is rearmed by
\* every callback and the waiting loop polls every second, so a process that
\* can take one of these steps takes it in the end.  Nothing is assumed of the
\* guest: it may run forever.
Fairness ==
    \A p \in Pid :
        /\ WF_allVars(BalanceFailed(p) \/ \E c \in Pid : BalanceFork(p, c))
        /\ WF_allVars(ChildStep(p) \/ onProcessFork(p))
        /\ WF_allVars(Suspend(p) \/ Poll(p) \/ Woken(p))
        /\ WF_allVars(DestroyStateManager(p) \/ Exit(p))
        /\ WF_allVars(SelectNextState(p) /\ step[p] = "select")

SMSpec == SMInit /\ [][SMNext]_allVars

FairSMSpec == SMSpec /\ Fairness

-----------------------------------------------------------------------------
\* p runs and, if it is a child, its onProcessFork is over.
Live(p) == phase[p] = "running" /\ step[p] # "postfork"

\* The shared records and the local state of every process are of their kind;
\* in particular the atomic decrements of successCount never go below zero.
SMTypeOK ==
    /\ TypeOK
    /\ successCount \in [Slot -> 0 .. MaxStateId]
    /\ commands \in [Slot -> {EMPTY, Everyone} \cup Slot]
    /\ suspendedProcesses \in [Slot -> BOOLEAN]
    /\ keepOneStateOnNode \in {None} \cup Slot
    /\ timeUp \in BOOLEAN
    /\ lastStateId \in 1 .. MaxStateId
    /\ states \in [Pid -> SUBSET StateId]
    /\ m_succeeded \in [Pid -> SUBSET StateId]
    /\ g_s2e_state \in [Pid -> StateId \cup {NoState}]
    /\ step \in [Pid -> Step]
    /\ finished \subseteq StateId
    /\ killIssued \in BOOLEAN

\* What a slot says of the successful states is what its process has, and a
\* slot without a process says nothing: the assert of checkInvariants.
SuccessCountExact ==
    /\ \A p \in Pid : Live(p) => successCount[SlotOf(p)] = Cardinality(m_succeeded[p])
    /\ \A i \in FreeSlots : successCount[i] = 0

\* A process that will find a KILL with its own slot is the one that
\* keepOneStateOnNode names, whatever kills other processes have decided since:
\* the assert of processCommands.
KillNamesKeeper ==
    \A p \in Pid :
        Live(p) /\ step[p] \notin {"exiting", "destroyed"} /\ commands[SlotOf(p)] = SlotOf(p)
            => keepOneStateOnNode = SlotOf(p)

\* A process finds all processes suspended only when each one really waits in
\* suspendCurrentProcess: none runs, is being forked or is exiting.
AllSuspendedIsQuiet ==
    getSuspendedProcessCount = currentProcessCount =>
        \A p \in Alive : step[p] = "suspended"

\* No state can run in two processes at once, though load balancing copies all
\* of them into the child.
PathsRunOnce ==
    \A p, q \in Alive : p # q => states[p] \cap states[q] = {}

\* Until a kill is decided no path is lost: load balancing, suspension and
\* the exit of processes keep every state that has not ended.
NoPathLost ==
    ~ killIssued =>
        0 .. lastStateId - 1 = finished \cup UNION {states[p] \cup m_succeeded[p] : p \in Alive}

\* The kills never kill everything: all processes are gone only after some
\* state has run to its end.
NotAllKilled == Alive = {} => finished # {}

\* Every process waits in suspendCurrentProcess or is exiting.
Quiet == /\ Alive # {}
         /\ \A p \in Alive : step[p] \in {"suspending", "suspended", "exiting", "destroyed"}

\* When every process waits or exits, somebody is woken or all are gone: the
\* loop of suspendCurrentProcess does not keep everybody waiting for everybody.
WaitersResume == Quiet ~> ~ Quiet
=============================================================================
