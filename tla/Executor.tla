------------------------------ MODULE Executor ------------------------------
(***************************************************************************)
(* The execution states of one S2E process: the set of states, the         *)
(* searcher, the process tree, and the states that are terminated and not  *)
(* yet freed.  Every operation ends with updateStates, so addedStates and  *)
(* removedStates are empty between two actions and live in a view only.    *)
(***************************************************************************)
EXTENDS PTree, FiniteSetsExt

CONSTANTS MaxStateId,     \* bound on the number of states, for model checking
          ConcolicMode,   \* option: forks go through concolicFork
          UseMaxDepth     \* option max-depth is set, and any fork may reach it

ASSUME ExecutorAssumption ==
    MaxStateId \in Nat \ {0} /\ ConcolicMode \in BOOLEAN /\ UseMaxDepth \in BOOLEAN

VARIABLES states, searcher,
          tree, ptreeNode,    \* processTree, and the leaf of each state
          suspended,          \* states that StateManager has suspended
          speculative,        \* states whose path condition is not yet checked
          m_deletedStates,    \* terminated, not freed
          freed,              \* history: the states freed so far
          g_s2e_state, lastStateId,
          mode,               \* "exec", "selecting" (in selectNextState), "exited"
          aborted             \* the assert that failed, or "no"

vars == <<states, searcher, tree, ptreeNode, suspended, speculative,
          m_deletedStates, freed, g_s2e_state, lastStateId, mode, aborted>>

StateId == 0 .. MaxStateId - 1

\* A fork makes two nodes; the node of the initial state is 1.
LeftNode(s) == 2 * s
RightNode(s) == 2 * s + 1

Init ==
    /\ states = {0} /\ searcher = {0}
    /\ tree = NewTree(1) /\ ptreeNode = [s \in {0} |-> 1]
    /\ suspended = {} /\ speculative = {}
    /\ m_deletedStates = {} /\ freed = {}
    /\ g_s2e_state = 0 /\ lastStateId = 1
    /\ mode = "exec" /\ aborted = "no"

-----------------------------------------------------------------------------
(* The functions of the executor, on a view of its state.                   *)

View ==
    [states |-> states, searcher |-> searcher, added |-> {}, removed |-> {},
     tree |-> tree, ptreeNode |-> ptreeNode, suspended |-> suspended,
     speculative |-> speculative, deleted |-> m_deletedStates,
     lastStateId |-> lastStateId, aborted |-> aborted]

Install(view) ==
    \E x \in {view} :
        /\ states' = x.states /\ searcher' = x.searcher
        /\ tree' = x.tree /\ ptreeNode' = x.ptreeNode
        /\ suspended' = x.suspended /\ speculative' = x.speculative
        /\ m_deletedStates' = x.deleted
        /\ lastStateId' = x.lastStateId
        /\ aborted' = x.aborted

\* A failed assert ends the process; the first one counts.
Check(x, holds, name) ==
    IF holds \/ x.aborted # "no" THEN x ELSE [x EXCEPT !.aborted = name]

deleteState(x, s) ==
    LET y == Check(x, s \in DOMAIN x.ptreeNode, "deleted twice") IN
    IF y.aborted # "no" THEN y
    ELSE [y EXCEPT !.tree = remove(x.tree, x.ptreeNode[s]),
                   !.ptreeNode = [r \in DOMAIN x.ptreeNode \ {s} |-> x.ptreeNode[r]],
                   !.deleted = @ \cup {s},
                   !.speculative = @ \ {s}]

\* Mutant of updateStates: the searcher is not told of the removed states.
updateStates_SearcherKeeps(x) ==
    LET y == Check(x, x.removed \subseteq x.states \cup x.added, "removed unknown state")
        z == [y EXCEPT !.searcher = @ \cup x.added,
                       !.states = (@ \cup x.added) \ x.removed,
                       !.added = {}, !.removed = {}]
    IN FoldSet(LAMBDA s, acc : deleteState(acc, s), z, x.removed)

updateStates(x) ==
    LET y == Check(Check(x, x.removed \subseteq x.searcher \cup x.added, "invalid state removed"),
                   x.removed \subseteq x.states \cup x.added, "removed unknown state")
        z == [y EXCEPT !.searcher = (@ \cup x.added) \ x.removed,
                       !.states = (@ \cup x.added) \ x.removed,
                       !.added = {}, !.removed = {}]
    IN FoldSet(LAMBDA s, acc : deleteState(acc, s), z, x.removed)

suspendState(x, s) ==
    LET y == Check(x, s \in x.searcher /\ s \in x.states, "suspended unknown state") IN
    [y EXCEPT !.searcher = @ \ {s}, !.states = @ \ {s},
              !.suspended = @ \cup {s},
              !.tree = deactivate(@, x.ptreeNode[s])]

resumeState(x, s) ==
    [x EXCEPT !.searcher = @ \cup {s}, !.states = @ \cup {s}, !.suspended = @ \ {s},
              !.tree = activate(@, x.ptreeNode[s])]

resumeAll(x) == FoldSet(LAMBDA s, acc : resumeState(acc, s), x, x.suspended)

\* terminateStateAtFork, without the exception that terminateState throws
\* when s is the current state.
terminateState(x, s) ==
    LET y == IF s \in x.suspended THEN resumeState(x, s) ELSE x IN
    IF s \in y.added
    THEN deleteState([y EXCEPT !.added = @ \ {s}], s)
    ELSE [y EXCEPT !.removed = @ \cup {s}]

terminateAll(x, kill) == FoldSet(LAMBDA s, acc : terminateState(acc, s), x, kill)

\* es->branch() and the split of its leaf, left to the new state.
branchOnce(x, es) ==
    LET ns == x.lastStateId
        y == Check(x, CanSplit(x.tree, x.ptreeNode[es]), "split")
    IN [y EXCEPT !.added = @ \cup {ns},
                 !.lastStateId = ns + 1,
                 !.tree = split(@, x.ptreeNode[es], LeftNode(ns), RightNode(ns)),
                 !.ptreeNode = [r \in DOMAIN @ \cup {ns} |->
                                   CASE r = ns -> LeftNode(ns)
                                     [] r = es -> RightNode(ns)
                                     [] OTHER -> @[r]]]

-----------------------------------------------------------------------------
(* What the current state does.  It runs until the timer fires, unless it   *)
(* has been terminated (s2e_is_runnable).                                   *)

Runs == /\ mode = "exec" /\ aborted = "no"
        /\ g_s2e_state \notin m_deletedStates

\* An action that leaves the choice of the current state alone.
Become(x) == Install(x) /\ UNCHANGED <<g_s2e_state, freed, mode>>

\* Executor::fork where both outcomes are feasible.
Fork ==
    /\ Runs
    /\ ~ ConcolicMode
    /\ lastStateId < MaxStateId
    /\ Become(updateStates(branchOnce(View, g_s2e_state)))

\* Executor::concolicFork: the new state is speculative.
ConcolicFork ==
    /\ Runs
    /\ ConcolicMode
    /\ lastStateId < MaxStateId
    /\ Become(updateStates([branchOnce(View, g_s2e_state) EXCEPT
                               !.speculative = @ \cup {lastStateId}]))

\* Executor::branch into three: the second new state splits off any of the
\* first two.
Branch ==
    /\ Runs
    /\ lastStateId + 1 < MaxStateId
    /\ \E es \in {g_s2e_state, lastStateId} :
          Become(updateStates(branchOnce(branchOnce(View, g_s2e_state), es)))

\* A fork at the maximum depth terminates both states, the one where the
\* condition is true first.  Terminating the current state throws, and
\* executeOneInstruction asserts that nothing was added by then.
ForkAtMaxDepth ==
    /\ Runs
    /\ UseMaxDepth /\ ~ ConcolicMode
    /\ lastStateId < MaxStateId
    /\ LET x == branchOnce(View, g_s2e_state) IN
       \/ LET y == terminateState(x, g_s2e_state) IN
          Become(updateStates(Check(y, y.added = {}, "fork interrupted")))
       \/ Become(updateStates(
              terminateState(terminateState(x, lastStateId), g_s2e_state)))

\* S2EExecutor::terminateState on the current state.
TerminateCurrent ==
    /\ Runs
    /\ Become(updateStates(terminateState(View, g_s2e_state)))

\* Over the memory limit some states are terminated; it stops when it is the
\* turn of the current one.
KillForMemory ==
    /\ Runs
    /\ \E kill \in SUBSET states \ {{}} : Become(updateStates(terminateAll(View, kill)))

\* StateManager::succeedState.
Succeed ==
    /\ Runs
    /\ g_s2e_state \notin suspended
    /\ Become(suspendState(View, g_s2e_state))

-----------------------------------------------------------------------------
(* The timer: doLoadBalancing, then selectNextState.                        *)

\* doLoadBalancing after a fork that succeeded, in the parent or in the child:
\* each terminates, without an exception, the half that the other keeps.
LoadBalance ==
    /\ mode = "exec" /\ aborted = "no"
    /\ Cardinality(states) >= 2
    /\ LET half == Cardinality(states) \div 2 IN
       \E kill \in kSubset(half, states) \cup kSubset(Cardinality(states) - half, states) :
          Install(updateStates(terminateAll(View, kill)))
    /\ UNCHANGED <<g_s2e_state, freed, mode>>

\* What sm_callback may do: nothing; kill everything that can run; or resume
\* what is suspended and kill all, or all but one that was suspended.
StateManagerCallback(x) ==
    {x, terminateAll(x, x.states)} \cup
    {terminateAll(resumeAll(x), (x.states \cup x.suspended) \ keep) :
        keep \in {{}} \cup {{s} : s \in x.suspended}}

\* The first half, up to the second updateStates.  With nothing to run and
\* something suspended the callback waits until a kill resumes it.
SelectNextState ==
    /\ mode = "exec" /\ aborted = "no"
    /\ \E x \in StateManagerCallback(updateStates(View)) :
          /\ x.states = {} => x.suspended = {}
          /\ Install(updateStates(x))
    /\ mode' = "selecting"
    /\ UNCHANGED <<g_s2e_state, freed>>

\* Mutant of SwitchTo: the terminated states are not freed.
SwitchTo_NoFree(s) ==
    /\ g_s2e_state' = s
    /\ mode' = "exec"
    /\ UNCHANGED <<states, searcher, tree, ptreeNode, suspended, lastStateId,
                   m_deletedStates, freed, aborted>>

\* selectNextState from doStateSwitch on: the terminated states are freed, and
\* none of them is the new one.
SwitchTo(s) ==
    /\ g_s2e_state' = s
    /\ mode' = "exec"
    /\ freed' = freed \cup m_deletedStates
    /\ m_deletedStates' = {}
    /\ aborted' = Check(View, s \in states /\ s \notin m_deletedStates, "selected deleted state").aborted
    /\ UNCHANGED <<states, searcher, tree, ptreeNode, suspended, lastStateId>>

\* selectNonSpeculativeState finds a state, checked where it is speculative.
SelectState ==
    /\ mode = "selecting" /\ aborted = "no"
    /\ \E s \in searcher :
          /\ SwitchTo(s)
          /\ speculative' = speculative \ {s}

\* The state it finds has an infeasible path.
DropInfeasible ==
    /\ mode = "selecting" /\ aborted = "no"
    /\ \E s \in searcher \cap speculative :
          Become(updateStates(terminateState(View, s)))

\* The searcher is empty: everything terminated is freed, then exit(0).
ExitProcess ==
    /\ mode = "selecting" /\ aborted = "no"
    /\ searcher = {}
    /\ freed' = freed \cup m_deletedStates
    /\ m_deletedStates' = {}
    /\ mode' = "exited"
    /\ UNCHANGED <<states, searcher, tree, ptreeNode, suspended, speculative,
                   g_s2e_state, lastStateId, aborted>>

Ended == (mode = "exited" \/ aborted # "no") /\ UNCHANGED vars

Next ==
    \/ Fork \/ ConcolicFork \/ Branch \/ ForkAtMaxDepth
    \/ TerminateCurrent \/ KillForMemory \/ Succeed
    \/ LoadBalance \/ SelectNextState \/ SelectState \/ DropInfeasible \/ ExitProcess
    \/ Ended

Spec == Init /\ [][Next]_vars

\* The process has nothing to run, and waits for a kill in sm_callback.
Waits == states = {} /\ suspended # {}

\* The timer is armed again at the end of every callback, and the loop that
\* selects a state ends, as no state is checked twice.  The two conditions
\* name the steps by what they change: only SelectNextState takes mode from
\* "exec" to "selecting", only SelectState and ExitProcess take it on.
Fairness ==
    /\ WF_mode(mode = "exec" /\ aborted = "no" /\ ~ Waits /\ mode' = "selecting")
    /\ WF_mode(mode = "selecting" /\ aborted = "no" /\ mode' \in {"exec", "exited"})

-----------------------------------------------------------------------------
\* The searcher offers exactly the states of the executor, and a state is
\* runnable, suspended, terminated or freed, never two of these: no
\* interleaving of forks, suspensions, kills and resumptions lets a dead or
\* suspended state be selected, loses one, or frees the state that runs.  The
\* asserts of updateStates, the searcher, suspendState, deleteState and
\* selectNextState hold; those of split and of executeOneInstruction are below.
StatesPartitioned ==
    /\ aborted \in {"no", "split", "fork interrupted"}
    /\ mode # "exited" => g_s2e_state \notin freed
    /\ aborted = "no" =>
        /\ searcher = states
        /\ 0 .. lastStateId - 1 = states \cup suspended \cup m_deletedStates \cup freed
        /\ states \cap suspended = {}
        /\ (states \cup suspended) \cap (m_deletedStates \cup freed) = {}
        /\ m_deletedStates \cap freed = {}

\* A node of the process tree is active exactly when a state that can run is
\* below it, after any sequence of splits, removals, suspensions and
\* resumptions: the asserts of RandomPathSearcher::selectState hold and it only
\* returns states that can run.
TreeActiveExact ==
    aborted = "no" =>
        LET leaves == {ptreeNode[s] : s \in DOMAIN ptreeNode} IN
        /\ leaves = {n \in Nodes(tree) : IsLeaf(tree, n)}
        /\ \A s \in DOMAIN ptreeNode : ptreeNode[s] \in tree.active <=> s \in states
        /\ \A n \in Nodes(tree) \ leaves :
              n \in tree.active <=> Children(tree, n) \cap tree.active # {}

\* A terminated state is freed in the end, unless the process waits for the
\* other processes with suspended states only.
TerminatedFreed ==
    \A s \in StateId :
        s \in m_deletedStates ~>
            (s \in freed \/ aborted # "no" \/ Waits)

\* PTree::split asserts that the leaf it splits is active.
SplitsActiveNode == aborted # "split"

\* executeOneInstruction: an instruction that forks is never interrupted.
ForkNotInterrupted == aborted # "fork interrupted"
=============================================================================
