------------------------- MODULE StateManagerProofs --------------------------
(***************************************************************************)
(* The safety of StateManager, for any number of processes, slots and      *)
(* states.                                                                 *)
(***************************************************************************)
EXTENDS StateManagerOne, ProcessTableProofs, WellFoundedInduction

\* A lowest slot exists in every set of slots that is not empty.
LEMMA MinSlot ==
    ASSUME NEW S, S \subseteq Slot, S # {}
    PROVE  Min(S) \in S
<1>1. S \subseteq Nat /\ Slot \subseteq Nat
  BY MaxProcessesAssumption DEF Slot
<1> DEFINE R == OpToRel(<, Nat)
<1>2. IsWellFoundedOn(R, Nat)
  BY NatLessThanWellFounded, Zenon
<1>3. \A x, y \in Nat : y < x => <<y, x>> \in R
  BY Zenon DEF OpToRel
<1> HIDE DEF R
<1>4. PICK x \in S : \A y \in S : ~ (<<y, x>> \in R)
  BY <1>1, <1>2, WFMin, ZenonT(30)
<1>5. \A y \in S : ~ (y < x)
  BY <1>1, <1>3, <1>4, ZenonT(30)
<1>6. \A y \in S : x =< y
  BY <1>1, <1>5, SMTT(40)
<1> QED BY <1>6, Zenon DEF Min

\* The number of states in a set of them.
LEMMA StateSets ==
    ASSUME NEW S \in SUBSET StateId
    PROVE  /\ IsFiniteSet(S) /\ Cardinality(S) \in 0 .. MaxStateId
           /\ Cardinality(S) = 0 <=> S = {}
<1>1. IsFiniteSet(StateId) /\ Cardinality(StateId) = MaxStateId
  BY MaxStateIdAssumption, FS_Interval, SMTT(40) DEF StateId
<1>2. IsFiniteSet(S) /\ Cardinality(S) \in Nat /\ Cardinality(S) <= Cardinality(StateId)
  BY <1>1, SubsetCardinality, Zenon
<1>3. Cardinality(S) = 0 <=> S = {}
  BY <1>2, FS_EmptySet, ZenonT(30)
<1> QED BY <1>1, <1>2, <1>3, MaxStateIdAssumption, SMTT(40)

\* Hence the facts about sizes and lowest slots that the steps rest on.
LEMMA SetFactsHold == SetFacts
<1>1. Cardinality({}) = 0
  BY FS_EmptySet, Zenon
<1>2. \A S \in SUBSET StateId : /\ Cardinality(S) \in 0 .. MaxStateId
                                /\ Cardinality(S) = 0 <=> S = {}
  BY StateSets, Zenon
<1>3. ASSUME NEW S \in SUBSET StateId, NEW s \in S
      PROVE  Cardinality(S \ {s}) = Cardinality(S) - 1
  BY StateSets, FS_RemoveElement, Zenon
<1>4. \A S \in SUBSET Slot : S # {} => Min(S) \in S
  BY MinSlot, Zenon
<1> QED BY <1>1, <1>2, <1>3, <1>4, ZenonT(30) DEF SetFacts

-----------------------------------------------------------------------------
(* StateManager and the process table. *)

\* A step of StateManager forks, registers or closes a process as S2E does, or
\* leaves the table alone.
LEMMA TableStep == [SMNext]_allVars => [Next]_vars
<1> SUFFICES ASSUME [SMNext]_allVars PROVE [Next]_vars
  BY Zenon
<1>1. CASE \E p \in Pid : BalanceStart(p) \/ BalanceFailed(p) \/ ChildStep(p) \/ Exit(p)
  BY <1>1, ZenonT(30) DEF BalanceStart, BalanceFailed, ChildStep, Exit, Next
<1>2. CASE \E p, c \in Pid : BalanceFork(p, c)
  BY <1>2, ZenonT(30) DEF BalanceFork, Next
<1>3. CASE \E p \in Pid : \/ ForkState(p) \/ FinishState(p) \/ SucceedState(p)
                          \/ NewBlockCovered(p) \/ onProcessFork(p) \/ Suspend(p)
                          \/ DestroyStateManager(p)
  BY <1>3, ZenonT(30) DEF ForkState, FinishState, SucceedState, NewBlockCovered, onProcessFork, Suspend,
                     DestroyStateManager
<1>4. CASE \E p \in Pid : SelectNextState(p) \/ Poll(p) \/ Woken(p)
  BY <1>4, ZenonT(30) DEF SelectNextState, Poll, Woken
<1>5. CASE Tick \/ Terminated \/ UNCHANGED allVars
  BY <1>5, Zenon DEF Tick, Terminated, allVars
<1> QED BY <1>1, <1>2, <1>3, <1>4, <1>5, ZenonT(30) DEF SMNext

\* StateManager and the load balancer use the process table as S2E::fork and ~S2E
\* allow: every behaviour of theirs is one of the table.
THEOREM ImplementsTable == SMSpec => Spec
<1>1. SMInit => Init
  BY Zenon DEF SMInit
<1> QED BY <1>1, TableStep, PTL DEF SMSpec, Spec

\* The inductive invariant holds in every reachable state.
THEOREM StateManagerInvariant == SMSpec => []SMBase
<1>1. SMInit /\ IInv => SMBase
  BY SetFactsHold, InitBase, Zenon
<1>2. SMBase /\ IInv' /\ [SMNext]_allVars => SMBase'
  BY SetFactsHold, NextBase, Zenon
<1> QED BY <1>1, <1>2, ImplementsTable, Invariance, PTL DEF SMSpec

\* The shared records are of their kind, for any number of processes and states:
\* the decrements of successCount never go below zero.
THEOREM SharedTypeCorrect == SMSpec => []SMTypeOK
<1>1. SMBase => SMTypeOK
  BY Zenon DEF SMBase
<1> QED BY <1>1, StateManagerInvariant, PTL

\* The assert of checkInvariants: what a slot says of the successful states of its
\* process is exact, and a free slot says nothing.
THEOREM CountsAreExact == SMSpec => []SuccessCountExact
<1>1. SMBase => SuccessCountExact
  BY SetFactsHold, RunningHolds, Zenon DEF SMBase, Counts, SuccessCountExact, Live
<1> QED BY <1>1, StateManagerInvariant, PTL

\* When as many slots are marked as processes are counted, every slot in use is
\* marked and no process is being forked.
LEMMA FlaggedSlots ==
    ASSUME SMBase, SetFacts, getSuspendedProcessCount = currentProcessCount
    PROVE  Pending = {} /\ {i \in Slot : suspendedProcesses[i]} = UsedSlots
<1> DEFINE flagged == {i \in Slot : suspendedProcesses[i]}
<1>1. flagged \in SUBSET UsedSlots
  BY HolderSlots DEF SMBase, Flags
<1>2. /\ IsFiniteSet(UsedSlots) /\ Cardinality(UsedSlots) \in Nat
      /\ IsFiniteSet(Pending) /\ Cardinality(Pending) \in Nat
  BY Finite, Zenon
<1>3. /\ Cardinality(flagged) \in Nat /\ Cardinality(flagged) <= Cardinality(UsedSlots)
      /\ Cardinality(flagged) = Cardinality(UsedSlots) => flagged = UsedSlots
  BY <1>1, <1>2, SubsetCardinality, FS_Subset, ZenonT(30)
<1>4. /\ Cardinality(flagged) = currentProcessCount
      /\ currentProcessCount >= Cardinality(UsedSlots) + Cardinality(Pending)
  BY Zenon DEF SMBase, IInv, Counted, getSuspendedProcessCount
<1>5. Cardinality(Pending) = 0 /\ Cardinality(flagged) = Cardinality(UsedSlots)
  <2> HIDE DEF flagged
  <2>1. currentProcessCount \in Nat
    BY <1>3, <1>4, Zenon
  <2> QED BY <1>2, <1>3, <1>4, <2>1, SMTT(40)
<1>6. Pending = {} /\ flagged = UsedSlots
  BY <1>2, <1>3, <1>5, FS_EmptySet, ZenonT(30)
<1> QED BY <1>6, Zenon

\* When as many processes are suspended as there are, every process waits with
\* its flag set.
LEMMA AllWait ==
    ASSUME SetFacts, SMBase, getSuspendedProcessCount = currentProcessCount, NEW p \in Alive
    PROVE  p \in Holders /\ step[p] = "suspended" /\ suspendedProcesses[SlotOf(p)]
<1> DEFINE flagged == {i \in Slot : suspendedProcesses[i]}
<1>6. Pending = {} /\ flagged = UsedSlots
  BY FlaggedSlots, Zenon
<1>7. p \in Owners /\ p \in Pid /\ SlotOf(p) \in Slot /\ m_currentProcessIndex[p] \in Nat
  <2>1. p \in Pid /\ phase[p] \in Phase \ {"absent", "aborted", "reserved", "born"}
    BY <1>6, ZenonT(30) DEF Alive, Pending, SMBase, IInv, TypeOK
  <2> QED BY <2>1, ZenonT(30) DEF Owners, Phase, SMBase, IInv, TypeOK, SlotOf
<1>8. SlotOf(p) \in UsedSlots
  <2>1. processIds[SlotOf(p)] \in Nat
    BY <1>7, Zenon DEF SMBase, IInv, SlotOwned, SlotOf
  <2> QED BY <1>7, <2>1, SMTT(40) DEF UsedSlots, FreeSlots, None
<1>9. suspendedProcesses[SlotOf(p)]
  BY <1>6, <1>8, Zenon
<1>10. PICK q \in Holders : SlotOf(q) = SlotOf(p) /\ step[q] = "suspended"
  BY <1>7, <1>9, ZenonT(30) DEF SMBase, Flags
<1>11. q = p
  BY <1>7, <1>10, ZenonT(30) DEF Holders, SMBase, IInv, SlotOwned, SlotOf
<1> QED BY <1>9, <1>10, <1>11, ZenonT(30)

\* Then every slot in use is marked.
LEMMA AllFlagged ==
    ASSUME SetFacts, SMBase
    PROVE  AllWaiting
<1> SUFFICES ASSUME getSuspendedProcessCount = currentProcessCount
             PROVE  \A i \in UsedSlots : suspendedProcesses[i]
  BY AllWait, Zenon DEF AllWaiting, Flag
<1> DEFINE flagged == {i \in Slot : suspendedProcesses[i]}
<1>1. flagged = UsedSlots
  BY FlaggedSlots, Zenon
<1> QED BY <1>1, Zenon

\* The test of suspendCurrentProcess is right: when it finds all processes
\* suspended, no process runs, is being forked or is exiting.
THEOREM SuspendedMeansQuiet == SMSpec => []AllSuspendedIsQuiet
<1>1. SMBase => AllSuspendedIsQuiet
  BY SetFactsHold, AllWait, Zenon DEF AllSuspendedIsQuiet
<1> QED BY <1>1, StateManagerInvariant, PTL

\* The assert of processCommands: who reads a KILL with its own slot is the node
\* that keepOneStateOnNode names, whatever kills were decided in between.
THEOREM KillsNameTheKeeper == SMSpec => []KillNamesKeeper
<1>1. SMInit /\ SMBase => KeeperInv
  BY SetFactsHold, InitKeeper, Zenon
<1>2. SMBase /\ IInv' /\ KeeperInv /\ [SMNext]_allVars => KeeperInv'
  BY SetFactsHold, NextKeeper, Zenon
<1>3. SMBase => IInv
  BY Zenon DEF SMBase
<1>4. SMBase /\ KeeperInv => KillNamesKeeper
  BY SetFactsHold, KeeperNamed, Zenon
<1> QED BY <1>1, <1>2, <1>3, <1>4, StateManagerInvariant, PTL DEF SMSpec

\* Until a kill is decided no path is lost: load balancing, suspension and the exit
\* of processes keep every state that has not ended, for any number of processes.
THEOREM PathsAreKept == SMSpec => []NoPathLost
<1>1. SMInit => LossInv
  BY InitLoss, Zenon
<1>2. SMBase /\ SMBase' /\ LossInv /\ [SMNext]_allVars => LossInv'
  BY SetFactsHold, NextLoss, ZenonT(30)
<1>3. SMBase /\ LossInv => NoPathLost
  BY NothingLost, Zenon
<1> QED BY <1>1, <1>2, <1>3, StateManagerInvariant, PTL DEF SMSpec

\* Without the timeout OneInv is an invariant.
LEMMA OneHolds ==
    ASSUME ~ UseTimeout
    PROVE  SMSpec => [](SMBase /\ OneInv)
<1>1. SMInit /\ SMBase => OneInv
  BY SetFactsHold, InitOne, Zenon
<1>2. SMBase /\ IInv' /\ OneInv /\ [SMNext]_allVars => OneInv'
  BY SetFactsHold, AllFlagged, NextOne, Zenon
<1>3. SMBase => IInv
  BY Zenon DEF SMBase
<1> QED BY <1>1, <1>2, <1>3, StateManagerInvariant, PTL DEF SMSpec

\* Without the timeout a path is run by one process only: no kill, suspension or
\* load balancing gives a state to a process while another one may still run it.
THEOREM PathsAreRunOnce ==
    ASSUME ~ UseTimeout
    PROVE  SMSpec => []PathsRunOnce
<1>1. SMBase /\ OneInv => PathsRunOnce
  BY RunOnce, Zenon
<1> QED BY <1>1, OneHolds, PTL

\* Without the timeout the kills never kill everything: all processes are gone only
\* after some state has run to its end, however many processes decide and exit.
THEOREM SomePathSurvives ==
    ASSUME ~ UseTimeout
    PROVE  SMSpec => []NotAllKilled
<1>1. OneInv => NotAllKilled
  BY SomethingSurvives, Zenon
<1> QED BY <1>1, OneHolds, PTL
=============================================================================
