-------------------------- MODULE StateManagerPaths ---------------------------
(***************************************************************************)
(* What the processes do with their paths and with the commands they send  *)
(* each other, step by step: a KILL with its reader's slot comes from the  *)
(* node that is to keep a state (KeeperInv), and no path is lost before a  *)
(* kill (LossInv).                                                         *)
(***************************************************************************)
EXTENDS StateManagerSteps

-----------------------------------------------------------------------------
(* A KILL that names its reader. *)

\* KillNamesKeeper, in S2E::fork too.
KeeperInv ==
    \A p \in Holders :
        step[p] \notin {"exiting", "destroyed"} /\ commands[SlotOf(p)] = SlotOf(p)
            => keepOneStateOnNode = SlotOf(p)

\* Steps that send and read no command and end no process.
Calm ==
    \/ \E p \in Pid : \/ ForkState(p) \/ FinishState(p) \/ SucceedState(p)
                      \/ NewBlockCovered(p) \/ BalanceStart(p) \/ BalanceFailed(p)
                      \/ ChildStep(p) \/ Suspend(p)
    \/ \E p, c \in Pid : BalanceFork(p, c)
    \/ Tick
    \/ UNCHANGED allVars

\* They leave the holders and their slots as they are.
LEMMA CalmStep ==
    ASSUME SetFacts, SMBase, Calm
    PROVE  /\ UNCHANGED <<commands, keepOneStateOnNode, killIssued>>
           /\ Holders' = Holders
           /\ \A q \in Holders : /\ SlotOf(q)' = SlotOf(q)
                                 /\ step[q] \in {"exiting", "destroyed", "woken"} => step'[q] = step[q]
<1> USE DEF SMBase, SMTypeOK
<1>1. CASE \/ \E p \in Pid : ForkState(p) \/ FinishState(p) \/ SucceedState(p) \/ NewBlockCovered(p)
           \/ Tick \/ UNCHANGED allVars
  <2>1. UNCHANGED <<vars, step, commands, keepOneStateOnNode, killIssued>>
    BY <1>1, Zenon DEF ForkState, FinishState, SucceedState, NewBlockCovered, Tick, allVars, smVars,
                smShared, local, history
  <2>2. Owners' = Owners /\ \A q : SlotOf(q)' = SlotOf(q)
    BY <2>1, SameTable, Zenon
  <2> QED BY <2>1, <2>2, Zenon DEF Holders
<1>2. ASSUME NEW p \in Pid, BalanceStart(p) \/ BalanceFailed(p)
      PROVE  /\ UNCHANGED <<commands, keepOneStateOnNode, killIssued>>
             /\ Holders' = Holders
             /\ \A q \in Holders : /\ SlotOf(q)' = SlotOf(q)
                                   /\ step[q] \in {"exiting", "destroyed", "woken"} => step'[q] = step[q]
  <2>1. /\ UNCHANGED <<commands, keepOneStateOnNode, killIssued, m_currentProcessId>>
        /\ \E x \in {"running", "reserved"} : phase' = [phase EXCEPT ![p] = x]
        /\ \E x \in {"forking", "select"} : step' = [step EXCEPT ![p] = x]
        /\ phase[p] \in {"running", "reserved"} /\ step[p] \in {"exec", "forking"}
    BY <1>2, Zenon DEF BalanceStart, BalanceFailed, ForkReserve, ForkFailed, smShared, history
  <2> QED BY <2>1 DEF Holders, Owners, SlotOf, TypeOK
<1>3. ASSUME NEW c \in Pid, ChildStep(c)
      PROVE  /\ UNCHANGED <<commands, keepOneStateOnNode, killIssued, step>>
             /\ Holders' = Holders /\ \A q \in Holders : SlotOf(q)' = SlotOf(q)
  <2>1. /\ UNCHANGED <<commands, keepOneStateOnNode, killIssued, step>>
        /\ \A q \in Pid \ {c} : phase'[q] = phase[q] /\ m_currentProcessId'[q] = m_currentProcessId[q]
        /\ phase[c] \in {"born", "registered"}
    BY <1>3 DEF ChildStep, RegisterChild, InitOutputDirectory, smVars, smShared, history, local,
                TypeOK
  <2>2. step[c] = "postfork"
    BY <2>1, Zenon DEF Life, LifeOf
  <2> QED BY <2>1, <2>2, ZenonT(30) DEF Holders, Owners, SlotOf
<1>4. ASSUME NEW p \in Pid, Suspend(p)
      PROVE  /\ UNCHANGED <<commands, keepOneStateOnNode, killIssued>>
             /\ Holders' = Holders
             /\ \A q \in Holders : /\ SlotOf(q)' = SlotOf(q)
                                   /\ step[q] \in {"exiting", "destroyed", "woken"} => step'[q] = step[q]
  <2>1. /\ UNCHANGED <<commands, keepOneStateOnNode, killIssued, vars>>
        /\ step[p] = "suspending" /\ step' = [step EXCEPT ![p] = "suspended"]
    BY <1>4, Zenon DEF Suspend, history
  <2>2. Owners' = Owners /\ \A q : SlotOf(q)' = SlotOf(q)
    BY <2>1, SameTable, Zenon
  <2> QED BY <2>1, <2>2, Zenon DEF Holders, Owners
<1>5. ASSUME NEW p \in Pid, NEW c \in Pid, BalanceFork(p, c)
      PROVE  /\ UNCHANGED <<commands, keepOneStateOnNode, killIssued>>
             /\ Holders' = Holders
             /\ \A q \in Holders : /\ SlotOf(q)' = SlotOf(q)
                                   /\ step[q] \in {"exiting", "destroyed", "woken"} => step'[q] = step[q]
  <2>1. /\ UNCHANGED <<commands, keepOneStateOnNode, killIssued>> /\ p # c
        /\ phase[p] = "reserved" /\ phase[c] = "absent" /\ step[p] = "forking"
        /\ phase' = [phase EXCEPT ![p] = "running", ![c] = "born"]
        /\ step' = [step EXCEPT ![p] = "select", ![c] = "postfork"]
        /\ m_currentProcessId' = [m_currentProcessId EXCEPT ![c] = m_currentProcessId[p]]
    BY <1>5, Zenon DEF BalanceFork, ForkChild, smShared, history
  <2> QED BY <2>1, Zenon DEF Holders, Owners, SlotOf, TypeOK
<1> QED BY <1>1, <1>2, <1>3, <1>4, <1>5, ZenonT(30) DEF Calm

\* An outcome of sm_callback leaves them too.
LEMMA OutcomeHolders ==
    ASSUME SetFacts, SMBase, NEW p \in Holders, NEW L, NEW S, NEW K, NEW k, NEW f, NEW next,
           Outcome(p, L, S, K, k, f, next), Typed(p, L, S, K, k, f, next)
    PROVE  /\ Holders' = Holders /\ Alive' = Alive /\ \A q : SlotOf(q)' = SlotOf(q)
           /\ \A q \in Pid : /\ step'[q] = IF q = p THEN next ELSE step[q]
                             /\ states'[q] = IF q = p THEN L ELSE states[q]
                             /\ m_succeeded'[q] = IF q = p THEN S ELSE m_succeeded[q]
           /\ commands' = K /\ keepOneStateOnNode' = k /\ suspendedProcesses' = f
           /\ UNCHANGED <<lastStateId, finished>>
<1>1. /\ \A q \in Pid : /\ step'[q] = IF q = p THEN next ELSE step[q]
                        /\ states'[q] = IF q = p THEN L ELSE states[q]
                        /\ m_succeeded'[q] = IF q = p THEN S ELSE m_succeeded[q]
      /\ commands' = K /\ keepOneStateOnNode' = k /\ suspendedProcesses' = f
      /\ UNCHANGED <<vars, lastStateId, finished>>
  BY Zenon DEF Outcome, SMBase, SMTypeOK, Holders, Owners
<1>2. Owners' = Owners /\ phase' = phase /\ \A q : SlotOf(q)' = SlotOf(q)
  BY <1>1, SameTable, Zenon
<1>3. next # "postfork" /\ step[p] # "postfork" /\ p \in Owners
  BY Zenon DEF Typed, Holders
<1>4. Holders' = Holders
  BY <1>1, <1>2, <1>3, Zenon DEF Holders, Owners
<1>5. Alive' = Alive
  BY <1>2, Zenon DEF Alive
<1> QED BY <1>1, <1>2, <1>4, <1>5, Zenon

\* sm_callback keeps KeeperInv: the reader of a KILL clears it, and who sends one
\* names the keeper in keepOneStateOnNode at the same time.
LEMMA OutcomeKeeper ==
    ASSUME SetFacts, SMBase, KeeperInv, NEW p \in Holders, step[p] \notin {"exiting", "destroyed"},
           NEW L, NEW S, NEW K, NEW k, NEW f, NEW next,
           Outcome(p, L, S, K, k, f, next), Typed(p, L, S, K, k, f, next),
           \/ ReadOutcome(p, L, S, K, k)
           \/ KeepOutcome(p, L, S, K, k)
           \/ YieldOutcome(p, L, S, K, k) /\ K[SlotOf(p)] # SlotOf(p)
    PROVE  KeeperInv'
<1> SUFFICES ASSUME NEW q \in Holders, step'[q] \notin {"exiting", "destroyed"},
                    K[SlotOf(q)] = SlotOf(q)
             PROVE  k = SlotOf(q)
  BY OutcomeHolders DEF KeeperInv
<1>1. /\ p \in Pid /\ q \in Pid /\ SlotOf(p) \in Slot /\ SlotOf(q) \in Slot
      /\ SlotOf(q) = SlotOf(p) => q = p
      /\ commands \in [Slot -> {EMPTY, Everyone} \cup Slot]
  BY HolderSlots, Zenon DEF SMBase, SMTypeOK
<1>2. EMPTY \notin Slot /\ Everyone \notin Slot
  BY MaxProcessesAssumption, SMTT(40) DEF Slot, EMPTY, Everyone
<1>3. q # p => step'[q] = step[q]
  BY <1>1, OutcomeHolders
<1>4. CASE ReadOutcome(p, L, S, K, k)
  BY <1>1, <1>2, <1>3, <1>4, ZenonT(30) DEF ReadOutcome, KeeperInv
<1>5. CASE KeepOutcome(p, L, S, K, k)
  BY <1>1, <1>2, <1>3, <1>5, ZenonT(30) DEF KeepOutcome, KeeperInv
<1>6. CASE YieldOutcome(p, L, S, K, k) /\ K[SlotOf(p)] # SlotOf(p)
  BY <1>1, <1>6, Zenon DEF YieldOutcome
<1> QED BY <1>4, <1>5, <1>6, ZenonT(30)

\* The child's onProcessFork adds a holder that has no command and does not wait.
LEMMA ProcessForkFacts ==
    ASSUME SetFacts, SMBase, NEW c \in Pid, onProcessFork(c)
    PROVE  /\ step[c] = "postfork" /\ c \notin Holders /\ Holders' = Holders \cup {c}
           /\ c \in Alive /\ Alive' = Alive /\ \A q : SlotOf(q)' = SlotOf(q)
           /\ UNCHANGED <<keepOneStateOnNode, timeUp, lastStateId, states, m_succeeded,
                          finished, killIssued>>
           /\ \A q \in Pid : step'[q] = IF q = c THEN "select" ELSE step[q]
           /\ SlotOf(c) \in Slot /\ commands'[SlotOf(c)] = EMPTY
           /\ \A q \in Holders : /\ SlotOf(q) # SlotOf(c)
                                 /\ commands'[SlotOf(q)] = commands[SlotOf(q)]
                                 /\ suspendedProcesses'[SlotOf(q)] = suspendedProcesses[SlotOf(q)]
           /\ \A i \in Slot : commands'[i] = EMPTY \/ commands'[i] = commands[i]
<1>1. /\ Owners' = Owners /\ phase' = phase /\ \A q : SlotOf(q)' = SlotOf(q)
  BY SameTable, Zenon DEF onProcessFork
<1>2. /\ SMTypeOK /\ phase[c] = "running" /\ step[c] = "postfork" /\ SlotOf(c) \in Slot
      /\ c \in Owners /\ c \notin Holders /\ c \in Alive
  BY Zenon DEF onProcessFork, SMBase, SMTypeOK, TypeOK, SlotOf, Holders, Owners, Alive
<1>3. \A q \in Holders : q \in Pid /\ SlotOf(q) \in Slot /\ SlotOf(q) # SlotOf(c)
  BY <1>2, HolderSlots, Zenon DEF Holders, SMBase, IInv, SlotOwned, SlotOf
<1>4. /\ \A q \in Pid : step'[q] = IF q = c THEN "select" ELSE step[q]
      /\ \A i \in Slot : commands'[i] = IF i = SlotOf(c) THEN EMPTY ELSE commands[i]
      /\ \A i \in Slot : i # SlotOf(c) => suspendedProcesses'[i] = suspendedProcesses[i]
      /\ UNCHANGED <<keepOneStateOnNode, timeUp, lastStateId, states, m_succeeded,
                     finished, killIssued>>
  BY <1>2, Zenon DEF onProcessFork, SMTypeOK, history
<1>5. Holders' = Holders \cup {c} /\ Alive' = Alive
  BY <1>1, <1>2, <1>4, SMTT(40) DEF Holders, Owners, Alive
<1> QED BY <1>1, <1>2, <1>3, <1>4, <1>5, ZenonT(30)

\* ~StateManager gives up the successful states and the role of the keeper.
LEMMA DestroyFacts ==
    ASSUME SetFacts, SMBase, NEW p \in Pid, DestroyStateManager(p)
    PROVE  /\ p \in Holders /\ step[p] = "exiting" /\ states[p] = {}
           /\ Holders' = Holders /\ Alive' = Alive /\ \A q : SlotOf(q)' = SlotOf(q)
           /\ UNCHANGED <<commands, suspendedProcesses, timeUp, lastStateId, states,
                          finished, killIssued>>
           /\ \A q \in Pid : /\ step'[q] = IF q = p THEN "destroyed" ELSE step[q]
                             /\ m_succeeded'[q] = IF q = p THEN {} ELSE m_succeeded[q]
           /\ keepOneStateOnNode' =
                  IF keepOneStateOnNode = SlotOf(p) THEN None ELSE keepOneStateOnNode
<1>1. /\ Owners' = Owners /\ phase' = phase /\ \A q : SlotOf(q)' = SlotOf(q)
  BY SameTable, Zenon DEF DestroyStateManager
<1>2. SMTypeOK /\ p \in Holders /\ step[p] = "exiting" /\ states[p] = {}
  BY CallbackRuns, Zenon DEF DestroyStateManager, SMBase, Life, LifeOf
<1>3. /\ UNCHANGED <<commands, suspendedProcesses, timeUp, lastStateId, states,
                     finished, killIssued>>
      /\ \A q \in Pid : /\ step'[q] = IF q = p THEN "destroyed" ELSE step[q]
                        /\ m_succeeded'[q] = IF q = p THEN {} ELSE m_succeeded[q]
      /\ keepOneStateOnNode' =
             IF keepOneStateOnNode = SlotOf(p) THEN None ELSE keepOneStateOnNode
  BY <1>2, Zenon DEF DestroyStateManager, SMTypeOK, history
<1>4. Holders' = Holders /\ Alive' = Alive
  BY <1>1, <1>2, <1>3, ZenonT(30) DEF Holders, Owners, Alive
<1> QED BY <1>1, <1>2, <1>3, <1>4, ZenonT(30)

\* ~S2E removes a holder that has nothing left.
LEMMA ExitFacts ==
    ASSUME SetFacts, SMBase, IInv', NEW p \in Pid, Exit(p)
    PROVE  /\ p \in Holders /\ step[p] = "destroyed" /\ states[p] = {} /\ m_succeeded[p] = {}
           /\ Holders' = Holders \ {p} /\ Alive' = Alive \ {p}
           /\ \A q \in Pid \ {p} : SlotOf(q)' = SlotOf(q) /\ step'[q] = step[q]
           /\ UNCHANGED <<commands, suspendedProcesses, keepOneStateOnNode, timeUp, lastStateId,
                          states, m_succeeded, finished, killIssued>>
<1>1. step[p] = "destroyed" /\ IInv' /\ SMTypeOK /\ TypeOK
  BY Zenon DEF Exit, SMBase, SMTypeOK
<1>2. p \in Holders /\ states[p] = {} /\ m_succeeded[p] = {}
  BY <1>1, CallbackRuns, Zenon DEF SMBase, Life, LifeOf
<1>3. /\ phase'[p] # "aborted" /\ phase' = [phase EXCEPT ![p] = phase'[p]]
      /\ phase'[p] \in {"absent", "aborted"}
      /\ m_currentProcessId' = [m_currentProcessId EXCEPT ![p] = 0]
      /\ step' = [step EXCEPT ![p] = "exec"]
      /\ UNCHANGED <<commands, suspendedProcesses, keepOneStateOnNode, timeUp, lastStateId,
                     states, m_succeeded, finished, killIssued>>
  <2>1. phase' = [phase EXCEPT ![p] = "absent"] \/ phase' = [phase EXCEPT ![p] = "aborted"]
    BY Zenon DEF Exit, Close
  <2>2. phase'[p] # "aborted"
    BY <1>1, Zenon DEF IInv, NothingAborted
  <2> QED BY <1>1, <2>1, <2>2, ZenonT(30) DEF Exit, Close, ForgetMemory, smShared, history, TypeOK
<1>4. /\ \A q \in Pid \ {p} : /\ phase'[q] = phase[q] /\ step'[q] = step[q]
                              /\ SlotOf(q)' = SlotOf(q)
      /\ phase'[p] = "absent"
  BY <1>1, <1>3, ZenonT(30) DEF SMTypeOK, TypeOK, SlotOf
<1>5. Holders' = Holders \ {p} /\ Alive' = Alive \ {p}
  BY <1>2, <1>4, Zenon DEF Holders, Owners, Alive
<1> QED BY <1>1, <1>2, <1>3, <1>4, <1>5, ZenonT(30)

\* Every step is calm, concerns sm_callback, or begins or ends a process.
LEMMA StepKinds ==
    ASSUME [SMNext]_allVars
    PROVE  \/ Calm
           \/ \E p \in Pid : SelectNextState(p) \/ Poll(p) \/ Woken(p)
           \/ \E p \in Pid : onProcessFork(p) \/ DestroyStateManager(p) \/ Exit(p)
BY Zenon DEF SMNext, Calm, Terminated

\* Every step keeps KeeperInv.
LEMMA NextKeeper ==
    ASSUME SetFacts, SMBase, IInv', KeeperInv, [SMNext]_allVars
    PROVE  KeeperInv'
<1>1. CASE Calm
  BY <1>1, CalmStep, SMTT(40) DEF KeeperInv, Holders, Owners, SMBase, SMTypeOK, Step
<1>2. ASSUME NEW p \in Pid, SelectNextState(p) PROVE KeeperInv'
  <2>1. p \in Holders /\ step[p] \in {"exec", "select"} /\ SlotOf(p) \in Slot /\ SlotOf(p) # EMPTY
    BY <1>2, SelectCases, HolderSlots, MaxProcessesAssumption, SMTT(40) DEF Slot, EMPTY
  <2>2. PICK L, S, K, k, next : /\ Outcome(p, L, S, K, k, suspendedProcesses, next)
                                /\ Typed(p, L, S, K, k, suspendedProcesses, next)
                                /\ SelectResult(p, L, S, K, k, next)
    BY <1>2, SelectCases, Zenon
  <2>3. \/ ReadOutcome(p, L, S, K, k)
        \/ KeepOutcome(p, L, S, K, k)
        \/ YieldOutcome(p, L, S, K, k) /\ K[SlotOf(p)] # SlotOf(p)
    BY <2>1, <2>2, Zenon DEF SelectResult
  <2> QED BY <2>1, <2>2, <2>3, OutcomeKeeper, ZenonT(30)
<1>3. ASSUME NEW p \in Pid, Poll(p) PROVE KeeperInv'
  <2>1. p \in Holders /\ step[p] = "suspended" /\ None \notin Slot /\ SlotOf(p) \in Slot
    <3>1. p \in Holders /\ step[p] = "suspended"
      BY <1>3, PollCases, Zenon
    <3>2. None \notin Slot
      BY MaxProcessesAssumption, SMTT(40) DEF Slot, None
    <3> QED BY <3>1, <3>2, HolderSlots, ZenonT(30)
  <2>2. CASE Outcome(p, {}, m_succeeded[p], commands, keepOneStateOnNode,
                     suspendedProcesses, "woken")
    <3>1. Typed(p, {}, m_succeeded[p], commands, keepOneStateOnNode,
                suspendedProcesses, "woken")
      BY Zenon DEF Typed, SMBase, SMTypeOK
    <3>2. /\ Holders' = Holders /\ commands' = commands
          /\ keepOneStateOnNode' = keepOneStateOnNode
          /\ \A q \in Holders : SlotOf(q)' = SlotOf(q)
          /\ \A q \in Holders : step'[q] = IF q = p THEN "woken" ELSE step[q]
      BY <2>1, <2>2, <3>1, OutcomeHolders, SMTT(40) DEF Holders, Owners
    <3> QED BY <2>1, <3>2, Zenon DEF KeeperInv
  <2>3. ASSUME NEW L, NEW S, NEW K, NEW k, NEW next,
               Outcome(p, L, S, K, k, [i \in Slot |-> FALSE], next),
               Typed(p, L, S, K, k, [i \in Slot |-> FALSE], next),
               PollResult(p, L, S, K, k, next)
        PROVE  KeeperInv'
    <3>1. YieldOutcome(p, L, S, K, k) => k \in Slot \ {SlotOf(p)}
      BY Zenon DEF YieldOutcome
    <3>2. commands[SlotOf(p)] = SlotOf(p) => keepOneStateOnNode = SlotOf(p)
      BY <2>1, Zenon DEF KeeperInv
    <3>3. \/ KeepOutcome(p, L, S, K, k)
          \/ YieldOutcome(p, L, S, K, k) /\ K[SlotOf(p)] # SlotOf(p)
      BY <2>1, <2>3, <3>1, <3>2, ZenonT(30) DEF PollResult
    <3> QED BY <2>1, <2>3, <3>3, OutcomeKeeper, ZenonT(30)
  <2> QED BY <1>3, <2>2, <2>3, PollCases, ZenonT(30)
<1>4. ASSUME NEW p \in Pid, Woken(p) PROVE KeeperInv'
  <2>1. p \in Holders /\ step[p] = "woken"
    BY <1>4, WokenCases, Zenon
  <2>2. PICK L, S, K, k, next : /\ Outcome(p, L, S, K, k, suspendedProcesses, next)
                                /\ Typed(p, L, S, K, k, suspendedProcesses, next)
                                /\ ReadOutcome(p, L, S, K, k)
    BY <1>4, WokenCases, ZenonT(30)
  <2> QED BY <2>1, <2>2, OutcomeKeeper, ZenonT(30)
<1>5. ASSUME NEW c \in Pid, onProcessFork(c) PROVE KeeperInv'
  <2>1. EMPTY \notin Slot /\ \A q \in Holders : q \in Pid
    BY HolderSlots, MaxProcessesAssumption, SMTT(40) DEF Slot, EMPTY
  <2> QED BY <1>5, <2>1, ProcessForkFacts, SMTT(40) DEF KeeperInv
<1>6. ASSUME NEW p \in Pid, DestroyStateManager(p) PROVE KeeperInv'
  <2>1. \A q \in Holders : q \in Pid /\ (SlotOf(q) = SlotOf(p) => q = p)
    BY <1>6, DestroyFacts, HolderSlots, ZenonT(30)
  <2> QED BY <1>6, <2>1, DestroyFacts, SMTT(40) DEF KeeperInv
<1>7. ASSUME NEW p \in Pid, Exit(p) PROVE KeeperInv'
  BY <1>7, ExitFacts, HolderSlots, SMTT(40) DEF KeeperInv
<1> QED BY <1>1, <1>2, <1>3, <1>4, <1>5, <1>6, <1>7, StepKinds, ZenonT(30)

\* KeeperInv holds at first, and is what KillNamesKeeper says.
LEMMA InitKeeper ==
    ASSUME SetFacts, SMInit, SMBase
    PROVE  KeeperInv
<1>1. /\ commands = [i \in Slot |-> EMPTY]
      /\ \A q \in Holders : SlotOf(q) \in Slot
  BY HolderSlots, Zenon DEF SMInit
<1>2. \A i \in Slot : i # EMPTY
  BY MaxProcessesAssumption DEF Slot, EMPTY
<1> QED BY <1>1, <1>2, Zenon DEF KeeperInv

LEMMA KeeperNamed ==
    ASSUME SetFacts, SMBase, KeeperInv
    PROVE  KillNamesKeeper
BY RunningHolds, Zenon DEF KeeperInv, KillNamesKeeper, Live

-----------------------------------------------------------------------------
(* No path is lost before a kill. *)

\* There is no command, nobody is resumed, and who exits has nothing.
Undisturbed ==
    /\ \A i \in Slot : commands[i] = EMPTY
    /\ \A p \in Pid : /\ step[p] # "woken"
                      /\ step[p] = "suspended" => suspendedProcesses[SlotOf(p)]
                      /\ step[p] \in {"exiting", "destroyed"} => m_succeeded[p] = {}

\* A state has ended or some process has it.
Kept(s) == s \in finished \/ \E p \in Alive : s \in states[p] \cup m_succeeded[p]

AllKept == /\ finished \subseteq 0 .. lastStateId - 1
           /\ \A s \in 0 .. lastStateId - 1 : Kept(s)

LossInv == ~ killIssued => Undisturbed /\ AllKept

\* AllKept only depends on what the processes have.
LEMMA KeptAlike ==
    ASSUME AllKept, UNCHANGED <<lastStateId, finished>>,
           \A p \in Alive : (states[p] \cup m_succeeded[p]) \subseteq
               UNION {states'[q] \cup m_succeeded'[q] : q \in Alive'}
    PROVE  AllKept'
<1> SUFFICES ASSUME NEW s \in 0 .. lastStateId - 1 PROVE Kept(s)'
  BY Zenon DEF AllKept
<1>1. CASE s \in finished
  BY <1>1, Zenon DEF Kept
<1>2. CASE s \notin finished
  <2>1. PICK p \in Alive : s \in states[p] \cup m_succeeded[p]
    BY <1>2, Zenon DEF AllKept, Kept
  <2>2. PICK q \in Alive' : s \in states'[q] \cup m_succeeded'[q]
    BY <2>1
  <2> QED BY <2>2, Zenon DEF Kept
<1> QED BY <1>1, <1>2, Zenon

\* The guest keeps its paths: a state that ends is finished, one that succeeds or
\* forks stays.
LEMMA GuestKeeps ==
    ASSUME SetFacts, SMBase, AllKept, NEW p \in Pid, ForkState(p) \/ FinishState(p) \/ SucceedState(p)
    PROVE  AllKept'
<1> DEFINE s == g_s2e_state[p]
<1>1. /\ SMTypeOK /\ lastStateId \in Nat /\ lastStateId' \in Nat
      /\ (states[p] \cup m_succeeded[p]) \subseteq 0 .. lastStateId - 1
      /\ s \in states[p] \cup m_succeeded[p] /\ p \in Alive /\ Alive' = Alive
      /\ finished \subseteq 0 .. lastStateId - 1
  BY MaxStateIdAssumption DEF SMBase, SMTypeOK, Life, LifeOf, ForkState, FinishState, SucceedState, Runs,
                              Alive, vars, AllKept
<1>2. CASE ForkState(p)
  <2>1. /\ lastStateId' = lastStateId + 1 /\ finished' = finished /\ m_succeeded' = m_succeeded
        /\ \A q \in Pid : states'[q] = IF q = p THEN states[q] \cup {lastStateId} ELSE states[q]
    BY <1>1, <1>2, ZenonT(30) DEF ForkState, history, SMTypeOK
  <2>2. finished' \subseteq 0 .. lastStateId' - 1
    BY <1>1, <2>1
  <2>3. ASSUME NEW r \in 0 .. lastStateId' - 1 PROVE Kept(r)'
    <3>1. CASE r = lastStateId
      BY <1>1, <2>1, <3>1, ZenonT(30) DEF Kept
    <3>2. CASE r # lastStateId
      <4>1. r \in 0 .. lastStateId - 1
        BY <1>1, <2>1, <3>2, SMTT(40)
      <4> QED BY <1>1, <2>1, <4>1, ZenonT(30) DEF AllKept, Kept, Alive
    <3> QED BY <3>1, <3>2, Zenon
  <2> QED BY <2>2, <2>3, Zenon DEF AllKept
<1>3. CASE FinishState(p)
  <2>1. /\ lastStateId' = lastStateId /\ finished' = finished \cup {s}
        /\ \A q \in Pid : /\ states[q] \subseteq states'[q] \cup {s}
                          /\ m_succeeded[q] \subseteq m_succeeded'[q] \cup {s}
    BY <1>1, <1>3, ZenonT(30) DEF FinishState, SMTypeOK
  <2>2. finished' \subseteq 0 .. lastStateId' - 1
    BY <1>1, <2>1, ZenonT(30)
  <2> HIDE DEF s
  <2>3. ASSUME NEW r \in 0 .. lastStateId' - 1 PROVE Kept(r)'
    BY <1>1, <2>1, ZenonT(30) DEF AllKept, Kept, Alive
  <2> QED BY <2>2, <2>3, ZenonT(30) DEF AllKept
<1>4. CASE SucceedState(p)
  <2>1. /\ lastStateId' = lastStateId /\ finished' = finished
        /\ \A q \in Pid : (states[q] \cup m_succeeded[q]) \subseteq
                              (states'[q] \cup m_succeeded'[q])
    BY <1>1, <1>4, ZenonT(30) DEF SucceedState, SMTypeOK, history
  <2> QED BY <1>1, <2>1, KeptAlike, ZenonT(30) DEF Alive
<1> QED BY <1>2, <1>3, <1>4, ZenonT(30)

\* So do the other calm steps; load balancing gives every state to one of two.
LEMMA CalmKeeps ==
    ASSUME SetFacts, SMBase, IInv', AllKept, Calm
    PROVE  AllKept'
<1>1. CASE \E p \in Pid : ForkState(p) \/ FinishState(p) \/ SucceedState(p)
  BY <1>1, GuestKeeps, ZenonT(30)
<1>2. CASE \/ \E p \in Pid : NewBlockCovered(p) \/ Suspend(p)
           \/ Tick \/ UNCHANGED allVars
  <2>1. UNCHANGED <<lastStateId, finished, states, m_succeeded, vars>>
    BY <1>2, Zenon DEF NewBlockCovered, Suspend, Tick, allVars, smVars, local, history
  <2>2. Alive' = Alive
    BY <2>1, Zenon DEF vars, Alive
  <2> QED BY <2>1, <2>2, KeptAlike, ZenonT(30)
<1>3. ASSUME NEW p \in Pid, BalanceStart(p) \/ BalanceFailed(p) \/ ChildStep(p) PROVE AllKept'
  <2>1. /\ UNCHANGED <<lastStateId, finished, states, m_succeeded>>
        /\ phase \in [Pid -> Phase] /\ \E x \in Phase \ {"absent"} : phase' = [phase EXCEPT ![p] = x]
    BY <1>3, ZenonT(30) DEF BalanceStart, BalanceFailed, ChildStep, ForkReserve, ForkFailed, RegisterChild,
                InitOutputDirectory, smVars, local, history, SMBase, IInv, TypeOK, Phase
  <2>2. Alive \subseteq Alive'
    BY <2>1, ZenonT(30) DEF Alive, IInv, NothingAborted
  <2> QED BY <2>1, <2>2, KeptAlike, ZenonT(30)
<1>4. ASSUME NEW p \in Pid, NEW c \in Pid, BalanceFork(p, c) PROVE AllKept'
  <2>1. PICK lower \in SUBSET states[p] :
            states' = [states EXCEPT ![p] = lower, ![c] = states[p] \ lower]
    BY <1>4, Zenon DEF BalanceFork, kSubset
  <2>2. /\ phase[p] = "reserved" /\ phase[c] = "absent" /\ p # c
        /\ phase' = [phase EXCEPT ![p] = "running", ![c] = "born"]
        /\ m_succeeded' = [m_succeeded EXCEPT ![c] = m_succeeded[p]]
        /\ UNCHANGED <<lastStateId, finished>>
        /\ phase \in [Pid -> Phase] /\ SMTypeOK
    BY <1>4, Zenon DEF BalanceFork, ForkChild, history, SMBase, IInv, TypeOK
  <2>3. Alive' = Alive \cup {c} /\ p \in Alive /\ c \notin Alive
    BY <2>2, Zenon DEF Alive
  <2>4. /\ \A q \in Alive : m_succeeded'[q] = m_succeeded[q]
        /\ \A q \in Alive : q # p => states'[q] = states[q]
        /\ states[p] = states'[p] \cup states'[c]
    BY <2>1, <2>2, <2>3, ZenonT(30) DEF SMTypeOK, Alive
  <2> QED BY <2>2, <2>3, <2>4, KeptAlike, SMTT(40)
<1> QED BY <1>1, <1>2, <1>3, <1>4, ZenonT(30) DEF Calm

\* Calm steps do not disturb.
LEMMA CalmUndisturbed ==
    ASSUME SetFacts, SMBase, SMBase', Undisturbed, Calm
    PROVE  Undisturbed'
<1>1. SMBase'
  BY Zenon
<1>2. /\ UNCHANGED commands /\ Holders' = Holders
      /\ \A q \in Holders : SlotOf(q)' = SlotOf(q) /\ q \in Pid /\ SlotOf(q) \in Slot
  BY CalmStep, HolderSlots, ZenonT(30)
<1>3. ASSUME NEW q \in Pid
      PROVE  /\ step'[q] # "woken"
             /\ step'[q] = "suspended" =>
                   \/ step[q] = "suspended" /\ suspendedProcesses'[SlotOf(q)] = suspendedProcesses[SlotOf(q)]
                   \/ suspendedProcesses'[SlotOf(q)]
             /\ step'[q] \in {"exiting", "destroyed"} =>
                    step[q] = step'[q] /\ m_succeeded'[q] = m_succeeded[q]
  <2> USE DEF Undisturbed
  <2>1. SMTypeOK
    BY ZenonT(30) DEF SMBase
  <2>2. CASE \E p \in Pid : ForkState(p) \/ FinishState(p) \/ SucceedState(p)
    BY <2>1, <2>2, SMTT(40) DEF ForkState, FinishState, SucceedState, Runs, smShared, SMTypeOK
  <2>3. CASE (\E p \in Pid : NewBlockCovered(p)) \/ Tick \/ UNCHANGED allVars
    BY <2>3, ZenonT(30) DEF NewBlockCovered, Tick, local, allVars, smVars, smShared
  <2>4. CASE \E p \in Pid : BalanceStart(p) \/ BalanceFailed(p) \/ ChildStep(p)
    BY <2>1, <2>4, SMTT(40) DEF BalanceStart, BalanceFailed, ChildStep, smShared, smVars, local, SMTypeOK
  <2>5. CASE \E p, c \in Pid : BalanceFork(p, c)
    BY <2>1, <2>5, SMTT(40) DEF BalanceFork, smShared, SMTypeOK
  <2>6. ASSUME NEW p \in Pid, Suspend(p)
        PROVE  /\ m_succeeded' = m_succeeded
               /\ step' = [step EXCEPT ![p] = "suspended"] /\ suspendedProcesses'[SlotOf(p)]
               /\ \A i \in Slot : suspendedProcesses[i] => suspendedProcesses'[i]
    <3>1. p \in Holders /\ SlotOf(p) \in Slot
      BY <2>6, CallbackRuns, HolderSlots, ZenonT(30) DEF Suspend
    <3> QED BY <2>1, <2>6, <3>1, ZenonT(30) DEF Suspend, SMTypeOK
  <2>7. step[q] = "suspended" => SlotOf(q) \in Slot
    BY CallbackRuns, HolderSlots, ZenonT(30)
  <2>8. CASE \E p \in Pid : Suspend(p)
    BY <2>1, <2>6, <2>7, <2>8, SMTT(40) DEF SMTypeOK
  <2>9. \/ \E p \in Pid : ForkState(p) \/ FinishState(p) \/ SucceedState(p)
        \/ (\E p \in Pid : NewBlockCovered(p)) \/ Tick \/ UNCHANGED allVars
        \/ \E p \in Pid : BalanceStart(p) \/ BalanceFailed(p) \/ ChildStep(p)
        \/ \E p, c \in Pid : BalanceFork(p, c)
        \/ \E p \in Pid : Suspend(p)
    BY Zenon DEF Calm
  <2> QED BY <2>2, <2>3, <2>4, <2>5, <2>8, <2>9, Zenon
<1>4. ASSUME NEW q \in Pid, step'[q] = "suspended"
      PROVE  suspendedProcesses'[SlotOf(q)']
  <2>1. q \in Holders'
    BY <1>1, <1>4, ZenonT(30) DEF Holders, Owners, SMBase, Life, LifeOf, IInv, TypeOK, NothingAborted, Phase
  <2>2. SlotOf(q)' = SlotOf(q)
    BY <1>2, <2>1, ZenonT(30)
  <2> QED BY <1>3, <1>4, <2>2, ZenonT(30) DEF Undisturbed
<1> QED BY <1>2, <1>3, <1>4, ZenonT(30) DEF Undisturbed

\* Every step keeps LossInv.
LEMMA NextLoss ==
    ASSUME SetFacts, SMBase, SMBase', LossInv, [SMNext]_allVars
    PROVE  LossInv'
<1> SUFFICES ASSUME ~ killIssued' PROVE Undisturbed' /\ AllKept'
  BY Zenon DEF LossInv
<1>0. IInv'
  BY Zenon DEF SMBase
<1> USE DEF Undisturbed
<1>1. CASE Calm
  <2>1. Undisturbed /\ AllKept
    BY <1>1, CalmStep, Zenon DEF LossInv
  <2> QED BY <1>0, <1>1, <2>1, CalmKeeps, CalmUndisturbed, ZenonT(30)
<1>2. ASSUME NEW p \in Pid, SelectNextState(p) PROVE Undisturbed' /\ AllKept'
  <2>1. p \in Holders /\ SlotOf(p) \in Slot /\ step[p] \in {"exec", "select"}
    BY <1>2, SelectCases, HolderSlots, ZenonT(30)
  <2>2. PICK L, S, K, k, next : /\ Outcome(p, L, S, K, k, suspendedProcesses, next)
                                /\ Typed(p, L, S, K, k, suspendedProcesses, next)
                                /\ SelectResult(p, L, S, K, k, next)
    BY <1>2, SelectCases, Zenon
  <2>3. Undisturbed /\ AllKept
    BY <2>2, ZenonT(30) DEF Outcome, LossInv
  <2>4. commands[SlotOf(p)] = EMPTY /\ SlotOf(p) # EMPTY
    BY <2>1, <2>3, MaxProcessesAssumption, SMTT(40) DEF Slot, EMPTY
  <2>5. /\ L = states[p] /\ S = m_succeeded[p] /\ K = commands
        /\ next \in {"exec", "exiting", "suspending"} /\ (next = "exiting" => S = {})
    BY <2>2, <2>4, ZenonT(30) DEF SelectResult, ReadOutcome
  <2>6. /\ Alive' = Alive /\ \A q : SlotOf(q)' = SlotOf(q)
        /\ \A q \in Pid : /\ step'[q] = IF q = p THEN next ELSE step[q]
                          /\ states'[q] = states[q] /\ m_succeeded'[q] = m_succeeded[q]
        /\ commands' = commands /\ suspendedProcesses' = suspendedProcesses
        /\ UNCHANGED <<lastStateId, finished>>
    BY <2>1, <2>2, <2>5, OutcomeHolders, SMTT(40)
  <2>7. Undisturbed'
    BY <2>3, <2>5, <2>6, SMTT(40)
  <2>8. AllKept'
    BY <2>3, <2>6, KeptAlike, SMTT(40) DEF Alive
  <2> QED BY <2>7, <2>8, Zenon
<1>3. ASSUME NEW p \in Pid, Poll(p) PROVE FALSE
  <2>1. step[p] = "suspended" /\ (killIssued' = killIssued => ~ suspendedProcesses[SlotOf(p)])
    BY <1>3, PollCases, Zenon
  <2>2. ~ killIssued /\ killIssued' = killIssued
    BY <1>3, PollCases, Zenon DEF SMBase, SMTypeOK
  <2> QED BY <2>1, <2>2, Zenon DEF LossInv
<1>4. ASSUME NEW p \in Pid, Woken(p) PROVE FALSE
  BY <1>4, WokenCases, Zenon DEF LossInv
<1>5. ASSUME NEW c \in Pid, onProcessFork(c) PROVE Undisturbed' /\ AllKept'
  <2>1. Undisturbed /\ AllKept
    BY <1>5, ProcessForkFacts, ZenonT(30) DEF LossInv
  <2>2. \A q \in Pid : step[q] = "suspended" => q \in Holders
    BY CallbackRuns, ZenonT(30)
  <2>3. Undisturbed'
    BY <1>5, <2>1, <2>2, ProcessForkFacts, SMTT(40)
  <2>4. AllKept'
    BY <1>5, <2>1, ProcessForkFacts, KeptAlike, SMTT(40)
  <2> QED BY <2>3, <2>4, ZenonT(30)
<1>6. ASSUME NEW p \in Pid, DestroyStateManager(p) PROVE Undisturbed' /\ AllKept'
  <2>1. Undisturbed /\ AllKept /\ m_succeeded[p] = {}
    BY <1>6, DestroyFacts, ZenonT(30) DEF LossInv
  <2>2. Undisturbed'
    BY <1>6, <2>1, DestroyFacts, SMTT(40)
  <2>3. AllKept'
    BY <1>6, <2>1, DestroyFacts, KeptAlike, SMTT(40) DEF Alive
  <2> QED BY <2>2, <2>3, ZenonT(30)
<1>7. ASSUME NEW p \in Pid, Exit(p) PROVE Undisturbed' /\ AllKept'
  <2>1. Undisturbed /\ AllKept /\ step'[p] = "exec"
    <3>1. step'[p] = "exec"
      BY <1>7, ZenonT(30) DEF Exit, SMBase, SMTypeOK
    <3> QED BY <1>0, <1>7, <3>1, ExitFacts, ZenonT(30) DEF LossInv
  <2>2. Undisturbed'
    BY <1>0, <1>7, <2>1, ExitFacts, SMTT(40)
  <2>3. AllKept'
    BY <1>0, <1>7, <2>1, ExitFacts, KeptAlike, SMTT(40)
  <2> QED BY <2>2, <2>3, Zenon
<1> QED BY <1>1, <1>2, <1>3, <1>4, <1>5, <1>6, <1>7, StepKinds, ZenonT(30)

\* LossInv holds at first, and is what NoPathLost says.
LEMMA InitLoss ==
    ASSUME SMInit
    PROVE  LossInv
<1>1. Undisturbed
  BY Zenon DEF SMInit, Undisturbed
<1>2. InitialPid \in Alive /\ states[InitialPid] = {0} /\ finished = {} /\ lastStateId = 1
  BY PidAssumption, Zenon DEF SMInit, Init, Alive
<1>3. AllKept
  <2>1. \A s \in 0 .. 1 - 1 : s = 0
    OBVIOUS
  <2> QED BY <1>2, <2>1, ZenonT(30) DEF AllKept, Kept
<1> QED BY <1>1, <1>3, ZenonT(30) DEF LossInv

LEMMA NothingLost ==
    ASSUME SMBase, LossInv
    PROVE  NoPathLost
<1> SUFFICES ASSUME AllKept
             PROVE  0 .. lastStateId - 1 =
                      finished \cup UNION {states[p] \cup m_succeeded[p] : p \in Alive}
  BY ZenonT(30) DEF LossInv, NoPathLost
<1>1. /\ \A p \in Alive : (states[p] \cup m_succeeded[p]) \subseteq 0 .. lastStateId - 1
      /\ finished \subseteq 0 .. lastStateId - 1
  BY Zenon DEF SMBase, Life, LifeOf, Alive, AllKept
<1> QED BY <1>1, Zenon DEF AllKept, Kept
=============================================================================
