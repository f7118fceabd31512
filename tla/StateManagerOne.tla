-------------------------- MODULE StateManagerOne ---------------------------
(***************************************************************************)
(* Without the timeout: who goes on after a kill.  Commands are sent only  *)
(* while everybody waits, and then exactly one process has a state to go   *)
(* on with.  OneInv follows that process until it has taken its state      *)
(* back, while the others read their commands and leave in any order; no   *)
(* path is ever run by two processes, and some path always goes on.        *)
(***************************************************************************)
EXTENDS StateManagerPaths

\* What a process finds in its slot.
Command(p) == commands[SlotOf(p)]
Flag(p) == suspendedProcesses[SlotOf(p)]

\* The process has been resumed and has not yet read its command.
Wakes(p) == step[p] = "woken" \/ (step[p] = "suspended" /\ ~ Flag(p))

Leaving(p) == step[p] \in {"exiting", "destroyed"}

\* The process that the last kill spares.
Keeper(p) == Wakes(p) /\ Command(p) = SlotOf(p)

\* Processes that end without running another state.
Doomed(p) == Leaving(p) \/ (Wakes(p) /\ states[p] = {} /\ Command(p) # SlotOf(p))

Going == {p \in Alive : ~ Doomed(p)}

\* Only resumed processes have commands, which find them with successful states
\* and nothing to run; the process that a command spares is the only one to go on.
Orders ==
    /\ ~ timeUp
    /\ \A p \in Holders :
           /\ Command(p) # EMPTY => Wakes(p) \/ Leaving(p)
           /\ Wakes(p) /\ Command(p) # EMPTY => states[p] = {} /\ m_succeeded[p] # {}
           /\ Keeper(p) => Going = {p}
    /\ keepOneStateOnNode # None =>
           \E p \in Holders : Keeper(p) /\ SlotOf(p) = keepOneStateOnNode

\* A state that some process can run no other one has, not even as successful.
Disjoint ==
    \A p, q \in Going : /\ p # q => states[p] \cap states[q] = {}
                        /\ states[p] \cap m_succeeded[q] = {}

\* Somebody goes on with a state, unless one has ended.
Survives == finished = {} => \E p \in Going : states[p] \cup m_succeeded[p] # {}

OneInv == Orders /\ Disjoint /\ Survives

\* A step of p leaves what the other processes do and will find.
Others(p) ==
    \A q \in Pid \ {p} :
        /\ step'[q] = step[q] /\ states'[q] = states[q] /\ m_succeeded'[q] = m_succeeded[q]
        /\ q \in Alive' <=> q \in Alive
        /\ q \in Holders' <=> q \in Holders
        /\ q \in Holders => /\ SlotOf(q)' = SlotOf(q) /\ Command(q)' = Command(q)
                            /\ Flag(q)' = Flag(q)

\* Those go on who did.
LEMMA OthersSame ==
    ASSUME SetFacts, SMBase, NEW p, Others(p), NEW q \in Pid \ {p}
    PROVE  /\ Leaving(q)' <=> Leaving(q)
           /\ q \in Going' <=> q \in Going
           /\ q \in Holders => (Wakes(q)' <=> Wakes(q)) /\ (Keeper(q)' <=> Keeper(q))
<1>1. q \notin Holders => step[q] \notin {"woken", "suspended"}
  BY CallbackRuns, Zenon
<1>2. /\ step'[q] = step[q] /\ states'[q] = states[q]
      /\ q \in Alive' <=> q \in Alive
      /\ q \in Holders => /\ SlotOf(q)' = SlotOf(q) /\ Command(q)' = Command(q)
                          /\ Flag(q)' = Flag(q)
  BY Zenon DEF Others
<1>3. Wakes(q)' <=> Wakes(q)
  BY <1>1, <1>2, ZenonT(30) DEF Wakes
<1>4. Leaving(q)' <=> Leaving(q)
  BY <1>2, Zenon DEF Leaving
<1>5. q \notin Holders => ~ Wakes(q)
  BY <1>1, Zenon DEF Wakes
<1>6. Doomed(q)' <=> Doomed(q)
  BY <1>2, <1>3, <1>4, <1>5, ZenonT(30) DEF Doomed
<1>7. q \in Going' <=> q \in Going
  BY <1>2, <1>6, ZenonT(30) DEF Going
<1>8. q \in Holders => (Keeper(q)' <=> Keeper(q))
  BY <1>2, <1>3, ZenonT(30) DEF Keeper
<1> QED BY <1>3, <1>4, <1>7, <1>8, ZenonT(30)

\* The invariant outlives a step of p that was not spared and after which p has
\* nothing to read, provided that p goes on as before or had nothing.
LEMMA OneActor ==
    ASSUME SetFacts, SMBase, OneInv, NEW p \in Pid, Others(p), ~ timeUp',
           UNCHANGED <<keepOneStateOnNode, finished>>, ~ (p \in Holders /\ Keeper(p)),
           p \in Holders' => ~ Wakes(p)' /\ (Command(p)' = EMPTY \/ Leaving(p)'),
           p \in Going' => /\ p \in Going /\ states'[p] = states[p]
                           /\ m_succeeded'[p] = m_succeeded[p],
           p \in Going /\ p \notin Going' => states[p] = {} /\ m_succeeded[p] = {}
    PROVE  OneInv'
<1> USE DEF OneInv
<1>1. \A q \in Pid \ {p} : /\ Leaving(q)' <=> Leaving(q)
                           /\ q \in Going' <=> q \in Going
                           /\ q \in Holders => /\ Wakes(q)' <=> Wakes(q)
                                               /\ Keeper(q)' <=> Keeper(q)
  BY OthersSame, Zenon
<1>2. \A q \in Pid \ {p} :
          /\ states'[q] = states[q] /\ m_succeeded'[q] = m_succeeded[q]
          /\ q \in Holders' <=> q \in Holders
          /\ q \in Holders => SlotOf(q)' = SlotOf(q) /\ Command(q)' = Command(q)
  BY Zenon DEF Others
<1>3. Holders \subseteq Pid /\ Holders' \subseteq Pid /\ Going \subseteq Pid /\ Going' \subseteq Pid
  BY Zenon DEF Holders, Owners, Going, Alive
<1>4. Orders'
  <2>1. ASSUME NEW q \in Holders'
        PROVE  /\ Command(q)' # EMPTY => Wakes(q)' \/ Leaving(q)'
               /\ Wakes(q)' /\ Command(q)' # EMPTY => states'[q] = {} /\ m_succeeded'[q] # {}
    <3>1. CASE q = p
      BY <3>1, <2>1, ZenonT(30)
    <3>2. CASE q # p
      BY <1>1, <1>2, <1>3, <2>1, <3>2, ZenonT(30) DEF Orders
    <3> QED BY <3>1, <3>2, ZenonT(30)
  <2>2. ASSUME NEW q \in Holders', Keeper(q)'
        PROVE  Going' = {q}
    <3>1. q # p
      BY <2>2, Zenon DEF Keeper
    <3>2. q \in Holders /\ Keeper(q)
      BY <1>1, <1>2, <1>3, <2>2, <3>1, ZenonT(30)
    <3>3. Going = {q}
      BY <3>2, ZenonT(30) DEF Orders
    <3>4. p \notin Going'
      BY <3>1, <3>3, ZenonT(30)
    <3> QED BY <1>1, <1>3, <3>1, <3>3, <3>4, ZenonT(30)
  <2>3. ASSUME keepOneStateOnNode' # None
        PROVE  \E q \in Holders' : Keeper(q)' /\ SlotOf(q)' = keepOneStateOnNode'
    <3>1. PICK q \in Holders : Keeper(q) /\ SlotOf(q) = keepOneStateOnNode
      BY <2>3, Zenon DEF Orders
    <3>2. q # p
      BY <3>1, Zenon
    <3> QED BY <1>1, <1>2, <1>3, <3>1, <3>2, ZenonT(30)
  <2> QED BY <2>1, <2>2, <2>3, ZenonT(30) DEF Orders
<1>5. \A q \in Going' : q \in Going /\ states'[q] = states[q] /\ m_succeeded'[q] = m_succeeded[q]
  BY <1>1, <1>2, <1>3, ZenonT(30)
<1>6. Disjoint'
  BY <1>5, Zenon DEF Disjoint
<1>7. Survives'
  <2> SUFFICES ASSUME finished = {}
               PROVE  \E q \in Going' : states'[q] \cup m_succeeded'[q] # {}
    BY Zenon DEF Survives
  <2>1. PICK q \in Going : states[q] \cup m_succeeded[q] # {}
    BY Zenon DEF Survives
  <2>2. q \in Going'
    BY <1>1, <1>3, <2>1, ZenonT(30)
  <2> QED BY <1>5, <2>1, <2>2, ZenonT(30)
<1> QED BY <1>4, <1>6, <1>7, ZenonT(30)

\* A process that neither wakes nor leaves goes on and has no command.
LEMMA GoesOn ==
    ASSUME Orders, NEW p \in Alive, ~ Wakes(p), ~ Leaving(p)
    PROVE  /\ p \in Going
           /\ p \in Holders => Command(p) = EMPTY
           /\ \A q \in Holders : q # p => ~ Keeper(q)
<1>1. p \in Going
  BY Zenon DEF Going, Doomed
<1> QED BY <1>1, Zenon DEF Orders

\* The steps of the guest.
LEMMA GuestOne ==
    ASSUME SetFacts, SMBase, OneInv, NEW p \in Pid,
           ForkState(p) \/ FinishState(p) \/ SucceedState(p)
    PROVE  OneInv'
<1> DEFINE s == g_s2e_state[p]
<1>1. /\ UNCHANGED <<vars, commands, suspendedProcesses, step, keepOneStateOnNode, timeUp>>
      /\ step[p] = "exec" /\ phase[p] = "running" /\ SMTypeOK
      /\ s \in states[p] \cup m_succeeded[p]
  BY Zenon DEF ForkState, FinishState, SucceedState, Runs, smShared, SMBase
<1>2. /\ Holders' = Holders /\ Alive' = Alive /\ \A q : SlotOf(q)' = SlotOf(q)
      /\ p \in Alive /\ \A q : Command(q)' = Command(q) /\ Flag(q)' = Flag(q)
  <2>1. Owners' = Owners /\ phase' = phase /\ \A q : SlotOf(q)' = SlotOf(q)
    BY <1>1, SameTable, ZenonT(30)
  <2> QED BY <1>1, <2>1, ZenonT(30) DEF Holders, Alive, Command, Flag
<1>3. \/ /\ states' = [states EXCEPT ![p] = @ \cup {lastStateId}] /\ m_succeeded' = m_succeeded
         /\ finished' = finished
      \/ /\ states' = [states EXCEPT ![p] = @ \ {s}]
         /\ m_succeeded' = [m_succeeded EXCEPT ![p] = @ \ {s}]
         /\ finished' = finished \cup {s}
      \/ /\ s \notin m_succeeded[p] /\ states' = [states EXCEPT ![p] = @ \ {s}]
         /\ m_succeeded' = [m_succeeded EXCEPT ![p] = @ \cup {s}]
         /\ finished' = finished
  BY Zenon DEF ForkState, FinishState, SucceedState, history
<1>4. \A q \in Pid : lastStateId \notin states[q] \cup m_succeeded[q]
  <2>1. lastStateId \notin 0 .. lastStateId - 1
    BY <1>1 DEF SMTypeOK
  <2> QED BY <2>1, ZenonT(30) DEF SMBase, Life, LifeOf
<1>5. /\ \A q \in Pid \ {p} : states'[q] = states[q] /\ m_succeeded'[q] = m_succeeded[q]
      /\ \/ /\ states'[p] = states[p] \cup {lastStateId} /\ m_succeeded'[p] = m_succeeded[p]
            /\ finished' = finished
         \/ /\ states'[p] = states[p] \ {s} /\ m_succeeded'[p] = m_succeeded[p] \ {s}
            /\ finished' = finished \cup {s}
         \/ /\ s \in states[p] /\ states'[p] = states[p] \ {s}
            /\ m_succeeded'[p] = m_succeeded[p] \cup {s} /\ finished' = finished
  BY <1>1, <1>3, ZenonT(30) DEF SMTypeOK
<1> HIDE DEF s
<1>6. ~ Wakes(p) /\ ~ Leaving(p) /\ p \in Going /\ \A q \in Holders : ~ Keeper(q)
  <2>1. ~ Wakes(p) /\ ~ Leaving(p)
    BY <1>1, ZenonT(30) DEF Wakes, Leaving
  <2> QED BY <1>2, <2>1, GoesOn, ZenonT(30) DEF OneInv, Keeper
<1>7. \A q \in Pid : /\ Wakes(q)' <=> Wakes(q)
                     /\ Leaving(q)' <=> Leaving(q)
                     /\ Keeper(q)' <=> Keeper(q)
  BY <1>1, <1>2, ZenonT(30) DEF Wakes, Leaving, Keeper
<1>8. Going' = Going /\ Going \subseteq Pid /\ Holders \subseteq Pid
  <2>1. Alive \subseteq Pid /\ Holders \subseteq Pid
    BY Zenon DEF Alive, Holders, Owners
  <2>2. ASSUME NEW q \in Pid PROVE Doomed(q)' <=> Doomed(q)
    <3>1. CASE q = p
      BY <1>6, <1>7, <3>1, ZenonT(30) DEF Doomed
    <3>2. CASE q # p
      BY <1>2, <1>5, <1>7, <3>2, ZenonT(30) DEF Doomed
    <3> QED BY <3>1, <3>2, ZenonT(30)
  <2> QED BY <1>2, <2>1, <2>2, ZenonT(30) DEF Going
<1>9. Orders'
  BY <1>1, <1>2, <1>5, <1>6, <1>7, <1>8, ZenonT(30) DEF OneInv, Orders
<1>10. Disjoint'
  <2> SUFFICES ASSUME NEW q \in Going, NEW r \in Going
               PROVE  /\ q # r => states'[q] \cap states'[r] = {}
                      /\ states'[q] \cap m_succeeded'[r] = {}
    BY <1>8, Zenon DEF Disjoint
  <2>1. /\ q # r => states[q] \cap states[r] = {}
        /\ states[q] \cap m_succeeded[r] = {} /\ states[r] \cap m_succeeded[q] = {}
        /\ states[p] \cap m_succeeded[p] = {} /\ q \in Pid /\ r \in Pid
        /\ q # p => states[q] \cap states[p] = {} /\ states[p] \cap m_succeeded[q] = {}
        /\ r # p => states[r] \cap states[p] = {} /\ states[p] \cap m_succeeded[r] = {}
    BY <1>6, <1>8, ZenonT(30) DEF OneInv, Disjoint
  <2>2. CASE q # p /\ r # p
    BY <1>5, <2>1, <2>2, ZenonT(30)
  <2>3. CASE q = p /\ r = p
    BY <1>4, <1>5, <2>1, <2>3, ZenonT(30)
  <2>4. CASE q = p /\ r # p
    BY <1>4, <1>5, <2>1, <2>4, ZenonT(30)
  <2>5. CASE q # p /\ r = p
    BY <1>4, <1>5, <2>1, <2>5, ZenonT(30)
  <2> QED BY <2>2, <2>3, <2>4, <2>5, ZenonT(30)
<1>11. Survives'
  BY <1>5, <1>6, <1>8, Zenon DEF OneInv, Survives
<1> QED BY <1>9, <1>10, <1>11, ZenonT(30) DEF OneInv

\* The steps of S2E::fork in the parent and in the child.
LEMMA BalanceOne ==
    ASSUME SetFacts, SMBase, IInv', OneInv, NEW p \in Pid,
           BalanceStart(p) \/ BalanceFailed(p) \/ ChildStep(p)
    PROVE  OneInv'
<1>1. /\ UNCHANGED <<commands, keepOneStateOnNode>> /\ Holders' = Holders
      /\ \A q \in Holders : SlotOf(q)' = SlotOf(q)
      /\ SMTypeOK
  <2>1. Calm
    BY Zenon DEF Calm
  <2> QED BY <2>1, CalmStep, ZenonT(30) DEF SMBase
<1>2. /\ UNCHANGED <<timeUp, suspendedProcesses, states, m_succeeded, finished>>
      /\ \A q \in Pid \ {p} : step'[q] = step[q] /\ phase'[q] = phase[q]
      /\ step[p] \in {"exec", "forking", "postfork"} /\ p \in Alive
      /\ step'[p] \in {"forking", "select", "postfork"} /\ p \in Alive'
  <2>1. TypeOK /\ phase'[p] # "aborted"
    BY <1>1, ZenonT(30) DEF SMTypeOK, IInv, NothingAborted
  <2>2. CASE BalanceStart(p) \/ BalanceFailed(p)
    BY <1>1, <2>1, <2>2, ZenonT(30) DEF BalanceStart, BalanceFailed, ForkReserve, ForkFailed, smShared,
                                   history, SMTypeOK, TypeOK, Alive
  <2>3. CASE ChildStep(p)
    <3>1. /\ phase[p] \in {"born", "registered"} /\ phase'[p] \in {"registered", "running"}
          /\ \A q \in Pid \ {p} : phase'[q] = phase[q]
      BY <2>1, <2>3, ZenonT(30) DEF ChildStep, RegisterChild, InitOutputDirectory, TypeOK
    <3>2. step[p] = "postfork"
      BY <3>1, ZenonT(30) DEF SMBase, Life, LifeOf
    <3> QED BY <2>3, <3>1, <3>2, ZenonT(30) DEF ChildStep, smVars, smShared, local, history, Alive
  <2> QED BY <2>2, <2>3, ZenonT(30)
<1>3. Others(p)
  BY <1>1, <1>2, ZenonT(30) DEF Others, Command, Flag, Alive
<1>4. ~ Wakes(p) /\ ~ Leaving(p) /\ ~ Wakes(p)' /\ ~ Leaving(p)'
  BY <1>2, Zenon DEF Wakes, Leaving
<1>5. p \in Going /\ p \in Going' /\ (p \in Holders => Command(p)' = EMPTY)
  BY <1>1, <1>2, <1>4, GoesOn, ZenonT(30) DEF OneInv, Going, Doomed, Command
<1> QED BY <1>1, <1>2, <1>3, <1>4, <1>5, OneActor, ZenonT(30) DEF OneInv, Orders, Keeper

\* The beginning of the wait.
LEMMA SuspendOne ==
    ASSUME SetFacts, SMBase, OneInv, NEW p \in Pid, Suspend(p)
    PROVE  OneInv'
<1>1. /\ p \in Holders /\ phase[p] = "running" /\ step[p] = "suspending" /\ SMTypeOK
      /\ UNCHANGED <<vars, commands, keepOneStateOnNode, timeUp, states, m_succeeded, finished>>
  BY CallbackRuns, Zenon DEF Suspend, SMBase, history
<1>2. /\ Holders' = Holders /\ Alive' = Alive /\ \A q : SlotOf(q)' = SlotOf(q)
      /\ \A q \in Pid : step'[q] = IF q = p THEN "suspended" ELSE step[q]
      /\ p \in Alive
  <2>1. Owners' = Owners /\ phase' = phase /\ \A q : SlotOf(q)' = SlotOf(q)
    BY <1>1, SameTable, ZenonT(30)
  <2>2. \A q \in Pid : step'[q] = IF q = p THEN "suspended" ELSE step[q]
    BY <1>1, Zenon DEF Suspend, SMTypeOK
  <2> QED BY <1>1, <2>1, <2>2, ZenonT(30) DEF Holders, Owners, Alive
<1>3. /\ \A i \in Slot : i # SlotOf(p) => suspendedProcesses'[i] = suspendedProcesses[i]
      /\ suspendedProcesses'[SlotOf(p)] /\ SlotOf(p) \in Slot
      /\ \A q \in Holders : q # p => SlotOf(q) \in Slot /\ SlotOf(q) # SlotOf(p)
  BY <1>1, HolderSlots, ZenonT(30) DEF Suspend, SMTypeOK
<1>4. Others(p)
  BY <1>1, <1>2, <1>3, ZenonT(30) DEF Others, Command, Flag
<1>5. ~ Wakes(p) /\ ~ Leaving(p) /\ ~ Wakes(p)' /\ ~ Leaving(p)'
  BY <1>1, <1>2, <1>3, ZenonT(30) DEF Wakes, Leaving, Flag
<1>6. p \in Going /\ p \in Going' /\ Command(p)' = EMPTY
  BY <1>1, <1>2, <1>5, GoesOn, ZenonT(30) DEF OneInv, Going, Doomed, Command
<1> QED BY <1>1, <1>4, <1>5, <1>6, OneActor, ZenonT(30) DEF OneInv, Orders, Keeper

\* The child's onProcessFork.
LEMMA ProcessForkOne ==
    ASSUME SetFacts, SMBase, OneInv, NEW c \in Pid, onProcessFork(c)
    PROVE  OneInv'
<1>1. /\ step[c] = "postfork" /\ c \notin Holders /\ Holders' = Holders \cup {c}
      /\ c \in Alive /\ Alive' = Alive /\ \A q : SlotOf(q)' = SlotOf(q)
      /\ UNCHANGED <<keepOneStateOnNode, timeUp, states, m_succeeded, finished>>
      /\ \A q \in Pid : step'[q] = IF q = c THEN "select" ELSE step[q]
      /\ commands'[SlotOf(c)] = EMPTY
      /\ \A q \in Holders : /\ commands'[SlotOf(q)] = commands[SlotOf(q)]
                            /\ suspendedProcesses'[SlotOf(q)] = suspendedProcesses[SlotOf(q)]
  BY ProcessForkFacts, Zenon
<1>2. Others(c)
  BY <1>1, Zenon DEF Others, Command, Flag
<1>3. ~ Wakes(c) /\ ~ Leaving(c) /\ ~ Wakes(c)' /\ ~ Leaving(c)'
  BY <1>1, Zenon DEF Wakes, Leaving
<1>4. c \in Going /\ c \in Going' /\ Command(c)' = EMPTY
  BY <1>1, <1>3, ZenonT(30) DEF Going, Doomed, Command
<1> QED BY <1>1, <1>2, <1>3, <1>4, OneActor, ZenonT(30) DEF OneInv, Orders

\* ~StateManager, which does not take the role of the keeper from anybody: the
\* keeper does not leave before it has read its command.
LEMMA DestroyOne ==
    ASSUME SetFacts, SMBase, OneInv, NEW p \in Pid, DestroyStateManager(p)
    PROVE  OneInv'
<1>1. /\ p \in Holders /\ step[p] = "exiting"
      /\ Holders' = Holders /\ Alive' = Alive /\ \A q : SlotOf(q)' = SlotOf(q)
      /\ UNCHANGED <<commands, suspendedProcesses, timeUp, states, finished>>
      /\ \A q \in Pid : /\ step'[q] = IF q = p THEN "destroyed" ELSE step[q]
                        /\ m_succeeded'[q] = IF q = p THEN {} ELSE m_succeeded[q]
      /\ keepOneStateOnNode' =
             IF keepOneStateOnNode = SlotOf(p) THEN None ELSE keepOneStateOnNode
  BY DestroyFacts, Zenon
<1>2. Others(p)
  BY <1>1, Zenon DEF Others, Command, Flag
<1>3. ~ Wakes(p) /\ ~ Wakes(p)' /\ Leaving(p) /\ Leaving(p)' /\ ~ Keeper(p)
  BY <1>1, ZenonT(30) DEF Wakes, Leaving, Keeper
<1>4. p \notin Going /\ p \notin Going'
  BY <1>3, Zenon DEF Going, Doomed
<1>5. keepOneStateOnNode' = keepOneStateOnNode
  <2> SUFFICES ASSUME keepOneStateOnNode = SlotOf(p), keepOneStateOnNode # None PROVE FALSE
    BY <1>1, Zenon
  <2>1. PICK q \in Holders : Keeper(q) /\ SlotOf(q) = SlotOf(p)
    BY Zenon DEF OneInv, Orders
  <2>2. q = p
    BY <1>1, <2>1, HolderSlots, ZenonT(30)
  <2> QED BY <1>3, <2>1, <2>2, ZenonT(30)
<1> QED BY <1>1, <1>2, <1>3, <1>4, <1>5, OneActor, ZenonT(30) DEF OneInv, Orders

\* ~S2E.
LEMMA ExitOne ==
    ASSUME SetFacts, SMBase, IInv', OneInv, NEW p \in Pid, Exit(p)
    PROVE  OneInv'
<1>1. /\ p \in Holders /\ step[p] = "destroyed"
      /\ Holders' = Holders \ {p} /\ Alive' = Alive \ {p}
      /\ \A q \in Pid \ {p} : SlotOf(q)' = SlotOf(q) /\ step'[q] = step[q]
      /\ UNCHANGED <<commands, suspendedProcesses, keepOneStateOnNode, timeUp,
                     states, m_succeeded, finished>>
  BY ExitFacts, Zenon
<1>2. Others(p)
  BY <1>1, Zenon DEF Others, Command, Flag
<1>3. p \notin Going /\ p \notin Going' /\ ~ Keeper(p)
  BY <1>1, Zenon DEF Going, Doomed, Leaving, Keeper, Wakes
<1> QED BY <1>1, <1>2, <1>3, OneActor, ZenonT(30) DEF OneInv, Orders

\* ::fork gives every state to one of the two and the successful ones to both.
LEMMA BalanceForkOne ==
    ASSUME SetFacts, SMBase, OneInv, NEW p \in Pid, NEW c \in Pid, BalanceFork(p, c)
    PROVE  OneInv'
<1>1. PICK lower \in SUBSET states[p] :
          states' = [states EXCEPT ![p] = lower, ![c] = states[p] \ lower]
  BY Zenon DEF BalanceFork, kSubset
<1>2. /\ phase[p] = "reserved" /\ phase[c] = "absent" /\ p # c /\ step[p] = "forking"
      /\ phase' = [phase EXCEPT ![p] = "running", ![c] = "born"]
      /\ m_succeeded' = [m_succeeded EXCEPT ![c] = m_succeeded[p]]
      /\ step' = [step EXCEPT ![p] = "select", ![c] = "postfork"]
      /\ UNCHANGED <<suspendedProcesses, timeUp, finished>>
      /\ phase \in [Pid -> Phase] /\ SMTypeOK
  BY Zenon DEF BalanceFork, ForkChild, smShared, history, SMBase, SMTypeOK, TypeOK
<1>3. /\ UNCHANGED <<commands, keepOneStateOnNode>> /\ Holders' = Holders
      /\ \A q \in Holders : SlotOf(q)' = SlotOf(q)
  <2>1. Calm
    BY Zenon DEF Calm
  <2> QED BY <2>1, CalmStep, ZenonT(30)
<1>4. /\ Alive' = Alive \cup {c} /\ p \in Alive /\ c \notin Alive /\ c \notin Holders
      /\ Alive \subseteq Pid /\ Holders \subseteq Alive
  BY <1>2, Zenon DEF Alive, Holders, Owners
<1>5. /\ \A q \in Pid \ {p, c} : /\ step'[q] = step[q] /\ states'[q] = states[q]
                                 /\ m_succeeded'[q] = m_succeeded[q]
      /\ step'[p] = "select" /\ states'[p] = lower /\ m_succeeded'[p] = m_succeeded[p]
      /\ step'[c] = "postfork" /\ states'[c] = states[p] \ lower
      /\ m_succeeded'[c] = m_succeeded[p]
  BY <1>1, <1>2, ZenonT(30) DEF SMTypeOK
<1>6. /\ ~ Wakes(p) /\ ~ Leaving(p) /\ ~ Wakes(p)' /\ ~ Leaving(p)'
      /\ ~ Wakes(c)' /\ ~ Leaving(c)'
  BY <1>2, <1>5, ZenonT(30) DEF Wakes, Leaving
<1>7. p \in Going /\ \A q \in Holders : ~ Keeper(q)
  BY <1>4, <1>6, GoesOn, ZenonT(30) DEF OneInv, Keeper
<1>8. \A q \in Holders : Command(q)' = Command(q) /\ Flag(q)' = Flag(q)
  BY <1>2, <1>3, ZenonT(30) DEF Command, Flag
<1>9. ASSUME NEW q \in Alive, q # p
      PROVE  /\ Leaving(q)' <=> Leaving(q)
             /\ Wakes(q)' <=> Wakes(q)
             /\ Doomed(q)' <=> Doomed(q)
  <2>1. step'[q] = step[q] /\ states'[q] = states[q] /\ q \in Pid
    BY <1>4, <1>5, <1>9, ZenonT(30)
  <2>2. q \notin Holders => step[q] \notin {"woken", "suspended"}
    BY <2>1, CallbackRuns, ZenonT(30)
  <2>3. Leaving(q)' <=> Leaving(q)
    BY <2>1, Zenon DEF Leaving
  <2>4. (Wakes(q)' <=> Wakes(q)) /\ (q \notin Holders => ~ Wakes(q))
    BY <1>8, <2>1, <2>2, ZenonT(30) DEF Wakes
  <2> QED BY <1>3, <1>8, <2>1, <2>3, <2>4, ZenonT(30) DEF Doomed
<1>10. Going' = Going \cup {c} /\ Going \subseteq Alive
  BY <1>4, <1>6, <1>7, <1>9, ZenonT(30) DEF Going, Doomed
<1>11. Orders'
  <2>1. ASSUME NEW q \in Holders
        PROVE  /\ Command(q)' # EMPTY => Wakes(q)' \/ Leaving(q)'
               /\ Wakes(q)' /\ Command(q)' # EMPTY => states'[q] = {} /\ m_succeeded'[q] # {}
               /\ ~ Keeper(q)'
    <3>1. CASE q = p
      BY <1>6, <1>7, <1>8, <2>1, <3>1, ZenonT(30) DEF OneInv, Orders, Keeper
    <3>2. CASE q # p
      <4>1. q \in Alive /\ q \in Pid \ {p, c}
        BY <1>4, <2>1, <3>2, ZenonT(30)
      <4>2. /\ states'[q] = states[q] /\ m_succeeded'[q] = m_succeeded[q]
            /\ Command(q)' = Command(q) /\ SlotOf(q)' = SlotOf(q)
            /\ Wakes(q)' <=> Wakes(q)
            /\ Leaving(q)' <=> Leaving(q)
        BY <1>3, <1>5, <1>8, <1>9, <2>1, <3>2, <4>1, ZenonT(30)
      <4>3. /\ Command(q) # EMPTY => Wakes(q) \/ Leaving(q)
            /\ Wakes(q) /\ Command(q) # EMPTY => states[q] = {} /\ m_succeeded[q] # {}
            /\ ~ Keeper(q)
        BY <1>7, <2>1, ZenonT(30) DEF OneInv, Orders
      <4> QED BY <4>2, <4>3, ZenonT(30) DEF Keeper
    <3> QED BY <3>1, <3>2, ZenonT(30)
  <2>2. keepOneStateOnNode = None
    BY <1>7, ZenonT(30) DEF OneInv, Orders
  <2> QED BY <1>2, <1>3, <2>1, <2>2, ZenonT(30) DEF OneInv, Orders
<1>12. Disjoint'
  <2> DEFINE Of(q) == IF q = c THEN p ELSE q
  <2>1. ASSUME NEW q \in Going'
        PROVE  /\ Of(q) \in Going /\ states'[q] \subseteq states[Of(q)]
               /\ m_succeeded'[q] = m_succeeded[Of(q)]
    BY <1>4, <1>5, <1>7, <1>10, <2>1, ZenonT(30)
  <2>2. ASSUME NEW q \in Going', NEW r \in Going'
        PROVE  states'[q] \cap m_succeeded'[r] = {}
    BY <2>1, <2>2, ZenonT(30) DEF OneInv, Disjoint
  <2>3. ASSUME NEW q \in Going', NEW r \in Going', q # r
        PROVE  states'[q] \cap states'[r] = {}
    <3>1. CASE Of(q) # Of(r)
      BY <2>1, <2>3, <3>1, ZenonT(30) DEF OneInv, Disjoint
    <3>2. CASE Of(q) = Of(r)
      <4>1. (q = p /\ r = c) \/ (q = c /\ r = p)
        BY <2>3, <3>2, ZenonT(30)
      <4> QED BY <1>5, <4>1, Zenon
    <3> QED BY <3>1, <3>2, ZenonT(30)
  <2> QED BY <2>2, <2>3, ZenonT(30) DEF Disjoint
<1>13. Survives'
  <2> SUFFICES ASSUME finished = {}
               PROVE  \E q \in Going' : states'[q] \cup m_succeeded'[q] # {}
    BY <1>2, ZenonT(30) DEF Survives
  <2>1. PICK q \in Going : states[q] \cup m_succeeded[q] # {}
    BY Zenon DEF OneInv, Survives
  <2>2. CASE q = p
    <3>1. states'[p] \cup m_succeeded'[p] # {} \/ states'[c] \cup m_succeeded'[c] # {}
      BY <1>5, <2>1, <2>2, ZenonT(30)
    <3> QED BY <1>7, <1>10, <3>1, ZenonT(30)
  <2>3. CASE q # p
    <3>1. q \in Pid \ {p, c}
      BY <1>4, <1>10, <2>1, <2>3, ZenonT(30)
    <3> QED BY <1>5, <1>10, <2>1, <3>1, ZenonT(30)
  <2> QED BY <2>2, <2>3, ZenonT(30)
<1> QED BY <1>11, <1>12, <1>13, ZenonT(30) DEF OneInv

\* A critical section of sm_callback that leaves the commands of the others alone.
LEMMA OutcomeOthers ==
    ASSUME SetFacts, SMBase, NEW p \in Holders, NEW L, NEW S, NEW K, NEW k, NEW next,
           Outcome(p, L, S, K, k, suspendedProcesses, next),
           Typed(p, L, S, K, k, suspendedProcesses, next),
           \A i \in Slot : i # SlotOf(p) => K[i] = commands[i]
    PROVE  Others(p)
<1>1. \A q \in Holders : q # p => SlotOf(q) \in Slot /\ SlotOf(q) # SlotOf(p)
  BY HolderSlots, ZenonT(30)
<1>2. /\ Holders' = Holders /\ Alive' = Alive /\ \A q : SlotOf(q)' = SlotOf(q)
      /\ \A q \in Pid : /\ step'[q] = IF q = p THEN next ELSE step[q]
                        /\ states'[q] = IF q = p THEN L ELSE states[q]
                        /\ m_succeeded'[q] = IF q = p THEN S ELSE m_succeeded[q]
      /\ commands' = K /\ suspendedProcesses' = suspendedProcesses
  BY OutcomeHolders, SMTT(40)
<1> QED BY <1>1, <1>2, ZenonT(30) DEF Others, Command, Flag

\* selectNextState(): without a command and without the timeout it kills nothing.
LEMMA SelectOne ==
    ASSUME SetFacts, SMBase, OneInv, NEW p \in Pid, SelectNextState(p)
    PROVE  OneInv'
<1>1. /\ p \in Holders /\ phase[p] = "running" /\ step[p] \in {"exec", "select"}
      /\ SlotOf(p) \in Slot /\ p \in Alive
  BY SelectCases, HolderSlots, ZenonT(30) DEF Alive
<1>2. PICK L, S, K, k, next : /\ Outcome(p, L, S, K, k, suspendedProcesses, next)
                              /\ Typed(p, L, S, K, k, suspendedProcesses, next)
                              /\ SelectResult(p, L, S, K, k, next)
  BY SelectCases, Zenon
<1>3. ~ Wakes(p) /\ ~ Leaving(p) /\ ~ timeUp
  BY <1>1, Zenon DEF Wakes, Leaving, OneInv, Orders
<1>4. /\ p \in Going /\ commands[SlotOf(p)] = EMPTY /\ SlotOf(p) # EMPTY
      /\ \A q \in Holders : ~ Keeper(q)
  <2>1. SlotOf(p) # EMPTY
    BY <1>1, MaxProcessesAssumption, SMTT(40) DEF Slot, EMPTY
  <2> QED BY <1>1, <1>3, <2>1, GoesOn, ZenonT(30) DEF OneInv, Command, Keeper
<1>5. /\ L = states[p] /\ S = m_succeeded[p] /\ K = commands /\ k = keepOneStateOnNode
      /\ next \in {"exec", "exiting", "suspending"} /\ (next = "exiting" => S = {} /\ L = {})
  BY <1>2, <1>3, <1>4, ZenonT(30) DEF SelectResult, ReadOutcome, Typed
<1>6. /\ Holders' = Holders /\ Alive' = Alive /\ \A q : SlotOf(q)' = SlotOf(q)
      /\ \A q \in Pid : /\ step'[q] = IF q = p THEN next ELSE step[q]
                        /\ states'[q] = states[q] /\ m_succeeded'[q] = m_succeeded[q]
      /\ commands' = commands /\ keepOneStateOnNode' = keepOneStateOnNode
      /\ finished' = finished
  BY <1>1, <1>2, <1>5, OutcomeHolders, SMTT(40)
<1>7. Others(p) /\ ~ timeUp'
  BY <1>1, <1>2, <1>3, <1>5, OutcomeOthers, ZenonT(30) DEF Outcome
<1>8. ~ Wakes(p)' /\ Command(p)' = EMPTY /\ (p \notin Going' => next = "exiting")
  BY <1>1, <1>4, <1>5, <1>6, ZenonT(30) DEF Wakes, Command, Going, Doomed, Leaving
<1> QED BY <1>1, <1>4, <1>5, <1>6, <1>7, <1>8, OneActor, ZenonT(30)

\* The end of the wait: the process that is spared takes one successful state back,
\* one that is to die leaves, and who has no command goes on or leaves as it was.
LEMMA WokenOne ==
    ASSUME SetFacts, SMBase, OneInv, NEW p \in Pid, Woken(p)
    PROVE  OneInv'
<1>1. /\ p \in Holders /\ phase[p] = "running" /\ step[p] = "woken"
      /\ SlotOf(p) \in Slot /\ p \in Alive /\ SMTypeOK
  BY WokenCases, HolderSlots, ZenonT(30) DEF Alive, SMBase
<1>2. PICK L, S, K, k, next : /\ Outcome(p, L, S, K, k, suspendedProcesses, next)
                              /\ Typed(p, L, S, K, k, suspendedProcesses, next)
                              /\ ReadOutcome(p, L, S, K, k)
                              /\ next = IF L = {} THEN "exiting" ELSE "exec"
  BY WokenCases, ZenonT(30)
<1>3. /\ Holders' = Holders /\ Alive' = Alive /\ \A q : SlotOf(q)' = SlotOf(q)
      /\ step'[p] = next /\ states'[p] = L /\ m_succeeded'[p] = S
      /\ commands' = K /\ keepOneStateOnNode' = k /\ finished' = finished
  BY <1>1, <1>2, OutcomeHolders, SMTT(40)
<1>4. /\ commands \in [Slot -> {EMPTY, Everyone} \cup Slot] /\ SlotOf(p) # EMPTY
      /\ Wakes(p) /\ ~ Leaving(p) /\ ~ timeUp /\ ~ timeUp'
  <2>1. SlotOf(p) # EMPTY
    BY <1>1, MaxProcessesAssumption, SMTT(40) DEF Slot, EMPTY
  <2> QED BY <1>1, <1>2, <2>1, ZenonT(30) DEF SMTypeOK, Wakes, Leaving, OneInv, Orders, Outcome
<1>5. K[SlotOf(p)] = EMPTY /\ \A i \in Slot : i # SlotOf(p) => K[i] = commands[i]
  BY <1>1, <1>2, <1>4, ZenonT(30) DEF ReadOutcome
<1>6. Others(p)
  BY <1>1, <1>2, <1>5, OutcomeOthers, ZenonT(30)
<1>7. Command(p)' = EMPTY /\ ~ Wakes(p)' /\ (Leaving(p)' <=> L = {})
  BY <1>2, <1>3, <1>5, ZenonT(30) DEF Command, Wakes, Leaving
<1>8. p \in Going' <=> L # {}
  BY <1>1, <1>3, <1>7, ZenonT(30) DEF Going, Doomed
<1>9. p \in Going <=> states[p] # {} \/ Command(p) = SlotOf(p)
  BY <1>1, <1>4, ZenonT(30) DEF Going, Doomed
<1>10. CASE Command(p) = EMPTY
  <2>1. L = states[p] /\ S = m_succeeded[p] /\ k = keepOneStateOnNode
    BY <1>2, <1>4, <1>10, ZenonT(30) DEF ReadOutcome, Command
  <2>2. p \in Going' <=> p \in Going
    BY <1>4, <1>8, <1>9, <1>10, <2>1, ZenonT(30)
  <2> QED BY <1>3, <1>4, <1>6, <1>7, <1>10, <2>1, <2>2, OneActor, ZenonT(30) DEF Keeper
<1>11. CASE Command(p) \notin {EMPTY, SlotOf(p)}
  <2>1. L = {} /\ k = keepOneStateOnNode
    BY <1>2, <1>11, ZenonT(30) DEF ReadOutcome, Command
  <2>2. states[p] = {}
    BY <1>1, <1>4, <1>11, ZenonT(30) DEF OneInv, Orders
  <2>3. p \notin Going /\ p \notin Going'
    BY <1>8, <1>9, <1>11, <2>1, <2>2, ZenonT(30)
  <2> QED BY <1>3, <1>4, <1>6, <1>7, <1>11, <2>1, <2>3, OneActor, ZenonT(30) DEF Keeper
<1>12. CASE Command(p) = SlotOf(p)
  <2>1. Keeper(p) /\ Going = {p} /\ m_succeeded[p] # {}
    BY <1>1, <1>4, <1>12, ZenonT(30) DEF Keeper, OneInv, Orders
  <2>2. PICK one \in m_succeeded[p] : L = {one}
    BY <1>2, <1>4, <1>12, <2>1, ZenonT(30) DEF ReadOutcome, Command
  <2>3. S = {} /\ k = None
    BY <1>2, <1>4, <1>12, ZenonT(30) DEF ReadOutcome, Command
  <2>4. \A q \in Pid \ {p} : q \notin Going' /\ (q \in Holders => ~ Keeper(q)')
    <3>1. ASSUME NEW q \in Pid \ {p} PROVE q \notin Going' /\ (q \in Holders => ~ Keeper(q)')
      <4>1. /\ q \in Going' <=> q \in Going
            /\ q \in Holders => (Keeper(q)' <=> Keeper(q))
        BY <1>6, OthersSame, ZenonT(30)
      <4>2. q \in Holders => ~ Keeper(q)
        BY <2>1, <3>1, ZenonT(30) DEF OneInv, Orders
      <4> QED BY <2>1, <4>1, <4>2, ZenonT(30)
    <3> QED BY <3>1, ZenonT(30)
  <2>5. Going' = {p}
    <3>1. Going' \subseteq Pid
      BY Zenon DEF Going, Alive
    <3> QED BY <1>8, <2>2, <2>4, <3>1, ZenonT(30)
  <2>6. ASSUME NEW q \in Holders, q # p
        PROVE  /\ Command(q)' # EMPTY => Wakes(q)' \/ Leaving(q)'
               /\ Wakes(q)' /\ Command(q)' # EMPTY => states'[q] = {} /\ m_succeeded'[q] # {}
               /\ ~ Keeper(q)'
    <3>1. q \in Pid \ {p}
      BY <2>6, ZenonT(30) DEF Holders, Owners
    <3>2. /\ Leaving(q)' <=> Leaving(q)
          /\ Wakes(q)' <=> Wakes(q)
      BY <1>6, <2>6, <3>1, OthersSame, ZenonT(30)
    <3>3. Command(q)' = Command(q) /\ states'[q] = states[q] /\ m_succeeded'[q] = m_succeeded[q]
      BY <1>6, <2>6, <3>1, ZenonT(30) DEF Others
    <3> QED BY <2>4, <2>6, <3>1, <3>2, <3>3, ZenonT(30) DEF OneInv, Orders
  <2>7. Orders'
    <3>1. \A q \in Holders' :
              /\ Command(q)' # EMPTY => Wakes(q)' \/ Leaving(q)'
              /\ Wakes(q)' /\ Command(q)' # EMPTY => states'[q] = {} /\ m_succeeded'[q] # {}
              /\ ~ Keeper(q)'
      BY <1>3, <1>7, <2>6, ZenonT(30) DEF Keeper
    <3> QED BY <1>3, <1>4, <2>3, <3>1, ZenonT(30) DEF Orders
  <2>8. Disjoint' /\ Survives'
    BY <1>3, <2>2, <2>3, <2>5, ZenonT(30) DEF Disjoint, Survives
  <2> QED BY <2>7, <2>8, ZenonT(30) DEF OneInv
<1> QED BY <1>10, <1>11, <1>12, ZenonT(30)

\* When as many processes are marked as suspended as there are, all of them wait.
AllWaiting ==
    getSuspendedProcessCount = currentProcessCount =>
        /\ \A p \in Alive : p \in Holders /\ step[p] = "suspended" /\ Flag(p)
        /\ \A i \in UsedSlots : suspendedProcesses[i]

\* A process that somebody has resumed stops waiting.
LEMMA ResumedOne ==
    ASSUME SetFacts, SMBase, OneInv, NEW p \in Holders, step[p] = "suspended", ~ Flag(p),
           states[p] = {}, m_succeeded[p] # {},
           Outcome(p, {}, m_succeeded[p], commands, keepOneStateOnNode, suspendedProcesses, "woken")
    PROVE  OneInv'
<1>1. Typed(p, {}, m_succeeded[p], commands, keepOneStateOnNode, suspendedProcesses, "woken")
  BY ZenonT(30) DEF Typed, SMBase, SMTypeOK
<1>2. /\ Holders' = Holders /\ Alive' = Alive /\ \A q : SlotOf(q)' = SlotOf(q)
      /\ \A q \in Pid : /\ step'[q] = IF q = p THEN "woken" ELSE step[q]
                        /\ states'[q] = states[q] /\ m_succeeded'[q] = m_succeeded[q]
      /\ commands' = commands /\ keepOneStateOnNode' = keepOneStateOnNode
      /\ finished' = finished /\ suspendedProcesses' = suspendedProcesses
  BY <1>1, OutcomeHolders, SMTT(40)
<1>3. ~ timeUp /\ ~ timeUp'
  BY Zenon DEF OneInv, Orders, Outcome
<1>4. \A q : Command(q)' = Command(q) /\ Flag(q)' = Flag(q)
  BY <1>2, Zenon DEF Command, Flag
<1>5. \A q \in Pid : /\ Wakes(q)' <=> Wakes(q)
                     /\ Leaving(q)' <=> Leaving(q)
  BY <1>2, <1>4, ZenonT(30) DEF Wakes, Leaving
<1>6. \A q \in Pid : /\ Keeper(q)' <=> Keeper(q)
                     /\ Doomed(q)' <=> Doomed(q)
  BY <1>2, <1>4, <1>5, ZenonT(30) DEF Keeper, Doomed
<1>7. Going' = Going /\ Going \subseteq Pid /\ Holders \subseteq Pid
  BY <1>2, <1>6, ZenonT(30) DEF Going, Alive, Holders, Owners
<1>8. Orders'
  BY <1>2, <1>3, <1>4, <1>5, <1>6, <1>7, ZenonT(30) DEF OneInv, Orders
<1>9. Disjoint' /\ Survives'
  BY <1>2, <1>7, ZenonT(30) DEF OneInv, Disjoint, Survives
<1> QED BY <1>8, <1>9, ZenonT(30) DEF OneInv

\* Nobody has anything to read while all wait, and no node is named.
LEMMA AllGoOn ==
    ASSUME SetFacts, SMBase, OneInv, AllWaiting, getSuspendedProcessCount = currentProcessCount
    PROVE  /\ keepOneStateOnNode = None
           /\ \A q \in Alive : /\ q \in Pid /\ q \in Holders /\ step[q] = "suspended"
                               /\ SlotOf(q) \in Slot /\ commands[SlotOf(q)] = EMPTY
                               /\ states[q] = {} /\ m_succeeded[q] # {}
           /\ Holders \subseteq Alive
           /\ \A i \in UsedSlots : \E q \in Holders : SlotOf(q) = i
<1>1. Holders \subseteq Alive /\ Alive \subseteq Pid
  BY Zenon DEF Holders, Owners, Alive
<1>2. \A q \in Alive : /\ q \in Holders /\ step[q] = "suspended"
                       /\ ~ Wakes(q) /\ ~ Leaving(q)
  BY Zenon DEF AllWaiting, Wakes, Leaving
<1>3. \A q \in Alive : SlotOf(q) \in Slot /\ states[q] = {} /\ m_succeeded[q] # {}
  BY <1>1, <1>2, HolderSlots, ZenonT(30) DEF SMBase, Life, LifeOf
<1>4. \A q \in Alive : commands[SlotOf(q)] = EMPTY
  BY <1>2, ZenonT(30) DEF OneInv, Orders, Command
<1>5. keepOneStateOnNode = None
  BY <1>1, <1>2, ZenonT(30) DEF OneInv, Orders, Keeper
<1>6. \A i \in UsedSlots : \E q \in Holders : SlotOf(q) = i
  BY Zenon DEF AllWaiting, UsedSlots, SMBase, Flags
<1> QED BY <1>1, <1>2, <1>3, <1>4, <1>5, <1>6, ZenonT(30)

\* After the decision one process t has a state to go on with, and all others
\* are resumed without a state to run, with or without a kill to read.
LEMMA DecisionOne ==
    ASSUME NEW t \in Alive, Alive' = Alive, Holders' \subseteq Alive, ~ timeUp', t \in Holders',
           states'[t] \cup m_succeeded'[t] # {}, states'[t] \cap m_succeeded'[t] = {},
           ~ Doomed(t)',
           \A q \in Alive \ {t} : /\ Wakes(q)' /\ states'[q] = {} /\ m_succeeded'[q] # {}
                                  /\ Command(q)' # SlotOf(q)',
           Command(t)' # EMPTY => Wakes(t)' /\ states'[t] = {},
           \/ keepOneStateOnNode' = None
           \/ Keeper(t)' /\ SlotOf(t)' = keepOneStateOnNode'
    PROVE  OneInv'
<1>1. Going' = {t}
  <2>1. \A q \in Alive \ {t} : Doomed(q)'
    BY Zenon DEF Doomed
  <2> QED BY <2>1, ZenonT(30) DEF Going
<1>2. \A q \in Holders' : Keeper(q)' => q = t
  BY Zenon DEF Keeper
<1>3. Orders'
  <2>1. \A q \in Holders' :
            /\ Command(q)' # EMPTY => Wakes(q)' \/ Leaving(q)'
            /\ Wakes(q)' /\ Command(q)' # EMPTY => states'[q] = {} /\ m_succeeded'[q] # {}
            /\ Keeper(q)' => Going' = {q}
    BY <1>1, <1>2, ZenonT(30)
  <2> QED BY <2>1, ZenonT(30) DEF Orders
<1>4. Disjoint' /\ Survives'
  BY <1>1, ZenonT(30) DEF Disjoint, Survives
<1> QED BY <1>3, <1>4, ZenonT(30) DEF OneInv

\* All processes wait: p keeps a state itself or leaves that to another process.
LEMMA DecideOne ==
    ASSUME SetFacts, SMBase, OneInv, AllWaiting, getSuspendedProcessCount = currentProcessCount,
           NEW p \in Holders, NEW L, NEW S, NEW K, NEW k, NEW f, NEW next,
           \A i \in Slot : ~ f[i],
           Outcome(p, L, S, K, k, f, next), Typed(p, L, S, K, k, f, next),
           PollResult(p, L, S, K, k, next)
    PROVE  OneInv'
<1>1. /\ keepOneStateOnNode = None
      /\ \A q \in Alive : /\ q \in Pid /\ q \in Holders /\ step[q] = "suspended"
                          /\ SlotOf(q) \in Slot /\ commands[SlotOf(q)] = EMPTY
                          /\ states[q] = {} /\ m_succeeded[q] # {}
      /\ p \in Alive
  BY AllGoOn, Zenon
<1>2. \A i \in UsedSlots : \E q \in Holders : SlotOf(q) = i
  BY AllGoOn, ZenonT(30)
<1>3. /\ Holders' = Holders /\ Alive' = Alive /\ Holders \subseteq Alive
      /\ \A q : SlotOf(q)' = SlotOf(q)
      /\ \A q \in Pid : /\ step'[q] = IF q = p THEN next ELSE step[q]
                        /\ states'[q] = IF q = p THEN L ELSE states[q]
                        /\ m_succeeded'[q] = IF q = p THEN S ELSE m_succeeded[q]
      /\ commands' = K /\ keepOneStateOnNode' = k /\ suspendedProcesses' = f
  <2>1. Holders \subseteq Alive
    BY AllGoOn, Zenon
  <2> QED BY <2>1, OutcomeHolders, SMTT(40)
<1>4. ~ timeUp'
  BY ZenonT(30) DEF OneInv, Orders, Outcome
<1>5. \A i \in Slot : i # EMPTY /\ i # Everyone /\ i # None
  BY MaxProcessesAssumption, SMTT(40) DEF Slot, EMPTY, Everyone, None
<1>6. \A q \in Alive \ {p} : /\ Wakes(q)' /\ states'[q] = {} /\ m_succeeded'[q] # {}
                             /\ SlotOf(q) # SlotOf(p)
  <2>1. \A q \in Alive \ {p} : Wakes(q)'
    BY <1>1, <1>3, ZenonT(30) DEF Wakes, Flag
  <2>2. \A q \in Alive \ {p} : SlotOf(q) # SlotOf(p)
    BY <1>1, HolderSlots, ZenonT(30)
  <2> QED BY <1>1, <1>3, <2>1, <2>2, ZenonT(30)
<1>7. CASE /\ KeepOutcome(p, L, S, K, k) /\ next \in {"exec", "woken"}
  <2>1. /\ k = None /\ S = {} /\ L # {} /\ K[SlotOf(p)] = EMPTY
        /\ \A i \in Slot : i # SlotOf(p) => K[i] = Everyone
    BY <1>1, <1>7, ZenonT(30) DEF KeepOutcome
  <2>2. Command(p)' = EMPTY /\ states'[p] = L /\ m_succeeded'[p] = {} /\ step'[p] = next
    BY <1>1, <1>3, <2>1, ZenonT(30) DEF Command
  <2>3. ~ Doomed(p)'
    BY <1>7, <2>1, <2>2, ZenonT(30) DEF Doomed, Leaving
  <2>4. \A q \in Alive \ {p} : Command(q)' # SlotOf(q)'
    BY <1>1, <1>3, <1>5, <1>6, <2>1, ZenonT(30) DEF Command
  <2> QED BY <1>1, <1>3, <1>4, <1>6, <2>1, <2>2, <2>3, <2>4, DecisionOne, ZenonT(30)
<1>8. CASE /\ YieldOutcome(p, L, S, K, k) /\ next = "woken" /\ S = m_succeeded[p]
           /\ K[SlotOf(p)] = commands[SlotOf(p)]
           /\ k = keepOneStateOnNode \/ k \in UsedSlots
  <2>1. /\ k \in Slot /\ k # SlotOf(p) /\ L = {} /\ k \in UsedSlots
        /\ \A i \in Slot : i # SlotOf(p) => K[i] = k
    BY <1>1, <1>5, <1>8, ZenonT(30) DEF YieldOutcome
  <2>2. PICK t \in Holders : SlotOf(t) = k
    BY <1>2, <2>1, ZenonT(30)
  <2>3. t \in Alive /\ t \in Pid /\ t # p
    BY <1>1, <1>3, <2>1, <2>2, ZenonT(30)
  <2>4. /\ Wakes(t)' /\ states'[t] = {} /\ m_succeeded'[t] # {}
        /\ Command(t)' = SlotOf(t)' /\ SlotOf(t)' = k
    BY <1>3, <1>6, <2>1, <2>2, <2>3, ZenonT(30) DEF Command
  <2>5. Keeper(t)' /\ ~ Leaving(t)'
    BY <1>1, <1>3, <2>3, <2>4, ZenonT(30) DEF Keeper, Leaving
  <2>6. \A q \in Alive \ {t} : /\ Wakes(q)' /\ states'[q] = {} /\ m_succeeded'[q] # {}
                               /\ Command(q)' # SlotOf(q)'
    <3>1. ASSUME NEW q \in Alive \ {t}, q # p
          PROVE  /\ Wakes(q)' /\ states'[q] = {} /\ m_succeeded'[q] # {}
                 /\ Command(q)' # SlotOf(q)'
      <4>1. SlotOf(q) # k /\ SlotOf(q) \in Slot /\ SlotOf(q) # SlotOf(p)
        BY <1>1, <1>6, <2>2, <3>1, HolderSlots, ZenonT(30)
      <4> QED BY <1>3, <1>6, <2>1, <3>1, <4>1, ZenonT(30) DEF Command
    <3>2. /\ Wakes(p)' /\ states'[p] = {} /\ m_succeeded'[p] # {}
          /\ Command(p)' # SlotOf(p)'
      BY <1>1, <1>3, <1>5, <1>8, <2>1, ZenonT(30) DEF Wakes, Command
    <3> QED BY <3>1, <3>2, ZenonT(30)
  <2>7. ~ Doomed(t)'
    BY <2>4, <2>5, Zenon DEF Doomed
  <2> QED BY <1>3, <1>4, <2>2, <2>3, <2>4, <2>5, <2>6, <2>7, DecisionOne, Zenon
<1> QED BY <1>7, <1>8, ZenonT(30) DEF PollResult

\* A turn of the waiting loop.
LEMMA PollOne ==
    ASSUME SetFacts, SMBase, OneInv, AllWaiting, NEW p \in Pid, Poll(p)
    PROVE  OneInv'
<1> DEFINE f == [i \in Slot |-> FALSE]
<1>1. \A i \in Slot : ~ f[i]
  BY Zenon
<1>2. /\ p \in Holders /\ step[p] = "suspended" /\ states[p] = {} /\ m_succeeded[p] # {}
      /\ \/ /\ ~ suspendedProcesses[SlotOf(p)]
            /\ Outcome(p, {}, m_succeeded[p], commands, keepOneStateOnNode,
                       suspendedProcesses, "woken")
         \/ /\ getSuspendedProcessCount = currentProcessCount
            /\ \E L, S, K, k, next : /\ Outcome(p, L, S, K, k, f, next)
                                     /\ Typed(p, L, S, K, k, f, next)
                                     /\ PollResult(p, L, S, K, k, next)
  BY PollCases, Zenon
<1> HIDE DEF f
<1>3. CASE /\ ~ suspendedProcesses[SlotOf(p)]
           /\ Outcome(p, {}, m_succeeded[p], commands, keepOneStateOnNode,
                      suspendedProcesses, "woken")
  BY <1>2, <1>3, ResumedOne, ZenonT(30) DEF Flag
<1>4. ASSUME getSuspendedProcessCount = currentProcessCount, NEW L, NEW S, NEW K, NEW k, NEW next,
             Outcome(p, L, S, K, k, f, next), Typed(p, L, S, K, k, f, next),
             PollResult(p, L, S, K, k, next)
      PROVE  OneInv'
  BY <1>1, <1>2, <1>4, DecideOne, ZenonT(30)
<1> QED BY <1>2, <1>3, <1>4, ZenonT(30)

\* Every step keeps OneInv when no timeout is configured.
LEMMA NextOne ==
    ASSUME SetFacts, ~ UseTimeout, SMBase, IInv', AllWaiting, OneInv, [SMNext]_allVars
    PROVE  OneInv'
<1>1. CASE Calm
  <2>1. ASSUME NEW p \in Pid, ForkState(p) \/ FinishState(p) \/ SucceedState(p) PROVE OneInv'
    BY <2>1, GuestOne, ZenonT(30)
  <2>2. ASSUME NEW p \in Pid, NewBlockCovered(p) PROVE FALSE
    BY <2>2, Zenon DEF NewBlockCovered, OneInv, Orders
  <2>3. ASSUME NEW p \in Pid, BalanceStart(p) \/ BalanceFailed(p) \/ ChildStep(p) PROVE OneInv'
    BY <2>3, BalanceOne, ZenonT(30)
  <2>4. ASSUME NEW p \in Pid, Suspend(p) PROVE OneInv'
    BY <2>4, SuspendOne, ZenonT(30)
  <2>5. ASSUME NEW p \in Pid, NEW c \in Pid, BalanceFork(p, c) PROVE OneInv'
    BY <2>5, BalanceForkOne, ZenonT(30)
  <2>6. ~ Tick
    BY ZenonT(30) DEF Tick
  <2>7. CASE UNCHANGED allVars
    <3>1. UNCHANGED <<phase, m_currentProcessId, step, states, m_succeeded, commands,
                      suspendedProcesses, keepOneStateOnNode, timeUp, finished>>
      BY <2>7, Zenon DEF allVars, vars, smVars, smShared, local, history
    <3>2. Alive' = Alive /\ Holders' = Holders /\ \A q : SlotOf(q)' = SlotOf(q)
      BY <3>1, Zenon DEF Alive, Holders, Owners, SlotOf
    <3>3. \A q : /\ Command(q)' = Command(q) /\ (Wakes(q)' <=> Wakes(q))
                 /\ Leaving(q)' <=> Leaving(q)
      BY <3>1, <3>2, Zenon DEF Command, Wakes, Flag, Leaving
    <3>4. \A q : (Keeper(q)' <=> Keeper(q)) /\ (Doomed(q)' <=> Doomed(q))
      BY <3>1, <3>2, <3>3, Zenon DEF Keeper, Doomed
    <3>5. Going' = Going
      BY <3>2, <3>4, Zenon DEF Going
    <3>6. Orders'
      BY <3>1, <3>2, <3>3, <3>4, <3>5, Zenon DEF OneInv, Orders
    <3>7. Disjoint' /\ Survives'
      BY <3>1, <3>5, Zenon DEF OneInv, Disjoint, Survives
    <3> QED BY <3>6, <3>7, Zenon DEF OneInv
  <2> QED BY <1>1, <2>1, <2>2, <2>3, <2>4, <2>5, <2>6, <2>7, ZenonT(30) DEF Calm
<1>2. ASSUME NEW p \in Pid, SelectNextState(p) \/ Poll(p) \/ Woken(p) PROVE OneInv'
  BY <1>2, SelectOne, PollOne, WokenOne, ZenonT(30)
<1>3. ASSUME NEW p \in Pid, onProcessFork(p) \/ DestroyStateManager(p) \/ Exit(p) PROVE OneInv'
  BY <1>3, ProcessForkOne, DestroyOne, ExitOne, ZenonT(30)
<1> QED BY <1>1, <1>2, <1>3, StepKinds, ZenonT(30)

\* The first process starts with one state and nothing to read.
LEMMA InitOne ==
    ASSUME SetFacts, SMInit, SMBase
    PROVE  OneInv
<1> USE PidAssumption
<1>1. /\ Alive = {InitialPid} /\ \A q \in Pid : step[q] = "exec" /\ m_succeeded[q] = {}
      /\ states[InitialPid] = {0} /\ InitialPid \in Pid
      /\ ~ timeUp /\ keepOneStateOnNode = None
  BY Zenon DEF SMInit, Init, Alive
<1>2. \A q \in Pid : ~ Wakes(q) /\ ~ Leaving(q) /\ ~ Keeper(q) /\ ~ Doomed(q)
  BY <1>1, ZenonT(30) DEF Wakes, Leaving, Keeper, Doomed
<1>3. Going = {InitialPid}
  BY <1>1, <1>2, ZenonT(30) DEF Going
<1>4. \A q \in Holders : q \in Pid /\ Command(q) = EMPTY
  BY HolderSlots, Zenon DEF SMInit, Command
<1>5. Orders
  BY <1>1, <1>2, <1>4, ZenonT(30) DEF Orders
<1>6. Disjoint /\ Survives
  BY <1>1, <1>3, Zenon DEF Disjoint, Survives
<1> QED BY <1>5, <1>6, ZenonT(30) DEF OneInv

\* A process that does not go on has no state to run.
LEMMA RunOnce ==
    ASSUME SMBase, OneInv
    PROVE  PathsRunOnce
<1>1. \A p \in Alive : p \notin Going => states[p] = {}
  BY Zenon DEF Going, Doomed, Leaving, SMBase, Life, LifeOf, Alive
<1> QED BY <1>1, ZenonT(30) DEF PathsRunOnce, OneInv, Disjoint

LEMMA SomethingSurvives ==
    ASSUME OneInv
    PROVE  NotAllKilled
BY Zenon DEF NotAllKilled, OneInv, Survives, Going
=============================================================================
