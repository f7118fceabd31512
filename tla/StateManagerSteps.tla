-------------------------- MODULE StateManagerSteps ---------------------------
(***************************************************************************)
(* What the functions and the steps of StateManager leave behind, for any  *)
(* number of processes, slots and states, and that every step keeps        *)
(* SMBase.                                                                 *)
(***************************************************************************)
EXTENDS StateManager, TLAPS

\* Processes that hold a slot and are past their onProcessFork.
Holders == {p \in Owners : step[p] # "postfork"}

-----------------------------------------------------------------------------
(* The functions of the plugin. *)

\* What the plugin works on.
Views ==
    [slot : Slot, states : SUBSET StateId, killed : SUBSET StateId,
     succeeded : SUBSET StateId, current : StateId \cup {NoState},
     count : [Slot -> 0 .. MaxStateId],
     commands : [Slot -> {EMPTY, Everyone} \cup Slot],
     suspended : [Slot -> BOOLEAN], keepOne : {None} \cup Slot,
     timeUp : BOOLEAN, thrown : BOOLEAN]

\* What is used of the sizes of sets of states, and of the lowest slot of a set.
SetFacts ==
    /\ Cardinality({}) = 0
    /\ \A S \in SUBSET StateId :
           /\ Cardinality(S) \in 0 .. MaxStateId
           /\ Cardinality(S) = 0 <=> S = {}
           /\ \A s \in S : Cardinality(S \ {s}) = Cardinality(S) - 1
    /\ \A S \in SUBSET Slot : S # {} => Min(S) \in S

\* What a process starts its work on.
LEMMA ViewType ==
    ASSUME SMTypeOK, NEW p \in Pid
    PROVE  View(p) \in Views
BY Zenon DEF SMTypeOK, TypeOK, View, Views, SlotOf

\* resumeSucceeded() moves the successful states back.
LEMMA Resumed ==
    ASSUME NEW v \in Views
    PROVE  LET w == resumeSucceeded(v) IN
           /\ w \in Views /\ w.slot = v.slot /\ w.killed = v.killed
           /\ w.states = v.states \cup v.succeeded /\ w.succeeded = {}
           /\ w.count = [v.count EXCEPT ![v.slot] = 0]
           /\ w.current = v.current /\ w.commands = v.commands
           /\ w.suspended = v.suspended /\ w.keepOne = v.keepOne
           /\ w.timeUp = v.timeUp /\ w.thrown = v.thrown
<1> DEFINE a == [v EXCEPT !.states = @ \cup v.succeeded]
           b == [a EXCEPT !.succeeded = {}]
           c == [b EXCEPT !.count[v.slot] = 0]
<1>1. resumeSucceeded(v) = c
  BY Zenon DEF resumeSucceeded
<1>2. /\ a \in Views /\ a.slot = v.slot /\ a.killed = v.killed
      /\ a.states = v.states \cup v.succeeded /\ a.count = v.count
      /\ a.current = v.current /\ a.commands = v.commands
      /\ a.suspended = v.suspended /\ a.keepOne = v.keepOne
      /\ a.timeUp = v.timeUp /\ a.thrown = v.thrown
  BY Zenon DEF Views
<1> HIDE DEF a
<1>3. /\ b \in Views /\ b.slot = v.slot /\ b.killed = v.killed
      /\ b.states = v.states \cup v.succeeded /\ b.count = v.count
      /\ b.current = v.current /\ b.commands = v.commands /\ b.succeeded = {}
      /\ b.suspended = v.suspended /\ b.keepOne = v.keepOne
      /\ b.timeUp = v.timeUp /\ b.thrown = v.thrown
  BY <1>2, Zenon DEF Views
<1> HIDE DEF b
<1>4. /\ c \in Views /\ c.slot = v.slot /\ c.killed = v.killed
      /\ c.states = v.states \cup v.succeeded /\ c.count = [v.count EXCEPT ![v.slot] = 0]
      /\ c.current = v.current /\ c.commands = v.commands /\ c.succeeded = {}
      /\ c.suspended = v.suspended /\ c.keepOne = v.keepOne
      /\ c.timeUp = v.timeUp /\ c.thrown = v.thrown
  BY <1>3, MaxStateIdAssumption, SMTT(40) DEF Views
<1> HIDE DEF c
<1> QED BY <1>1, <1>4, Zenon

\* killAllExcept() marks the states that are not kept.
LEMMA Killed ==
    ASSUME NEW v \in Views, NEW keep
    PROVE  LET w == killAllExcept(v, keep) IN
           /\ w \in Views /\ w.slot = v.slot
           /\ w.killed = v.killed \cup (v.states \ keep)
           /\ w.states = v.states /\ w.succeeded = v.succeeded
           /\ w.count = v.count
           /\ w.current = v.current /\ w.commands = v.commands
           /\ w.suspended = v.suspended /\ w.keepOne = v.keepOne
           /\ w.timeUp = v.timeUp /\ w.thrown = (v.current \in v.states \ keep)
<1> DEFINE a == [v EXCEPT !.killed = @ \cup (v.states \ keep)]
           t == v.current \in v.states \ keep
           b == [a EXCEPT !.thrown = t]
<1>1. killAllExcept(v, keep) = b
  BY Zenon DEF killAllExcept
<1>2. /\ a \in Views /\ a.slot = v.slot /\ a.killed = v.killed \cup (v.states \ keep)
      /\ a.states = v.states /\ a.succeeded = v.succeeded /\ a.count = v.count
      /\ a.current = v.current /\ a.commands = v.commands
      /\ a.suspended = v.suspended /\ a.keepOne = v.keepOne /\ a.timeUp = v.timeUp
  BY Zenon DEF Views
<1>3. t \in BOOLEAN
  OBVIOUS
<1> HIDE DEF a, t
<1>4. /\ b \in Views /\ b.slot = v.slot /\ b.killed = v.killed \cup (v.states \ keep)
      /\ b.states = v.states /\ b.succeeded = v.succeeded /\ b.count = v.count
      /\ b.current = v.current /\ b.commands = v.commands
      /\ b.suspended = v.suspended /\ b.keepOne = v.keepOne /\ b.timeUp = v.timeUp
      /\ b.thrown = t
  BY <1>2, <1>3, Zenon DEF Views
<1> HIDE DEF b
<1> QED BY <1>1, <1>4, Zenon DEF t

\* sendKillToAllInstances() commands everybody else.
LEMMA Sent ==
    ASSUME NEW v \in Views, NEW node \in {Everyone} \cup Slot
    PROVE  LET w == sendKillToAllInstances(v, node) IN
           /\ w \in Views /\ w.slot = v.slot /\ w.killed = v.killed
           /\ w.states = v.states /\ w.succeeded = v.succeeded
           /\ w.count = v.count /\ w.current = v.current
           /\ w.commands = [i \in Slot |-> IF i = v.slot THEN v.commands[i] ELSE node]
           /\ w.suspended = v.suspended /\ w.keepOne = v.keepOne
           /\ w.timeUp = v.timeUp /\ w.thrown = v.thrown
BY Zenon DEF sendKillToAllInstances, Views

\* The states that outlive the kill.
Left(v) == v.states \ v.killed

\* Nothing of v that the commands do not concern has changed.
Alike(v, w) ==
    /\ v \in Views /\ w \in Views
    /\ w.slot = v.slot /\ w.current = v.current /\ w.suspended = v.suspended
    /\ w.timeUp = v.timeUp

\* The outcomes of processCommands(): no command, a command to keep one state
\* that finds none or keeps one, a command to keep none.
Read(v, w) ==
    LET command == v.commands[v.slot]
        cleared == [v.commands EXCEPT ![v.slot] = EMPTY]
    IN  \/ command = EMPTY /\ w = v
        \/ /\ command = v.slot /\ v.succeeded = {} /\ w.succeeded = {}
           /\ w.states = v.states /\ w.killed = v.killed /\ w.count = v.count
           /\ w.thrown = v.thrown /\ w.commands = cleared /\ w.keepOne = None
        \/ /\ command = v.slot /\ w.states = v.states \cup v.succeeded
           /\ \E one \in v.succeeded : w.killed = v.killed \cup (w.states \ {one})
           /\ w.succeeded = {} /\ w.count = [v.count EXCEPT ![v.slot] = 0]
           /\ w.commands = cleared /\ w.keepOne = None
        \/ /\ command \notin {EMPTY, v.slot} /\ w.states = v.states \cup v.succeeded
           /\ w.killed = v.killed \cup w.states
           /\ w.succeeded = {} /\ w.count = [v.count EXCEPT ![v.slot] = 0]
           /\ w.commands = cleared /\ w.keepOne = v.keepOne

\* processCommands() has one of these outcomes.
LEMMA CommandsRead ==
    ASSUME NEW v \in Views, NEW w \in processCommands(v)
    PROVE  Alike(v, w) /\ Read(v, w)
<1> DEFINE read == [v EXCEPT !.commands[v.slot] = EMPTY]
           mine == [read EXCEPT !.keepOne = None]
<1>1. /\ Alike(v, read) /\ read.states = v.states /\ read.killed = v.killed
      /\ read.succeeded = v.succeeded /\ read.count = v.count /\ read.thrown = v.thrown
      /\ read.commands = [v.commands EXCEPT ![v.slot] = EMPTY] /\ read.keepOne = v.keepOne
  BY Zenon DEF Alike, Views
<1>2. CASE v.commands[v.slot] = EMPTY
  <2>1. v.slot # EMPTY
    BY MaxProcessesAssumption DEF Views, Slot, EMPTY
  <2>2. w = v
    BY <1>2, <2>1, Zenon DEF processCommands
  <2> QED BY <1>2, <2>2, Zenon DEF Read, Alike
<1>3. CASE v.commands[v.slot] = v.slot /\ v.slot # EMPTY
  <2>1. w \in IF v.succeeded = {} THEN {mine} ELSE killAllButOneSuccessfulLocal(mine)
    BY <1>3, Zenon DEF processCommands
  <2> HIDE DEF read
  <2>2. /\ Alike(v, mine) /\ mine.states = v.states /\ mine.killed = v.killed
        /\ mine.succeeded = v.succeeded /\ mine.count = v.count /\ mine.thrown = v.thrown
        /\ mine.commands = [v.commands EXCEPT ![v.slot] = EMPTY] /\ mine.keepOne = None
    BY <1>1, Zenon DEF Alike, Views
  <2> HIDE DEF mine
  <2>3. CASE v.succeeded = {}
    BY <1>3, <2>1, <2>2, <2>3, Zenon DEF Read
  <2>4. CASE v.succeeded # {}
    <3>1. PICK one \in mine.succeeded : w = killAllExcept(resumeSucceeded(mine), {one})
      BY <2>1, <2>4, Zenon DEF killAllButOneSuccessfulLocal
    <3> DEFINE back == resumeSucceeded(mine)
    <3>2. /\ Alike(mine, back) /\ back.killed = v.killed
          /\ back.states = v.states \cup v.succeeded /\ back.succeeded = {}
          /\ back.count = [v.count EXCEPT ![v.slot] = 0]
          /\ back.commands = mine.commands /\ back.keepOne = None
      BY <2>2, Resumed DEF Alike
    <3> HIDE DEF back
    <3>3. /\ Alike(back, w) /\ w.killed = v.killed \cup (w.states \ {one})
          /\ w.states = v.states \cup v.succeeded /\ w.succeeded = {}
          /\ w.count = [v.count EXCEPT ![v.slot] = 0]
          /\ w.commands = mine.commands /\ w.keepOne = None
      BY <3>1, <3>2, Killed DEF Alike, back
    <3>4. Alike(v, w)
      BY <2>2, <3>2, <3>3, Zenon DEF Alike
    <3> QED BY <1>3, <2>2, <3>3, <3>4, Zenon DEF Read
  <2> QED BY <2>3, <2>4, Zenon
<1>4. CASE v.commands[v.slot] \notin {EMPTY, v.slot}
  <2>1. w = killAllExcept(resumeSucceeded(read), {})
    BY <1>4, Zenon DEF processCommands
  <2> HIDE DEF read
  <2> DEFINE back == resumeSucceeded(read)
  <2>2. /\ Alike(read, back) /\ back.killed = v.killed
        /\ back.states = v.states \cup v.succeeded /\ back.succeeded = {}
        /\ back.count = [v.count EXCEPT ![v.slot] = 0]
        /\ back.commands = read.commands /\ back.keepOne = v.keepOne
    BY <1>1, Resumed, SMTT(40) DEF Alike
  <2> HIDE DEF back
  <2>3. /\ Alike(back, w) /\ w.killed = v.killed \cup (w.states \ {})
        /\ w.states = v.states \cup v.succeeded /\ w.succeeded = {}
        /\ w.count = [v.count EXCEPT ![v.slot] = 0]
        /\ w.commands = read.commands /\ w.keepOne = v.keepOne
    BY <2>1, <2>2, Killed DEF Alike, back
  <2>4. Alike(v, w) /\ w.killed = v.killed \cup w.states
    BY <1>1, <2>2, <2>3, Zenon DEF Alike
  <2> QED BY <1>1, <1>4, <2>3, <2>4, Zenon DEF Read
<1> QED BY <1>2, <1>3, <1>4, Zenon

\* The slot that is to keep a state: the one of an earlier kill that is not
\* over, or one that reports successful states.
Chosen(v, i) ==
    \/ v.keepOne = i /\ i # None /\ v.succeeded # {}
    \/ /\ v.keepOne = None \/ v.succeeded = {}
       /\ i \in UsedSlots /\ v.count[i] > 0

\* The outcomes of killAllButOneSuccessful(): nobody has a successful state;
\* this process keeps one; another one does and this one keeps none.
Decided(v, w) ==
    \/ w = v /\ \A i \in Slot : ~ Chosen(v, i)
    \/ /\ Chosen(v, v.slot) /\ w.states = v.states \cup v.succeeded
       /\ \E one \in v.succeeded :
             /\ w.killed = v.killed \cup (w.states \ {one})
             /\ w.thrown = (v.current \in w.states \ {one})
       /\ w.succeeded = {} /\ w.count = [v.count EXCEPT ![v.slot] = 0]
       /\ w.commands = [i \in Slot |-> IF i = v.slot THEN v.commands[i] ELSE Everyone]
       /\ w.keepOne = v.keepOne
    \/ \E chosen \in Slot \ {v.slot} :
       /\ Chosen(v, chosen) /\ w.states = v.states
       /\ w.killed = v.killed \cup v.states
       /\ w.thrown = (v.current \in v.states)
       /\ w.succeeded = v.succeeded /\ w.count = v.count
       /\ w.commands = [i \in Slot |-> IF i = v.slot THEN v.commands[i] ELSE chosen]
       /\ w.keepOne = chosen

\* killAllButOneSuccessful() has one of these outcomes.
LEMMA KillDecided ==
    ASSUME SetFacts, NEW v \in Views, NEW w \in killAllButOneSuccessful(v)
    PROVE  Alike(v, w) /\ Decided(v, w)
<1> DEFINE candidates == {i \in UsedSlots : v.count[i] > 0}
           chosen == IF v.keepOne # None /\ v.succeeded # {} THEN v.keepOne
                     ELSE IF candidates # {} THEN Min(candidates) ELSE MaxProcesses
<1>1. /\ v.slot \in Slot /\ v.keepOne \in {None} \cup Slot /\ None \notin Slot
      /\ MaxProcesses \notin Slot /\ candidates \subseteq Slot
  BY MaxProcessesAssumption DEF Views, Slot, None, UsedSlots
<1>2. \/ v.keepOne # None /\ v.succeeded # {} /\ chosen = v.keepOne
      \/ /\ v.keepOne = None \/ v.succeeded = {}
         /\ candidates # {} /\ chosen \in candidates
      \/ /\ v.keepOne = None \/ v.succeeded = {}
         /\ candidates = {} /\ chosen = MaxProcesses
  <2>1. candidates # {} => Min(candidates) \in candidates
    BY <1>1, Zenon DEF SetFacts
  <2> HIDE DEF candidates
  <2> QED BY <2>1, Zenon
<1>3. w \in CASE chosen = MaxProcesses -> {v}
              [] chosen = v.slot ->
                   killAllButOneSuccessfulLocal(sendKillToAllInstances(v, Everyone))
              [] OTHER -> {killAllExcept(
                             sendKillToAllInstances([v EXCEPT !.keepOne = chosen], chosen), {})}
  BY Zenon DEF killAllButOneSuccessful
<1>4. chosen # MaxProcesses => chosen \in Slot /\ Chosen(v, chosen)
  BY <1>1, <1>2, Zenon DEF Chosen
<1>5. chosen = MaxProcesses => \A i \in Slot : ~ Chosen(v, i)
  BY <1>1, <1>2, Zenon DEF Chosen
<1> HIDE DEF chosen
<1>6. CASE chosen = MaxProcesses
  <2>1. w = v
    BY <1>1, <1>3, <1>6, Zenon
  <2> QED BY <1>5, <1>6, <2>1, Zenon DEF Decided, Alike
<1>7. CASE chosen # MaxProcesses /\ chosen = v.slot
  <2> DEFINE sent == sendKillToAllInstances(v, Everyone)
             back == resumeSucceeded(sent)
  <2>1. PICK one \in sent.succeeded : w = killAllExcept(back, {one})
    BY <1>3, <1>7, Zenon DEF killAllButOneSuccessfulLocal
  <2>2. /\ Alike(v, sent) /\ sent.states = v.states /\ sent.killed = v.killed
        /\ sent.succeeded = v.succeeded /\ sent.count = v.count /\ sent.keepOne = v.keepOne
        /\ sent.commands = [i \in Slot |-> IF i = v.slot THEN v.commands[i] ELSE Everyone]
    BY Sent DEF Alike
  <2> HIDE DEF sent
  <2>3. /\ Alike(sent, back) /\ back.killed = v.killed
        /\ back.states = v.states \cup v.succeeded /\ back.succeeded = {}
        /\ back.count = [v.count EXCEPT ![v.slot] = 0]
        /\ back.commands = sent.commands /\ back.keepOne = v.keepOne
    BY <2>2, Resumed DEF Alike
  <2> HIDE DEF back
  <2>4. /\ Alike(back, w) /\ w.killed = v.killed \cup (w.states \ {one})
        /\ w.states = v.states \cup v.succeeded /\ w.succeeded = {}
        /\ w.count = [v.count EXCEPT ![v.slot] = 0]
        /\ w.commands = sent.commands /\ w.keepOne = v.keepOne
        /\ w.thrown = (back.current \in w.states \ {one})
    BY <2>1, <2>3, Killed DEF Alike
  <2>5. Alike(v, w) /\ back.current = v.current
    BY <2>2, <2>3, <2>4, Zenon DEF Alike
  <2> QED BY <1>4, <1>7, <2>1, <2>2, <2>4, <2>5, ZenonT(30) DEF Decided
<1>8. CASE chosen # MaxProcesses /\ chosen # v.slot
  <2> DEFINE kept == [v EXCEPT !.keepOne = chosen]
             sent == sendKillToAllInstances(kept, chosen)
  <2>1. w = killAllExcept(sent, {})
    BY <1>3, <1>8, Zenon
  <2>2. /\ Alike(v, kept) /\ kept.states = v.states /\ kept.killed = v.killed
        /\ kept.succeeded = v.succeeded /\ kept.count = v.count /\ kept.keepOne = chosen
        /\ kept.commands = v.commands
    BY <1>4, <1>8, Zenon DEF Alike, Views
  <2> HIDE DEF kept
  <2>3. /\ Alike(kept, sent) /\ sent.states = v.states /\ sent.killed = v.killed
        /\ sent.succeeded = v.succeeded /\ sent.count = v.count /\ sent.keepOne = chosen
        /\ sent.commands = [i \in Slot |-> IF i = v.slot THEN v.commands[i] ELSE chosen]
    BY <1>4, <1>8, <2>2, Sent DEF Alike
  <2> HIDE DEF sent
  <2>4. /\ Alike(sent, w) /\ w.killed = v.killed \cup (v.states \ {})
        /\ w.states = v.states /\ w.succeeded = v.succeeded /\ w.count = v.count
        /\ w.commands = sent.commands /\ w.keepOne = chosen
        /\ w.thrown = (sent.current \in v.states \ {})
    BY <2>1, <2>3, Killed DEF Alike
  <2>5. Alike(v, w) /\ sent.current = v.current /\ v.states \ {} = v.states
    BY <2>2, <2>3, <2>4, Zenon DEF Alike
  <2> QED BY <1>4, <1>8, <2>3, <2>4, <2>5 DEF Decided
<1> QED BY <1>6, <1>7, <1>8, Zenon

-----------------------------------------------------------------------------
(* The inductive invariant that the others rest on. *)

\* The steps of a process and the phases of its life agree, and what a process
\* holds when it waits or leaves.
LifeOf(p) ==
    /\ phase[p] = "reserved" <=> step[p] = "forking"
    /\ phase[p] \in {"born", "registered"} => step[p] = "postfork"
    /\ step[p] = "postfork" => phase[p] \in {"born", "registered", "running"}
    /\ phase[p] = "absent" => step[p] = "exec"
    /\ step[p] \in {"suspending", "suspended"} => states[p] = {} /\ m_succeeded[p] # {}
    /\ step[p] \in {"exiting", "destroyed"} => states[p] = {}
    /\ step[p] = "destroyed" => m_succeeded[p] = {}
    /\ (states[p] \cup m_succeeded[p]) \subseteq 0 .. lastStateId - 1

Life == \A p \in Pid : LifeOf(p)

\* SuccessCountExact, in S2E::fork too.
Counts ==
    /\ \A p \in Holders : successCount[SlotOf(p)] = Cardinality(m_succeeded[p])
    /\ \A i \in FreeSlots : successCount[i] = 0

\* A slot is marked as suspended only while its process waits.
Flags ==
    \A i \in Slot : suspendedProcesses[i] =>
        \E p \in Holders : SlotOf(p) = i /\ step[p] = "suspended"

SMBase == IInv /\ SMTypeOK /\ Life /\ Counts /\ Flags

\* A step that leaves a process alone.
LEMMA SameLife ==
    ASSUME NEW q, LifeOf(q), lastStateId' = lastStateId,
           phase'[q] = phase[q], step'[q] = step[q],
           states'[q] = states[q], m_succeeded'[q] = m_succeeded[q]
    PROVE  LifeOf(q)'
BY Zenon DEF LifeOf

\* A holder has a slot to itself.
LEMMA HolderSlots ==
    ASSUME SetFacts, SMBase, NEW p \in Holders
    PROVE  /\ p \in Pid /\ SlotOf(p) \in Slot /\ SlotOf(p) \in UsedSlots
           /\ \A q \in Holders : SlotOf(q) = SlotOf(p) => q = p
           /\ successCount[SlotOf(p)] = Cardinality(m_succeeded[p])
<1>1. p \in Owners /\ p \in Pid
  BY Zenon DEF Holders, Owners
<1>2. SlotOf(p) \in Slot /\ m_currentProcessIndex[p] \in Nat
  BY <1>1, Zenon DEF SMBase, IInv, TypeOK, SlotOf
<1>3. processIds[SlotOf(p)] \in Nat
  BY <1>1, <1>2, Zenon DEF SMBase, IInv, SlotOwned, SlotOf
<1>4. SlotOf(p) \in UsedSlots
  BY <1>2, <1>3 DEF UsedSlots, FreeSlots, None
<1>5. \A q \in Holders : SlotOf(q) = SlotOf(p) => q = p
  BY <1>1, Zenon DEF SMBase, IInv, SlotOwned, SlotOf, Holders
<1>6. successCount[SlotOf(p)] = Cardinality(m_succeeded[p])
  BY Zenon DEF SMBase, Counts
<1> QED BY <1>1, <1>2, <1>4, <1>5, <1>6, Zenon

\* A running process past its onProcessFork is a holder.
LEMMA RunningHolds ==
    ASSUME NEW p \in Pid, phase[p] = "running", step[p] # "postfork"
    PROVE  p \in Holders
BY Zenon DEF Holders, Owners

\* What a process in sm_callback leaves: states, successful states, commands, the
\* node that is to keep a state, flags, and its next step.
Outcome(p, L, S, K, k, f, next) ==
    /\ UNCHANGED <<vars, lastStateId, finished>>
    /\ states' = [states EXCEPT ![p] = L]
    /\ m_succeeded' = [m_succeeded EXCEPT ![p] = S]
    /\ successCount' = [successCount EXCEPT ![SlotOf(p)] = Cardinality(S)]
    /\ commands' = K
    /\ keepOneStateOnNode' = k
    /\ suspendedProcesses' = f
    /\ step' = [step EXCEPT ![p] = next]
    /\ g_s2e_state' \in [Pid -> StateId \cup {NoState}]
    /\ timeUp' \in BOOLEAN /\ (timeUp' => timeUp)
    /\ killIssued' \in BOOLEAN /\ (killIssued => killIssued')

Typed(p, L, S, K, k, f, next) ==
    /\ L \subseteq states[p] \cup m_succeeded[p]
    /\ S \subseteq m_succeeded[p]
    /\ K \in [Slot -> {EMPTY, Everyone} \cup Slot]
    /\ k \in {None} \cup Slot
    /\ f \in [Slot -> BOOLEAN]
    /\ next \in {"exec", "exiting", "suspending", "woken"}
    /\ next \in {"exiting", "suspending"} => L = {}
    /\ next = "suspending" => S # {}

-----------------------------------------------------------------------------
(* The outcomes of the critical sections of sm_callback. *)

\* A command was read, or there was none.
ReadOutcome(p, L, S, K, k) ==
    LET slot == SlotOf(p)
        cleared == [commands EXCEPT ![slot] = EMPTY]
    IN  \/ /\ commands[slot] = EMPTY /\ L = states[p] /\ S = m_succeeded[p]
           /\ K = commands /\ k = keepOneStateOnNode
        \/ /\ commands[slot] = slot /\ S = {} /\ K = cleared /\ k = None
           /\ \/ m_succeeded[p] = {} /\ L = states[p]
              \/ \E one \in m_succeeded[p] : L = {one}
        \/ /\ commands[slot] \notin {EMPTY, slot} /\ L = {} /\ S = {} /\ K = cleared
           /\ k = keepOneStateOnNode

\* The process keeps one of its successful states and has all others killed.
KeepOutcome(p, L, S, K, k) ==
    /\ \E one \in m_succeeded[p] : L = {one}
    /\ S = {} /\ k = keepOneStateOnNode
    /\ K = [i \in Slot |-> IF i = SlotOf(p) THEN commands[i] ELSE Everyone]

\* The process gives up its states for those of slot k.
YieldOutcome(p, L, S, K, k) ==
    /\ L = {} /\ S \subseteq m_succeeded[p]
    /\ k \in Slot \ {SlotOf(p)}
    /\ K \in [Slot -> {EMPTY, Everyone} \cup Slot]
    /\ \A i \in Slot : i # SlotOf(p) => K[i] = k

\* After processCommands().
LEMMA ReadView ==
    ASSUME SetFacts, SMBase, NEW p \in Holders, NEW v \in processCommands(View(p))
    PROVE  /\ Alike(View(p), v)
           /\ v.slot = SlotOf(p) /\ v.suspended = suspendedProcesses /\ v.timeUp = timeUp
           /\ v.count = [successCount EXCEPT ![SlotOf(p)] = Cardinality(v.succeeded)]
           /\ ReadOutcome(p, Left(v), v.succeeded, v.commands, v.keepOne)
           /\ commands[SlotOf(p)] = EMPTY \/ v.succeeded # {} =>
                  commands[SlotOf(p)] = EMPTY /\ ~ v.thrown /\ v.killed = {}
           /\ v.commands[SlotOf(p)] = EMPTY
<1> DEFINE u == View(p)
<1>1. /\ p \in Pid /\ SlotOf(p) \in Slot /\ SMTypeOK
      /\ successCount[SlotOf(p)] = Cardinality(m_succeeded[p])
  BY HolderSlots, Zenon DEF SMBase
<1>2. /\ u \in Views /\ u.slot = SlotOf(p) /\ u.states = states[p] /\ u.killed = {}
      /\ u.succeeded = m_succeeded[p] /\ u.count = successCount /\ u.commands = commands
      /\ u.suspended = suspendedProcesses /\ u.keepOne = keepOneStateOnNode
      /\ u.timeUp = timeUp /\ u.thrown = FALSE
  BY <1>1, ViewType, Zenon DEF View
<1> HIDE DEF u
<1>3. Alike(u, v) /\ Read(u, v)
  BY <1>2, CommandsRead, Zenon DEF u
<1>4. Alike(View(p), v)
  BY <1>3, Zenon DEF u
<1>5. v.slot = SlotOf(p) /\ v.suspended = suspendedProcesses /\ v.timeUp = timeUp
  BY <1>2, <1>3, Zenon DEF Alike
<1>6. /\ successCount \in [Slot -> 0 .. MaxStateId]
      /\ commands \in [Slot -> {EMPTY, Everyone} \cup Slot]
  BY <1>1, Zenon DEF SMTypeOK
<1>7. Cardinality({}) = 0
  BY Zenon DEF SetFacts
<1>8. v.count = [successCount EXCEPT ![SlotOf(p)] = Cardinality(v.succeeded)]
  <2>1. \/ v.count = successCount /\ v.succeeded = m_succeeded[p]
        \/ v.count = [successCount EXCEPT ![SlotOf(p)] = 0] /\ v.succeeded = {}
    BY <1>2, <1>3, Zenon DEF Read
  <2>2. successCount = [successCount EXCEPT ![SlotOf(p)] = successCount[SlotOf(p)]]
    BY <1>1, <1>6, Zenon
  <2> QED BY <1>1, <1>7, <2>1, <2>2, Zenon
<1>9. ReadOutcome(p, Left(v), v.succeeded, v.commands, v.keepOne)
  BY <1>1, <1>2, <1>3 DEF Read, ReadOutcome, Left
<1>10. commands[SlotOf(p)] = EMPTY \/ v.succeeded # {} =>
           commands[SlotOf(p)] = EMPTY /\ ~ v.thrown /\ v.killed = {}
  <2>1. SlotOf(p) # EMPTY
    BY <1>1, MaxProcessesAssumption DEF Slot, EMPTY
  <2> QED BY <1>2, <1>3, <2>1, Zenon DEF Read
<1>11. v.commands[SlotOf(p)] = EMPTY
  BY <1>1, <1>2, <1>3, <1>6, Zenon DEF Read
<1> QED BY <1>4, <1>5, <1>8, <1>9, <1>10, <1>11, Zenon

\* sm_callback returns or throws.
LEMMA Rescheduled ==
    ASSUME SMTypeOK, NEW p \in Pid, NEW w \in Views, Reschedule(p, w),
           w.count = [successCount EXCEPT ![SlotOf(p)] = Cardinality(w.succeeded)],
           w.timeUp => timeUp, UNCHANGED <<vars, lastStateId, finished>>,
           killIssued' \in BOOLEAN, killIssued => killIssued'
    PROVE  Outcome(p, Left(w), w.succeeded, w.commands, w.keepOne, w.suspended,
                   IF Left(w) = {} THEN "exiting" ELSE "exec")
<1>1. g_s2e_state' \in [Pid -> StateId \cup {NoState}]
  BY DEF Reschedule, SMTypeOK, Views, NoState
<1>2. w.timeUp \in BOOLEAN
  BY Zenon DEF Views
<1> QED BY <1>1, <1>2, Zenon DEF Reschedule, SharedFrom, Outcome, Left

\* sm_callback goes on.
LEMMA Continued ==
    ASSUME SMTypeOK, NEW p \in Pid, NEW w \in Views, NEW next, Continue(p, w, next),
           w.count = [successCount EXCEPT ![SlotOf(p)] = Cardinality(w.succeeded)],
           w.timeUp => timeUp, UNCHANGED <<vars, lastStateId, finished>>,
           killIssued' \in BOOLEAN, killIssued => killIssued'
    PROVE  Outcome(p, Left(w), w.succeeded, w.commands, w.keepOne, w.suspended, next)
<1>1. g_s2e_state' \in [Pid -> StateId \cup {NoState}]
  BY Zenon DEF Continue, SMTypeOK
<1>2. w.timeUp \in BOOLEAN
  BY Zenon DEF Views
<1> QED BY <1>1, <1>2, Zenon DEF Continue, SharedFrom, Outcome, Left

\* What reading a command leaves is typed.
LEMMA ReadTyped ==
    ASSUME SetFacts, SMBase, NEW p \in Holders, NEW v \in processCommands(View(p)), NEW next,
           next \in {"exec", "exiting", "suspending", "woken"},
           next \in {"exiting", "suspending"} => Left(v) = {},
           next = "suspending" => v.succeeded # {}
    PROVE  Typed(p, Left(v), v.succeeded, v.commands, v.keepOne, v.suspended, next)
<1>1. v \in Views /\ ReadOutcome(p, Left(v), v.succeeded, v.commands, v.keepOne)
  BY ReadView, Zenon DEF Alike
<1>2. v.commands \in [Slot -> {EMPTY, Everyone} \cup Slot] /\ v.keepOne \in {None} \cup Slot
      /\ v.suspended \in [Slot -> BOOLEAN]
  BY <1>1, Zenon DEF Views
<1>3. Left(v) \subseteq states[p] \cup m_succeeded[p] /\ v.succeeded \subseteq m_succeeded[p]
  BY <1>1, Zenon DEF ReadOutcome
<1> QED BY <1>2, <1>3, Zenon DEF Typed

\* selectNextState() has read a command, or the time was up and it has killed all
\* states but one of its own or of another process.
SelectResult(p, L, S, K, k, next) ==
    \/ /\ ReadOutcome(p, L, S, K, k) /\ killIssued' = killIssued
       /\ next \in {"exec", "exiting", "suspending"}
       /\ next = "exec" => L # {}
       /\ next = "exiting" /\ commands[SlotOf(p)] = EMPTY => S = {}
       /\ next = "suspending" => commands[SlotOf(p)] = EMPTY
    \/ /\ timeUp /\ KeepOutcome(p, L, S, K, k) /\ next = "exec"
       /\ commands[SlotOf(p)] = EMPTY /\ killIssued' = TRUE
    \/ /\ timeUp /\ YieldOutcome(p, L, S, K, k) /\ next = "exiting"
       /\ K[SlotOf(p)] = EMPTY
       /\ commands[SlotOf(p)] = EMPTY => killIssued' = TRUE

\* selectNextState(), with or without a kill that the timeout causes.
LEMMA SelectCases ==
    ASSUME SetFacts, SMBase, NEW p \in Pid, SelectNextState(p)
    PROVE  /\ p \in Holders /\ phase[p] = "running" /\ step[p] \in {"exec", "select"}
           /\ \E L, S, K, k, next :
                 /\ Outcome(p, L, S, K, k, suspendedProcesses, next)
                 /\ Typed(p, L, S, K, k, suspendedProcesses, next)
                 /\ SelectResult(p, L, S, K, k, next)
<1>1. /\ phase[p] = "running" /\ step[p] \in {"exec", "select"}
      /\ UNCHANGED <<vars, lastStateId, finished>>
  BY Zenon DEF SelectNextState
<1>2. p \in Holders /\ SMTypeOK /\ SlotOf(p) \in Slot /\ killIssued \in BOOLEAN
  BY <1>1, RunningHolds, HolderSlots, Zenon DEF SMBase, SMTypeOK
<1>3. PICK v \in processCommands(View(p)) :
          \/ /\ v.thrown \/ (v.states = {} /\ v.succeeded = {})
             /\ Reschedule(p, v)
             /\ UNCHANGED killIssued
          \/ /\ ~ v.thrown /\ v.states = {} /\ v.succeeded # {}
             /\ Continue(p, v, "suspending")
             /\ UNCHANGED killIssued
          \/ /\ ~ v.thrown /\ v.states # {}
             /\ Reschedule(p, v)
             /\ UNCHANGED killIssued
          \/ /\ ~ v.thrown /\ v.states # {} /\ v.timeUp
             /\ \E w \in killAllButOneSuccessful(resetTimeout(v)) :
                  /\ Reschedule(p, w)
                  /\ killIssued' = (killIssued \/ w # resetTimeout(v))
  BY Zenon DEF SelectNextState
<1>4. /\ v \in Views /\ v.slot = SlotOf(p) /\ v.suspended = suspendedProcesses
      /\ v.timeUp = timeUp
      /\ v.count = [successCount EXCEPT ![SlotOf(p)] = Cardinality(v.succeeded)]
      /\ ReadOutcome(p, Left(v), v.succeeded, v.commands, v.keepOne)
      /\ v.commands[SlotOf(p)] = EMPTY
  BY <1>2, ReadView DEF Alike
<1>5. commands[SlotOf(p)] = EMPTY \/ v.succeeded # {} =>
           /\ commands[SlotOf(p)] = EMPTY /\ ~ v.thrown /\ v.killed = {}
           /\ Left(v) = v.states
  BY <1>2, ReadView, ZenonT(30) DEF Left
<1> DEFINE after == IF Left(v) = {} THEN "exiting" ELSE "exec"
<1>6. CASE Reschedule(p, v) /\ killIssued' = killIssued
           /\ (v.thrown \/ v.states # {} \/ v.succeeded = {})
  <2>1. Outcome(p, Left(v), v.succeeded, v.commands, v.keepOne, suspendedProcesses, after)
    BY <1>1, <1>2, <1>4, <1>6, Rescheduled, Zenon
  <2>2. Typed(p, Left(v), v.succeeded, v.commands, v.keepOne, suspendedProcesses, after)
    BY <1>2, <1>4, ReadTyped, Zenon
  <2>3. after = "exiting" /\ commands[SlotOf(p)] = EMPTY => v.succeeded = {}
    BY <1>5, <1>6, Zenon
  <2>4. /\ after \in {"exec", "exiting", "suspending"} /\ (after = "exec" => Left(v) # {})
        /\ after # "suspending"
    BY Zenon
  <2> HIDE DEF after
  <2> QED BY <1>1, <1>2, <1>4, <1>6, <2>1, <2>2, <2>3, <2>4, SMTT(40) DEF SelectResult
<1>7. CASE /\ v.states = {} /\ v.succeeded # {} /\ Continue(p, v, "suspending")
           /\ killIssued' = killIssued
  <2>1. Outcome(p, Left(v), v.succeeded, v.commands, v.keepOne, suspendedProcesses,
                "suspending")
    BY <1>1, <1>2, <1>4, <1>7, Continued, Zenon
  <2>2. Left(v) = {} /\ commands[SlotOf(p)] = EMPTY
    BY <1>5, <1>7, Zenon
  <2>3. Typed(p, Left(v), v.succeeded, v.commands, v.keepOne, suspendedProcesses,
              "suspending")
    BY <1>2, <1>4, <1>7, <2>2, ReadTyped, ZenonT(30)
  <2> QED BY <1>1, <1>2, <1>4, <1>7, <2>1, <2>2, <2>3, SMTT(40) DEF SelectResult
<1>8. CASE /\ v.states # {} /\ v.timeUp
           /\ \E w \in killAllButOneSuccessful(resetTimeout(v)) :
                  /\ Reschedule(p, w)
                  /\ killIssued' = (killIssued \/ w # resetTimeout(v))
  <2> DEFINE u == resetTimeout(v)
  <2>1. PICK w \in killAllButOneSuccessful(u) :
            Reschedule(p, w) /\ killIssued' = (killIssued \/ w # u)
    BY <1>8, Zenon
  <2>2. /\ u \in Views /\ u.slot = v.slot /\ u.suspended = v.suspended /\ u.timeUp = FALSE
        /\ u.states = v.states /\ u.killed = v.killed /\ u.succeeded = v.succeeded
        /\ u.count = v.count /\ u.commands = v.commands /\ u.keepOne = v.keepOne
    BY <1>4, Zenon DEF resetTimeout, Views
  <2>3. timeUp /\ killIssued' \in BOOLEAN /\ (killIssued => killIssued')
        /\ (w # u => killIssued' = TRUE)
    BY <1>2, <1>4, <1>8, <2>1, Zenon
  <2> HIDE DEF u
  <2>4. Alike(u, w) /\ Decided(u, w)
    BY <2>1, <2>2, KillDecided, Zenon
  <2>5. /\ w \in Views /\ w.suspended = suspendedProcesses /\ ~ w.timeUp
        /\ w.commands \in [Slot -> {EMPTY, Everyone} \cup Slot] /\ w.keepOne \in {None} \cup Slot
        /\ suspendedProcesses \in [Slot -> BOOLEAN]
    BY <1>4, <2>2, <2>4, ZenonT(30) DEF Alike, Views
  <2>6. CASE w = u
    <3>1. /\ Left(w) = Left(v) /\ w.succeeded = v.succeeded /\ w.commands = v.commands
          /\ w.keepOne = v.keepOne /\ w.count = v.count /\ killIssued' = killIssued
      BY <1>2, <2>1, <2>2, <2>6, SMTT(40) DEF Left
    <3>2. Outcome(p, Left(v), v.succeeded, v.commands, v.keepOne, suspendedProcesses, after)
      BY <1>1, <1>2, <1>4, <2>1, <2>3, <2>5, <3>1, Rescheduled, SMTT(40)
    <3>3. Typed(p, Left(v), v.succeeded, v.commands, v.keepOne, suspendedProcesses, after)
      BY <1>2, <1>4, ReadTyped, Zenon
    <3>4. after = "exiting" /\ commands[SlotOf(p)] = EMPTY => v.succeeded = {}
      BY <1>5, <1>8, Zenon
    <3>5. /\ after \in {"exec", "exiting", "suspending"} /\ (after = "exec" => Left(v) # {})
          /\ after # "suspending"
      BY Zenon
    <3> HIDE DEF after
    <3> QED BY <1>1, <1>2, <1>4, <3>1, <3>2, <3>3, <3>4, <3>5, SMTT(40) DEF SelectResult
  <2>7. CASE /\ Chosen(u, u.slot) /\ w.states = u.states \cup u.succeeded
             /\ \E one \in u.succeeded : w.killed = u.killed \cup (w.states \ {one})
             /\ w.succeeded = {} /\ w.count = [u.count EXCEPT ![u.slot] = 0]
             /\ w.commands = [i \in Slot |-> IF i = u.slot THEN u.commands[i] ELSE Everyone]
             /\ w.keepOne = u.keepOne
    <3>1. PICK one \in u.succeeded : w.killed = u.killed \cup (w.states \ {one})
      BY <2>7, Zenon
    <3>2. commands[SlotOf(p)] = EMPTY /\ v.killed = {}
      BY <1>5, <2>2, <3>1, Zenon
    <3>3. v.succeeded = m_succeeded[p] /\ v.commands = commands /\ v.keepOne = keepOneStateOnNode
      <4>1. SlotOf(p) # EMPTY
        BY <1>2, MaxProcessesAssumption, SMTT(40) DEF Slot, EMPTY
      <4> QED BY <1>4, <3>2, <4>1, Zenon DEF ReadOutcome
    <3>4. Left(w) = {one} /\ one \in m_succeeded[p]
      BY <2>2, <2>7, <3>1, <3>2, <3>3, SMTT(40) DEF Left
    <3>5. w.count = [successCount EXCEPT ![SlotOf(p)] = Cardinality(w.succeeded)]
      <4>1. Cardinality({}) = 0
        BY Zenon DEF SetFacts
      <4>2. successCount \in [Slot -> 0 .. MaxStateId]
        BY <1>2, Zenon DEF SMTypeOK
      <4>3. ASSUME NEW c
            PROVE  [[successCount EXCEPT ![SlotOf(p)] = c] EXCEPT ![SlotOf(p)] = 0] =
                     [successCount EXCEPT ![SlotOf(p)] = 0]
        BY <1>2, <4>2, Zenon
      <4>4. w.count = [[successCount EXCEPT ![SlotOf(p)] = Cardinality(v.succeeded)]
                         EXCEPT ![SlotOf(p)] = 0]
        BY <1>4, <2>2, <2>7, ZenonT(30)
      <4> QED BY <2>7, <4>1, <4>3, <4>4, Zenon
    <3>6. Outcome(p, Left(w), w.succeeded, w.commands, w.keepOne, suspendedProcesses, "exec")
      <4>1. Left(w) # {}
        BY <3>4, Zenon
      <4> QED BY <1>1, <1>2, <2>1, <2>3, <2>5, <3>5, <4>1, Rescheduled, SMTT(40)
    <3>7. Typed(p, Left(w), w.succeeded, w.commands, w.keepOne, suspendedProcesses, "exec")
      BY <2>5, <2>7, <3>4, ZenonT(30) DEF Typed
    <3>8. KeepOutcome(p, Left(w), w.succeeded, w.commands, w.keepOne)
      BY <1>4, <2>2, <2>7, <3>3, <3>4, SMTT(40) DEF KeepOutcome
    <3>9. killIssued' = TRUE
      BY <2>3, <2>7, <3>1, Zenon
    <3> QED BY <1>1, <1>2, <2>3, <3>2, <3>6, <3>7, <3>8, <3>9, ZenonT(30) DEF SelectResult
  <2>8. ASSUME NEW chosen \in Slot \ {u.slot},
               w.states = u.states, w.killed = u.killed \cup u.states,
               w.succeeded = u.succeeded, w.count = u.count,
               w.commands = [i \in Slot |-> IF i = u.slot THEN u.commands[i] ELSE chosen],
               w.keepOne = chosen
        PROVE  \E L, S, K, k, next :
                 /\ Outcome(p, L, S, K, k, suspendedProcesses, next)
                 /\ Typed(p, L, S, K, k, suspendedProcesses, next)
                 /\ SelectResult(p, L, S, K, k, next)
    <3>1. Left(w) = {}
      BY <2>8, ZenonT(30) DEF Left
    <3>2. Outcome(p, Left(w), w.succeeded, w.commands, w.keepOne, suspendedProcesses, "exiting")
      <4>1. w.count = [successCount EXCEPT ![SlotOf(p)] = Cardinality(w.succeeded)]
        BY <1>4, <2>2, <2>8
      <4> QED BY <1>1, <1>2, <2>1, <2>3, <2>5, <3>1, <4>1, Rescheduled, ZenonT(30)
    <3>3. w.succeeded \subseteq m_succeeded[p]
      BY <1>4, <2>2, <2>8, ZenonT(30) DEF ReadOutcome
    <3>4. Typed(p, Left(w), w.succeeded, w.commands, w.keepOne, suspendedProcesses, "exiting")
      BY <2>5, <3>1, <3>3, ZenonT(30) DEF Typed
    <3>5. YieldOutcome(p, Left(w), w.succeeded, w.commands, w.keepOne)
      BY <1>4, <2>2, <2>5, <2>8, <3>1, <3>3, SMTT(40) DEF YieldOutcome
    <3>6. w.commands[SlotOf(p)] = EMPTY
      BY <1>2, <1>4, <2>2, <2>8, SMTT(40)
    <3>7. commands[SlotOf(p)] = EMPTY => killIssued' = TRUE
      BY <1>5, <1>8, <2>2, <2>3, <2>8, SMTT(40)
    <3> QED BY <2>3, <3>2, <3>4, <3>5, <3>6, <3>7, ZenonT(30) DEF SelectResult
  <2> QED BY <1>1, <1>2, <2>3, <2>4, <2>6, <2>7, <2>8, ZenonT(30) DEF Decided
<1> QED BY <1>3, <1>6, <1>7, <1>8, ZenonT(30)

\* A process in sm_callback or exit() runs.
LEMMA CallbackRuns ==
    ASSUME SetFacts, SMBase, NEW p \in Pid,
           step[p] \in {"suspending", "suspended", "woken", "exiting", "destroyed"}
    PROVE  phase[p] = "running" /\ p \in Holders
<1>1. phase[p] \in Phase /\ phase[p] # "aborted"
  BY Zenon DEF SMBase, IInv, TypeOK, NothingAborted
<1>2. phase[p] = "running"
  BY <1>1, Zenon DEF SMBase, Life, LifeOf, Phase
<1> QED BY <1>2, RunningHolds, Zenon

\* The last critical section of sm_callback reads a command.
LEMMA WokenCases ==
    ASSUME SetFacts, SMBase, NEW p \in Pid, Woken(p)
    PROVE  /\ p \in Holders /\ phase[p] = "running" /\ step[p] = "woken"
           /\ killIssued' = killIssued
           /\ \E L, S, K, k, next :
                 /\ Outcome(p, L, S, K, k, suspendedProcesses, next)
                 /\ Typed(p, L, S, K, k, suspendedProcesses, next)
                 /\ ReadOutcome(p, L, S, K, k)
                 /\ next = IF L = {} THEN "exiting" ELSE "exec"
<1>1. /\ phase[p] = "running" /\ step[p] = "woken" /\ p \in Holders
      /\ UNCHANGED <<vars, lastStateId, finished>> /\ killIssued' = killIssued
      /\ SMTypeOK /\ killIssued \in BOOLEAN
  BY CallbackRuns, Zenon DEF Woken, history, SMBase, SMTypeOK
<1>2. PICK v \in processCommands(View(p)) : Reschedule(p, v)
  BY Zenon DEF Woken
<1>3. /\ v \in Views /\ v.suspended = suspendedProcesses /\ v.timeUp = timeUp
      /\ v.count = [successCount EXCEPT ![SlotOf(p)] = Cardinality(v.succeeded)]
      /\ ReadOutcome(p, Left(v), v.succeeded, v.commands, v.keepOne)
  BY <1>1, ReadView, Zenon DEF Alike
<1> DEFINE after == IF Left(v) = {} THEN "exiting" ELSE "exec"
<1>4. Outcome(p, Left(v), v.succeeded, v.commands, v.keepOne, suspendedProcesses, after)
  BY <1>1, <1>2, <1>3, Rescheduled, Zenon
<1>5. Typed(p, Left(v), v.succeeded, v.commands, v.keepOne, suspendedProcesses, after)
  BY <1>1, <1>3, ReadTyped, Zenon
<1> QED BY <1>1, <1>3, <1>4, <1>5, Zenon

\* The process that finds all suspended keeps a successful state, or gives up for
\* the node of an earlier kill or one that reports successful states.
PollResult(p, L, S, K, k, next) ==
    \/ /\ KeepOutcome(p, L, S, K, k) /\ next \in {"exec", "woken"}
       /\ keepOneStateOnNode \in {None, SlotOf(p)}
    \/ /\ YieldOutcome(p, L, S, K, k) /\ next = "woken"
       /\ S = m_succeeded[p] /\ K[SlotOf(p)] = commands[SlotOf(p)]
       /\ \/ k = keepOneStateOnNode
          \/ k \in UsedSlots /\ successCount[k] > 0 /\ keepOneStateOnNode = None

\* A turn of the waiting loop: somebody else has resumed the process, or all are
\* suspended and it decides who keeps a state.
LEMMA PollCases ==
    ASSUME SetFacts, SMBase, NEW p \in Pid, Poll(p)
    PROVE  /\ p \in Holders /\ phase[p] = "running" /\ step[p] = "suspended"
           /\ states[p] = {} /\ m_succeeded[p] # {}
           /\ \/ /\ ~ suspendedProcesses[SlotOf(p)] /\ killIssued' = killIssued
                 /\ Outcome(p, {}, m_succeeded[p], commands, keepOneStateOnNode,
                            suspendedProcesses, "woken")
              \/ /\ suspendedProcesses[SlotOf(p)] /\ killIssued' = TRUE
                 /\ getSuspendedProcessCount = currentProcessCount
                 /\ \E L, S, K, k, next :
                      /\ Outcome(p, L, S, K, k, [i \in Slot |-> FALSE], next)
                      /\ Typed(p, L, S, K, k, [i \in Slot |-> FALSE], next)
                      /\ PollResult(p, L, S, K, k, next)
<1>1. /\ phase[p] = "running" /\ step[p] = "suspended" /\ p \in Holders
      /\ UNCHANGED <<vars, lastStateId, finished>>
      /\ SMTypeOK /\ killIssued \in BOOLEAN /\ TypeOK
  BY CallbackRuns, Zenon DEF Poll, SMBase, SMTypeOK
<1>2. states[p] = {} /\ m_succeeded[p] # {} /\ m_succeeded[p] \in SUBSET StateId
  BY <1>1, Zenon DEF SMBase, Life, LifeOf, SMTypeOK
<1>3. /\ SlotOf(p) \in Slot /\ SlotOf(p) \in UsedSlots
      /\ successCount[SlotOf(p)] = Cardinality(m_succeeded[p])
      /\ successCount \in [Slot -> 0 .. MaxStateId] /\ successCount[SlotOf(p)] > 0
  <2>1. Cardinality(m_succeeded[p]) \in 0 .. MaxStateId /\ Cardinality(m_succeeded[p]) # 0
    BY <1>2, Zenon DEF SetFacts
  <2> QED BY <1>1, <2>1, HolderSlots, MaxStateIdAssumption DEF SMTypeOK
<1> DEFINE a == View(p)
<1>4. /\ a \in Views /\ a.slot = SlotOf(p) /\ a.states = {} /\ a.killed = {}
      /\ a.succeeded = m_succeeded[p] /\ a.count = successCount /\ a.commands = commands
      /\ a.suspended = suspendedProcesses /\ a.keepOne = keepOneStateOnNode
      /\ a.timeUp = timeUp /\ a.thrown = FALSE
  BY <1>1, <1>2, ViewType, Zenon DEF View
<1> HIDE DEF a
<1>5. successCount = [successCount EXCEPT ![SlotOf(p)] = Cardinality(m_succeeded[p])]
  BY <1>3, Zenon
<1>6. CASE ~ suspendedProcesses[SlotOf(p)] /\ Continue(p, a, "woken") /\ UNCHANGED killIssued
  <2>1. Left(a) = {}
    BY <1>4, Zenon DEF Left
  <2>2. Outcome(p, Left(a), a.succeeded, a.commands, a.keepOne, a.suspended, "woken")
    BY <1>1, <1>4, <1>5, <1>6, Continued, ZenonT(30)
  <2> QED BY <1>1, <1>2, <1>4, <1>6, <2>1, <2>2, ZenonT(30)
<1>7. CASE /\ suspendedProcesses[SlotOf(p)] /\ killIssued' = TRUE
           /\ getSuspendedProcessCount = currentProcessCount
           /\ \E v \in killAllButOneSuccessful(resumeAllProcesses(a)) :
                  IF v.thrown THEN Reschedule(p, v) ELSE Continue(p, v, "woken")
  <2> DEFINE u == resumeAllProcesses(a)
             f == [i \in Slot |-> FALSE]
             result == \E L, S, K, k, next :
                 /\ Outcome(p, L, S, K, k, f, next) /\ Typed(p, L, S, K, k, f, next)
                 /\ PollResult(p, L, S, K, k, next)
  <2>1. PICK w \in killAllButOneSuccessful(u) :
            IF w.thrown THEN Reschedule(p, w) ELSE Continue(p, w, "woken")
    BY <1>7, Zenon
  <2>2. /\ u \in Views /\ u.slot = a.slot /\ u.suspended = f /\ u.timeUp = a.timeUp
        /\ u.states = a.states /\ u.killed = a.killed /\ u.succeeded = a.succeeded
        /\ u.count = a.count /\ u.commands = a.commands /\ u.keepOne = a.keepOne
    BY <1>4, Zenon DEF resumeAllProcesses, Views
  <2> HIDE DEF u
  <2>3. Alike(u, w) /\ Decided(u, w)
    BY <2>1, <2>2, KillDecided, Zenon
  <2>4. /\ w \in Views /\ w.suspended = f /\ w.timeUp = timeUp
        /\ w.commands \in [Slot -> {EMPTY, Everyone} \cup Slot] /\ w.keepOne \in {None} \cup Slot
        /\ f \in [Slot -> BOOLEAN] /\ w.thrown \in BOOLEAN
    BY <1>4, <2>2, <2>3, Zenon DEF Alike, Views
  <2>5. ~ \A i \in Slot : ~ Chosen(u, i)
    <3>1. CASE keepOneStateOnNode = None
      BY <1>3, <1>4, <2>2, <3>1, ZenonT(30) DEF Chosen
    <3>2. CASE keepOneStateOnNode # None
      <4>1. keepOneStateOnNode \in Slot
        BY <1>1, <3>2, ZenonT(30) DEF SMTypeOK
      <4> QED BY <1>2, <1>4, <2>2, <3>2, <4>1, ZenonT(30) DEF Chosen
    <3> QED BY <3>1, <3>2, ZenonT(30)
  <2> HIDE DEF f
  <2>6. CASE /\ Chosen(u, u.slot) /\ w.states = u.states \cup u.succeeded
             /\ \E one \in u.succeeded : w.killed = u.killed \cup (w.states \ {one})
             /\ w.succeeded = {} /\ w.count = [u.count EXCEPT ![u.slot] = 0]
             /\ w.commands = [i \in Slot |-> IF i = u.slot THEN u.commands[i] ELSE Everyone]
             /\ w.keepOne = u.keepOne
    <3>1. PICK one \in u.succeeded : w.killed = u.killed \cup (w.states \ {one})
      BY <2>6, ZenonT(30)
    <3>2. Left(w) = {one} /\ one \in m_succeeded[p]
      BY <1>4, <2>2, <2>6, <3>1, SMTT(40) DEF Left
    <3>3. w.count = [successCount EXCEPT ![SlotOf(p)] = Cardinality(w.succeeded)]
      <4>1. Cardinality({}) = 0
        BY Zenon DEF SetFacts
      <4> QED BY <1>4, <2>2, <2>6, <4>1, ZenonT(30)
    <3>4. \E next \in {"exec", "woken"} :
              Outcome(p, Left(w), w.succeeded, w.commands, w.keepOne, f, next)
      <4>1. CASE w.thrown
        <5>1. Left(w) # {}
          BY <3>2, Zenon
        <5>2. Reschedule(p, w)
          BY <2>1, <4>1, ZenonT(30)
        <5>3. Outcome(p, Left(w), w.succeeded, w.commands, w.keepOne, w.suspended,
                      IF Left(w) = {} THEN "exiting" ELSE "exec")
          BY <1>1, <1>7, <2>4, <3>3, <5>2, Rescheduled, ZenonT(30)
        <5>4. Outcome(p, Left(w), w.succeeded, w.commands, w.keepOne, w.suspended, "exec")
          BY <5>1, <5>3, ZenonT(30)
        <5> QED BY <2>4, <5>4, ZenonT(30)
      <4>2. CASE ~ w.thrown
        <5>1. Continue(p, w, "woken")
          BY <2>1, <4>2, ZenonT(30)
        <5>2. Outcome(p, Left(w), w.succeeded, w.commands, w.keepOne, w.suspended, "woken")
          BY <1>1, <1>7, <2>4, <3>3, <5>1, Continued, ZenonT(30)
        <5> QED BY <2>4, <5>2, ZenonT(30)
      <4> QED BY <4>1, <4>2, Zenon
    <3>5. \A next \in {"exec", "woken"} :
              Typed(p, Left(w), w.succeeded, w.commands, w.keepOne, f, next)
      BY <2>4, <2>6, <3>2, ZenonT(30) DEF Typed
    <3>6. KeepOutcome(p, Left(w), w.succeeded, w.commands, w.keepOne)
      BY <1>4, <2>2, <2>6, <3>2, SMTT(40) DEF KeepOutcome
    <3>7. keepOneStateOnNode \in {None, SlotOf(p)}
      BY <1>2, <1>4, <2>2, <2>6, SMTT(40) DEF Chosen
    <3> QED BY <1>1, <1>2, <1>7, <3>4, <3>5, <3>6, <3>7, SMTT(40) DEF f, PollResult
  <2>7. ASSUME NEW chosen \in Slot \ {u.slot}, Chosen(u, chosen),
               w.states = u.states, w.killed = u.killed \cup u.states,
               w.thrown = (u.current \in u.states),
               w.succeeded = u.succeeded, w.count = u.count,
               w.commands = [i \in Slot |-> IF i = u.slot THEN u.commands[i] ELSE chosen],
               w.keepOne = chosen
        PROVE  result
    <3>1. Left(w) = {} /\ ~ w.thrown
      BY <1>4, <2>2, <2>7, ZenonT(30) DEF Left
    <3>2. w.count = [successCount EXCEPT ![SlotOf(p)] = Cardinality(w.succeeded)]
      BY <1>4, <1>5, <2>2, <2>7, SMTT(40)
    <3>3. Continue(p, w, "woken")
      BY <2>1, <3>1, Zenon
    <3>4. Outcome(p, Left(w), w.succeeded, w.commands, w.keepOne, f, "woken")
      BY <1>1, <1>7, <2>4, <3>2, <3>3, Continued, ZenonT(30)
    <3>5. w.succeeded = m_succeeded[p]
      BY <1>4, <2>2, <2>7, ZenonT(30)
    <3>6. Typed(p, Left(w), w.succeeded, w.commands, w.keepOne, f, "woken")
      BY <2>4, <3>1, <3>5, ZenonT(30) DEF Typed
    <3>7. YieldOutcome(p, Left(w), w.succeeded, w.commands, w.keepOne)
      BY <1>4, <2>2, <2>4, <2>7, <3>1, <3>5, SMTT(40) DEF YieldOutcome
    <3>8. w.commands[SlotOf(p)] = commands[SlotOf(p)]
      BY <1>3, <1>4, <2>2, <2>7, SMTT(40)
    <3>9. \/ w.keepOne = keepOneStateOnNode
          \/ /\ w.keepOne \in UsedSlots /\ successCount[w.keepOne] > 0
             /\ keepOneStateOnNode = None
      BY <1>2, <1>4, <2>2, <2>7, SMTT(40) DEF Chosen
    <3> QED BY <3>4, <3>5, <3>6, <3>7, <3>8, <3>9, ZenonT(30) DEF PollResult
  <2>8. CASE result
    BY <1>1, <1>2, <1>7, <2>8, ZenonT(30) DEF f
  <2> HIDE DEF result
  <2> QED BY <2>3, <2>5, <2>6, <2>7, <2>8, ZenonT(30) DEF Decided
<1> QED BY <1>6, <1>7, ZenonT(30) DEF Poll, a

-----------------------------------------------------------------------------
(* Every step keeps the invariant. *)

\* A running process changes what it owns: its states L, its successful states S
\* and their number, its flag, and its next step.
LocalStep(p, L, S, next) ==
    /\ phase[p] = "running" /\ step[p] # "postfork" /\ UNCHANGED vars
    /\ states' = [states EXCEPT ![p] = L]
    /\ m_succeeded' = [m_succeeded EXCEPT ![p] = S]
    /\ successCount' = [successCount EXCEPT ![SlotOf(p)] = Cardinality(S)]
    /\ step' = [step EXCEPT ![p] = next]
    /\ lastStateId' \in lastStateId .. MaxStateId
    /\ (L \cup S) \subseteq 0 .. lastStateId' - 1
    /\ next \in Step \ {"forking", "postfork"}
    /\ next \in {"suspending", "suspended"} => L = {} /\ S # {}
    /\ next \in {"exiting", "destroyed"} => L = {}
    /\ next = "destroyed" => S = {}
    /\ suspendedProcesses' \in [Slot -> BOOLEAN]
    /\ \A i \in Slot : suspendedProcesses'[i] =>
           suspendedProcesses[i] \/ (i = SlotOf(p) /\ next = "suspended")
    /\ step[p] = "suspended" => ~ suspendedProcesses'[SlotOf(p)]
    /\ commands' \in [Slot -> {EMPTY, Everyone} \cup Slot]
    /\ keepOneStateOnNode' \in {None} \cup Slot
    /\ g_s2e_state' \in [Pid -> StateId \cup {NoState}]
    /\ timeUp' \in BOOLEAN /\ killIssued' \in BOOLEAN
    /\ finished' \subseteq StateId

\* What does not touch the table of processes.
LEMMA SameTable ==
    ASSUME SetFacts, SMBase, UNCHANGED vars
    PROVE  /\ IInv' /\ TypeOK' /\ Owners' = Owners /\ FreeSlots' = FreeSlots /\ phase' = phase
           /\ \A q : SlotOf(q)' = SlotOf(q)
<1>1. IInv'
  BY DEF SMBase, IInv, TypeOK, NothingAborted, SlotOwned, SlotPids, Counted, IndexFresh, Owners,
         UsedSlots, FreeSlots, Pending, Unopened, UnopenedIndex, vars
<1> QED BY <1>1, ZenonT(30) DEF vars, Owners, FreeSlots, IInv, SlotOf

\* The ids below a number are below a larger one.
LEMMA RangeGrows ==
    ASSUME NEW a \in Int, NEW b \in Int, a <= b
    PROVE  0 .. a - 1 \subseteq 0 .. b - 1
OBVIOUS

\* Such a step keeps the invariant.
LEMMA LocalBase ==
    ASSUME SetFacts, SMBase, NEW p \in Pid, NEW L, NEW S, NEW next, LocalStep(p, L, S, next)
    PROVE  SMBase'
<1>1. /\ SMTypeOK /\ TypeOK /\ p \in Holders /\ SlotOf(p) \in Slot
      /\ \A q \in Holders : SlotOf(q) = SlotOf(p) => q = p
  BY RunningHolds, HolderSlots, Zenon DEF SMBase, IInv, LocalStep
<1>2. /\ IInv' /\ TypeOK' /\ Owners' = Owners /\ FreeSlots' = FreeSlots /\ phase' = phase
      /\ \A q : SlotOf(q)' = SlotOf(q)
  BY SameTable, Zenon DEF LocalStep
<1>3. /\ L \in SUBSET StateId /\ S \in SUBSET StateId
      /\ lastStateId' \in 1 .. MaxStateId /\ lastStateId \in 1 .. MaxStateId
      /\ lastStateId <= lastStateId'
  BY <1>1, MaxStateIdAssumption DEF LocalStep, SMTypeOK, StateId
<1>4. Cardinality(S) \in 0 .. MaxStateId
  BY <1>3, Zenon DEF SetFacts
<1>5. SMTypeOK'
  <2>1. successCount' \in [Slot -> 0 .. MaxStateId]
    BY <1>1, <1>4, Zenon DEF SMTypeOK, LocalStep
  <2>2. states' \in [Pid -> SUBSET StateId] /\ m_succeeded' \in [Pid -> SUBSET StateId]
    BY <1>1, <1>3, Zenon DEF SMTypeOK, LocalStep
  <2>3. step' \in [Pid -> Step]
    BY <1>1, Zenon DEF SMTypeOK, LocalStep
  <2>4. /\ commands' \in [Slot -> {EMPTY, Everyone} \cup Slot]
        /\ suspendedProcesses' \in [Slot -> BOOLEAN]
        /\ keepOneStateOnNode' \in {None} \cup Slot
        /\ g_s2e_state' \in [Pid -> StateId \cup {NoState}]
        /\ timeUp' \in BOOLEAN /\ killIssued' \in BOOLEAN /\ finished' \subseteq StateId
    BY Zenon DEF LocalStep
  <2> QED BY <1>2, <1>3, <2>1, <2>2, <2>3, <2>4, ZenonT(30) DEF SMTypeOK
<1>6. /\ \A q \in Pid : q # p => /\ states'[q] = states[q]
                                 /\ m_succeeded'[q] = m_succeeded[q]
                                 /\ step'[q] = step[q]
      /\ states'[p] = L /\ m_succeeded'[p] = S /\ step'[p] = next
  BY <1>1, Zenon DEF LocalStep, SMTypeOK
<1>7. Life'
  <2>1. LifeOf(p)'
    BY <1>2, <1>6, ZenonT(30) DEF LocalStep, LifeOf
  <2>2. ASSUME NEW q \in Pid, q # p PROVE LifeOf(q)'
    <3>1. LifeOf(q)
      BY Zenon DEF SMBase, Life
    <3>2. (states[q] \cup m_succeeded[q]) \subseteq 0 .. lastStateId - 1
      BY <3>1, Zenon DEF LifeOf
    <3>3. 0 .. lastStateId - 1 \subseteq 0 .. lastStateId' - 1
      <4>1. lastStateId \in Int /\ lastStateId' \in Int /\ lastStateId <= lastStateId'
        BY <1>3, MaxStateIdAssumption
      <4> QED BY <4>1, RangeGrows, Zenon
    <3> QED BY <1>2, <1>6, <2>2, <3>1, <3>2, <3>3, ZenonT(30) DEF LifeOf
  <2> QED BY <2>1, <2>2, Zenon DEF Life
<1>8. Holders' = Holders
  BY <1>1, <1>2, <1>6, ZenonT(30) DEF Holders, LocalStep, Owners
<1>9. Counts'
  <2>1. \A i \in Slot : successCount'[i] = IF i = SlotOf(p) THEN Cardinality(S)
                                            ELSE successCount[i]
    BY <1>1, Zenon DEF LocalStep, SMTypeOK
  <2>2. SlotOf(p) \notin FreeSlots
    BY <1>1, HolderSlots, Zenon DEF UsedSlots
  <2>3. \A q \in Holders : q \in Pid /\ SlotOf(q) \in Slot
    BY HolderSlots, Zenon
  <2> QED BY <1>1, <1>2, <1>6, <1>8, <2>1, <2>2, <2>3, SMTT(40) DEF Counts, SMBase, FreeSlots
<1>10. Flags'
  <2> SUFFICES ASSUME NEW i \in Slot, suspendedProcesses'[i]
               PROVE  \E q \in Holders' : SlotOf(q)' = i /\ step'[q] = "suspended"
    BY Zenon DEF Flags
  <2>1. CASE i = SlotOf(p) /\ next = "suspended"
    BY <1>1, <1>2, <1>6, <1>8, <2>1, ZenonT(30)
  <2>2. CASE suspendedProcesses[i]
    <3>1. PICK q \in Holders : SlotOf(q) = i /\ step[q] = "suspended"
      BY <2>2, ZenonT(30) DEF SMBase, Flags
    <3>2. q # p /\ q \in Pid
      BY <3>1, HolderSlots, Zenon DEF LocalStep
    <3> QED BY <1>2, <1>6, <1>8, <3>1, <3>2, SMTT(40)
  <2> QED BY <2>1, <2>2, Zenon DEF LocalStep
<1> QED BY <1>2, <1>5, <1>7, <1>9, <1>10, Zenon DEF SMBase

\* The invariant is kept by any outcome that clears flags at most, and clears
\* the one of a process that stops waiting.
LEMMA OutcomeBase ==
    ASSUME SetFacts, SMBase, NEW p \in Pid, phase[p] = "running", step[p] # "postfork",
           NEW L, NEW S, NEW K, NEW k, NEW f, NEW next,
           Outcome(p, L, S, K, k, f, next), Typed(p, L, S, K, k, f, next),
           \A i \in Slot : f[i] => suspendedProcesses[i],
           step[p] = "suspended" => ~ f[SlotOf(p)]
    PROVE  SMBase'
<1>1. /\ SMTypeOK /\ lastStateId \in 1 .. MaxStateId /\ lastStateId' = lastStateId
      /\ (states[p] \cup m_succeeded[p]) \subseteq 0 .. lastStateId - 1
  BY ZenonT(30) DEF SMBase, SMTypeOK, Life, LifeOf, Outcome
<1>2. (L \cup S) \subseteq 0 .. lastStateId' - 1 /\ lastStateId' \in lastStateId .. MaxStateId
  BY <1>1, MaxStateIdAssumption DEF Typed
<1>3. LocalStep(p, L, S, next)
  BY <1>1, <1>2, ZenonT(30) DEF LocalStep, Outcome, Typed, SMTypeOK, Step
<1> QED BY <1>3, LocalBase, ZenonT(30)

-----------------------------------------------------------------------------
(* Every step keeps the invariant. *)

\* A holder's count can be written as it is.
LEMMA OwnCount ==
    ASSUME SetFacts, SMBase, NEW p \in Holders
    PROVE  /\ successCount = [successCount EXCEPT ![SlotOf(p)] = Cardinality(m_succeeded[p])]
           /\ states = [states EXCEPT ![p] = states[p]]
           /\ m_succeeded = [m_succeeded EXCEPT ![p] = m_succeeded[p]]
           /\ step = [step EXCEPT ![p] = step[p]]
           /\ (states[p] \cup m_succeeded[p]) \subseteq 0 .. lastStateId - 1
           /\ lastStateId \in 1 .. MaxStateId /\ lastStateId \in lastStateId .. MaxStateId
           /\ p \in Pid
<1>1. /\ p \in Pid /\ SlotOf(p) \in Slot /\ SMTypeOK
      /\ successCount[SlotOf(p)] = Cardinality(m_succeeded[p])
  BY HolderSlots, Zenon DEF SMBase
<1> QED BY <1>1, MaxStateIdAssumption DEF SMTypeOK, SMBase, Life, LifeOf

\* The current state forks.
LEMMA ForkStateBase ==
    ASSUME SetFacts, SMBase, NEW p \in Pid, ForkState(p)
    PROVE  SMBase'
<1> DEFINE L == states[p] \cup {lastStateId}
<1>1. p \in Holders /\ phase[p] = "running" /\ step[p] = "exec" /\ SMTypeOK
  BY RunningHolds, Zenon DEF ForkState, Runs, SMBase
<1>2. (L \cup m_succeeded[p]) \subseteq 0 .. lastStateId' - 1 /\ lastStateId' \in lastStateId .. MaxStateId
  <2>1. lastStateId \in 1 .. MaxStateId /\ lastStateId < MaxStateId /\ lastStateId' = lastStateId + 1
    BY <1>1, Zenon DEF ForkState, SMTypeOK
  <2> QED BY <1>1, <2>1, OwnCount, MaxStateIdAssumption, SMTT(40)
<1>3. states' = [states EXCEPT ![p] = L]
  BY Zenon DEF ForkState
<1> HIDE DEF L
<1>4. LocalStep(p, L, m_succeeded[p], "exec")
  BY <1>1, <1>2, <1>3, OwnCount, ZenonT(30) DEF LocalStep, ForkState, smShared, history, SMTypeOK, Step
<1> QED BY <1>4, LocalBase, Zenon

\* The current state ends.
LEMMA FinishStateBase ==
    ASSUME SetFacts, SMBase, NEW p \in Pid, FinishState(p)
    PROVE  SMBase'
<1> DEFINE s == g_s2e_state[p]
           L == states[p] \ {s}
           S == m_succeeded[p] \ {s}
<1>1. /\ p \in Holders /\ phase[p] = "running" /\ step[p] = "exec" /\ SMTypeOK
      /\ s \in states[p] \cup m_succeeded[p]
  BY RunningHolds, Zenon DEF FinishState, Runs, SMBase
<1>2. (L \cup S) \subseteq 0 .. lastStateId - 1
  BY <1>1, OwnCount, Zenon
<1>3. successCount' = [successCount EXCEPT ![SlotOf(p)] = Cardinality(S)]
  <2>1. /\ m_succeeded[p] \in SUBSET StateId /\ SlotOf(p) \in Slot
        /\ successCount[SlotOf(p)] = Cardinality(m_succeeded[p])
        /\ successCount \in [Slot -> 0 .. MaxStateId]
    BY <1>1, HolderSlots, Zenon DEF SMTypeOK
  <2>2. s \in m_succeeded[p] => Cardinality(S) = Cardinality(m_succeeded[p]) - 1
    BY <2>1, Zenon DEF SetFacts
  <2>3. s \notin m_succeeded[p] => S = m_succeeded[p]
    BY Zenon
  <2>4. successCount' = [successCount EXCEPT ![SlotOf(p)] =
            IF s \in m_succeeded[p] THEN successCount[SlotOf(p)] - 1 ELSE successCount[SlotOf(p)]]
    BY <2>1, Zenon DEF FinishState
  <2> HIDE DEF S
  <2> QED BY <2>1, <2>2, <2>3, <2>4, Zenon
<1>4. /\ states' = [states EXCEPT ![p] = L] /\ m_succeeded' = [m_succeeded EXCEPT ![p] = S]
      /\ finished' = finished \cup {s} /\ finished' \subseteq StateId
  BY <1>1, Zenon DEF FinishState, SMTypeOK
<1>5. UNCHANGED <<vars, commands, suspendedProcesses, keepOneStateOnNode,
                  timeUp, lastStateId, g_s2e_state, step, killIssued>>
  BY ZenonT(30) DEF FinishState
<1> HIDE DEF L, S, s
<1>6. LocalStep(p, L, S, "exec")
  BY <1>1, <1>2, <1>3, <1>4, <1>5, OwnCount, SMTT(40) DEF LocalStep, SMTypeOK, Step
<1> QED BY <1>6, LocalBase, Zenon

\* The current state succeeds.
LEMMA SucceedStateBase ==
    ASSUME SetFacts, SMBase, NEW p \in Pid, SucceedState(p)
    PROVE  SMBase'
<1> DEFINE s == g_s2e_state[p]
           L == states[p] \ {s}
           S == m_succeeded[p] \cup {s}
<1>1. /\ p \in Holders /\ phase[p] = "running" /\ step[p] = "exec" /\ SMTypeOK
      /\ s \in states[p] \cup m_succeeded[p]
  BY RunningHolds, Zenon DEF SucceedState, Runs, SMBase
<1>2. (L \cup S) \subseteq 0 .. lastStateId - 1
  BY <1>1, OwnCount
<1>3. /\ states' = [states EXCEPT ![p] = L] /\ m_succeeded' = [m_succeeded EXCEPT ![p] = S]
      /\ successCount' = [successCount EXCEPT ![SlotOf(p)] = Cardinality(S)]
  BY <1>1, Zenon DEF SucceedState, SMTypeOK
<1> HIDE DEF L, S, s
<1>4. LocalStep(p, L, S, "exec")
  BY <1>1, <1>2, <1>3, OwnCount, ZenonT(30) DEF LocalStep, SucceedState, SMTypeOK, Step, history
<1> QED BY <1>4, LocalBase, ZenonT(30)

\* Time passes or starts anew, or nothing happens.
LEMMA TimeBase ==
    ASSUME SetFacts, SMBase, timeUp' \in BOOLEAN,
           UNCHANGED <<vars, successCount, commands, suspendedProcesses,
                       keepOneStateOnNode, lastStateId, local, history>>
    PROVE  SMBase'
<1>1. /\ IInv' /\ TypeOK' /\ Owners' = Owners /\ FreeSlots' = FreeSlots /\ phase' = phase
      /\ \A q : SlotOf(q)' = SlotOf(q)
  BY SameTable, Zenon
<1>2. Holders' = Holders
  BY <1>1, ZenonT(30) DEF Holders, local
<1>3. SMTypeOK' /\ Life' /\ Counts' /\ Flags'
  BY <1>1, <1>2 DEF SMBase, SMTypeOK, Life, LifeOf, Counts, Flags, local, history
<1> QED BY <1>1, <1>3, Zenon DEF SMBase

\* A process starts to wait.
LEMMA SuspendBase ==
    ASSUME SetFacts, SMBase, NEW p \in Pid, Suspend(p)
    PROVE  SMBase'
<1>1. /\ p \in Holders /\ phase[p] = "running" /\ step[p] = "suspending" /\ SMTypeOK
      /\ SlotOf(p) \in Slot /\ states[p] = {} /\ m_succeeded[p] # {}
  BY CallbackRuns, HolderSlots, Zenon DEF Suspend, SMBase, Life, LifeOf
<1>2. /\ suspendedProcesses' \in [Slot -> BOOLEAN]
      /\ \A i \in Slot : suspendedProcesses'[i] => suspendedProcesses[i] \/ i = SlotOf(p)
  BY <1>1, Zenon DEF Suspend, SMTypeOK
<1>3. LocalStep(p, states[p], m_succeeded[p], "suspended")
  BY <1>1, <1>2, OwnCount, Zenon DEF LocalStep, Suspend, SMTypeOK, Step, history
<1> QED BY <1>3, LocalBase, Zenon

\* ~StateManager.
LEMMA DestroyBase ==
    ASSUME SetFacts, SMBase, NEW p \in Pid, DestroyStateManager(p)
    PROVE  SMBase'
<1>1. /\ p \in Holders /\ phase[p] = "running" /\ step[p] = "exiting" /\ SMTypeOK
      /\ SlotOf(p) \in Slot /\ states[p] = {}
      /\ successCount[SlotOf(p)] = Cardinality(m_succeeded[p])
      /\ successCount \in [Slot -> 0 .. MaxStateId]
  BY CallbackRuns, HolderSlots, Zenon DEF DestroyStateManager, SMBase, Life, LifeOf, SMTypeOK
<1>2. successCount' = [successCount EXCEPT ![SlotOf(p)] = Cardinality({})]
  <2>1. successCount' = [successCount EXCEPT ![SlotOf(p)] =
                           successCount[SlotOf(p)] - Cardinality(m_succeeded[p])]
    BY <1>1, ZenonT(30) DEF DestroyStateManager
  <2>2. successCount[SlotOf(p)] - Cardinality(m_succeeded[p]) = 0 /\ Cardinality({}) = 0
    <3>1. Cardinality({}) = 0
      BY Zenon DEF SetFacts
    <3>2. successCount[SlotOf(p)] \in 0 .. MaxStateId
      BY <1>1, Zenon
    <3>3. \A n \in 0 .. MaxStateId : n - n = 0
      BY MaxStateIdAssumption
    <3> QED BY <1>1, <3>1, <3>2, <3>3, Zenon
  <2> QED BY <2>1, <2>2, ZenonT(30)
<1>3. keepOneStateOnNode' \in {None} \cup Slot
  BY <1>1, Zenon DEF DestroyStateManager, SMTypeOK
<1>4. LocalStep(p, states[p], {}, "destroyed")
  BY <1>1, <1>2, <1>3, OwnCount, Zenon DEF LocalStep, DestroyStateManager, SMTypeOK, Step, history
<1> QED BY <1>4, LocalBase, Zenon

\* doLoadBalancing reserves a child, or ::fork fails.
LEMMA BalanceBase ==
    ASSUME SetFacts, SMBase, IInv', NEW p \in Pid, BalanceStart(p) \/ BalanceFailed(p)
    PROVE  SMBase'
<1>1. IInv' /\ SMTypeOK /\ TypeOK
  BY ZenonT(30) DEF SMBase, SMTypeOK
<1>2. /\ UNCHANGED <<smShared, lastStateId, states, m_succeeded, g_s2e_state, history>>
      /\ UNCHANGED <<processIds, m_currentProcessId>>
      /\ \A q \in Pid \ {p} : phase'[q] = phase[q] /\ step'[q] = step[q]
      /\ \/ /\ phase[p] = "running" /\ step[p] = "exec"
            /\ phase'[p] = "reserved" /\ step'[p] = "forking"
         \/ /\ phase[p] = "reserved" /\ step[p] = "forking"
            /\ phase'[p] = "running" /\ step'[p] = "select"
      /\ step' \in [Pid -> Step]
  <2>1. /\ UNCHANGED <<smShared, lastStateId, states, m_succeeded, g_s2e_state, history>>
        /\ UNCHANGED <<processIds, m_currentProcessId>>
        /\ phase \in [Pid -> Phase] /\ step \in [Pid -> Step]
    BY <1>1, Zenon DEF BalanceStart, BalanceFailed, ForkReserve, ForkFailed, SMTypeOK, TypeOK
  <2>2. CASE BalanceStart(p)
    BY <2>1, <2>2, Zenon DEF BalanceStart, ForkReserve, Step
  <2>3. CASE BalanceFailed(p)
    BY <2>1, <2>3, Zenon DEF BalanceFailed, ForkFailed, Step
  <2> QED BY <2>2, <2>3, Zenon
<1>3. Holders' = Holders /\ FreeSlots' = FreeSlots /\ \A q : SlotOf(q)' = SlotOf(q)
  BY <1>2, Zenon DEF Holders, Owners, FreeSlots, SlotOf
<1>4. SMTypeOK'
  BY <1>1, <1>2, ZenonT(30) DEF SMTypeOK, smShared, history, IInv
<1>5. Life'
  <2>1. \A q \in Pid \ {p} : LifeOf(q)'
    BY <1>2, SameLife, Zenon DEF SMBase, Life
  <2>2. LifeOf(p)'
    BY <1>2, Zenon DEF SMBase, Life, LifeOf
  <2> QED BY <2>1, <2>2, Zenon DEF Life
<1>6. Counts' /\ Flags'
  <2>1. successCount' = successCount /\ suspendedProcesses' = suspendedProcesses
    BY <1>2, Zenon DEF smShared
  <2>2. Counts'
    BY <1>2, <1>3, <2>1, Zenon DEF SMBase, Counts
  <2>3. \A q \in Holders : step[q] = "suspended" => step'[q] = "suspended"
    BY <1>2, Zenon DEF Holders, Owners
  <2>4. Flags'
    BY <1>3, <2>1, <2>3, Zenon DEF SMBase, Flags
  <2> QED BY <2>2, <2>4, Zenon
<1> QED BY <1>1, <1>4, <1>5, <1>6, Zenon DEF SMBase

\* ::fork succeeds and the states are split.
LEMMA BalanceForkBase ==
    ASSUME SetFacts, SMBase, IInv', NEW p \in Pid, NEW c \in Pid, BalanceFork(p, c)
    PROVE  SMBase'
<1>1. IInv' /\ SMTypeOK /\ TypeOK /\ p # c
  BY Zenon DEF BalanceFork, ForkChild, SMBase, SMTypeOK
<1>2. PICK lower \in SUBSET states[p] :
          states' = [states EXCEPT ![p] = lower, ![c] = states[p] \ lower]
  BY ZenonT(30) DEF BalanceFork, kSubset
<1>3. /\ UNCHANGED <<smShared, lastStateId, history>> /\ UNCHANGED processIds
      /\ \A q \in Pid \ {p, c} : /\ phase'[q] = phase[q] /\ step'[q] = step[q]
                                 /\ states'[q] = states[q]
      /\ \A q \in Pid \ {c} : /\ m_succeeded'[q] = m_succeeded[q]
                              /\ m_currentProcessId'[q] = m_currentProcessId[q]
      /\ states'[p] = lower /\ states'[c] = states[p] \ lower /\ m_succeeded'[c] = m_succeeded[p]
      /\ phase[p] = "reserved" /\ step[p] = "forking" /\ phase[c] = "absent"
      /\ phase'[p] = "running" /\ step'[p] = "select"
      /\ phase'[c] = "born" /\ step'[c] = "postfork"
  BY <1>1, <1>2 DEF BalanceFork, ForkChild, shared, SMTypeOK, TypeOK
<1>4. /\ step' \in [Pid -> Step] /\ states' \in [Pid -> SUBSET StateId]
      /\ m_succeeded' \in [Pid -> SUBSET StateId]
      /\ g_s2e_state' \in [Pid -> StateId \cup {NoState}]
  BY <1>1, <1>2, ZenonT(30) DEF BalanceFork, SMTypeOK, Step
<1>5. /\ Holders' = Holders /\ FreeSlots' = FreeSlots /\ c \notin Holders
      /\ \A q \in Holders : SlotOf(q)' = SlotOf(q)
  BY <1>3 DEF Holders, Owners, FreeSlots, SlotOf
<1>6. SMTypeOK'
  BY <1>1, <1>3, <1>4, ZenonT(30) DEF SMTypeOK, smShared, history, IInv
<1>7. Life'
  <2>1. \A q \in Pid \ {p, c} : LifeOf(q)'
    BY <1>3, SameLife, Zenon DEF SMBase, Life
  <2>2. LifeOf(p)'
    BY <1>1, <1>2, <1>3, Zenon DEF SMBase, Life, LifeOf
  <2>3. LifeOf(c)'
    BY <1>1, <1>2, <1>3, Zenon DEF SMBase, Life, LifeOf
  <2> QED BY <2>1, <2>2, <2>3, Zenon DEF Life
<1>8. Counts' /\ Flags'
  <2>1. successCount' = successCount /\ suspendedProcesses' = suspendedProcesses
    BY <1>3, Zenon DEF smShared
  <2>2. \A q \in Holders : /\ m_succeeded'[q] = m_succeeded[q]
                           /\ step[q] = "suspended" => step'[q] = "suspended"
    BY <1>3, <1>5, Zenon DEF Holders, Owners
  <2>3. Counts'
    BY <1>5, <2>1, <2>2, Zenon DEF SMBase, Counts
  <2>4. Flags'
    BY <1>5, <2>1, <2>2, Zenon DEF SMBase, Flags
  <2> QED BY <2>3, <2>4, Zenon
<1> QED BY <1>1, <1>6, <1>7, <1>8, Zenon DEF SMBase

\* The child takes a slot and makes its directory; it has not yet run
\* onProcessFork, so nobody counts on its slot.
LEMMA ChildBase ==
    ASSUME SetFacts, SMBase, IInv', NEW c \in Pid, ChildStep(c)
    PROVE  SMBase'
<1>1. IInv' /\ SMTypeOK /\ TypeOK /\ UNCHANGED smVars
  BY Zenon DEF ChildStep, SMBase, SMTypeOK
<1>2. /\ UNCHANGED <<smShared, lastStateId, states, m_succeeded, step, history>>
      /\ phase'[c] # "aborted"
  BY <1>1, Zenon DEF smVars, local, IInv, NothingAborted
<1>3. /\ \A q \in Pid \ {c} : /\ phase'[q] = phase[q]
                              /\ m_currentProcessId'[q] = m_currentProcessId[q]
      /\ phase[c] \in {"born", "registered"} /\ phase'[c] \in {"registered", "running"}
      /\ FreeSlots' \subseteq FreeSlots
  <2>1. CASE RegisterChild(c)
    BY <1>1, <1>2, <2>1 DEF RegisterChild, FreeSlots, TypeOK, IInv
  <2>2. CASE InitOutputDirectory(c)
    BY <1>1, <1>2, <2>2, Zenon DEF InitOutputDirectory, shared, FreeSlots, TypeOK
  <2> QED BY <2>1, <2>2, ZenonT(30) DEF ChildStep
<1>4. step[c] = "postfork"
  BY <1>3, ZenonT(30) DEF SMBase, Life, LifeOf
<1>5. Holders' = Holders /\ c \notin Holders /\ \A q \in Holders : SlotOf(q)' = SlotOf(q)
  BY <1>2, <1>3, <1>4, Zenon DEF Holders, Owners, SlotOf
<1>6. SMTypeOK'
  BY <1>1, Zenon DEF SMTypeOK, smVars, smShared, history, local, IInv
<1>7. Life'
  BY <1>2, <1>3, <1>4, ZenonT(30) DEF SMBase, Life, LifeOf
<1>8. Counts' /\ Flags'
  BY <1>2, <1>3, <1>5 DEF SMBase, Counts, Flags, smShared
<1> QED BY <1>1, <1>6, <1>7, <1>8, ZenonT(30) DEF SMBase

\* The child's onProcessFork fills in its slot.
LEMMA ProcessForkBase ==
    ASSUME SetFacts, SMBase, NEW c \in Pid, onProcessFork(c)
    PROVE  SMBase'
<1>1. /\ IInv' /\ TypeOK' /\ Owners' = Owners /\ FreeSlots' = FreeSlots /\ phase' = phase
      /\ \A q : SlotOf(q)' = SlotOf(q)
  BY SameTable, Zenon DEF onProcessFork
<1>2. /\ SMTypeOK /\ phase[c] = "running" /\ step[c] = "postfork" /\ c \in Owners
      /\ c \notin Holders /\ SlotOf(c) \in Slot /\ SlotOf(c) \notin FreeSlots
      /\ \A q \in Owners : SlotOf(q) = SlotOf(c) => q = c
  <2>1. /\ SMTypeOK /\ phase[c] = "running" /\ step[c] = "postfork" /\ c \in Owners
        /\ c \notin Holders /\ SlotOf(c) \in Slot /\ m_currentProcessIndex[c] \in Nat
    BY Zenon DEF onProcessFork, SMBase, SMTypeOK, TypeOK, SlotOf, Holders, Owners
  <2>2. processIds[SlotOf(c)] \in Nat /\ \A q \in Owners : SlotOf(q) = SlotOf(c) => q = c
    BY <2>1, Zenon DEF SMBase, IInv, SlotOwned, SlotOf
  <2> QED BY <2>1, <2>2 DEF FreeSlots, None
<1>3. Cardinality(m_succeeded[c]) \in 0 .. MaxStateId
  BY <1>2 DEF SMTypeOK, SetFacts
<1>4. /\ \A i \in Slot : successCount'[i] = IF i = SlotOf(c) THEN Cardinality(m_succeeded[c])
                                            ELSE successCount[i]
      /\ \A i \in Slot : suspendedProcesses'[i] = IF i = SlotOf(c) THEN FALSE
                                                  ELSE suspendedProcesses[i]
      /\ \A q \in Pid : step'[q] = IF q = c THEN "select" ELSE step[q]
      /\ UNCHANGED <<lastStateId, states, m_succeeded>>
  BY <1>2, Zenon DEF onProcessFork, SMTypeOK
<1>5. SMTypeOK'
  BY <1>1, <1>2, <1>3, ZenonT(30) DEF onProcessFork, SMTypeOK, Step, history
<1>6. Life'
  <2>1. \A q \in Pid \ {c} : LifeOf(q)'
    BY <1>1, <1>4, SameLife, Zenon DEF SMBase, Life
  <2>2. LifeOf(c)'
    BY <1>1, <1>2, <1>4, Zenon DEF SMBase, Life, LifeOf
  <2> QED BY <2>1, <2>2, Zenon DEF Life
<1>7. Holders' = Holders \cup {c} /\ \A q \in Holders : q \in Pid /\ SlotOf(q) \in Slot /\ q # c
  BY <1>1, <1>2, <1>4, HolderSlots, ZenonT(30) DEF Holders, Owners
<1>8. Counts'
  <2>1. \A q \in Holders : SlotOf(q) # SlotOf(c)
    BY <1>2, <1>7, Zenon DEF Holders
  <2>2. \A q \in Holders' : successCount'[SlotOf(q)'] = Cardinality(m_succeeded'[q])
    BY <1>1, <1>2, <1>4, <1>7, <2>1, Zenon DEF SMBase, Counts
  <2>3. \A i \in FreeSlots' : successCount'[i] = 0
    BY <1>1, <1>2, <1>4, Zenon DEF SMBase, Counts, FreeSlots
  <2> QED BY <2>2, <2>3, Zenon DEF Counts
<1>9. Flags'
  <2> SUFFICES ASSUME NEW i \in Slot, suspendedProcesses'[i]
               PROVE  \E q \in Holders' : SlotOf(q)' = i /\ step'[q] = "suspended"
    BY Zenon DEF Flags
  <2>1. PICK q \in Holders : SlotOf(q) = i /\ step[q] = "suspended"
    BY <1>4, Zenon DEF SMBase, Flags
  <2> QED BY <1>1, <1>4, <1>7, <2>1, Zenon
<1> QED BY <1>1, <1>5, <1>6, <1>8, <1>9, Zenon DEF SMBase

\* ~S2E frees the slot, which ~StateManager has cleared.
LEMMA ExitBase ==
    ASSUME SetFacts, SMBase, IInv', NEW p \in Pid, Exit(p)
    PROVE  SMBase'
<1>1. IInv' /\ SMTypeOK /\ TypeOK
  BY Zenon DEF SMBase, SMTypeOK
<1>2. /\ step[p] = "destroyed" /\ p \in Holders /\ phase[p] = "running"
      /\ states[p] = {} /\ m_succeeded[p] = {}
      /\ SlotOf(p) \in Slot /\ successCount[SlotOf(p)] = 0
      /\ \A q \in Holders : SlotOf(q) = SlotOf(p) => q = p
  <2>1. step[p] = "destroyed"
    BY Zenon DEF Exit
  <2>2. p \in Holders /\ phase[p] = "running" /\ states[p] = {} /\ m_succeeded[p] = {}
    BY <2>1, CallbackRuns, Zenon DEF SMBase, Life, LifeOf
  <2>3. Cardinality({}) = 0
    BY Zenon DEF SetFacts
  <2> QED BY <2>1, <2>2, <2>3, HolderSlots, Zenon
<1>3. /\ UNCHANGED <<smShared, lastStateId, states, m_succeeded, g_s2e_state, history>>
      /\ \A q \in Pid \ {p} : /\ phase'[q] = phase[q] /\ step'[q] = step[q]
                              /\ m_currentProcessId'[q] = m_currentProcessId[q]
      /\ phase'[p] = "absent" /\ step'[p] = "exec" /\ step' \in [Pid -> Step]
      /\ FreeSlots' \subseteq FreeSlots \cup {SlotOf(p)}
  <2>1. phase'[p] # "aborted"
    BY <1>1, Zenon DEF IInv, NothingAborted
  <2>2. /\ phase' = [phase EXCEPT ![p] = "absent"]
        /\ processIds' = [processIds EXCEPT ![SlotOf(p)] = None]
        /\ m_currentProcessId' = [m_currentProcessId EXCEPT ![p] = 0]
    BY <1>1, <2>1, Zenon DEF Exit, Close, ForgetMemory, TypeOK, SlotOf
  <2> QED BY <1>1, <1>2, <2>2, Zenon DEF Exit, SMTypeOK, TypeOK, FreeSlots, Step
<1>4. Holders' = Holders \ {p} /\ \A q \in Holders : q # p => SlotOf(q)' = SlotOf(q)
  BY <1>3, Zenon DEF Holders, Owners, SlotOf
<1>5. SMTypeOK'
  BY <1>1, <1>3, ZenonT(30) DEF SMTypeOK, smShared, history, IInv
<1>6. Life'
  <2>1. \A q \in Pid \ {p} : LifeOf(q)'
    BY <1>3, SameLife, Zenon DEF SMBase, Life
  <2>2. LifeOf(p)'
    BY <1>2, <1>3, Zenon DEF SMBase, Life, LifeOf
  <2> QED BY <2>1, <2>2, Zenon DEF Life
<1>7. successCount' = successCount /\ suspendedProcesses' = suspendedProcesses
      /\ \A q \in Holders : q \in Pid
  BY <1>3, HolderSlots, Zenon DEF smShared
<1>8. Counts'
  BY <1>2, <1>3, <1>4, <1>7, ZenonT(30) DEF SMBase, Counts
<1>9. Flags'
  <2> SUFFICES ASSUME NEW i \in Slot, suspendedProcesses'[i]
               PROVE  \E q \in Holders' : SlotOf(q)' = i /\ step'[q] = "suspended"
    BY Zenon DEF Flags
  <2>1. PICK q \in Holders : SlotOf(q) = i /\ step[q] = "suspended"
    BY <1>7, Zenon DEF SMBase, Flags
  <2>2. q # p /\ q \in Pid
    BY <1>2, <1>7, <2>1, Zenon
  <2> QED BY <1>3, <1>4, <2>1, <2>2, Zenon
<1> QED BY <1>1, <1>5, <1>6, <1>8, <1>9, Zenon DEF SMBase

\* The critical sections of sm_callback.
LEMMA CallbackBase ==
    ASSUME SetFacts, SMBase, NEW p \in Pid, SelectNextState(p) \/ Poll(p) \/ Woken(p)
    PROVE  SMBase'
<1>1. CASE SelectNextState(p)
  <2>1. phase[p] = "running" /\ step[p] # "postfork" /\ step[p] # "suspended"
    BY <1>1, SelectCases, Zenon
  <2>2. PICK L, S, K, k, next : /\ Outcome(p, L, S, K, k, suspendedProcesses, next)
                                /\ Typed(p, L, S, K, k, suspendedProcesses, next)
    BY <1>1, SelectCases, Zenon
  <2> QED BY <2>1, <2>2, OutcomeBase, Zenon
<1>2. CASE Woken(p)
  <2>1. phase[p] = "running" /\ step[p] # "postfork" /\ step[p] # "suspended"
    BY <1>2, WokenCases, Zenon
  <2>2. PICK L, S, K, k, next : /\ Outcome(p, L, S, K, k, suspendedProcesses, next)
                                /\ Typed(p, L, S, K, k, suspendedProcesses, next)
    BY <1>2, WokenCases, Zenon
  <2> QED BY <2>1, <2>2, OutcomeBase, Zenon
<1>3. CASE Poll(p)
  <2>1. /\ phase[p] = "running" /\ step[p] # "postfork" /\ p \in Holders
        /\ states[p] = {} /\ m_succeeded[p] # {}
    BY <1>3, PollCases, Zenon
  <2>2. SlotOf(p) \in Slot
    BY <2>1, HolderSlots, Zenon
  <2>3. CASE /\ ~ suspendedProcesses[SlotOf(p)]
             /\ Outcome(p, {}, m_succeeded[p], commands, keepOneStateOnNode,
                        suspendedProcesses, "woken")
    <3>1. Typed(p, {}, m_succeeded[p], commands, keepOneStateOnNode,
                suspendedProcesses, "woken")
      BY <2>1, Zenon DEF Typed, SMBase, SMTypeOK
    <3> QED BY <2>1, <2>3, <3>1, OutcomeBase, Zenon
  <2>4. ASSUME NEW L, NEW S, NEW K, NEW k, NEW next,
               Outcome(p, L, S, K, k, [i \in Slot |-> FALSE], next),
               Typed(p, L, S, K, k, [i \in Slot |-> FALSE], next)
        PROVE  SMBase'
    <3> DEFINE f == [i \in Slot |-> FALSE]
    <3>1. \A i \in Slot : ~ f[i]
      BY Zenon
    <3> HIDE DEF f
    <3>2. Outcome(p, L, S, K, k, f, next) /\ Typed(p, L, S, K, k, f, next)
      BY <2>4, Zenon DEF f
    <3> QED BY <2>1, <2>2, <3>1, <3>2, OutcomeBase, ZenonT(30)
  <2> QED BY <1>3, <2>3, <2>4, PollCases, ZenonT(30)
<1> QED BY <1>1, <1>2, <1>3, Zenon

\* The first process starts with one state.
LEMMA InitBase ==
    ASSUME SetFacts, IInv, SMInit
    PROVE  SMBase
<1> USE PidAssumption, MaxProcessesAssumption, MaxStateIdAssumption
<1>1. IInv /\ TypeOK
  BY Zenon DEF IInv
<1>2. SMTypeOK
  <2>1. 0 \in StateId /\ 0 \in 0 .. MaxStateId /\ 1 \in 1 .. MaxStateId
    BY DEF StateId
  <2>2. "exec" \in Step
    BY Zenon DEF Step
  <2> QED BY <1>1, <2>1, <2>2, Zenon DEF SMInit, SMTypeOK
<1>3. Life
  BY DEF SMInit, Init, Life, LifeOf
<1>4. Counts
  <2>1. Cardinality({}) = 0
    BY Zenon DEF SetFacts
  <2>2. \A p \in Holders : p \in Pid /\ SlotOf(p) \in Slot
    BY <1>1, Zenon DEF Holders, Owners, SlotOf, TypeOK
  <2> QED BY <2>1, <2>2, Zenon DEF SMInit, Counts, FreeSlots
<1>5. Flags
  BY Zenon DEF SMInit, Flags
<1> QED BY <1>1, <1>2, <1>3, <1>4, <1>5, SMTT(40) DEF SMBase

\* Every step keeps the invariant, given the one of the process table after it.
LEMMA NextBase ==
    ASSUME SetFacts, SMBase, IInv', [SMNext]_allVars
    PROVE  SMBase'
<1>1. CASE \E p \in Pid : ForkState(p) \/ FinishState(p) \/ SucceedState(p)
  BY <1>1, ForkStateBase, FinishStateBase, SucceedStateBase, Zenon
<1>2. CASE \E p \in Pid : BalanceStart(p) \/ BalanceFailed(p) \/ ChildStep(p) \/ onProcessFork(p)
  BY <1>2, BalanceBase, ChildBase, ProcessForkBase, Zenon
<1>3. CASE \E p \in Pid : SelectNextState(p) \/ Poll(p) \/ Woken(p)
  BY <1>3, CallbackBase, Zenon
<1>4. CASE \E p \in Pid : Suspend(p) \/ DestroyStateManager(p) \/ Exit(p)
  BY <1>4, SuspendBase, DestroyBase, ExitBase, Zenon
<1>5. CASE \E p, c \in Pid : BalanceFork(p, c)
  BY <1>5, BalanceForkBase, Zenon
<1>6. CASE (\E p \in Pid : NewBlockCovered(p)) \/ Tick \/ UNCHANGED allVars
  <2>1. timeUp \in BOOLEAN
    BY Zenon DEF SMBase, SMTypeOK
  <2>2. timeUp' \in BOOLEAN
    BY <1>6, <2>1, Zenon DEF NewBlockCovered, Tick, allVars, smVars, smShared
  <2>3. UNCHANGED <<vars, successCount, commands, suspendedProcesses,
                    keepOneStateOnNode, lastStateId, local, history>>
    BY <1>6, Zenon DEF NewBlockCovered, Tick, allVars, smVars, smShared
  <2> QED BY <2>2, <2>3, TimeBase, Zenon
<1> QED BY <1>1, <1>2, <1>3, <1>4, <1>5, <1>6, ZenonT(30) DEF SMNext, Terminated
=============================================================================
