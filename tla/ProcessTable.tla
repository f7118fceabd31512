---------------------------- MODULE ProcessTable ----------------------------
(***************************************************************************)
(* The table of S2E processes (S2EShared, S2E::fork, S2E::~S2E).           *)
(*                                                                         *)
(* S2E explores paths with several operating-system processes that share   *)
(* one S2EShared record.  Each critical section on m_sync is one action    *)
(* here (module Synchronization shows that the semaphore makes it one);    *)
(* what a process does between two critical sections interleaves.          *)
(***************************************************************************)
EXTENDS Integers, FiniteSets

CONSTANTS Pid,           \* operating-system process ids
          NoPid,         \* (unsigned) -1 in processPids
          InitialPid,    \* the process that runs S2E::S2E
          MaxProcesses,  \* m_maxProcesses
          MaxFileId      \* bound on lastFileId, for model checking

ASSUME PidAssumption == InitialPid \in Pid /\ NoPid \notin Pid /\ IsFiniteSet(Pid)
ASSUME MaxProcessesAssumption == MaxProcesses \in Nat \ {0}
ASSUME MaxFileIdAssumption == MaxFileId \in Nat \ {0}

VARIABLES
    currentProcessCount, lastFileId, processIds, processPids,   \* S2EShared
    phase,                  \* where each process stands in its life
    m_currentProcessId,     \* slot of each process
    m_currentProcessIndex,  \* index of each process
    newProcessIndex,        \* local of S2E::fork, inherited by the child
    outputDirs              \* indices whose output directory exists on disk

shared == <<currentProcessCount, lastFileId, processIds, processPids>>
vars == <<currentProcessCount, lastFileId, processIds, processPids, phase,
          m_currentProcessId, m_currentProcessIndex, newProcessIndex,
          outputDirs>>

Slot == 0 .. MaxProcesses - 1
None == -1      \* (unsigned) -1 in processIds

\* "absent": no such process.   "running": outside S2E::fork.
\* "reserved": counted a child, about to call ::fork.
\* "born": the child, before it has a slot.   "registered": the child, before
\* it has made its output directory.   "aborted": a failed assert.
Phase == {"absent", "running", "reserved", "born", "registered", "aborted"}

FreeSlots == {i \in Slot : processIds[i] = None}
UsedSlots == Slot \ FreeSlots

\* Processes that hold a slot, and processes whose child has been counted but
\* has no slot yet.
Owners == {p \in Pid : phase[p] \in {"running", "reserved", "registered"}}
Pending == {p \in Pid : phase[p] \in {"reserved", "born"}}
Alive == {p \in Pid : phase[p] \notin {"absent", "aborted"}}

\* The private memory of a process disappears with it.
ForgetMemory(p) ==
    /\ m_currentProcessId' = [m_currentProcessId EXCEPT ![p] = 0]
    /\ m_currentProcessIndex' = [m_currentProcessIndex EXCEPT ![p] = 0]
    /\ newProcessIndex' = [newProcessIndex EXCEPT ![p] = 0]

Init ==
    /\ currentProcessCount = 1
    /\ lastFileId = 1
    /\ processIds = [i \in Slot |-> IF i = 0 THEN 0 ELSE None]
    /\ processPids = [i \in Slot |-> IF i = 0 THEN InitialPid ELSE NoPid]
    /\ phase = [p \in Pid |-> IF p = InitialPid THEN "running" ELSE "absent"]
    /\ m_currentProcessId = [p \in Pid |-> 0]
    /\ m_currentProcessIndex = [p \in Pid |-> 0]
    /\ newProcessIndex = [p \in Pid |-> 0]
    /\ outputDirs = {0}

\* Mutant of ForkReserve: the child is not counted before it exists.
ForkReserve_NotCounted(p) ==
    /\ phase[p] = "running"
    /\ currentProcessCount # MaxProcesses
    /\ lastFileId < MaxFileId
    /\ newProcessIndex' = [newProcessIndex EXCEPT ![p] = lastFileId]
    /\ lastFileId' = lastFileId + 1
    /\ phase' = [phase EXCEPT ![p] = "reserved"]
    /\ UNCHANGED <<currentProcessCount, processIds, processPids,
                   m_currentProcessId, m_currentProcessIndex, outputDirs>>

\* Mutant of ForkReserve: the index of the child is the number of processes.
ForkReserve_IndexIsCount(p) ==
    /\ phase[p] = "running"
    /\ currentProcessCount # MaxProcesses
    /\ lastFileId < MaxFileId
    /\ newProcessIndex' = [newProcessIndex EXCEPT ![p] = currentProcessCount]
    /\ lastFileId' = lastFileId + 1
    /\ currentProcessCount' = currentProcessCount + 1
    /\ phase' = [phase EXCEPT ![p] = "reserved"]
    /\ UNCHANGED <<processIds, processPids, m_currentProcessId,
                   m_currentProcessIndex, outputDirs>>

\* S2E::fork, first critical section.  When the table is full the function
\* returns -1 and changes nothing.
ForkReserve(p) ==
    /\ phase[p] = "running"
    /\ currentProcessCount # MaxProcesses
    /\ lastFileId < MaxFileId
    /\ newProcessIndex' = [newProcessIndex EXCEPT ![p] = lastFileId]
    /\ lastFileId' = lastFileId + 1
    /\ currentProcessCount' = currentProcessCount + 1
    /\ phase' = [phase EXCEPT ![p] = "reserved"]
    /\ UNCHANGED <<processIds, processPids, m_currentProcessId,
                   m_currentProcessIndex, outputDirs>>

\* ::fork returns -1: give the reservation back, keep lastFileId.
ForkFailed(p) ==
    /\ phase[p] = "reserved"
    /\ currentProcessCount' = currentProcessCount - 1
    /\ phase' = [phase EXCEPT ![p] = "running"]
    /\ newProcessIndex' = [newProcessIndex EXCEPT ![p] = 0]
    /\ UNCHANGED <<lastFileId, processIds, processPids, m_currentProcessId,
                   m_currentProcessIndex, outputDirs>>

\* ::fork succeeds: the child c is a copy of its parent p.
ForkChild(p, c) ==
    /\ phase[p] = "reserved"
    /\ phase[c] = "absent"
    /\ phase' = [phase EXCEPT ![p] = "running", ![c] = "born"]
    /\ m_currentProcessId' = [m_currentProcessId EXCEPT ![c] = m_currentProcessId[p]]
    /\ m_currentProcessIndex' =
           [m_currentProcessIndex EXCEPT ![c] = m_currentProcessIndex[p]]
    /\ newProcessIndex' = [newProcessIndex EXCEPT ![p] = 0, ![c] = newProcessIndex[p]]
    /\ UNCHANGED <<shared, outputDirs>>

\* The child takes the lowest free slot (second critical section); with no
\* free slot the assert that follows the loop fails.
RegisterChild(c) ==
    /\ phase[c] = "born"
    /\ IF FreeSlots = {}
       THEN /\ phase' = [phase EXCEPT ![c] = "aborted"]
            /\ UNCHANGED <<processIds, processPids, m_currentProcessId,
                           m_currentProcessIndex>>
       ELSE \E i \in FreeSlots :
            /\ \A j \in FreeSlots : i <= j
            /\ processIds' = [processIds EXCEPT ![i] = newProcessIndex[c]]
            /\ processPids' = [processPids EXCEPT ![i] = c]
            /\ m_currentProcessId' = [m_currentProcessId EXCEPT ![c] = i]
            /\ m_currentProcessIndex' =
                   [m_currentProcessIndex EXCEPT ![c] = newProcessIndex[c]]
            /\ phase' = [phase EXCEPT ![c] = "registered"]
    /\ newProcessIndex' = [newProcessIndex EXCEPT ![c] = 0]
    /\ UNCHANGED <<currentProcessCount, lastFileId, outputDirs>>

\* initOutputDirectory(..., forked = true): the directory named after the
\* index must not exist yet.
InitOutputDirectory(c) ==
    /\ phase[c] = "registered"
    /\ IF m_currentProcessIndex[c] \in outputDirs
       THEN phase' = [phase EXCEPT ![c] = "aborted"]
       ELSE phase' = [phase EXCEPT ![c] = "running"]
    /\ outputDirs' = outputDirs \cup {m_currentProcessIndex[c]}
    /\ UNCHANGED <<shared, m_currentProcessId, m_currentProcessIndex,
                   newProcessIndex>>

\* Mutant of Close: the process leaves its index in the table.
Close_KeepsSlot(p) ==
    /\ phase[p] \in {"running", "registered"}
    /\ currentProcessCount' = currentProcessCount - 1
    /\ phase' = [phase EXCEPT ![p] = "absent"]
    /\ ForgetMemory(p)
    /\ UNCHANGED <<lastFileId, processIds, processPids, outputDirs>>

\* S2E::~S2E, from exit() through s2e_cleanup.
Close(p) ==
    /\ phase[p] \in {"running", "registered"}
    /\ LET slot == m_currentProcessId[p] IN
       IF processIds[slot] = m_currentProcessIndex[p]
       THEN /\ processIds' = [processIds EXCEPT ![slot] = None]
            /\ processPids' = [processPids EXCEPT ![slot] = NoPid]
            /\ currentProcessCount' = currentProcessCount - 1
            /\ phase' = [phase EXCEPT ![p] = "absent"]
       ELSE /\ phase' = [phase EXCEPT ![p] = "aborted"]
            /\ UNCHANGED <<processIds, processPids, currentProcessCount>>
    /\ ForgetMemory(p)
    /\ UNCHANGED <<lastFileId, outputDirs>>

\* A process dies without running ~S2E (a signal, an assert, an abort); the
\* operating system may hand its pid to a later child.
Crash(p) ==
    /\ p \in Alive
    /\ phase' = [phase EXCEPT ![p] = "absent"]
    /\ ForgetMemory(p)
    /\ UNCHANGED <<shared, outputDirs>>

\* Mutant of CheckDeadProcesses: the exit status of "kill -0" is misread.
CheckDeadProcesses_Inverted(p) ==
    /\ phase[p] = "running"
    /\ LET dead == {i \in Slot : /\ processPids[i] # NoPid
                                 /\ processPids[i] \in Alive} IN
       /\ processIds' = [i \in Slot |-> IF i \in dead THEN None ELSE processIds[i]]
       /\ processPids' = [i \in Slot |-> IF i \in dead THEN NoPid ELSE processPids[i]]
       /\ currentProcessCount' = currentProcessCount - Cardinality(dead)
    /\ UNCHANGED <<lastFileId, phase, m_currentProcessId,
                   m_currentProcessIndex, newProcessIndex, outputDirs>>

\* S2E::checkDeadProcesses.  "kill -0" still succeeds for a dead child that
\* nobody waited for, so only some of the dead are found.
CheckDeadProcesses(p) ==
    /\ phase[p] = "running"
    /\ \E dead \in SUBSET {i \in Slot : /\ processPids[i] # NoPid
                                        /\ processPids[i] \notin Alive} :
       /\ processIds' = [i \in Slot |-> IF i \in dead THEN None ELSE processIds[i]]
       /\ processPids' = [i \in Slot |-> IF i \in dead THEN NoPid ELSE processPids[i]]
       /\ currentProcessCount' = currentProcessCount - Cardinality(dead)
    /\ UNCHANGED <<lastFileId, phase, m_currentProcessId,
                   m_currentProcessIndex, newProcessIndex, outputDirs>>

Next ==
    \/ \E p \in Pid : \/ ForkReserve(p)
                      \/ ForkFailed(p)
                      \/ RegisterChild(p)
                      \/ InitOutputDirectory(p)
                      \/ Close(p)
                      \/ Crash(p)
                      \/ CheckDeadProcesses(p)
    \/ \E p, c \in Pid : ForkChild(p, c)

Spec == Init /\ [][Next]_vars

-----------------------------------------------------------------------------
\* The count stays within the table, and every slot, index and pid is of its
\* kind: S2EShared after any interleaving of S2E::fork, ~S2E and crashes.
TypeOK ==
    /\ currentProcessCount \in 0 .. MaxProcesses
    /\ lastFileId \in Nat
    /\ processIds \in [Slot -> Nat \cup {None}]
    /\ processPids \in [Slot -> Pid \cup {NoPid}]
    /\ phase \in [Pid -> Phase]
    /\ m_currentProcessId \in [Pid -> Slot]
    /\ m_currentProcessIndex \in [Pid -> Nat]
    /\ newProcessIndex \in [Pid -> Nat]
    /\ outputDirs \subseteq Nat

\* There is a free slot for every child on its way, however forks, failures,
\* exits, crashes and the reclaiming of dead slots interleave: the assert
\* (i < m_maxProcesses) of S2E::fork cannot fail.
SlotForEveryChild == Cardinality(Pending) <= Cardinality(FreeSlots)

\* Every process that has a slot finds its own index in it (the assert of
\* ~S2E), and no two processes have the same slot: a slot freed by a crash or
\* an exit and taken again never belongs to a process that still runs.
SlotOwned ==
    /\ \A p \in Owners : processIds[m_currentProcessId[p]] = m_currentProcessIndex[p]
    /\ \A p, q \in Owners : m_currentProcessId[p] = m_currentProcessId[q] => p = q

\* A process about to make its output directory has an index nobody used
\* before, even after forks that failed and processes that died: the assert
\* (!exists) of initOutputDirectory cannot fail.
FreshDirectory ==
    \A p \in Pid : phase[p] = "registered" => m_currentProcessIndex[p] \notin outputDirs

-----------------------------------------------------------------------------
(* What holds between the steps of the processes and makes the above true. *)

\* The index under which a process or its child will make an output directory.
UnopenedIndex(p) ==
    IF phase[p] = "registered" THEN m_currentProcessIndex[p] ELSE newProcessIndex[p]

Unopened == {p \in Pid : phase[p] \in {"reserved", "born", "registered"}}

\* Slots in use and children on their way are all counted.
Counted ==
    Cardinality(UsedSlots) + Cardinality(Pending) <= currentProcessCount

\* A slot that belongs to a process carries its pid; a free one carries none.
SlotPids ==
    /\ \A p \in Owners : processPids[m_currentProcessId[p]] = p
    /\ \A i \in Slot : processPids[i] = NoPid <=> processIds[i] = None

\* An index is handed out once.
IndexFresh ==
    /\ \A n \in outputDirs : n < lastFileId
    /\ \A p \in Unopened : /\ UnopenedIndex(p) < lastFileId
                           /\ UnopenedIndex(p) \notin outputDirs
    /\ \A p, q \in Unopened : UnopenedIndex(p) = UnopenedIndex(q) => p = q

NothingAborted == \A p \in Pid : phase[p] # "aborted"

\* The inductive invariant.
IInv == /\ TypeOK
        /\ NothingAborted
        /\ SlotOwned
        /\ SlotPids
        /\ Counted
        /\ IndexFresh

-----------------------------------------------------------------------------
Pool == INSTANCE ProcessPool WITH alive <- Alive

\* At any moment at most MaxProcesses S2E processes exist, and one appears only
\* when there is room for it: the table implements the pool.
PoolSpec == Pool!Spec
=============================================================================
