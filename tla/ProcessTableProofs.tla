------------------------- MODULE ProcessTableProofs -------------------------
(***************************************************************************)
(* The safety of the process table, and of the semaphore that guards it    *)
(* and every other shared object, for any number of processes and slots.   *)
(***************************************************************************)
EXTENDS ProcessTable, Synchronization, FiniteSetTheorems, TLAPS

-----------------------------------------------------------------------------
\* The slots and the processes are finite sets, so the sets whose sizes the
\* table's counter tracks have cardinalities.
LEMMA Finite ==
    /\ IsFiniteSet(Slot) /\ Cardinality(Slot) = MaxProcesses
    /\ IsFiniteSet(UsedSlots) /\ Cardinality(UsedSlots) \in Nat
    /\ IsFiniteSet(Pending) /\ Cardinality(Pending) \in Nat
    /\ IsFiniteSet(FreeSlots) /\ Cardinality(FreeSlots) \in Nat
<1>1. IsFiniteSet(Slot) /\ Cardinality(Slot) = MaxProcesses
  BY MaxProcessesAssumption, FS_Interval DEF Slot
<1>2. IsFiniteSet(UsedSlots) /\ IsFiniteSet(FreeSlots)
  <2>1. UsedSlots \in SUBSET Slot /\ FreeSlots \in SUBSET Slot
    BY Zenon DEF UsedSlots, FreeSlots
  <2> QED BY <1>1, <2>1, FS_Subset, Zenon
<1>3. IsFiniteSet(Pending)
  <2>1. Pending \in SUBSET Pid
    BY Zenon DEF Pending
  <2> QED BY <2>1, PidAssumption, FS_Subset, Zenon
<1> QED BY <1>1, <1>2, <1>3, FS_CardinalityType, Zenon

\* Counting leaves a free slot for each pending child.
LEMMA CountedGivesRoom ==
    ASSUME TypeOK, Counted
    PROVE  SlotForEveryChild
<1>1. FreeSlots \cup UsedSlots = Slot /\ FreeSlots \cap UsedSlots = {}
  BY Zenon DEF FreeSlots, UsedSlots
<1>2. Cardinality(Slot) = Cardinality(FreeSlots) + Cardinality(UsedSlots)
  <2>1. Cardinality(FreeSlots \cap UsedSlots) = 0
    BY <1>1, FS_EmptySet, Zenon
  <2>2. Cardinality(FreeSlots \cup UsedSlots) =
            Cardinality(FreeSlots) + Cardinality(UsedSlots)
              - Cardinality(FreeSlots \cap UsedSlots)
    BY Finite, FS_Union, Zenon
  <2>3. Cardinality(Slot) = Cardinality(FreeSlots \cup UsedSlots)
    BY <1>1, Zenon
  <2> QED BY <2>1, <2>2, <2>3, Finite
<1> QED BY <1>2, Finite, MaxProcessesAssumption DEF TypeOK, Counted, SlotForEveryChild

\* A step that only takes processes out of the pending set, or only takes slots
\* out of use, does not raise the corresponding cardinality.
LEMMA SubsetCardinality ==
    ASSUME NEW S, NEW T, IsFiniteSet(S), T \subseteq S
    PROVE  IsFiniteSet(T) /\ Cardinality(T) \in Nat /\ Cardinality(T) <= Cardinality(S)
<1>1. T \in SUBSET S
  BY Zenon
<1> QED BY <1>1, FS_Subset, FS_CardinalityType, Zenon

\* Removing part of a finite set removes as many elements as the part has.
LEMMA DifferenceCardinality ==
    ASSUME NEW S, NEW T, IsFiniteSet(S), T \subseteq S
    PROVE  /\ Cardinality(S \ T) = Cardinality(S) - Cardinality(T)
           /\ Cardinality(S) \in Nat /\ Cardinality(T) \in Nat /\ Cardinality(S \ T) \in Nat
<1>1. /\ IsFiniteSet(T) /\ Cardinality(T) \in Nat
      /\ IsFiniteSet(S \ T) /\ Cardinality(S \ T) \in Nat /\ Cardinality(S) \in Nat
  BY SubsetCardinality, FS_CardinalityType, Zenon
<1>2. Cardinality((S \ T) \cup T) =
        Cardinality(S \ T) + Cardinality(T) - Cardinality((S \ T) \cap T)
  BY <1>1, FS_Union, Zenon
<1>3. (S \ T) \cup T = S /\ (S \ T) \cap T = {}
  BY Zenon
<1>4. Cardinality((S \ T) \cup T) = Cardinality(S)
  BY <1>3, Zenon
<1>5. Cardinality((S \ T) \cap T) = 0
  BY <1>3, FS_EmptySet, Zenon
<1> QED BY <1>1, <1>2, <1>4, <1>5

\* The table that S2E::S2E sets up, with one process in slot 0.
LEMMA InitIInv == Init => IInv
<1> SUFFICES ASSUME Init PROVE IInv
  BY Zenon
<1> USE MaxProcessesAssumption, PidAssumption
<1>1. TypeOK
  BY DEF Init, TypeOK, Slot, None, Phase
<1>2. NothingAborted /\ SlotOwned /\ SlotPids
  BY DEF Init, NothingAborted, SlotOwned, SlotPids, Owners, Slot, None
<1>3. Counted
  <2>1. UsedSlots = {0} /\ Pending = {}
    BY DEF Init, UsedSlots, FreeSlots, Pending, Slot, None
  <2>2. Cardinality(UsedSlots) = 1 /\ Cardinality(Pending) = 0
    BY <2>1, FS_EmptySet, FS_Singleton, Zenon
  <2> QED BY <2>2 DEF Init, Counted
<1>4. IndexFresh
  BY DEF Init, IndexFresh, Unopened
<1> QED BY <1>1, <1>2, <1>3, <1>4, Zenon DEF IInv

\* S2E::fork counts the child and draws a new index before it calls ::fork.
LEMMA ForkReserveStep ==
    ASSUME IInv, NEW p \in Pid, ForkReserve(p)
    PROVE  IInv'
<1> USE MaxProcessesAssumption, PidAssumption DEF IInv
<1>1. TypeOK'
  BY DEF TypeOK, ForkReserve, Phase, Slot
<1>2. NothingAborted' /\ SlotOwned' /\ SlotPids'
  BY DEF ForkReserve, NothingAborted, SlotOwned, SlotPids, Owners, TypeOK
<1>3. Counted'
  <2>1. Pending' = Pending \cup {p} /\ p \notin Pending
    BY DEF ForkReserve, Pending, TypeOK
  <2>2. UsedSlots' = UsedSlots
    BY Zenon DEF ForkReserve, UsedSlots, FreeSlots
  <2>3. Cardinality(Pending') = Cardinality(Pending) + 1
    BY <2>1, Finite, FS_AddElement, Zenon
  <2> QED BY <2>2, <2>3, Finite DEF ForkReserve, Counted, TypeOK
<1>4. IndexFresh'
  <2>1. Unopened' = Unopened \cup {p}
    BY DEF ForkReserve, Unopened, TypeOK
  <2>2. /\ UnopenedIndex(p)' = lastFileId
        /\ \A q \in Unopened : q # p => UnopenedIndex(q)' = UnopenedIndex(q)
    BY Zenon DEF ForkReserve, UnopenedIndex, Unopened, TypeOK
  <2>3. lastFileId' = lastFileId + 1 /\ outputDirs' = outputDirs
    BY Zenon DEF ForkReserve
  <2>4. \A q \in Unopened : UnopenedIndex(q) \in Nat
    BY Zenon DEF TypeOK, Unopened, UnopenedIndex
  <2> QED BY <2>1, <2>2, <2>3, <2>4 DEF IndexFresh, TypeOK
<1> QED BY <1>1, <1>2, <1>3, <1>4, Zenon

\* A failed ::fork takes back the count and forgets the index.
LEMMA ForkFailedStep ==
    ASSUME IInv, NEW p \in Pid, ForkFailed(p)
    PROVE  IInv'
<1> USE MaxProcessesAssumption, PidAssumption DEF IInv
<1>1. Cardinality(Pending') = Cardinality(Pending) - 1
  <2>1. Pending' = Pending \ {p} /\ p \in Pending
    BY Zenon DEF ForkFailed, Pending, TypeOK
  <2> QED BY <2>1, Finite, FS_RemoveElement, Zenon
<1>2. IsFiniteSet(Pending') /\ Cardinality(Pending') \in Nat
  <2>1. Pending' \subseteq Pid
    BY Zenon DEF Pending
  <2> QED BY <2>1, SubsetCardinality, Zenon
<1>3. UsedSlots' = UsedSlots /\ currentProcessCount' = currentProcessCount - 1
  BY Zenon DEF ForkFailed, UsedSlots, FreeSlots
<1>4. Counted' /\ currentProcessCount' \in 0 .. MaxProcesses
  BY <1>1, <1>2, <1>3, Finite DEF Counted, TypeOK
<1>5. TypeOK'
  BY <1>4, Zenon DEF TypeOK, ForkFailed, Phase, Slot
<1>6. NothingAborted' /\ SlotOwned' /\ SlotPids'
  BY DEF ForkFailed, NothingAborted, SlotOwned, SlotPids, Owners, TypeOK
<1>7. IndexFresh'
  BY Zenon DEF ForkFailed, IndexFresh, Unopened, UnopenedIndex, TypeOK
<1> QED BY <1>4, <1>5, <1>6, <1>7, Zenon

\* A successful ::fork hands the count and the index over to the child.
LEMMA ForkChildStep ==
    ASSUME IInv, NEW p \in Pid, NEW c \in Pid, ForkChild(p, c)
    PROVE  IInv'
<1> USE MaxProcessesAssumption, PidAssumption DEF IInv
<1>1. TypeOK'
  BY Zenon DEF TypeOK, ForkChild, shared, Phase, Slot
<1>2. NothingAborted' /\ SlotOwned' /\ SlotPids'
  BY DEF ForkChild, shared, NothingAborted, SlotOwned, SlotPids, Owners, TypeOK
<1>3. Counted'
  <2>1. Pending' = (Pending \ {p}) \cup {c} /\ p \in Pending /\ c \notin Pending \ {p}
    BY DEF ForkChild, Pending, TypeOK
  <2>2. IsFiniteSet(Pending \ {p}) /\ Cardinality(Pending \ {p}) = Cardinality(Pending) - 1
    BY <2>1, Finite, FS_RemoveElement, Zenon
  <2>3. Cardinality(Pending') = Cardinality(Pending \ {p}) + 1
    BY <2>1, <2>2, FS_AddElement, Zenon
  <2>4. UsedSlots' = UsedSlots /\ currentProcessCount' = currentProcessCount
    BY Zenon DEF ForkChild, shared, UsedSlots, FreeSlots
  <2> QED BY <2>2, <2>3, <2>4, Finite DEF Counted, TypeOK
<1>4. IndexFresh'
  BY DEF ForkChild, shared, IndexFresh, Unopened, UnopenedIndex, TypeOK
<1> QED BY <1>1, <1>2, <1>3, <1>4, Zenon

\* The child always finds a free slot, and nobody else runs in it.
LEMMA RegisterChildStep ==
    ASSUME IInv, NEW c \in Pid, RegisterChild(c)
    PROVE  IInv'
<1> USE MaxProcessesAssumption, PidAssumption DEF IInv
<1>1. c \in Pending
  BY Zenon DEF RegisterChild, Pending
<1>2. FreeSlots # {}
  <2>1. Cardinality(Pending) # 0
    BY <1>1, Finite, FS_EmptySet, Zenon
  <2>2. Cardinality(FreeSlots) # 0
    BY <2>1, CountedGivesRoom, Finite DEF SlotForEveryChild
  <2> QED BY <2>2, FS_EmptySet, Zenon
<1>3. PICK i \in FreeSlots :
          /\ processIds' = [processIds EXCEPT ![i] = newProcessIndex[c]]
          /\ processPids' = [processPids EXCEPT ![i] = c]
          /\ m_currentProcessId' = [m_currentProcessId EXCEPT ![c] = i]
          /\ m_currentProcessIndex' =
                 [m_currentProcessIndex EXCEPT ![c] = newProcessIndex[c]]
          /\ phase' = [phase EXCEPT ![c] = "registered"]
  BY <1>2, Zenon DEF RegisterChild
<1>4. /\ phase[c] = "born"
      /\ newProcessIndex' = [newProcessIndex EXCEPT ![c] = 0]
      /\ UNCHANGED <<currentProcessCount, lastFileId, outputDirs>>
  BY Zenon DEF RegisterChild
<1>5. i \in Slot /\ processIds[i] = None
  BY Zenon DEF FreeSlots
<1>6. TypeOK'
  BY <1>3, <1>4, <1>5, Zenon DEF TypeOK, Phase
<1>7. NothingAborted'
  BY <1>3, <1>4, Zenon DEF NothingAborted, TypeOK
<1>8. Owners' = Owners \cup {c} /\ c \notin Owners
  BY <1>3, <1>4 DEF Owners, TypeOK
<1>9. \A p \in Owners : m_currentProcessId[p] # i /\ m_currentProcessId'[p] = m_currentProcessId[p]
  BY <1>3, <1>5, <1>8 DEF Owners, SlotOwned, TypeOK, None
<1>10. SlotOwned' /\ SlotPids'
  BY <1>3, <1>5, <1>8, <1>9 DEF SlotOwned, SlotPids, Owners, TypeOK, None
<1>11. Counted'
  <2>1. Pending' = Pending \ {c}
    BY <1>3, <1>4, Zenon DEF Pending, TypeOK
  <2>2. Cardinality(Pending') = Cardinality(Pending) - 1
    BY <2>1, <1>1, Finite, FS_RemoveElement, Zenon
  <2>3. UsedSlots' = UsedSlots \cup {i} /\ i \notin UsedSlots
    BY <1>3, <1>5 DEF UsedSlots, FreeSlots, TypeOK, None
  <2>4. Cardinality(UsedSlots') = Cardinality(UsedSlots) + 1
    BY <2>3, Finite, FS_AddElement, Zenon
  <2> QED BY <2>2, <2>4, <1>4, Finite DEF Counted, TypeOK
<1>12. IndexFresh'
  BY <1>3, <1>4 DEF IndexFresh, Unopened, UnopenedIndex, TypeOK
<1> QED BY <1>6, <1>7, <1>10, <1>11, <1>12, Zenon

\* The directory of a registered child does not exist yet.
LEMMA InitOutputDirectoryStep ==
    ASSUME IInv, NEW c \in Pid, InitOutputDirectory(c)
    PROVE  IInv'
<1> USE MaxProcessesAssumption, PidAssumption DEF IInv
<1>1. m_currentProcessIndex[c] \notin outputDirs /\ phase[c] = "registered"
  BY Zenon DEF InitOutputDirectory, IndexFresh, Unopened, UnopenedIndex
<1>2. /\ phase' = [phase EXCEPT ![c] = "running"]
      /\ outputDirs' = outputDirs \cup {m_currentProcessIndex[c]}
      /\ UNCHANGED <<shared, m_currentProcessId, m_currentProcessIndex, newProcessIndex>>
  BY <1>1, Zenon DEF InitOutputDirectory
<1>3. TypeOK' /\ NothingAborted'
  BY <1>2, Zenon DEF TypeOK, NothingAborted, shared, Phase
<1>4. SlotOwned' /\ SlotPids'
  BY <1>1, <1>2 DEF SlotOwned, SlotPids, Owners, TypeOK, shared
<1>5. Pending' = Pending /\ UsedSlots' = UsedSlots
  BY <1>1, <1>2, Zenon DEF Pending, UsedSlots, FreeSlots, TypeOK, shared
<1>6. Counted'
  BY <1>2, <1>5, Zenon DEF Counted, shared
<1>7. IndexFresh'
  BY <1>1, <1>2, Zenon DEF IndexFresh, Unopened, UnopenedIndex, TypeOK, shared
<1> QED BY <1>3, <1>4, <1>6, <1>7, Zenon

\* ~S2E frees the slot of the process that exits and nobody else's.
LEMMA CloseStep ==
    ASSUME IInv, NEW p \in Pid, Close(p)
    PROVE  IInv'
<1> USE MaxProcessesAssumption, PidAssumption DEF IInv
<1> DEFINE slot == m_currentProcessId[p]
<1>1. p \in Owners /\ slot \in Slot /\ p \notin Pending
  BY Zenon DEF Close, Owners, Pending, TypeOK
<1>2. processIds[slot] = m_currentProcessIndex[p]
  BY <1>1, Zenon DEF SlotOwned
<1>3. /\ processIds' = [processIds EXCEPT ![slot] = None]
      /\ processPids' = [processPids EXCEPT ![slot] = NoPid]
      /\ currentProcessCount' = currentProcessCount - 1
      /\ phase' = [phase EXCEPT ![p] = "absent"]
      /\ ForgetMemory(p)
      /\ UNCHANGED <<lastFileId, outputDirs>>
  BY <1>2, Zenon DEF Close
<1>4. UsedSlots' = UsedSlots \ {slot} /\ slot \in UsedSlots
  BY <1>1, <1>2, <1>3 DEF UsedSlots, FreeSlots, TypeOK, None
<1>5. Cardinality(UsedSlots') = Cardinality(UsedSlots) - 1
  BY <1>4, Finite, FS_RemoveElement, Zenon
<1>6. Pending' = Pending /\ Cardinality(UsedSlots') \in Nat
  <2>1. Pending' = Pending
    BY <1>1, <1>3, Zenon DEF Pending, TypeOK
  <2>2. UsedSlots' \subseteq UsedSlots
    BY <1>4, Zenon
  <2> QED BY <2>1, <2>2, Finite, SubsetCardinality, Zenon
<1>7. Counted' /\ currentProcessCount' \in 0 .. MaxProcesses
  BY <1>3, <1>5, <1>6, Finite DEF Counted, TypeOK
<1>8. TypeOK' /\ NothingAborted'
  BY <1>1, <1>3, <1>7, SMTT(40) DEF TypeOK, NothingAborted, ForgetMemory, Phase, Slot
<1>9. Owners' = Owners \ {p}
  BY <1>1, <1>3, Zenon DEF Owners, TypeOK
<1>10. SlotOwned' /\ SlotPids'
  BY <1>1, <1>3, <1>9 DEF SlotOwned, SlotPids, ForgetMemory, TypeOK, Owners
<1>11. IndexFresh'
  BY <1>3, Zenon DEF IndexFresh, Unopened, UnopenedIndex, ForgetMemory, TypeOK
<1> QED BY <1>7, <1>8, <1>10, <1>11, Zenon

\* A crash leaves the table as it was: the slot and the count stay taken.
LEMMA CrashStep ==
    ASSUME IInv, NEW p \in Pid, Crash(p)
    PROVE  IInv'
<1> USE MaxProcessesAssumption, PidAssumption DEF IInv
<1>1. TypeOK' /\ NothingAborted'
  BY DEF Crash, ForgetMemory, shared, TypeOK, NothingAborted, Phase, Slot
<1>2. SlotOwned' /\ SlotPids'
  BY ZenonT(30) DEF Crash, ForgetMemory, shared, SlotOwned, SlotPids, Owners, TypeOK
<1>3. Counted'
  <2>1. Pending' \subseteq Pending /\ UsedSlots' = UsedSlots
    BY ZenonT(30) DEF Crash, shared, Pending, UsedSlots, FreeSlots, TypeOK
  <2>2. Cardinality(Pending') \in Nat /\ Cardinality(Pending') <= Cardinality(Pending)
    BY <2>1, Finite, SubsetCardinality, Zenon
  <2> QED BY <2>1, <2>2, Finite DEF Counted, Crash, shared, TypeOK
<1>4. IndexFresh'
  BY ZenonT(30) DEF Crash, ForgetMemory, shared, IndexFresh, Unopened, UnopenedIndex, TypeOK
<1> QED BY <1>1, <1>2, <1>3, <1>4, Zenon

\* checkDeadProcesses frees slots whose pid is dead, hence no slot in use.
LEMMA CheckDeadProcessesStep ==
    ASSUME IInv, NEW p \in Pid, CheckDeadProcesses(p)
    PROVE  IInv'
<1> USE MaxProcessesAssumption, PidAssumption DEF IInv
<1>1. PICK dead \in SUBSET {i \in Slot : processPids[i] # NoPid /\ processPids[i] \notin Alive} :
          /\ processIds' = [i \in Slot |-> IF i \in dead THEN None ELSE processIds[i]]
          /\ processPids' = [i \in Slot |-> IF i \in dead THEN NoPid ELSE processPids[i]]
          /\ currentProcessCount' = currentProcessCount - Cardinality(dead)
  BY Zenon DEF CheckDeadProcesses
<1>2. UNCHANGED <<lastFileId, phase, m_currentProcessId, m_currentProcessIndex,
                  newProcessIndex, outputDirs>>
  BY Zenon DEF CheckDeadProcesses
<1>3. dead \subseteq UsedSlots /\ UsedSlots' = UsedSlots \ dead
  BY <1>1, Zenon DEF UsedSlots, FreeSlots, SlotPids
<1>4. /\ Cardinality(UsedSlots') = Cardinality(UsedSlots) - Cardinality(dead)
      /\ Cardinality(dead) \in Nat /\ Cardinality(UsedSlots') \in Nat
  BY <1>3, Finite, DifferenceCardinality, Zenon
<1>5. Pending' = Pending
  BY <1>2, Zenon DEF Pending
<1>6. Counted' /\ currentProcessCount' \in 0 .. MaxProcesses
  BY <1>1, <1>4, <1>5, Finite DEF Counted, TypeOK
<1>7. TypeOK' /\ NothingAborted'
  BY <1>1, <1>2, <1>6, Zenon DEF TypeOK, NothingAborted
<1>8. \A q \in Owners : m_currentProcessId[q] \in Slot \ dead
  BY <1>1, Zenon DEF SlotPids, Owners, Alive, TypeOK
<1>9. SlotOwned' /\ SlotPids'
  BY <1>1, <1>2, <1>8, Zenon DEF SlotOwned, SlotPids, Owners, TypeOK
<1>10. IndexFresh'
  BY <1>2, Zenon DEF IndexFresh, Unopened, UnopenedIndex
<1> QED BY <1>6, <1>7, <1>9, <1>10, Zenon

\* Every step of every process keeps the invariant: one case per action.
LEMMA NextIInv == IInv /\ [Next]_vars => IInv'
<1> SUFFICES ASSUME IInv, [Next]_vars PROVE IInv'
  BY Zenon
<1>1. ASSUME NEW p \in Pid, ForkReserve(p) PROVE IInv'
  BY <1>1, ForkReserveStep, Zenon
<1>2. ASSUME NEW p \in Pid, ForkFailed(p) PROVE IInv'
  BY <1>2, ForkFailedStep, Zenon
<1>3. ASSUME NEW p \in Pid, RegisterChild(p) PROVE IInv'
  BY <1>3, RegisterChildStep, Zenon
<1>4. ASSUME NEW p \in Pid, InitOutputDirectory(p) PROVE IInv'
  BY <1>4, InitOutputDirectoryStep, Zenon
<1>5. ASSUME NEW p \in Pid, Close(p) PROVE IInv'
  BY <1>5, CloseStep, Zenon
<1>6. ASSUME NEW p \in Pid, Crash(p) PROVE IInv'
  BY <1>6, CrashStep, Zenon
<1>7. ASSUME NEW p \in Pid, CheckDeadProcesses(p) PROVE IInv'
  BY <1>7, CheckDeadProcessesStep, Zenon
<1>8. ASSUME NEW p \in Pid, NEW c \in Pid, ForkChild(p, c) PROVE IInv'
  BY <1>8, ForkChildStep, Zenon
<1>9. CASE UNCHANGED vars
  BY <1>9, ZenonT(30) DEF vars, IInv, TypeOK, NothingAborted, SlotOwned, SlotPids, Counted,
              IndexFresh, Owners, Pending, UsedSlots, FreeSlots, Unopened, UnopenedIndex
<1> QED BY <1>1, <1>2, <1>3, <1>4, <1>5, <1>6, <1>7, <1>8, <1>9, Zenon DEF Next

\* The inductive invariant holds in every reachable state of the table.
THEOREM Invariance == Spec => []IInv
BY InitIInv, NextIInv, PTL DEF Spec

\* Type correctness of the table for any MaxProcesses.
THEOREM TypeCorrect == Spec => []TypeOK
<1>1. IInv => TypeOK
  BY Zenon DEF IInv
<1> QED BY <1>1, Invariance, PTL

\* The assert (i < m_maxProcesses) in S2E::fork never fails: a child that was
\* counted always finds a free slot.
THEOREM SlotAlwaysAvailable == Spec => []SlotForEveryChild
<1>1. IInv => SlotForEveryChild
  BY CountedGivesRoom, Zenon DEF IInv
<1> QED BY <1>1, Invariance, PTL

\* The assert of ~S2E never fails: a process finds its own index in its slot,
\* and shares the slot with no other process.
THEOREM SlotsAreOwned == Spec => []SlotOwned
<1>1. IInv => SlotOwned
  BY Zenon DEF IInv
<1> QED BY <1>1, Invariance, PTL

\* The assert (!exists) of initOutputDirectory never fails: an index is used
\* for at most one output directory.
THEOREM DirectoriesAreFresh == Spec => []FreshDirectory
<1>1. IInv => FreshDirectory
  BY Zenon DEF IInv, IndexFresh, FreshDirectory, Unopened, UnopenedIndex
<1> QED BY <1>1, Invariance, PTL

\* A reserved child leaves room in the pool: the processes that own a slot are
\* no more than the slots in use.
LEMMA RoomForChild ==
    ASSUME IInv, NEW p \in Pid, phase[p] = "reserved"
    PROVE  Cardinality(Alive) < MaxProcesses
<1> DEFINE born == {q \in Pid : phase[q] = "born"}
           f == [q \in Owners |-> m_currentProcessId[q]]
<1>1. Alive = Owners \cup born /\ Owners \cap born = {}
  BY Zenon DEF IInv, Alive, Owners, TypeOK, Phase
<1>2. IsFiniteSet(Owners) /\ IsFiniteSet(born) /\ Owners \subseteq Pid /\ born \subseteq Pid
  BY PidAssumption, SubsetCardinality, Zenon DEF Owners
<1>3. Cardinality(Owners) \in Nat /\ Cardinality(born) \in Nat
  BY <1>2, FS_CardinalityType, Zenon
<1>4. Cardinality(Owners) <= Cardinality(UsedSlots)
  <2>1. f \in Injection(Owners, UsedSlots)
    BY DEF IInv, SlotOwned, UsedSlots, FreeSlots, TypeOK, Injection, IsInjective, Owners, None
  <2> QED BY <2>1, Finite, FS_Injection, Zenon
<1>5. Cardinality(born) < Cardinality(Pending)
  <2>1. born \subseteq Pending \ {p} /\ p \in Pending
    BY Zenon DEF Pending
  <2>2. IsFiniteSet(Pending \ {p}) /\ Cardinality(Pending \ {p}) = Cardinality(Pending) - 1
    BY <2>1, Finite, FS_RemoveElement, Zenon
  <2>3. Cardinality(born) <= Cardinality(Pending \ {p})
    BY <2>1, <2>2, SubsetCardinality, Zenon
  <2> QED BY <2>2, <2>3, <1>3, Finite
<1>6. Cardinality(Owners \cup born) =
          Cardinality(Owners) + Cardinality(born) - Cardinality(Owners \cap born)
  BY <1>2, FS_Union, Zenon
<1>7. Cardinality(Owners \cap born) = 0
  BY <1>1, FS_EmptySet, Zenon
<1>8. Cardinality(Alive) = Cardinality(Owners \cup born)
  BY <1>1, Zenon
<1> QED BY <1>3, <1>4, <1>5, <1>6, <1>7, <1>8, Finite, MaxProcessesAssumption, SMTT(40)
        DEF IInv, Counted, TypeOK

\* The process table implements the pool: no interleaving of forks, failures,
\* exits and crashes ever brings more than MaxProcesses processes to life.
THEOREM ImplementsPool == Spec => PoolSpec
<1> USE DEF PoolSpec, Pool!Spec
<1>1. Init => Pool!Init
  BY PidAssumption, Zenon DEF Init, Pool!Init, Alive
<1>2. IInv /\ [Next]_vars => [Pool!Next]_Alive
  <2> SUFFICES ASSUME IInv, [Next]_vars PROVE Pool!Next \/ Alive' = Alive
    BY Zenon
  <2> USE DEF IInv, Alive, TypeOK
  <2>1. ASSUME NEW p \in Pid, \/ ForkReserve(p) \/ ForkFailed(p) \/ CheckDeadProcesses(p)
        PROVE  Alive' = Alive
    BY <2>1, Zenon DEF ForkReserve, ForkFailed, CheckDeadProcesses
  <2>2. ASSUME NEW p \in Pid, RegisterChild(p)
        PROVE  Alive' = Alive \/ (Alive' = Alive \ {p} /\ p \in Alive)
    BY <2>2, Zenon DEF RegisterChild
  <2>3. ASSUME NEW p \in Pid, InitOutputDirectory(p)
        PROVE  Alive' = Alive \/ (Alive' = Alive \ {p} /\ p \in Alive)
    BY <2>3, Zenon DEF InitOutputDirectory
  <2>4. ASSUME NEW p \in Pid, Close(p) \/ Crash(p)
        PROVE  Alive' = Alive \ {p} /\ p \in Alive
    BY <2>4, Zenon DEF Close, Crash
  <2>5. ASSUME NEW p \in Pid, NEW c \in Pid, ForkChild(p, c)
        PROVE  Alive' = Alive \cup {c} /\ c \notin Alive /\ phase[p] = "reserved"
    BY <2>5, Zenon DEF ForkChild
  <2>6. CASE UNCHANGED vars
    BY <2>6, Zenon DEF vars
  <2> HIDE DEF IInv, Alive, TypeOK
  <2>7. ASSUME NEW p \in Pid, NEW c \in Pid, ForkChild(p, c)
        PROVE  Pool!Next
    <3>1. Alive' = Alive \cup {c} /\ c \in Pid \ Alive /\ phase[p] = "reserved"
      BY <2>5, <2>7, Zenon
    <3>2. Cardinality(Alive) < MaxProcesses
      BY <3>1, RoomForChild, Zenon
    <3>3. Pool!Cardinality(Alive) = Cardinality(Alive)
      BY Zenon DEF Pool!Cardinality, Cardinality
    <3> QED BY <3>1, <3>2, <3>3, Zenon DEF Pool!Next, Pool!Start
  <2> QED BY <2>1, <2>2, <2>3, <2>4, <2>6, <2>7, Zenon DEF Next, Pool!Next, Pool!Stop
<1> QED BY <1>1, <1>2, Invariance, PTL DEF Spec

-----------------------------------------------------------------------------
(* The semaphore.  LockAccounted is inductive with the types, and          *)
(* MutualExclusion follows: two holders would make the lock negative.      *)

\* The processes that have taken the semaphore and not posted it.
Busy == In({"holding", "orphan"})

\* The inductive invariant.
SyncInv == SyncTypeOK /\ LockAccounted

\* The processes that hold the lock or died with it are finitely many.
LEMMA BusyFinite == IsFiniteSet(Busy) /\ Cardinality(Busy) \in Nat
<1>1. Busy \subseteq Process
  BY Zenon DEF Busy, In
<1>2. IsFiniteSet(Busy)
  BY <1>1, ProcessAssumption, FS_Subset, Zenon
<1> QED BY <1>2, FS_CardinalityType, Zenon

\* A process that takes the semaphore joins the busy ones.
LEMMA Joins ==
    ASSUME SyncTypeOK, NEW p \in Process, at[p] \in {"outside", "waiting"},
           Move(p, "holding")
    PROVE  Cardinality(Busy') = Cardinality(Busy) + 1
<1>1. Busy' = Busy \cup {p} /\ p \notin Busy
  BY Zenon DEF SyncTypeOK, Busy, In, Move
<1>2. Cardinality(Busy \cup {p}) = Cardinality(Busy) + 1
  BY <1>1, BusyFinite, FS_AddElement, Zenon
<1> QED BY <1>1, <1>2, Zenon

\* A process that posts it leaves them.
LEMMA Leaves ==
    ASSUME SyncTypeOK, NEW p \in Process, at[p] = "holding", Move(p, "outside")
    PROVE  Cardinality(Busy') = Cardinality(Busy) - 1
<1>1. Busy' = Busy \ {p} /\ p \in Busy
  BY Zenon DEF SyncTypeOK, Busy, In, Move
<1>2. Cardinality(Busy \ {p}) = Cardinality(Busy) - 1
  BY <1>1, BusyFinite, FS_RemoveElement, Zenon
<1> QED BY <1>1, <1>2, Zenon

\* The lock starts free with nobody holding it (sem_init with value 1).
LEMMA SyncInitInv == SyncInit => SyncInv
<1> SUFFICES ASSUME SyncInit PROVE SyncInv
  BY Zenon
<1>1. SyncTypeOK
  BY Zenon DEF SyncInit, SyncTypeOK, At
<1>2. Busy = {}
  BY Zenon DEF SyncInit, Busy, In
<1>3. Cardinality(Busy) = 0
  BY <1>2, FS_EmptySet, Zenon
<1> QED BY <1>1, <1>3 DEF SyncInit, SyncInv, LockAccounted, Busy

\* aquire, tryAquire, release and the death of a process keep the account.
LEMMA SyncNextInv == SyncInv /\ [SyncNext]_syncVars => SyncInv'
<1> SUFFICES ASSUME SyncInv, [SyncNext]_syncVars PROVE SyncInv'
  BY Zenon
<1>0. SyncTypeOK /\ lock + Cardinality(Busy) = 1 /\ lock \in Nat /\ Cardinality(Busy) \in Nat
  BY BusyFinite, Zenon DEF SyncInv, LockAccounted, Busy, SyncTypeOK
<1> SUFFICES SyncTypeOK' /\ lock' + Cardinality(Busy') = 1
  BY Zenon DEF SyncInv, LockAccounted, Busy
<1>1. CASE UNCHANGED syncVars
  <2>1. Busy' = Busy
    BY <1>1, Zenon DEF syncVars, Busy, In
  <2> QED BY <1>0, <1>1, <2>1, Zenon DEF syncVars, SyncTypeOK
<1>2. ASSUME NEW p \in Process, Enter(p) PROVE SyncTypeOK' /\ lock' + Cardinality(Busy') = 1
  <2>1. Busy' = Busy
    BY <1>0, <1>2, Zenon DEF Enter, Move, SyncTypeOK, Busy, In
  <2> QED BY <1>0, <1>2, <2>1, Zenon DEF Enter, Move, SyncTypeOK, At
<1>3. ASSUME NEW p \in Process, Acquire(p) PROVE SyncTypeOK' /\ lock' + Cardinality(Busy') = 1
  <2>1. Cardinality(Busy') = Cardinality(Busy) + 1
    BY <1>0, <1>3, Joins, Zenon DEF Acquire
  <2>2. SyncTypeOK'
    BY <1>0, <1>3 DEF Acquire, Move, SyncTypeOK, At
  <2> QED BY <1>0, <1>3, <2>1, <2>2 DEF Acquire
<1>4. ASSUME NEW p \in Process, TryAcquire(p) PROVE SyncTypeOK' /\ lock' + Cardinality(Busy') = 1
  <2>1. CASE lock > 0
    <3>1. Cardinality(Busy') = Cardinality(Busy) + 1
      BY <1>0, <1>4, <2>1, Joins, Zenon DEF TryAcquire
    <3>2. SyncTypeOK'
      BY <1>0, <1>4, <2>1 DEF TryAcquire, Move, SyncTypeOK, At
    <3> QED BY <1>0, <1>4, <2>1, <3>1, <3>2 DEF TryAcquire
  <2>2. CASE ~ (lock > 0)
    BY <1>1, <1>4, <2>2, Zenon DEF TryAcquire
  <2> QED BY <2>1, <2>2, Zenon
<1>5. ASSUME NEW p \in Process, Release(p) PROVE SyncTypeOK' /\ lock' + Cardinality(Busy') = 1
  <2>1. Cardinality(Busy') = Cardinality(Busy) - 1
    BY <1>0, <1>5, Leaves, Zenon DEF Release
  <2>2. SyncTypeOK'
    BY <1>0, <1>5 DEF Release, Move, SyncTypeOK, At
  <2> QED BY <1>0, <1>5, <2>1, <2>2 DEF Release
<1>6. ASSUME NEW p \in Process, Die(p) PROVE SyncTypeOK' /\ lock' + Cardinality(Busy') = 1
  <2>1. Busy' = Busy
    BY <1>0, <1>6, Zenon DEF Die, Move, SyncTypeOK, Busy, In
  <2>2. SyncTypeOK'
    BY <1>0, <1>6, Zenon DEF Die, Move, SyncTypeOK, At
  <2> QED BY <1>0, <1>6, <2>1, <2>2, Zenon DEF Die
<1> QED BY <1>1, <1>2, <1>3, <1>4, <1>5, <1>6, Zenon DEF SyncNext

\* The account holds in every reachable state.
LEMMA SyncInvariance == SyncSpec => []SyncInv
BY SyncInitInv, SyncNextInv, PTL DEF SyncSpec

\* Two holders would need a semaphore below zero.
LEMMA AccountedExcludes == SyncInv => MutualExclusion
<1> SUFFICES ASSUME SyncInv, NEW p \in In({"holding"}), NEW q \in In({"holding"}), p # q
             PROVE FALSE
  BY Zenon DEF MutualExclusion
<1>1. p \in Busy /\ q \in Busy
  BY Zenon DEF In, Busy
<1>2. IsFiniteSet(Busy \ {p}) /\ Cardinality(Busy \ {p}) = Cardinality(Busy) - 1
  BY <1>1, BusyFinite, FS_RemoveElement, Zenon
<1>3. Cardinality(Busy \ {p}) # 0
  BY <1>1, <1>2, FS_EmptySet
<1>4. lock \in Nat /\ lock + Cardinality(Busy) = 1 /\ Cardinality(Busy) \in Nat
  BY BusyFinite, Zenon DEF SyncInv, LockAccounted, Busy, SyncTypeOK
<1>5. Cardinality(Busy \ {p}) \in Nat
  BY <1>2, FS_CardinalityType, Zenon
<1> QED BY <1>2, <1>3, <1>4, <1>5

\* The semaphore's value and the holders always add up to 1: no release is
\* lost or forged, for any number of processes.
THEOREM LockIsAccounted == SyncSpec => []LockAccounted
<1>1. SyncInv => LockAccounted
  BY Zenon DEF SyncInv
<1> QED BY <1>1, SyncInvariance, PTL

\* At most one process is between aquire and release, for any number of
\* processes and whichever of them die.
THEOREM SemaphoreExcludes == SyncSpec => []MutualExclusion
BY AccountedExcludes, SyncInvariance, PTL
=============================================================================
