---------------------------- MODULE GuestMemory -----------------------------
(***************************************************************************)
(* How S2E keeps the guest of every execution state apart in one QEMU:     *)
(* KLEE's copy-on-write objects for RAM, one native place for the          *)
(* registers, the machine (CPU system state, timers, devices) and the      *)
(* shared-concrete objects, which is saved and restored when the state     *)
(* changes, and two caches that lead past the address space, the S2E TLB   *)
(* and m_memcache.                                                         *)
(***************************************************************************)
EXTENDS Naturals, FiniteSetsExt

CONSTANTS MaxStateId,    \* bound: the last state that may be made
          Ram,           \* RAM objects
          Shared,        \* shared-concrete objects of m_saveOnContextSwitch
          Mapped,        \* the objects the guest maps, so that the TLB may hold them
          Written,       \* the parts that the guest writes to in the instance
          LoadWrites,    \* the objects a device may write to when it is restored
          Slot           \* slots of the S2E TLB

GuestAssumption ==
    /\ MaxStateId \in Nat \ {0} /\ Ram \cap Shared = {}
    /\ Mapped \cup LoadWrites \subseteq Ram \cup Shared /\ IsFiniteSet(Ram \cup Shared)

VARIABLES env,      \* native: TLB, registers, machine, contents of Shared
          st,       \* the execution states
          heap,     \* the ObjectStates
          current,  \* g_s2e_state
          nextId,   \* the ID of the next state
          failed    \* assertions of the code that failed

vars == <<env, st, heap, current, nextId, failed>>

Object == Ram \cup Shared
Pinned == Shared \ Mapped       \* the dirty mask: the state keeps a pointer to its object
Value == {0, 1}

\* Every state has at most one copy of an object, and one more is made while
\* the old one is still held.
Copy == Object \X (1 .. MaxStateId + 1)
NoCopy == <<>>
NoPage == "none"
Empty == [page |-> NoPage, os |-> NoCopy, mem |-> NoCopy, own |-> FALSE]
NoTlb == [i \in Slot |-> Empty]
NoTlbMap == [c \in Copy |-> {}]
NoCache == [mo \in Object |-> NoCopy]

View == [env |-> env, st |-> st, heap |-> heap, current |-> current, failed |-> failed]

Held(x) == {x.st[s].objects[mo] : s \in DOMAIN x.st, mo \in Object}
FreeCopy(x, s, mo) ==
    LET held == Held(x)
        free == {n \in 1 .. MaxStateId + 1 : <<mo, n>> \notin held} IN
    <<mo, IF s \in free THEN s ELSE Min(free)>>

\* An ObjectState that no address space holds is deleted.
Install(x) ==
    /\ env' = x.env /\ st' = x.st /\ current' = x.current /\ failed' = x.failed
    /\ LET held == Held(x) IN
       heap' = [c \in Copy |-> IF c \in held THEN x.heap[c] ELSE [owner |-> 0, val |-> 0]]

Check(x, holds, name) == IF holds THEN x ELSE [x EXCEPT !.failed = @ \cup {name}]

\* The TLB that belongs to s: the native one, or the one in the saved CPU state.
Tlb(x, s) == IF x.st[s].active THEN x.env.tlb ELSE x.st[s].tlb
WithTlb(x, s, tlb) ==
    IF x.st[s].active THEN [x EXCEPT !.env.tlb = tlb] ELSE [x EXCEPT !.st[s].tlb = tlb]

-----------------------------------------------------------------------------
(* Address space, TLB and memory cache.                                    *)

\* Mutant of addressSpaceChange: m_memcache is left alone.
addressSpaceChange_NoCache(x, s, mo, old, new) ==
    LET slots == x.st[s].tlbMap[old]
        tlb == Tlb(x, s)
        moved(i) == [tlb[i] EXCEPT !.os = new, !.mem = IF mo \in Shared THEN @ ELSE new,
                                   !.own = IF mo \in Shared THEN @ ELSE TRUE]
        y == WithTlb(x, s, [i \in Slot |-> IF i \in slots THEN moved(i) ELSE tlb[i]])
    IN IF slots = {} THEN x
       ELSE [y EXCEPT !.st[s].tlbMap[new] = slots, !.st[s].tlbMap[old] = {}]

\* An address space replaces an object: its TLB entries, found in m_tlbMap, and
\* its place in m_memcache follow.  The new object is owned by s.
addressSpaceChange(x, s, mo, old, new) ==
    LET slots == x.st[s].tlbMap[old]
        tlb == Tlb(x, s)
        moved(i) == [tlb[i] EXCEPT !.os = new, !.mem = IF mo \in Shared THEN @ ELSE new,
                                   !.own = IF mo \in Shared THEN @ ELSE TRUE]
        patched == WithTlb(x, s, [i \in Slot |-> IF i \in slots THEN moved(i) ELSE tlb[i]])
        mapped == [patched EXCEPT !.st[s].tlbMap[new] = slots, !.st[s].tlbMap[old] = {}]
        y == IF slots = {} THEN x
             ELSE Check(mapped, \A i \in slots : tlb[i].os = old, "entry->objectState == oldState")
    IN IF x.st[s].cache[mo] = NoCopy THEN y ELSE [y EXCEPT !.st[s].cache[mo] = new]

\* The state after getWriteable, and the object it returns.
getWriteable(x, s, mo, os) ==
    IF x.heap[os].owner = x.st[s].key THEN [state |-> x, os |-> os] ELSE
    LET n == FreeCopy(x, s, mo)
        y == [x EXCEPT !.heap[n] = [owner |-> x.st[s].key, val |-> x.heap[os].val]]
        z == addressSpaceChange(y, s, mo, os, n)
    IN [state |-> [z EXCEPT !.st[s].objects[mo] = n], os |-> n]

\* ObjectState::write8: shared-concrete objects are in their native place.
write8(x, mo, os, v) ==
    IF mo \in Shared THEN [x EXCEPT !.env.shared[mo] = v] ELSE [x EXCEPT !.heap[os].val = v]

\* The look-up in m_memcache, which is filled from the address space.
cached(x, s, mo) ==
    IF x.st[s].cache[mo] # NoCopy THEN x
    ELSE [x EXCEPT !.st[s].cache[mo] = x.st[s].objects[mo]]

writeRamConcrete(x, s, mo, v) ==
    LET y == cached(x, s, mo)
        w == getWriteable(y, s, mo, y.st[s].cache[mo])
    IN write8(Check(w.state, x.st[s].active, "m_active"), mo, w.os, v)

\* Executor::executeMemoryOperation: a store of code that KLEE interprets.
executeStore(x, s, mo, v) ==
    LET w == getWriteable(x, s, mo, x.st[s].objects[mo]) IN write8(w.state, mo, w.os, v)

flushTlbCachePage(x, s, os, i) ==
    IF os = NoCopy THEN x
    ELSE [Check(x, i \in x.st[s].tlbMap[os], "Invalid cache!") EXCEPT !.st[s].tlbMap[os] = @ \ {i}]

\* tlb_set_page: the slot gets the object, made writeable unless it is shared.
updateTlbEntry(x, s, i, mo) ==
    LET old == x.env.tlb[i].os
        y == cached(x, s, mo)
        ros == y.st[s].cache[mo]
        w == IF mo \in Shared THEN [state |-> y, os |-> ros] ELSE getWriteable(y, s, mo, ros)
        entry == [page |-> mo, os |-> w.os, mem |-> IF mo \in Shared THEN NoCopy ELSE w.os, own |-> TRUE]
        z == [w.state EXCEPT !.env.tlb[i] = entry, !.st[s].cache[mo] = w.os]
    IN IF old = ros THEN z
       ELSE [flushTlbCachePage(z, s, old, i) EXCEPT !.st[s].tlbMap[w.os] = @ \cup {i}]

\* tlb_flush: the native TLB goes, and the m_tlbMap of g_s2e_state.
tlb_flush(x) == [x EXCEPT !.env.tlb = NoTlb, !.st[x.current].tlbMap = NoTlbMap]

\* A store of translated code: to the memory the entry leads to, if the entry
\* says that it may be written, and through writeRamConcrete otherwise.
store(x, s, i, v) ==
    LET e == x.env.tlb[i] IN
    CASE ~ e.own -> writeRamConcrete(x, s, e.page, v)
      [] e.own /\ e.mem = NoCopy -> [x EXCEPT !.env.shared[e.page] = v]
      [] OTHER -> [x EXCEPT !.heap[e.mem].val = v]

-----------------------------------------------------------------------------
(* Modes, forks and switches.                                              *)

switchToConcrete(x, s) ==
    [Check(x, ~ x.st[s].running, "!state->m_runningConcrete")
        EXCEPT !.env.regs = x.st[s].regs, !.st[s].running = TRUE]

switchToSymbolic(x, s) ==
    [Check(x, x.st[s].running, "state->m_runningConcrete")
        EXCEPT !.st[s].regs = x.env.regs, !.st[s].running = FALSE]

\* The contents of the shared objects are saved in the objects of s.
saveShared(x, s) ==
    LET save(mo, y) == LET w == getWriteable(y, s, mo, y.st[s].objects[mo]) IN
                       [w.state EXCEPT !.heap[w.os].val = y.env.shared[mo]]
    IN FoldSet(save, x, Shared)

\* The pinned objects of s are made writeable and their pointers follow.
pin(x, s) ==
    LET own(mo, y) == LET w == getWriteable(y, s, mo, y.st[s].pinned[mo]) IN
                      [w.state EXCEPT !.st[s].pinned[mo] = w.os]
    IN FoldSet(own, x, Pinned)

\* The new state has the objects, the TLB map and, for now, the m_active of the
\* old one; its m_memcache is empty.  Nobody owns the objects any more.
cloned(x, s, t) ==
    LET key == x.st[s].key + 1
        unowned(i) == LET e == x.env.tlb[i] IN
                      IF e.page \in Ram /\ \E c \in Copy : i \in x.st[s].tlbMap[c]
                      THEN [e EXCEPT !.own = FALSE] ELSE e
        new == [x.st[s] EXCEPT !.key = key, !.cache = NoCache]
        y == [Check(x, x.st[s].active, "m_active && m_cpuSystemState")
                EXCEPT !.env.tlb = [i \in Slot |-> unowned(i)], !.st[s].key = key]
    IN [y EXCEPT !.st = [u \in DOMAIN x.st \cup {t} |-> IF u = t THEN new ELSE y.st[u]]]

\* S2EExecutionState::clone.
clone(x, s, t) == pin(pin(cloned(x, s, t), t), s)

\* The new state gets what is in the native places, and is not active.
doStateFork(x, s, t) ==
    LET y == tlb_flush(Check(x, x.st[s].active /\ ~ x.st[s].running,
                             "originalState->m_active && !originalState->m_runningConcrete"))
        z == [y EXCEPT !.st[t].machine = y.env.machine, !.st[t].tlb = y.env.tlb,
                       !.st[t].active = FALSE]
    IN saveShared(z, t)

\* The first half of doStateSwitch for the state that is left.
switchOff(x, s) ==
    LET y == IF x.st[s].running THEN switchToSymbolic(x, s) ELSE x
        z == tlb_flush([y EXCEPT !.st[s].machine = y.env.machine])
    IN [z EXCEPT !.st[s].tlb = z.env.tlb, !.st[s].active = FALSE]

\* And for the state that is entered; writes are those of its devices, made
\* while the shared objects still have the contents of the old state.
switchOn(x, s, writes) ==
    LET y == [x EXCEPT !.env.machine = x.st[s].machine, !.env.tlb = x.st[s].tlb,
                       !.st[s].active = TRUE, !.current = s]
        z == IF writes = {} THEN y
             ELSE LET w == CHOOSE w \in writes : TRUE IN writeRamConcrete(y, s, w[1], w[2])
    IN tlb_flush(z)

loadShared(x, s) == [x EXCEPT !.env.shared = [mo \in Shared |-> x.heap[x.st[s].objects[mo]].val]]

NoState == 0

\* Mutant of doStateSwitch: the new contents are loaded before the old are saved.
doStateSwitch_LoadsFirst(x, old, new, writes) ==
    LET off == IF old = NoState THEN x ELSE switchOff(x, old)
        on == IF new = NoState THEN off ELSE switchOn(off, new, writes)
        loaded == IF new = NoState THEN on ELSE loadShared(on, new)
    IN IF old = NoState THEN loaded ELSE saveShared(loaded, old)

doStateSwitch(x, old, new, writes) ==
    LET checked == Check(x, /\ old # NoState => x.st[old].active
                            /\ new # NoState => ~ x.st[new].active /\ ~ x.st[new].running,
                         "oldState->m_active, !newState->m_active, !newState->m_runningConcrete")
        off == IF old = NoState THEN checked ELSE switchOff(checked, old)
        on == IF new = NoState THEN off ELSE switchOn(off, new, writes)
        saved == IF old = NoState THEN on ELSE saveShared(on, old)
    IN IF new = NoState THEN saved ELSE loadShared(saved, new)

-----------------------------------------------------------------------------
Init ==
    /\ env = [tlb |-> NoTlb, regs |-> 0, machine |-> 0, shared |-> [mo \in Shared |-> 0]]
    /\ LET objects == [mo \in Object |-> <<mo, 1>>]
       IN /\ st = [s \in {1} |-> [active |-> TRUE, running |-> TRUE, key |-> 1, objects |-> objects,
                                  pinned |-> [mo \in Pinned |-> objects[mo]], cache |-> NoCache,
                                  tlbMap |-> NoTlbMap, tlb |-> NoTlb, regs |-> 0, machine |-> 0]]
          /\ heap = [c \in Copy |-> [owner |-> IF c[2] = 1 THEN 1 ELSE 0, val |-> 0]]
    /\ current = 1 /\ nextId = 2 /\ failed = {}

\* The operations of the running state.
TlbFill == \E i \in Slot, mo \in Mapped : Install(updateTlbEntry(View, current, i, mo)) /\ UNCHANGED nextId

TlbStore ==
    \E i \in Slot, v \in Value :
        env.tlb[i].os # NoCopy /\ env.tlb[i].page \in Written /\ Install(store(View, current, i, v)) /\ UNCHANGED nextId

RamWrite == \E mo \in (Object \ Pinned) \cap Written, v \in Value : Install(writeRamConcrete(View, current, mo, v)) /\ UNCHANGED nextId

KleeStore ==
    \E mo \in (Object \ Pinned) \cap Written, v \in Value :
        ~ st[current].running /\ Install(executeStore(View, current, mo, v)) /\ UNCHANGED nextId

DirtyWrite ==
    \E mo \in Pinned \cap Written, v \in Value : Install(write8(View, mo, st[current].pinned[mo], v)) /\ UNCHANGED nextId

RamRead == \E mo \in (Object \ Pinned) \cap Written : Install(cached(View, current, mo)) /\ UNCHANGED nextId

FlushPage ==
    \E i \in Slot :
        /\ env.tlb[i].os # NoCopy
        /\ Install([flushTlbCachePage(View, current, env.tlb[i].os, i) EXCEPT !.env.tlb[i] = Empty])
        /\ UNCHANGED nextId

FlushAll == Install(tlb_flush(View)) /\ UNCHANGED nextId

RegisterWrite ==
    \E v \in Value :
        /\ "regs" \in Written
        /\ Install(IF st[current].running THEN [View EXCEPT !.env.regs = v]
                   ELSE [View EXCEPT !.st[current].regs = v])
        /\ UNCHANGED nextId

MachineWrite ==
    \E v \in Value : "machine" \in Written /\ Install([View EXCEPT !.env.machine = v]) /\ UNCHANGED nextId

SwitchMode ==
    /\ Install(IF st[current].running THEN switchToSymbolic(View, current) ELSE switchToConcrete(View, current))
    /\ UNCHANGED nextId

\* S2EExecutor::fork.
Fork ==
    /\ ~ st[current].running /\ nextId <= MaxStateId
    /\ Install(doStateFork(clone(View, current, nextId), current, nextId))
    /\ nextId' = nextId + 1

\* selectNextState: a merge that the searcher tries may have switched the
\* current state off; the states that ended are deleted last.
SelectNextState ==
    \E new \in DOMAIN st, tried \in BOOLEAN,
       writes \in {{}} \cup {{<<mo, v>>} : mo \in LoadWrites, v \in Value} :
        LET x == IF tried THEN doStateSwitch(View, current, NoState, {}) ELSE View
            old == IF tried THEN NoState ELSE current
            y == IF new = old THEN x ELSE doStateSwitch(x, old, new, writes)
        IN \E ended \in SUBSET (DOMAIN st \ {new}) :
              /\ Install([y EXCEPT !.st = [s \in DOMAIN st \ ended |-> y.st[s]]])
              /\ UNCHANGED nextId

Next ==
    /\ failed = {}
    /\ \/ TlbFill \/ TlbStore \/ RamWrite \/ DirtyWrite \/ KleeStore \/ RamRead \/ FlushPage \/ FlushAll
       \/ RegisterWrite \/ MachineWrite \/ SwitchMode \/ Fork \/ SelectNextState

Spec == Init /\ [][Next]_vars

-----------------------------------------------------------------------------
\* What the code asserts about modes, activity and the TLB map holds.
NoAssertFails == failed = {}

\* A TLB entry of the running state leads to the object of its page, and says
\* that it may be written only if the state owns that object.
TlbCoherent ==
    \A i \in Slot :
        LET e == env.tlb[i] IN
        e.os # NoCopy =>
            /\ e.os = st[current].objects[e.page]
            /\ e.page \in Ram => e.mem = e.os
            /\ e.page \in Ram /\ e.own => heap[e.os].owner = st[current].key

\* m_tlbMap "tracks the location of every ObjectState in the TLB".
TlbMapExact ==
    \A c \in Copy : st[current].tlbMap[c] = {i \in Slot : env.tlb[i].os = c}

\* The pointer that the state keeps to its dirty mask is to an object that its
\* address space holds, whatever copies the switches made of shared objects.
PinnedHeld == \A s \in DOMAIN st, mo \in Pinned : st[s].pinned[mo] = st[s].objects[mo]

\* What m_memcache returns is what the address space would.
CacheCoherent == \A s \in DOMAIN st, mo \in Object : st[s].cache[mo] \in {NoCopy, st[s].objects[mo]}

\* "NOTE: for active states, SharedConcrete memory objects are stored in shared
\* locations, for inactive - in ObjectStates", and the same for registers.
Seen(s, x) ==
    CASE x = "regs" -> IF st[s].running THEN env.regs ELSE st[s].regs
      [] x = "machine" -> IF st[s].active THEN env.machine ELSE st[s].machine
      [] x \in Ram -> heap[st[s].objects[x]].val
      [] OTHER -> IF st[s].active THEN env.shared[x] ELSE heap[st[s].objects[x]].val

Part == Object \cup {"regs", "machine"}

\* A fork gives the new state what the old one sees, part by part, although the
\* parts are in four different places.
CopiesGuest == \A t \in DOMAIN st' \ DOMAIN st, x \in Part : Seen(t, x)' = Seen(current, x)

ForkCopiesGuest == [][CopiesGuest]_vars

\* Only the running state changes what it sees, and neither a change of mode nor
\* a switch does, but for what the devices of the state that is entered write:
\* "Devices may need to write to memory, which can be done after the state is
\* activated".
Untouched ==
    \A s \in DOMAIN st \cap DOMAIN st', x \in Part :
        Seen(s, x)' # Seen(s, x) =>
            /\ s = current'
            /\ x \in LoadWrites \/ (s = current /\ st'[s].running = st[s].running)

OthersUntouched == [][Untouched]_vars
=============================================================================
