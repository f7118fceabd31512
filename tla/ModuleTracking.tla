--------------------------- MODULE ModuleTracking ---------------------------
(***************************************************************************)
(* ModuleExecutionDetector tells other plugins when a path enters or leaves *)
(* a module of interest, and MemoryChecker and MemoryTracer use that to     *)
(* listen to the memory accesses of modules only.  What the detector knows  *)
(* belongs to a path; the connections of the two plugins belong to the      *)
(* process and are shared by all paths.                                     *)
(*                                                                          *)
(* The detector instruments the blocks of modules only: each start, and the *)
(* ends that jump to a computed address or out of the module.  Paths fork   *)
(* and change anywhere, also between the jump of a block and the start of   *)
(* the next.                                                                *)
(***************************************************************************)
EXTENDS Signals, FiniteSets, TLC

CONSTANTS
  Modules,       \* the modules of interest; their addresses are disjoint
  Elsewhere,     \* every other address, and "no module" (NULL)
  Listeners,     \* the plugins loaded: "MemoryChecker", "MemoryTracer"
  Quiet,         \* modules may leave through sysenter, lret or iret
  MaxStateId,    \* bound on the paths
  MaxSlots       \* bound on the slots of onDataMemoryAccess

TrackingAssumption ==
  /\ Elsewhere \notin Modules
  /\ Quiet \in BOOLEAN
  /\ MaxStateId \in Nat
  /\ MaxSlots \in Nat

VARIABLES
  path,          \* per path: pc, whether its block has started, and the detector's state
  current,       \* the path that runs
  data,          \* the signal onDataMemoryAccess
  con,           \* m_dataMemoryAccessConnection and m_memoryMonitor
  failed         \* an assertion failed

vars == <<path, current, data, con, failed>>

Known == Modules \cup {Elsewhere}

----------------------------------------------------------------------------
(* ModuleTransitionState, in a path p: m_Descriptors, m_PreviousModule and  *)
(* m_CachedModule.                                                          *)

\* The module at an address: the cached one if the path stayed in it.
getDescriptor(p, pc) ==
  IF p.cached # Elsewhere /\ pc = p.cached THEN p.cached
  ELSE IF pc \in p.loaded THEN pc ELSE Elsewhere

getCurrentDescriptor(p) == getDescriptor(p, p.pc)

\* What a lookup leaves in m_CachedModule.
Lookup(p) == [p EXCEPT !.cached = getCurrentDescriptor(p)]

\* A descriptor pointer is NULL or a descriptor of this path.
Points(p, m) == m = Elsewhere \/ m \in p.loaded

----------------------------------------------------------------------------
(* The two listeners.  w is [sig, con], onDataMemoryAccess and the          *)
(* connections of the plugins.                                              *)

World == [sig |-> data, con |-> con]

Listen(w, l) ==
  LET c == connect(w.sig, l) IN [sig |-> c.sig, con |-> [w.con EXCEPT ![l] = c.con]]

Ignore(w, l) ==
  LET c == disconnect(w.sig, w.con[l]) IN [sig |-> c.sig, con |-> [w.con EXCEPT ![l] = c.con]]

\* onModuleTransition of either plugin.
listenerTransition(w, l, next) == IF next # Elsewhere THEN Listen(w, l) ELSE Ignore(w, l)

\* Mutant: the listener is only removed, never connected again.
checkerStateSwitch_OnlyOff(w, p) == Ignore(w, "MemoryChecker")

\* MemoryChecker::onStateSwitch; MemoryTracer has no such handler.
checkerStateSwitch(w, p) ==
  LET off == Ignore(w, "MemoryChecker")
  IN  IF getCurrentDescriptor(p) # Elsewhere THEN Listen(off, "MemoryChecker") ELSE off

\* MemoryChecker::onException.
checkerException(w) == Ignore(w, "MemoryChecker")

\* Runs F for every plugin that is loaded, MemoryTracer first: MemoryChecker
\* depends on it.
ForListeners(w, F(_, _)) ==
  LET a == IF "MemoryTracer" \in Listeners THEN F(w, "MemoryTracer") ELSE w
  IN  IF "MemoryChecker" \in Listeners THEN F(a, "MemoryChecker") ELSE a

ForChecker(w, new) == IF "MemoryChecker" \in Listeners THEN new ELSE w

\* ModuleExecutionDetector::onModuleTransition.emit.
onModuleTransition(w, next) ==
  LET F(x, l) == listenerTransition(x, l, next) IN ForListeners(w, F)

----------------------------------------------------------------------------
(* The detector.  Its handlers return the path and the world.               *)

onExecution(p, w) ==
  LET q == Lookup(p)
      now == getCurrentDescriptor(p)
  IN  [path |-> [q EXCEPT !.previous = now],
       world |-> IF q.previous # now THEN onModuleTransition(w, now) ELSE w]

exceptionListener(p, w) ==
  [path |-> [p EXCEPT !.previous = Elsewhere],
   world |-> IF p.previous # Elsewhere THEN onModuleTransition(w, Elsewhere) ELSE w]

Install(w) ==
  /\ Len(w.sig.funcs) <= MaxSlots
  /\ data' = w.sig
  /\ con' = w.con

Runs(p, w) ==
  /\ Install(w)
  /\ path' = [path EXCEPT ![current] = p]
  /\ UNCHANGED <<current, failed>>

----------------------------------------------------------------------------
Init ==
  /\ path = (0 :> [pc |-> Elsewhere, started |-> TRUE, loaded |-> {},
                   previous |-> Elsewhere, cached |-> Elsewhere])
  /\ current = 0
  /\ data = signal
  /\ con = [l \in Listeners |-> connection]
  /\ failed = FALSE

\* moduleLoadListener: the system has loaded a module.
ModuleLoad(m) ==
  /\ path[current].started
  /\ path[current].pc = Elsewhere
  /\ Runs([path[current] EXCEPT !.loaded = @ \cup {m}], World)

\* unloadDescriptor, and unloadDescriptorsWithPid for all of a process.
unloadDescriptors(p, ms) ==
  [p EXCEPT !.loaded = @ \ ms,
            !.cached = IF @ \in ms THEN Elsewhere ELSE @,
            !.previous = IF @ \in ms THEN Elsewhere ELSE @]

\* moduleUnloadListener, for one module, and processUnloadListener, for the
\* modules of a process.
Unload(ms) ==
  /\ path[current].started
  /\ path[current].pc = Elsewhere
  /\ ms \subseteq path[current].loaded
  /\ Runs(unloadDescriptors(path[current], ms), World)

\* The block ends in a jump, call or ret: a block of a module runs
\* onExecution once eip holds the target.
Jump(target) ==
  LET p == path[current]
      q == [p EXCEPT !.pc = target, !.started = FALSE]
      r == onExecution(q, World)
  IN  /\ p.started
      /\ target \in p.loaded \cup {Elsewhere}
      /\ IF getCurrentDescriptor(p) # Elsewhere THEN Runs(r.path, r.world) ELSE Runs(q, World)

\* The block ends in sysenter, sysexit, lret or iret: the helper sets eip
\* after the last point that is instrumented.
QuietJump(target) ==
  LET p == path[current]
  IN  /\ p.started
      /\ Quiet \/ p.pc = Elsewhere
      /\ target \in p.loaded \cup {Elsewhere}
      /\ Runs([p EXCEPT !.pc = target, !.started = FALSE], World)

\* The next block starts; onTranslateBlockStart instruments it if it belongs
\* to a module.
BlockStart ==
  LET p == [path[current] EXCEPT !.started = TRUE]
      r == onExecution(p, World)
  IN  /\ ~path[current].started
      /\ IF getCurrentDescriptor(p) # Elsewhere THEN Runs(r.path, r.world) ELSE Runs(p, World)

\* An interrupt, or a fault in the block: the handler is code of the system.
\* The detector and MemoryChecker hear of it.
Exception ==
  LET r == exceptionListener(path[current], World)
  IN  Runs([r.path EXCEPT !.pc = Elsewhere, !.started = FALSE],
           ForChecker(r.world, checkerException(r.world)))

\* A slot of onDataMemoryAccess: the plugin handles the access, or finds
\* that the path is outside every module and stops listening.
RECURSIVE emitFrom(_, _)
emitFrom(v, i) ==
  IF i > Len(v.world.sig.funcs) THEN v
  ELSE LET l == v.world.sig.funcs[i]
           inside == getCurrentDescriptor(v.path) # Elsewhere
       IN  emitFrom(IF l = NoFunctor THEN v
                    ELSE [path |-> Lookup(v.path),
                          world |-> IF inside THEN v.world ELSE Ignore(v.world, l)],
                    i + 1)

\* Code of the running block reads or writes memory.
Access ==
  LET v == emitFrom([path |-> path[current], world |-> World], 1)
  IN  /\ path[current].started
      /\ Install(v.world)
      /\ path' = [path EXCEPT ![current] = v.path]
      /\ UNCHANGED <<current, failed>>

\* ModuleTransitionState::clone finds, in the copy, the descriptors that
\* m_CachedModule and m_PreviousModule point to, and asserts it does.
Fork ==
  LET p == path[current]
      id == Cardinality(DOMAIN path)
  IN  /\ id <= MaxStateId
      /\ path' = [s \in DOMAIN path \cup {id} |-> IF s = id THEN p ELSE path[s]]
      /\ failed' = (failed \/ ~Points(p, p.cached) \/ ~Points(p, p.previous))
      /\ UNCHANGED <<current, data, con>>

\* selectNextState emits onStateSwitch, then activates the path.
SelectNextState(s) ==
  /\ s # current
  /\ Install(ForChecker(World, checkerStateSwitch(World, path[s])))
  /\ path' = IF "MemoryChecker" \in Listeners THEN [path EXCEPT ![s] = Lookup(@)] ELSE path
  /\ current' = s
  /\ UNCHANGED failed

Next ==
  \/ \E m \in Modules : ModuleLoad(m)
  \/ \E ms \in SUBSET Modules \ {{}} : Unload(ms)
  \/ \E t \in Known : Jump(t) \/ QuietJump(t)
  \/ BlockStart
  \/ Exception
  \/ Access
  \/ Fork
  \/ \E s \in DOMAIN path : SelectNextState(s)

Spec == Init /\ [][Next]_vars

----------------------------------------------------------------------------
(* Properties. *)

\* What the detector remembers of a path is a module of that path, and the
\* connections of the plugins are consistent with the signal: the assertions
\* of ModuleTransitionState::clone and of the signal's disconnect hold.
AssertsHold ==
  /\ ~failed
  /\ data.ok
  /\ \A s \in DOMAIN path : Points(path[s], path[s].cached) /\ Points(path[s], path[s].previous)

Hears(l) ==
  path[current].started /\ getCurrentDescriptor(path[current]) # Elsewhere =>
    \E i \in DOMAIN data.funcs : data.funcs[i] = l

\* MemoryChecker listens whenever a block of a module runs, whichever paths
\* ran before and whatever exceptions and stale transitions disconnected it:
\* it misses no access of a module.
CheckerHearsModules == "MemoryChecker" \in Listeners => Hears("MemoryChecker")

\* MemoryTracer, which has no onStateSwitch handler, listens whenever a
\* block of a module runs.
TracerHearsModules == "MemoryTracer" \in Listeners => Hears("MemoryTracer")

\* A connected plugin can always be silenced: the connection it keeps is
\* the one of a slot that holds its functor.
HoldsItsSlot ==
  \A l \in Listeners : con[l].connected => data.funcs[con[l].index] = l
=============================================================================
