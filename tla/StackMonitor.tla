---------------------------- MODULE StackMonitor ----------------------------
(***************************************************************************)
(* StackMonitor keeps, for every stack on which code of a module of         *)
(* interest runs, the frames its calls opened (StackMonitor.cpp).  It sees  *)
(* each write to the stack pointer by code of a module and each entry into  *)
(* a module; what the system does with the stack pointer in between is not  *)
(* seen.  One path; the unit is a word, so the code's 4 is 1 here.          *)
(***************************************************************************)
EXTENDS Integers, Sequences, SequencesExt, FiniteSetsExt, TLC

CONSTANTS
  Modules,      \* modules of interest that are loaded at least once
  Threads,
  Pid,          \* the process of a thread
  Base,         \* the lowest address of its stack
  Size,         \* the size of every stack
  System        \* code outside the modules

StackAssumption ==
  /\ System \notin Modules
  /\ Size \in Nat \ {0}
  /\ \A t \in Threads : Base[t] \in Nat
  /\ \A t, u \in Threads : t # u /\ Pid[t] = Pid[u] =>
       Base[t] + Size <= Base[u] \/ Base[u] + Size <= Base[t]

VARIABLES
  sp,           \* per thread: its stack pointer
  loc,          \* the code the running thread is in
  thread,       \* the running thread
  loaded,       \* m_moduleCache: the modules that have an id
  m_cached,     \* m_pid and m_cachedStackBase
  m_stacks,     \* the frames of each known stack
  failed        \* an assertion failed

vars == <<sp, loc, thread, loaded, m_cached, m_stacks, failed>>

Addresses(base) == base .. (base + Size - 1)

----------------------------------------------------------------------------
(* class Stack: frames, the outermost first. *)

Frame(module, top) == [module |-> module, top |-> top, size |-> 1]

newFrame(frames, module, top) == Append(frames, Frame(module, top))

\* What newFrame asserts.
FitsLast(frames, top) == top < Last(frames).top + Last(frames).size

\* The last frame takes its new size.
Resized(frames, pointer) ==
  [frames EXCEPT ![Len(frames)].size = Last(frames).top - pointer + 1]

\* Stack::update: the last frame is resized, or frames are unwound; the frame
\* that is the last one then keeps the size it had.
updateFrames(frames, pointer) ==
  IF Last(frames).top >= pointer THEN Resized(frames, pointer)
  ELSE SubSeq(frames, 1, Max({0} \cup {i \in DOMAIN frames : frames[i].top >= pointer}))

removeAllFrames(frames, m) == SelectSeq(frames, LAMBDA f : f.module # m)

----------------------------------------------------------------------------
(* StackMonitorState. *)

\* Mutant: a change of the process does not invalidate the cached stack.
currentStack_AnyPid(pointer) ==
  IF pointer \notin Addresses(m_cached.base)
  THEN [pid |-> Pid[thread], base |-> Base[thread]] ELSE m_cached

\* The cached stack, unless the process or the range of the pointer is
\* another: then getCurrentStack is asked.
currentStack(pointer) ==
  IF Pid[thread] # m_cached.pid \/ pointer \notin Addresses(m_cached.base)
  THEN [pid |-> Pid[thread], base |-> Base[thread]] ELSE m_cached

Keep(key, frames) ==
  IF frames = <<>> THEN [k \in DOMAIN m_stacks \ {key} |-> m_stacks[k]]
  ELSE (key :> frames) @@ m_stacks

\* update: code of module m has moved the stack pointer, by a call or not.
update(m, pointer, isCall) ==
  LET key == currentStack(pointer)
      old == IF key \in DOMAIN m_stacks THEN m_stacks[key] ELSE <<Frame(m, pointer)>>
  IN  /\ m_cached' = key
      /\ m_stacks' = Keep(key, IF isCall THEN newFrame(old, m, pointer)
                               ELSE updateFrames(old, pointer))
      /\ failed' = (failed \/ m \notin loaded
                           \/ (IF isCall THEN ~FitsLast(old, pointer)
                               ELSE pointer \notin Addresses(key.base)))

Unseen == UNCHANGED <<m_cached, m_stacks, failed>>

----------------------------------------------------------------------------
Init ==
  /\ sp = [t \in Threads |-> Base[t] + Size - 1]
  /\ loc = System
  /\ thread \in Threads
  /\ loaded = {}
  /\ m_cached = [pid |-> 0, base |-> 0]
  /\ m_stacks = [k \in {} |-> <<>>]
  /\ failed = FALSE

Moves(pointer) == sp' = [sp EXCEPT ![thread] = pointer]

\* Code of a module pushes, pops, makes room or drops it.
WriteEsp(pointer) ==
  /\ loc # System
  /\ pointer \in Addresses(Base[thread])
  /\ Moves(pointer)
  /\ update(loc, pointer, FALSE)
  /\ UNCHANGED <<loc, thread, loaded>>

\* A call in a module, seen when the return address has been pushed.
Call ==
  LET pointer == sp[thread] - 1
  IN  /\ loc # System
      /\ pointer \in Addresses(Base[thread])
      /\ Moves(pointer)
      /\ update(loc, pointer, TRUE)
      /\ UNCHANGED <<loc, thread, loaded>>

\* Control passes to a module (onModuleTransition) ...
EnterModule(m) ==
  /\ m \in loaded
  /\ m # loc
  /\ loc' = m
  /\ update(m, sp[thread], FALSE)
  /\ UNCHANGED <<sp, thread, loaded>>

\* ... or to the system, by a call, a return or an exception.
LeaveModule ==
  /\ loc # System
  /\ loc' = System
  /\ Unseen
  /\ UNCHANGED <<sp, thread, loaded>>

\* The system moves the stack pointer of the thread, unwinding included ...
SystemEsp(pointer) ==
  /\ loc = System
  /\ pointer \in Addresses(Base[thread])
  /\ Moves(pointer)
  /\ Unseen
  /\ UNCHANGED <<loc, thread, loaded>>

\* ... runs another thread ...
Schedule(t) ==
  /\ loc = System
  /\ t # thread
  /\ thread' = t
  /\ Unseen
  /\ UNCHANGED <<sp, loc, loaded>>

\* ... ends the thread (onThreadExit, deleteStack); its stack serves the next ...
ThreadExit ==
  /\ loc = System
  /\ Moves(Base[thread] + Size - 1)
  /\ m_stacks' = Keep([pid |-> Pid[thread], base |-> Base[thread]], <<>>)
  /\ UNCHANGED <<loc, thread, loaded, m_cached, failed>>

\* ... and loads and unloads modules.  An unloaded module keeps its id.
OnModuleLoad(m) ==
  /\ loc = System
  /\ loaded' = loaded \cup {m}
  /\ Unseen
  /\ UNCHANGED <<sp, loc, thread>>

OnModuleUnload(m) ==
  LET left == {k \in DOMAIN m_stacks : removeAllFrames(m_stacks[k], m) # <<>>}
  IN  /\ loc = System
      /\ m \in loaded
      /\ m_stacks' = [k \in left |-> removeAllFrames(m_stacks[k], m)]
      /\ UNCHANGED <<sp, loc, thread, loaded, m_cached, failed>>

Next ==
  \/ \E a \in Addresses(Base[thread]) : WriteEsp(a) \/ SystemEsp(a)
  \/ Call \/ LeaveModule \/ ThreadExit
  \/ \E m \in Modules : EnterModule(m) \/ OnModuleLoad(m) \/ OnModuleUnload(m)
  \/ \E t \in Threads : Schedule(t)

Spec == Init /\ [][Next]_vars

----------------------------------------------------------------------------
(* Properties. *)

\* The assertions of Stack and of update hold, whatever the system did with
\* the stack pointer and the threads while no module ran.
AssertsHold == ~failed

\* "The frames are sorted by decreasing stack pointer": on every stack,
\* after any interleaving of threads, calls, unwinding and unloading.
FramesSorted ==
  \A k \in DOMAIN m_stacks : \A i, j \in DOMAIN m_stacks[k] :
    i < j => m_stacks[k][i].top >= m_stacks[k][j].top

\* While a module runs, the frames of the running thread's stack are above
\* its stack pointer: every frame below was unwound, also when the system
\* unwound it unseen, and no frame lies on another stack.
FramesLive ==
  loc # System =>
    LET key == [pid |-> Pid[thread], base |-> Base[thread]]
    IN  key \in DOMAIN m_stacks =>
          \A i \in DOMAIN m_stacks[key] :
            m_stacks[key][i].top \in sp[thread] .. (Base[thread] + Size - 1)
=============================================================================
