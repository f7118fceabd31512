-------------------------- MODULE FunctionMonitor ---------------------------
(***************************************************************************)
(* The FunctionMonitor plugin on one path of the guest: call handlers, the *)
(* return handlers they register under the stack pointer and the process   *)
(* of the call, and the guest threads whose calls and returns they follow. *)
(* Threads of different processes use the same stack addresses.  A fork    *)
(* copies the plugin's state, and the model goes on with either path.      *)
(*                                                                         *)
(* A handler may leave the emission early.  In native code, one that needs *)
(* symbolic execution undoes the call and throws, and the instruction is   *)
(* executed again in the interpreter (undoCallAndJumpToSymbolic,           *)
(* jumpToSymbolicCpp).                                                     *)
(***************************************************************************)
EXTENDS Integers, Sequences

CONSTANTS Threads, Pid,     \* Pid[t]: the process of the thread
          Functions,
          Handlers, Target, \* Target[h]: the function and the process it is for
          Act,              \* Act[h]: what the call handler does
          Module,           \* the functions and the process of a module
          AnyFunction, AnyPid, NoRedo,
          MaxDepth,
          UnwindsMonitored  \* the guest unwinds functions with return handlers too

MonitorAssumption ==
    /\ MaxDepth \in Nat
    /\ Act \in [Handlers -> {"plain", "register", "return", "symbolic", "bypass"}]

Pids == {Pid[t] : t \in Threads}

VARIABLES thread,   \* the running thread
          frames,   \* frames[t]: per call, the number of return handlers owed
          redo,     \* redo[t]: the instruction to execute again, in the interpreter
          at,       \* in the guest, or in the emission for a call or a return
          f,        \* the function being called
          symbolic, \* the instruction runs in the interpreter
          todo,     \* the handlers left in the range being walked
          calls,    \* m_callDescriptors
          newCalls, \* m_newCallDescriptors
          returns,  \* m_returnDescriptors: how many per stack pointer and process
          due, seen, twice  \* handlers to run for this call, that ran, that ran twice

vars == <<thread, frames, redo, at, f, symbolic, todo, calls, newCalls, returns, due, seen, twice>>
emission == <<symbolic, todo, due, seen, twice>>
descriptors == <<calls, newCalls, returns>>

\* A stack pointer is the number of frames above it.
Esp == 1 .. MaxDepth
esp == Len(frames[thread])
Here == <<esp, Pid[thread]>>

Top(owed) == [frames EXCEPT ![thread][esp] = owed]
Popped == [frames EXCEPT ![thread] = SubSeq(@, 1, esp - 1)]

\* The handlers of a set whose descriptor has this address and accepts the process.
Matching(hs, eip) ==
    {h \in hs : Target[h].eip = eip /\ Target[h].cr3 \in {AnyPid, Pid[thread]}}

Init ==
    /\ thread \in Threads
    /\ frames = [t \in Threads |-> <<>>]
    /\ redo = [t \in Threads |-> NoRedo]
    /\ at = "guest"
    /\ f \in Functions
    /\ symbolic = FALSE
    /\ todo = {} /\ due = {} /\ seen = {} /\ twice = {}
    /\ calls = {} /\ newCalls = {}
    /\ returns = [d \in Esp \X Pids |-> 0]

-----------------------------------------------------------------------------

\* getCallSignal and connect, by a plugin that registers each handler once.
Register(h) ==
    /\ at = "guest"
    /\ h \notin calls \cup newCalls
    /\ newCalls' = newCalls \cup {h}
    /\ UNCHANGED <<thread, frames, redo, at, f, calls, returns, emission>>

disconnect(hs, pending) ==
    LET gone == {h \in hs \cup pending : Target[h].eip \in Module.functions /\ Target[h].cr3 = Module.pid}
    IN <<hs \ gone, pending \ gone>>

Unload ==
    /\ at = "guest"
    /\ calls' = disconnect(calls, newCalls)[1]
    /\ newCalls' = disconnect(calls, newCalls)[2]
    /\ UNCHANGED <<thread, frames, redo, at, f, returns, emission>>

\* The guest's scheduler.
Switch(t) ==
    /\ at = "guest"
    /\ thread' = t
    /\ UNCHANGED <<frames, redo, at, f, descriptors, emission>>


\* The beginning of slotCall.
slotCall ==
    /\ calls' = calls \cup newCalls
    /\ newCalls' = {}
    /\ todo' = Matching(calls', AnyFunction)

\* A block that ends with a call: the return address is pushed, and the
\* emission starts with the handlers of all functions.
Call(g) ==
    /\ at = "guest"
    /\ redo[thread] \in {NoRedo, g}
    /\ esp < MaxDepth
    /\ at' = "any"
    /\ f' = g
    /\ symbolic' \in (IF redo[thread] = NoRedo THEN BOOLEAN ELSE {TRUE})
    /\ frames' = [frames EXCEPT ![thread] = Append(@, 0)]
    /\ slotCall
    /\ due' = Matching(calls \cup newCalls, AnyFunction) \cup Matching(calls \cup newCalls, g)
    /\ seen' = IF redo[thread] = NoRedo THEN {} ELSE seen
    /\ redo' = [redo EXCEPT ![thread] = NoRedo]
    /\ UNCHANGED <<thread, returns, twice>>

registerReturnSignal == [returns EXCEPT ![Here] = @ + 1]

\* A handler that returns, with or without registering a return handler.
Returns(h, registers) ==
    /\ todo' = todo \ {h}
    /\ due' = due \ {h}
    /\ seen' = seen \cup {h}
    /\ twice' = twice \cup (seen \cap {h})
    /\ returns' = IF registers THEN registerReturnSignal ELSE returns
    /\ frames' = IF registers THEN Top(frames[thread][esp] + 1) ELSE frames
    /\ UNCHANGED <<redo, at>>

\* undoCallAndJumpToSymbolic
Undo ==
    /\ frames' = Popped
    /\ redo' = [redo EXCEPT ![thread] = f]
    /\ at' = "guest"
    /\ todo' = {} /\ due' = {}
    /\ UNCHANGED <<returns, seen, twice>>

\* forkStates: this path goes back to the caller at once (bypassFunction) and
\* ends the emission; the other registers the return handler and is out of it.
Bypass(h) ==
    /\ due' = due \ {h}
    /\ seen' = seen \cup {h}
    /\ twice' = twice \cup (seen \cap {h})
    /\ \/ /\ frames' = Popped
          /\ todo' = todo \ {h}
          /\ UNCHANGED <<returns, at>>
       \/ /\ frames' = Top(frames[thread][esp] + 1)
          /\ returns' = registerReturnSignal
          /\ todo' = {}
          /\ at' = "guest"
    /\ UNCHANGED redo

EmitCall(h) ==
    /\ at \in {"any", "one"}
    /\ h \in todo
    /\ \/ Act[h] \in {"symbolic", "bypass"} /\ ~symbolic /\ Undo
       \/ Act[h] = "bypass" /\ symbolic /\ Bypass(h)
       \/ Act[h] \in {"symbolic", "return"} /\ (symbolic \/ Act[h] = "return") /\ Returns(h, TRUE)
       \/ Act[h] \in {"plain", "register"} /\ Returns(h, FALSE)
    /\ newCalls' \in IF Act[h] = "register"
                     THEN {newCalls} \cup {newCalls \cup {n} : n \in Handlers \ calls} ELSE {newCalls}
    /\ UNCHANGED <<thread, f, symbolic, calls>>

\* The range is walked: the new descriptors are merged, and the handlers of the
\* function follow those of all functions.
EndRange ==
    /\ at \in {"any", "one"}
    /\ todo = {}
    /\ calls' = calls \cup newCalls
    /\ newCalls' = {}
    /\ todo' = IF at = "any" THEN Matching(calls', f) ELSE {}
    /\ at' = IF at = "any" THEN "one" ELSE "guest"
    /\ UNCHANGED <<thread, frames, redo, f, symbolic, returns, due, seen, twice>>

-----------------------------------------------------------------------------

\* A return instruction: slotRet runs before it pops the return address.
Ret ==
    /\ at = "guest"
    /\ redo[thread] \in {NoRedo, "ret"}
    /\ esp > 0
    /\ at' = "ret"
    /\ symbolic' \in (IF redo[thread] = NoRedo THEN BOOLEAN ELSE {TRUE})
    /\ redo' = [redo EXCEPT ![thread] = NoRedo]
    /\ UNCHANGED <<thread, frames, f, todo, due, seen, twice, descriptors>>

\* The descriptors of the range whose process is the current one.
slotRet == {d \in DOMAIN returns : d = Here /\ returns[d] > 0}

\* eraseSp
Erased == [d \in DOMAIN returns |-> IF d \in slotRet THEN 0 ELSE returns[d]]

\* One return handler: it returns and is erased; it forks, and the other path
\* erases its handlers and leaves the emission (forkRange); it succeeds the path,
\* erases the handlers and throws; or it throws to run in the interpreter.
EmitReturn(d) ==
    /\ at = "ret"
    /\ d \in slotRet
    /\ \/ /\ returns' = [returns EXCEPT ![d] = @ - 1]
          /\ frames' = Top(frames[thread][esp] - 1)
          /\ UNCHANGED <<at, redo>>
       \/ /\ symbolic
          /\ returns' = Erased
          /\ frames' = Top(0)
          /\ \/ UNCHANGED <<at, redo>>
             \/ at' = "guest" /\ redo' = [redo EXCEPT ![thread] = "ret"]
       \/ /\ ~symbolic
          /\ at' = "guest" /\ redo' = [redo EXCEPT ![thread] = "ret"]
          /\ UNCHANGED <<returns, frames>>
    /\ UNCHANGED <<thread, f, emission, calls, newCalls>>

Return ==
    /\ at = "ret"
    /\ slotRet = {}
    /\ frames' = Popped
    /\ at' = "guest"
    /\ UNCHANGED <<thread, redo, f, emission, descriptors>>

\* The guest unwinds its stack (longjmp, an exception).
Unwind ==
    /\ at = "guest"
    /\ esp > 0
    /\ UnwindsMonitored \/ frames[thread][esp] = 0
    /\ redo[thread] = NoRedo
    /\ frames' = Popped
    /\ UNCHANGED <<thread, redo, at, f, emission, descriptors>>

Next ==
    \/ \E h \in Handlers : Register(h) \/ EmitCall(h)
    \/ \E t \in Threads : Switch(t)
    \/ \E g \in Functions : Call(g)
    \/ \E d \in Esp \X Pids : EmitReturn(d)
    \/ Unload \/ EndRange \/ Ret \/ Return \/ Unwind

Spec == Init /\ [][Next]_vars

-----------------------------------------------------------------------------

\* The return handlers that the calls in progress are owed.
Owed(d) ==
    LET holders == {t \in Threads : Pid[t] = d[2] /\ Len(frames[t]) >= d[1]}
    IN IF holders = {} THEN 0 ELSE frames[CHOOSE t \in holders : TRUE][d[1]]

(***************************************************************************)
(* "Call/return handlers are paired" (docs/Plugins/FunctionMonitor.rst):   *)
(* under each stack pointer and process there are as many return           *)
(* descriptors as were registered for the call in progress there, and none *)
(* where no call is in progress: no return runs the handler of another     *)
(* call, of another thread, or of an instruction that was executed again.  *)
(* Each process has one thread here.                                       *)
(***************************************************************************)
ReturnsPaired == \A d \in DOMAIN returns : returns[d] = Owed(d)

(***************************************************************************)
(* When slotCall is over, every handler that was registered for the        *)
(* function, or for all functions, before the call has run, even if it was *)
(* registered since the last call.                                         *)
(***************************************************************************)
HandlersReached == at = "guest" => due = {}

(***************************************************************************)
(* Not an invariant.  "Make sure you register it only once, unless you     *)
(* want the handler to be called multiple times consecutively on the same  *)
(* call instruction" (docs/Plugins/FunctionMonitor.rst): a handler that is *)
(* registered once runs once for a call.                                   *)
(***************************************************************************)
CalledOnce == twice = {}

(***************************************************************************)
(* Not an invariant.  "Disconnect all address that belong to desc.  This   *)
(* is useful to unregister all handlers when a module is unloaded"         *)
(* (FunctionMonitor.cpp).                                                  *)
(***************************************************************************)
UnloadUnregisters ==
    \A i \in 1 .. 2 : \A h \in disconnect(calls, newCalls)[i] : Target[h].eip \notin Module.functions

=============================================================================
