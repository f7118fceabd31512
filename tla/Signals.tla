------------------------------ MODULE Signals ------------------------------
(***************************************************************************)
(* The signals plugins connect to, qemu/s2e/Signals/sig-template.h and      *)
(* signals.cpp.  A signal is an array of slots that hold functors; a slot   *)
(* that is disconnected is cleared and reused, and the array never shrinks. *)
(* Functors are named by the plugin they call.                              *)
(***************************************************************************)
EXTENDS Naturals, Sequences

CONSTANT NoFunctor      \* a cleared slot

signal == [funcs |-> <<>>, active |-> 0, ok |-> TRUE]

\* A connection that was never made.
connection == [functor |-> NoFunctor, index |-> 0, connected |-> FALSE]

\* The slot a new functor takes: the first that is clear, or a new one.
FreeSlot(sig) ==
  LET clear == {i \in DOMAIN sig.funcs : sig.funcs[i] = NoFunctor}
  IN  IF clear = {} THEN Len(sig.funcs) + 1 ELSE CHOOSE i \in clear : \A j \in clear : i <= j

connect(sig, f) ==
  LET i == FreeSlot(sig)
      funcs == IF i > Len(sig.funcs) THEN Append(sig.funcs, f) ELSE [sig.funcs EXCEPT ![i] = f]
  IN  [sig |-> [sig EXCEPT !.funcs = funcs, !.active = @ + 1],
       con |-> [functor |-> f, index |-> i, connected |-> TRUE]]

\* connection::disconnect: once, and the signal clears the slot if it still
\* holds the functor.
disconnect(sig, con) ==
  IF ~con.connected THEN [sig |-> sig, con |-> con]
  ELSE LET sane == sig.active > 0 /\ con.index <= Len(sig.funcs)
           held == sane /\ sig.funcs[con.index] = con.functor
       IN  [sig |-> IF held THEN [sig EXCEPT !.funcs[con.index] = NoFunctor, !.active = @ - 1]
                    ELSE [sig EXCEPT !.ok = @ /\ sane],
            con |-> [con EXCEPT !.connected = FALSE]]
=============================================================================
