----------------------------- MODULE PathMemory -----------------------------
(***************************************************************************)
(* What an execution state is promised about its memory: it is its own.   *)
(* A store changes one byte of one object of one state, an object appears  *)
(* with fresh contents or goes, a fork gives the new state what the        *)
(* forking one had, and nothing else changes memory.                       *)
(***************************************************************************)
CONSTANTS State, Object, Byte, Value, Fresh, Unbound

VARIABLES live,     \* the states that exist
          mem       \* state -> object -> its bytes, or Unbound

pathVars == <<live, mem>>

Nothing == [mo \in Object |-> Unbound]

PathInit ==
    /\ live \in SUBSET State
    /\ mem = [s \in State |-> Nothing]

Bind(s, mo, c) == s \in live /\ mem' = [mem EXCEPT ![s][mo] = c] /\ live' = live

Store(s, mo, b, v) ==
    /\ s \in live /\ mem[s][mo] # Unbound
    /\ mem' = [mem EXCEPT ![s][mo] = [mem[s][mo] EXCEPT ![b] = v]]
    /\ live' = live

ForkMemory(s, t) ==
    /\ s \in live /\ t \in State \ live
    /\ live' = live \cup {t}
    /\ mem' = [mem EXCEPT ![t] = mem[s]]

Drop(gone) ==
    /\ live' = live \ gone
    /\ mem' = [s \in State |-> IF s \in gone THEN Nothing ELSE mem[s]]

PathNext ==
    \/ \E s \in State :
        \/ \E mo \in Object, c \in Fresh \cup {Unbound} : Bind(s, mo, c)
        \/ \E mo \in Object, b \in Byte, v \in Value : Store(s, mo, b, v)
        \/ \E t \in State : ForkMemory(s, t)
    \/ \E gone \in SUBSET live : Drop(gone)

PathSpec == PathInit /\ [][PathNext]_pathVars
=============================================================================
