---------------------------- MODULE CallTracer ------------------------------
(***************************************************************************)
(* The CallTracer plugin: the functions that are called with a symbolic    *)
(* word among the first ones on the stack.  All the paths of an S2E        *)
(* process share one table; a process that S2E forks starts with a copy of *)
(* it, and all of them append to the file wanted_functions.                *)
(*                                                                         *)
(* The table is two arrays of Capacity elements followed by the count, and *)
(* nothing compares the count with Capacity.  A write past their ends      *)
(* lands in what the class declares next: addrs[Capacity] in offsets[0]    *)
(* and offsets[1], which get the halves of the 64-bit address, and         *)
(* offsets[Capacity] in num.                                               *)
(***************************************************************************)
EXTENDS Integers, Sequences, SequencesExt

CONSTANTS Processes, First,
          Capacity,         \* 1000
          Functions,
          Filtered,         \* the function that is not recorded
          Words             \* the loop reads the words 0 .. 4

TracerAssumption ==
    /\ Capacity \in Nat /\ Capacity > 1
    /\ Words \in Nat
    /\ First \in Processes

VARIABLES running,  \* the processes
          table,    \* table[p]: addrs, offsets and num
          file,     \* file[p]: the lines of wanted_functions that p wrote
          made      \* made[p]: the calls with a symbolic word that p saw, but for Filtered

vars == <<running, table, file, made>>

\* The low half of an address is no offset, the high half is zero.
LowHalf == -1
HighHalf == 0

Init ==
    /\ running = {First}
    /\ table = [p \in Processes |-> [addrs |-> <<>>, offsets |-> <<>>, num |-> 0]]
    /\ file = [p \in Processes |-> <<>>]
    /\ made = [p \in Processes |-> {}]

exist(t, eip, i) == \E j \in 1 .. t.num : t.addrs[j] = eip /\ t.offsets[j] = i

\* s[n] = v, where n is in s or next to it.
Set(s, n, v) == IF n = Len(s) THEN Append(s, v) ELSE [s EXCEPT ![n + 1] = v]

\* addrs[num] = eip; offsets[num] = i; num++
record(t, eip, i) ==
    IF t.num < Capacity
    THEN [addrs |-> Set(t.addrs, t.num, eip), offsets |-> Set(t.offsets, t.num, i), num |-> t.num + 1]
    ELSE [addrs |-> t.addrs, offsets |-> [t.offsets EXCEPT ![1] = LowHalf, ![2] = HighHalf], num |-> i + 1]

\* Mutant of onAllCall: a function with an entry is not looked at again.
onAllCall_OncePerFunction(now, eip, symbolic) ==
    FoldLeft(LAMBDA r, i :
                 IF i \in symbolic /\ eip # Filtered /\ ~(\E j \in 1 .. r.table.num : r.table.addrs[j] = eip)
                 THEN [table |-> record(r.table, eip, i), file |-> Append(r.file, <<eip, i>>)]
                 ELSE r,
             now, [n \in 1 .. Words |-> n - 1])

onAllCall(now, eip, symbolic) ==
    FoldLeft(LAMBDA r, i :
                 IF i \in symbolic /\ eip # Filtered /\ ~exist(r.table, eip, i)
                 THEN [table |-> record(r.table, eip, i), file |-> Append(r.file, <<eip, i>>)]
                 ELSE r,
             now, [n \in 1 .. Words |-> n - 1])

Call(p, eip, symbolic) ==
    /\ p \in running
    /\ LET done == onAllCall([table |-> table[p], file |-> file[p]], eip, symbolic)
       IN /\ table' = [table EXCEPT ![p] = done.table]
          /\ file' = [file EXCEPT ![p] = done.file]
    /\ made' = [made EXCEPT ![p] = @ \cup {<<eip, i>> : i \in IF eip = Filtered THEN {} ELSE symbolic}]
    /\ UNCHANGED running

\* S2E::fork
Fork(p, q) ==
    /\ p \in running
    /\ q \in Processes \ running
    /\ running' = running \cup {q}
    /\ table' = [table EXCEPT ![q] = table[p]]
    /\ UNCHANGED <<file, made>>

Next ==
    \E p \in Processes :
        \/ \E q \in Processes : Fork(p, q)
        \/ \E eip \in Functions, symbolic \in SUBSET (0 .. Words - 1) : Call(p, eip, symbolic)

Spec == Init /\ [][Next]_vars

-----------------------------------------------------------------------------

Written == UNION {ToSet(file[p]) : p \in Processes}

(***************************************************************************)
(* "do check for all call" (CallTracer.cpp): every call that some process  *)
(* saw with a symbolic word is in wanted_functions, with the word, though  *)
(* a process leaves to its parent's lines what its copy of the table       *)
(* holds.  It holds while the table has room.                              *)
(***************************************************************************)
RecordedAll ==
    \A p \in Processes : made[p] \subseteq Written

(***************************************************************************)
(* No process writes a line twice: the table that onAllCall searches holds *)
(* every line that the process wrote.                                      *)
(***************************************************************************)
RecordedOnce == \A p \in Processes : IsInjective(file[p])

=============================================================================
