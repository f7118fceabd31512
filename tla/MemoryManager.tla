--------------------------- MODULE MemoryManager ----------------------------
(***************************************************************************)
(* The MemoryManager plugin: the size of each allocation of the guest      *)
(* kernel (a call of __kmalloc) and of each block copy (rep movs) is       *)
(* compared with a limit.  A path is the set of values that its symbolic   *)
(* word may still have; a size is that word or a number.  A check of a     *)
(* symbolic size narrows the path to the bad values, asks the solver for   *)
(* an input and puts the constraints of the path back.                     *)
(***************************************************************************)
EXTENDS Integers, FiniteSets

CONSTANTS Paths, First,
          Values,       \* of a 32-bit word, signed
          Limit,        \* 0xf0000
          Symbolic,     \* a size that is the symbolic word of the path
          MaxReports

ManagerAssumption ==
    /\ Values \subseteq Int
    /\ Limit \in Nat
    /\ First \in Paths
    /\ MaxReports \in Nat

VARIABLES inputs,   \* inputs[p]: the values that state->constraints allows
          taken,    \* taken[p]: the values that follow the branches p took
          alive,    \* the paths that were not terminated
          size,     \* the field of the plugin, shared by the paths, was set
          crashed,  \* the null size was dereferenced
          reports,  \* the check and the input of each "BUG" message
          passed,   \* the check and the values of the last size let through
          terminate \* m_terminateOnBugs

vars == <<inputs, taken, alive, size, crashed, reports, passed, terminate>>

None == [check |-> "none", values |-> {}]

Init ==
    /\ inputs = [p \in Paths |-> IF p = First THEN Values ELSE {}]
    /\ taken = inputs
    /\ alive = {First}
    /\ size = FALSE
    /\ crashed = FALSE
    /\ reports = {}
    /\ passed = None
    /\ terminate \in BOOLEAN

\* The guest branches on the symbolic word.
Branch(p, q, bound) ==
    LET low == {v \in inputs[p] : v < bound}
    IN /\ p \in alive /\ q \in Paths \ alive /\ ~crashed
       /\ taken[q] = {}
       /\ low # {} /\ low # inputs[p]
       /\ inputs' = [inputs EXCEPT ![p] = low, ![q] = @ \cup (inputs[p] \ low)]
       /\ taken' = [taken EXCEPT ![p] = {v \in @ : v < bound}, ![q] = {v \in taken[p] : v >= bound}]
       /\ alive' = alive \cup {q}
       /\ UNCHANGED <<size, crashed, reports, passed, terminate>>

\* The concrete sizes that each check rejects.
concreteBad(check) ==
    IF check = "kmalloc" THEN {v \in Values : v <= 0 \/ v >= Limit} ELSE {v \in Values : v < 0 \/ v > Limit}

\* The condition that each check gives to the solver.
symbolicBad(check) ==
    IF check = "kmalloc" THEN {v \in Values : v = 0} ELSE {v \in Values : v >= Limit}

\* terminateStateEarly
Killed(p) == IF terminate THEN alive \ {p} ELSE alive

checkConcrete(p, check, v) ==
    /\ IF v \in concreteBad(check)
       THEN reports' = reports \cup {[check |-> check, input |-> v]} /\ alive' = Killed(p) /\ passed' = None
       ELSE passed' = [check |-> check, values |-> {v}] /\ UNCHANGED <<reports, alive>>
    /\ UNCHANGED inputs


\* Nothing bad is possible; or the path is narrowed to the bad values, an input
\* is asked for, and the constraints are put back; or the solver fails.
checkSymbolic(p, check) ==
    LET bad == inputs[p] \cap symbolicBad(check)
        narrowed == [inputs EXCEPT ![p] = bad]
    IN \/ /\ bad = {}
          /\ passed' = [check |-> check, values |-> inputs[p]]
          /\ UNCHANGED <<inputs, reports, alive>>
       \/ \E v \in narrowed[p] :
             /\ reports' = reports \cup {[check |-> check, input |-> v]}
             /\ inputs' = [narrowed EXCEPT ![p] = inputs[p]]
             /\ alive' = Killed(p)
             /\ passed' = None
       \/ UNCHANGED <<inputs, reports, alive, passed>>

\* check___kmalloc_size follows, in the same handler.
OnFunctionCall(p, arg) ==
    /\ p \in alive /\ ~crashed
    /\ Cardinality(reports) < MaxReports
    /\ size' = TRUE
    /\ IF arg = Symbolic THEN checkSymbolic(p, "kmalloc") ELSE checkConcrete(p, "kmalloc", arg)
    /\ UNCHANGED <<taken, crashed, terminate>>

\* check_rep takes the width of the size of the last allocation.
OnMemcpyExecute(p, arg) ==
    /\ p \in alive /\ ~crashed
    /\ Cardinality(reports) < MaxReports
    /\ \/ /\ arg # Symbolic
          /\ checkConcrete(p, "rep", arg)
          /\ UNCHANGED crashed
       \/ /\ arg = Symbolic /\ size
          /\ checkSymbolic(p, "rep")
          /\ UNCHANGED crashed
       \/ /\ arg = Symbolic /\ ~size
          /\ crashed' = TRUE
          /\ UNCHANGED <<inputs, reports, alive, passed>>
    /\ UNCHANGED <<taken, size, terminate>>

Next ==
    \/ \E p, q \in Paths, bound \in Values : Branch(p, q, bound)
    \/ \E p \in Paths, arg \in Values \cup {Symbolic} : OnFunctionCall(p, arg) \/ OnMemcpyExecute(p, arg)

Spec == Init /\ [][Next]_vars

-----------------------------------------------------------------------------


(***************************************************************************)
(* The input printed with a "BUG" message makes the size bad: a size that  *)
(* no message of the plugin calls legal.                                   *)
(***************************************************************************)
ReportsReal ==
    \A r \in reports :
        IF r.check = "kmalloc" THEN r.input <= 0 \/ r.input >= Limit ELSE r.input < 0 \/ r.input >= Limit

(***************************************************************************)
(* Not an invariant.  "BUG:on this condition __kmalloc size will <= 0"     *)
(* (MemoryManager.cpp): a size that is let through cannot be negative or   *)
(* zero.                                                                   *)
(***************************************************************************)
AllocationsPositive ==
    passed.check = "kmalloc" => \A v \in passed.values : v > 0

(***************************************************************************)
(* Not an invariant.  "BUG: memcpy [Size < 0||Size > 0xf0000]"             *)
(* (MemoryManager.cpp): a copy that is let through has no negative size.   *)
(***************************************************************************)
CopiesNotNegative ==
    passed.check = "rep" => \A v \in passed.values : v >= 0

(***************************************************************************)
(* Not an invariant.  "check whether the size of memcpy is legal" (in      *)
(* Chinese, MemoryManager.cpp): check_rep can check the size of any copy.  *)
(***************************************************************************)
CopiesChecked == ~crashed

=============================================================================
