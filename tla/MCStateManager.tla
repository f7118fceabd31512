--------------------------- MODULE MCStateManager ---------------------------
(* Three process ids, of which the two children are interchangeable.  The     *)
(* configurations differ in the size of the table, the number of states and   *)
(* whether StateManager has a timeout.                                        *)
EXTENDS StateManager, TLC

Symmetry == Permutations(Pid \ {InitialPid})
=============================================================================
