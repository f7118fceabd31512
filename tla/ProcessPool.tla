---------------------------- MODULE ProcessPool -----------------------------
(***************************************************************************)
(* What the process table promises to the user who asks for at most        *)
(* MaxProcesses processes: processes appear and disappear one at a time,   *)
(* and one appears only while fewer than MaxProcesses exist.               *)
(***************************************************************************)
EXTENDS Integers, FiniteSets

CONSTANTS Pid, InitialPid, MaxProcesses

VARIABLE alive

Init == alive = {InitialPid}

Start == \E p \in Pid \ alive : /\ Cardinality(alive) < MaxProcesses
                                /\ alive' = alive \cup {p}

Stop == \E p \in alive : alive' = alive \ {p}

Next == Start \/ Stop

Spec == Init /\ [][Next]_alive
=============================================================================
