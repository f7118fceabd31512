----------------------------- MODULE MCExecutor -----------------------------
(***************************************************************************)
(* The executor, for TLC, under its two ways of forking: plain forks with  *)
(* a maximum depth, and concolic forks, whose new states are speculative.  *)
(* The option is chosen when S2E starts and does not change.               *)
(***************************************************************************)
EXTENDS Executor

VARIABLE forks

Concolic == INSTANCE Executor WITH ConcolicMode <- TRUE, UseMaxDepth <- FALSE

PlainStep == forks = "plain" /\ Next /\ UNCHANGED forks
ConcolicStep == forks = "concolic" /\ Concolic!Next /\ UNCHANGED forks

MCInit == forks \in {"plain", "concolic"} /\ Init
MCSpec == MCInit /\ [][PlainStep \/ ConcolicStep]_<<forks, vars>> /\ Fairness
=============================================================================
