----------------------------- MODULE MCSearchers -----------------------------
(***************************************************************************)
(* The searchers, for TLC: the executor with each of them, and the tree of *)
(* weights that WeightedRandomSearcher draws from.  Each is a              *)
(* specification of its own; part says which takes the steps.              *)
(***************************************************************************)
EXTENDS SearcherClient

CONSTANT Items

VARIABLES part, t, items

PDF == INSTANCE DiscretePDF WITH Weights <- {1, 2}

ASSUME PDFAssumption == PDF!PDFAssumption

\* KLEE's searchers with StateManager, those of the plugins without it, and
\* concolic forks.
MCSetups ==
    [kind : {"DFS", "Random", "Depth", "Interleaved", "Batching"}, stateManager : {TRUE}, concolic : {FALSE}]
    \cup [kind : {"MaxTb", "Cooperative", "Merging", "ConcolicDFS"}, stateManager : {FALSE}, concolic : {FALSE}]
    \cup [kind : {"ConcolicDFS", "DFS"}, stateManager : {FALSE}, concolic : {TRUE}]

allVars == <<part, vars, t, items>>

ClientMoves == part = "client" /\ Next /\ UNCHANGED <<part, t, items>>
TreeMoves == part = "tree" /\ PDF!Next /\ UNCHANGED <<part, vars>>

\* While the tree moves one of the clients rests.
MCInit ==
    /\ part \in {"client", "tree"}
    /\ Init /\ (part = "tree" => setup = [kind |-> "DFS", stateManager |-> TRUE, concolic |-> FALSE])
    /\ PDF!Init

MCSpec == MCInit /\ [][ClientMoves \/ TreeMoves]_allVars
-----------------------------------------------------------------------------
\* DiscretePDF: whatever is inserted, updated and removed, and although the
\* removal of a black leaf leaves the tree unbalanced, no operation follows a
\* null pointer, no red node has a red child, every node has the sum of the
\* weights below it, lookup finds exactly the items of the tree, and choose
\* picks each as often as its weight says.
WeightsExact ==
    part = "tree" =>
        /\ PDF!TypeOK /\ PDF!NoNullPointer /\ PDF!NoRedRed
        /\ PDF!SumsExact /\ PDF!FindsItems /\ PDF!ChoosesByWeight
=============================================================================
