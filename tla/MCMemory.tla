------------------------------ MODULE MCMemory ------------------------------
(***************************************************************************)
(* The memory of the paths, for TLC: KLEE's address spaces, and the tree   *)
(* with shared nodes that each keeps its objects in.  Each is a            *)
(* specification of its own; part says which takes the steps.  The tree    *)
(* has two sets of bounds: one map of up to seven keys, and two maps of up *)
(* to four that share nodes.                                               *)
(***************************************************************************)
EXTENDS AddressSpace

VARIABLES part, heap, handle

Tree == INSTANCE ImmutableTree WITH Keys <- 1 .. 7, Handles <- {"t1"}, MaxNode <- 24
Maps == INSTANCE ImmutableTree WITH Keys <- 1 .. 4, Handles <- {"t1", "t2"}, MaxNode <- 24

ASSUME TreesAssumption == Tree!TreeAssumption /\ Maps!TreeAssumption

treeVars == <<heap, handle>>
allVars == <<part, vars, treeVars>>

Zeros == {[b \in Byte |-> 0]}

SpaceMoves == part = "space" /\ Next /\ UNCHANGED <<part, treeVars>>
TreeMoves == part = "tree" /\ Tree!Next /\ UNCHANGED <<part, vars>>
MapsMove == part = "maps" /\ Maps!Next /\ UNCHANGED <<part, vars>>

\* The states are interchangeable; one of them is the first.
MCInit ==
    /\ part \in {"space", "tree", "maps"}
    /\ Init /\ live = {CHOOSE s \in State : TRUE}
    /\ IF part = "maps" THEN Maps!Init ELSE Tree!Init

MCSpec == MCInit /\ [][SpaceMoves \/ TreeMoves \/ MapsMove]_allVars

\* What a freed copy or a deleted state held makes no difference, and neither
\* does the address of a node.
Allocated ==
    <<live, [s \in live |-> cowKey[s]], [s \in live |-> objects[s]],
      [o \in Held |-> <<owner[o], store[o]>>]>>

Seen ==
    <<part, IF part = "space" THEN Allocated ELSE vars,
      CASE part = "tree" -> Tree!Shape [] part = "maps" -> Maps!Shape [] OTHER -> treeVars>>

-----------------------------------------------------------------------------
\* ImmutableTree: every map is a balanced search tree with correct heights;
\* insert, replace, remove, popMin and popMax compute what a finite map would
\* and leave the map they start from as it is; lookup_previous, lower_bound,
\* upper_bound and begin find the entries that their order promises.  A node
\* has as many references as maps and nodes that point to it, and none is
\* touched after its last reference is gone, so that the copies that balance
\* makes neither leak nor free what another map shares.
MapsExact ==
    /\ part = "tree" =>
        /\ Tree!TypeOK /\ Tree!ReferencesExact /\ Tree!Balanced
        /\ Tree!OperationsExact /\ Tree!LookupsExact
    /\ part = "maps" =>
        /\ Maps!TypeOK /\ Maps!ReferencesExact /\ Maps!Balanced
        /\ Maps!OperationsExact /\ Maps!LookupsExact
=============================================================================
