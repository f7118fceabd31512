------------------------------- MODULE PTree -------------------------------
(***************************************************************************)
(* KLEE's process tree.  A tree is a record: "parent" maps every allocated *)
(* node to its parent, "active" is the set of active nodes.  The two       *)
(* children of a node are not told apart.                                  *)
(***************************************************************************)
EXTENDS Integers, FiniteSets

NoNode == 0

Nodes(t) == DOMAIN t.parent
Children(t, n) == {c \in Nodes(t) : t.parent[c] = n}
IsLeaf(t, n) == Children(t, n) = {}

NewTree(root) == [parent |-> [n \in {root} |-> NoNode], active |-> {root}]

\* The asserts of split.
CanSplit(t, n) ==
    /\ IsLeaf(t, n)
    /\ n \in t.active
    /\ t.parent[n] # NoNode => t.parent[n] \in t.active

split(t, n, left, right) ==
    [parent |-> [m \in Nodes(t) \cup {left, right} |->
                    IF m \in {left, right} THEN n ELSE t.parent[m]],
     active |-> t.active \cup {left, right}]

\* Mutant of deactivate: the loop stops at the parent.
deactivate_ParentOnly(t, n) ==
    LET alone == \A c \in Children(t, t.parent[n]) \ {n} : c \notin t.active
    IN [t EXCEPT !.active = @ \ ({n} \cup IF alone THEN {t.parent[n]} ELSE {})]

\* n becomes inactive, and so does every ancestor, from the bottom up, until
\* one has another child that is active.
deactivate(t, n) ==
    LET goes[m \in Nodes(t)] ==
            \/ m = n
            \/ \E c \in Children(t, m) :
                  goes[c] /\ \A d \in Children(t, m) \ {c} : d \notin t.active
    IN [t EXCEPT !.active = @ \ {m \in Nodes(t) : goes[m]}]

\* n becomes active, with all its ancestors.
activate(t, n) ==
    LET above[m \in Nodes(t)] == m = n \/ \E c \in Children(t, m) : above[c]
    IN [t EXCEPT !.active = @ \cup {m \in Nodes(t) : above[m]}]

\* The leaf n is deactivated and deleted, with every ancestor that loses its
\* last child.
remove(t, n) ==
    LET gone[m \in Nodes(t)] ==
            m = n \/ (Children(t, m) # {} /\ \A c \in Children(t, m) : gone[c])
        dead == {m \in Nodes(t) : gone[m]}
        u == deactivate(t, n)
    IN [parent |-> [m \in Nodes(t) \ dead |-> t.parent[m]], active |-> u.active \ dead]
=============================================================================
