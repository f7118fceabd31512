--------------------------- MODULE ImmutableTree ----------------------------
(***************************************************************************)
(* The persistent balanced tree under KLEE's ImmutableMap: the objects of  *)
(* every path's AddressSpace and the regions of MemoryChecker are kept in  *)
(* one.  An operation returns a new root and shares what it did not touch  *)
(* with the trees that are still held, so a node lives as long as it is    *)
(* referenced.  The heap maps a pointer to a node, Terminator is the       *)
(* static node that stands for an empty tree, and an operation takes a     *)
(* heap and returns [n, h]: the node with one reference for the caller,    *)
(* and the heap after it.  A node is used after its deletion when bad is   *)
(* TRUE.                                                                   *)
(***************************************************************************)
EXTENDS Naturals, Sequences, FiniteSetsExt, SequencesExt

CONSTANTS Keys,         \* numbers: the comparison is <
          Handles,      \* the ImmutableTree objects
          MaxNode       \* the most nodes at any time

TreeAssumption == Keys \subseteq Nat /\ Handles # {} /\ MaxNode \in Nat

VARIABLES heap, handle

vars == <<heap, handle>>

Terminator == 0
Pointer == 0 .. MaxNode
NoKey == 0

\* The node of the data of an entry: Old is what the trees hold, New what an operation offers.
Old == "old"
NewData == "fresh"

NodeOf(l, r, k, d, ht, refs) ==
    [left |-> l, right |-> r, key |-> k, data |-> d, height |-> ht, references |-> refs]

Free == NodeOf(Terminator, Terminator, NoKey, Old, 0, 0)

\* The constructor of the terminator gives it three references.
EmptyHeap ==
    [node |-> [p \in Pointer |-> IF p = Terminator THEN [Free EXCEPT !.references = 3] ELSE Free],
     bad |-> FALSE]

Alive(h, n) == h.node[n].references > 0

incref(h, n) ==
    [h EXCEPT !.node[n].references = @ + 1, !.bad = @ \/ ~Alive(h, n)]

RECURSIVE decref(_, _)

\* delete this releases the two children.
decref(h, n) ==
    CASE ~Alive(h, n) -> [h EXCEPT !.bad = TRUE]
      [] h.node[n].references > 1 -> [h EXCEPT !.node[n].references = @ - 1]
      [] OTHER -> decref(decref([h EXCEPT !.node[n] = Free], h.node[n].left), h.node[n].right)

Height(h, n) == h.node[n].height

\* new Node(l, r, value) takes over the caller's references to l and r.
NewNode(h, l, r, v) ==
    LET n == Min({p \in Pointer \ {Terminator} : ~Alive(h, p)}) IN
    [n |-> n,
     h |-> [h EXCEPT !.node[n] = NodeOf(l, r, v.key, v.data, 1 + Max({Height(h, l), Height(h, r)}), 1),
                     !.bad = @ \/ ~Alive(h, l) \/ ~Alive(h, r)]]

ValueOf(h, n) == [key |-> h.node[n].key, data |-> h.node[n].data]

\* left is too high: it is replaced by copies of it, and released.
rotateRight(h, l, v, r) ==
    LET ll == h.node[l].left
        lr == h.node[l].right
    IN IF Height(h, ll) >= Height(h, lr)
       THEN LET a == NewNode(incref(h, lr), lr, r, v)
                b == NewNode(incref(a.h, ll), ll, a.n, ValueOf(h, l))
            IN [n |-> b.n, h |-> decref(b.h, l)]
       ELSE LET lrl == h.node[lr].left
                lrr == h.node[lr].right
                a == NewNode(incref(incref(h, ll), lrl), ll, lrl, ValueOf(h, l))
                b == NewNode(incref(a.h, lrr), lrr, r, v)
                c == NewNode(b.h, a.n, b.n, ValueOf(h, lr))
            IN [n |-> c.n, h |-> decref(c.h, l)]

\* Mutant of rotateLeft: the old right node is never released.
rotateLeft_NoDecref(h, l, v, r) ==
    LET rl == h.node[r].left
        rr == h.node[r].right
        a == NewNode(incref(h, rl), l, rl, v)
        b == NewNode(incref(a.h, rr), a.n, rr, ValueOf(h, r))
    IN [n |-> b.n, h |-> b.h]

rotateLeft(h, l, v, r) ==
    LET rl == h.node[r].left
        rr == h.node[r].right
    IN IF Height(h, rr) >= Height(h, rl)
       THEN LET a == NewNode(incref(h, rl), l, rl, v)
                b == NewNode(incref(a.h, rr), a.n, rr, ValueOf(h, r))
            IN [n |-> b.n, h |-> decref(b.h, r)]
       ELSE LET rll == h.node[rl].left
                rlr == h.node[rl].right
                a == NewNode(incref(h, rll), l, rll, v)
                b == NewNode(incref(incref(a.h, rlr), rr), rlr, rr, ValueOf(h, r))
                c == NewNode(b.h, a.n, b.n, ValueOf(h, rl))
            IN [n |-> c.n, h |-> decref(c.h, r)]

balance(h, l, v, r) ==
    CASE Height(h, l) > Height(h, r) + 2 -> rotateRight(h, l, v, r)
      [] Height(h, r) > Height(h, l) + 2 -> rotateLeft(h, l, v, r)
      [] OTHER -> NewNode(h, l, r, v)

\* balance of a node whose left or right child is the result of an operation.
BalanceLeft(done, n) ==
    balance(incref(done.h, done.h.node[n].right), done.n, ValueOf(done.h, n), done.h.node[n].right)

BalanceRight(done, n) ==
    balance(incref(done.h, done.h.node[n].left), done.h.node[n].left, ValueOf(done.h, n), done.n)

RECURSIVE popMin(_, _), popMax(_, _), insert(_, _, _), replace(_, _, _), remove(_, _, _)

\* The results of popMin and popMax also have the value that was taken out.
popMin(h, n) ==
    LET l == h.node[n].left IN
    IF l = Terminator
    THEN [n |-> h.node[n].right, h |-> incref(h, h.node[n].right), out |-> ValueOf(h, n)]
    ELSE LET done == popMin(h, l)
             up == BalanceLeft(done, n)
         IN [n |-> up.n, h |-> up.h, out |-> done.out]

popMax(h, n) ==
    LET r == h.node[n].right IN
    IF r = Terminator
    THEN [n |-> h.node[n].left, h |-> incref(h, h.node[n].left), out |-> ValueOf(h, n)]
    ELSE LET done == popMax(h, r)
             up == BalanceRight(done, n)
         IN [n |-> up.n, h |-> up.h, out |-> done.out]

Leaf(h, v) == NewNode(incref(incref(h, Terminator), Terminator), Terminator, Terminator, v)

insert(h, n, v) ==
    CASE n = Terminator -> Leaf(h, v)
      [] n # Terminator /\ v.key < h.node[n].key -> BalanceLeft(insert(h, h.node[n].left, v), n)
      [] n # Terminator /\ h.node[n].key < v.key -> BalanceRight(insert(h, h.node[n].right, v), n)
      [] OTHER -> [n |-> n, h |-> incref(h, n)]

replace(h, n, v) ==
    LET node == h.node[n] IN
    CASE n = Terminator -> Leaf(h, v)
      [] n # Terminator /\ v.key < node.key -> BalanceLeft(replace(h, node.left, v), n)
      [] n # Terminator /\ node.key < v.key -> BalanceRight(replace(h, node.right, v), n)
      [] OTHER -> NewNode(incref(incref(h, node.left), node.right), node.left, node.right, v)

\* The least entry of the right subtree takes the place of one with two children.
remove(h, n, k) ==
    LET node == h.node[n] IN
    CASE n = Terminator -> [n |-> n, h |-> incref(h, n)]
      [] n # Terminator /\ k < node.key -> BalanceLeft(remove(h, node.left, k), n)
      [] n # Terminator /\ node.key < k -> BalanceRight(remove(h, node.right, k), n)
      [] OTHER ->
           CASE node.left = Terminator -> [n |-> node.right, h |-> incref(h, node.right)]
             [] node.right = Terminator -> [n |-> node.left, h |-> incref(h, node.left)]
             [] OTHER -> LET pop == popMin(h, node.right)
                         IN balance(incref(pop.h, node.left), node.left, pop.out, pop.n)


RECURSIVE lookup(_, _, _), previousFrom(_, _, _, _), leftSpine(_, _, _), climb(_, _), path(_, _, _)

lookup(h, n, k) ==
    CASE n = Terminator -> Terminator
      [] n # Terminator /\ k < h.node[n].key -> lookup(h, h.node[n].left, k)
      [] n # Terminator /\ h.node[n].key < k -> lookup(h, h.node[n].right, k)
      [] OTHER -> n

previousFrom(h, n, k, result) ==
    CASE n = Terminator -> result
      [] n # Terminator /\ k < h.node[n].key -> previousFrom(h, h.node[n].left, k, result)
      [] n # Terminator /\ h.node[n].key < k -> previousFrom(h, h.node[n].right, k, n)
      [] OTHER -> n

\* The result is a node, Terminator for the null pointer.
lookup_previous(h, n, k) == previousFrom(h, n, k, Terminator)

\* An iterator is the stack of the nodes on the way to its entry; end has an empty one.
End == <<>>

leftSpine(h, n, stack) ==
    IF n = Terminator THEN stack ELSE leftSpine(h, h.node[n].left, Append(stack, n))

begin(h, n) == leftSpine(h, n, End)

\* Up to the first node that the iterator was on the left of.
climb(h, stack) ==
    LET up == Front(stack) IN
    CASE up = End -> End
      [] up # End /\ Last(stack) = h.node[Last(up)].left -> up
      [] OTHER -> climb(h, up)

\* operator++
increment(h, stack) ==
    LET right == h.node[Last(stack)].right IN
    IF right = Terminator
    THEN climb(h, stack)
    ELSE leftSpine(h, h.node[right].left, Append(stack, right))

\* The nodes that lower_bound pushes.
path(h, n, k) ==
    CASE n = Terminator -> End
      [] n # Terminator /\ k < h.node[n].key -> <<n>> \o path(h, h.node[n].left, k)
      [] n # Terminator /\ h.node[n].key < k -> <<n>> \o path(h, h.node[n].right, k)
      [] OTHER -> <<n>>

lower_bound(h, n, k) ==
    LET stack == path(h, n, k) IN
    IF stack # End /\ h.node[Last(stack)].key < k THEN increment(h, stack) ELSE stack

upper_bound(h, n, k) ==
    LET stack == lower_bound(h, n, k) IN
    IF stack # End /\ ~(k < h.node[Last(stack)].key) THEN increment(h, stack) ELSE stack

-----------------------------------------------------------------------------

Init ==
    /\ heap = [EmptyHeap EXCEPT !.node[Terminator].references = 3 + Cardinality(Handles)]
    /\ handle = [t \in Handles |-> Terminator]

\* operator=: the new node is referenced before the old one is released.
assigned(h, old, new) == decref(incref(h, new), old)

\* t = result, where the result is in a temporary object that is destroyed after it.
Assign(t, result) ==
    /\ heap' = decref(assigned(result.h, handle[t], result.n), result.n)
    /\ handle' = [handle EXCEPT ![t] = result.n]

OldEntry(k) == [key |-> k, data |-> Old]

CopyMap(t, u) ==
    /\ heap' = assigned(heap, handle[t], handle[u])
    /\ handle' = [handle EXCEPT ![t] = handle[u]]

InsertKey(t, u, k) == Assign(t, insert(heap, handle[u], OldEntry(k)))
ReplaceKey(t, u, k) == Assign(t, replace(heap, handle[u], OldEntry(k)))
RemoveKey(t, u, k) == Assign(t, remove(heap, handle[u], k))
PopMin(t, u) == handle[u] # Terminator /\ Assign(t, popMin(heap, handle[u]))
PopMax(t, u) == handle[u] # Terminator /\ Assign(t, popMax(heap, handle[u]))

Next ==
    \E t, u \in Handles :
        \/ CopyMap(t, u)
        \/ PopMin(t, u)
        \/ PopMax(t, u)
        \/ \E k \in Keys : InsertKey(t, u, k) \/ ReplaceKey(t, u, k) \/ RemoveKey(t, u, k)

Spec == Init /\ [][Next]_vars

-----------------------------------------------------------------------------

RECURSIVE Below(_, _), Unfold(_, _)

\* The nodes of the tree whose root is n.
Below(h, n) ==
    IF n = Terminator THEN {} ELSE {n} \cup Below(h, h.node[n].left) \cup Below(h, h.node[n].right)

KeysOf(h, n) == {h.node[m].key : m \in Below(h, n)}
Entries(h, n) == {ValueOf(h, m) : m \in Below(h, n)}
Trees == {handle[t] : t \in Handles}
Held == UNION {Below(heap, n) : n \in Trees}

\* What a state is, up to the addresses of the nodes: the trees, and which nodes two of them share.
Unfold(h, n) ==
    IF n = Terminator THEN <<>>
    ELSE <<Unfold(h, h.node[n].left), h.node[n].key, h.node[n].references, Unfold(h, h.node[n].right)>>

Shape ==
    <<heap.bad, heap.node[Terminator].references, Cardinality({n \in Pointer : Alive(heap, n)}),
      [t \in Handles |-> Unfold(heap, handle[t])],
      [t, u \in Handles |->
          {heap.node[n].key : n \in Below(heap, handle[t]) \cap Below(heap, handle[u])}]>>

(***************************************************************************)
(* The pointers are nodes of the heap, and no operation touches a node     *)
(* after its last reference is gone (incref, decref, Node::Node).          *)
(***************************************************************************)
TypeOK ==
    /\ handle \in [Handles -> Pointer]
    /\ \A n \in Pointer : {heap.node[n].left, heap.node[n].right} \subseteq Pointer
    /\ ~heap.bad

(***************************************************************************)
(* A node has as many references as there are trees and nodes that point   *)
(* to it, and nothing that no tree holds is left behind: the copies that   *)
(* balance makes on the way neither leak nor free what another path's map  *)
(* still shares.  The terminator keeps the three it starts with.           *)
(***************************************************************************)
ReferencesExact ==
    LET Pointing(n) ==
            Cardinality({t \in Handles : handle[t] = n})
          + Cardinality({m \in Held : heap.node[m].left = n})
          + Cardinality({m \in Held : heap.node[m].right = n})
    IN /\ \A n \in Held : heap.node[n].references = Pointing(n)
       /\ heap.node[Terminator].references = 3 + Pointing(Terminator)
       /\ {n \in Pointer \ {Terminator} : Alive(heap, n)} = Held

(***************************************************************************)
(* Every tree is a search tree with correct heights, whose subtrees differ *)
(* in height by at most the two that balance allows: a lookup stays        *)
(* logarithmic, and the FixedStack of an iterator, which has room for      *)
(* height nodes, never overflows.                                          *)
(***************************************************************************)
Balanced ==
    \A n \in Held :
        LET l == heap.node[n].left
            r == heap.node[n].right
        IN /\ \A k \in KeysOf(heap, l) : k < heap.node[n].key
           /\ \A k \in KeysOf(heap, r) : heap.node[n].key < k
           /\ heap.node[n].height = 1 + Max({Height(heap, l), Height(heap, r)})
           /\ Height(heap, l) <= Height(heap, r) + 2
           /\ Height(heap, r) <= Height(heap, l) + 2

(***************************************************************************)
(* On every reachable tree the operations compute what a finite map would: *)
(* insert keeps an entry that is there, replace overwrites it, remove      *)
(* takes out one key, popMin and popMax the least and the greatest; and    *)
(* the tree they start from still has its entries (persistence).           *)
(***************************************************************************)
OperationsExact ==
    \A n \in Trees :
        LET before == Entries(heap, n)
            keys == KeysOf(heap, n)
            Gives(result, entries) ==
                Entries(result.h, result.n) = entries /\ Entries(result.h, n) = before
        IN /\ \A k \in Keys :
                LET new == [key |-> k, data |-> NewData]
                    others == {e \in before : e.key # k}
                IN /\ Gives(insert(heap, n, new), IF k \in keys THEN before ELSE before \cup {new})
                   /\ Gives(replace(heap, n, new), others \cup {new})
                   /\ Gives(remove(heap, n, k), others)
           /\ keys # {} =>
                /\ Gives(popMin(heap, n), {e \in before : e.key # Min(keys)})
                /\ popMin(heap, n).out.key = Min(keys)
                /\ Gives(popMax(heap, n), {e \in before : e.key # Max(keys)})
                /\ popMax(heap, n).out.key = Max(keys)

(***************************************************************************)
(* lookup_previous is "the last value less than or equal to key", and an   *)
(* iterator from lower_bound or upper_bound is at the first entry not      *)
(* below, or above, the key, on a path no longer than the FixedStack of    *)
(* the iterator has room for.                                              *)
(***************************************************************************)
LookupsExact ==
    \A n \in Trees, k \in Keys :
        LET keys == KeysOf(heap, n)
            KeyAt(stack) == IF stack = End THEN NoKey ELSE heap.node[Last(stack)].key
            Least(S) == IF S = {} THEN NoKey ELSE Min(S)
        IN /\ lookup(heap, n, k) # Terminator <=> k \in keys
           /\ heap.node[lookup_previous(heap, n, k)].key
                 = LET upto == {j \in keys : j <= k} IN IF upto = {} THEN NoKey ELSE Max(upto)
           /\ KeyAt(begin(heap, n)) = Least(keys)
           /\ KeyAt(lower_bound(heap, n, k)) = Least({j \in keys : j >= k})
           /\ KeyAt(upper_bound(heap, n, k)) = Least({j \in keys : j > k})
           /\ Len(upper_bound(heap, n, k)) <= Height(heap, n)

=============================================================================
