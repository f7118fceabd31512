---------------------------- MODULE DiscretePDF -----------------------------
(***************************************************************************)
(* The weighted red-black tree behind WeightedRandomSearcher: every node   *)
(* has an item, its weight and the sum of the weights below it, and choose *)
(* follows the sums.  A tree is a record of functions on the nodes.  A     *)
(* node is named by its item (n->key), Null is the null pointer, and a     *)
(* null pointer that is used makes crashed TRUE.                           *)
(***************************************************************************)
EXTENDS Naturals, FiniteSetsExt, Functions

CONSTANTS Items, Weights

PDFAssumption == Items \subseteq Nat \ {0} /\ Weights \subseteq Nat /\ IsFiniteSet(Items)

VARIABLES t,        \* the tree
          items     \* history: the weight of every item in the tree

vars == <<t, items>>

Null == 0

EmptyTree ==
    LET zero == [n \in Items |-> 0] IN
    [root |-> Null, left |-> zero, right |-> zero, parent |-> zero,
     weight |-> zero, sum |-> zero, red |-> {}, used |-> {}, crashed |-> FALSE]

Deref(x, n) == IF n # Null THEN x ELSE [x EXCEPT !.crashed = TRUE]

\* if (n) n->field = v
Put(f, n, v) == IF n = Null THEN f ELSE [f EXCEPT ![n] = v]

SumOf(x, n) == IF n = Null THEN 0 ELSE x.sum[n]

setSum(x, n) ==
    [x EXCEPT !.sum[n] = x.weight[n] + SumOf(x, x.left[n]) + SumOf(x, x.right[n])]

\* The pointer to p becomes one to n.
Relink(x, pp, p, n) ==
    CASE pp = Null -> [x EXCEPT !.root = n]
      [] pp # Null /\ x.left[pp] = p -> [x EXCEPT !.left[pp] = n]
      [] OTHER -> [x EXCEPT !.right[pp] = n]

markBlack(x, n) == [x EXCEPT !.red = @ \ {n}]
markRed(x, n) == [x EXCEPT !.red = @ \cup {n}]
isRed(x, n) == n \in x.red

\* n goes up and its parent p down.  The sum of n is taken before that of p.
rotate(x, n) ==
    IF n = Null \/ x.parent[n] = Null THEN Deref(x, Null) ELSE
    LET p == x.parent[n]
        pp == x.parent[p]
        fromLeft == n = x.left[p]
        inner == IF fromLeft THEN x.right[n] ELSE x.left[n]
        y == Relink(x, pp, p, n)
        z == [y EXCEPT !.parent = Put([@ EXCEPT ![n] = pp, ![p] = n], inner, p),
                       !.left = IF fromLeft THEN [@ EXCEPT ![p] = inner] ELSE [@ EXCEPT ![n] = p],
                       !.right = IF fromLeft THEN [@ EXCEPT ![n] = p] ELSE [@ EXCEPT ![p] = inner]]
    IN setSum(setSum(z, n), p)

split(x, n) ==
    LET y == [x EXCEPT !.red = @ \ {x.left[n], x.right[n]}]
        p == x.parent[n]
    IN IF p = Null THEN y
       ELSE IF ~ isRed(y, p) THEN markRed(y, n)
       ELSE LET pp == y.parent[p]
                z == markRed(markRed(y, n), pp)
                straight == (n = y.left[p]) = (p = y.left[pp])
            IN IF pp = Null THEN Deref(y, Null)
               ELSE IF straight THEN markBlack(rotate(z, p), p)
               ELSE markBlack(rotate(rotate(z, n), n), n)

\* Mutant of propogateSumsUp: the nodes above keep their sums.
propogateSumsUp_Once(x, n) == IF n = Null THEN x ELSE setSum(x, n)

RECURSIVE propogateSumsUp(_, _)
propogateSumsUp(x, n) ==
    IF n = Null THEN x ELSE propogateSumsUp(setSum(x, n), x.parent[n])

RECURSIVE lookup(_, _, _)
lookup(x, n, item) ==
    IF n = Null \/ n = item THEN n
    ELSE lookup(x, IF item < n THEN x.left[n] ELSE x.right[n], item)

\* The loop of insert: full nodes are split on the way down.
RECURSIVE descend(_, _, _, _)
descend(x, p, n, item) ==
    IF n = Null THEN [tree |-> x, at |-> p] ELSE
    LET y == IF isRed(x, x.left[n]) /\ isRed(x, x.right[n]) THEN split(x, n) ELSE x
    IN descend(y, n, IF item < n THEN y.left[n] ELSE y.right[n], item)

insert(x, item, w) ==
    LET found == descend(x, Null, x.root, item)
        p == found.at
        y == [found.tree EXCEPT !.used = @ \cup {item}, !.parent[item] = p, !.weight[item] = w]
        z == IF p = Null THEN [y EXCEPT !.root = item]
             ELSE split(IF item < p THEN [y EXCEPT !.left[p] = item]
                        ELSE [y EXCEPT !.right[p] = item], item)
    IN propogateSumsUp(z, item)

Sibling(x, n) == LET p == x.parent[n] IN IF n = x.left[p] THEN x.right[p] ELSE x.left[p]

\* The sibling is black and has a red child: its far child is made the red
\* one, then the sibling replaces the parent.
lengthenByRotation(x, n, sib) ==
    LET p == x.parent[n]
        near == IF n = x.left[p] THEN x.left[sib] ELSE x.right[sib]
        far == IF n = x.left[p] THEN x.right[sib] ELSE x.left[sib]
        turns == ~ isRed(x, far)
        y == IF turns THEN markBlack(markRed(rotate(x, near), sib), near) ELSE x
        top == IF turns THEN near ELSE sib
        z == rotate(y, top)
        w == IF isRed(z, z.parent[n]) THEN markRed(z, top) ELSE z
    IN IF z.crashed \/ z.left[top] = Null \/ z.right[top] = Null THEN Deref(z, Null)
       ELSE [w EXCEPT !.red = @ \ {z.left[top], z.right[top]}]

RECURSIVE lengthen(_, _)
lengthen(x, n) ==
    IF isRed(x, n) THEN markBlack(x, n)
    ELSE IF x.parent[n] = Null THEN x
    ELSE LET s == Sibling(x, n)
             y == IF isRed(x, s) THEN rotate(markBlack(markRed(x, x.parent[n]), s), s) ELSE x
             sib == Sibling(y, n)
             p == y.parent[n]
         IN IF sib = Null THEN lengthen(y, p)
            ELSE IF isRed(y, y.left[sib]) \/ isRed(y, y.right[sib]) THEN lengthenByRotation(y, n, sib)
            ELSE IF isRed(y, p) THEN markBlack(markRed(y, sib), p)
            ELSE lengthen(markRed(y, sib), p)

RECURSIVE rightmost(_, _)
rightmost(x, n) == IF x.right[n] = Null THEN n ELSE rightmost(x, x.right[n])

\* A node is deleted.
Delete(x, n) ==
    [x EXCEPT !.used = @ \ {n}, !.red = @ \ {n}, !.left[n] = Null, !.right[n] = Null,
              !.parent[n] = Null, !.weight[n] = 0, !.sum[n] = 0]

\* n->key = m, where m is the item of no other node.
Rename(x, n, m) ==
    LET to(k) == IF k = n THEN m ELSE k
        from(k) == IF k = m THEN n ELSE k
        Pointers(f) == [k \in Items |-> IF k = n THEN Null ELSE to(f[from(k)])]
        Values(f) == [k \in Items |-> IF k = n THEN 0 ELSE f[from(k)]]
    IN IF n = m THEN x
       ELSE [x EXCEPT !.root = to(@), !.left = Pointers(@), !.right = Pointers(@),
                      !.parent = Pointers(@), !.weight = Values(@), !.sum = Values(@),
                      !.red = {to(k) : k \in @}, !.used = {to(k) : k \in @}]

\* An item with a left child is replaced by its predecessor, whose node goes.
\* A black leaf that goes is not made up for.
remove(x, item) ==
    LET n == IF x.left[item] = Null THEN item ELSE rightmost(x, x.left[item])
        child == IF x.left[n] # Null THEN x.left[n] ELSE x.right[n]
        moved == [x EXCEPT !.weight[item] = x.weight[n]]
        cut == Relink(moved, x.parent[n], n, child)
        y == [cut EXCEPT !.parent = Put(@, child, x.parent[n])]
        z == IF child # Null /\ ~ isRed(x, n) THEN lengthen(y, child) ELSE y
        sums == propogateSumsUp(z, x.parent[n])
    IN IF n = item THEN Delete(sums, n) ELSE Rename(Delete(sums, n), item, n)

update(x, item, w) ==
    LET n == lookup(x, x.root, item) IN
    propogateSumsUp([x EXCEPT !.weight[n] = w], n)

RECURSIVE chooseFrom(_, _, _)

\* choose on the part w of the total weight.
chooseFrom(x, n, w) ==
    LET below == SumOf(x, x.left[n]) IN
    IF x.left[n] # Null /\ w < below THEN chooseFrom(x, x.left[n], w)
    ELSE IF w - below < x.weight[n] \/ x.right[n] = Null THEN n
    ELSE chooseFrom(x, x.right[n], w - below - x.weight[n])

choose(x, w) == chooseFrom(x, x.root, w)

-----------------------------------------------------------------------------
Init == t = EmptyTree /\ items = [i \in {} |-> 0]

Insert ==
    \E i \in Items \ DOMAIN items, w \in Weights :
        /\ t' = insert(t, i, w)
        /\ items' = [j \in DOMAIN items \cup {i} |-> IF j = i THEN w ELSE items[j]]

Remove ==
    \E i \in DOMAIN items :
        /\ t' = remove(t, i)
        /\ items' = Restrict(items, DOMAIN items \ {i})

Update ==
    \E i \in DOMAIN items, w \in Weights :
        /\ t' = update(t, i, w)
        /\ items' = [items EXCEPT ![i] = w]

\* A program whose pointer was null is gone.
Next == ~ t.crashed /\ (Insert \/ Remove \/ Update)

Spec == Init /\ [][Next]_vars

-----------------------------------------------------------------------------
\* Pointers lead to nodes in use, and parents and children agree.
TypeOK ==
    /\ t.root \in t.used \cup {Null} /\ t.red \subseteq t.used
    /\ \A n \in t.used :
          /\ {t.left[n], t.right[n]} \subseteq t.used \cup {Null}
          /\ \A c \in {t.left[n], t.right[n]} \ {Null} : t.parent[c] = n
          /\ t.parent[n] = Null <=> n = t.root

\* No operation follows a null pointer, although the removal of a black leaf
\* leaves the tree unbalanced and lengthen and split rely on its colours.
NoNullPointer == ~ t.crashed

\* Every node has the sum of the weights below it, although rotate computes the
\* sum of the node that goes up from the stale sum of the other.
SumsExact ==
    \A n \in t.used :
        t.sum[n] = t.weight[n] + SumOf(t, t.left[n]) + SumOf(t, t.right[n])

\* lookup finds every item, with its weight, and nothing else.
FindsItems ==
    /\ t.used = DOMAIN items
    /\ \A i \in Items :
          LET n == lookup(t, t.root, i) IN
          IF i \in DOMAIN items THEN n # Null /\ t.weight[n] = items[i] ELSE n = Null

\* choose picks "a tree element according to its weight": of all the parts of
\* the total, each item gets as many as its weight.
ChoosesByWeight ==
    DOMAIN items # {} =>
        LET total == SumFunction(items) IN
        \A i \in DOMAIN items :
            Cardinality({w \in 0 .. total - 1 : choose(t, w) = i}) = items[i]

\* No red node has a red child: "sibling->left must be red" and the other
\* expectations of lengthen and split rest on it.
NoRedRed == \A n \in t.red : {t.left[n], t.right[n]} \cap t.red = {}
=============================================================================
