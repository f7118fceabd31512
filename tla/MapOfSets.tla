------------------------------ MODULE MapOfSets ------------------------------
(***************************************************************************)
(* MapOfSets.h: the tree in which the counterexample cache finds a stored  *)
(* superset or subset of a key.  A path from the root spells a set in      *)
(* increasing order, so a node is named by the set on its path.  A value   *)
(* is reduced to what the predicate of a search says of it.                *)
(***************************************************************************)
EXTENDS Integers, FiniteSets, FiniteSetsExt

CONSTANTS
  Keys,     \* the elements, ordered
  MaxSets,  \* bound on the number of stored sets
  NotFound  \* the null pointer of a search

MapAssumption == Keys \subseteq Nat /\ IsFiniteSet(Keys) /\ MaxSets \in Nat

VARIABLE
  values    \* the value of each node that is the end of a set

(* std::set iterators: what is left from an element on. *)
From(set, x) == {y \in set : y >= x}
After(set, x) == {y \in set : y > x}

(* The keys of n->children, in the nodes that insert made. *)
Children(n) ==
  {x \in Keys :
     /\ \A y \in n : y < x
     /\ \E set \in DOMAIN values :
          n \cup {x} = {y \in set : y <= x}}

Accepts(n) == n \in DOMAIN values /\ values[n]

RECURSIVE findSubset(_, _), scan(_, _, _)

(* Mutant: the search gives up after the first shared element. *)
scan_FirstOnly(n, left, kids) ==
  LET here == From(left, Min(kids))
  IN IF here = {} \/ Min(here) # Min(kids) THEN NotFound
     ELSE findSubset(n \cup {Min(here)}, After(here, Min(here)))

(* The loop of findSubset: left are the elements from it on, kids the      *)
(* children from kbegin on, and neither is empty.                          *)
scan(n, left, kids) ==
  LET here == From(left, Min(kids))
      same == Min(here) = Min(kids)
      found == IF same THEN findSubset(n \cup {Min(here)}, After(here, Min(here)))
               ELSE NotFound
      rest == IF same THEN After(here, Min(here)) ELSE here
      more == From(kids, Min(rest))
  IN IF here = {} THEN NotFound
     ELSE IF same /\ (found # NotFound \/ rest = {}) THEN found
     ELSE IF more = {} THEN NotFound
     ELSE scan(n, rest, more)

findSubset(n, set) ==
  LET kids == From(Children(n), Min(set))
  IN IF Accepts(n) THEN n
     ELSE IF set = {} \/ kids = {} THEN NotFound
     ELSE scan(n, set, kids)

RECURSIVE findSuperset(_, _)

(* Every child is tried with the whole key first, then the child that is  *)
(* the next element of the key.                                            *)
findSuperset(n, set) ==
  LET good == {x \in Children(n) : findSuperset(n \cup {x}, set) # NotFound}
  IN IF set = {} /\ Accepts(n) THEN n
     ELSE IF good # {} THEN findSuperset(n \cup {Min(good)}, set)
     ELSE IF set # {} /\ Min(set) \in Children(n)
     THEN findSuperset(n \cup {Min(set)}, After(set, Min(set)))
     ELSE NotFound

Init == values = <<>>

(* CexCachingSolver inserts what it did not find. *)
insert ==
  \E set \in SUBSET Keys \ DOMAIN values, accepted \in BOOLEAN :
    /\ Cardinality(DOMAIN values) < MaxSets
    /\ values' = [n \in DOMAIN values \cup {set} |->
                    IF n = set THEN accepted ELSE values[n]]

Spec == Init /\ [][insert]_values

---------------------------------------------------------------------------
(* A search for a subset finds an accepted stored subset whenever there is *)
(* one, and never anything else: the loop that moves along the key and the *)
(* children together skips no match.                                       *)
SubsetsFound ==
  \A set \in SUBSET Keys :
    LET matches == {n \in DOMAIN values : n \subseteq set /\ values[n]}
    IN IF matches = {} THEN findSubset({}, set) = NotFound
       ELSE findSubset({}, set) \in matches

(* A search for a superset likewise. *)
SupersetsFound ==
  \A set \in SUBSET Keys :
    LET matches == {n \in DOMAIN values : set \subseteq n /\ values[n]}
    IN IF matches = {} THEN findSuperset({}, set) = NotFound
       ELSE findSuperset({}, set) \in matches
=============================================================================
