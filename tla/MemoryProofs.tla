---------------------------- MODULE MemoryProofs ----------------------------
(***************************************************************************)
(* The regions of MemoryChecker: what it shows on small address spaces,    *)
(* for every address space and every set of regions, permissions and       *)
(* types.                                                                  *)
(*                                                                         *)
(* The memories of the paths: what copy-on-write promises, for any number  *)
(* of states, objects and forks.  The inductive invariant is that the      *)
(* owner's key of an object is at most the key of every address space that *)
(* holds it, and less than the key of every one that shares it.            *)
(***************************************************************************)
EXTENDS AddressSpace, MemoryChecker, TLAPS

-----------------------------------------------------------------------------
(* MemoryChecker. *)

\* The inductive invariant.
CheckerInv == regions \subseteq Region /\ RegionsDisjoint

(***************************************************************************)
(* What lookup_previous returns in a map of regions: a region that it      *)
(* returns starts before the end of the key, and a region that overlaps    *)
(* the key is never passed over in favour of one that does not.            *)
(***************************************************************************)
LEMMA LookupResult ==
    ASSUME NEW m, NEW k, NEW r \in lookup_previous(m, k)
    PROVE  /\ r # NoRegion => r \in m /\ ~Before(k, r)
           /\ \A q \in m : ~Before(k, q) /\ ~Before(q, k) => r \in m /\ ~Before(k, r) /\ ~Before(r, k)
BY DEF lookup_previous

(***************************************************************************)
(* A key that overlaps exactly one region is answered with that region.    *)
(***************************************************************************)
LEMMA LookupExact ==
    ASSUME NEW m, NEW k, NEW r \in m, ~Before(k, r), ~Before(r, k),
           \A q \in m : ~Before(k, q) /\ ~Before(q, k) => q = r
    PROVE  lookup_previous(m, k) = {r}
BY DEF lookup_previous

(***************************************************************************)
(* A sum that is not below its first term did not wrap.                    *)
(***************************************************************************)
LEMMA SumDoesNotWrap ==
    ASSUME NEW r, r.start \in 0 .. Word - 1, r.size \in 0 .. Word - 1, ~(End(r) < r.start)
    PROVE  /\ r.start \in Nat /\ r.size \in Nat
           /\ End(r) = r.start + r.size
           /\ r.start + r.size < Word
<1>1. CASE r.start + r.size < Word
  BY <1>1, CheckerAssumption DEF End
<1>2. CASE ~(r.start + r.size < Word)
  <2>1. End(r) = r.start + r.size - Word
    BY <1>2 DEF End
  <2>. QED  BY <1>2, <2>1, CheckerAssumption
<1>. QED  BY <1>1, <1>2

(***************************************************************************)
(* A region of a well-formed map ends where its bytes end.                 *)
(***************************************************************************)
LEMMA RegionShape ==
    ASSUME CheckerInv, NEW r \in regions
    PROVE  /\ r.start \in Nat /\ r.size \in Nat /\ r.size > 0
           /\ End(r) = r.start + r.size
           /\ End(r) < Word
           /\ Bytes(r) = r.start .. End(r) - 1
<1>1. r.start \in 0 .. Word - 1 /\ r.size \in 0 .. Word - 1
  <2>1. r.start \in Starts /\ r.size \in Sizes
    BY DEF CheckerInv, Region
  <2>. QED  BY <2>1, CheckerAssumption, ZenonT(30)
<1>2. r.size > 0 /\ r.start + r.size < Word
  BY DEF CheckerInv, RegionsDisjoint
<1>3. End(r) = r.start + r.size
  BY <1>2 DEF End
<1>. QED  BY <1>1, <1>2, <1>3, CheckerAssumption DEF Bytes

(***************************************************************************)
(* An access is a few bytes, fewer than the address space.                 *)
(***************************************************************************)
LEMMA AccessShape ==
    ASSUME NEW a \in Accesses
    PROVE  /\ a.start \in 0 .. Word - 1 /\ a.size \in 0 .. Word - 1
           /\ a.start \in Nat /\ a.size \in Nat /\ a.size > 0 /\ Word \in Nat
<1>1. a.start \in Starts /\ (a.size = 1 \/ a.size = 2 \/ a.size = 4)
  BY DEF Accesses
<1>2. a.start \in 0 .. Word - 1 /\ Word \in Nat /\ Word > 4
  BY <1>1, CheckerAssumption, ZenonT(30)
<1>. QED  BY <1>1, <1>2

(***************************************************************************)
(* grantMemory keeps the regions apart.                                    *)
(***************************************************************************)
LEMMA GrantDisjoint ==
    ASSUME CheckerInv, NEW g \in Region, NEW m \in grantMemory(regions, g)
    PROVE  /\ m \subseteq Region
           /\ \A r \in m : r.size > 0 /\ r.start + r.size < Word
           /\ \A r, q \in m : r # q => r.start + r.size <= q.start \/ q.start + q.size <= r.start
<1>1. CASE m = regions
  BY <1>1 DEF CheckerInv, RegionsDisjoint
<1>2. CASE m # regions
  <2>1. PICK f \in lookup_previous(regions, g) :
            /\ ~(g.size = 0 \/ End(g) < g.start)
            /\ ~(f # NoRegion /\ End(f) > g.start)
            /\ m = regions \cup {g}
    BY <1>2 DEF grantMemory
  <2>2. /\ g.start \in Nat /\ g.size \in Nat /\ g.size > 0
        /\ End(g) = g.start + g.size /\ g.start + g.size < Word
    <3>1. g.start \in Starts /\ g.size \in Sizes
      BY DEF Region
    <3>2. g.start \in 0 .. Word - 1 /\ g.size \in 0 .. Word - 1
      BY <3>1, CheckerAssumption, ZenonT(30)
    <3>. QED  BY <2>1, <3>2, SumDoesNotWrap
  <2>3. ASSUME NEW q \in regions
        PROVE  g.start + g.size <= q.start \/ q.start + q.size <= g.start
    <3>1. CASE ~Before(g, q) /\ ~Before(q, g)
      <4>1. f \in regions /\ ~Before(f, g)
        BY <3>1, LookupResult
      <4>2. End(f) > g.start /\ f # NoRegion
        BY <4>1, <2>2, RegionShape, CheckerAssumption, SMTT(40) DEF Before, CheckerInv, Region
      <4>. QED  BY <4>2, <2>1
    <3>2. CASE Before(g, q) \/ Before(q, g)
      BY <3>2, <2>2, RegionShape DEF Before
    <3>. QED  BY <3>1, <3>2
  <2>. QED  BY <2>1, <2>2, <2>3 DEF CheckerInv, RegionsDisjoint
<1>. QED  BY <1>1, <1>2

(***************************************************************************)
(* A smaller map of regions is well formed.                                *)
(***************************************************************************)
LEMMA SmallerDisjoint ==
    ASSUME CheckerInv, regions' \subseteq regions
    PROVE  CheckerInv'
BY DEF CheckerInv, RegionsDisjoint

(***************************************************************************)
(* revokeMemory only takes regions out of the map, and only the one that   *)
(* starts at the address of the request.                                   *)
(***************************************************************************)
LEMMA RevokeShrinks ==
    ASSUME NEW m, NEW q, NEW done \in revokeMemory(m, q)
    PROVE  /\ done.map \subseteq m
           /\ m \ done.map \subseteq {r \in m : r.start = q.start}
BY LookupResult DEF revokeMemory

(***************************************************************************)
(* Every reachable map is well formed: grantMemory, revokeMemory in its    *)
(* three forms, and the steps that leave the map alone.                    *)
(***************************************************************************)
THEOREM CheckerInvariance == CheckerSpec => []CheckerInv
<1>1. CheckerInit => CheckerInv
  BY DEF CheckerInit, CheckerInv, RegionsDisjoint
<1>2. CheckerInv /\ [CheckerNext]_checkerVars => CheckerInv'
  <2>. SUFFICES ASSUME CheckerInv, [CheckerNext]_checkerVars PROVE CheckerInv'
    OBVIOUS
  <2>1. ASSUME NEW g \in Region, GrantMemory(g) PROVE CheckerInv'
    <3>1. regions' \in grantMemory(regions, g)
      BY <2>1 DEF GrantMemory
    <3>. QED  BY <3>1, GrantDisjoint DEF CheckerInv, RegionsDisjoint
  <2>2. ASSUME NEW q \in Requests, RevokeMemory(q) PROVE CheckerInv'
    <3>1. PICK done \in revokeMemory(regions, q) : regions' = done.map
      BY <2>2 DEF RevokeMemory
    <3>. QED  BY <3>1, RevokeShrinks, SmallerDisjoint
  <2>3. ASSUME NEW pattern \in Patterns, RevokeByPattern(pattern) PROVE CheckerInv'
    BY <2>3, SmallerDisjoint DEF RevokeByPattern, revokeByPattern
  <2>4. ASSUME NEW pattern \in Patterns, NEW pointer \in Starts, RevokeByPointer(pointer, pattern)
        PROVE  CheckerInv'
    <3>1. PICK r \in findMemoryRegion(regions, pointer) :
            \/ regions' = regions
            \/ \E done \in revokeMemory(regions, [start |-> r.start, size |-> r.size,
                                                  perms |-> AnyPerms, pattern |-> pattern]) :
                  regions' = done.map
      BY <2>4 DEF RevokeByPointer
    <3>. QED  BY <3>1, RevokeShrinks, SmallerDisjoint
  <2>5. ASSUME regions' = regions PROVE CheckerInv'
    BY <2>5, SmallerDisjoint
  <2>. QED
    BY <2>1, <2>2, <2>3, <2>4, <2>5
    DEF CheckerNext, checkerVars, OnDataMemoryAccess, GrantResource, RevokeResource, CheckMemoryLeaks, CheckResourceLeaks
<1>. QED  BY <1>1, <1>2, PTL DEF CheckerSpec

(***************************************************************************)
(* The regions never overlap, whatever the shape of the tree.              *)
(***************************************************************************)
THEOREM NeverOverlap == CheckerSpec => []RegionsDisjoint
<1>1. CheckerInv => RegionsDisjoint
  BY DEF CheckerInv
<1>. QED  BY <1>1, CheckerInvariance, PTL

(***************************************************************************)
(* checkMemoryAccess lets through every access within a granted region.    *)
(***************************************************************************)
THEOREM AlarmsAreTrue == CheckerSpec => []NoFalseAlarm
<1>1. CheckerInv => NoFalseAlarm
  <2>. SUFFICES ASSUME CheckerInv, NEW a \in Accesses, NEW r \in regions,
                       Bytes(a) \subseteq Bytes(r), a.perms \subseteq r.perms
                PROVE  checkMemoryAccess(regions, a) = {TRUE}
    BY ZenonT(30) DEF NoFalseAlarm
  <2>1. /\ a.start \in 0 .. Word - 1 /\ a.size \in 0 .. Word - 1
        /\ a.start \in Nat /\ a.size \in Nat /\ a.size > 0 /\ Word \in Nat
    BY AccessShape
  <2>2. a.start \in Bytes(a) /\ a.start + a.size - 1 \in Bytes(a)
    BY <2>1 DEF Bytes
  <2>3. r.start <= a.start /\ a.start + a.size <= End(r) /\ End(r) < Word /\ r.start \in Nat /\ End(r) \in Nat
    <3>1. /\ r.start \in Nat /\ r.size \in Nat /\ End(r) = r.start + r.size /\ End(r) < Word
          /\ Bytes(r) = r.start .. End(r) - 1
      BY RegionShape
    <3>2. a.start \in r.start .. End(r) - 1 /\ a.start + a.size - 1 \in r.start .. End(r) - 1
      BY <2>2, <3>1
    <3>3. r.start <= a.start /\ a.start + a.size - 1 <= End(r) - 1 /\ End(r) \in Nat
      BY <2>1, <3>1, <3>2, SMTT(40)
    <3>4. a.start + a.size <= End(r)
      BY <2>1, <3>3
    <3>. QED  BY <3>1, <3>3, <3>4
  <2>4. End(a) = a.start + a.size
    BY <2>1, <2>3 DEF End
  <2>5. ~Before(a, r) /\ ~Before(r, a)
    BY <2>1, <2>3, <2>4 DEF Before
  <2>6. ASSUME NEW q \in regions, ~Before(a, q), ~Before(q, a) PROVE q = r
    <3>1. q.start < End(a) /\ a.start < End(q)
      BY <2>6, <2>1, <2>4, RegionShape DEF Before
    <3>2. q.start < End(r) /\ r.start < End(q)
      BY <3>1, <2>1, <2>3, <2>4, RegionShape, SMTT(40)
    <3>. QED  BY <3>2, RegionShape DEF CheckerInv, RegionsDisjoint
  <2>7. lookup_previous(regions, a) = {r}
    BY <2>5, <2>6, LookupExact
  <2>8. r # NoRegion
    BY CheckerAssumption DEF CheckerInv, Region
  <2>9. ~(End(a) < a.start) /\ End(r) >= End(a)
    BY <2>1, <2>3, <2>4
  <2>10. checkMemoryAccess(regions, a) = {r # NoRegion /\ End(r) >= End(a) /\ a.perms \subseteq r.perms}
    BY <2>7, <2>9, Zenon DEF checkMemoryAccess
  <2>11. (r # NoRegion /\ End(r) >= End(a) /\ a.perms \subseteq r.perms) = TRUE
    BY <2>8, <2>9
  <2>. QED  BY <2>10, <2>11, Zenon
<1>. QED  BY <1>1, CheckerInvariance, PTL

(***************************************************************************)
(* An access that is let through ends in a region with the permission.     *)
(***************************************************************************)
THEOREM AcceptedEndsInRegion == CheckerSpec => []EndsInRegion
<1>1. CheckerInv => EndsInRegion
  <2>. SUFFICES ASSUME CheckerInv, NEW a \in Accesses, TRUE \in checkMemoryAccess(regions, a)
                PROVE  \E r \in regions : a.start + a.size - 1 \in Bytes(r) /\ a.perms \subseteq r.perms
    BY ZenonT(30) DEF EndsInRegion
  <2>1. /\ a.start \in 0 .. Word - 1 /\ a.size \in 0 .. Word - 1
        /\ a.start \in Nat /\ a.size \in Nat /\ a.size > 0 /\ Word \in Nat
    BY AccessShape
  <2>2. PICK r \in lookup_previous(regions, a) :
            ~(End(a) < a.start) /\ r # NoRegion /\ End(r) >= End(a) /\ a.perms \subseteq r.perms
    BY ZenonT(30) DEF checkMemoryAccess
  <2>3. End(a) = a.start + a.size
    BY <2>1, <2>2, SumDoesNotWrap
  <2>4. r \in regions /\ ~Before(a, r)
    BY <2>2, LookupResult
  <2>. QED  BY <2>1, <2>2, <2>3, <2>4, RegionShape, SMTT(40) DEF Before
<1>. QED  BY <1>1, CheckerInvariance, PTL

(***************************************************************************)
(* revokeMemory removes what it was asked to remove and nothing else.      *)
(***************************************************************************)
THEOREM RevokeIsExact == CheckerSpec => []RevokesWhatWasAsked
<1>1. CheckerInv => RevokesWhatWasAsked
  <2>. SUFFICES ASSUME CheckerInv, NEW q \in Requests, NEW done \in revokeMemory(regions, q)
                PROVE  /\ regions \ done.map \subseteq {r \in regions : r.start = q.start}
                       /\ \A r \in regions : r.start = q.start /\ r.size = q.size => r \notin done.map
    BY DEF RevokesWhatWasAsked
  <2>1. ASSUME NEW r \in regions, r.start = q.start, r.size = q.size PROVE r \notin done.map
    <3>1. End(q) = End(r)
      BY <2>1 DEF End
    <3>2. ~Before(q, r) /\ ~Before(r, q)
      BY <2>1, <3>1, RegionShape DEF Before
    <3>3. ASSUME NEW p \in regions, ~Before(q, p), ~Before(p, q) PROVE p = r
      <4>1. p.start < End(r) /\ r.start < End(p)
        BY <2>1, <3>1, <3>3, RegionShape DEF Before
      <4>. QED  BY <4>1, RegionShape DEF CheckerInv, RegionsDisjoint
    <3>4. lookup_previous(regions, q) = {r}
      BY <3>2, <3>3, LookupExact
    <3>5. ~(End(q) < q.start) /\ ~(End(r) <= q.start) /\ r # NoRegion
      BY <2>1, <3>1, RegionShape, CheckerAssumption DEF CheckerInv, Region
    <3>. QED  BY <2>1, <3>4, <3>5 DEF revokeMemory
  <2>. QED  BY <2>1, RevokeShrinks
<1>. QED  BY <1>1, CheckerInvariance, PTL

-----------------------------------------------------------------------------
(* AddressSpace. *)

IInv == TypeOK /\ OwnersBounded /\ SharedNotOwned /\ OneObjectPerCopy

USE SpaceAssumption

\* The types hold initially.
LEMMA TypeInit == Init => TypeOK
BY DEF Init, TypeOK

\* Every operation keeps the types.
LEMMA TypeStep == TypeOK /\ [Next]_vars => TypeOK'
<1> SUFFICES ASSUME TypeOK, [Next]_vars PROVE TypeOK'
  OBVIOUS
<1>1. ASSUME NEW s \in State, NEW mo \in Object, NEW n \in Copy, NEW c \in Fresh,
             bindObject(s, mo, n, c)
      PROVE  TypeOK'
  BY <1>1 DEF bindObject, TypeOK
<1>2. ASSUME NEW s \in State, NEW mo \in Object, unbindObject(s, mo)
      PROVE  TypeOK'
  BY <1>2 DEF unbindObject, TypeOK
<1>3. ASSUME NEW s \in State, NEW mo \in Object, NEW n \in Copy, NEW b \in Byte,
             NEW v \in Value, write(s, mo, n, b, v)
      PROVE  TypeOK'
  <2>1. objects[s][mo] \in Copy
    BY <1>3 DEF write, TypeOK
  <2>2. [store[objects[s][mo]] EXCEPT ![b] = v] \in [Byte -> Value]
    BY <2>1 DEF TypeOK
  <2> QED
    BY <1>3, <2>2 DEF write, TypeOK
<1>4. ASSUME NEW s \in State, NEW t \in State, clone(s, t)
      PROVE  TypeOK'
  BY <1>4 DEF clone, TypeOK
<1>5. ASSUME NEW s \in State, delete(s)
      PROVE  TypeOK'
  BY <1>5 DEF delete, TypeOK
<1>6. CASE UNCHANGED vars
  BY <1>6 DEF vars, TypeOK
<1> QED
  BY <1>1, <1>2, <1>3, <1>4, <1>5, <1>6 DEF Next

\* A copy that is not held is in no address space.
LEMMA NotHeld ==
    ASSUME NEW n \in Copy \ Held, NEW s \in live, NEW mo \in Object
    PROVE  objects[s][mo] # n
BY DEF Held

\* Nobody else holds the copy that getWriteable returns.
LEMMA WriteableAlone ==
    ASSUME IInv, NEW s \in live, NEW mo \in Object, NEW n \in Copy,
           objects[s][mo] # None, getWriteable(s, mo, n),
           NEW t \in live, NEW mp \in Object, objects[t][mp] = n
    PROVE  t = s /\ mp = mo
<1>1. CASE cowKey[s] = owner[objects[s][mo]]
  <2>1. objects[s][mo] = objects[t][mp]
    BY <1>1 DEF getWriteable
  <2>2. s \in State /\ cowKey[s] \in Nat
    BY DEF IInv, TypeOK
  <2>3. t = s
    <3>1. ~ (cowKey[s] < cowKey[s])
      BY <2>2
    <3> QED
      BY <1>1, <2>1, <3>1 DEF IInv, SharedNotOwned
  <2> QED
    BY <2>1, <2>3 DEF IInv, OneObjectPerCopy
<1>2. CASE cowKey[s] # owner[objects[s][mo]]
  BY <1>2, NotHeld DEF getWriteable
<1> QED
  BY <1>1, <1>2

\* The copy n of mo is bound in s, which owns it, and nobody else holds it.
Rebinds(s, mo, n) ==
    /\ s \in live /\ mo \in Object /\ n \in Copy
    /\ \A t \in live, mp \in Object : objects[t][mp] = n => t = s /\ mp = mo
    /\ objects' = [objects EXCEPT ![s][mo] = n]
    /\ owner' = [owner EXCEPT ![n] = cowKey[s]]
    /\ live' = live /\ cowKey' = cowKey

\* Binding a copy that nobody else holds, and owning it, keeps the invariant.
LEMMA Rebind ==
    ASSUME IInv, NEW s, NEW mo, NEW n, Rebinds(s, mo, n)
    PROVE  OwnersBounded' /\ SharedNotOwned' /\ OneObjectPerCopy'
<1> USE DEF IInv, Rebinds
<1>1. s \in State /\ live \subseteq State /\ \A t \in State : cowKey[t] \in Nat
  BY DEF TypeOK
<1>2. objects'[s][mo] = n /\ owner'[n] = cowKey[s]
  BY <1>1 DEF TypeOK
<1>3. ASSUME NEW t \in live, NEW mp \in Object, ~ (t = s /\ mp = mo)
      PROVE  /\ objects'[t][mp] = objects[t][mp]
             /\ objects'[t][mp] # n
             /\ objects[t][mp] # None => owner'[objects[t][mp]] = owner[objects[t][mp]]
  <2>1. t \in State /\ objects'[t][mp] = objects[t][mp]
    BY <1>1, <1>3 DEF TypeOK
  <2>2. objects[t][mp] # n
    BY <1>3
  <2>3. objects[t][mp] # None => objects[t][mp] \in Copy
    BY <2>1 DEF TypeOK
  <2> QED
    BY <2>1, <2>2, <2>3 DEF TypeOK
<1>4. OwnersBounded'
  BY <1>1, <1>2, <1>3 DEF OwnersBounded
<1>5. OneObjectPerCopy'
  BY <1>2, <1>3 DEF OneObjectPerCopy
<1>6. SharedNotOwned'
  <2> SUFFICES ASSUME NEW t \in live, NEW u \in live, NEW mp \in Object, NEW mq \in Object,
                      t # u, objects'[t][mp] # None, objects'[t][mp] = objects'[u][mq]
               PROVE  owner'[objects'[t][mp]] < cowKey[t]
    BY DEF SharedNotOwned
  <2>1. ~ (t = s /\ mp = mo) /\ ~ (u = s /\ mq = mo)
    BY <1>2, <1>3
  <2> QED
    BY <2>1, <1>3 DEF SharedNotOwned
<1> QED
  BY <1>4, <1>5, <1>6

\* The invariant holds initially: no address space holds anything.
LEMMA InvInit == Init => IInv
<1> SUFFICES ASSUME Init PROVE IInv
  OBVIOUS
<1>1. \A s \in State, mo \in Object : objects[s][mo] = None
  BY DEF Init
<1>2. live \subseteq State
  BY DEF Init
<1> QED
  BY <1>1, <1>2, TypeInit DEF IInv, OwnersBounded, SharedNotOwned, OneObjectPerCopy

\* A fork: what was owned by the forking state is owned by neither, because
\* both get a key that is larger than any key in their address space.
LEMMA CloneStep ==
    ASSUME IInv, NEW s \in State, NEW t \in State, clone(s, t)
    PROVE  OwnersBounded' /\ SharedNotOwned' /\ OneObjectPerCopy'
<1> USE DEF IInv
<1> DEFINE from(u) == IF u = t THEN s ELSE u
<1>1. /\ s \in live /\ t \notin live /\ live' = live \cup {t} /\ live \subseteq State
      /\ owner' = owner
  BY DEF clone, TypeOK
<1>2. \A u \in State : cowKey[u] \in Nat
  BY DEF TypeOK
<1>3. ASSUME NEW u \in live'
      PROVE  /\ from(u) \in live /\ u \in State
             /\ objects'[u] = objects[from(u)]
             /\ cowKey'[u] >= cowKey[from(u)]
             /\ cowKey'[u] \in Nat
             /\ u = t \/ u = s => cowKey'[u] > cowKey[s]
             /\ u # t /\ u # s => cowKey'[u] = cowKey[u]
  BY <1>1, <1>2, <1>3 DEF clone, TypeOK
<1>4. ASSUME NEW u \in live', NEW mp \in Object, objects'[u][mp] # None
      PROVE  /\ owner[objects'[u][mp]] \in Nat
             /\ owner[objects'[u][mp]] <= cowKey[from(u)]
  <2>1. from(u) \in live /\ from(u) \in State /\ objects'[u][mp] = objects[from(u)][mp]
    BY <1>3, <1>1
  <2>2. objects[from(u)][mp] \in Copy
    BY <2>1, <1>4 DEF TypeOK
  <2> QED
    BY <2>1, <2>2, <1>4 DEF TypeOK, OwnersBounded
<1>5. OwnersBounded'
  <2> SUFFICES ASSUME NEW u \in live', NEW mp \in Object, objects'[u][mp] # None
               PROVE  owner[objects'[u][mp]] <= cowKey'[u]
    BY <1>1 DEF OwnersBounded
  <2>1. from(u) \in State
    BY <1>1
  <2> QED
    BY <2>1, <1>2, <1>3, <1>4
<1>6. OneObjectPerCopy'
  BY <1>3 DEF OneObjectPerCopy
<1>7. SharedNotOwned'
  <2> SUFFICES ASSUME NEW u \in live', NEW w \in live', NEW mp \in Object, NEW mq \in Object,
                      u # w, objects'[u][mp] # None, objects'[u][mp] = objects'[w][mq]
               PROVE  owner[objects'[u][mp]] < cowKey'[u]
    BY <1>1 DEF SharedNotOwned
  <2>1. CASE u = t \/ u = s
    <3>1. from(u) = s
      BY <2>1, <1>1
    <3> HIDE DEF from
    <3> QED
      BY <2>1, <3>1, <1>2, <1>3, <1>4
  <2>2. CASE u # t /\ u # s
    <3>1. from(u) = u /\ from(w) # u /\ from(w) \in live /\ u \in live
      BY <2>2, <1>1
    <3>2. objects[u][mp] # None /\ objects[u][mp] = objects[from(w)][mq]
      BY <3>1, <1>3
    <3>3. owner[objects[u][mp]] < cowKey[u]
      BY <3>1, <3>2 DEF SharedNotOwned
    <3> QED
      BY <3>1, <3>2, <3>3, <2>2, <1>3
  <2> QED
    BY <2>1, <2>2
<1> QED
  BY <1>5, <1>6, <1>7

\* Taking bindings away keeps the invariant.
LEMMA Unbinding ==
    ASSUME IInv, live' \subseteq live, cowKey' = cowKey, owner' = owner,
           \A t \in live', mp \in Object : objects'[t][mp] \in {objects[t][mp], None}
    PROVE  OwnersBounded' /\ SharedNotOwned' /\ OneObjectPerCopy'
BY DEF IInv, OwnersBounded, SharedNotOwned, OneObjectPerCopy

\* Every operation keeps the invariant.
LEMMA InvStep == IInv /\ [Next]_vars => IInv'
<1> SUFFICES ASSUME IInv, [Next]_vars PROVE OwnersBounded' /\ SharedNotOwned' /\ OneObjectPerCopy'
  BY TypeStep DEF IInv
<1>1. ASSUME NEW s \in State, NEW mo \in Object, NEW n \in Copy, NEW c \in Fresh,
             bindObject(s, mo, n, c)
      PROVE  OwnersBounded' /\ SharedNotOwned' /\ OneObjectPerCopy'
  <2>1. \A t \in live, mp \in Object : objects[t][mp] = n => t = s /\ mp = mo
    BY <1>1, NotHeld DEF bindObject
  <2>2. Rebinds(s, mo, n)
    BY <1>1, <2>1 DEF bindObject, Rebinds
  <2> QED
    BY <2>2, Rebind
<1>2. ASSUME NEW s \in State, NEW mo \in Object, unbindObject(s, mo)
      PROVE  OwnersBounded' /\ SharedNotOwned' /\ OneObjectPerCopy'
  <2>1. \A t \in live, mp \in Object : objects'[t][mp] \in {objects[t][mp], None}
    BY <1>2 DEF unbindObject, IInv, TypeOK
  <2> QED
    BY <1>2, <2>1, Unbinding DEF unbindObject
<1>3. ASSUME NEW s \in State, NEW mo \in Object, NEW n \in Copy, NEW b \in Byte,
             NEW v \in Value, write(s, mo, n, b, v)
      PROVE  OwnersBounded' /\ SharedNotOwned' /\ OneObjectPerCopy'
  <2>1. \A t \in live, mp \in Object : objects[t][mp] = n => t = s /\ mp = mo
    BY <1>3, WriteableAlone DEF write
  <2>2. Rebinds(s, mo, n)
    BY <1>3, <2>1 DEF write, Rebinds
  <2> QED
    BY <2>2, Rebind
<1>4. ASSUME NEW s \in State, NEW t \in State, clone(s, t)
      PROVE  OwnersBounded' /\ SharedNotOwned' /\ OneObjectPerCopy'
  BY <1>4, CloneStep
<1>5. ASSUME NEW s \in State, delete(s)
      PROVE  OwnersBounded' /\ SharedNotOwned' /\ OneObjectPerCopy'
  <2>1. \A t \in live, mp \in Object : objects'[t][mp] \in {objects[t][mp], None}
    BY <1>5 DEF delete, IInv, TypeOK
  <2> QED
    BY <1>5, <2>1, Unbinding DEF delete
<1>6. CASE UNCHANGED vars
  <2>1. UNCHANGED <<live, cowKey, objects, owner>>
    BY <1>6, Zenon DEF vars
  <2>2. OwnersBounded'
    BY <2>1, Zenon DEF IInv, OwnersBounded
  <2>3. SharedNotOwned'
    <3> SUFFICES ASSUME NEW s \in live, NEW t \in live, NEW mo \in Object, NEW mp \in Object,
                        s # t, objects[s][mo] # None, objects[s][mo] = objects[t][mp]
                 PROVE  owner[objects[s][mo]] < cowKey[s]
      BY <2>1 DEF SharedNotOwned
    <3> QED BY Zenon DEF IInv, SharedNotOwned
  <2>4. OneObjectPerCopy'
    BY <2>1 DEF IInv, OneObjectPerCopy
  <2> QED BY <2>2, <2>3, <2>4, Zenon
<1> QED
  BY <1>1, <1>2, <1>3, <1>4, <1>5, <1>6 DEF Next

\* The invariant of copy-on-write holds in every reachable state.
THEOREM Invariant == Spec => []IInv
<1>1. Init => IInv
  BY InvInit
<1>2. IInv /\ [Next]_vars => IInv'
  BY InvStep
<1> QED
  BY <1>1, <1>2, PTL DEF Spec

\* What AddressSpace.h says of its objects: no owner's key exceeds the key of an
\* address space that holds the object.
THEOREM KeysBounded == Spec => []OwnersBounded
BY Invariant, PTL DEF IInv

\* No state can write in place to what another one also holds.
THEOREM NobodyOwnsShared == Spec => []SharedNotOwned
BY Invariant, PTL DEF IInv

-----------------------------------------------------------------------------
\* The memory of every state, seen through its address space.
Memory == [s \in State |-> [mo \in Object |-> Content(s, mo)]]

\* The contents c of mo are put in the copy n, which nobody else holds.
Rehouses(s, mo, n, c) ==
    /\ s \in live /\ mo \in Object /\ n \in Copy
    /\ \A t \in live, mp \in Object : objects[t][mp] = n => t = s /\ mp = mo
    /\ \A t \in State \ live, mp \in Object : objects[t][mp] = None
    /\ objects' = [objects EXCEPT ![s][mo] = n]
    /\ store' = [store EXCEPT ![n] = c]

\* A copy that nobody else holds changes the memory of one state in one place.
LEMMA RebindMemory ==
    ASSUME TypeOK, NEW s, NEW mo, NEW n, NEW c, Rehouses(s, mo, n, c)
    PROVE  Memory' = [Memory EXCEPT ![s][mo] = c]
<1> USE DEF Rehouses
<1>1. s \in State
  BY DEF TypeOK
<1>2. Content(s, mo)' = c
  BY <1>1 DEF Content, TypeOK
<1>3. ASSUME NEW t \in State, NEW mp \in Object, ~ (t = s /\ mp = mo)
      PROVE  Content(t, mp)' = Content(t, mp)
  <2>1. objects'[t][mp] = objects[t][mp] /\ objects[t][mp] # n
    BY <1>1, <1>3 DEF TypeOK
  <2>2. objects[t][mp] # None => store'[objects[t][mp]] = store[objects[t][mp]]
    BY <2>1 DEF TypeOK
  <2> QED
    BY <2>1, <2>2 DEF Content
<1> QED
  BY <1>1, <1>2, <1>3, ZenonT(30) DEF Memory

\* A state that does not exist holds nothing.
DeadHoldNothing == \A s \in State \ live, mo \in Object : objects[s][mo] = None

\* Initially no state holds an object.
LEMMA DeadInit == Init => DeadHoldNothing
BY DEF Init, DeadHoldNothing

\* Only an operation of a live state gives it an object, and delete takes all.
LEMMA DeadStep == TypeOK /\ DeadHoldNothing /\ [Next]_vars => DeadHoldNothing'
<1> SUFFICES ASSUME TypeOK, DeadHoldNothing, [Next]_vars PROVE DeadHoldNothing'
  BY Zenon
<1>1. live \subseteq State /\ objects \in [State -> [Object -> Copy \cup {None}]]
  BY Zenon DEF TypeOK
<1>2. ASSUME NEW s \in State, s \in live, live' = live,
             \A r \in State : r # s => objects'[r] = objects[r]
      PROVE  DeadHoldNothing'
  BY <1>2, Zenon DEF DeadHoldNothing
<1>3. ASSUME NEW s \in State, NEW mo \in Object, NEW n, objects' = [objects EXCEPT ![s][mo] = n]
      PROVE  \A r \in State : r # s => objects'[r] = objects[r]
  BY <1>1, <1>3, Zenon
<1>4. ASSUME NEW s \in State, NEW mo \in Object, NEW n \in Copy, NEW c \in Fresh,
             bindObject(s, mo, n, c)
      PROVE  DeadHoldNothing'
  BY <1>2, <1>3, <1>4, Zenon DEF bindObject
<1>5. ASSUME NEW s \in State, NEW mo \in Object, unbindObject(s, mo)
      PROVE  DeadHoldNothing'
  BY <1>2, <1>3, <1>5, Zenon DEF unbindObject
<1>6. ASSUME NEW s \in State, NEW mo \in Object, NEW n \in Copy, NEW b \in Byte,
             NEW v \in Value, write(s, mo, n, b, v)
      PROVE  DeadHoldNothing'
  BY <1>2, <1>3, <1>6, Zenon DEF write
<1>7. ASSUME NEW s \in State, NEW t \in State, clone(s, t)
      PROVE  DeadHoldNothing'
  BY <1>1, <1>7, Zenon DEF clone, DeadHoldNothing
<1>8. ASSUME NEW s \in State, delete(s)
      PROVE  DeadHoldNothing'
  BY <1>1, <1>8, Zenon DEF delete, DeadHoldNothing
<1>9. CASE UNCHANGED vars
  BY <1>9, Zenon DEF vars, DeadHoldNothing
<1> QED BY <1>4, <1>5, <1>6, <1>7, <1>8, <1>9, Zenon DEF Next

\* Every operation on the address spaces is an operation on private memories.
LEMMA MemoryStep ==
    ASSUME IInv, DeadHoldNothing, [Next]_vars
    PROVE  [Private!PathNext]_(Private!pathVars)
<1> USE DEF IInv
<1>0. \A s \in State, mo \in Object : Memory[s][mo] = Content(s, mo)
  BY DEF Memory
<1>1. ASSUME NEW s \in State, NEW mo \in Object, NEW n \in Copy, NEW c \in Fresh,
             bindObject(s, mo, n, c)
      PROVE  Private!Bind(s, mo, c)
  <2>1. \A t \in live, mp \in Object : objects[t][mp] = n => t = s /\ mp = mo
    BY <1>1, NotHeld DEF bindObject
  <2>2. Rehouses(s, mo, n, c)
    BY <1>1, <2>1 DEF bindObject, Rehouses, DeadHoldNothing
  <2>3. Memory' = [Memory EXCEPT ![s][mo] = c]
    BY <2>2, RebindMemory
  <2> QED
    BY <1>1, <2>3 DEF bindObject, Private!Bind, Memory
<1>2. ASSUME NEW s \in State, NEW mo \in Object, unbindObject(s, mo)
      PROVE  Private!Bind(s, mo, None)
  <2>1. ASSUME NEW t \in State, NEW mp \in Object
        PROVE  Content(t, mp)' = IF t = s /\ mp = mo THEN None ELSE Content(t, mp)
    BY <1>2 DEF unbindObject, Content, TypeOK
  <2>2. Memory' = [Memory EXCEPT ![s][mo] = None]
    BY <2>1, ZenonT(30) DEF Memory
  <2> QED
    BY <1>2, <2>2 DEF unbindObject, Private!Bind, Memory
<1>3. ASSUME NEW s \in State, NEW mo \in Object, NEW n \in Copy, NEW b \in Byte,
             NEW v \in Value, write(s, mo, n, b, v)
      PROVE  Private!Store(s, mo, b, v)
  <2> DEFINE c == [store[objects[s][mo]] EXCEPT ![b] = v]
  <2>1. \A t \in live, mp \in Object : objects[t][mp] = n => t = s /\ mp = mo
    BY <1>3, WriteableAlone DEF write
  <2>2. s \in live /\ objects[s][mo] \in Copy
    BY <1>3 DEF write, TypeOK
  <2>3. c \in [Byte -> Value]
    BY <2>2 DEF TypeOK
  <2>4. Rehouses(s, mo, n, c)
    BY <1>3, <2>1, <2>3 DEF write, Rehouses, DeadHoldNothing
  <2>5. Memory' = [Memory EXCEPT ![s][mo] = c]
    BY <2>3, <2>4, RebindMemory
  <2>6. Memory[s][mo] = store[objects[s][mo]] /\ Memory[s][mo] # None
    <3>1. Memory[s][mo] = Content(s, mo) /\ objects[s][mo] # None
      BY <1>0, <1>3, Zenon DEF write
    <3>2. Memory[s][mo] = store[objects[s][mo]]
      BY <3>1, Zenon DEF Content
    <3>3. store[objects[s][mo]] \in [Byte -> Value]
      BY <2>2, Zenon DEF TypeOK
    <3> QED BY <3>2, <3>3, SpaceAssumption, Zenon
  <2>7. c = [Memory[s][mo] EXCEPT ![b] = v]
    BY <2>6
  <2> QED
    BY <1>3, <2>2, <2>5, <2>6, <2>7, ZenonT(30) DEF write, Private!Store, Memory
<1>4. ASSUME NEW s \in State, NEW t \in State, clone(s, t)
      PROVE  Private!ForkMemory(s, t)
  <2>1. ASSUME NEW u \in State, NEW mp \in Object
        PROVE  Content(u, mp)' = IF u = t THEN Content(s, mp) ELSE Content(u, mp)
    BY <1>4 DEF clone, Content, TypeOK
  <2>2. Memory' = [Memory EXCEPT ![t] = Memory[s]]
    BY <2>1, ZenonT(30) DEF Memory
  <2> QED
    BY <1>4, <2>2 DEF clone, Private!ForkMemory, Memory
<1>5. ASSUME NEW s \in State, delete(s)
      PROVE  Private!Drop({s})
  <2>1. ASSUME NEW u \in State, NEW mp \in Object
        PROVE  Content(u, mp)' = IF u = s THEN None ELSE Content(u, mp)
    BY <1>5 DEF delete, Content, TypeOK
  <2>2. Memory' = [u \in State |-> IF u \in {s} THEN [mo \in Object |-> None] ELSE Memory[u]]
    BY <2>1 DEF Memory
  <2> QED
    BY <1>5, <2>2 DEF delete, Private!Drop, Private!Nothing, Memory
<1>6. CASE UNCHANGED vars
  BY <1>6 DEF vars, Private!pathVars, Content
<1>7. ASSUME NEW s \in State, delete(s)
      PROVE  \E gone \in SUBSET live : Private!Drop(gone)
  BY <1>5, <1>7, ZenonT(30) DEF delete
<1>8. ASSUME Next PROVE Private!PathNext
  BY <1>1, <1>2, <1>3, <1>4, <1>7, <1>8 DEF Next, Private!PathNext
<1> QED
  BY <1>6, <1>8

\* Sharing and copying are not visible: the address spaces implement one
\* private memory per state.
THEOREM MemoriesArePrivate == Spec => PrivateMemories
<1>1. Init => Private!PathInit
  BY DEF Init, Private!PathInit, Private!Nothing, Content
<1>2. IInv /\ DeadHoldNothing /\ [Next]_vars => [Private!PathNext]_(Private!pathVars)
  BY MemoryStep
<1>3. Spec => []DeadHoldNothing
  <2>1. Spec => []TypeOK
    BY Invariant, PTL DEF IInv
  <2> QED
    BY <2>1, DeadInit, DeadStep, PTL DEF Spec
<1> QED
  BY <1>1, <1>2, <1>3, Invariant, PTL DEF Spec, PrivateMemories, Private!PathSpec
=============================================================================
