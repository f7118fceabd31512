-------------------------- MODULE TbReferencesProofs --------------------------
(***************************************************************************)
(* The references to S2ETranslationBlocks, for any size of the buffer and  *)
(* any number of states.                                                   *)
(***************************************************************************)
EXTENDS TbReferences, FiniteSetTheorems, TLAPS

Views ==
    [tbs : SUBSET S2ETb,
     s2e : [S2ETb -> [refCount : Nat, function : Function]],
     st : [State -> [last : S2ETb \cup {NoTb}, frame : S2ETb \cup {NoTb}]]]

Users(v, o) == {s \in State : v.st[s].last = o}

References(v, o) == Cardinality(v.tbs \cap {o}) + Cardinality(Users(v, o))

\* What an operation of the code may rely on and has to restore.
Consistent(v) ==
    /\ v \in Views
    /\ \A o \in S2ETb : /\ v.s2e[o].refCount = References(v, o)
                        /\ v.s2e[o].refCount = 0 => v.s2e[o].function # "present"
    /\ \A s \in State : /\ v.st[s].frame \in {NoTb, v.st[s].last}
                        /\ v.st[s].frame # NoTb =>
                               v.s2e[v.st[s].frame].function = "present"

\* The inductive invariant: in addition, a state that does not exist yet refers
\* to nothing, and the buffer does not overflow.
RefInv ==
    /\ Consistent(View)
    /\ Cardinality(tbs) <= MaxTb
    /\ deleted \subseteq State
    /\ nextId \in 2 .. MaxStateId + 1
    /\ current \in 1 .. nextId - 1
    /\ \A s \in State : s >= nextId => st[s].last = NoTb

-----------------------------------------------------------------------------
\* The states are finite, and so are the blocks.
LEMMA FiniteStates ==
    /\ IsFiniteSet(State) /\ Cardinality(State) = MaxStateId
    /\ IsFiniteSet(S2ETb) /\ Cardinality(S2ETb) = MaxTb + MaxStateId + 1
    /\ NoTb \notin S2ETb
BY ReferencesAssumption, FS_Interval, SMTT(40) DEF State, S2ETb, NoTb

\* A set refers to an object once or not at all.
LEMMA OnceCardinality ==
    ASSUME NEW T, NEW o
    PROVE  Cardinality(T \cap {o}) = IF o \in T THEN 1 ELSE 0
<1>1. CASE o \in T
  <2>1. T \cap {o} = {o}
    BY <1>1, Zenon
  <2> QED BY <1>1, <2>1, FS_Singleton, Zenon
<1>2. CASE o \notin T
  <2>1. T \cap {o} = {}
    BY <1>2, Zenon
  <2> QED BY <1>2, <2>1, FS_EmptySet, Zenon
<1> QED BY <1>1, <1>2, Zenon

\* The users of an object are finitely many.
LEMMA UsersFinite ==
    ASSUME NEW v, NEW o
    PROVE  /\ IsFiniteSet(Users(v, o)) /\ Cardinality(Users(v, o)) \in Nat
           /\ Cardinality(Users(v, o)) <= MaxStateId
           /\ Users(v, o) # {} <=> Cardinality(Users(v, o)) > 0
           /\ References(v, o) \in Nat
           /\ References(v, o) = 0 <=> o \notin v.tbs /\ Users(v, o) = {}
<1>1. Users(v, o) \in SUBSET State
  BY Zenon DEF Users
<1>2. /\ IsFiniteSet(Users(v, o)) /\ Cardinality(Users(v, o)) \in Nat
      /\ Cardinality(Users(v, o)) <= MaxStateId
  BY <1>1, FiniteStates, FS_Subset, FS_CardinalityType, Zenon
<1>3. Cardinality(Users(v, o)) = 0 <=> Users(v, o) = {}
  BY <1>2, FS_EmptySet, Zenon
<1>4. Cardinality(v.tbs \cap {o}) = IF o \in v.tbs THEN 1 ELSE 0
  BY OnceCardinality, Zenon
<1> QED BY <1>2, <1>3, <1>4 DEF References

\* k references to an object are dropped: its function goes with the last one,
\* and stays where one is left.
LEMMA UnrefObject ==
    ASSUME NEW r \in [refCount : Nat, function : Function], NEW k \in Nat,
           k <= r.refCount, r.refCount = 0 => r.function # "present"
    PROVE  /\ unrefS2ETb(r, k) \in [refCount : Nat, function : Function]
           /\ unrefS2ETb(r, k).refCount = r.refCount - k
           /\ r.refCount = k => unrefS2ETb(r, k).function # "present"
           /\ r.refCount # k => unrefS2ETb(r, k).function = r.function
<1> DEFINE f == IF k > 0 /\ r.refCount = k /\ r.function = "present"
                THEN "removed" ELSE r.function
<1>1. unrefS2ETb(r, k) = [refCount |-> r.refCount - k, function |-> f]
  BY Zenon DEF unrefS2ETb
<1>2. /\ f \in Function /\ r.refCount - k \in Nat
      /\ r.refCount = k => f # "present"
      /\ r.refCount # k => f = r.function
  BY DEF Function
<1> HIDE DEF f
<1> QED BY <1>1, <1>2

\* References that go: where as many are dropped as there are referrers fewer,
\* unrefS2ETb removes exactly the functions that nothing can come back to.
LEMMA Dropping ==
    ASSUME NEW v, Consistent(v), NEW w, NEW refs \in [S2ETb -> Nat],
           w.tbs \subseteq S2ETb,
           w = [tbs |-> w.tbs, s2e |-> unrefAll(v.s2e, refs), st |-> w.st],
           w.st \in [State -> [last : S2ETb \cup {NoTb}, frame : S2ETb \cup {NoTb}]],
           \A s \in State : w.st[s] = v.st[s] \/ w.st[s] = [last |-> NoTb, frame |-> NoTb],
           \A o \in S2ETb : References(w, o) = References(v, o) - refs[o]
    PROVE  Consistent(w)
<1> DEFINE u == unrefAll(v.s2e, refs)
<1>1. w.s2e = u
  OBVIOUS
<1>2. \A o \in S2ETb : u[o] = unrefS2ETb(v.s2e[o], refs[o])
  BY Zenon DEF unrefAll
<1>3. \A o \in S2ETb : v.s2e[o] \in [refCount : Nat, function : Function]
  BY Zenon DEF Consistent, Views
<1>5. \A o \in S2ETb : /\ u[o].refCount = References(w, o)
                       /\ u[o] \in [refCount : Nat, function : Function]
                       /\ u[o].refCount = 0 => u[o].function # "present"
                       /\ u[o].refCount # 0 => u[o].function = v.s2e[o].function
  <2> TAKE o \in S2ETb
  <2>1. /\ v.s2e[o].refCount = References(v, o)
        /\ v.s2e[o].refCount = 0 => v.s2e[o].function # "present"
    BY Zenon DEF Consistent
  <2>2. refs[o] \in Nat /\ References(w, o) = References(v, o) - refs[o]
    BY Zenon
  <2>3. References(w, o) \in Nat /\ References(v, o) \in Nat
    BY UsersFinite, Zenon
  <2>4. /\ unrefS2ETb(v.s2e[o], refs[o]) \in [refCount : Nat, function : Function]
        /\ unrefS2ETb(v.s2e[o], refs[o]).refCount = v.s2e[o].refCount - refs[o]
        /\ v.s2e[o].refCount = refs[o] =>
               unrefS2ETb(v.s2e[o], refs[o]).function # "present"
        /\ v.s2e[o].refCount # refs[o] =>
               unrefS2ETb(v.s2e[o], refs[o]).function = v.s2e[o].function
    BY <1>3, <2>1, <2>2, <2>3, UnrefObject
  <2>5. u[o] = unrefS2ETb(v.s2e[o], refs[o])
    BY <1>2, Zenon
  <2> HIDE DEF u
  <2> QED BY <2>1, <2>2, <2>3, <2>4, <2>5, SMTT(40)
<1>6. w \in Views
  <2>1. u \in [S2ETb -> [refCount : Nat, function : Function]]
    BY <1>5, Zenon DEF unrefAll
  <2> QED BY <2>1 DEF Views
<1>7. ASSUME NEW s \in State
      PROVE  /\ w.st[s].frame \in {NoTb, w.st[s].last}
             /\ w.st[s].frame # NoTb => w.s2e[w.st[s].frame].function = "present"
  <2>1. CASE w.st[s] = [last |-> NoTb, frame |-> NoTb]
    BY <2>1
  <2>2. CASE w.st[s] = v.st[s] /\ v.st[s].frame # NoTb
    <3> DEFINE o == v.st[s].frame
    <3>1. o = v.st[s].last /\ v.s2e[o].function = "present" /\ o \in S2ETb
      BY <2>2 DEF Consistent, Views
    <3>2. s \in Users(w, o)
      BY <2>2, <3>1, Zenon DEF Users
    <3>3. References(w, o) # 0
      BY <3>2, UsersFinite, Zenon
    <3> QED BY <1>1, <1>5, <2>2, <3>1, <3>3, Zenon
  <2>3. CASE w.st[s] = v.st[s] /\ v.st[s].frame = NoTb
    BY <2>3, Zenon
  <2> QED BY <2>1, <2>2, <2>3, Zenon
<1> QED BY <1>1, <1>5, <1>6, <1>7, ZenonT(30) DEF Consistent

\* A state that refers to nothing comes to refer to an object whose function
\* is in the module.
LEMMA Adding ==
    ASSUME NEW v, Consistent(v), NEW w, NEW s \in State, NEW o \in S2ETb,
           NEW f \in {NoTb, o},
           v.st[s].last = NoTb,
           v.s2e[o].function = "present",
           w = [tbs |-> v.tbs,
                s2e |-> [v.s2e EXCEPT ![o] = [refCount |-> v.s2e[o].refCount + 1,
                                              function |-> v.s2e[o].function]],
                st |-> [v.st EXCEPT ![s] = [last |-> o, frame |-> f]]]
    PROVE  Consistent(w)
<1> USE FiniteStates
<1>1. v \in Views
  BY Zenon DEF Consistent
<1>2. w \in Views
  BY <1>1 DEF Views
<1>3. \A r \in State : w.st[r] = IF r = s THEN [last |-> o, frame |-> f] ELSE v.st[r]
  BY <1>1, Zenon DEF Views
<1>4. /\ \A q \in S2ETb : q # o => w.s2e[q] = v.s2e[q]
      /\ w.s2e[o] = [refCount |-> v.s2e[o].refCount + 1, function |-> v.s2e[o].function]
  BY <1>1, Zenon DEF Views
<1>5. \A q \in S2ETb : References(w, q) = References(v, q) + (IF q = o THEN 1 ELSE 0)
  <2> TAKE q \in S2ETb
  <2>1. CASE q = o
    <3>1. Users(w, q) = Users(v, q) \cup {s} /\ s \notin Users(v, q)
      BY <1>3, <2>1 DEF Users
    <3>2. Cardinality(Users(w, q)) = Cardinality(Users(v, q)) + 1
      BY <3>1, UsersFinite, FS_AddElement, ZenonT(30)
    <3> QED BY <2>1, <3>2, UsersFinite, OnceCardinality DEF References
  <2>2. CASE q # o
    <3>1. Users(w, q) = Users(v, q)
      BY <1>3, <2>2 DEF Users
    <3> QED BY <2>2, <3>1, UsersFinite DEF References
  <2> QED BY <2>1, <2>2, Zenon
<1>6. \A q \in S2ETb : /\ w.s2e[q].refCount = References(w, q)
                       /\ w.s2e[q].refCount = 0 => w.s2e[q].function # "present"
                       /\ w.s2e[q].function = v.s2e[q].function
  <2> TAKE q \in S2ETb
  <2>1. /\ v.s2e[q].refCount = References(v, q)
        /\ v.s2e[q].refCount = 0 => v.s2e[q].function # "present"
    BY Zenon DEF Consistent
  <2>2. References(v, q) \in Nat
    BY UsersFinite, Zenon
  <2>3. CASE q = o
    <3>1. /\ w.s2e[q].refCount = v.s2e[q].refCount + 1
          /\ w.s2e[q].function = v.s2e[q].function
      <4>1. w.s2e[q] = [refCount |-> v.s2e[q].refCount + 1, function |-> v.s2e[q].function]
        BY <1>4, <2>3, Zenon
      <4> QED BY <4>1
    <3>2. References(w, q) = References(v, q) + 1
      BY <1>5, <2>3, Zenon
    <3>3. References(v, q) + 1 # 0
      BY <2>2
    <3> QED BY <2>1, <3>1, <3>2, <3>3, Zenon
  <2>4. CASE q # o
    <3>1. w.s2e[q] = v.s2e[q]
      BY <1>4, <2>4, Zenon
    <3>2. References(w, q) = References(v, q) + 0
      BY <1>5, <2>4, Zenon
    <3>3. References(v, q) + 0 = References(v, q)
      BY <2>2
    <3> QED BY <2>1, <3>1, <3>2, <3>3, Zenon
  <2> QED BY <2>3, <2>4, Zenon
<1>7. \A r \in State : /\ w.st[r].frame \in {NoTb, w.st[r].last}
                       /\ w.st[r].frame # NoTb =>
                              w.s2e[w.st[r].frame].function = "present"
  <2> TAKE r \in State
  <2>1. CASE r = s
    BY <1>3, <1>4, <2>1
  <2>2. CASE r # s
    <3>1. w.st[r] = v.st[r] /\ v.st[r].frame \in S2ETb \cup {NoTb}
      BY <1>1, <1>3, <2>2, Zenon DEF Views
    <3> QED BY <1>6, <3>1 DEF Consistent
  <2> QED BY <2>1, <2>2, Zenon
<1> QED BY <1>2, <1>6, <1>7, Zenon DEF Consistent

\* Views are changed two fields at a time.
LEMMA ChangedViews ==
    ASSUME NEW v \in Views, NEW a, NEW b
    PROVE  /\ [v EXCEPT !.s2e = a, !.tbs = b] = [tbs |-> b, s2e |-> a, st |-> v.st]
           /\ [v EXCEPT !.s2e = a, !.st = b] = [tbs |-> v.tbs, s2e |-> a, st |-> b]
           /\ [v EXCEPT !.tbs = b, !.s2e = a] = [tbs |-> b, s2e |-> a, st |-> v.st]
<1> DEFINE Z == [State -> [last : S2ETb \cup {NoTb}, frame : S2ETb \cup {NoTb}]]
           X == SUBSET S2ETb
           Y == [S2ETb -> [refCount : Nat, function : Function]]
<1>1. v \in [tbs : X, s2e : Y, st : Z]
  BY Zenon DEF Views
<1> HIDE DEF X, Y, Z
<1>2. [v EXCEPT !.s2e = a, !.tbs = b] = [tbs |-> b, s2e |-> a, st |-> v.st]
  <2> DEFINE r == [v EXCEPT !.s2e = a, !.tbs = b]
  <2>1. r \in [tbs : {b}, s2e : {a}, st : Z] /\ r.st = v.st
    BY <1>1, Zenon
  <2> HIDE DEF r
  <2>2. r = [tbs |-> b, s2e |-> a, st |-> v.st]
    BY <2>1, Zenon
  <2> QED BY <2>2, Zenon DEF r
<1>3. [v EXCEPT !.s2e = a, !.st = b] = [tbs |-> v.tbs, s2e |-> a, st |-> b]
  <2> DEFINE r == [v EXCEPT !.s2e = a, !.st = b]
  <2>1. r \in [tbs : X, s2e : {a}, st : {b}] /\ r.tbs = v.tbs
    BY <1>1, Zenon
  <2> HIDE DEF r
  <2>2. r = [tbs |-> v.tbs, s2e |-> a, st |-> b]
    BY <2>1, Zenon
  <2> QED BY <2>2, Zenon DEF r
<1>4. [v EXCEPT !.tbs = b, !.s2e = a] = [tbs |-> b, s2e |-> a, st |-> v.st]
  <2> DEFINE r == [v EXCEPT !.tbs = b, !.s2e = a]
  <2>1. r \in [tbs : {b}, s2e : {a}, st : Z] /\ r.st = v.st
    BY <1>1, Zenon
  <2> HIDE DEF r
  <2>2. r = [tbs |-> b, s2e |-> a, st |-> v.st]
    BY <2>1, Zenon
  <2> QED BY <2>2, Zenon DEF r
<1> QED BY <1>2, <1>3, <1>4, Zenon

\* tb_flush() drops the reference of every block.
LEMMA FlushConsistent ==
    ASSUME NEW v, Consistent(v)
    PROVE  Consistent(tb_flush(v)) /\ tb_flush(v).tbs = {} /\ tb_flush(v).st = v.st
<1> DEFINE w == tb_flush(v)
<1>1. v \in Views
  BY Zenon DEF Consistent
<1>2. w = [tbs |-> {}, s2e |-> unrefAll(v.s2e, Once(v.tbs)), st |-> v.st]
  <2>1. w = [v EXCEPT !.s2e = unrefAll(v.s2e, Once(v.tbs)), !.tbs = {}]
    BY Zenon DEF tb_flush
  <2> HIDE DEF w
  <2> QED BY <1>1, <2>1, ChangedViews, Zenon
<1>3. Once(v.tbs) \in [S2ETb -> Nat]
  BY OnceCardinality DEF Once
<1>4. \A o \in S2ETb : References(w, o) = References(v, o) - Once(v.tbs)[o]
  <2> TAKE o \in S2ETb
  <2>1. Users(w, o) = Users(v, o) /\ w.tbs = {}
    BY <1>2 DEF Users
  <2>2. Cardinality(w.tbs \cap {o}) = 0
    BY <2>1, OnceCardinality, Zenon
  <2>3. Once(v.tbs)[o] = Cardinality(v.tbs \cap {o})
    BY Zenon DEF Once
  <2>4. Cardinality(v.tbs \cap {o}) \in Nat
    BY OnceCardinality
  <2> HIDE DEF w
  <2> QED BY <2>1, <2>2, <2>3, <2>4, UsersFinite DEF References
<1>5. Consistent(w)
  <2>1. v.st \in [State -> [last : S2ETb \cup {NoTb}, frame : S2ETb \cup {NoTb}]]
    BY <1>1, Zenon DEF Views
  <2>2. w.tbs = {} /\ w.st = v.st
    BY <1>2
  <2> HIDE DEF w
  <2>3. /\ w = [tbs |-> w.tbs, s2e |-> unrefAll(v.s2e, Once(v.tbs)), st |-> w.st]
        /\ w.tbs \subseteq S2ETb
        /\ \A s \in State : w.st[s] = v.st[s]
    BY <1>2, <2>2, Zenon
  <2>4. w.st \in [State -> [last : S2ETb \cup {NoTb}, frame : S2ETb \cup {NoTb}]]
    BY <2>1, <2>2, Zenon
  <2> QED BY <1>3, <1>4, <2>3, <2>4, Dropping, ZenonT(30)
<1> QED BY <1>2, <1>5

\* tb_free() drops the reference of one block.
LEMMA FreeConsistent ==
    ASSUME NEW v, Consistent(v), NEW o \in v.tbs
    PROVE  Consistent([v EXCEPT !.s2e = unrefAll(v.s2e, Once({o})), !.tbs = @ \ {o}])
<1> DEFINE w == [v EXCEPT !.s2e = unrefAll(v.s2e, Once({o})), !.tbs = @ \ {o}]
<1>1. v \in Views
  BY Zenon DEF Consistent
<1>2. w = [tbs |-> v.tbs \ {o}, s2e |-> unrefAll(v.s2e, Once({o})), st |-> v.st]
  <2>1. w = [v EXCEPT !.s2e = unrefAll(v.s2e, Once({o})), !.tbs = v.tbs \ {o}]
    BY Zenon
  <2> HIDE DEF w
  <2> QED BY <1>1, <2>1, ChangedViews, Zenon
<1>3. Once({o}) \in [S2ETb -> Nat]
  BY OnceCardinality DEF Once
<1>4. \A q \in S2ETb : References(w, q) = References(v, q) - Once({o})[q]
  <2> TAKE q \in S2ETb
  <2>1. Users(w, q) = Users(v, q) /\ w.tbs = v.tbs \ {o}
    BY <1>2, Zenon DEF Users
  <2>2. Cardinality(w.tbs \cap {q}) = IF q \in v.tbs \ {o} THEN 1 ELSE 0
    BY <2>1, OnceCardinality, Zenon
  <2>3. Once({o})[q] = IF q = o THEN 1 ELSE 0
    BY OnceCardinality, Zenon DEF Once
  <2>4. Cardinality(v.tbs \cap {q}) = IF q \in v.tbs THEN 1 ELSE 0
    BY OnceCardinality, Zenon
  <2> HIDE DEF w
  <2> QED BY <2>1, <2>2, <2>3, <2>4, UsersFinite DEF References
<1>5. v.st \in [State -> [last : S2ETb \cup {NoTb}, frame : S2ETb \cup {NoTb}]]
  BY <1>1, Zenon DEF Views
<1>6. w.tbs \subseteq S2ETb /\ w.st = v.st /\ w.tbs = v.tbs \ {o}
  BY <1>1, <1>2, Zenon DEF Views
<1> HIDE DEF w
<1>7. Consistent(w)
  BY <1>2, <1>3, <1>4, <1>5, <1>6, Dropping, ZenonT(30)
<1> QED BY <1>7, ZenonT(30) DEF w

\* States that are deleted drop the references to their last blocks.
LEMMA StatesFreed ==
    ASSUME NEW v, Consistent(v), v.st = st, NEW gone \in SUBSET State
    PROVE  /\ Consistent(freeStates(v, gone))
           /\ freeStates(v, gone).tbs = v.tbs
           /\ freeStates(v, gone).st =
                  [s \in State |-> IF s \in gone THEN [last |-> NoTb, frame |-> NoTb]
                                                 ELSE st[s]]
<1> DEFINE w == freeStates(v, gone)
           left == [s \in State |-> IF s \in gone THEN [last |-> NoTb, frame |-> NoTb]
                                                  ELSE v.st[s]]
<1>1. v \in Views
  BY ZenonT(30) DEF Consistent
<1>2. w = [tbs |-> v.tbs, s2e |-> unrefAll(v.s2e, LastOf(gone)), st |-> left]
  <2> DEFINE less == unrefAll(v.s2e, LastOf(gone))
  <2>1. w = [v EXCEPT !.s2e = less, !.st = left]
    BY Zenon DEF freeStates
  <2> HIDE DEF w, less, left
  <2>2. w = [tbs |-> v.tbs, s2e |-> less, st |-> left]
    BY <1>1, <2>1, ChangedViews, ZenonT(30)
  <2> QED BY <2>2, Zenon DEF less
<1>3. ASSUME NEW o \in S2ETb
      PROVE  /\ LastOf(gone)[o] \in Nat
             /\ References(w, o) = References(v, o) - LastOf(gone)[o]
  <2> DEFINE dropped == {s \in gone : st[s].last = o}
  <2>1. Users(w, o) = Users(v, o) \ dropped /\ dropped \subseteq Users(v, o)
    BY <1>2, FiniteStates DEF Users
  <2>2. /\ Cardinality(Users(w, o)) = Cardinality(Users(v, o)) - Cardinality(Users(v, o) \cap dropped)
        /\ IsFiniteSet(Users(v, o) \cap dropped)
    BY <2>1, UsersFinite, FS_Difference, FS_Intersection, Zenon
  <2>3. Users(v, o) \cap dropped = dropped
    BY <2>1, Zenon
  <2>4. LastOf(gone)[o] = Cardinality(dropped)
    BY Zenon DEF LastOf
  <2>5. Cardinality(dropped) \in Nat
    BY <2>2, <2>3, FS_CardinalityType, Zenon
  <2>6. Cardinality(w.tbs \cap {o}) = Cardinality(v.tbs \cap {o})
    BY <1>2
  <2>7. Cardinality(Users(w, o)) = Cardinality(Users(v, o)) - Cardinality(dropped)
    BY <2>2, <2>3, Zenon
  <2>8. Cardinality(v.tbs \cap {o}) \in Nat /\ Cardinality(Users(v, o)) \in Nat
    BY OnceCardinality, UsersFinite
  <2> HIDE DEF w, dropped
  <2> QED BY <2>4, <2>5, <2>6, <2>7, <2>8 DEF References
<1>4. LastOf(gone) \in [S2ETb -> Nat]
  BY <1>3, Zenon DEF LastOf
<1>5. /\ left \in [State -> [last : S2ETb \cup {NoTb}, frame : S2ETb \cup {NoTb}]]
      /\ v.tbs \subseteq S2ETb
      /\ \A s \in State : left[s] = v.st[s] \/ left[s] = [last |-> NoTb, frame |-> NoTb]
  BY <1>1, Zenon DEF Views
<1>6. w.tbs = v.tbs /\ w.st = left
  BY <1>2
<1>7. Consistent(w)
  <2> HIDE DEF w, left
  <2> QED BY <1>2, <1>3, <1>4, <1>5, <1>6, Dropping
<1> QED BY <1>6, <1>7, Zenon

\* There is always an object that nothing refers to, as long as the buffer has
\* room: the model has enough objects.
LEMMA FreeExists ==
    ASSUME NEW v, Consistent(v), Cardinality(v.tbs) < MaxTb
    PROVE  /\ free(v) \in S2ETb
           /\ free(v) \notin v.tbs
           /\ Users(v, free(v)) = {}
<1> DEFINE lasts == {v.st[s].last : s \in State}
           f == [s \in State |-> v.st[s].last]
           used == v.tbs \cup lasts
<1>1. v \in Views
  BY Zenon DEF Consistent
<1>2. IsFiniteSet(v.tbs) /\ Cardinality(v.tbs) \in Nat
  <2>1. v.tbs \in SUBSET S2ETb
    BY <1>1, Zenon DEF Views
  <2> QED BY <2>1, FiniteStates, FS_Subset, FS_CardinalityType, Zenon
<1>3. IsFiniteSet(lasts) /\ Cardinality(lasts) <= MaxStateId /\ Cardinality(lasts) \in Nat
  <2>1. f \in Surjection(State, lasts)
    BY Zenon DEF Surjection
  <2> HIDE DEF f, lasts
  <2>2. IsFiniteSet(lasts) /\ Cardinality(lasts) <= Cardinality(State)
    BY <2>1, FiniteStates, FS_Surjection, Zenon
  <2> QED BY <2>2, FiniteStates, FS_CardinalityType, Zenon
<1>4. IsFiniteSet(used) /\ Cardinality(used) < MaxTb + MaxStateId + 1
  <2> HIDE DEF lasts
  <2>1. /\ IsFiniteSet(used)
        /\ Cardinality(used) = Cardinality(v.tbs) + Cardinality(lasts)
                                 - Cardinality(v.tbs \cap lasts)
    BY <1>2, <1>3, FS_Union, Zenon
  <2>2. Cardinality(v.tbs \cap lasts) \in Nat
    BY <1>2, FS_Intersection, FS_CardinalityType, Zenon
  <2> QED BY <1>2, <1>3, <2>1, <2>2, ReferencesAssumption
<1>5. PICK o \in S2ETb : o \notin used
  <2>1. CASE S2ETb \subseteq used
    <3>1. S2ETb \in SUBSET used
      BY <2>1, Zenon
    <3>2. Cardinality(S2ETb) <= Cardinality(used)
      BY <1>4, <3>1, FS_Subset, Zenon
    <3>3. Cardinality(used) \in Nat
      BY <1>4, FS_CardinalityType, Zenon
    <3> QED BY <1>4, <3>2, <3>3, FiniteStates, ReferencesAssumption
  <2> QED BY <2>1, Zenon
<1>6. v.s2e[o].refCount = 0 /\ \A s \in State : o \notin {v.st[s].last, v.st[s].frame}
  <2>1. o \notin v.tbs /\ \A s \in State : v.st[s].last # o
    BY <1>5, Zenon
  <2>2. Users(v, o) = {}
    BY <2>1, Zenon DEF Users
  <2>3. References(v, o) = 0
    BY <2>1, <2>2, UsersFinite, Zenon
  <2> QED BY <1>5, <2>1, <2>3, FiniteStates DEF Consistent
<1>7. /\ free(v) \in S2ETb
      /\ v.s2e[free(v)].refCount = 0
  BY <1>5, <1>6, Zenon DEF free
<1>8. References(v, free(v)) = 0
  BY <1>7, Zenon DEF Consistent
<1> QED BY <1>7, <1>8, UsersFinite, Zenon

\* s2e_tb_alloc(): the new object has the reference of its block.
LEMMA AllocConsistent ==
    ASSUME NEW v, Consistent(v), Cardinality(v.tbs) < MaxTb
    PROVE  LET w == s2e_tb_alloc(v)
           IN  Consistent(w) /\ w.st = v.st /\ Cardinality(w.tbs) <= MaxTb
<1> DEFINE w == s2e_tb_alloc(v)
           o == free(v)
<1>1. v \in Views
  BY Zenon DEF Consistent
<1>2. o \in S2ETb /\ o \notin v.tbs /\ Users(v, o) = {}
  BY FreeExists, Zenon
<1> HIDE DEF o
<1>3. w = [tbs |-> v.tbs \cup {o},
           s2e |-> [v.s2e EXCEPT ![o] = [refCount |-> 1, function |-> "none"]],
           st |-> v.st]
  <2>1. w = [v EXCEPT !.tbs = v.tbs \cup {o},
                      !.s2e = [v.s2e EXCEPT ![o] = [refCount |-> 1, function |-> "none"]]]
    BY Zenon DEF s2e_tb_alloc, o
  <2> HIDE DEF w
  <2> QED BY <1>1, <2>1, ChangedViews, ZenonT(30)
<1> HIDE DEF w
<1>4. w \in Views
  BY <1>1, <1>2, <1>3, ZenonT(30) DEF Views, Function
<1>5. \A q \in S2ETb : w.s2e[q] = IF q = o THEN [refCount |-> 1, function |-> "none"]
                                          ELSE v.s2e[q]
  BY <1>1, <1>2, <1>3, Zenon DEF Views
<1>6. ASSUME NEW q \in S2ETb
      PROVE  References(w, q) = References(v, q) + (IF q = o THEN 1 ELSE 0)
  <2>1. Users(w, q) = Users(v, q) /\ w.tbs = v.tbs \cup {o}
    BY <1>3, Zenon DEF Users
  <2>2. /\ Cardinality(w.tbs \cap {q}) = IF q \in v.tbs \cup {o} THEN 1 ELSE 0
        /\ Cardinality(v.tbs \cap {q}) = IF q \in v.tbs THEN 1 ELSE 0
    BY <2>1, OnceCardinality, Zenon
  <2> QED BY <1>2, <2>1, <2>2, UsersFinite DEF References
<1>7. References(v, o) = 0
  BY <1>2, UsersFinite, Zenon
<1>8. \A q \in S2ETb : /\ w.s2e[q].refCount = References(w, q)
                       /\ w.s2e[q].refCount = 0 => w.s2e[q].function # "present"
  BY <1>2, <1>5, <1>6, <1>7, UsersFinite DEF Consistent
<1>9. \A s \in State : /\ w.st[s].frame \in {NoTb, w.st[s].last}
                       /\ w.st[s].frame # NoTb => w.s2e[w.st[s].frame].function = "present"
  <2> TAKE s \in State
  <2>1. /\ v.st[s].frame \in {NoTb, v.st[s].last}
        /\ v.st[s].frame # NoTb => v.s2e[v.st[s].frame].function = "present"
        /\ v.st[s].frame \in S2ETb \cup {NoTb}
        /\ w.st[s] = v.st[s]
    BY <1>1, <1>3, Zenon DEF Consistent, Views
  <2>2. v.st[s].frame = o => v.st[s].frame = NoTb
    BY <1>2, <2>1, Zenon DEF Users
  <2> QED BY <1>5, <2>1, <2>2, Zenon
<1>10. Consistent(w)
  BY <1>4, <1>8, <1>9, Zenon DEF Consistent
<1>11. Cardinality(w.tbs) <= MaxTb
  <2>1. v.tbs \in SUBSET S2ETb
    BY <1>1, Zenon DEF Views
  <2>2. IsFiniteSet(v.tbs) /\ Cardinality(v.tbs) \in Nat
    BY <2>1, FiniteStates, FS_Subset, FS_CardinalityType, Zenon
  <2>3. Cardinality(v.tbs \cup {o}) = Cardinality(v.tbs) + 1
    BY <1>2, <2>2, FS_AddElement, Zenon
  <2>4. w.tbs = v.tbs \cup {o}
    BY <1>3, Zenon
  <2> QED BY <2>2, <2>3, <2>4, ReferencesAssumption
<1> QED BY <1>3, <1>10, <1>11 DEF w

-----------------------------------------------------------------------------
\* The view of the variables.
LEMMA ViewFields ==
    View.tbs = tbs /\ View.s2e = s2e_tb /\ View.st = st
BY Zenon DEF View

\* A step that installs a consistent view leaves the variables consistent.
LEMMA Installed ==
    ASSUME NEW v, Consistent(v), Install(v)
    PROVE  Consistent(View)'
<1>1. v = [tbs |-> v.tbs, s2e |-> v.s2e, st |-> v.st]
  BY Zenon DEF Consistent, Views
<1>2. View' = v
  BY <1>1, Zenon DEF Install, View
<1> QED BY <1>2, Zenon

\* The program starts with no translated block and one state.
LEMMA InitRefInv == Init => RefInv
<1> SUFFICES ASSUME Init PROVE RefInv
  BY Zenon
<1> USE ReferencesAssumption, FiniteStates
<1>1. View \in Views
  BY Zenon DEF Init, View, Views, Function
<1>2. \A o \in S2ETb : Users(View, o) = {} /\ View.tbs = {}
  BY Zenon DEF Init, View, Users
<1>3. \A o \in S2ETb : References(View, o) = 0
  BY <1>2, UsersFinite, Zenon
<1>4. Consistent(View)
  BY <1>1, <1>3, Zenon DEF Consistent, Init, View
<1>5. Cardinality(tbs) <= MaxTb
  BY FS_EmptySet DEF Init
<1> QED BY <1>4, <1>5 DEF RefInv, Init, State

\* What a step has to leave besides a consistent view, where no state is created.
LEMMA Restored ==
    ASSUME RefInv, Consistent(View)', tbs' \subseteq tbs,
           UNCHANGED <<deleted, nextId>>, current' \in 1 .. nextId - 1,
           \A s \in State : s = current \/ st'[s] = st[s] \/ st'[s].last = NoTb
    PROVE  RefInv'
<1>1. Cardinality(tbs') <= MaxTb
  <2>1. tbs \in SUBSET S2ETb
    BY ViewFields, Zenon DEF RefInv, Consistent, Views
  <2>2. IsFiniteSet(tbs)
    BY <2>1, FiniteStates, FS_Subset, Zenon
  <2>3. /\ Cardinality(tbs') <= Cardinality(tbs) /\ Cardinality(tbs) \in Nat
        /\ Cardinality(tbs') \in Nat
    BY <2>2, FS_Subset, FS_CardinalityType, Zenon
  <2> QED BY <2>3, ReferencesAssumption DEF RefInv
<1>2. \A s \in State : s >= nextId => st'[s].last = NoTb
  BY ReferencesAssumption DEF RefInv, State
<1> QED BY <1>1, <1>2, Zenon DEF RefInv

\* Translating a block, after a flush where the buffer is full.
LEMMA GenCodeStep ==
    ASSUME RefInv, GenCode
    PROVE  RefInv'
<1> DEFINE v == IF Cardinality(tbs) >= MaxTb THEN tb_flush(View) ELSE View
<1>1. Consistent(v) /\ Cardinality(v.tbs) < MaxTb /\ v.st = st
  <2>1. CASE Cardinality(tbs) >= MaxTb
    <3>1. Consistent(tb_flush(View)) /\ tb_flush(View).tbs = {} /\ tb_flush(View).st = st
      BY FlushConsistent, ViewFields, Zenon DEF RefInv
    <3>2. v = tb_flush(View)
      BY <2>1, Zenon
    <3> HIDE DEF v
    <3> QED BY <3>1, <3>2, FS_EmptySet, ReferencesAssumption
  <2>2. CASE ~ (Cardinality(tbs) >= MaxTb)
    <3>1. v = View
      BY <2>2, Zenon
    <3>2. tbs \in SUBSET S2ETb
      BY ViewFields, Zenon DEF RefInv, Consistent, Views
    <3>3. Cardinality(tbs) \in Nat
      BY <3>2, FiniteStates, FS_Subset, FS_CardinalityType, Zenon
    <3> HIDE DEF v
    <3> QED BY <2>2, <3>1, <3>3, ViewFields, ReferencesAssumption DEF RefInv
  <2> QED BY <2>1, <2>2, Zenon
<1> DEFINE w == s2e_tb_alloc(v)
<1>2. Install(w) /\ UNCHANGED <<deleted, current, nextId>>
  BY Zenon DEF GenCode
<1> HIDE DEF v
<1>3. Consistent(w) /\ w.st = st /\ Cardinality(w.tbs) <= MaxTb
  BY <1>1, AllocConsistent, Zenon
<1> HIDE DEF w
<1>4. Consistent(View)'
  BY <1>2, <1>3, Installed, Zenon
<1> QED BY <1>2, <1>3, <1>4, Zenon DEF RefInv, Install

\* The state that runs exists.
LEMMA CurrentExists ==
    ASSUME RefInv
    PROVE  /\ current \in State /\ current \in 1 .. nextId - 1
           /\ Consistent(View) /\ View \in Views
<1>1. current \in 1 .. nextId - 1 /\ nextId \in 2 .. MaxStateId + 1
  BY Zenon DEF RefInv
<1>2. current \in State
  BY <1>1, ReferencesAssumption DEF State
<1> QED BY <1>1, <1>2, Zenon DEF RefInv, Consistent

\* Starting a function moves the reference of the state to its block.
LEMMA ExecuteKleeStep ==
    ASSUME RefInv, NEW o \in S2ETb, ExecuteKlee(o)
    PROVE  RefInv'
<1> USE FiniteStates
<1> DEFINE made == [s2e_tb EXCEPT ![o].function = "present"]
           w == [tbs |-> tbs, s2e |-> made, st |-> st]
<1>1. /\ o \in tbs /\ current \in State /\ st[current].frame = NoTb
      /\ Consistent(View) /\ View \in Views
      /\ UNCHANGED <<tbs, deleted, current, nextId>> /\ current \in 1 .. nextId - 1
      /\ st' = [st EXCEPT ![current] = [last |-> o, frame |-> o]]
  BY CurrentExists, Zenon DEF ExecuteKlee
<1>2. /\ tbs \subseteq S2ETb
      /\ s2e_tb \in [S2ETb -> [refCount : Nat, function : Function]]
      /\ st \in [State -> [last : S2ETb \cup {NoTb}, frame : S2ETb \cup {NoTb}]]
  BY <1>1, Zenon DEF View, Views
<1>3. /\ made \in [S2ETb -> [refCount : Nat, function : Function]]
      /\ \A q \in S2ETb : /\ made[q].refCount = s2e_tb[q].refCount
                          /\ made[q].function = IF q = o THEN "present"
                                                ELSE s2e_tb[q].function
  BY <1>2 DEF Function
<1>4. s2e_tb' = IF st[current].last = o THEN made
                ELSE [unrefAll(made, LastOf({current})) EXCEPT ![o].refCount = @ + 1]
  BY Zenon DEF ExecuteKlee
<1> HIDE DEF made
<1>5. Consistent(w)
  <2>1. w \in Views
    BY <1>2, <1>3, Zenon DEF Views
  <2>2. \A q \in S2ETb : References(w, q) = References(View, q)
    BY Zenon DEF References, Users, View
  <2>3. References(View, o) # 0
    BY <1>1, UsersFinite, ViewFields, Zenon
  <2>4. \A q \in S2ETb : /\ w.s2e[q].refCount = References(w, q)
                         /\ w.s2e[q].refCount = 0 => w.s2e[q].function # "present"
    BY <1>1, <1>3, <2>2, <2>3, ViewFields, SMTT(40) DEF Consistent
  <2>5. \A s \in State : /\ st[s].frame \in {NoTb, st[s].last}
                         /\ st[s].frame # NoTb => w.s2e[st[s].frame].function = "present"
    BY <1>1, <1>2, <1>3, ViewFields DEF Consistent
  <2> QED BY <2>1, <2>4, <2>5, Zenon DEF Consistent
<1>6. w.tbs = tbs /\ w.st = st /\ w.s2e = made /\ w.s2e[o].function = "present"
  BY <1>3, Zenon
<1> HIDE DEF w
<1>7. Consistent(View)'
  <2>1. CASE st[current].last = o
    <3> DEFINE same == [tbs |-> tbs, s2e |-> made,
                        st |-> [st EXCEPT ![current] = [last |-> o, frame |-> o]]]
    <3>1. same \in Views
      BY <1>1, <1>2, <1>3, Zenon DEF Views
    <3>2. \A q \in S2ETb : Users(same, q) = Users(w, q)
      BY <1>1, <1>2, <1>6, <2>1, Zenon DEF Users
    <3>3. \A q \in S2ETb : References(same, q) = References(w, q)
      BY <1>6, <3>2, Zenon DEF References
    <3>4. \A s \in State : same.st[s] = IF s = current THEN [last |-> o, frame |-> o]
                                        ELSE w.st[s]
      BY <1>1, <1>2, <1>6, Zenon
    <3>5. same.s2e = w.s2e
      BY <1>6, Zenon
    <3>6. View' = same
      BY <1>1, <1>4, <2>1, ZenonT(30) DEF View
    <3> HIDE DEF same
    <3>7. Consistent(same)
      BY <1>5, <1>6, <3>1, <3>3, <3>4, <3>5 DEF Consistent
    <3> QED BY <3>6, <3>7, Zenon
  <2>2. CASE st[current].last # o
    <3> DEFINE u == freeStates(w, {current})
               left == unrefAll(made, LastOf({current}))
    <3>1. /\ Consistent(u) /\ u.tbs = tbs
          /\ u.st = [s \in State |-> IF s = current THEN [last |-> NoTb, frame |-> NoTb]
                                                    ELSE st[s]]
      <4>1. {current} \in SUBSET State
        BY <1>1, Zenon
      <4> QED BY <1>5, <1>6, <4>1, StatesFreed
    <3>2. u.s2e = left
      BY <1>5, <1>6, ChangedViews, ZenonT(30) DEF freeStates, Consistent
    <3> HIDE DEF u
    <3>3. left \in [S2ETb -> [refCount : Nat, function : Function]]
      BY <3>1, <3>2, ZenonT(30) DEF Consistent, Views
    <3>4. left[o].function = "present"
      <4>1. {s \in {current} : st[s].last = o} = {}
        BY <2>2, Zenon
      <4>2. LastOf({current})[o] = 0
        BY <4>1, FS_EmptySet, Zenon DEF LastOf
      <4>3. left[o] = unrefS2ETb(made[o], 0)
        BY <4>2, Zenon DEF unrefAll
      <4> HIDE DEF left
      <4> QED BY <1>3, <4>3 DEF unrefS2ETb
    <3> HIDE DEF left
    <3>5. /\ s2e_tb' = [left EXCEPT ![o] = [refCount |-> left[o].refCount + 1,
                                            function |-> left[o].function]]
          /\ st' = [u.st EXCEPT ![current] = [last |-> o, frame |-> o]]
      <4>1. s2e_tb' = [left EXCEPT ![o].refCount = @ + 1]
        BY <1>4, <2>2, Zenon DEF left
      <4>2. [left[o] EXCEPT !.refCount = @ + 1]
              = [refCount |-> left[o].refCount + 1, function |-> left[o].function]
        BY <3>3
      <4>3. st' = [u.st EXCEPT ![current] = [last |-> o, frame |-> o]]
        BY <1>1, <1>2, <3>1, Zenon
      <4> QED BY <4>1, <4>2, <4>3, Zenon
    <3>6. View' = [tbs |-> u.tbs,
                   s2e |-> [u.s2e EXCEPT ![o] = [refCount |-> u.s2e[o].refCount + 1,
                                                 function |-> u.s2e[o].function]],
                   st |-> [u.st EXCEPT ![current] = [last |-> o, frame |-> o]]]
      BY <1>1, <3>1, <3>2, <3>5, Zenon DEF View
    <3>7. u.st[current].last = NoTb
      BY <1>1, <3>1, SMTT(40)
    <3>8. ASSUME NEW v,
                 v = [tbs |-> u.tbs,
                      s2e |-> [u.s2e EXCEPT ![o] = [refCount |-> u.s2e[o].refCount + 1,
                                                    function |-> u.s2e[o].function]],
                      st |-> [u.st EXCEPT ![current] = [last |-> o, frame |-> o]]]
          PROVE  Consistent(v)
      BY <1>1, <3>1, <3>2, <3>4, <3>7, <3>8, Adding
    <3> QED BY <3>6, <3>8, Zenon
  <2> QED BY <2>1, <2>2, Zenon
<1>8. \A s \in State : s # current => st'[s] = st[s]
  BY <1>1, <1>2, Zenon
<1> QED BY <1>1, <1>7, <1>8, Restored, ZenonT(30)

\* The frame is popped.
LEMMA ReturnStep ==
    ASSUME RefInv, Return
    PROVE  RefInv'
<1>1. /\ Consistent(View) /\ View \in Views /\ current \in State
      /\ UNCHANGED <<tbs, s2e_tb, deleted, current, nextId>> /\ current \in 1 .. nextId - 1
      /\ st' = [st EXCEPT ![current].frame = NoTb]
  BY CurrentExists, Zenon DEF Return
<1>2. st \in [State -> [last : S2ETb \cup {NoTb}, frame : S2ETb \cup {NoTb}]]
  BY <1>1, Zenon DEF View, Views
<1>3. /\ st' \in [State -> [last : S2ETb \cup {NoTb}, frame : S2ETb \cup {NoTb}]]
      /\ \A s \in State : /\ st'[s].last = st[s].last
                          /\ st'[s].frame \in {NoTb, st[s].frame}
                          /\ s # current => st'[s] = st[s]
  BY <1>1, <1>2, Zenon
<1>4. /\ View' \in Views /\ View'.s2e = View.s2e /\ View'.tbs = View.tbs
      /\ View'.st = st' /\ View.st = st
  BY <1>1, <1>3, Zenon DEF View, Views
<1>5. \A o \in S2ETb : Users(View', o) = Users(View, o)
  <2>1. \A s \in State : View'.st[s].last = View.st[s].last
    BY <1>3, <1>4, Zenon
  <2> QED BY <2>1, Zenon DEF Users
<1>6. \A o \in S2ETb : References(View', o) = References(View, o)
  BY <1>4, <1>5, Zenon DEF References
<1>7. Consistent(View')
  BY <1>1, <1>3, <1>4, <1>6 DEF Consistent
<1> QED BY <1>1, <1>3, <1>7, Restored, ZenonT(30)

\* The new state refers to what the old one refers to.
LEMMA ForkStep ==
    ASSUME RefInv, Fork
    PROVE  RefInv'
<1> USE FiniteStates
<1> DEFINE o == st[current].last
           f == st[current].frame
<1>1. /\ Consistent(View) /\ View \in Views /\ current \in State /\ nextId \in State
      /\ current \in 1 .. nextId - 1 /\ nextId \in 2 .. MaxStateId
      /\ f # NoTb /\ st[nextId].last = NoTb
      /\ UNCHANGED <<tbs, deleted, current>> /\ nextId' = nextId + 1
      /\ st' = [st EXCEPT ![nextId] = st[current]]
      /\ s2e_tb' = [s2e_tb EXCEPT ![o].refCount = @ + 1]
  <2>1. nextId \in 2 .. MaxStateId
    BY SMTT(40), ReferencesAssumption DEF Fork, RefInv
  <2>2. nextId \in State /\ nextId >= nextId
    BY <2>1, ReferencesAssumption DEF State
  <2>3. st[nextId].last = NoTb
    BY <2>2, Zenon DEF RefInv
  <2> QED BY <2>1, <2>2, <2>3, CurrentExists, Zenon DEF Fork
<1>2. /\ st \in [State -> [last : S2ETb \cup {NoTb}, frame : S2ETb \cup {NoTb}]]
      /\ s2e_tb \in [S2ETb -> [refCount : Nat, function : Function]]
  BY <1>1, Zenon DEF View, Views
<1>3. f = o /\ o \in S2ETb /\ s2e_tb[o].function = "present"
  BY <1>1, <1>2, ViewFields DEF Consistent
<1>4. st[current] = [last |-> o, frame |-> f]
  BY <1>1, <1>2, Zenon
<1> HIDE DEF o, f
<1>5. s2e_tb' = [s2e_tb EXCEPT ![o] = [refCount |-> s2e_tb[o].refCount + 1,
                                       function |-> s2e_tb[o].function]]
  <2>1. [s2e_tb[o] EXCEPT !.refCount = @ + 1]
          = [refCount |-> s2e_tb[o].refCount + 1, function |-> s2e_tb[o].function]
    BY <1>2, <1>3
  <2> QED BY <1>1, <2>1, Zenon
<1>6. View' = [tbs |-> View.tbs,
               s2e |-> [View.s2e EXCEPT ![o] = [refCount |-> View.s2e[o].refCount + 1,
                                                function |-> View.s2e[o].function]],
               st |-> [View.st EXCEPT ![nextId] = [last |-> o, frame |-> f]]]
  BY <1>1, <1>4, <1>5, Zenon DEF View
<1>7. ASSUME NEW v,
             v = [tbs |-> View.tbs,
                  s2e |-> [View.s2e EXCEPT ![o] = [refCount |-> View.s2e[o].refCount + 1,
                                                   function |-> View.s2e[o].function]],
                  st |-> [View.st EXCEPT ![nextId] = [last |-> o, frame |-> f]]]
      PROVE  Consistent(v)
  BY <1>1, <1>3, <1>7, ViewFields, Adding, Zenon
<1>8. Consistent(View')
  BY <1>6, <1>7, Zenon
<1>9. \A s \in State : s >= nextId + 1 => st'[s].last = NoTb
  BY <1>1, <1>2, ReferencesAssumption, SMTT(40) DEF RefInv, State
<1> QED BY <1>1, <1>8, <1>9, ReferencesAssumption, SMTT(40) DEF RefInv

\* Terminating a state frees nothing yet.
LEMMA TerminateStep ==
    ASSUME RefInv, NEW s \in State, Terminate(s)
    PROVE  RefInv'
<1>1. View' = View /\ UNCHANGED <<tbs, st, current, nextId>> /\ deleted' \subseteq State
  BY Zenon DEF Terminate, View, RefInv
<1> QED BY <1>1, Zenon DEF RefInv

\* The deleted states are freed, after a flush or without.
LEMMA SelectNextStateStep ==
    ASSUME RefInv, NEW s \in State, NEW flush \in BOOLEAN, SelectNextState(s, flush)
    PROVE  RefInv'
<1> DEFINE v == IF flush /\ s # current THEN tb_flush(View) ELSE View
           w == freeStates(v, deleted)
<1>1. Consistent(v) /\ v.st = st /\ v.tbs \subseteq tbs
  <2>1. Consistent(View) /\ View.st = st /\ View.tbs = tbs
    BY ViewFields, Zenon DEF RefInv
  <2>2. Consistent(tb_flush(View)) /\ tb_flush(View).tbs = {} /\ tb_flush(View).st = st
    BY <2>1, FlushConsistent, Zenon
  <2> QED BY <2>1, <2>2, Zenon
<1>2. Install(w) /\ current' = s /\ s < nextId /\ UNCHANGED <<deleted, nextId>>
  BY Zenon DEF SelectNextState
<1> HIDE DEF v
<1>3. deleted \in SUBSET State
  BY Zenon DEF RefInv
<1>4. /\ Consistent(w) /\ w.tbs = v.tbs
      /\ w.st = [r \in State |-> IF r \in deleted THEN [last |-> NoTb, frame |-> NoTb]
                                                    ELSE st[r]]
  BY <1>1, <1>3, StatesFreed
<1> HIDE DEF w
<1>5. /\ tbs' \subseteq tbs
      /\ \A r \in State : st'[r] = st[r] \/ st'[r].last = NoTb
  BY <1>1, <1>2, <1>4 DEF Install
<1>6. current' \in 1 .. nextId - 1
  BY <1>2, ReferencesAssumption DEF State, RefInv
<1>7. Consistent(View)'
  BY <1>2, <1>4, Installed, Zenon
<1> QED BY <1>2, <1>5, <1>6, <1>7, Restored, Zenon

\* All states are freed.
LEMMA AllTerminatedStep ==
    ASSUME RefInv, AllTerminated
    PROVE  RefInv'
<1> DEFINE w == freeStates(View, deleted)
<1>1. Consistent(View) /\ View.st = st /\ View.tbs = tbs /\ deleted \in SUBSET State
  BY ViewFields, Zenon DEF RefInv
<1>2. Install(w) /\ UNCHANGED <<deleted, current, nextId>>
  BY Zenon DEF AllTerminated
<1>3. /\ Consistent(w) /\ w.tbs = tbs
      /\ w.st = [r \in State |-> IF r \in deleted THEN [last |-> NoTb, frame |-> NoTb]
                                                    ELSE st[r]]
  BY <1>1, StatesFreed
<1> HIDE DEF w
<1>4. /\ tbs' \subseteq tbs
      /\ \A r \in State : st'[r] = st[r] \/ st'[r].last = NoTb
  BY <1>2, <1>3 DEF Install
<1>5. Consistent(View)'
  BY <1>2, <1>3, Installed, Zenon
<1> QED BY <1>2, <1>4, <1>5, Restored, Zenon DEF RefInv

\* A single-use block is freed.
LEMMA FreeTbStep ==
    ASSUME RefInv, NEW o \in S2ETb, FreeTb(o)
    PROVE  RefInv'
<1> DEFINE w == [View EXCEPT !.s2e = unrefAll(View.s2e, Once({o})), !.tbs = @ \ {o}]
<1>1. Consistent(View) /\ View.st = st /\ View.tbs = tbs /\ View.s2e = s2e_tb
  BY ViewFields, Zenon DEF RefInv
<1>2. Install(w) /\ o \in View.tbs /\ UNCHANGED <<deleted, current, nextId>>
  BY <1>1, Zenon DEF FreeTb
<1>3. Consistent(w)
  BY <1>1, <1>2, FreeConsistent, Zenon
<1>4. w.tbs = tbs \ {o} /\ w.st = st
  <2>1. View \in Views
    BY <1>1, Zenon DEF Consistent
  <2>2. w = [View EXCEPT !.s2e = unrefAll(View.s2e, Once({o})), !.tbs = View.tbs \ {o}]
    BY Zenon
  <2> HIDE DEF w
  <2>3. w = [tbs |-> View.tbs \ {o}, s2e |-> unrefAll(View.s2e, Once({o})), st |-> View.st]
    BY <2>1, <2>2, ChangedViews, Zenon
  <2> QED BY <1>1, <2>3, Zenon
<1> HIDE DEF w
<1>5. tbs' \subseteq tbs /\ st' = st
  BY <1>2, <1>4, Zenon DEF Install
<1>6. Consistent(View)'
  BY <1>2, <1>3, Installed, Zenon
<1> QED BY <1>2, <1>5, <1>6, Restored, Zenon DEF RefInv

-----------------------------------------------------------------------------
\* RefInv is inductive.
LEMMA NextRefInv == RefInv /\ [Next]_vars => RefInv'
<1> SUFFICES ASSUME RefInv, [Next]_vars PROVE RefInv'
  BY Zenon
<1>1. CASE Next
  BY <1>1, GenCodeStep, ExecuteKleeStep, ReturnStep, ForkStep, TerminateStep,
     SelectNextStateStep, AllTerminatedStep, FreeTbStep, Zenon DEF Next
<1>2. CASE UNCHANGED vars
  <2>1. View' = View /\ UNCHANGED <<tbs, st, deleted, current, nextId>>
    BY <1>2, Zenon DEF vars, View
  <2> QED BY <2>1, Zenon DEF RefInv
<1> QED BY <1>1, <1>2, Zenon

\* What holds between any two operations on the blocks and the states.
THEOREM ReferencesInvariant == Spec => []RefInv
BY InitRefInv, NextRefInv, PTL DEF Spec

\* A reference count never exceeds what a block and every state account for,
\* the buffer holds at most code_gen_max_blocks blocks, and a state has at most
\* the function of its last block on its stack.
THEOREM TypeCorrect == Spec => []TypeOK
<1>1. RefInv => TypeOK
  <2> SUFFICES ASSUME RefInv PROVE TypeOK
    BY Zenon
  <2>1. ASSUME NEW o \in S2ETb
        PROVE  /\ s2e_tb[o].refCount \in 0 .. MaxTb + MaxStateId
               /\ s2e_tb[o].function \in Function
    <3>1. /\ s2e_tb[o] \in [refCount : Nat, function : Function]
          /\ s2e_tb[o].refCount = References(View, o)
      BY <2>1, ViewFields, Zenon DEF RefInv, Consistent, Views
    <3>2. References(View, o) <= 1 + MaxStateId
      BY OnceCardinality, UsersFinite, ReferencesAssumption DEF References
    <3> QED BY <3>1, <3>2, ReferencesAssumption
  <2> QED BY <2>1, ViewFields, Zenon DEF RefInv, Consistent, Views, TypeOK
<1> QED BY <1>1, ReferencesInvariant, PTL

\* unrefS2ETb() never removes a function that a state, running or waiting, has on
\* its stack.
THEOREM FunctionsStayAlive == Spec => []FunctionsAlive
<1>1. RefInv => FunctionsAlive
  BY ViewFields, Zenon DEF RefInv, Consistent, FunctionsAlive
<1> QED BY <1>1, ReferencesInvariant, PTL

\* refCount is the number of blocks and states that refer to the object, and the
\* code of an object nothing refers to is removed, whatever the size of the
\* buffer and however many states are forked, selected and deleted.
THEOREM CountsAreExact == Spec => []CountsExact
<1>1. RefInv => CountsExact
  BY ViewFields, Zenon DEF RefInv, Consistent, References, Users, CountsExact
<1> QED BY <1>1, ReferencesInvariant, PTL
=============================================================================
