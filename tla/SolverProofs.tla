---------------------------- MODULE SolverProofs ----------------------------
(***************************************************************************)
(* Neither the two solver caches nor the slicing of the constraints change *)
(* an answer.                                                              *)
(*                                                                         *)
(* The caches: for every expression language with a negation, every set of *)
(* assignments and every history of queries.  The invariant gives each     *)
(* entry its meaning: a counterexample entry holds an assignment of its    *)
(* key or says that there is none, and a validity entry says of its        *)
(* canonical expression what its name says.                                *)
(*                                                                         *)
(* The slicing: for every set of arrays, every expression language whose   *)
(* meaning depends on the bytes it reads, and every list of constraints    *)
(* with a model.                                                           *)
(***************************************************************************)
EXTENDS SolverCache, IndependentSolver, TLAPS

(* What an entry of the counterexample cache says of its key. *)
Right(a, key) ==
  IF a = None THEN \A b \in Assignments : ~satisfies(b, key)
  ELSE a \in Assignments /\ satisfies(a, key)

CexSound(s) ==
  /\ s.table \subseteq Assignments
  /\ \A k \in DOMAIN s.cex : Right(s.cex[k], k)

(* What an entry of the validity cache says of its expression. *)
Means(c, e, pv) ==
  \/ pv = "MustBeTrue" /\ Models(c) \subseteq Holds[e]
  \/ pv = "MustBeFalse" /\ Models(c) \cap Holds[e] = {}
  \/ pv = "MayBeTrue" /\ Models(c) \cap Holds[e] # {}
  \/ pv = "MayBeFalse" /\ ~(Models(c) \subseteq Holds[e])
  \/ /\ pv = "TrueOrFalse"
     /\ Models(c) \cap Holds[e] # {} /\ ~(Models(c) \subseteq Holds[e])

CacheSound(s) ==
  \A c \in Lists, e \in Expr :
    <<c, e>> \in DOMAIN s.cache => Means(c, e, s.cache[<<c, e>>])

Sound(s) == CexSound(s) /\ CacheSound(s)

CachesInv == Sound(Caches)

---------------------------------------------------------------------------
(* The key of a query (lookupAssignment) is satisfied by the query's       *)
(* counterexamples and by nothing else.                                    *)
LEMMA KeyModels ==
  ASSUME NEW c \in Lists, NEW e \in Expr, NEW a \in Assignments
  PROVE  satisfies(a, Key(c, e)) <=> a \in Models(c) \ Holds[e]
<1>1. c \in Seq(Expr)
  BY CacheAssumption, Zenon
<1>2. \A i \in DOMAIN c : c[i] \in Expr
  BY <1>1
<1>3. a \in Holds[IsZero[e]] <=> a \notin Holds[e]
  BY CacheAssumption
<1>4. a \in Holds[TrueExpr]
  BY CacheAssumption, Zenon
<1>5. CASE IsZero[e] = TrueExpr
  BY <1>2, <1>3, <1>4, <1>5, Zenon DEF Key, satisfies, Models
<1>6. CASE IsZero[e] # TrueExpr
  BY <1>2, <1>3, <1>6, Zenon DEF Key, satisfies, Models
<1> QED
  BY <1>5, <1>6, Zenon

(* Whatever the search of the counterexample cache finds, under the key    *)
(* itself, a superset, a subset or the table, is right for the key.        *)
LEMMA SearchRight ==
  ASSUME NEW s, CexSound(s), NEW key, NEW a \in searchForAssignment(s, key)
  PROVE  Right(a, key)
<1> USE DEF Right, CexSound
<1>1. CASE key \in DOMAIN s.cex
  BY <1>1, Zenon DEF searchForAssignment
<1>2. CASE /\ key \notin DOMAIN s.cex
           /\ \E k \in DOMAIN s.cex :
                key \subseteq k /\ s.cex[k] # None /\ a = s.cex[k]
  BY <1>2, Zenon DEF satisfies
<1>3. CASE /\ key \notin DOMAIN s.cex
           /\ \E k \in DOMAIN s.cex :
                /\ k \subseteq key /\ a = s.cex[k]
                /\ s.cex[k] = None \/ satisfies(s.cex[k], key)
  BY <1>3, Zenon DEF satisfies
<1>4. CASE a \in s.table /\ satisfies(a, key)
  BY <1>4, CacheAssumption, ZenonT(30)
<1>5. \/ key \in DOMAIN s.cex
      \/ /\ key \notin DOMAIN s.cex
         /\ \E k \in DOMAIN s.cex :
               key \subseteq k /\ s.cex[k] # None /\ a = s.cex[k]
      \/ /\ key \notin DOMAIN s.cex
         /\ \E k \in DOMAIN s.cex :
               /\ k \subseteq key /\ a = s.cex[k]
               /\ s.cex[k] = None \/ satisfies(s.cex[k], key)
      \/ a \in s.table /\ satisfies(a, key)
  BY Zenon DEF searchForAssignment
<1> QED
  BY <1>1, <1>2, <1>3, <1>4, <1>5, Zenon

(* The assignment handed out for a query: none exactly when the query is   *)
(* valid, one of its counterexamples otherwise.                            *)
RightFor(a, c, e) ==
  IF a = None THEN Models(c) \subseteq Holds[e] ELSE a \in Models(c) \ Holds[e]

(* A look into the counterexample cache answers for the query asked        *)
(* (lookupAssignment), the constant expressions included.                  *)
LEMMA LookupRight ==
  ASSUME NEW s, CexSound(s), NEW c \in Lists, NEW e \in Expr,
         NEW a \in lookupAssignment(s, c, e)
  PROVE  RightFor(a, c, e)
<1>1. Models(c) \subseteq Assignments
  BY Zenon DEF Models
<1>2. CASE IsZero[e] = FalseExpr
  <2>1. Assignments \ Holds[e] = {}
    BY <1>2, CacheAssumption, Zenon
  <2> QED
    BY <1>1, <1>2, <2>1, Zenon DEF lookupAssignment, RightFor
<1>3. CASE IsZero[e] # FalseExpr
  <2>1. Right(a, Key(c, e))
    BY <1>3, SearchRight, Zenon DEF lookupAssignment
  <2> QED
    BY <1>1, <2>1, KeyModels, Zenon DEF Right, RightFor
<1> QED
  BY <1>2, <1>3, Zenon

(* getAssignment keeps the counterexample cache sound, leaves the validity *)
(* cache alone, and its assignment is right for the query.                 *)
LEMMA GetRight ==
  ASSUME NEW s, CexSound(s), NEW c \in Lists, NEW e \in Expr,
         NEW o \in getAssignment(s, c, e)
  PROVE  /\ CexSound(o.s)
         /\ o.s.cache = s.cache
         /\ o.ok => RightFor(o.result, c, e)
<1>1. CASE o \in Fails(s)
  BY <1>1 DEF Fails, Outcome
<1>2. CASE \E a \in lookupAssignment(s, c, e) : o = Outcome(TRUE, a, s)
  BY <1>2, LookupRight DEF Outcome
<1>3. CASE \E a \in computeInitialValuesBelow(c, e) :
             o = Outcome(TRUE, a, memoize(s, Key(c, e), a))
  <2>1. PICK a \in computeInitialValuesBelow(c, e) :
               o = Outcome(TRUE, a, memoize(s, Key(c, e), a))
    BY <1>3, Zenon
  <2>2. Models(c) \subseteq Assignments
    BY Zenon DEF Models
  <2>3. RightFor(a, c, e)
    BY <2>2, CacheAssumption, Zenon DEF computeInitialValuesBelow, RightFor
  <2>4. Right(a, Key(c, e))
    BY <2>2, <2>3, KeyModels, Zenon DEF Right, RightFor
  <2>5. memoize(s, Key(c, e), a).table \subseteq Assignments
    BY <2>2, <2>3, Zenon DEF memoize, RightFor, CexSound
  <2>6. \A k \in DOMAIN Extend(s.cex, Key(c, e), a) :
           Right(Extend(s.cex, Key(c, e), a)[k], k)
    BY <2>4, Zenon DEF Extend, CexSound
  <2>7. CexSound(memoize(s, Key(c, e), a))
    BY <2>5, <2>6, Zenon DEF CexSound, memoize
  <2> QED
    BY <2>1, <2>3, <2>7, Zenon DEF Outcome, memoize
<1>4. \/ o \in Fails(s)
      \/ \E a \in lookupAssignment(s, c, e) : o = Outcome(TRUE, a, s)
      \/ \E a \in computeInitialValuesBelow(c, e) :
            o = Outcome(TRUE, a, memoize(s, Key(c, e), a))
  BY Zenon DEF getAssignment
<1> QED
  BY <1>1, <1>2, <1>3, <1>4, Zenon

(* What a layer answers about an expression. *)
TruthRight(r, c, e) == r = IF Models(c) \subseteq Holds[e] THEN "True" ELSE "NotTrue"

(* CexCachingSolver::computeTruth is right. *)
LEMMA CexTruthRight ==
  ASSUME NEW s, CexSound(s), NEW c \in Lists, NEW e \in Expr,
         NEW o \in cexTruth(s, c, e)
  PROVE  /\ CexSound(o.s)
         /\ o.s.cache = s.cache
         /\ o.ok => TruthRight(o.result, c, e)
<1>1. CASE o \in Fails(s)
  BY <1>1 DEF Fails, Outcome
<1>2. CASE \E g \in getAssignment(s, c, e) : o = Answer(g, "True", "NotTrue")
  <2>1. PICK g \in getAssignment(s, c, e) : o = Answer(g, "True", "NotTrue")
    BY <1>2, Zenon
  <2>2. /\ CexSound(g.s)
        /\ g.s.cache = s.cache
        /\ g.ok => RightFor(g.result, c, e)
    BY GetRight, Zenon
  <2>3. CASE ~g.ok
    BY <2>1, <2>2, <2>3, Zenon DEF Answer
  <2>4. CASE g.ok
    <3>1. /\ o.s = g.s
          /\ o.result = IF g.result = None THEN "True" ELSE "NotTrue"
      BY <2>1, <2>4, Zenon DEF Answer, Outcome
    <3>2. (g.result = None) <=> Models(c) \subseteq Holds[e]
      BY <2>2, <2>4, Zenon DEF RightFor
    <3> QED
      BY <2>2, <3>1, <3>2, Zenon DEF TruthRight
  <2> QED
    BY <2>3, <2>4, Zenon
<1> QED
  BY <1>1, <1>2, Zenon DEF cexTruth

(* CexCachingSolver::computeValidity is right for constraints with a model:*)
(* the assertion on the first assignment holds, and the side it shows is   *)
(* the one that need not be asked.                                         *)
LEMMA CexValidityRight ==
  ASSUME NEW s, CexSound(s), NEW c \in Feasible, NEW e \in Expr,
         NEW o \in cexValidity(s, c, e)
  PROVE  /\ CexSound(o.s)
         /\ o.s.cache = s.cache
         /\ o.ok => o.result = Validity(c, e)
<1>1. c \in Lists /\ Models(c) # {} /\ Models(c) \subseteq Assignments
  BY Zenon DEF Feasible, Models
<1>2. FalseExpr \in Expr /\ Holds[FalseExpr] = {}
  BY CacheAssumption, Zenon
<1>3. IsZero[e] \in Expr /\ Holds[IsZero[e]] = Assignments \ Holds[e]
  BY CacheAssumption, Zenon
<1>4. PICK g \in getAssignment(s, c, FalseExpr) : o \in cexDecide(g, c, e)
  BY Zenon DEF cexValidity
<1>5. /\ CexSound(g.s)
      /\ g.s.cache = s.cache
      /\ g.ok => RightFor(g.result, c, FalseExpr)
  BY <1>1, <1>2, GetRight, Zenon
<1>6. CASE ~g.ok
  BY <1>4, <1>5, <1>6, Zenon DEF cexDecide
<1>7. ASSUME g.ok PROVE g.result # None /\ g.result \in Models(c)
  BY <1>1, <1>2, <1>5, <1>7, Zenon DEF RightFor
<1>8. CASE g.ok /\ g.result \in Holds[e]
  <2>1. PICK h \in getAssignment(g.s, c, e) : o = Answer(h, "True", "Unknown")
    BY <1>4, <1>7, <1>8, Zenon DEF cexDecide
  <2>2. /\ CexSound(h.s)
        /\ h.s.cache = s.cache
        /\ h.ok => RightFor(h.result, c, e)
    BY <1>1, <1>5, GetRight
  <2>3. CASE ~h.ok
    BY <2>1, <2>2, <2>3, Zenon DEF Answer
  <2>4. CASE h.ok
    <3>1. /\ o.s = h.s
          /\ o.result = IF h.result = None THEN "True" ELSE "Unknown"
      BY <2>1, <2>4, Zenon DEF Answer, Outcome
    <3>2. Models(c) \cap Holds[e] # {}
      BY <1>7, <1>8, Zenon
    <3>3. (h.result = None) <=> Models(c) \subseteq Holds[e]
      BY <2>2, <2>4, Zenon DEF RightFor
    <3> QED
      BY <2>2, <3>1, <3>2, <3>3, Zenon DEF Validity
  <2> QED
    BY <2>3, <2>4, Zenon
<1>9. CASE g.ok /\ g.result \notin Holds[e]
  <2>1. PICK h \in getAssignment(g.s, c, IsZero[e]) :
               o = Answer(h, "False", "Unknown")
    BY <1>4, <1>7, <1>9, Zenon DEF cexDecide
  <2>2. /\ CexSound(h.s)
        /\ h.s.cache = s.cache
        /\ h.ok => RightFor(h.result, c, IsZero[e])
    BY <1>1, <1>3, <1>5, GetRight
  <2>3. CASE ~h.ok
    BY <2>1, <2>2, <2>3, Zenon DEF Answer
  <2>4. CASE h.ok
    <3>1. /\ o.s = h.s
          /\ o.result = IF h.result = None THEN "False" ELSE "Unknown"
      BY <2>1, <2>4, Zenon DEF Answer, Outcome
    <3>2. ~(Models(c) \subseteq Holds[e])
      BY <1>7, <1>9, Zenon
    <3>3. (h.result = None) <=> Models(c) \cap Holds[e] = {}
      BY <1>1, <1>3, <2>2, <2>4, Zenon DEF RightFor
    <3> QED
      BY <2>2, <3>1, <3>2, <3>3, Zenon DEF Validity
  <2> QED
    BY <2>3, <2>4, Zenon
<1> QED
  BY <1>6, <1>8, <1>9, Zenon

---------------------------------------------------------------------------
(* Turning a partial validity round says of the negation what it said of   *)
(* the expression (negatePartialValidity).                                 *)
LEMMA NegationMeans ==
  ASSUME NEW c \in Lists, NEW e \in Expr, NEW pv
  PROVE  /\ Means(c, IsZero[e], pv) => Means(c, e, negatePartialValidity(pv))
         /\ Means(c, e, pv) => Means(c, IsZero[e], negatePartialValidity(pv))
<1>1. Holds[IsZero[e]] = Assignments \ Holds[e]
  BY CacheAssumption, Zenon
<1>2. Models(c) \subseteq Assignments
  BY Zenon DEF Models
<1>3. /\ (Models(c) \subseteq Holds[IsZero[e]]) <=> (Models(c) \cap Holds[e] = {})
      /\ (Models(c) \cap Holds[IsZero[e]] = {}) <=> (Models(c) \subseteq Holds[e])
  BY <1>1, <1>2, Zenon
<1> QED
  BY <1>3, Zenon DEF Means, negatePartialValidity

(* What cacheLookup finds holds of the query asked, canonical or not. *)
LEMMA CacheLookupRight ==
  ASSUME NEW s, CacheSound(s), NEW c \in Lists, NEW e \in Expr,
         cached(s, c, e)
  PROVE  Means(c, e, cacheLookup(s, c, e))
<1>1. canonicalizeQuery(e) \in Expr
  BY CacheAssumption, Zenon DEF canonicalizeQuery
<1>2. Means(c, canonicalizeQuery(e), s.cache[<<c, canonicalizeQuery(e)>>])
  BY <1>1, Zenon DEF cached, CacheSound
<1> QED
  BY <1>2, NegationMeans, Zenon DEF canonicalizeQuery, cacheLookup, Turned

(* An entry that holds of the query asked keeps the cache sound. *)
LEMMA CacheInsertSound ==
  ASSUME NEW s, Sound(s), NEW c \in Lists, NEW e \in Expr, NEW pv,
         Means(c, e, pv)
  PROVE  Sound(cacheInsert(s, c, e, pv))
<1>1. CASE cached(s, c, e)
  BY <1>1, Zenon DEF cacheInsert
<1>2. CASE ~cached(s, c, e)
  <2> DEFINE key == <<c, canonicalizeQuery(e)>>
             new == Extend(s.cache, key, Turned(e, pv))
  <2>1. Means(c, canonicalizeQuery(e), Turned(e, pv))
    BY NegationMeans, Zenon DEF canonicalizeQuery, Turned
  <2>2. ASSUME NEW d \in Lists, NEW q \in Expr, <<d, q>> \in DOMAIN new
        PROVE  Means(d, q, new[<<d, q>>])
    <3>1. CASE <<d, q>> = key
      <4>1. d = c /\ q = canonicalizeQuery(e)
        BY <3>1, Zenon
      <4>2. new[<<d, q>>] = Turned(e, pv)
        BY <3>1, Zenon DEF Extend
      <4> QED
        BY <2>1, <4>1, <4>2, Zenon
    <3>2. CASE <<d, q>> # key
      <4>1. <<d, q>> \in DOMAIN s.cache /\ new[<<d, q>>] = s.cache[<<d, q>>]
        BY <2>2, <3>2, Zenon DEF Extend
      <4> QED
        BY <4>1, Zenon DEF Sound, CacheSound
    <3> QED
      BY <3>1, <3>2, Zenon
  <2>3. cacheInsert(s, c, e, pv) = [cache |-> new, cex |-> s.cex, table |-> s.table]
    BY <1>2, Zenon DEF cacheInsert
  <2> HIDE DEF new
  <2>4. CacheSound(cacheInsert(s, c, e, pv))
    BY <2>2, <2>3 DEF CacheSound
  <2>5. CexSound(cacheInsert(s, c, e, pv))
    BY <2>3 DEF Sound, CexSound
  <2> QED
    BY <2>4, <2>5, Zenon DEF Sound
<1> QED
  BY <1>1, <1>2, Zenon

(* A layer that changes only the counterexample cache keeps both sound. *)
LEMMA BelowSound ==
  ASSUME NEW s, Sound(s), NEW t, CexSound(t), t.cache = s.cache
  PROVE  Sound(t)
BY Zenon DEF Sound, CacheSound

(* CachingSolver::computeTruth keeps the caches sound and is right. *)
LEMMA TruthLayer ==
  ASSUME NEW s, Sound(s), NEW c \in Feasible, NEW e \in Expr,
         NEW o \in computeTruth(s, c, e)
  PROVE  /\ Sound(o.s)
         /\ o.ok => TruthRight(o.result, c, e)
<1> DEFINE hit == cached(s, c, e)
           known == cacheLookup(s, c, e)
<1>1. c \in Lists /\ Models(c) # {}
  BY Zenon DEF Feasible
<1>2. ASSUME hit PROVE Means(c, e, known)
  BY <1>1, <1>2, CacheLookupRight, Zenon DEF Sound
<1>3. CASE hit /\ known # "MayBeTrue"
  <2>1. o = Outcome(TRUE, IF known = "MustBeTrue" THEN "True" ELSE "NotTrue", s)
    BY <1>3, Zenon DEF computeTruth
  <2>2. (known = "MustBeTrue") <=> Models(c) \subseteq Holds[e]
    BY <1>1, <1>2, <1>3, Zenon DEF Means
  <2> HIDE DEF known
  <2> QED
    BY <2>1, <2>2, Zenon DEF Outcome, TruthRight
<1>4. CASE ~(hit /\ known # "MayBeTrue")
  <2>1. PICK g \in cexTruth(s, c, e) :
               o = Keep(g, c, e, IF g.result = "True" THEN "MustBeTrue"
                                 ELSE IF hit THEN "TrueOrFalse"
                                 ELSE "MayBeFalse")
    BY <1>4, Zenon DEF computeTruth
  <2>2. /\ CexSound(g.s) /\ g.s.cache = s.cache
        /\ g.ok => TruthRight(g.result, c, e)
    BY <1>1, CexTruthRight, ZenonT(30) DEF Sound
  <2>3. Sound(g.s)
    BY <2>2, BelowSound, ZenonT(30)
  <2>4. CASE ~g.ok
    BY <2>1, <2>3, <2>4, Zenon DEF Keep
  <2>5. CASE g.ok
    <3> DEFINE pv == IF g.result = "True" THEN "MustBeTrue"
                     ELSE IF hit THEN "TrueOrFalse" ELSE "MayBeFalse"
    <3>1. Means(c, e, pv)
      BY <1>2, <1>4, <2>2, <2>5, Zenon DEF Means, TruthRight
    <3>2. o = Outcome(TRUE, g.result, cacheInsert(g.s, c, e, pv))
      BY <2>1, <2>5, Zenon DEF Keep
    <3> HIDE DEF pv
    <3>3. Sound(cacheInsert(g.s, c, e, pv))
      BY <1>1, <2>3, <3>1, CacheInsertSound, Zenon
    <3> QED
      BY <2>2, <2>5, <3>2, <3>3, Zenon DEF Outcome
  <2> QED
    BY <2>4, <2>5, Zenon
<1> QED
  BY <1>3, <1>4, Zenon

(* One side of the query e is known: the truth of q, which is e or its     *)
(* negation, decides, and the decision is entered.                         *)
LEMMA SettleRight ==
  ASSUME NEW s, Sound(s), NEW c \in Feasible, NEW e \in Expr, NEW q \in Expr,
         NEW must, NEW verdict,
         Models(c) \subseteq Holds[q] => /\ Means(c, e, must)
                                         /\ verdict = Validity(c, e),
         ~(Models(c) \subseteq Holds[q]) => /\ Means(c, e, "TrueOrFalse")
                                            /\ Validity(c, e) = "Unknown",
         NEW o \in settle(cexTruth(s, c, q), c, e, must, verdict)
  PROVE  /\ Sound(o.s)
         /\ o.ok => o.result = Validity(c, e)
<1>1. c \in Lists
  BY Zenon DEF Feasible
<1>2. PICK g \in cexTruth(s, c, q) :
             o = IF ~g.ok THEN g
                 ELSE IF g.result = "True"
                 THEN Outcome(TRUE, verdict, cacheInsert(g.s, c, e, must))
                 ELSE Outcome(TRUE, "Unknown", cacheInsert(g.s, c, e, "TrueOrFalse"))
  BY Zenon DEF settle
<1>3. /\ CexSound(g.s) /\ g.s.cache = s.cache
      /\ g.ok => TruthRight(g.result, c, q)
  BY <1>1, CexTruthRight DEF Sound
<1>4. Sound(g.s)
  BY <1>3, BelowSound, Zenon
<1>5. CASE ~g.ok
  BY <1>2, <1>4, <1>5, Zenon
<1>6. CASE g.ok /\ g.result = "True"
  <2>1. Means(c, e, must) /\ verdict = Validity(c, e)
    BY <1>3, <1>6, Zenon DEF TruthRight
  <2>2. Sound(cacheInsert(g.s, c, e, must))
    BY <1>1, <1>4, <2>1, CacheInsertSound, Zenon
  <2> QED
    BY <1>2, <1>6, <2>1, <2>2, Zenon DEF Outcome
<1>7. CASE g.ok /\ g.result # "True"
  <2>1. Means(c, e, "TrueOrFalse") /\ Validity(c, e) = "Unknown"
    BY <1>3, <1>7, Zenon DEF TruthRight
  <2>2. Sound(cacheInsert(g.s, c, e, "TrueOrFalse"))
    BY <1>1, <1>4, <2>1, CacheInsertSound, Zenon
  <2> QED
    BY <1>2, <1>7, <2>1, <2>2, Zenon DEF Outcome
<1> QED
  BY <1>5, <1>6, <1>7, Zenon

(* CachingSolver::computeValidity keeps the caches sound and is right. *)
LEMMA ValidityLayer ==
  ASSUME NEW s, Sound(s), NEW c \in Feasible, NEW e \in Expr,
         NEW o \in computeValidity(s, c, e)
  PROVE  /\ Sound(o.s)
         /\ o.ok => o.result = Validity(c, e)
<1>1. c \in Lists /\ Models(c) # {} /\ Models(c) \subseteq Assignments
  BY Zenon DEF Feasible, Models
<1>2. IsZero[e] \in Expr /\ Holds[IsZero[e]] = Assignments \ Holds[e]
  BY CacheAssumption, Zenon
<1>3. CASE ~cached(s, c, e)
  <2> DEFINE pv(g) == CASE g.result = "True" -> "MustBeTrue"
                        [] g.result = "False" -> "MustBeFalse"
                        [] OTHER -> "TrueOrFalse"
  <2>1. PICK g \in cexValidity(s, c, e) : o = Keep(g, c, e, pv(g))
    BY <1>3, Zenon DEF computeValidity
  <2>2. /\ CexSound(g.s) /\ g.s.cache = s.cache
        /\ g.ok => g.result = Validity(c, e)
    BY CexValidityRight DEF Sound
  <2>3. Sound(g.s)
    BY <2>2, BelowSound, Zenon
  <2>4. CASE ~g.ok
    BY <2>1, <2>3, <2>4, Zenon DEF Keep
  <2>5. CASE g.ok
    <3>1. Means(c, e, pv(g))
      BY <1>1, <2>2, <2>5, Zenon DEF Means, Validity
    <3>2. o = Outcome(TRUE, g.result, cacheInsert(g.s, c, e, pv(g)))
      BY <2>1, <2>5, Zenon DEF Keep
    <3> HIDE DEF pv
    <3>3. Sound(cacheInsert(g.s, c, e, pv(g)))
      BY <1>1, <2>3, <3>1, CacheInsertSound, Zenon
    <3> QED
      BY <2>2, <2>5, <3>2, <3>3, Zenon DEF Outcome
  <2> QED
    BY <2>4, <2>5, Zenon
<1>4. CASE cached(s, c, e)
  <2> DEFINE known == cacheLookup(s, c, e)
  <2>1. Means(c, e, known)
    BY <1>1, <1>4, CacheLookupRight, Zenon DEF Sound
  <2>2. CASE known = "MustBeTrue"
    <3>1. o = Outcome(TRUE, "True", s)
      BY <1>4, <2>2, Zenon DEF computeValidity
    <3>2. Validity(c, e) = "True"
      BY <2>1, <2>2, Zenon DEF Means, Validity
    <3> QED
      BY <3>1, <3>2, Zenon DEF Outcome
  <2>3. CASE known = "MustBeFalse"
    <3>1. o = Outcome(TRUE, "False", s)
      BY <1>4, <2>3, Zenon DEF computeValidity
    <3>2. Validity(c, e) = "False"
      BY <1>1, <2>1, <2>3, Zenon DEF Means, Validity
    <3> QED
      BY <3>1, <3>2, Zenon DEF Outcome
  <2>4. CASE known = "MayBeTrue"
    <3>1. o \in settle(cexTruth(s, c, e), c, e, "MustBeTrue", "True")
      BY <1>4, <2>4, Zenon DEF computeValidity
    <3>2. Models(c) \cap Holds[e] # {}
      BY <2>1, <2>4, Zenon DEF Means
    <3>3. Models(c) \subseteq Holds[e] => /\ Means(c, e, "MustBeTrue")
                                          /\ "True" = Validity(c, e)
      BY Zenon DEF Means, Validity
    <3>4. ~(Models(c) \subseteq Holds[e]) => /\ Means(c, e, "TrueOrFalse")
                                             /\ Validity(c, e) = "Unknown"
      BY <3>2, Zenon DEF Means, Validity
    <3> QED
      BY <3>1, <3>3, <3>4, SettleRight
  <2>5. CASE known = "MayBeFalse"
    <3>1. o \in settle(cexTruth(s, c, IsZero[e]), c, e, "MustBeFalse", "False")
      BY <1>4, <2>5, Zenon DEF computeValidity
    <3>2. ~(Models(c) \subseteq Holds[e])
      BY <2>1, <2>5, Zenon DEF Means
    <3>3. (Models(c) \subseteq Holds[IsZero[e]]) <=> (Models(c) \cap Holds[e] = {})
      BY <1>1, <1>2, Zenon
    <3>4. Models(c) \subseteq Holds[IsZero[e]] => /\ Means(c, e, "MustBeFalse")
                                                  /\ "False" = Validity(c, e)
      BY <3>2, <3>3, Zenon DEF Means, Validity
    <3>5. ~(Models(c) \subseteq Holds[IsZero[e]]) => /\ Means(c, e, "TrueOrFalse")
                                                     /\ Validity(c, e) = "Unknown"
      BY <3>2, <3>3, Zenon DEF Means, Validity
    <3> QED
      BY <1>2, <3>1, <3>4, <3>5, SettleRight
  <2>6. CASE known = "TrueOrFalse"
    <3>1. o = Outcome(TRUE, "Unknown", s)
      BY <1>4, <2>6, Zenon DEF computeValidity
    <3>2. Validity(c, e) = "Unknown"
      BY <2>1, <2>6, Zenon DEF Means, Validity
    <3> QED
      BY <3>1, <3>2, Zenon DEF Outcome
  <2> QED
    BY <2>1, <2>2, <2>3, <2>4, <2>5, <2>6, Zenon DEF Means
<1> QED
  BY <1>3, <1>4, Zenon

---------------------------------------------------------------------------
(* Sound entries are an invariant of both caches: no query, answered or    *)
(* failed, of a feasible or a speculative state, enters a wrong one.       *)
THEOREM CachesInvariant == Spec => []CachesInv
<1>1. Init => CachesInv
  BY DEF Init, CachesInv, Sound, CexSound, CacheSound, Caches
<1>2. CachesInv /\ [Next]_vars => CachesInv'
  <2> SUFFICES ASSUME CachesInv, [Next]_vars PROVE CachesInv'
    BY Zenon
  <2>1. ASSUME NEW s, Sound(s), Install(s) PROVE CachesInv'
    BY <2>1, Zenon DEF Install, CachesInv, Caches, Sound, CexSound, CacheSound
  <2>2. Sound(Caches) /\ CexSound(Caches)
    BY Zenon DEF CachesInv, Sound
  <2>3. Queries \subseteq Expr /\ FalseExpr \in Expr /\ Feasible \subseteq Lists
    BY CacheAssumption, Zenon DEF Feasible
  <2>4. ASSUME NEW c \in Lists, NEW o \in getAssignment(Caches, c, FalseExpr),
               Install(o.s)
        PROVE  CachesInv'
    BY <2>1, <2>2, <2>3, <2>4, GetRight, BelowSound
  <2>5. CASE Evaluate
    BY <2>1, <2>2, <2>3, <2>5, ValidityLayer, Zenon DEF Evaluate
  <2>6. CASE MustBeTrue
    BY <2>1, <2>2, <2>3, <2>6, TruthLayer, Zenon DEF MustBeTrue
  <2>7. CASE GetValue
    BY <2>3, <2>4, <2>7, Zenon DEF GetValue
  <2>8. CASE GetInitialValues
    BY <2>4, <2>8, Zenon DEF GetInitialValues
  <2>9. CASE UNCHANGED vars
    BY <2>9, Zenon DEF vars, CachesInv, Caches, Sound, CexSound, CacheSound
  <2> QED
    BY <2>5, <2>6, <2>7, <2>8, <2>9, Zenon DEF Next
<1> QED
  BY <1>1, <1>2, PTL DEF Spec

(* Every answer of computeValidity and computeTruth is what the            *)
(* constraints imply, whatever the caches hold.                            *)
THEOREM AnswersAreTrue == Spec => []AnswersTrue
<1>1. CachesInv => AnswersTrue
  <2> SUFFICES ASSUME CachesInv, NEW c \in Feasible, NEW e \in Queries
               PROVE  /\ \A o \in computeValidity(Caches, c, e) :
                           o.ok => o.result = Validity(c, e)
                      /\ \A o \in computeTruth(Caches, c, e) :
                           o.ok => (o.result = "True") = (Validity(c, e) = "True")
    BY Zenon DEF AnswersTrue
  <2>1. Sound(Caches) /\ e \in Expr
    BY CacheAssumption, Zenon DEF CachesInv
  <2>2. ASSUME NEW o \in computeTruth(Caches, c, e), o.ok
        PROVE  (o.result = "True") = (Validity(c, e) = "True")
    <3>1. TruthRight(o.result, c, e)
      BY <2>1, <2>2, TruthLayer, Zenon
    <3> QED
      BY <3>1, Zenon DEF TruthRight, Validity
  <2> QED
    BY <2>1, <2>2, ValidityLayer, Zenon
<1> QED
  BY <1>1, CachesInvariant, PTL

(* Every assignment handed out is a model of the constraints, and none is  *)
(* handed out exactly when they have no model.                             *)
THEOREM ModelsAreReal == Spec => []ModelsReal
<1>1. CachesInv => ModelsReal
  <2> SUFFICES ASSUME CachesInv, NEW c \in Lists,
                      NEW o \in getAssignment(Caches, c, FalseExpr), o.ok
               PROVE  IF Models(c) = {} THEN o.result = None
                      ELSE o.result \in Models(c)
    BY Zenon DEF ModelsReal
  <2>1. FalseExpr \in Expr /\ Holds[FalseExpr] = {}
    BY CacheAssumption, Zenon
  <2>2. RightFor(o.result, c, FalseExpr)
    BY <2>1, GetRight, Zenon DEF CachesInv, Sound
  <2> QED
    BY <2>1, <2>2, Zenon DEF RightFor
<1> QED
  BY <1>1, CachesInvariant, PTL

---------------------------------------------------------------------------
(* The slicing. *)

(* The bytes an IndependentElementSet stands for. *)
Covers(x) == {b \in Bytes : b[1] \in x.wholeObjects \/ b \in x.elements}

IsElementSet(x) == x.wholeObjects \subseteq Arrays /\ x.elements \subseteq Bytes

(* The closure covers the query and what was collected; nothing is lost    *)
(* between the lists; and as long as a pass has not grown the closure,     *)
(* what it set aside is disjoint from it.                                  *)
SlicingInv ==
  /\ constraints \in Constraints /\ IndModels(constraints) # {}
  /\ expr \in IndExpr
  /\ IsElementSet(closure)
  /\ DOMAIN constraints = worklist \cup newWorklist \cup result
  /\ Depends(expr) \subseteq Covers(closure)
  /\ \A i \in result : Depends(constraints[i]) \subseteq Covers(closure)
  /\ done => \A i \in newWorklist :
               Depends(constraints[i]) \cap Covers(closure) = {}
  /\ pc = "ask" =>
       /\ newWorklist = {}
       /\ \A i \in worklist : Depends(constraints[i]) \cap Covers(closure) = {}
  /\ done \in BOOLEAN

(* The element set of an expression covers exactly the bytes it depends    *)
(* on.                                                                     *)
LEMMA ElementSet ==
  ASSUME NEW e \in IndExpr
  PROVE  /\ IsElementSet(IndependentElementSet(e))
         /\ Covers(IndependentElementSet(e)) = Depends(e)
BY Zenon DEF IsElementSet, IndependentElementSet, Covers, Depends, Bytes

(* Two element sets that do not intersect stand for disjoint bytes. *)
LEMMA IntersectsRight ==
  ASSUME NEW x, NEW y, IsElementSet(x), IsElementSet(y), ~intersects(x, y)
  PROVE  Covers(x) \cap Covers(y) = {}
BY Zenon DEF IsElementSet, intersects, Covers, Bytes

(* add covers what its arguments cover, and when it reports no change      *)
(* there was none.                                                         *)
LEMMA AddCovers ==
  ASSUME NEW x, NEW y, IsElementSet(x), IsElementSet(y)
  PROVE  /\ IsElementSet(add(x, y))
         /\ Covers(x) \subseteq Covers(add(x, y))
         /\ Covers(y) \subseteq Covers(add(x, y))
         /\ ~modified(x, y) => Covers(add(x, y)) \subseteq Covers(x)
<1>1. IsElementSet(add(x, y))
  BY Zenon DEF IsElementSet, add
<1>2. Covers(x) \subseteq Covers(add(x, y)) /\ Covers(y) \subseteq Covers(add(x, y))
  BY Zenon DEF Covers, add
<1>3. ASSUME ~modified(x, y) PROVE Covers(add(x, y)) \subseteq Covers(x)
  BY <1>3, Zenon DEF Covers, add, modified
<1> QED
  BY <1>1, <1>2, <1>3, Zenon

(* The loop keeps SlicingInv. *)
THEOREM SlicingInvariant == IndSpec => []SlicingInv
<1>1. IndInit => SlicingInv
  <2> SUFFICES ASSUME IndInit PROVE SlicingInv
    BY Zenon
  <2>1. expr \in IndExpr /\ constraints \in Constraints /\ IndModels(constraints) # {}
    BY IndependentAssumption, Zenon DEF IndInit
  <2>2. IsElementSet(closure) /\ Depends(expr) \subseteq Covers(closure)
    BY <2>1, ElementSet, Zenon DEF IndInit
  <2> QED
    BY <2>1, <2>2, Zenon DEF IndInit, SlicingInv
<1>2. SlicingInv /\ [IndNext]_indVars => SlicingInv'
  <2> SUFFICES ASSUME SlicingInv, [IndNext]_indVars PROVE SlicingInv'
    BY Zenon
  <2>1. CASE Visit
    <3>1. PICK i \in worklist :
            LET elts == IndependentElementSet(constraints[i])
            IN /\ worklist' = worklist \ {i}
               /\ IF intersects(elts, closure)
                  THEN /\ closure' = add(closure, elts)
                       /\ done' = (done /\ ~modified(closure, elts))
                       /\ result' = result \cup {i}
                       /\ UNCHANGED newWorklist
                  ELSE /\ newWorklist' = newWorklist \cup {i}
                       /\ UNCHANGED <<closure, done, result>>
      BY <2>1, Zenon DEF Visit
    <3> DEFINE elts == IndependentElementSet(constraints[i])
    <3>2. pc = "pass" /\ UNCHANGED <<constraints, expr, pc>>
      BY <2>1, Zenon DEF Visit
    <3>3. constraints[i] \in IndExpr
      BY IndependentAssumption, Zenon DEF SlicingInv
    <3>4. IsElementSet(elts) /\ Covers(elts) = Depends(constraints[i])
      BY <3>3, ElementSet, Zenon
    <3>5. CASE intersects(elts, closure)
      <4>1. /\ closure' = add(closure, elts)
            /\ done' = (done /\ ~modified(closure, elts))
            /\ result' = result \cup {i}
            /\ worklist' = worklist \ {i}
            /\ newWorklist' = newWorklist
        BY <3>1, <3>5, Zenon
      <4>2. /\ IsElementSet(closure')
            /\ Covers(closure) \subseteq Covers(closure')
            /\ Covers(elts) \subseteq Covers(closure')
            /\ ~modified(closure, elts) => Covers(closure') \subseteq Covers(closure)
        BY <3>4, <4>1, AddCovers, Zenon DEF SlicingInv
      <4> HIDE DEF elts
      <4>3. DOMAIN constraints' = worklist' \cup newWorklist' \cup result'
        BY <3>2, <4>1, Zenon DEF SlicingInv
      <4>4. /\ Depends(expr)' \subseteq Covers(closure')
            /\ \A j \in result' : Depends(constraints'[j]) \subseteq Covers(closure')
        BY <3>2, <3>4, <4>1, <4>2, Zenon DEF SlicingInv, Depends
      <4>5. done' => \A j \in newWorklist' :
                       Depends(constraints'[j]) \cap Covers(closure') = {}
        BY <3>2, <4>1, <4>2, Zenon DEF SlicingInv
      <4>6. done' \in BOOLEAN
        BY <4>1, Zenon
      <4> QED
        BY <3>2, <4>2, <4>3, <4>4, <4>5, <4>6, Zenon DEF SlicingInv, Covers, IndModels, Depends, IsElementSet
    <3>6. CASE ~intersects(elts, closure)
      <4>1. /\ newWorklist' = newWorklist \cup {i}
            /\ worklist' = worklist \ {i}
            /\ UNCHANGED <<closure, done, result>>
        BY <3>1, <3>6, Zenon
      <4>2. Depends(constraints[i]) \cap Covers(closure) = {}
        BY <3>4, <3>6, IntersectsRight, Zenon DEF SlicingInv
      <4> HIDE DEF elts
      <4> QED
        BY <3>2, <4>1, <4>2 DEF SlicingInv, Covers, IndModels, Depends, IsElementSet
    <3> QED
      BY <3>5, <3>6, Zenon
  <2>2. CASE EndPass
    BY <2>2, Zenon DEF EndPass, SlicingInv, Covers, IndModels, Depends, IsElementSet
  <2>3. CASE UNCHANGED indVars
    BY <2>3, Zenon DEF indVars, SlicingInv, Covers, IndModels, Depends, IsElementSet
  <2> QED
    BY <2>1, <2>2, <2>3, Zenon DEF IndNext
<1> QED
  BY <1>1, <1>2, PTL DEF IndSpec

(* A model of the collected constraints, changed outside the closure into  *)
(* a model of the whole list, is a model of the whole list.                *)
LEMMA Extends ==
  ASSUME SlicingInv, pc = "ask", NEW a \in Required
  PROVE  \E b \in IndModels(constraints) : \A x \in Depends(expr) : a[x] = b[x]
<1>1. PICK m : m \in IndModels(constraints)
  BY Zenon DEF SlicingInv
<1> DEFINE b == [x \in Bytes |-> IF x \in Covers(closure) THEN a[x] ELSE m[x]]
<1>2. a \in IndAssignments /\ m \in IndAssignments /\ b \in IndAssignments
  BY <1>1, Zenon DEF Required, IndModels, IndAssignments
<1>3. \A i \in DOMAIN constraints : constraints[i] \in IndExpr
  BY IndependentAssumption, Zenon DEF SlicingInv
<1>4. \A e : Depends(e) \subseteq Bytes
  BY Zenon DEF Depends
<1>5. ASSUME NEW i \in DOMAIN constraints PROVE b \in IndHolds[constraints[i]]
  <2>1. CASE i \in result
    <3>1. \A x \in Depends(constraints[i]) : a[x] = b[x]
      BY <1>4, <2>1, Zenon DEF SlicingInv
    <3>2. a \in IndHolds[constraints[i]]
      BY <2>1, Zenon DEF Required
    <3> HIDE DEF b
    <3> QED
      BY <1>2, <1>3, <3>1, <3>2, IndependentAssumption, Zenon
  <2>2. CASE i \in worklist
    <3>1. \A x \in Depends(constraints[i]) : m[x] = b[x]
      BY <1>4, <2>2, Zenon DEF SlicingInv
    <3>2. m \in IndHolds[constraints[i]]
      BY <1>1, Zenon DEF IndModels
    <3> HIDE DEF b
    <3> QED
      BY <1>2, <1>3, <3>1, <3>2, IndependentAssumption, Zenon
  <2> QED
    BY <2>1, <2>2, Zenon DEF SlicingInv
<1>6. \A x \in Depends(expr) : a[x] = b[x]
  BY <1>4, Zenon DEF SlicingInv
<1> HIDE DEF b
<1>7. b \in IndModels(constraints)
  BY <1>2, <1>5, Zenon DEF IndModels
<1> QED
  BY <1>6, <1>7, Zenon

(* Every model of the collected constraints agrees with a model of the     *)
(* state on the bytes the query reads.                                     *)
THEOREM ModelsDoExtend == IndSpec => []ModelsExtend
<1>1. SlicingInv => ModelsExtend
  BY Extends, Zenon DEF ModelsExtend
<1> QED
  BY <1>1, SlicingInvariant, PTL

(* The query sent on has the validity of the query asked. *)
THEOREM ValidityUnchanged == IndSpec => []SameValidity
<1>1. SlicingInv => SameValidity
  <2> SUFFICES ASSUME SlicingInv, pc = "ask"
               PROVE  /\ Required \subseteq IndHolds[expr]
                           <=> IndModels(constraints) \subseteq IndHolds[expr]
                      /\ Required \cap IndHolds[expr] = {}
                           <=> IndModels(constraints) \cap IndHolds[expr] = {}
    BY Zenon DEF SameValidity
  <2>1. IndModels(constraints) \subseteq Required
    BY Zenon DEF SlicingInv, IndModels, Required
  <2>2. IndModels(constraints) \subseteq IndAssignments /\ Required \subseteq IndAssignments
    BY Zenon DEF IndModels, Required
  <2>3. ASSUME NEW a \in Required
        PROVE  \E b \in IndModels(constraints) :
                 a \in IndHolds[expr] <=> b \in IndHolds[expr]
    <3>1. PICK b \in IndModels(constraints) : \A x \in Depends(expr) : a[x] = b[x]
      BY Extends, Zenon
    <3>2. (a \in IndHolds[expr]) = (b \in IndHolds[expr])
      BY <2>2, <3>1, IndependentAssumption, Zenon DEF SlicingInv
    <3> QED
      BY <3>2, Zenon
  <2> QED
    BY <2>1, <2>3, Zenon
<1> QED
  BY <1>1, SlicingInvariant, PTL

=============================================================================
