---------------------------- MODULE SolverCache ----------------------------
(***************************************************************************)
(* The two caches between KLEE and its constraint solver: the validity     *)
(* cache (CachingSolver.cpp) and, below it, the counterexample cache       *)
(* (CexCachingSolver.cpp).  Both live as long as the process and are never *)
(* emptied, so one wrong entry misleads every later fork.                  *)
(*                                                                         *)
(* An expression is a name; Holds gives the assignments that make it true, *)
(* and IsZero is Expr::createIsZero, which keeps the meaning of the        *)
(* negation and nothing of its shape: negating twice need not give the     *)
(* first expression back.  A query is a list of constraints and an         *)
(* expression.  Only a speculative state is asked about constraints that   *)
(* may have no model.  The solver below (STP) is external: it answers any  *)
(* counterexample of the query, or fails.                                  *)
(***************************************************************************)
EXTENDS Sequences

CONSTANTS
  Expr,          \* Boolean expressions, the constants included
  TrueExpr,      \* the constant 1
  FalseExpr,     \* the constant 0
  Assignments,   \* the values of the symbolic objects
  Holds,         \* what makes an expression true
  IsZero,        \* Expr::createIsZero
  Smaller,       \* expressions that compare below their negation
  Queries,       \* the expressions asked about
  Lists,         \* the constraint lists of the queries
  None,          \* the null Assignment*
  CoreFails,     \* may the solver below fail (a timeout)?
  CexCacheTryAll,
  CexCacheExperimental

Models(c) == {a \in Assignments : \A i \in DOMAIN c : a \in Holds[c[i]]}

ASSUME CacheAssumption ==
  /\ TrueExpr \in Expr /\ FalseExpr \in Expr
  /\ Holds \in [Expr -> SUBSET Assignments]
  /\ Holds[TrueExpr] = Assignments /\ Holds[FalseExpr] = {}
  /\ IsZero \in [Expr -> Expr]
  /\ \A e \in Expr : Holds[IsZero[e]] = Assignments \ Holds[e]
  /\ IsZero[FalseExpr] = TrueExpr
  /\ Smaller \subseteq Expr
  /\ Queries \subseteq Expr \ {TrueExpr, FalseExpr}
  /\ Lists \subseteq Seq(Expr)
  /\ None \notin Assignments
  /\ CoreFails \in BOOLEAN
  /\ CexCacheTryAll \in BOOLEAN
  /\ CexCacheExperimental \in BOOLEAN

VARIABLES
  cache,   \* CachingSolver::cache
  cex,     \* CexCachingSolver::cache
  table    \* CexCachingSolver::assignmentsTable

vars == <<cache, cex, table>>

(* Without CexCacheTryAll nothing reads the table. *)
Entries == <<cache, cex, IF CexCacheTryAll THEN table ELSE {}>>

(* The constraints of a state that is not speculative. *)
Feasible == {c \in Lists : Models(c) # {}}

(* What an operation returns: whether it succeeded, its result, and the    *)
(* caches it leaves.                                                       *)
Outcome(ok, result, s) == [ok |-> ok, result |-> result, s |-> s]
Fails(s) == {Outcome(FALSE, None, s)}

Extend(f, k, v) == [x \in DOMAIN f \cup {k} |-> IF x = k THEN v ELSE f[x]]

---------------------------------------------------------------------------
(* The counterexample cache. *)

(* The solver below: a counterexample of the query, None when it is valid. *)
computeInitialValuesBelow(c, e) ==
  LET counter == Models(c) \ Holds[e]
  IN IF counter = {} THEN {None} ELSE counter

satisfies(a, key) == \A e \in key : a \in Holds[e]

Key(c, e) ==
  LET neg == IsZero[e]
      constraints == {c[i] : i \in DOMAIN c}
  IN IF neg = TrueExpr THEN constraints ELSE constraints \cup {neg}

(* What the search may find; nothing is found when the set is empty.  The  *)
(* tree of sets answers the first match in its own order.                  *)
searchForAssignment(s, key) ==
  LET known == DOMAIN s.cex
      super == {k \in known : key \subseteq k /\ s.cex[k] # None}
      sub == {k \in known :
                /\ k \subseteq key
                /\ \/ s.cex[k] = None
                   \/ ~CexCacheTryAll /\ satisfies(s.cex[k], key)}
      some == IF super # {} THEN super ELSE sub
  IN IF key \in known THEN {s.cex[key]}
     ELSE IF some # {} THEN {s.cex[k] : k \in some}
     ELSE {a \in s.table : CexCacheTryAll /\ satisfies(a, key)}

lookupAssignment(s, c, e) ==
  IF IsZero[e] = FalseExpr THEN {None}
  ELSE searchForAssignment(s, Key(c, e))

memoize(s, key, a) ==
  [cache |-> s.cache,
   cex |-> Extend(s.cex, key, a),
   table |-> s.table \cup ({a} \ {None})]

getAssignment(s, c, e) ==
  LET found == lookupAssignment(s, c, e)
      asked == {Outcome(TRUE, a, memoize(s, Key(c, e), a)) :
                  a \in computeInitialValuesBelow(c, e)}
  IN IF found # {} THEN {Outcome(TRUE, a, s) : a \in found}
     ELSE asked \cup IF CoreFails THEN Fails(s) ELSE {}

(* A null assignment means one thing, a counterexample the other. *)
Answer(g, null, found) ==
  IF ~g.ok THEN g
  ELSE Outcome(TRUE, IF g.result = None THEN null ELSE found, g.s)

(* CexCachingSolver::computeTruth.  The experimental test looks whether    *)
(* the expression is known to be false, and then reports a failure.        *)
cexTruth(s, c, e) ==
  IF CexCacheExperimental /\ None \in lookupAssignment(s, c, IsZero[e])
  THEN Fails(s)
  ELSE {Answer(g, "True", "NotTrue") : g \in getAssignment(s, c, e)}

(* CexCachingSolver::computeValidity, after its first assignment. *)
cexDecide(g, c, e) ==
  IF ~g.ok THEN {g}
  ELSE IF g.result = None THEN {Outcome(TRUE, "AssertFails", g.s)}
  ELSE IF g.result \in Holds[e]
  THEN {Answer(h, "True", "Unknown") : h \in getAssignment(g.s, c, e)}
  ELSE {Answer(h, "False", "Unknown") : h \in getAssignment(g.s, c, IsZero[e])}

cexValidity(s, c, e) ==
  UNION {cexDecide(g, c, e) : g \in getAssignment(s, c, FalseExpr)}

---------------------------------------------------------------------------
(* The validity cache. *)

negatePartialValidity(pv) ==
  CASE pv = "MustBeTrue" -> "MustBeFalse"
    [] pv = "MustBeFalse" -> "MustBeTrue"
    [] pv = "MayBeTrue" -> "MayBeFalse"
    [] pv = "MayBeFalse" -> "MayBeTrue"
    [] OTHER -> "TrueOrFalse"

(* Of an expression and its negation, the smaller one is the key; the      *)
(* result is kept for the key, so it is turned round on the way in and out.*)
canonicalizeQuery(e) == IF e \in Smaller THEN e ELSE IsZero[e]

Turned(e, pv) == IF e \in Smaller THEN pv ELSE negatePartialValidity(pv)

cached(s, c, e) == <<c, canonicalizeQuery(e)>> \in DOMAIN s.cache

(* Mutant: the result of the key is returned for its negation. *)
cacheLookup_NotTurned(s, c, e) == s.cache[<<c, canonicalizeQuery(e)>>]

cacheLookup(s, c, e) == Turned(e, s.cache[<<c, canonicalizeQuery(e)>>])

(* std::map::insert: an entry already there stays. *)
cacheInsert(s, c, e, pv) ==
  IF cached(s, c, e) THEN s
  ELSE [cache |-> Extend(s.cache, <<c, canonicalizeQuery(e)>>, Turned(e, pv)),
        cex |-> s.cex,
        table |-> s.table]

(* A result of the layer below, kept as pv(result). *)
Keep(g, c, e, pv) ==
  IF g.ok THEN Outcome(TRUE, g.result, cacheInsert(g.s, c, e, pv)) ELSE g

(* CachingSolver::computeTruth. *)
computeTruth(s, c, e) ==
  LET hit == cached(s, c, e)
      known == cacheLookup(s, c, e)
  IN IF hit /\ known # "MayBeTrue"
     THEN {Outcome(TRUE, IF known = "MustBeTrue" THEN "True" ELSE "NotTrue", s)}
     ELSE {Keep(g, c, e, IF g.result = "True" THEN "MustBeTrue"
                         ELSE IF hit THEN "TrueOrFalse"
                         ELSE "MayBeFalse") :
             g \in cexTruth(s, c, e)}

(* CachingSolver::computeValidity when only one side is known: the layer   *)
(* below decides whether it is more than that.                             *)
settle(gs, c, e, must, result) ==
  {IF ~g.ok THEN g
   ELSE IF g.result = "True"
   THEN Outcome(TRUE, result, cacheInsert(g.s, c, e, must))
   ELSE Outcome(TRUE, "Unknown", cacheInsert(g.s, c, e, "TrueOrFalse")) :
     g \in gs}

(* CachingSolver::computeValidity. *)
computeValidity(s, c, e) ==
  IF ~cached(s, c, e)
  THEN {Keep(g, c, e, CASE g.result = "True" -> "MustBeTrue"
                        [] g.result = "False" -> "MustBeFalse"
                        [] OTHER -> "TrueOrFalse") :
          g \in cexValidity(s, c, e)}
  ELSE CASE cacheLookup(s, c, e) = "MustBeTrue" -> {Outcome(TRUE, "True", s)}
         [] cacheLookup(s, c, e) = "MustBeFalse" -> {Outcome(TRUE, "False", s)}
         [] cacheLookup(s, c, e) = "MayBeTrue" ->
              settle(cexTruth(s, c, e), c, e, "MustBeTrue", "True")
         [] cacheLookup(s, c, e) = "MayBeFalse" ->
              settle(cexTruth(s, c, IsZero[e]), c, e, "MustBeFalse", "False")
         [] OTHER -> {Outcome(TRUE, "Unknown", s)}

---------------------------------------------------------------------------
Caches == [cache |-> cache, cex |-> cex, table |-> table]

Install(s) == cache' = s.cache /\ cex' = s.cex /\ table' = s.table

Init ==
  /\ cache = <<>>
  /\ cex = <<>>
  /\ table = {}

(* Solver::evaluate and Solver::mustBeTrue answer constants themselves. *)
Evaluate ==
  \E c \in Feasible, e \in Queries : \E o \in computeValidity(Caches, c, e) :
    Install(o.s)

MustBeTrue ==
  \E c \in Feasible, e \in Queries : \E o \in computeTruth(Caches, c, e) :
    Install(o.s)

(* computeValue evaluates the expression in any model of the constraints. *)
GetValue ==
  \E c \in Feasible : \E o \in getAssignment(Caches, c, FalseExpr) :
    Install(o.s)

(* computeInitialValues also serves resolveSpeculativeState, which asks    *)
(* whether the constraints have a model at all.                            *)
GetInitialValues ==
  \E c \in Lists : \E o \in getAssignment(Caches, c, FalseExpr) :
    Install(o.s)

Next == Evaluate \/ MustBeTrue \/ GetValue \/ GetInitialValues

Spec == Init /\ [][Next]_vars

---------------------------------------------------------------------------
Validity(c, e) ==
  IF Models(c) \subseteq Holds[e] THEN "True"
  ELSE IF Models(c) \cap Holds[e] = {} THEN "False"
  ELSE "Unknown"

(* Whatever was asked before, in whatever order and with whatever failures *)
(* of the solver below, computeValidity and computeTruth answer what the   *)
(* constraints imply: neither a cached counterexample of another query nor *)
(* a validity kept for the negated expression changes an answer, and the   *)
(* assertion that a state has an assignment holds.                         *)
AnswersTrue ==
  \A c \in Feasible, e \in Queries :
    /\ \A o \in computeValidity(Caches, c, e) : o.ok => o.result = Validity(c, e)
    /\ \A o \in computeTruth(Caches, c, e) :
         o.ok => (o.result = "True") = (Validity(c, e) = "True")

(* The assignment handed out for a list of constraints is one of its       *)
(* models, and there is none exactly when the list has no model: a         *)
(* speculative state is dropped only if it is infeasible.                  *)
ModelsReal ==
  \A c \in Lists : \A o \in getAssignment(Caches, c, FalseExpr) :
    o.ok => IF Models(c) = {} THEN o.result = None ELSE o.result \in Models(c)

(* A query fails only when the solver below does: a hit in a cache is an   *)
(* answer.                                                                 *)
HitsAnswer ==
  \A c \in Feasible, e \in Queries :
    \A o \in computeTruth(Caches, c, e) \cup computeValidity(Caches, c, e) : o.ok

=============================================================================
