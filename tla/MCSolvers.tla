------------------------------ MODULE MCSolvers ------------------------------
(***************************************************************************)
(* What stands between KLEE and its solver, for TLC: the two caches, the   *)
(* tree of sets that one of them searches, the slicing of the constraints  *)
(* and the simplifier of expressions.  Each is a specification of its own; *)
(* part says which takes the steps of a behaviour, and the others rest.    *)
(***************************************************************************)
EXTENDS SolverCache, IndependentSolver

CONSTANTS NotFound, BitExprs

VARIABLES part, values, bitsInfoCache, last, failed, calls

-----------------------------------------------------------------------------
(* The caches: two symbolic bits x and y.  "nor" is what createIsZero      *)
(* makes of "or" (the conjunction of the negations), and its own negation  *)
(* "nnor" is not "or" again.                                               *)

MCExpr == {"1", "0", "x", "nx", "or", "nor", "nnor"}
MCAssignments == {"00", "01", "10", "11"}

MCHolds ==
  [e \in MCExpr |->
     CASE e = "1" -> MCAssignments
       [] e = "0" -> {}
       [] e = "x" -> {"10", "11"}
       [] e = "nx" -> {"00", "01"}
       [] e = "nor" -> {"00"}
       [] OTHER -> {"01", "10", "11"}]

MCIsZero ==
  [e \in MCExpr |->
     CASE e = "1" -> "0" [] e = "0" -> "1"
       [] e = "x" -> "nx" [] e = "nx" -> "x"
       [] e = "or" -> "nor" [] e = "nor" -> "nnor"
       [] OTHER -> "nor"]

MCLists == {<<>>, <<"nx">>, <<"nx", "nor", "x">>}

-----------------------------------------------------------------------------
(* The slicing: two arrays of two bits.  The names spell what an           *)
(* expression says: "a=b" compares a[0] with b[0], "a[b]" reads a at the   *)
(* index in b[1].                                                          *)

SliceExpr == {"a0", "a=b", "!b1", "a[b]", "b0!=b1"}

SliceReads ==
  [e \in SliceExpr |->
     CASE e = "a0" -> {<<"a", 0>>}
       [] e = "a=b" -> {<<"a", 0>>, <<"b", 0>>}
       [] e = "!b1" -> {<<"b", 1>>}
       [] e = "a[b]" -> {<<"a", AnyIndex>>, <<"b", 1>>}
       [] OTHER -> {<<"b", 0>>, <<"b", 1>>}]

SliceHolds ==
  [e \in SliceExpr |->
     {v \in [{"a", "b"} \X {0, 1} -> {0, 1}] :
        CASE e = "a0" -> v[<<"a", 0>>] = 1
          [] e = "a=b" -> v[<<"a", 0>>] = v[<<"b", 0>>]
          [] e = "!b1" -> v[<<"b", 1>>] = 0
          [] e = "a[b]" -> v[<<"a", v[<<"b", 1>>]>>] = 1
          [] OTHER -> v[<<"b", 0>>] # v[<<"b", 1>>]}]

SliceConstraints == UNION {[1 .. n -> SliceExpr] : n \in 0 .. 3}

-----------------------------------------------------------------------------
(* The simplifier: three-bit words, a symbolic word and a Boolean.         *)

MCSymbols == {[name |-> "x", width |-> 3], [name |-> "c", width |-> 1]}

\* The constructors of expressions.
Build == INSTANCE BitfieldSimplifier WITH
  Word <- 3, Symbols <- MCSymbols, Exprs <- {}, MaxCalls <- 0, cache <- bitsInfoCache

X == Build!Symbol([name |-> "x", width |-> 3])
C == Build!Symbol([name |-> "c", width |-> 1])
Low == Build!ExtractExpr(X, 0, 2)

Const(s) == Build!ConstantExpr(s, 3)

Binary(op, l, r) == Build!rebuild(Build!Node(op, 3, <<l, r>>), <<l, r>>)

Masks == {Const({0}), Const({1, 2})}

\* One operator over symbolic values and constants: bits known to be zero
\* and to be one, moved, extended and joined.
Simple ==
  {Binary("And", X, Const({1, 2})), Binary("Or", X, Const({0})),
   Binary("Xor", X, Const({0, 2})), Binary("Shl", X, Const({0})), Binary("LShr", X, Const({0})),
   Build!SExtExpr(Low, 3), Build!ConcatExpr(C, Low),
   Build!ConcatExpr(Low, Build!ConstantExpr({0}, 1)), Build!SelectExpr(C, X, Const({1}))}

\* Every operator over those.
MCExprs ==
  {Binary(op, e, k) : op \in {"And", "Or", "Xor"}, e \in Simple, k \in Masks}
    \cup {Binary(op, e, k) : op \in {"Shl", "LShr"}, e \in Simple, k \in {Const({0}), Const({0, 1})}}
    \cup {Build!ExtractExpr(e, 1, w) : e \in Simple, w \in {1, 2}}
    \cup {Build!SExtExpr(Build!ExtractExpr(e, 0, 2), 3) : e \in Simple}
    \cup {Build!ZExtExpr(Build!ExtractExpr(e, 1, 1), 3) : e \in Simple}
    \cup {Build!Node("Not", 3, <<e>>) : e \in Simple}
    \cup {Build!SelectExpr(C, e, Const({1})) : e \in Simple}

Bitfields == INSTANCE BitfieldSimplifier WITH
  Word <- 3, Symbols <- MCSymbols, Exprs <- BitExprs, MaxCalls <- 2, cache <- bitsInfoCache

Sets == INSTANCE MapOfSets WITH Keys <- {1, 2, 3, 4}, MaxSets <- 3

ASSUME SolversAssumption == Bitfields!SimplifierAssumption /\ Sets!MapAssumption

-----------------------------------------------------------------------------
bitfieldVars == <<bitsInfoCache, last, failed, calls>>

\* The slicing is given a query only when it takes the steps.
MCInit ==
  /\ part \in {"caches", "sets", "slicing", "bitfields"}
  /\ Init
  /\ Sets!Init
  /\ IndInit /\ (part = "slicing" \/ (constraints = <<>> /\ expr = "a0"))
  /\ Bitfields!Init

CachesMove == part = "caches" /\ Next /\ UNCHANGED <<part, values, indVars, bitfieldVars>>

SetsMove == part = "sets" /\ Sets!insert /\ UNCHANGED <<part, vars, indVars, bitfieldVars>>

SlicingMoves == part = "slicing" /\ IndNext /\ UNCHANGED <<part, vars, values, bitfieldVars>>

BitfieldsMove == part = "bitfields" /\ Bitfields!Next /\ UNCHANGED <<part, vars, values, indVars>>

MCNext == CachesMove \/ SetsMove \/ SlicingMoves \/ BitfieldsMove

MCSpec == MCInit /\ [][MCNext]_<<part, vars, values, indVars, bitfieldVars>>

Seen == <<part, Entries, values, indVars, bitfieldVars>>

-----------------------------------------------------------------------------
\* MapOfSets: findSubset and findSuperset find a stored set that the predicate
\* accepts whenever there is one, and nothing else.
SearchesExact == part = "sets" => Sets!SubsetsFound /\ Sets!SupersetsFound

=============================================================================
