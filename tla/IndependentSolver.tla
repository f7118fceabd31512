------------------------- MODULE IndependentSolver -------------------------
(***************************************************************************)
(* IndependentSolver.cpp: before a query goes to the caches and the solver,*)
(* the constraints that share no symbolic byte with it, directly or        *)
(* through other constraints, are left out.  getIndependentConstraints is  *)
(* the loop that collects the others.                                      *)
(*                                                                         *)
(* An expression is a name with the reads that findReads finds in it (a    *)
(* byte of an array, or AnyIndex when the index is symbolic) and the       *)
(* assignments that make it true, which depend on those bytes only.        *)
(***************************************************************************)
EXTENDS Integers

CONSTANTS
  Arrays, Index, Values,
  AnyIndex,       \* a read at a symbolic index
  IndExpr,
  Reads,          \* the reads of an expression
  IndHolds,       \* the assignments that make it true
  Constraints,    \* the lists of constraints: functions from 1..n
  IndQueries      \* the expressions asked about

Bytes == Arrays \X Index
IndAssignments == [Bytes -> Values]

(* The bytes an expression depends on. *)
Depends(e) ==
  {b \in Bytes : <<b[1], b[2]>> \in Reads[e] \/ <<b[1], AnyIndex>> \in Reads[e]}

ASSUME IndependentAssumption ==
  /\ AnyIndex \notin Index
  /\ Reads \in [IndExpr -> SUBSET (Arrays \X (Index \cup {AnyIndex}))]
  /\ IndHolds \in [IndExpr -> SUBSET IndAssignments]
  /\ \A e \in IndExpr : \A a, b \in IndAssignments :
       (\A x \in Depends(e) : a[x] = b[x]) => (a \in IndHolds[e]) = (b \in IndHolds[e])
  /\ \A c \in Constraints : \A i \in DOMAIN c : i \in Nat /\ c[i] \in IndExpr
  /\ IndQueries \subseteq IndExpr

VARIABLES
  constraints,   \* query.constraints
  expr,          \* query.expr
  closure,       \* eltsClosure
  worklist,      \* positions still to visit in this pass
  newWorklist,   \* positions left for the next pass
  result,        \* positions of the constraints collected
  done,
  pc

indVars == <<constraints, expr, closure, worklist, newWorklist, result, done, pc>>

(* IndependentElementSet: arrays read at an unknown index stand for all    *)
(* their bytes and have no entry in elements.                              *)
IndependentElementSet(e) ==
  LET whole == {a \in Arrays : <<a, AnyIndex>> \in Reads[e]}
  IN [wholeObjects |-> whole,
      elements |-> {b \in Bytes : <<b[1], b[2]>> \in Reads[e] /\ b[1] \notin whole}]

intersects(x, y) ==
  \/ \E a \in x.wholeObjects :
       a \in y.wholeObjects \/ \E b \in y.elements : b[1] = a
  \/ \E b \in x.elements : b[1] \in y.wholeObjects \/ b \in y.elements

add(x, y) ==
  LET whole == x.wholeObjects \cup y.wholeObjects
  IN [wholeObjects |-> whole,
      elements |-> {b \in x.elements \cup y.elements : b[1] \notin whole}]

(* What add returns. *)
modified(x, y) ==
  \/ \E a \in y.wholeObjects : a \notin x.wholeObjects
  \/ \E b \in y.elements :
       /\ b[1] \notin x.wholeObjects \cup y.wholeObjects
       /\ b \notin x.elements

IndModels(c) == {a \in IndAssignments : \A i \in DOMAIN c : a \in IndHolds[c[i]]}

IndInit ==
  /\ constraints \in {c \in Constraints : IndModels(c) # {}}
  /\ expr \in IndQueries
  /\ closure = IndependentElementSet(expr)
  /\ worklist = DOMAIN constraints
  /\ newWorklist = {}
  /\ result = {}
  /\ done = TRUE
  /\ pc = "pass"

(* Mutant: the pass is the last one although the closure grew. *)
Visit_OnePass ==
  /\ pc = "pass"
  /\ \E i \in worklist :
       LET elts == IndependentElementSet(constraints[i])
       IN /\ \A j \in worklist : i <= j
          /\ worklist' = worklist \ {i}
          /\ IF intersects(elts, closure)
             THEN /\ closure' = add(closure, elts)
                  /\ result' = result \cup {i}
                  /\ UNCHANGED newWorklist
             ELSE /\ newWorklist' = newWorklist \cup {i}
                  /\ UNCHANGED <<closure, result>>
  /\ UNCHANGED <<constraints, expr, done, pc>>

(* One constraint of a pass. *)
Visit ==
  /\ pc = "pass"
  /\ \E i \in worklist :
       LET elts == IndependentElementSet(constraints[i])
       IN /\ \A j \in worklist : i <= j
          /\ worklist' = worklist \ {i}
          /\ IF intersects(elts, closure)
             THEN /\ closure' = add(closure, elts)
                  /\ done' = (done /\ ~modified(closure, elts))
                  /\ result' = result \cup {i}
                  /\ UNCHANGED newWorklist
             ELSE /\ newWorklist' = newWorklist \cup {i}
                  /\ UNCHANGED <<closure, done, result>>
  /\ UNCHANGED <<constraints, expr, pc>>

(* worklist.swap, and while (!done). *)
EndPass ==
  /\ pc = "pass"
  /\ worklist = {}
  /\ worklist' = newWorklist
  /\ newWorklist' = {}
  /\ IF done THEN pc' = "ask" /\ UNCHANGED done
             ELSE done' = TRUE /\ UNCHANGED pc
  /\ UNCHANGED <<constraints, expr, closure, result>>

IndNext == Visit \/ EndPass

IndSpec == IndInit /\ [][IndNext]_indVars

---------------------------------------------------------------------------
(* The query sent on: Query(tmp, query.expr). *)
Required == {a \in IndAssignments : \A i \in result : a \in IndHolds[constraints[i]]}

(* Every model of the collected constraints agrees, on all the bytes the   *)
(* query reads, with a model of the whole list.  So computeTruth and       *)
(* computeValidity answer as for the whole list, and the value that        *)
(* computeValue returns is one the state allows.                           *)
ModelsExtend ==
  pc = "ask" =>
    \A a \in Required : \E b \in IndModels(constraints) :
      \A x \in Depends(expr) : a[x] = b[x]

(* The validity of the expression is the same with the collected           *)
(* constraints as with all of them (computeValidity, computeTruth).        *)
SameValidity ==
  pc = "ask" =>
    /\ Required \subseteq IndHolds[expr] <=> IndModels(constraints) \subseteq IndHolds[expr]
    /\ Required \cap IndHolds[expr] = {} <=> IndModels(constraints) \cap IndHolds[expr] = {}
=============================================================================
