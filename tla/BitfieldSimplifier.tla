------------------------- MODULE BitfieldSimplifier -------------------------
(***************************************************************************)
(* The expression simplifier of KLEE, klee/lib/Expr/BitfieldSimplifier.cpp, *)
(* which Executor::simplifyExpr runs on every expression it computes, and   *)
(* the part of the expression constructors of klee/lib/Expr/Expr.cpp that   *)
(* rebuild() reaches.                                                       *)
(*                                                                          *)
(* A machine word is the set of its one bits, so that the bitwise operators *)
(* of the code are set operators.  An expression is a record: its kind (for *)
(* a symbolic value, the name of the value), its width, the offset of an    *)
(* Extract, the bits of a Constant, and its kids.  The simplifier keeps     *)
(* m_bitsInfoCache for the whole run of the program, so its calls are the   *)
(* steps of this specification.                                             *)
(***************************************************************************)
EXTENDS Integers, Sequences, SequencesExt, FiniteSets

CONSTANTS
  Word,       \* the bits of a uint64_t
  Symbols,    \* the symbolic values, a set of [name, width] records
  Exprs,      \* the expressions the program simplifies
  MaxCalls    \* how many of them it does

SimplifierAssumption == Word \in Nat \ {0} /\ MaxCalls \in Nat

VARIABLES
  cache,      \* m_bitsInfoCache
  last,       \* the last expression simplified and what it became
  failed,     \* an assertion of doSimplifyBits failed
  calls

vars == <<cache, last, failed, calls>>

----------------------------------------------------------------------------
(* Words. *)

Bits == 0 .. Word - 1

Below(w) == 0 .. w - 1

Complement(s) == Bits \ s

ShiftLeft(s, n) == {b + n : b \in s} \cap Bits

ShiftRight(s, n) == {b - n : b \in {k \in s : k >= n}}

\* The bits at and above the width w.
zeroMask(w) == w .. Word - 1

\* The number a set of bits stands for, for shift counts.
RECURSIVE getZExtValue(_)
getZExtValue(s) ==
  IF s = {} THEN 0
  ELSE LET b == CHOOSE b \in s : TRUE IN 2 ^ b + getZExtValue(s \ {b})

----------------------------------------------------------------------------
(* Expressions. *)

Node(op, w, kids) == [op |-> op, width |-> w, off |-> 0, bits |-> {}, kids |-> kids]

ConstantExpr(s, w) ==
  [op |-> "Constant", width |-> w, off |-> 0, bits |-> s \cap Below(w), kids |-> <<>>]

Symbol(y) == Node(y.name, y.width, <<>>)

isConstant(e) == e.op = "Constant"

isZero(e) == isConstant(e) /\ e.bits = {}

isAllOnes(e) == isConstant(e) /\ e.bits = Below(e.width)

\* What an operator computes from the words of its kids.
Compute(e, v) ==
  CASE e.op = "And" -> v[1] \cap v[2]
    [] e.op = "Or" -> v[1] \cup v[2]
    [] e.op = "Xor" -> (v[1] \cup v[2]) \ (v[1] \cap v[2])
    [] e.op = "Not" -> Below(e.width) \ v[1]
    [] e.op = "Shl" -> ShiftLeft(v[1], getZExtValue(v[2])) \cap Below(e.width)
    [] e.op = "LShr" -> ShiftRight(v[1], getZExtValue(v[2]))
    [] e.op = "Extract" -> ShiftRight(v[1], e.off) \cap Below(e.width)
    [] e.op = "Concat" -> ShiftLeft(v[1], e.kids[2].width) \cup v[2]
    [] e.op = "Select" -> IF v[1] = {} THEN v[3] ELSE v[2]
    [] e.op = "ZExt" -> v[1]
    [] e.op = "SExt" -> IF e.kids[1].width - 1 \in v[1]
                        THEN v[1] \cup (e.kids[1].width .. e.width - 1)
                        ELSE v[1]

\* The value of an expression when the symbolic values are those of env.
RECURSIVE Value(_, _)
Value(e, env) ==
  IF isConstant(e) THEN e.bits
  ELSE IF e.kids = <<>> THEN env[e.op]
  ELSE Compute(e, [i \in DOMAIN e.kids |-> Value(e.kids[i], env)])

Environments ==
  {env \in [{y.name : y \in Symbols} -> SUBSET Bits] :
     \A y \in Symbols : env[y.name] \subseteq Below(y.width)}

----------------------------------------------------------------------------
(* The constructors.  Operands that are all constants are folded; the       *)
(* binary operators then move the constant to one side and drop it where it *)
(* has no effect.                                                           *)

Folded(e) == ConstantExpr(Compute(e, [i \in DOMAIN e.kids |-> e.kids[i].bits]), e.width)

AndExpr(l, r) ==
  LET x == IF isConstant(l) THEN r ELSE l
      c == IF isConstant(l) THEN l ELSE r
  IN  IF isAllOnes(c) THEN x ELSE IF isZero(c) THEN c ELSE Node("And", l.width, <<x, c>>)

OrExpr(l, r) ==
  LET x == IF isConstant(l) THEN r ELSE l
      c == IF isConstant(l) THEN l ELSE r
  IN  IF isAllOnes(c) THEN c ELSE IF isZero(c) THEN x ELSE Node("Or", l.width, <<x, c>>)

XorExpr(l, r) ==
  LET x == IF isConstant(r) THEN l ELSE r
      c == IF isConstant(r) THEN r ELSE l
  IN  IF isZero(c) THEN x ELSE Node("Xor", l.width, <<c, x>>)

SelectExpr(c, t, f) ==
  IF isConstant(c) THEN (IF isZero(c) THEN f ELSE t)
  ELSE IF t = f THEN t ELSE Node("Select", t.width, <<c, t, f>>)

\* Extract, Concat and ZExt are created from one another.
RECURSIVE ExtractExpr(_, _, _), ConcatExpr(_, _), ZExtExpr(_, _)
ExtractExpr(x, off, w) ==
  LET e == [op |-> "Extract", width |-> w, off |-> off, bits |-> {}, kids |-> <<x>>]
      y == x.kids[1]
      right == x.kids[2]
  IN  IF w = x.width THEN x
      ELSE IF isConstant(x) THEN Folded(e)
      ELSE IF x.op = "ZExt" /\ off = 0 /\ w >= y.width THEN ZExtExpr(y, w)
      ELSE IF x.op # "Concat" THEN e
      ELSE IF off >= right.width THEN ExtractExpr(y, off - right.width, w)
      ELSE IF off + w <= right.width THEN ExtractExpr(right, off, w)
      ELSE ConcatExpr(ExtractExpr(y, 0, w - right.width + off),
                      ExtractExpr(right, off, right.width - off))
ConcatExpr(l, r) ==
  LET w == l.width + r.width
      e == Node("Concat", w, <<l, r>>)
  IN  IF isConstant(l) /\ isConstant(r) THEN Folded(e)
      ELSE IF l.op = "Extract" /\ r.op = "Extract" /\ l.kids = r.kids /\ r.off + r.width = l.off
           THEN ExtractExpr(l.kids[1], r.off, w)
      ELSE e
ZExtExpr(x, w) ==
  IF w = x.width THEN x
  ELSE IF w < x.width THEN ExtractExpr(x, 0, w)
  ELSE IF isConstant(x) THEN ConstantExpr(x.bits, w)
  ELSE Node("ZExt", w, IF x.op = "ZExt" THEN x.kids ELSE <<x>>)

SExtExpr(x, w) ==
  IF w = x.width THEN x
  ELSE IF w < x.width THEN ExtractExpr(x, 0, w)
  ELSE LET e == Node("SExt", w, <<x>>) IN IF isConstant(x) THEN Folded(e) ELSE e

\* The expression of e's kind over other kids.
rebuild(e, k) ==
  LET n == [e EXCEPT !.kids = k]
  IN  CASE e.op = "Select" -> SelectExpr(k[1], k[2], k[3])
        [] e.op = "Extract" -> ExtractExpr(k[1], e.off, e.width)
        [] e.op = "Concat" -> ConcatExpr(k[1], k[2])
        [] e.op = "ZExt" -> ZExtExpr(k[1], e.width)
        [] e.op = "SExt" -> SExtExpr(k[1], e.width)
        [] OTHER -> IF \A i \in DOMAIN k : isConstant(k[i]) THEN Folded(n)
                    ELSE IF e.op = "And" THEN AndExpr(k[1], k[2])
                    ELSE IF e.op = "Or" THEN OrExpr(k[1], k[2])
                    ELSE IF e.op = "Xor" THEN XorExpr(k[1], k[2])
                    ELSE n

----------------------------------------------------------------------------
(* The simplifier.  Its memory is [cache, ok]: the cache and whether every  *)
(* assertion so far has held.                                               *)

BitsInfo(ignored, one, zero) == [ignored |-> ignored, one |-> one, zero |-> zero]

Erase(m, gone) == [m EXCEPT !.cache = [x \in DOMAIN @ \ gone |-> @[x]]]

replaceWithConstant(m, e, value) ==
  IF isConstant(e) /\ e.bits = value THEN [m |-> m, e |-> e]
  ELSE [m |-> Erase(m, {e} \cup {e.kids[i] : i \in DOMAIN e.kids}),
        e |-> ConstantExpr(value, e.width)]

Ignoring(b, s) == [b EXCEPT !.ignored = s]

\* And: a kid whose bits are all one or ignored is taken for all ones.
AllOnes(b) == IF b.one \cup b.ignored = Bits THEN BitsInfo(b.ignored, Bits, {}) ELSE b

\* Or: a kid whose bits are all zero or ignored is taken for zero.
AllZeros(b) == IF b.zero \cup b.ignored = Bits THEN BitsInfo(b.ignored, {}, Bits) ELSE b

\* What a kind makes known of e, from what is known of its kids: the bits of
\* e known to be one and zero, and the bits of every kid, with those e or its
\* users ignore.
known(one, zero, bits) == [one |-> one, zero |-> zero, bits |-> bits]

knownAnd(ignored, a, b) ==
  known(a.one \cap b.one, a.zero \cup b.zero,
        <<AllOnes(Ignoring(a, ignored \cup b.zero)),
          AllOnes(Ignoring(b, ignored \cup (a.zero \ b.zero)))>>)

knownOr(ignored, a, b) ==
  known(a.one \cup b.one, a.zero \cap b.zero,
        <<AllZeros(Ignoring(a, ignored \cup b.one)),
          AllZeros(Ignoring(b, ignored \cup (a.one \ b.one)))>>)

knownXor(ignored, a, b) ==
  known((a.zero \cap b.one) \cup (a.one \cap b.zero),
        (a.one \cap b.one) \cup (a.zero \cap b.zero),
        <<Ignoring(a, ignored), Ignoring(b, ignored)>>)

knownNot(e, ignored, a) ==
  known(a.zero \ zeroMask(e.width), a.one \cup zeroMask(e.width), <<Ignoring(a, ignored)>>)

knownShl(w, shift, ignored, a, b) ==
  IF shift < w
  THEN known(ShiftLeft(a.one, shift) \ zeroMask(w),
             ShiftLeft(a.zero, shift) \cup zeroMask(w) \cup Below(shift),
             <<Ignoring(a, ShiftRight(ignored \ zeroMask(w), shift) \cup zeroMask(w - shift)), b>>)
  ELSE known({}, Bits, <<Ignoring(a, Bits), b>>)

knownLShr(w, shift, ignored, a, b) ==
  IF shift < w
  THEN known(ShiftRight(a.one, shift), ShiftRight(a.zero, shift) \cup zeroMask(w - shift),
             <<Ignoring(a, ShiftLeft(ignored, shift) \cup Below(shift) \cup zeroMask(w)), b>>)
  ELSE known({}, Bits, <<Ignoring(a, Bits), b>>)

knownExtract(e, ignored, a) ==
  LET mask == zeroMask(e.width)
  IN  known(ShiftRight(a.one, e.off) \ mask, ShiftRight(a.zero, e.off) \cup mask,
            <<Ignoring(a, ShiftLeft(ignored, e.off)
                          \cup Complement(ShiftLeft(Complement(mask), e.off)))>>)

knownConcat(left, right, ignored, a, b) ==
  known(ShiftLeft(a.one, right) \cup b.one,
        ShiftLeft(a.zero, right) \cup (b.zero \ zeroMask(right)),
        <<Ignoring(a, ShiftRight(ignored, right) \cup zeroMask(left)),
          Ignoring(b, ignored \cup zeroMask(right))>>)

knownSelect(e, ignored, c, a, b) ==
  known(a.one \cap b.one, (a.zero \cap b.zero) \cup zeroMask(e.width),
        <<c, Ignoring(a, ignored), Ignoring(b, ignored)>>)

knownSExt(e, kidWidth, ignored, a) ==
  LET sign == kidWidth - 1
      mask == zeroMask(kidWidth) \ zeroMask(e.width)
  IN  known(IF sign \in a.one THEN a.one \cup mask ELSE a.one,
            IF sign \notin a.one /\ sign \in a.zero THEN a.zero \cup mask ELSE a.zero \ mask,
            <<Ignoring(a, IF mask \subseteq ignored THEN ignored ELSE ignored \ {sign})>>)

\* The switch of doSimplifyBits over e's kind, for the simplified kids.
knownBits(e, ignored, kids, b) ==
  LET w == e.width
      shift == getZExtValue(kids[2].bits)
  IN  CASE e.op = "And" -> knownAnd(ignored, b[1], b[2])
        [] e.op = "Or" -> knownOr(ignored, b[1], b[2])
        [] e.op = "Xor" -> knownXor(ignored, b[1], b[2])
        [] e.op = "Not" -> knownNot(e, ignored, b[1])
        [] e.op = "Shl" /\ isConstant(kids[2]) -> knownShl(w, shift, ignored, b[1], b[2])
        [] e.op = "LShr" /\ isConstant(kids[2]) -> knownLShr(w, shift, ignored, b[1], b[2])
        [] e.op = "Extract" -> knownExtract(e, ignored, b[1])
        [] e.op = "Concat" -> knownConcat(kids[1].width, kids[2].width, ignored, b[1], b[2])
        [] e.op = "Select" -> knownSelect(e, ignored, b[1], b[2], b[3])
        [] e.op = "ZExt" -> known(b[1].one, b[1].zero, <<Ignoring(b[1], ignored)>>)
        [] e.op = "SExt" -> knownSExt(e, kids[1].width, ignored, b[1])
        [] e.op = "Constant" -> known(e.bits, Complement(e.bits), b)
        [] OTHER -> known({}, zeroMask(w), b)

\* The assertions after the switch.
Sane(e, k) == k.one \cap k.zero = {} /\ k.one \cap zeroMask(e.width) = {} /\ zeroMask(e.width) \subseteq k.zero

AllKnown(b) == b.one \cup b.zero \cup b.ignored = Bits


\* Complex expressions are remembered, the first time they are met.
Remember(m, e, info) ==
  IF Len(e.kids) > 1 /\ e \notin DOMAIN m.cache
  THEN [m EXCEPT !.cache = [x \in DOMAIN @ \cup {e} |-> IF x = e THEN info ELSE @[x]]]
  ELSE m

RECURSIVE doSimplifyBits(_, _, _)

\* The kids are simplified, with no bit ignored.
visitKids(m, e) ==
  LET Visit(acc, kid) ==
        LET r == doSimplifyBits(acc.m, kid, {})
        IN  [m |-> r.m, kids |-> Append(acc.kids, r.e), bits |-> Append(acc.bits, r.info)]
  IN  FoldLeft(Visit, [m |-> m, kids |-> <<>>, bits |-> <<>>], e.kids)

\* They become constants, or what they are under the bits now ignored.
settleKids(m, visited, bits) ==
  LET Settle(acc, i) ==
        LET kid == visited.kids[i]
            r == IF AllKnown(bits[i]) THEN replaceWithConstant(acc.m, kid, bits[i].one)
                 ELSE IF bits[i].ignored \subseteq visited.bits[i].ignored
                      THEN [m |-> acc.m, e |-> kid]
                 ELSE doSimplifyBits(acc.m, kid, bits[i].ignored)
        IN  [m |-> r.m, kids |-> Append(acc.kids, r.e)]
  IN  FoldLeft(Settle, [m |-> m, kids |-> <<>>], [i \in DOMAIN visited.kids |-> i])

overKids(e, settled) ==
  [m |-> settled.m, e |-> IF settled.kids = e.kids THEN e ELSE rebuild(e, settled.kids)]

\* e becomes a constant, or else its kids are settled.
conclude(m, e, info, visited, bits) ==
  LET r == IF ~isConstant(e) /\ AllKnown(info) THEN replaceWithConstant(m, e, info.one)
           ELSE overKids(e, settleKids(m, visited, bits))
  IN  [m |-> Remember(r.m, r.e, info), e |-> r.e, info |-> info]

learn(e, ignored, visited, k) ==
  conclude([visited.m EXCEPT !.ok = @ /\ Sane(e, k)], e,
           BitsInfo(ignored, k.one, k.zero), visited, k.bits)

simplifyKids(e, ignored, visited) ==
  learn(e, ignored, visited, knownBits(e, ignored, visited.kids, visited.bits))

\* What the cache has, or what is found by visiting the kids.
doSimplifyBits(m, e, ignored) ==
  IF e \in DOMAIN m.cache /\ ignored \subseteq m.cache[e].ignored
  THEN [m |-> m, e |-> e, info |-> m.cache[e]]
  ELSE simplifyKids(e, ignored, visitKids(m, e))

----------------------------------------------------------------------------
Init ==
  /\ cache = << >>
  /\ last = << >>
  /\ failed = FALSE
  /\ calls = 0

simplify(e) ==
  LET r == doSimplifyBits([cache |-> cache, ok |-> TRUE], e, {})
  IN  /\ calls < MaxCalls
      /\ cache' = r.m.cache
      /\ failed' = ~r.m.ok
      /\ last' = <<e, r.e>>
      /\ calls' = calls + 1

Next == ~failed /\ \E e \in Exprs : simplify(e)

Spec == Init /\ [][Next]_vars

----------------------------------------------------------------------------
(* Properties. *)

\* The assertions on knownOneBits and knownZeroBits hold at every node of
\* every expression: no bit is known to be both, none is known to be one
\* beyond the width, and all beyond the width are known to be zero.
AssertsHold == ~failed


\* What m_bitsInfoCache holds is true of the expression it is held for,
\* whichever calls put it there: known ones are one, known zeros zero.
KnownBitsTrue ==
  \A e \in DOMAIN cache : \A env \in Environments :
    LET v == Value(e, env) IN cache[e].one \subseteq v /\ cache[e].zero \cap v = {}

=============================================================================
