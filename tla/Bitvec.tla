------------------------------- MODULE Bitvec -------------------------------
(***************************************************************************)
(* Bit-vector operations as Boolean circuits (smt/bitvec.rs): adders,      *)
(* shifters, a multiplier, a restoring divider, comparisons and overflow   *)
(* predicates.  A vector is the sequence of its bits, lowest first, as the *)
(* term store keeps it.  The terms the code builds for a bit are evaluated *)
(* at the values of the bits of the operands; a term's meaning does not    *)
(* depend on how the store shares or simplifies it.                        *)
(***************************************************************************)
EXTENDS Integers, FiniteSets, SequencesExt

CONSTANTS
  Inputs,        \* sequences of operands, as bits
  Amounts,       \* amounts to extend, rotate or repeat by, positions, and decimals
  WidthLimit,    \* MAX_BITVECTOR_WIDTH
  WorkLimit      \* MAX_QUADRATIC_LOWERING_WORK

VARIABLES operands, operation, built
vars == <<operands, operation, built>>

Error == [kind |-> "error", bits |-> << >>]
Vector(bits) == [kind |-> "vector", bits |-> bits]
Predicate(b) == [kind |-> "boolean", bits |-> <<b>>]

Width(a) == Len(a)
Sign(a) == a[Len(a)]
Zeros(n) == [i \in 1 .. n |-> FALSE]
Resized(a, n, bit) == a \o [i \in 1 .. n - Len(a) |-> bit]
CheckedWidth(n) == n >= 1 /\ n <= WidthLimit
CheckedQuadratic(n) == n * n <= WorkLimit
Indices(n) == [i \in 1 .. n |-> i]
-----------------------------------------------------------------------------
(***************************************************************************)
(* Circuits.                                                               *)
(***************************************************************************)
AddBits(a, b) ==
  FoldLeft(LAMBDA s, i : [bits |-> Append(s.bits, (a[i] # b[i]) # s.carry),
                          carry |-> (a[i] /\ b[i]) \/ ((a[i] # b[i]) /\ s.carry)],
           [bits |-> << >>, carry |-> FALSE], Indices(Len(a)))
Sum(a, b) == AddBits(a, b).bits
Not(a) == [i \in DOMAIN a |-> ~a[i]]
NegateBits(a) == Sum(Not(a), [i \in DOMAIN a |-> i = 1])
SubtractBits(a, b) == Sum(a, NegateBits(b))
SelectBits(c, a, b) == [i \in DOMAIN a |-> IF c THEN a[i] ELSE b[i]]
IsZeroBits(a) == \A i \in DOMAIN a : ~a[i]
AbsoluteBits(a, sign) == SelectBits(sign, NegateBits(a), a)

\* From the top bit down: the first difference decides.
UnsignedLess(a, b) ==
  FoldRight(LAMBDA i, s : [less |-> s.less \/ (s.equal /\ ~a[i] /\ b[i]),
                           equal |-> s.equal /\ (a[i] = b[i])],
            Indices(Len(a)), [less |-> FALSE, equal |-> TRUE]).less

\* The partial products that fit in n bits, added up.
MultiplyBits(a, b, n) ==
  LET Partial(j) == [k \in 1 .. n |-> k - j + 1 \in DOMAIN a /\ a[k - j + 1] /\ b[j]]
  IN FoldLeft(LAMBDA s, j : Sum(s, Partial(j)), Zeros(n), Indices(IF Len(b) < n THEN Len(b) ELSE n))

\* Restoring division, with one more bit for the remainder.
UnsignedDivide(a, b) ==
  LET divisor == Append(b, FALSE)
      s == FoldRight(LAMBDA i, t :
               LET shifted == <<a[i]>> \o Front(t.remainder)
                   fits == ~UnsignedLess(shifted, divisor)
               IN [quotient |-> <<fits>> \o t.quotient,
                   remainder |-> SelectBits(fits, SubtractBits(shifted, divisor), shifted)],
             Indices(Len(a)), [quotient |-> << >>, remainder |-> Zeros(Len(a) + 1)])
  IN [quotient |-> s.quotient, remainder |-> Front(s.remainder)]
-----------------------------------------------------------------------------
(***************************************************************************)
(* Operations on operands of one width.                                    *)
(***************************************************************************)
Bitwise(op, terms) ==
  FoldLeft(LAMBDA a, b : [i \in DOMAIN a |-> CASE op = "bvand" -> a[i] /\ b[i]
                                               [] op = "bvor" -> a[i] \/ b[i]
                                               [] op = "bvxor" -> a[i] # b[i]],
           Head(terms), Tail(terms))
bvadd(terms) == FoldLeft(Sum, Head(terms), Tail(terms))
bvmul(terms) == FoldLeft(LAMBDA a, b : MultiplyBits(a, b, Width(a)), Head(terms), Tail(terms))

bvudiv(a, b) == UnsignedDivide(a, b).quotient
bvurem(a, b) == UnsignedDivide(a, b).remainder
Magnitudes(a, b) == UnsignedDivide(AbsoluteBits(a, Sign(a)), AbsoluteBits(b, Sign(b)))
bvsdiv(a, b) ==
  LET q == Magnitudes(a, b).quotient
  IN SelectBits(Sign(a) # Sign(b), NegateBits(q), q)
bvsrem(a, b) ==
  LET r == Magnitudes(a, b).remainder
  IN SelectBits(Sign(a), NegateBits(r), r)

\* Mutant of bvsmod: a remainder of zero is not set apart.
bvsmodUnguarded(a, b) ==
  LET r == Magnitudes(a, b).remainder
      negative == NegateBits(r)
      r1 == SelectBits(~Sign(a) /\ Sign(b), Sum(r, b), negative)
      r2 == SelectBits(Sign(a) /\ ~Sign(b), Sum(negative, b), r1)
  IN SelectBits(~Sign(a) /\ ~Sign(b), r, r2)

\* Four cases, each laid over the ones before it.
bvsmod(a, b) ==
  LET r == Magnitudes(a, b).remainder
      negative == NegateBits(r)
      r1 == SelectBits(~Sign(a) /\ Sign(b), Sum(r, b), negative)
      r2 == SelectBits(Sign(a) /\ ~Sign(b), Sum(negative, b), r1)
      r3 == SelectBits(~Sign(a) /\ ~Sign(b), r, r2)
  IN SelectBits(IsZeroBits(r), r, r3)

\* One stage for each bit of the amount; a stage as wide as the vector fills it.
VariableShift(op, a, amount) ==
  LET fill == op = "bvashr" /\ Sign(a)
      Moved(r, n) == IF n >= Width(a) THEN [i \in DOMAIN a |-> fill]
                     ELSE IF op = "bvshl" THEN [i \in DOMAIN a |-> i > n /\ r[i - n]]
                     ELSE [i \in DOMAIN a |-> IF i + n \in DOMAIN a THEN r[i + n] ELSE fill]
  IN FoldLeft(LAMBDA r, i : SelectBits(amount[i], Moved(r, 2 ^ (i - 1)), r),
              a, Indices(Width(a)))

bvslt(a, b) == IF Sign(a) # Sign(b) THEN Sign(a) ELSE UnsignedLess(a, b)
bvnego(a) == Sign(a) /\ IsZeroBits(Front(a))
bvuaddo(a, b) == AddBits(a, b).carry
bvsaddo(a, b) == Sign(a) = Sign(b) /\ Sign(a) # Sign(Sum(a, b))
bvssubo(a, b) == Sign(a) # Sign(b) /\ Sign(a) # Sign(SubtractBits(a, b))
bvumulo(a, b) ==
  LET n == Width(a)
      p == MultiplyBits(Resized(a, 2 * n, FALSE), Resized(b, 2 * n, FALSE), 2 * n)
  IN ~IsZeroBits(SubSeq(p, n + 1, 2 * n))
bvsmulo(a, b) ==
  LET n == Width(a)
      p == MultiplyBits(Resized(a, 2 * n, Sign(a)), Resized(b, 2 * n, Sign(b)), 2 * n)
  IN ~ \A i \in n + 1 .. 2 * n : p[i] = p[n]
bvsdivo(a, b) == bvnego(a) /\ \A i \in DOMAIN b : b[i]

RotateLeft(a, n) ==
  [i \in DOMAIN a |-> a[((i - 1 + Width(a) - (n % Width(a))) % Width(a)) + 1]]
RotateRight(a, n) == [i \in DOMAIN a |-> a[((i - 1 + (n % Width(a))) % Width(a)) + 1]]

\* A decimal is halved until nothing is left of it.
DecimalBits(n) ==
  LET bits[k \in 0 .. n] == IF k = 0 THEN << >> ELSE <<k % 2 = 1>> \o bits[k \div 2]
  IN bits[n]
-----------------------------------------------------------------------------
Fold(op, terms) ==
  CASE op \in {"bvand", "bvor", "bvxor"} -> Vector(Bitwise(op, terms))
    [] op = "bvadd" -> Vector(bvadd(terms))
    [] op = "bvmul" -> IF CheckedQuadratic(Width(Head(terms))) THEN Vector(bvmul(terms))
                       ELSE Error
Folds == {"bvand", "bvor", "bvxor", "bvadd", "bvmul"}

\* The divider has a work limit, and so has the multiplier of the overflow
\* predicates, which doubles the width first.
Divided(bits, n) == IF CheckedQuadratic(n) THEN Vector(bits) ELSE Error
Doubled(b, n) == IF CheckedQuadratic(n) /\ CheckedWidth(2 * n) THEN Predicate(b) ELSE Error

Binary(op, a, b) ==
  CASE op = "bvnand" -> Vector(Not(Bitwise("bvand", <<a, b>>)))
    [] op = "bvnor"  -> Vector(Not(Bitwise("bvor", <<a, b>>)))
    [] op = "bvxnor" -> Vector(Not(Bitwise("bvxor", <<a, b>>)))
    [] op = "bvcomp" -> Vector(<<a = b>>)
    [] op = "bvsub"  -> Vector(SubtractBits(a, b))
    [] op = "bvudiv" -> Divided(bvudiv(a, b), Width(a))
    [] op = "bvurem" -> Divided(bvurem(a, b), Width(a))
    [] op = "bvsdiv" -> Divided(bvsdiv(a, b), Width(a))
    [] op = "bvsrem" -> Divided(bvsrem(a, b), Width(a))
    [] op = "bvsmod" -> Divided(bvsmod(a, b), Width(a))
    [] op \in {"bvshl", "bvlshr", "bvashr"} -> Vector(VariableShift(op, a, b))
    [] op \in {"bvult", "bvusubo"} -> Predicate(UnsignedLess(a, b))
    [] op = "bvugt" -> Predicate(UnsignedLess(b, a))
    [] op = "bvule" -> Predicate(~UnsignedLess(b, a))
    [] op = "bvuge" -> Predicate(~UnsignedLess(a, b))
    [] op = "bvslt" -> Predicate(bvslt(a, b))
    [] op = "bvsgt" -> Predicate(bvslt(b, a))
    [] op = "bvsle" -> Predicate(~bvslt(b, a))
    [] op = "bvsge" -> Predicate(~bvslt(a, b))
    [] op = "bvuaddo" -> Predicate(bvuaddo(a, b))
    [] op = "bvsaddo" -> Predicate(bvsaddo(a, b))
    [] op = "bvssubo" -> Predicate(bvssubo(a, b))
    [] op = "bvumulo" -> Doubled(bvumulo(a, b), Width(a))
    [] op = "bvsmulo" -> Doubled(bvsmulo(a, b), Width(a))
    [] op = "bvsdivo" -> Predicate(bvsdivo(a, b))
Binaries ==
  {"bvnand", "bvnor", "bvxnor", "bvcomp", "bvsub", "bvudiv", "bvurem", "bvsdiv", "bvsrem",
   "bvsmod", "bvshl", "bvlshr", "bvashr", "bvult", "bvugt", "bvule", "bvuge", "bvslt", "bvsgt",
   "bvsle", "bvsge", "bvuaddo", "bvsaddo", "bvusubo", "bvssubo", "bvumulo", "bvsmulo", "bvsdivo"}

\* Operations with a number, n, and for extraction a second one.
Checked(a) == IF CheckedWidth(Width(a)) THEN Vector(a) ELSE Error
Indexed(op, a, n, low) ==
  CASE op = "zero_extend" -> Checked(Resized(a, Width(a) + n, FALSE))
    [] op = "sign_extend" -> Checked(Resized(a, Width(a) + n, Sign(a)))
    [] op = "repeat" -> Checked(FlattenSeq([i \in 1 .. n |-> a]))
    [] op = "rotate_left" -> Vector(RotateLeft(a, n))
    [] op = "rotate_right" -> Vector(RotateRight(a, n))
    [] op = "extract" -> IF low > n \/ n >= Width(a) THEN Error ELSE Vector(SubSeq(a, low + 1, n + 1))
Indexeds == {"zero_extend", "sign_extend", "repeat", "rotate_left", "rotate_right", "extract"}
-----------------------------------------------------------------------------
Init ==
  /\ operands \in Inputs
  /\ operation = [op |-> "none", n |-> 0, low |-> 0] /\ built = Error

\* One term is built from terms that exist.
Build(op, n, low, result) ==
  /\ operation.op = "none"
  /\ operation' = [op |-> op, n |-> n, low |-> low]
  /\ built' = result
  /\ UNCHANGED operands

SameWidths == \A i, j \in DOMAIN operands : Width(operands[i]) = Width(operands[j])

BuildFold ==
  /\ Len(operands) >= 2
  /\ \E op \in Folds : Build(op, 0, 0, IF SameWidths THEN Fold(op, operands) ELSE Error)
BuildBinary ==
  /\ Len(operands) = 2
  /\ \E op \in Binaries :
       Build(op, 0, 0, IF SameWidths THEN Binary(op, operands[1], operands[2]) ELSE Error)
BuildConcat ==
  /\ Len(operands) = 2
  /\ Build("concat", 0, 0, Checked(operands[2] \o operands[1]))
BuildUnary ==
  /\ Len(operands) = 1
  /\ \/ Build("bvnot", 0, 0, Vector(Not(operands[1])))
     \/ Build("bvneg", 0, 0, Vector(NegateBits(operands[1])))
     \/ Build("bvnego", 0, 0, Predicate(bvnego(operands[1])))
BuildIndexed ==
  /\ Len(operands) = 1
  /\ \E op \in Indexeds, n \in Amounts, low \in Amounts :
       /\ op = "extract" \/ low = 0
       /\ Build(op, n, low, Indexed(op, operands[1], n, low))
\* A literal n of the width of the operand.
BuildDecimal ==
  /\ Len(operands) = 1
  /\ \E n \in Amounts :
       LET bits == DecimalBits(n)
       IN Build("decimal", n, 0, IF Len(bits) > Width(operands[1]) THEN Error
                                 ELSE Vector(Resized(bits, Width(operands[1]), FALSE)))

Next == BuildFold \/ BuildBinary \/ BuildConcat \/ BuildUnary \/ BuildIndexed \/ BuildDecimal
Spec == Init /\ [][Next]_vars
-----------------------------------------------------------------------------
(***************************************************************************)
(* What the operations mean: numbers without a sign (U) and in two's       *)
(* complement (S).                                                         *)
(***************************************************************************)
U(a) == FoldRight(LAMBDA bit, n : (IF bit THEN 1 ELSE 0) + 2 * n, a, 0)
S(a) == IF Sign(a) THEN U(a) - 2 ^ Width(a) ELSE U(a)
Magnitude(i) == IF i < 0 THEN -i ELSE i
\* Division that rounds to zero.
Truncated(x, y) == LET q == Magnitude(x) \div Magnitude(y)
                   IN IF (x < 0) # (y < 0) THEN -q ELSE q
RemainderOf(x, y) == IF y = 0 THEN x ELSE x - (y * Truncated(x, y))
SignedModulo(x, y) ==
  IF y = 0 THEN x
  ELSE IF RemainderOf(x, y) # 0 /\ (x < 0) # (y < 0) THEN RemainderOf(x, y) + y
  ELSE RemainderOf(x, y)

MeansVector ==
  LET op == operation.op
      n == operation.n
      a == operands[1]
      b == operands[Len(operands)]
      w == Width(a)
      Is(i) == U(built.bits) = i % (2 ^ Width(built.bits))
      Every(P(_)) == \A i \in DOMAIN a : built.bits[i] = P({j \in DOMAIN operands : operands[j][i]})
      Factors == FoldLeft(LAMBDA m, v : m * U(v), 1, operands)
      Terms == FoldLeft(LAMBDA m, v : m + U(v), 0, operands)
  IN CASE op = "bvand" -> Every(LAMBDA J : J = DOMAIN operands)
       [] op = "bvor" -> Every(LAMBDA J : J # {})
       [] op = "bvxor" -> Every(LAMBDA J : Cardinality(J) % 2 = 1)
       [] op = "bvnand" -> Every(LAMBDA J : J # DOMAIN operands)
       [] op = "bvnor" -> Every(LAMBDA J : J = {})
       [] op = "bvxnor" -> Every(LAMBDA J : Cardinality(J) # 1)
       [] op = "bvcomp" -> Is(IF U(a) = U(b) THEN 1 ELSE 0)
       [] op = "bvadd" -> Is(Terms)
       [] op = "bvmul" -> Is(Factors)
       [] op = "bvsub" -> Is(U(a) - U(b))
       [] op = "bvudiv" -> Is(IF U(b) = 0 THEN -1 ELSE U(a) \div U(b))
       [] op = "bvurem" -> Is(IF U(b) = 0 THEN U(a) ELSE U(a) % U(b))
       [] op = "bvsdiv" -> Is(IF S(b) = 0 THEN (IF S(a) < 0 THEN 1 ELSE -1) ELSE Truncated(S(a), S(b)))
       [] op = "bvsrem" -> Is(RemainderOf(S(a), S(b)))
       [] op = "bvsmod" -> Is(SignedModulo(S(a), S(b)))
       [] op = "bvshl" -> Is(IF U(b) >= w THEN 0 ELSE U(a) * 2 ^ U(b))
       [] op = "bvlshr" -> Is(IF U(b) >= w THEN 0 ELSE U(a) \div 2 ^ U(b))
       [] op = "bvashr" -> Is(S(a) \div 2 ^ (IF U(b) >= w THEN w ELSE U(b)))
       [] op = "concat" -> U(built.bits) = U(a) * 2 ^ Width(b) + U(b)
       [] op = "bvnot" -> Is(-1 - U(a))
       [] op = "bvneg" -> Is(-U(a))
       [] op = "zero_extend" -> U(built.bits) = U(a) /\ Width(built.bits) = w + n
       [] op = "sign_extend" -> S(built.bits) = S(a) /\ Width(built.bits) = w + n
       [] op = "repeat" -> U(built.bits) * (2 ^ w - 1) = U(a) * (2 ^ (w * n) - 1)
       [] op = "rotate_left" -> U(built.bits) = ((U(a) * 2 ^ (n % w)) % (2 ^ w))
                                                  + (U(a) \div 2 ^ (w - (n % w)))
       [] op = "rotate_right" -> U(built.bits) = ((U(a) * 2 ^ (w - (n % w))) % (2 ^ w))
                                                   + (U(a) \div 2 ^ (n % w))
       [] op = "extract" -> Is(U(a) \div 2 ^ operation.low) /\ Width(built.bits) = n - operation.low + 1
       [] op = "decimal" -> U(built.bits) = n /\ Width(built.bits) = w

MeansPredicate ==
  LET op == operation.op
      a == operands[1]
      b == operands[Len(operands)]
      Fits(i) == i \in -(2 ^ (Width(a) - 1)) .. (2 ^ (Width(a) - 1)) - 1
  IN built.bits[1] =
       CASE op = "bvult" -> U(a) < U(b)     [] op = "bvugt" -> U(a) > U(b)
         [] op = "bvule" -> U(a) <= U(b)    [] op = "bvuge" -> U(a) >= U(b)
         [] op = "bvslt" -> S(a) < S(b)     [] op = "bvsgt" -> S(a) > S(b)
         [] op = "bvsle" -> S(a) <= S(b)    [] op = "bvsge" -> S(a) >= S(b)
         [] op = "bvnego" -> ~Fits(-S(a))
         [] op = "bvuaddo" -> U(a) + U(b) >= 2 ^ Width(a)
         [] op = "bvsaddo" -> ~Fits(S(a) + S(b))
         [] op = "bvusubo" -> U(a) - U(b) < 0
         [] op = "bvssubo" -> ~Fits(S(a) - S(b))
         [] op = "bvumulo" -> U(a) * U(b) >= 2 ^ Width(a)
         [] op = "bvsmulo" -> ~Fits(S(a) * S(b))
         [] op = "bvsdivo" -> S(b) # 0 /\ ~Fits(Truncated(S(a), S(b)))

Refused ==
  LET w == Width(operands[1])
      n == operation.n
  IN CASE operation.op = "concat" -> w + Width(operands[2]) > WidthLimit
       [] operation.op \in {"zero_extend", "sign_extend"} -> w + n > WidthLimit
       [] operation.op = "repeat" -> n = 0 \/ w * n > WidthLimit
       [] operation.op = "extract" -> n >= w \/ operation.low > n
       [] operation.op = "decimal" -> n >= 2 ^ w
       [] OTHER -> ~SameWidths \/ w * w > WorkLimit \/ 2 * w > WidthLimit

\* Every circuit computes what SMT-LIB says of its operation, zero divisors,
\* the least number divided by -1 and amounts past the width included; and
\* nothing is refused but operands of different widths, positions and amounts
\* out of range, and circuits past the limits.
CircuitsRight ==
  operation.op # "none" =>
    /\ built.kind = "vector" => MeansVector
    /\ built.kind = "boolean" => MeansPredicate
    /\ built.kind = "error" => Refused
    /\ operation.op # "concat" /\ ~SameWidths => built.kind = "error"
=============================================================================
