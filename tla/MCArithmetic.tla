---------------------------- MODULE MCArithmetic ----------------------------
(***************************************************************************)
(* Two systems that compute with numbers, one at a time: families of       *)
(* constraints for Arithmetic (what may be asserted together, and the      *)
(* points its unsatisfiable answers are compared with), and operands for   *)
(* the circuits of Bitvec.                                                 *)
(***************************************************************************)
EXTENDS Arithmetic

CONSTANTS Amounts, WidthLimit, WorkLimit

VARIABLES system, operands, operation, built

MCVar == 1 .. 3
Integers3 == [v \in MCVar |-> "int"]
Reals3 == [v \in MCVar |-> "real"]

C(a, b, c, k, strict, sort) ==
  [e |-> [k |-> k, c |-> <<a, b, c>>], strict |-> strict, sort |-> sort]
Le(a, b, c, k) == C(a, b, c, k, FALSE, "int")
Lt(a, b, c, k) == C(a, b, c, k, TRUE, "int")
RealLe(a, b, c, k) == C(a, b, c, k, FALSE, "real")
RealLt(a, b, c, k) == C(a, b, c, k, TRUE, "real")

WholePoints == {[v \in MCVar |-> Whole(m[v])] : m \in [MCVar -> -3 .. 3]}
HalfPoints == {[v \in MCVar |-> Ratio(m[v], 2)] : m \in [MCVar -> -4 .. 4]}

Family(sorts, base, predicates, branches, points) ==
  [sorts |-> sorts, base |-> base, predicates |-> predicates, branches |-> branches,
   points |-> points]

\* Bounds and differences with common factors; a branch that joins two of them.
Differences == Family(Integers3, << >>,
  {Le(1, -1, 0, 1), Lt(0, 1, -1, 0), Le(-1, 0, 1, -2), Lt(2, 0, 0, -3), Le(0, -3, 3, 4)},
  {[k |-> -1, c |-> <<0, 1, -1>>]}, WholePoints)

\* Coefficients that share factors or do not, and no bounds of one variable.
Unbounded == Family(Integers3, << >>,
  {Le(2, -3, 0, 1), Le(-2, 3, 0, 0), Lt(3, 2, 0, -1), Lt(1, 2, 0, -1), Le(2, 4, 0, -2),
   Lt(-1, -2, 2, 2)},
  {[k |-> 1, c |-> <<2, -3, 0>>]}, WholePoints)

\* Three variables in a box: branch and bound.
Boxed == Family(Integers3,
  <<Le(1, 0, 0, -2), Le(-1, 0, 0, -1), Le(0, 2, 0, -3), Le(0, -2, 0, -3), Le(0, 0, 1, -1),
    Le(0, 0, -1, 0)>>,
  {Lt(2, 2, 2, -3), Lt(-3, 2, -1, 4), Le(3, -2, 0, -1), Le(-2, -3, 3, 5)},
  {[k |-> -1, c |-> <<3, 2, 0>>]}, WholePoints)

RealPlane == Family(Reals3, << >>,
  {RealLe(2, -1, 0, 1), RealLt(-2, 1, 0, 0), RealLe(0, 1, -2, 1), RealLe(-1, 0, 1, -1),
   RealLt(1, 0, 0, 2), RealLe(0, 0, 0, 0)}, {}, HalfPoints)

\* Two integers and a real: given up at once when they meet.
Mixed == Family([v \in MCVar |-> IF v = 3 THEN "real" ELSE "int"], << >>,
  {Le(1, -2, 0, 1), RealLe(1, 0, -1, 0), RealLt(0, 0, 1, -1), RealLe(1, 0, 0, 0)}, {}, {})

MCFamilies == {Differences, Unbounded, Boxed, RealPlane, Mixed}

Vectors(n) == [1 .. n -> BOOLEAN]
Inputs ==
  {<<a>> : a \in UNION {Vectors(n) : n \in 1 .. 5}}
  \cup UNION {{<<a, b>> : a, b \in Vectors(n)} : n \in 1 .. 4}
  \cup {<<a, b, d>> : a, b, d \in Vectors(2)}
  \cup {<<a, b>> : a \in Vectors(2), b \in Vectors(1)}
  \cup {<<a, a>> : a \in Vectors(5)}
B == INSTANCE Bitvec

NumberInit ==
  /\ Init /\ B!Init
  /\ \/ system = "constraints" /\ operands = <<<<FALSE>>>>
     \/ system = "bits" /\ family = Mixed
NumberNext ==
  \/ system = "constraints" /\ Next /\ UNCHANGED <<system, operands, operation, built>>
  \/ system = "bits" /\ B!Next /\ UNCHANGED <<system, family, constraints, answer>>
NumberSpec == NumberInit /\ [][NumberNext]_<<vars, system, operands, operation, built>>

\* Bit-vector circuits mean what SMT-LIB says (Bitvec).
CircuitsRight == B!CircuitsRight
=============================================================================
