----------------------------- MODULE Arithmetic -----------------------------
(***************************************************************************)
(* The exact solvers behind the arithmetic theory (smt/arithmetic.rs):     *)
(* shortest paths for integer difference constraints, Cooper's elimination *)
(* with enumeration and branch and bound for other integer constraints,    *)
(* and Fourier-Motzkin elimination for real ones.                          *)
(*                                                                         *)
(* An expression has a constant k and a coefficient for each variable, 0   *)
(* where the code's map has no entry.  Coefficients are whole numbers: a   *)
(* constraint compares with 0, so its denominators can be cleared.         *)
(* Bignums are plain integers.  An optional result is a sequence of at     *)
(* most one element.  Vectors that the code deduplicates and whose order   *)
(* decides nothing (the real solver's) are sets.                           *)
(***************************************************************************)
EXTENDS Integers, FiniteSets, SequencesExt

CONSTANTS
  Var,        \* arithmetic variables: 1 .. n, with n + 1 vertices for paths
  Families,   \* sets of constraints that may be asserted together
  RelaxAt,    \* variables from which branch and bound is used (5 in the code)
  MaxAsserts  \* bound on the constraints asserted beside a family's base

VARIABLES family, constraints, answer
vars == <<family, constraints, answer>>

None == << >>
Some(x) == <<x>>
Least(S) == CHOOSE x \in S : \A y \in S : x <= y
Greatest(S) == CHOOSE x \in S : \A y \in S : x >= y
Abs(i) == IF i < 0 THEN -i ELSE i

\* Quotients of whole numbers, rounded down and up; the divisor is not 0.
Floor(a, b) == IF b > 0 THEN a \div b ELSE (-a) \div (-b)
Ceil(a, b) == -Floor(-a, b)

RECURSIVE Gcd(_, _)
Gcd(a, b) == IF b = 0 THEN Abs(a) ELSE Gcd(b, Abs(a) % Abs(b))
Lcm(a, b) == IF a = 0 \/ b = 0 THEN 0 ELSE Abs((a \div Gcd(a, b)) * b)
-----------------------------------------------------------------------------
(***************************************************************************)
(* Expressions                                                             *)
(***************************************************************************)
Constant(n) == [k |-> n, c |-> [v \in Var |-> 0]]
Variable(x) == [k |-> 0, c |-> [v \in Var |-> IF v = x THEN 1 ELSE 0]]
AddScaled(e, f, s) == [k |-> e.k + s * f.k, c |-> [v \in Var |-> e.c[v] + s * f.c[v]]]
Scaled(e, s) == AddScaled(Constant(0), e, s)
Without(e, x) == [e EXCEPT !.c[x] = 0]
Shifted(e, n) == [e EXCEPT !.k = @ + n]
Occurring(e) == {v \in Var : e.c[v] # 0}
Substitute(e, x, f) == AddScaled(Without(e, x), f, e.c[x])
Evaluate(e, m) == FoldSet(LAMBDA v, sum : sum + e.c[v] * m[v], e.k, Occurring(e))
CoefficientGcd(e, start) == FoldSet(LAMBDA v, g : Gcd(g, e.c[v]), start, Occurring(e))
Divided(e, g) == [k |-> e.k \div g, c |-> [v \in Var |-> e.c[v] \div g]]

\* A vector without its repetitions, first occurrences in place.
Unrepeated(s) ==
  FoldLeft(LAMBDA kept, x : IF x \in Range(kept) THEN kept ELSE Append(kept, x), << >>, s)

\* A constraint without variables is checked at once.
Refuted(c) == Occurring(c.e) = {} /\ IF c.strict THEN c.e.k >= 0 ELSE c.e.k > 0
-----------------------------------------------------------------------------
(***************************************************************************)
(* Rational values of the real solver: lowest terms, positive denominator. *)
(***************************************************************************)
Ratio(n, d) == LET g == Gcd(n, d) IN
  [n |-> (IF d < 0 THEN -n ELSE n) \div g, d |-> Abs(d) \div g]
Whole(n) == [n |-> n, d |-> 1]
Plus(p, q) == Ratio(p.n * q.d + q.n * p.d, p.d * q.d)
Times(i, q) == Ratio(i * q.n, q.d)
AtMost(p, q) == p.n * q.d <= q.n * p.d
EvaluateReal(e, m) ==
  FoldSet(LAMBDA v, sum : Plus(sum, Times(e.c[v], m[v])), Whole(e.k), Occurring(e))

(***************************************************************************)
(* Fourier-Motzkin elimination                                             *)
(***************************************************************************)
\* Mutant of Combination: strict only when both bounds are.
CombinationOfStrict(x, u, l) ==
  [u EXCEPT !.e = AddScaled(Scaled(u.e, -l.e.c[x]), l.e, u.e.c[x]),
            !.strict = u.strict /\ l.strict]

\* What an upper and a lower bound of x say of the other variables.
Combination(x, u, l) ==
  [u EXCEPT !.e = AddScaled(Scaled(u.e, -l.e.c[x]), l.e, u.e.c[x]),
            !.strict = u.strict \/ l.strict]

Eliminated(cs, x) ==
  {c \in cs : c.e.c[x] = 0} \cup
  {Combination(x, p[1], p[2]) :
     p \in {c \in cs : c.e.c[x] > 0} \X {c \in cs : c.e.c[x] < 0}}

\* The strongest bound of a set of bounds, strict if one of its equals is.
Strongest(bounds, Weaker(_, _)) ==
  LET best == CHOOSE b \in bounds : \A a \in bounds : Weaker(a.at, b.at)
  IN [at |-> best.at, strict |-> \E b \in bounds : b.at = best.at /\ b.strict]

\* choose_between: a value between the strongest bounds.
ChooseBetween(lower, upper) ==
  LET AtLeast(p, q) == AtMost(q, p)
      low == Strongest(lower, AtMost)
      up == Strongest(upper, AtLeast)
  IN CASE lower = {} /\ upper = {} -> Whole(0)
       [] upper = {} /\ lower # {} -> Plus(low.at, Whole(IF low.strict THEN 1 ELSE 0))
       [] lower = {} /\ upper # {} -> Plus(up.at, Whole(IF up.strict THEN -1 ELSE 0))
       [] OTHER -> IF low.at = up.at THEN low.at
                   ELSE LET sum == Plus(low.at, up.at) IN Ratio(sum.n, 2 * sum.d)

\* The value of x among the bounds it was eliminated with, the others given.
Reconstructed(x, cs, m) ==
  LET Bound(c) == LET rest == EvaluateReal(Without(c.e, x), m)
                  IN [at |-> Ratio(-rest.n, rest.d * c.e.c[x]), strict |-> c.strict]
  IN ChooseBetween({Bound(c) : c \in {b \in cs : b.e.c[x] < 0}},
                   {Bound(c) : c \in {b \in cs : b.e.c[x] > 0}})

\* Eliminate the variables in order, then choose their values in reverse.
RECURSIVE SolveReal(_, _)
SolveReal(cs, unknown) ==
  IF \E c \in cs : Refuted(c) THEN None
  ELSE IF unknown = {} THEN Some([v \in {} |-> Whole(0)])
  ELSE LET x == Least(unknown)
           Extend(found) == IF found = None THEN None
                            ELSE Some((x :> Reconstructed(x, cs, found[1])) @@ found[1])
       IN Extend(SolveReal({c \in Eliminated(cs, x) : Occurring(c.e) # {} \/ Refuted(c)},
                           unknown \ {x}))
-----------------------------------------------------------------------------
(***************************************************************************)
(* Integer difference constraints: shortest paths from a start connected   *)
(* to every vertex by an edge of weight 0.  Vertex 0 stands for zero.      *)
(***************************************************************************)
IsDifference(e) ==
  \E x \in Occurring(e) : \A y \in Occurring(e) \ {x} : e.c[y] = -e.c[x] /\
    Occurring(e) = {x, y}

Edge(c) ==
  LET up == {x \in Var : c.e.c[x] > 0}
      down == {x \in Var : c.e.c[x] < 0}
      scale == Abs(c.e.c[CHOOSE x \in up \cup down : TRUE])
  IN [from |-> IF down = {} THEN 0 ELSE Least(down),
      to |-> IF up = {} THEN 0 ELSE Least(up),
      weight |-> IF c.strict THEN Ceil(-c.e.k, scale) - 1 ELSE Floor(-c.e.k, scale)]

RelaxedAlong(edges, distance) ==
  FoldLeft(LAMBDA d, g : IF d[g.from] + g.weight < d[g.to]
                         THEN [d EXCEPT ![g.to] = d[g.from] + g.weight] ELSE d,
           distance, edges)

\* As many rounds as vertices; a distance that still changes in the last one
\* is on a negative cycle.
RECURSIVE Distances(_, _, _)
Distances(edges, distance, rounds) ==
  LET After(d) == IF d = distance THEN Some(d)
                  ELSE IF rounds = 1 THEN None
                  ELSE Distances(edges, d, rounds - 1)
  IN After(RelaxedAlong(edges, distance))

SolveDifference(cs) ==
  LET edges == [i \in 1 .. Len(cs) |-> Edge(cs[i])]
      Model(found) == IF found = None THEN None
                      ELSE Some([v \in Var |-> found[1][v] - found[1][0]])
  IN Model(Distances(edges, [v \in Var \cup {0} |-> 0], Cardinality(Var) + 1))
-----------------------------------------------------------------------------
(***************************************************************************)
(* Integer problems: expressions that must be negative (lt), and           *)
(* expressions e a modulus m must divide (dv).                             *)
(***************************************************************************)
Problem(lt, dv) == [lt |-> lt, dv |-> dv]

SubstitutedIn(p, x, f) ==
  Problem([i \in 1 .. Len(p.lt) |-> Substitute(p.lt[i], x, f)],
          [i \in 1 .. Len(p.dv) |-> [p.dv[i] EXCEPT !.e = Substitute(@, x, f)]])

Mentions(p, x) == \/ \E i \in 1 .. Len(p.lt) : p.lt[i].c[x] # 0
                  \/ \E i \in 1 .. Len(p.dv) : p.dv[i].e.c[x] # 0

\* Mutant of Tightened: the constant is rounded towards zero.
TightenedTowardsZero(e) ==
  LET g == CoefficientGcd(e, 0) IN
  IF g > 1 THEN [Divided(e, g) EXCEPT !.k = IF e.k < 0 THEN Ceil(e.k, g) ELSE Floor(e.k, g)]
  ELSE e

\* simplify_integer_problem: divide by the greatest common divisor, rounding
\* the constant of an inequality down.
Tightened(e) == LET g == CoefficientGcd(e, 0) IN IF g > 1 THEN Divided(e, g) ELSE e

Impossible(p) ==
  \/ \E i \in 1 .. Len(p.lt) : Occurring(p.lt[i]) = {} /\ p.lt[i].k >= 0
  \/ \E i \in 1 .. Len(p.dv) : p.dv[i].e.k % CoefficientGcd(p.dv[i].e, p.dv[i].m) # 0

Reduced(d) == LET g == CoefficientGcd(d.e, d.m) IN [m |-> d.m \div g, e |-> Divided(d.e, g)]

Simplified(p) == Problem(
  Unrepeated(SelectSeq([i \in 1 .. Len(p.lt) |-> Tightened(p.lt[i])],
                       LAMBDA e : Occurring(e) # {})),
  Unrepeated(SelectSeq([i \in 1 .. Len(p.dv) |-> Reduced(p.dv[i])], LAMBDA d : d.m # 1)))

\* integer_constant_bounds, from the constraints on x alone.
Alone(p, x) == {e \in Range(p.lt) : Occurring(e) = {x}}
Uppers(p, x) == {Ceil(-e.k, e.c[x]) - 1 : e \in {f \in Alone(p, x) : f.c[x] > 0}}
Lowers(p, x) == {Floor(-e.k, e.c[x]) + 1 : e \in {f \in Alone(p, x) : f.c[x] < 0}}
Bounded(p, x) == Uppers(p, x) # {} /\ Lowers(p, x) # {}
Width(p, x) == Least(Uppers(p, x)) - Greatest(Lowers(p, x))

\* choose_bounded_integer_variable: the narrowest, then the first.
Narrowest(p, S) == CHOOSE x \in S : \A y \in S :
  Width(p, x) < Width(p, y) \/ (Width(p, x) = Width(p, y) /\ x <= y)

\* cooper_elimination_cost
MentioningLt(p, x) == {i \in 1 .. Len(p.lt) : p.lt[i].c[x] # 0}
MentioningDv(p, x) == {i \in 1 .. Len(p.dv) : p.dv[i].e.c[x] # 0}
ScaleOf(p, x) ==
  FoldSet(LAMBDA i, s : Lcm(s, p.dv[i].e.c[x]),
          FoldSet(LAMBDA i, s : Lcm(s, p.lt[i].c[x]), 1, MentioningLt(p, x)),
          MentioningDv(p, x))
Cost(p, x) ==
  LET scale == ScaleOf(p, x)
      period == FoldSet(LAMBDA i, s : Lcm(s, (scale \div Abs(p.dv[i].e.c[x])) * p.dv[i].m),
                        scale, MentioningDv(p, x))
      low == Cardinality({i \in MentioningLt(p, x) : p.lt[i].c[x] < 0})
      up == Cardinality(MentioningLt(p, x)) - low
  IN IF ~Mentions(p, x) THEN 0
     ELSE period * (IF low # 0 THEN low ELSE IF up # 0 THEN up ELSE 1)
Cheapest(p, S) == CHOOSE x \in S : \A y \in S :
  Cost(p, x) < Cost(p, y) \/ (Cost(p, x) = Cost(p, y) /\ x <= y)

\* Mutant of UnitCoefficient: only the coefficient of x is scaled.
UnitCoefficientUnscaled(e, x, scale) ==
  IF e.c[x] = 0 THEN e ELSE [e EXCEPT !.c[x] = IF e.c[x] > 0 THEN 1 ELSE -1]

\* normalize_cooper_variable: coefficients of x become 1 or -1, x standing for
\* scale times x from then on.
UnitCoefficient(e, x, scale) ==
  IF e.c[x] = 0 THEN e
  ELSE [Scaled(e, scale \div Abs(e.c[x])) EXCEPT !.c[x] = IF e.c[x] > 0 THEN 1 ELSE -1]
Normalized(p, x, scale) == Problem(
  [i \in 1 .. Len(p.lt) |-> UnitCoefficient(p.lt[i], x, scale)],
  [i \in 1 .. Len(p.dv) |->
     IF p.dv[i].e.c[x] = 0 THEN p.dv[i]
     ELSE [m |-> p.dv[i].m * (scale \div Abs(p.dv[i].e.c[x])),
           e |-> UnitCoefficient(p.dv[i].e, x, scale)]]
  \o <<[m |-> scale, e |-> Variable(x)]>>)

\* The values to try for x: within one period above a lower bound; below an
\* upper bound when there is none; anywhere when there is neither.
Period(n) == FoldSeq(LAMBDA d, s : Lcm(s, d.m), 1, n.dv)
Candidates(n, x) ==
  LET period == Period(n)
      low == SelectSeq(n.lt, LAMBDA e : e.c[x] < 0)
      up == SelectSeq(n.lt, LAMBDA e : e.c[x] > 0)
      Around(bases, Base(_), sign) ==
        FlattenSeq([i \in 1 .. Len(bases) |->
          [o \in 1 .. period |-> Shifted(Base(bases[i]), sign * o)]])
  IN CASE low # << >> -> Around(low, LAMBDA e : Without(e, x), 1)
       [] low = << >> /\ up # << >> -> Around(up, LAMBDA e : Scaled(Without(e, x), -1), -1)
       [] OTHER -> [o \in 1 .. period |-> Constant(o - 1)]

\* Integer e < 0 is e + 1 <= 0, relaxed to the reals.
Relaxation(p) == {[e |-> Shifted(e, 1), strict |-> FALSE, sort |-> "real"] : e \in Range(p.lt)}
AtMostBound(x, n) == Shifted(Variable(x), -n - 1)
AtLeastBound(x, n) == Shifted(Scaled(Variable(x), -1), n - 1)
And(p, e) == [p EXCEPT !.lt = Append(@, e)]

(***************************************************************************)
(* solve_integer_problem and its three ways to go on.                      *)
(***************************************************************************)
RECURSIVE Solve(_, _), SolveSimplified(_, _), TryValues(_, _, _, _),
          TryCandidates(_, _, _, _, _), BranchAndBound(_, _)

Solve(p, unknown) == IF Impossible(p) THEN None ELSE SolveSimplified(Simplified(p), unknown)

SolveSimplified(p, unknown) ==
  LET bounded == {x \in unknown : Bounded(p, x)}
      Zeroed(x, found) == IF found = None THEN None ELSE Some((x :> 0) @@ found[1])
      Eliminate(x) ==
        IF ~Mentions(p, x) THEN Zeroed(x, Solve(p, unknown \ {x}))
        ELSE LET scale == ScaleOf(p, x)
                 n == Normalized(p, x, scale)
             IN TryCandidates(n, x, scale, Candidates(n, x), unknown \ {x})
      Enumerate(x) == TryValues(p, x, Greatest(Lowers(p, x)), unknown \ {x})
  IN CASE unknown = {} -> Some([v \in {} |-> 0])
       [] /\ Cardinality(unknown) >= RelaxAt /\ p.dv = << >>
          /\ \A x \in unknown : Mentions(p, x) => Bounded(p, x)
            -> BranchAndBound(p, unknown)
       [] /\ unknown # {} /\ bounded # {}
          /\ \/ Cardinality(unknown) < RelaxAt \/ p.dv # << >>
             \/ \E x \in unknown : Mentions(p, x) /\ ~Bounded(p, x)
            -> Enumerate(Narrowest(p, bounded))
       [] OTHER -> Eliminate(Cheapest(p, unknown))

TryValues(p, x, value, rest) ==
  LET Otherwise(found) == IF found # None THEN Some((x :> value) @@ found[1])
                      ELSE TryValues(p, x, value + 1, rest)
  IN IF value > Least(Uppers(p, x)) THEN None
     ELSE Otherwise(Solve(SubstitutedIn(p, x, Constant(value)), rest))

TryCandidates(n, x, scale, candidates, rest) ==
  LET c == Head(candidates)
      Divides(found) == found # None /\ Evaluate(c, found[1]) % scale = 0
      Otherwise(found) ==
        IF Divides(found) THEN Some((x :> (Evaluate(c, found[1]) \div scale)) @@ found[1])
        ELSE TryCandidates(n, x, scale, Tail(candidates), rest)
  IN IF candidates = << >> THEN None ELSE Otherwise(Solve(SubstitutedIn(n, x, c), rest))

BranchAndBound(p, unknown) ==
  LET With(found, x, q) == IF found # None THEN found
                           ELSE Solve(And(p, AtLeastBound(x, Ceil(q.n, q.d))), unknown)
      Value(m, x) == IF x \in DOMAIN m THEN m[x] ELSE Whole(0)
      Split(m) ==
        LET fractional == {x \in unknown : Value(m, x).d # 1} IN
        IF fractional = {} THEN Some([x \in unknown |-> Value(m, x).n])
        ELSE LET x == Least(fractional)
                 q == Value(m, x)
             IN With(Solve(And(p, AtMostBound(x, Floor(q.n, q.d))), unknown), x, q)
      Relaxed(found) == IF found = None THEN None ELSE Split(found[1])
  IN Relaxed(SolveReal(Relaxation(p), UNION {Occurring(e) : e \in Range(p.lt)}))
-----------------------------------------------------------------------------
(***************************************************************************)
(* solve_constraints                                                       *)
(***************************************************************************)
Holds(c, m) == LET e == Evaluate(c.e, m) IN IF c.strict THEN e < 0 ELSE e <= 0
HoldsReal(c, m) ==
  LET e == EvaluateReal(c.e, m) IN IF c.strict THEN e.n < 0 ELSE e.n <= 0

Answer(kind, model) == [kind |-> kind, model |-> model]
NoAnswer == Answer("none", None)
Involved(cs) == UNION {Occurring(c.e) : c \in cs}
Completed(m) == [v \in Var |-> IF v \in DOMAIN m THEN m[v] ELSE 0]
CompletedReal(m) == [v \in Var |-> IF v \in DOMAIN m THEN m[v] ELSE Whole(0)]

\* Integer e <= 0 is e - 1 < 0.
NegativeForm(c) == IF c.strict THEN c.e ELSE Shifted(c.e, -1)

\* A model that fails the replay is never given out.
SolveInteger(cs) ==
  LET Replayed(m) == IF \A c \in Range(cs) : Holds(c, m)
                     THEN Answer("sat", Some([v \in Var |-> Whole(m[v])]))
                     ELSE Answer("incomplete", None)
      Told(found) == IF found = None THEN Answer("unsat", None)
                     ELSE Replayed(Completed(found[1]))
  IN Told(Solve(Problem([i \in 1 .. Len(cs) |-> NegativeForm(cs[i])], << >>),
                Involved(Range(cs))))

SolveConstraints(sorts, cs) ==
  LET integers == {v \in Involved(Range(cs)) : sorts[v] = "int"}
      varied == SelectSeq(cs, LAMBDA c : Occurring(c.e) # {})
      ToldInteger(found) == IF found = None THEN Answer("unsat", None)
                            ELSE Answer("sat", Some([v \in Var |-> Whole(found[1][v])]))
      ToldReal(found) == IF found = None THEN Answer("unsat", None)
                         ELSE Answer("sat", Some(CompletedReal(found[1])))
  IN IF integers = {}
     THEN ToldReal(SolveReal(Range(cs), Involved(Range(cs))))
     ELSE IF \/ \E v \in Involved(Range(cs)) : sorts[v] = "real"
             \/ \E c \in Range(cs) : c.sort = "real"
     THEN Answer("incomplete", None)
     ELSE IF \A c \in Range(varied) : IsDifference(c.e)
     THEN IF \E c \in Range(cs) : Refuted(c) THEN Answer("unsat", None)
          ELSE ToldInteger(SolveDifference(varied))
     ELSE SolveInteger(cs)
-----------------------------------------------------------------------------
Init == \E f \in Families : family = f /\ constraints = f.base /\ answer = NoAnswer

\* What the assignment says of a predicate e <= 0 or e < 0: itself, or the
\* opposite bound.
AsConstraint(p, positive) ==
  [p EXCEPT !.e = IF positive THEN @ ELSE Scaled(@, -1), !.strict = @ = positive]

AssertPredicate(p, positive) ==
  /\ Len(constraints) < Len(family.base) + MaxAsserts
  /\ \A v \in BOOLEAN : AsConstraint(p, v) \notin Range(constraints)
  /\ constraints' = Append(constraints, AsConstraint(p, positive))
  /\ answer' = NoAnswer
  /\ UNCHANGED family

\* An arithmetic ite whose condition is decided equals the chosen branch: two
\* constraints.
AssertBranch(e) ==
  LET forward == [e |-> e, strict |-> FALSE, sort |-> "int"] IN
  /\ Len(constraints) + 1 < Len(family.base) + MaxAsserts
  /\ forward \notin Range(constraints)
  /\ constraints' = constraints \o <<forward, [forward EXCEPT !.e = Scaled(@, -1)]>>
  /\ answer' = NoAnswer
  /\ UNCHANGED family

FinalCheck ==
  /\ answer = NoAnswer
  /\ \E a \in {SolveConstraints(family.sorts, constraints)} : answer' = a
  /\ UNCHANGED <<family, constraints>>

Next ==
  \/ FinalCheck
  \/ \E p \in family.predicates, positive \in BOOLEAN : AssertPredicate(p, positive)
  \/ \E e \in family.branches : AssertBranch(e)
Spec == Init /\ [][Next]_vars
-----------------------------------------------------------------------------
\* A satisfiable answer comes with a model of every constraint, whole numbers
\* for the integer variables.
SatModelRight == answer.kind = "sat" =>
  /\ \A c \in Range(constraints) : HoldsReal(c, answer.model[1])
  /\ \A v \in Var : family.sorts[v] = "int" => answer.model[1][v].d = 1

\* An unsatisfiable answer is given only when no point in reach of the
\* constants satisfies the constraints: whole ones, and halves for the reals.
UnsatAnswerRight == answer.kind = "unsat" =>
  \A m \in family.points : \E c \in Range(constraints) : ~HoldsReal(c, m)

\* Constraints over one sort are always decided: reconstruction never fails
\* the replay.
Decides == answer.kind = "incomplete" =>
  /\ \E v \in Involved(Range(constraints)) : family.sorts[v] = "int"
  /\ \/ \E v \in Involved(Range(constraints)) : family.sorts[v] = "real"
     \/ \E c \in Range(constraints) : c.sort = "real"
=============================================================================
