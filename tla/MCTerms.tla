------------------------------ MODULE MCTerms -------------------------------
(***************************************************************************)
(* Formulas for the instances of Theories and Lowering: families of        *)
(* assertions for a client, and queries to be refuted by a replay.         *)
(***************************************************************************)
EXTENDS Terms

U(n) == <<"const", n>>
N(n) == <<"num", n>>
A(n) == <<"arr", n>>
P(n) == <<"atom", n>>
App(f, args) == <<"app", f, args>>
F(t) == App("f", <<t>>)
H(t) == App("h", <<t>>)
G(t) == App("g", <<t>>)
Q(t) == App("q", <<t>>)
Store(a, i, v) == <<"store", a, i, v>>

MCSignature ==
  [f |-> [domain |-> <<"U">>, range |-> "U"],
   q |-> [domain |-> <<"B">>, range |-> "U"],
   p |-> [domain |-> <<"U">>, range |-> "B"],
   h |-> [domain |-> <<"U">>, range |-> "I"],
   g |-> [domain |-> <<"I">>, range |-> "U"],
   o |-> [domain |-> <<"A">>, range |-> "B"]]
a == U("a")
b == U("b")
x == N("x")
y == N("y")
c == P("c")

-----------------------------------------------------------------------------
(* Theories: equality and functions, arrays, and integers exchanged with    *)
(* functions.                                                              *)

Vocabulary(asserted, built, top, calls) ==
  [asserted |-> asserted, built |-> built, values |-> top, commands |-> calls]

\* f over equal constants, a Boolean-valued function and an ite.
Equalities ==
  LET s == Ite(c, a, b)
  IN  Vocabulary({Equal(a, b), Not(Equal(F(a), F(s))),
                  And({App("p", <<a>>), Not(App("p", <<F(a)>>)), Equal(b, F(s))})}, {}, 2, 3)

\* Boolean arguments are compared by value, not by class.
BooleanArguments == Vocabulary({c, And({P("d"), Not(Equal(Q(c), Q(P("d"))))})}, {}, 2, 4)

\* Reads over writes, and a write that restores what was there.
Writes ==
  LET n == Store(A("m"), U("i"), U("v"))
  IN  Vocabulary({Equal(n, A("n")), Not(Equal(Select(A("n"), U("i")), U("v")))}, {}, 1, 3)

Extensional ==
  LET restored == Store(A("m"), U("i"), Select(A("m"), U("i")))
  IN  Vocabulary({App("o", <<A("m")>>),
                  And({App("o", <<A("m")>>), Not(App("o", <<restored>>))})}, {}, 1, 3)

ConstantArrays ==
  Vocabulary({And({c, Equal(Ite(c, A("m"), A("n")), <<"constarr", U("v")>>)}),
              Not(Equal(Select(A("m"), U("i")), U("v")))}, {Equal(A("m"), A("n"))}, 1, 3)

\* Integer results, integer arguments, integer ites.
IntegerResults == Vocabulary({Equal(a, b), Not(Le(H(a), H(b)))}, {}, 2, 4)
IntegerArguments == Vocabulary({And({Le(x, y), Not(Equal(G(x), G(y)))}), Le(y, x)}, {Le(N("z"), x)}, 2, 4)
IntegerIte == Vocabulary({Not(Le(Ite(c, x, y), x)), Le(y, x)}, {c}, 2, 4)

MCFamilies == {Equalities, BooleanArguments, Writes, Extensional, ConstantArrays,
               IntegerResults, IntegerArguments, IntegerIte}

\* A function application that occurs only in the branches of integer ites.
BranchApplications ==
  Vocabulary({And({c, Equal(a, b)}), Not(Le(Ite(c, H(a), x), Ite(c, H(b), x)))}, {}, 2, 3)

MCBranchFamilies == {BranchApplications}

-----------------------------------------------------------------------------
(* Lowering: assertions without a model, and some with, which nothing may   *)
(* refute.                                                                 *)

Query(roots, top) == [roots |-> roots, values |-> top]
v == U("v")
i == U("i")
Constant(e) == <<"constarr", e>>

\* Congruence, under an ite and from Boolean arguments.
Functions ==
  {Query({Equal(a, b), Not(Equal(F(a), F(Ite(c, a, b))))}, 2),
   Query({c, P("d"), Not(Equal(Q(c), Q(P("d"))))}, 2),
   Query({Not(Equal(a, b)), Not(Equal(b, v)), Not(Equal(a, v))}, 2)}

\* Reads of written, constant and conditional arrays, and extensionality.
ArrayReads ==
  {Query({Not(Equal(Select(Store(A("m"), i, v), i), v))}, 1),
   Query({Not(Equal(Select(Ite(c, Constant(v), Constant(v)), i), v))}, 1),
   Query({Not(Equal(Select(Ite(c, Constant(v), Store(A("m"), i, v)), i), v))}, 1),
   Query({App("o", <<A("m")>>), Not(App("o", <<Store(A("m"), i, Select(A("m"), i))>>))}, 1)}

\* Predicates over integers that functions exchange.
Integers2 ==
  {Query({Equal(a, b), Not(Le(H(a), H(b)))}, 2),
   Query({Le(x, y), Le(y, x), Not(Equal(G(x), G(y)))}, 1),
   Query({Not(Le(Ite(c, x, y), x)), Le(y, x)}, 1),
   Query({Not(Le(Ite(c, x, y), x)), c}, 1)}

\* These have models.
Satisfied ==
  {Query({Not(Equal(Select(Store(A("m"), a, v), b), v))}, 2),
   Query({Equal(Select(A("m"), i), v), Not(Equal(A("m"), A("n")))}, 1),
   Query({App("o", <<A("m")>>), Not(App("o", <<Store(A("m"), i, v)>>))}, 1),
   Query({Equal(F(a), b), Not(Equal(F(b), a)), Not(Equal(F(b), b))}, 2),
   Query({Le(x, y), Not(Equal(G(x), G(y))), App("p", <<G(x)>>)}, 1)}

MCQueries == Satisfied \cup Functions \cup ArrayReads \cup Integers2

\* An array that equals another one is read where only the other one is.
MCEqualArrays == {Query({Equal(A("m"), Constant(v)), Not(Equal(Select(A("m"), i), v))}, 1)}
=============================================================================
