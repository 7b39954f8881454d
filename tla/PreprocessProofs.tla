-------------------------- MODULE PreprocessProofs --------------------------
(***************************************************************************)
(* No preprocessing pass of module Preprocess loses a model of the         *)
(* client's clauses or lets one in, for every set of variables, every set  *)
(* of clauses and every choice of passes.                                  *)
(***************************************************************************)
EXTENDS Preprocess, FiniteSetTheorems, SequenceTheorems, WellFoundedInduction, TLAPS

-----------------------------------------------------------------------------
(***************************************************************************)
(* The inductive invariant.                                                *)
(***************************************************************************)
\* A clause of the store, and a record of the elimination.
Row == [lits : SUBSET Lit, deleted : BOOLEAN, blind : BOOLEAN]
Record == [var : Var, clauses : SUBSET (SUBSET Lit)]

\* The type of every variable a step depends on.
TypeOK ==
  /\ client \in Seq(Call)
  /\ inputs \in SUBSET (SUBSET ClientLit)
  /\ db \in Seq(Row)
  /\ root \in SUBSET Lit /\ chosen \in SUBSET Var
  /\ records \in Seq(Record)
  /\ consistent \in BOOLEAN /\ started \in BOOLEAN
  /\ stage \in 0 .. 7
  /\ assumed \in SUBSET ClientLit

\* A query runs for a call of the client; nothing is eliminated before the
\* first, nor unless the client asked.
QueryOK ==
  /\ stage # 0 => started /\ client # << >>
  /\ (chosen # {} \/ records # << >>) => started /\ "eliminate" \in config

\* A literal of a clause never meets its complement there.
NoTautology == \A r \in DOMAIN db : ~ Tautology(db[r].lits)

\* A variable that factorization may still take is in no clause, deleted or
\* not, and has no value.
Literals(d) == UNION {d[r].lits : r \in DOMAIN d}
Mentioned == {VarOf(l) : l \in Known \cup Literals(db)}
FreshOK == UnusedFresh \cap Mentioned = {}

\* A plan that is still valid lists the clauses of its grid and no others.
PlanOK(p) ==
  /\ p.factors \in SUBSET Lit /\ p.factors # {}
  /\ p.quotients \in SUBSET (SUBSET Lit) /\ p.quotients # {}
  /\ p.matrix \subseteq DOMAIN db
  /\ \A f \in p.factors, q \in p.quotients :
       \E r \in p.matrix : Reduced(db[r].lits) = q \cup {f}
  /\ \A r \in p.matrix : \E f \in p.factors, q \in p.quotients :
       Reduced(db[r].lits) = q \cup {f}

\* What the schedule of each pass holds.
ScheduleOK ==
  /\ stage = 2 => todo \in SUBSET ClientLit
  /\ stage = 3 => todo \subseteq Live(db)
  /\ stage = 4 => todo \subseteq {p \in (DOMAIN db) \X (DOMAIN db) : p[1] # p[2]}
  /\ stage = 5 => todo \subseteq Nat \X Var /\ (todo # {} => "eliminate" \in config)
  /\ stage = 6 => \A p \in todo : PlanOK(p)

\* Every model of the client's clauses extends, away from the eliminated
\* variables, to one of what is left; and a conflict means there is none.
Covered == \A m \in ModelsOf(inputs) :
  consistent /\ \E n \in Complete : m \cap Kept = n \cap Kept

\* Every model of what is left becomes one of the client's clauses, with no
\* other change than to the eliminated variables, and no record of the
\* elimination asks for both values of its variable.
UndoneRight(m) ==
  /\ Extended(m, records) \in Model /\ Satisfies(Extended(m, records), inputs)
  /\ Extended(m, records) \cap Kept = m \cap Kept
  /\ \A i \in DOMAIN records :
       LET n == Extended(m, SubSeq(records, i + 1, Len(records)))
       IN Cardinality(Required(n, records[i])) <= 1
Recovered == consistent => \A m \in Complete : UndoneRight(m)

\* What an answer says of the client's clauses and of the assumptions of the
\* query: nothing of those on an eliminated variable.
AnswerOK ==
  /\ answer.kind = "sat" =>
       /\ answer.model \in Model /\ Satisfies(answer.model, inputs)
       /\ assumed \cap Kept \subseteq answer.model
  /\ answer.kind = "unsat" =>
       /\ answer.core \subseteq assumed
       /\ answer.core \subseteq Kept => Refutes(inputs, answer.core)

\* The invariant.
Inv == /\ TypeOK /\ QueryOK /\ NoTautology /\ FreshOK /\ ScheduleOK
       /\ Covered /\ Recovered /\ AnswerOK

-----------------------------------------------------------------------------
(***************************************************************************)
(* Literals, models, and recursion over an interval.                       *)
(***************************************************************************)

\* Complements, and the variable both have.
LEMMA NegLit ==
  ASSUME NEW l \in Lit
  PROVE  /\ Neg(l) \in Lit /\ Neg(Neg(l)) = l /\ Neg(l) # l
         /\ VarOf(l) \in Var /\ VarOf(Neg(l)) = VarOf(l) /\ l \in Int
BY VarAssumption DEF Lit, Neg, VarOf

\* A variable is a literal, and so is its complement.
LEMMA VarLit ==
  ASSUME NEW v \in Var
  PROVE  /\ v \in Lit /\ -v \in Lit /\ VarOf(v) = v /\ VarOf(-v) = v
         /\ v \in Nat /\ v # -v /\ -(-v) = v
         /\ \A l \in Lit : VarOf(l) = v <=> l \in {v, -v}
BY VarAssumption DEF Lit, VarOf

\* A model makes exactly one of a literal and its complement true.
LEMMA ModelTotal ==
  ASSUME NEW m \in Model, NEW l \in Lit
  PROVE  (Neg(l) \in m) <=> (l \notin m)
BY VarAssumption DEF Model, Lit, Neg

\* Sets of literals are finite.
LEMMA ClauseFinite ==
  ASSUME NEW c \in SUBSET Lit
  PROVE  IsFiniteSet(c) /\ Cardinality(c) \in Nat
<1> DEFINE f == [v \in Var |-> -v]
           Negative == {-v : v \in Var}
<1>1. f \in Surjection(Var, Negative)
  BY DEF Surjection
<1>2. IsFiniteSet(Var)
  BY VariablesAssumption
<1>3. IsFiniteSet(Negative)
  BY <1>1, <1>2, FS_Surjection
<1>4. IsFiniteSet(Lit)
  BY <1>2, <1>3, FS_Union DEF Lit
<1> QED
  BY <1>4, FS_Subset, FS_CardinalityType

\* A nonempty set of natural numbers has a least element.
LEMMA LeastNat ==
  ASSUME NEW T \in SUBSET Nat, T # {}
  PROVE  \E x \in T : \A y \in T : x <= y
<1> DEFINE R == OpToRel(<, Nat)
<1>1. IsWellFoundedOn(R, Nat)
  BY NatLessThanWellFounded
<1>2. \A y, x \in Nat : <<y, x>> \in R <=> y < x
  BY DEF OpToRel
<1> HIDE DEF R
<1>3. PICK x \in T : \A y \in T : <<y, x>> \notin R
  BY <1>1, WFMin
<1>4. \A y \in T : ~ (y < x)
  BY <1>2, <1>3
<1> QED
  BY <1>4

\* What holds at 0 and passes from each number below n to the next holds at n.
LEMMA UpTo ==
  ASSUME NEW n \in Nat, NEW T \in SUBSET (0 .. n), 0 \in T,
         \A k \in 0 .. n - 1 : k \in T => k + 1 \in T
  PROVE  \A k \in 0 .. n : k \in T
<1> DEFINE Rest == (0 .. n) \ T
<1>1. CASE Rest = {}
  BY <1>1
<1>2. CASE Rest # {}
  <2>1. PICK k \in Rest : \A j \in Rest : k <= j
    <3>1. Rest \in SUBSET Nat
      OBVIOUS
    <3> HIDE DEF Rest
    <3> QED
      BY <1>2, <3>1, LeastNat
  <2>2. k # 0 /\ k - 1 \in 0 .. n - 1 /\ k - 1 \notin Rest /\ k - 1 + 1 = k
    BY <2>1
  <2>3. k - 1 \in T
    BY <2>2
  <2> QED
    BY <2>1, <2>2, <2>3
<1> QED
  BY <1>1, <1>2

\* The values of a recursive function on 0 .. n.
IsChain(g, n, a, step) ==
  g = [k \in 0 .. n |-> IF k = 0 THEN a ELSE step[k][g[k - 1]]]
IsStep(step, n, S) == step \in [1 .. n -> [S -> S]]

\* A function may be defined from 0 upwards.
LEMMA Recursion ==
  ASSUME NEW n \in Nat, NEW S, NEW a \in S, NEW step, IsStep(step, n, S)
  PROVE  \E g \in [0 .. n -> S] : IsChain(g, n, a, step)
<1> DEFINE Until(k, g) == /\ g[0] = a
                          /\ \A i \in 1 .. k : g[i] = step[i][g[i - 1]]
           T == {k \in 0 .. n : \E g \in [0 .. k -> S] : Until(k, g)}
<1>1. 0 \in T
  <2>1. [i \in 0 .. 0 |-> a] \in [0 .. 0 -> S]
    OBVIOUS
  <2>2. Until(0, [i \in 0 .. 0 |-> a])
    OBVIOUS
  <2> HIDE DEF Until
  <2> QED
    BY <2>1, <2>2
<1>2. ASSUME NEW k \in 0 .. n - 1, k \in T PROVE k + 1 \in T
  <2>1. PICK g \in [0 .. k -> S] : Until(k, g)
    BY <1>2
  <2> DEFINE h == [i \in 0 .. k + 1 |-> IF i = k + 1 THEN step[i][g[k]] ELSE g[i]]
  <2>2. g[k] \in S /\ k + 1 \in 1 .. n
    OBVIOUS
  <2>3. step[k + 1][g[k]] \in S
    BY <2>2 DEF IsStep
  <2>4. h \in [0 .. k + 1 -> S]
    BY <2>3
  <2>5. Until(k + 1, h)
    <3>1. h[0] = a
      BY <2>1
    <3>2. ASSUME NEW i \in 1 .. k + 1 PROVE h[i] = step[i][h[i - 1]]
      <4>1. i - 1 \in 0 .. k /\ h[i - 1] = g[i - 1]
        OBVIOUS
      <4>2. CASE i = k + 1
        <5>1. i - 1 = k
          BY <4>2
        <5> QED
          BY <4>1, <4>2, <5>1
      <4>3. CASE i # k + 1
        BY <2>1, <4>1, <4>3
      <4> QED
        BY <4>2, <4>3
    <3> QED
      BY <3>1, <3>2
  <2> HIDE DEF Until, h
  <2> QED
    BY <2>2, <2>4, <2>5
<1>3. n \in T
  <2> HIDE DEF T
  <2>1. T \in SUBSET (0 .. n)
    BY DEF T
  <2> QED
    BY <1>1, <1>2, <2>1, UpTo
<1>4. PICK g \in [0 .. n -> S] : Until(n, g)
  BY <1>3
<1>5. g = [k \in 0 .. n |-> IF k = 0 THEN a ELSE step[k][g[k - 1]]]
  BY <1>4
<1> QED
  BY <1>4, <1>5 DEF IsChain

-----------------------------------------------------------------------------
(***************************************************************************)
(* Unit propagation.                                                       *)
(***************************************************************************)

\* The literals that the clauses F imply when those of p are true.
Implied(F, p) == {l \in UNION F : \E c \in F : /\ l \in c
                                               /\ \A k \in c \ {l} : Neg(k) \in p}

\* Propagation keeps what it starts from, and stays within every set that
\* holds it and is closed under unit implication.
LEMMA PropagatedBounds ==
  ASSUME NEW F, NEW A, NEW X, A \subseteq X,
         \A p \in SUBSET X : Implied(F, p) \subseteq X
  PROVE  A \subseteq Propagated(F, A) /\ Propagated(F, A) \subseteq X
<1> DEFINE n == Cardinality(Var)
           S == SUBSET (A \cup UNION F)
           step == [k \in 1 .. n |-> [p \in S |-> p \cup Implied(F, p)]]
           Is(g) == g = [k \in 0 .. n |-> IF k = 0 THEN A
                                         ELSE g[k - 1] \cup Implied(F, g[k - 1])]
<1>1. n \in Nat
  BY VariablesAssumption, FS_CardinalityType
<1>2. \E g \in [0 .. n -> S] : IsChain(g, n, A, step)
  <2>1. IsStep(step, n, S)
    BY DEF IsStep, Implied
  <2>2. A \in S
    OBVIOUS
  <2> HIDE DEF n, S, step
  <2> QED
    BY <1>1, <2>1, <2>2, Recursion
<1>3. PICK g \in [0 .. n -> S] : IsChain(g, n, A, step)
  BY <1>2
<1>4. Is(g)
  <2>1. \A k \in 1 .. n, p \in S : step[k][p] = p \cup Implied(F, p)
    OBVIOUS
  <2>2. \A k \in 1 .. n : k - 1 \in 0 .. n /\ g[k - 1] \in S
    BY <1>1, <1>3
  <2>3. g = [k \in 0 .. n |-> IF k = 0 THEN A ELSE step[k][g[k - 1]]]
    BY <1>3 DEF IsChain
  <2> HIDE DEF step, S
  <2>4. \A k \in 0 .. n : k # 0 => step[k][g[k - 1]] = g[k - 1] \cup Implied(F, g[k - 1])
    BY <1>1, <2>1, <2>2
  <2> QED
    BY <2>3, <2>4
<1> DEFINE r == CHOOSE g_1 : Is(g_1)
<1>5. Is(r)
  BY <1>4
<1>6. Propagated(F, A) = r[n]
  BY DEF Propagated, Implied
<1> HIDE DEF r, S, step
<1> DEFINE T == {k \in 0 .. n : A \subseteq r[k] /\ r[k] \subseteq X}
<1>7. 0 \in T
  BY <1>1, <1>5
<1>8. ASSUME NEW k \in 0 .. n - 1, k \in T PROVE k + 1 \in T
  <2>1. k + 1 \in 0 .. n /\ k + 1 # 0 /\ k + 1 - 1 = k
    BY <1>1
  <2>2. r[k + 1] = r[k] \cup Implied(F, r[k])
    <3>1. \A j \in 0 .. n : j # 0 => r[j] = r[j - 1] \cup Implied(F, r[j - 1])
      BY <1>5
    <3>2. r[k + 1] = r[k + 1 - 1] \cup Implied(F, r[k + 1 - 1])
      <4> HIDE DEF n, T, Is
      <4> QED
        BY <2>1, <3>1
    <3> QED
      BY <2>1, <3>2
  <2>3. A \subseteq r[k] /\ r[k] \subseteq X /\ Implied(F, r[k]) \subseteq X
    BY <1>8
  <2> QED
    BY <2>1, <2>2, <2>3
<1>9. n \in T
  <2>1. T \in SUBSET (0 .. n)
    OBVIOUS
  <2> HIDE DEF T, n
  <2>2. \A k \in 0 .. n : k \in T
    BY <1>1, <1>7, <1>8, <2>1, UpTo
  <2> QED
    BY <1>1, <2>2
<1> QED
  BY <1>6, <1>9

\* Propagation finds only literals of the clauses, and what every model of
\* them that agrees with the start makes true; such a model shows that no
\* conflict is found.
LEMMA PropagatedSound ==
  ASSUME NEW F \in SUBSET (SUBSET Lit), NEW A \in SUBSET Lit
  PROVE  /\ A \subseteq Propagated(F, A)
         /\ Propagated(F, A) \subseteq A \cup UNION F
         /\ \A m \in Model : Satisfies(m, F) /\ A \subseteq m => Propagated(F, A) \subseteq m
<1>1. A \subseteq Propagated(F, A) /\ Propagated(F, A) \subseteq A \cup UNION F
  <2> DEFINE X == A \cup UNION F
  <2>1. A \subseteq X /\ \A p \in SUBSET X : Implied(F, p) \subseteq X
    BY DEF Implied
  <2> HIDE DEF X
  <2>2. A \subseteq Propagated(F, A) /\ Propagated(F, A) \subseteq X
    BY <2>1, PropagatedBounds
  <2> QED
    BY <2>2 DEF X
<1>2. ASSUME NEW m \in Model, Satisfies(m, F), A \subseteq m PROVE Propagated(F, A) \subseteq m
  <2>1. ASSUME NEW p \in SUBSET m PROVE Implied(F, p) \subseteq m
    <3> SUFFICES ASSUME NEW c \in F, NEW l \in c, \A k \in c \ {l} : Neg(k) \in p
                 PROVE  l \in m
      BY DEF Implied
    <3>1. PICK k \in c : k \in m
      BY <1>2 DEF Satisfies
    <3>2. k \in Lit /\ Neg(k) \notin m
      BY <3>1, ModelTotal
    <3> QED
      BY <3>1, <3>2
  <2> QED
    BY <1>2, <2>1, PropagatedBounds
<1> QED
  BY <1>1, <1>2

\* The clause stores there may be.
Store == Seq(Row)

\* The clauses a store holds are sets of literals.
LEMMA StoreFacts ==
  ASSUME NEW d \in Store
  PROVE  /\ DOMAIN d = 1 .. Len(d) /\ Len(d) \in Nat
         /\ \A r \in DOMAIN d : d[r] \in Row /\ d[r].lits \in SUBSET Lit
         /\ Literals(d) \in SUBSET Lit
         /\ Live(d) \subseteq DOMAIN d
<1>1. \A r \in DOMAIN d : d[r] \in Row
  BY DEF Store
<1>2. \A r \in DOMAIN d : d[r].lits \in SUBSET Lit
  BY <1>1 DEF Row
<1> QED
  BY <1>1, <1>2 DEF Store, Literals, Live

\* So is propagation over a store, from the literals A.
LEMMA TrailSound ==
  ASSUME NEW d \in Store, NEW i, NEW A \in SUBSET Lit
  PROVE  /\ A \subseteq Trail(d, i, A)
         /\ Trail(d, i, A) \subseteq A \cup Literals(d)
         /\ \A m \in Model :
              (\A r \in Live(d) \ {i} : d[r].lits \cap m # {}) /\ A \subseteq m =>
                Trail(d, i, A) \subseteq m /\ ~ ConflictIn(d, i, A)
<1> DEFINE F == {d[r].lits : r \in {q \in Live(d) \ {i} : ~ d[q].blind}}
<1>1. Trail(d, i, A) = Propagated(F, A)
  BY DEF Trail
<1>2. F \in SUBSET (SUBSET Lit) /\ UNION F \subseteq Literals(d)
  BY StoreFacts DEF Literals
<1>3. \A m : (\A r \in Live(d) \ {i} : d[r].lits \cap m # {}) => Satisfies(m, F)
  BY DEF Satisfies
<1> HIDE DEF F
<1>4. /\ A \subseteq Propagated(F, A)
      /\ Propagated(F, A) \subseteq A \cup UNION F
      /\ \A m \in Model : Satisfies(m, F) /\ A \subseteq m => Propagated(F, A) \subseteq m
  BY <1>2, PropagatedSound
<1>5. ASSUME NEW m \in Model, A \subseteq m, \A r \in Live(d) \ {i} : d[r].lits \cap m # {}
      PROVE  Trail(d, i, A) \subseteq m /\ ~ ConflictIn(d, i, A)
  <2>1. Trail(d, i, A) \subseteq m
    BY <1>1, <1>3, <1>4, <1>5
  <2>2. \A l \in Trail(d, i, A) : Neg(l) \notin Trail(d, i, A)
    BY <2>1, ModelTotal DEF Model
  <2>3. ASSUME NEW r \in Live(d) \ {i} PROVE \E l \in d[r].lits : Neg(l) \notin Trail(d, i, A)
    <3>1. PICK l \in d[r].lits : l \in m
      BY <1>5
    <3>2. l \in Lit
      BY StoreFacts
    <3> QED
      BY <2>1, <3>1, <3>2, ModelTotal
  <2> QED
    BY <2>1, <2>2, <2>3 DEF ConflictIn, Conflicting
<1> QED
  BY <1>1, <1>2, <1>4, <1>5

-----------------------------------------------------------------------------
(***************************************************************************)
(* Lists of the members of a set, vivification, and the reconstruction of  *)
(* a model.                                                                *)
(***************************************************************************)

\* A list as long as its set that repeats no member has them all.
LEMMA ListsAll ==
  ASSUME NEW S, IsFiniteSet(S), NEW s \in [1 .. Cardinality(S) -> S], IsInjective(s)
  PROVE  /\ s \in Seq(S) /\ Len(s) = Cardinality(S) /\ Len(s) \in Nat
         /\ DOMAIN s = 1 .. Len(s)
         /\ \A i \in 1 .. Len(s) : s[i] \in S
         /\ \A x \in S : \E i \in 1 .. Len(s) : s[i] = x
<1> DEFINE n == Cardinality(S)
<1>1. n \in Nat
  BY FS_CardinalityType
<1>2. IsFiniteSet(1 .. n) /\ Cardinality(1 .. n) = n
  BY <1>1, FS_Interval
<1>3. s \in Injection(1 .. n, S)
  BY DEF Injection
<1>4. s \in Surjection(1 .. n, S)
  <2> HIDE DEF n
  <2> QED
    BY <1>2, <1>3, FS_Injection DEF n
<1>5. \A x \in S : \E i \in 1 .. n : s[i] = x
  BY <1>4 DEF Surjection
<1>6. s \in Seq(S) /\ Len(s) = n
  BY <1>1
<1> QED
  BY <1>1, <1>5, <1>6

\* Every finite set has such a list.
LEMMA SetToSeqFacts ==
  ASSUME NEW S, IsFiniteSet(S), NEW s, s = SetToSeq(S)
  PROVE  /\ s \in Seq(S) /\ Len(s) \in Nat /\ DOMAIN s = 1 .. Len(s)
         /\ \A i \in 1 .. Len(s) : s[i] \in S
         /\ \A x \in S : \E i \in 1 .. Len(s) : s[i] = x
<1>1. PICK f : f \in Bijection(1 .. Cardinality(S), S)
  BY FS_CardinalityType DEF ExistsBijection
<1>2. f \in [1 .. Cardinality(S) -> S] /\ IsInjective(f)
  BY <1>1 DEF Bijection, Injection
<1>3. s \in [1 .. Cardinality(S) -> S] /\ IsInjective(s)
  BY <1>2 DEF SetToSeq
<1> QED
  BY <1>3, ListsAll

\* Vivification keeps some of the unassigned literals of the clause, and
\* every model of the store has one of the literals kept.
LEMMA VivifiedSound ==
  ASSUME db \in Store, Known \in SUBSET Lit, NEW r \in Live(db),
         NEW order \in Orders(Reduced(db[r].lits))
  PROVE  /\ Vivified(r, order) \in SUBSET Reduced(db[r].lits)
         /\ \A m \in Complete : Vivified(r, order) \cap m # {}
<1> DEFINE c == Reduced(db[r].lits)
           n == Len(order)
           step == [k \in 1 .. n |-> [p \in SUBSET c |-> Tried(r, p, order[k])]]
           Is(g) == g = [k \in 0 .. n |-> IF k = 0 THEN {} ELSE Tried(r, g[k - 1], order[k])]
<1>1. c \in SUBSET Lit /\ db[r].lits \in SUBSET Lit /\ r \in DOMAIN db
  BY StoreFacts DEF Reduced
<1>2. /\ n \in Nat
      /\ \A i \in 1 .. n : order[i] \in c
      /\ \A l \in c : \E i \in 1 .. n : order[i] = l
  <2>1. IsFiniteSet(c)
    BY <1>1, ClauseFinite
  <2>2. order \in [1 .. Cardinality(c) -> c] /\ IsInjective(order)
    BY DEF Orders, SetToSeqs, IsInjective
  <2> QED
    BY <2>1, <2>2, ListsAll
<1>3. \A p \in SUBSET c, k \in 1 .. n : Tried(r, p, order[k]) \in SUBSET c
  BY <1>2 DEF Tried
<1>4. PICK g \in [0 .. n -> SUBSET c] : IsChain(g, n, {}, step)
  <2> DEFINE S == SUBSET c
  <2>1. IsStep(step, n, S)
    BY <1>3 DEF IsStep
  <2>2. {} \in S
    OBVIOUS
  <2> HIDE DEF S, step, n, c
  <2> QED
    BY <1>2, <2>1, <2>2, Recursion DEF S
<1>5. Is(g)
  <2> HIDE DEF c
  <2>1. \A k \in 1 .. n, p \in SUBSET c : step[k][p] = Tried(r, p, order[k])
    OBVIOUS
  <2>2. \A k \in 1 .. n : k - 1 \in 0 .. n /\ g[k - 1] \in SUBSET c
    BY <1>2, <1>4
  <2>3. g = [k \in 0 .. n |-> IF k = 0 THEN {} ELSE step[k][g[k - 1]]]
    BY <1>4 DEF IsChain
  <2> HIDE DEF step, n
  <2>4. \A k \in 0 .. n : k # 0 => step[k][g[k - 1]] = Tried(r, g[k - 1], order[k])
    BY <1>2, <2>1, <2>2
  <2> QED
    BY <2>3, <2>4
<1> DEFINE kept == CHOOSE g_1 : Is(g_1)
<1>6. Is(kept)
  BY <1>5
<1>7. Vivified(r, order) = kept[n]
  BY DEF Vivified
<1> HIDE DEF kept, step, n, c
<1>8. kept[0] = {} /\ \A k \in 1 .. n : kept[k] = Tried(r, kept[k - 1], order[k])
  <2>1. \A k \in 0 .. n : kept[k] = IF k = 0 THEN {} ELSE Tried(r, kept[k - 1], order[k])
    BY <1>6
  <2> HIDE DEF Is
  <2>2. 0 \in 0 .. n /\ \A k \in 1 .. n : k \in 0 .. n /\ k # 0
    BY <1>2
  <2> QED
    BY <2>1, <2>2
<1> HIDE DEF Is
<1>9. ASSUME NEW m \in Complete
      PROVE  /\ kept[n] \in SUBSET c
             /\ kept[n] \cap m = {} => \A i \in 1 .. n : order[i] \notin m
  <2> DEFINE T == {k \in 0 .. n : /\ kept[k] \in SUBSET c
                                  /\ kept[k] \cap m = {} => \A i \in 1 .. k : order[i] \notin m}
  <2>1. 0 \in T
    BY <1>2, <1>8
  <2>2. ASSUME NEW k \in 0 .. n - 1, k \in T PROVE k + 1 \in T
    <3>1. k + 1 \in 1 .. n /\ k + 1 - 1 = k /\ kept[k] \in SUBSET c
      BY <1>2, <2>2
    <3> DEFINE l == order[k + 1]
               p == kept[k]
    <3>2. kept[k + 1] = Tried(r, p, l) /\ l \in c
      BY <1>2, <1>8, <3>1
    <3>3. kept[k + 1] \in SUBSET c
      BY <1>3, <3>1, <3>2
    <3>4. p \subseteq kept[k + 1]
      BY <3>2 DEF Tried
    <3>5. ASSUME kept[k + 1] \cap m = {}, NEW i \in 1 .. k + 1 PROVE order[i] \notin m
      <4>1. p \cap m = {}
        BY <3>4, <3>5
      <4>2. CASE i # k + 1
        <5>1. i \in 1 .. k
          BY <4>2
        <5> QED
          BY <2>2, <4>1, <5>1
      <4>3. CASE i = k + 1
        <5> DEFINE A == Known \cup {Neg(q) : q \in p}
        <5>1. A \in SUBSET Lit /\ A \subseteq m
          BY <1>1, <3>1, <4>1, NegLit, ModelTotal DEF Complete
        <5>2. \A q \in Live(db) \ {r} : db[q].lits \cap m # {}
          BY DEF Complete, Satisfies, LiveClauses
        <5>3. Trail(db, r, A) \subseteq m /\ ~ ConflictIn(db, r, A)
          <6> HIDE DEF A
          <6>1. m \in Model
            BY DEF Complete
          <6> QED
            BY <5>1, <5>2, <6>1, TrailSound
        <5>4. CASE Neg(l) \in Trail(db, r, A)
          <6>1. l \in Lit /\ m \in Model
            BY <1>1, <3>2 DEF Complete
          <6> QED
            BY <4>3, <5>3, <5>4, <6>1, ModelTotal
        <5>5. CASE Neg(l) \notin Trail(db, r, A)
          <6>1. l \in kept[k + 1]
            BY <3>2, <5>3, <5>5 DEF Tried
          <6> QED
            BY <3>5, <4>3, <6>1
        <5> QED
          BY <5>4, <5>5
      <4> QED
        BY <4>2, <4>3
    <3> QED
      BY <1>2, <3>1, <3>3, <3>5
  <2>3. n \in T
    <3>1. T \in SUBSET (0 .. n)
      OBVIOUS
    <3> HIDE DEF T
    <3>2. \A k \in 0 .. n : k \in T
      BY <1>2, <2>1, <2>2, <3>1, UpTo
    <3> QED
      BY <1>2, <3>2
  <2> QED
    BY <2>3
<1>10. kept[n] \in SUBSET c
  <2> DEFINE T == {k \in 0 .. n : kept[k] \in SUBSET c}
  <2>1. 0 \in T /\ T \in SUBSET (0 .. n)
    BY <1>2, <1>8
  <2>2. ASSUME NEW k \in 0 .. n - 1, k \in T PROVE k + 1 \in T
    <3>1. k + 1 \in 1 .. n /\ k + 1 - 1 = k /\ kept[k] \in SUBSET c
      BY <1>2, <2>2
    <3>2. kept[k + 1] = Tried(r, kept[k], order[k + 1])
      BY <1>8, <3>1
    <3>3. kept[k + 1] \in SUBSET c
      BY <1>3, <3>1, <3>2
    <3> QED
      BY <1>2, <3>1, <3>3
  <2> HIDE DEF T
  <2>3. n \in T
    <3>1. \A k \in 0 .. n : k \in T
      BY <1>2, <2>1, <2>2, UpTo
    <3> QED
      BY <1>2, <3>1
  <2> QED
    BY <2>3 DEF T
<1>11. ASSUME NEW m \in Complete PROVE kept[n] \cap m # {}
  <2>1. PICK l \in db[r].lits : l \in m
    BY DEF Complete, Satisfies, LiveClauses
  <2>2. l \in c
    BY <1>1, <2>1, ModelTotal DEF c, Reduced, Complete
  <2> QED
    BY <1>2, <1>9, <2>1, <2>2
<1> QED
  BY <1>7, <1>10, <1>11 DEF c

\* What undoing one record leaves.
LEMMA UndoType ==
  ASSUME NEW m \in SUBSET Lit, NEW rec \in Record
  PROVE  Undo(m, rec) \in SUBSET Lit
<1>1. rec.var \in Lit /\ -rec.var \in Lit
  BY VarLit DEF Record
<1> QED
  BY <1>1 DEF Undo, Required

\* The models that extend_model goes through.
UndoChain(g, m, recs) ==
  g = [k \in 0 .. Len(recs) |-> IF k = 0 THEN m
                                ELSE Undo(g[k - 1], recs[Len(recs) + 1 - k])]

\* Any such list of models ends in the reconstructed one.
LEMMA ExtendedIs ==
  ASSUME NEW m \in SUBSET Lit, NEW recs \in Seq(Record), NEW h, UndoChain(h, m, recs)
  PROVE  Extended(m, recs) = h[Len(recs)]
<1> DEFINE n == Len(recs)
           g == CHOOSE f : UndoChain(f, m, recs)
<1>1. n \in Nat
  OBVIOUS
<1>2. UndoChain(g, m, recs)
  OBVIOUS
<1>3. Extended(m, recs) = g[n]
  BY DEF Extended, UndoChain
<1> HIDE DEF g
<1>4. \A k \in 0 .. n : /\ g[k] = IF k = 0 THEN m ELSE Undo(g[k - 1], recs[n + 1 - k])
                        /\ h[k] = IF k = 0 THEN m ELSE Undo(h[k - 1], recs[n + 1 - k])
  BY <1>2 DEF UndoChain
<1> DEFINE T == {k \in 0 .. n : g[k] = h[k]}
<1>5. 0 \in T /\ T \in SUBSET (0 .. n)
  BY <1>1, <1>4
<1>6. ASSUME NEW k \in 0 .. n - 1, k \in T PROVE k + 1 \in T
  <2>1. k + 1 \in 0 .. n /\ k + 1 # 0 /\ k + 1 - 1 = k
    BY <1>1
  <2>2. g[k] = h[k]
    BY <1>6
  <2> HIDE DEF n, T
  <2>3. /\ g[k + 1] = Undo(g[k + 1 - 1], recs[n + 1 - (k + 1)])
        /\ h[k + 1] = Undo(h[k + 1 - 1], recs[n + 1 - (k + 1)])
    BY <1>4, <2>1
  <2>4. g[k + 1] = h[k + 1]
    BY <2>1, <2>2, <2>3
  <2> QED
    BY <2>1, <2>4 DEF T
<1> HIDE DEF T, n
<1>7. \A k \in 0 .. n : k \in T
  BY <1>1, <1>5, <1>6, UpTo
<1>8. n \in T
  BY <1>1, <1>7
<1> QED
  BY <1>3, <1>8 DEF T, n

\* The last record is undone first.
LEMMA ExtendedFacts ==
  ASSUME NEW m \in SUBSET Lit, NEW recs \in Seq(Record)
  PROVE  /\ Extended(m, << >>) = m
         /\ \A rec \in Record : Extended(m, Append(recs, rec)) = Extended(Undo(m, rec), recs)
<1>1. Extended(m, << >>) = m
  <2> DEFINE h == [k \in 0 .. 0 |-> m]
  <2>1. UndoChain(h, m, << >>) /\ << >> \in Seq(Record) /\ Len(<< >>) = 0
    BY DEF UndoChain
  <2>2. h[0] = m
    OBVIOUS
  <2> HIDE DEF h
  <2> QED
    BY <2>1, <2>2, ExtendedIs
<1>2. ASSUME NEW rec \in Record PROVE Extended(m, Append(recs, rec)) = Extended(Undo(m, rec), recs)
  <2> DEFINE n == Len(recs)
             a == Undo(m, rec)
             S == SUBSET Lit
             step == [k \in 1 .. n |-> [p \in S |-> Undo(p, recs[n + 1 - k])]]
             all == Append(recs, rec)
  <2>1. n \in Nat /\ a \in S
    BY UndoType
  <2>2. \A k \in 1 .. n : recs[n + 1 - k] \in Record
    <3> SUFFICES ASSUME NEW k \in 1 .. n PROVE recs[n + 1 - k] \in Record
      OBVIOUS
    <3>1. n + 1 - k \in 1 .. n
      BY <2>1
    <3> QED
      BY <3>1
  <2>3. IsStep(step, n, S)
    <3>1. \A k \in 1 .. n, p \in S : Undo(p, recs[n + 1 - k]) \in S
      BY <2>2, UndoType
    <3> HIDE DEF n, S
    <3> QED
      BY <3>1 DEF IsStep
  <2>4. PICK g \in [0 .. n -> S] : IsChain(g, n, a, step)
    <3> HIDE DEF n, S, a, step
    <3> QED
      BY <2>1, <2>3, Recursion
  <2>5. \A k \in 0 .. n : g[k] = IF k = 0 THEN a ELSE Undo(g[k - 1], recs[n + 1 - k])
    <3>1. \A k \in 0 .. n : g[k] = IF k = 0 THEN a ELSE step[k][g[k - 1]]
      BY <2>4 DEF IsChain
    <3>2. \A k \in 1 .. n, p \in S : step[k][p] = Undo(p, recs[n + 1 - k])
      OBVIOUS
    <3> HIDE DEF n, S, a, step
    <3>3. \A k \in 0 .. n : k # 0 => k \in 1 .. n /\ g[k - 1] \in S
      BY <2>1, <2>4
    <3> QED
      BY <3>1, <3>2, <3>3
  <2>6. UndoChain(g, a, recs)
    <3>1. g = [k \in 0 .. n |-> g[k]]
      BY <2>4
    <3> HIDE DEF n, a, S, step
    <3>2. g = [k \in 0 .. n |-> IF k = 0 THEN a ELSE Undo(g[k - 1], recs[n + 1 - k])]
      BY <2>5, <3>1
    <3> QED
      BY <3>2 DEF UndoChain, n
  <2> DEFINE h == [k \in 0 .. n + 1 |-> IF k = 0 THEN m ELSE g[k - 1]]
  <2>7. /\ all \in Seq(Record) /\ Len(all) = n + 1 /\ all[n + 1] = rec
        /\ \A i \in 1 .. n : all[i] = recs[i]
    BY AppendProperties
  <2>8. UndoChain(h, m, all)
    <3> HIDE DEF a, all, S, step
    <3>1. ASSUME NEW k \in 0 .. n + 1, k # 0
          PROVE  h[k] = Undo(h[k - 1], all[n + 1 + 1 - k])
      <4>1. CASE k = 1
        <5>1. h[1] = g[0] /\ h[0] = m /\ g[0] = a /\ n + 1 + 1 - 1 = n + 1 /\ 1 - 1 = 0
          BY <2>1, <2>5
        <5> HIDE DEF h, n
        <5> QED
          BY <2>7, <4>1, <5>1 DEF a
      <4>2. CASE k # 1
        <5>1. /\ k - 1 \in 0 .. n /\ k - 1 # 0 /\ k - 1 \in 0 .. n + 1 /\ n + 1 - (k - 1) \in 1 .. n
              /\ n + 1 + 1 - k = n + 1 - (k - 1)
          BY <2>1, <3>1, <4>2
        <5>2. h[k] = g[k - 1] /\ h[k - 1] = g[k - 1 - 1]
          BY <3>1, <5>1
        <5> HIDE DEF h, n
        <5>3. g[k - 1] = Undo(g[k - 1 - 1], recs[n + 1 - (k - 1)])
          BY <2>5, <5>1
        <5>4. all[n + 1 - (k - 1)] = recs[n + 1 - (k - 1)]
          BY <2>7, <5>1
        <5> QED
          BY <5>1, <5>2, <5>3, <5>4
      <4> QED
        BY <4>1, <4>2
    <3>2. h[0] = m /\ h = [k \in 0 .. n + 1 |-> h[k]]
      BY <2>1
    <3> HIDE DEF h, n
    <3>3. h = [k \in 0 .. n + 1 |-> IF k = 0 THEN m ELSE Undo(h[k - 1], all[n + 1 + 1 - k])]
      BY <3>1, <3>2
    <3> QED
      BY <2>7, <3>3 DEF UndoChain
  <2>9. h[n + 1] = g[n]
    <3>1. n + 1 \in 0 .. n + 1 /\ n + 1 # 0 /\ n + 1 - 1 = n
      BY <2>1
    <3>2. \A k \in 0 .. n + 1 : k # 0 => h[k] = g[k - 1]
      OBVIOUS
    <3> HIDE DEF n, h, a, all, S, step
    <3> QED
      BY <2>1, <3>1, <3>2
  <2>10. Extended(a, recs) = g[n]
    <3> HIDE DEF a
    <3> QED
      BY <2>1, <2>6, ExtendedIs
  <2> HIDE DEF h, a, all, n
  <2>11. Extended(m, all) = h[n + 1]
    BY <2>7, <2>8, ExtendedIs
  <2> QED
    BY <2>9, <2>10, <2>11 DEF all, a
<1> QED
  BY <1>1, <1>2

-----------------------------------------------------------------------------
(***************************************************************************)
(* Changes of the clause store.                                            *)
(***************************************************************************)

\* The store e is d without the clauses R and with clauses with literals N.
Changes(d, e, R, N) ==
  /\ e \in Store /\ DOMAIN d \subseteq DOMAIN e
  /\ \A r \in DOMAIN d : /\ e[r].lits = d[r].lits
                         /\ r \in Live(e) <=> r \in Live(d) /\ r \notin R
  /\ \A r \in (DOMAIN e) \ (DOMAIN d) : r \in Live(e) /\ e[r].lits \in N
  /\ \A c \in N : \E r \in (DOMAIN e) \ (DOMAIN d) : e[r].lits = c

\* Deleting clauses leaves the places and literals of all.
LEMMA WithoutRefsFacts ==
  ASSUME NEW d \in Store, NEW R
  PROVE  /\ WithoutRefs(d, R) \in Store /\ Len(WithoutRefs(d, R)) = Len(d)
         /\ \A r \in 1 .. Len(d) :
              /\ WithoutRefs(d, R)[r].lits = d[r].lits
              /\ WithoutRefs(d, R)[r].deleted <=> d[r].deleted \/ r \in R
<1> DEFINE e == WithoutRefs(d, R)
<1>1. DOMAIN d = 1 .. Len(d) /\ Len(d) \in Nat /\ \A r \in 1 .. Len(d) : d[r] \in Row
  BY StoreFacts
<1>2. \A r \in 1 .. Len(d) : e[r] = IF r \in R THEN [d[r] EXCEPT !.deleted = TRUE] ELSE d[r]
  BY <1>1 DEF WithoutRefs
<1>3. ASSUME NEW r \in 1 .. Len(d)
      PROVE  /\ e[r] \in Row /\ e[r].lits = d[r].lits
             /\ e[r].deleted <=> d[r].deleted \/ r \in R
  <2>1. d[r] \in [lits : SUBSET Lit, deleted : BOOLEAN, blind : BOOLEAN]
    BY <1>1 DEF Row
  <2>2. CASE r \in R
    <3>1. e[r] = [d[r] EXCEPT !.deleted = TRUE]
      BY <1>2, <2>2
    <3> QED
      BY <2>1, <2>2, <3>1 DEF Row
  <2>3. CASE r \notin R
    BY <1>1, <1>2, <2>3
  <2> QED
    BY <2>2, <2>3
<1>4. e = [r \in 1 .. Len(d) |-> e[r]]
  BY <1>1 DEF WithoutRefs
<1> HIDE DEF e
<1>5. e \in Seq(Row) /\ Len(e) = Len(d)
  BY <1>1, <1>3, <1>4
<1> QED
  BY <1>3, <1>5 DEF e, Store

\* Clauses are deleted, and others stored after the last.
LEMMA StoreChanged ==
  ASSUME NEW d \in Store, NEW R, NEW rows \in Seq(Row),
         \A i \in 1 .. Len(rows) : ~ rows[i].deleted
  PROVE  Changes(d, WithoutRefs(d, R) \o rows, R, {rows[i].lits : i \in 1 .. Len(rows)})
<1> DEFINE w == WithoutRefs(d, R)
           e == w \o rows
           N == {rows[i].lits : i \in 1 .. Len(rows)}
<1>1. /\ w \in Seq(Row) /\ Len(w) = Len(d) /\ DOMAIN d = 1 .. Len(d) /\ Len(d) \in Nat
      /\ \A r \in 1 .. Len(d) : /\ w[r].lits = d[r].lits
                                /\ w[r].deleted <=> d[r].deleted \/ r \in R
  BY WithoutRefsFacts, StoreFacts DEF Store
<1> HIDE DEF w
<1>2. /\ e \in Seq(Row) /\ Len(e) = Len(d) + Len(rows) /\ DOMAIN e = 1 .. Len(e)
      /\ Len(rows) \in Nat
      /\ \A i \in 1 .. Len(d) + Len(rows) :
           e[i] = IF i <= Len(d) THEN w[i] ELSE rows[i - Len(d)]
  <2>1. /\ e \in Seq(Row) /\ Len(e) = Len(w) + Len(rows)
        /\ \A i \in 1 .. Len(w) + Len(rows) :
             e[i] = IF i <= Len(w) THEN w[i] ELSE rows[i - Len(w)]
    BY <1>1, ConcatProperties
  <2> HIDE DEF e, N
  <2>2. DOMAIN e = 1 .. Len(e) /\ Len(rows) \in Nat
    BY <2>1, LenProperties
  <2> QED
    BY <1>1, <2>1, <2>2
<1> HIDE DEF e
<1>3. \A r \in 1 .. Len(d) : r \in DOMAIN e /\ e[r] = w[r]
  BY <1>1, <1>2
<1>4. \A r \in (DOMAIN e) \ (DOMAIN d) : r - Len(d) \in 1 .. Len(rows) /\ e[r] = rows[r - Len(d)]
  BY <1>1, <1>2
<1>5. \A i \in 1 .. Len(rows) : /\ Len(d) + i \in (DOMAIN e) \ (DOMAIN d)
                                /\ e[Len(d) + i] = rows[i]
  <2> SUFFICES ASSUME NEW i \in 1 .. Len(rows)
               PROVE  Len(d) + i \in (DOMAIN e) \ (DOMAIN d) /\ e[Len(d) + i] = rows[i]
    OBVIOUS
  <2>1. /\ Len(d) + i \in 1 .. Len(d) + Len(rows) /\ ~ (Len(d) + i <= Len(d))
        /\ Len(d) + i - Len(d) = i
    BY <1>1, <1>2
  <2> QED
    BY <1>1, <1>2, <2>1
<1>6. \A r \in DOMAIN d : e[r].lits = d[r].lits /\ (r \in Live(e) <=> r \in Live(d) /\ r \notin R)
  BY <1>1, <1>3 DEF Live
<1>7. \A r \in (DOMAIN e) \ (DOMAIN d) : r \in Live(e) /\ e[r].lits \in N
  BY <1>4 DEF Live
<1>8. \A c \in N : \E r \in (DOMAIN e) \ (DOMAIN d) : e[r].lits = c
  BY <1>5
<1> QED
  BY <1>1, <1>2, <1>3, <1>6, <1>7, <1>8 DEF Changes, Store, e, w

\* The two short forms of a change.
LEMMA StoreShort ==
  ASSUME NEW d \in Store, NEW R, NEW row \in Row, ~ row.deleted
  PROVE  /\ Changes(d, WithoutRefs(d, R), R, {})
         /\ Changes(d, Append(WithoutRefs(d, R), row), R, {row.lits})
         /\ Changes(d, Append(d, row), {}, {row.lits})
         /\ Changes(d, d, {}, {})
<1> DEFINE w == WithoutRefs(d, R)
<1>1. /\ w \in Seq(Row) /\ d \in Seq(Row) /\ DOMAIN d = 1 .. Len(d) /\ Len(w) = Len(d)
      /\ Len(d) \in Nat
      /\ \A r \in 1 .. Len(d) : /\ w[r].lits = d[r].lits
                                /\ w[r].deleted <=> d[r].deleted \/ r \in R
  BY WithoutRefsFacts, StoreFacts DEF Store
<1> HIDE DEF w
<1>2. Changes(d, w, R, {}) /\ Changes(d, d, {}, {})
  BY <1>1 DEF Changes, Store, Live
<1>3. ASSUME NEW v \in Seq(Row), Len(v) = Len(d), NEW Q,
             \A r \in 1 .. Len(d) : /\ v[r].lits = d[r].lits
                                    /\ v[r].deleted <=> d[r].deleted \/ r \in Q
      PROVE  Changes(d, Append(v, row), Q, {row.lits})
  <2> DEFINE e == Append(v, row)
             n == Len(d) + 1
  <2>1. /\ e \in Seq(Row) /\ Len(e) = n /\ DOMAIN e = 1 .. n /\ e[n] = row
        /\ \A r \in 1 .. Len(d) : e[r] = v[r]
    BY <1>1, <1>3, AppendProperties
  <2> HIDE DEF e
  <2>2. 1 .. Len(d) \subseteq 1 .. n /\ (1 .. n) \ (1 .. Len(d)) = {n}
    BY <1>1
  <2> HIDE DEF n
  <2>3. \A r \in DOMAIN d : e[r].lits = d[r].lits /\ (r \in Live(e) <=> r \in Live(d) /\ r \notin Q)
    BY <1>1, <1>3, <2>1, <2>2 DEF Live
  <2>4. n \in Live(e) /\ e[n].lits = row.lits
    BY <2>1, <2>2 DEF Live
  <2> QED
    BY <1>1, <2>1, <2>2, <2>3, <2>4 DEF Changes, Store, e
<1>4. \A r \in 1 .. Len(d) : d[r].deleted <=> d[r].deleted \/ r \in {}
  OBVIOUS
<1> QED
  BY <1>1, <1>2, <1>3, <1>4 DEF w

\* What a change does to the clauses and to the literals they mention.
LEMMA ChangeFacts ==
  ASSUME NEW d \in Store, NEW e, NEW R, NEW N, Changes(d, e, R, N)
  PROVE  /\ LiveClauses(e) = {d[r].lits : r \in Live(d) \ R} \cup N
         /\ Literals(e) = Literals(d) \cup UNION N
         /\ N \in SUBSET (SUBSET Lit)
<1>1. /\ Live(d) \subseteq DOMAIN d /\ Live(e) \subseteq DOMAIN e /\ e \in Store
      /\ DOMAIN d \subseteq DOMAIN e
      /\ \A r \in DOMAIN e : e[r].lits \in SUBSET Lit
  BY StoreFacts DEF Changes
<1>2. /\ \A r \in DOMAIN d : /\ e[r].lits = d[r].lits
                             /\ r \in Live(e) <=> r \in Live(d) /\ r \notin R
      /\ \A r \in (DOMAIN e) \ (DOMAIN d) : r \in Live(e) /\ e[r].lits \in N
      /\ \A c \in N : \E r \in (DOMAIN e) \ (DOMAIN d) : e[r].lits = c
  BY DEF Changes
<1>3. LiveClauses(e) = {d[r].lits : r \in Live(d) \ R} \cup N
  BY <1>1, <1>2 DEF LiveClauses
<1>4. Literals(e) = Literals(d) \cup UNION N
  <2>1. Literals(d) \subseteq Literals(e) /\ UNION N \subseteq Literals(e)
    BY <1>1, <1>2 DEF Literals
  <2>2. ASSUME NEW l \in Literals(e) PROVE l \in Literals(d) \cup UNION N
    <3>1. PICK r \in DOMAIN e : l \in e[r].lits
      BY DEF Literals
    <3> QED
      BY <1>2, <3>1 DEF Literals
  <2> QED
    BY <2>1, <2>2
<1> QED
  BY <1>1, <1>2, <1>3, <1>4

-----------------------------------------------------------------------------
(***************************************************************************)
(* What the steps of the passes have in common.                            *)
(***************************************************************************)

\* What the types say.
LEMMA Typed ==
  ASSUME TypeOK
  PROVE  /\ db \in Store /\ Known \in SUBSET Lit /\ Literals(db) \in SUBSET Lit
         /\ inputs \in SUBSET (SUBSET Lit) /\ records \in Seq(Record)
         /\ Live(db) \subseteq DOMAIN db /\ DOMAIN db \subseteq Nat
         /\ \A r \in DOMAIN db : db[r].lits \in SUBSET Lit
<1>1. db \in Store
  BY DEF TypeOK, Store
<1>2. chosen \in SUBSET Lit
  BY VarLit DEF TypeOK
<1>3. DOMAIN db \subseteq Nat
  BY <1>1, StoreFacts
<1> QED
  BY <1>1, <1>2, <1>3, StoreFacts DEF TypeOK, Known, ClientLit

\* Clauses of a store that a model of its clauses satisfies.
LEMMA CompleteFacts ==
  ASSUME NEW m \in Complete
  PROVE  /\ m \in Model /\ m \in SUBSET Lit /\ Known \subseteq m
         /\ \A r \in Live(db) : db[r].lits \cap m # {}
BY DEF Complete, Satisfies, LiveClauses, Model

\* Units asserted at level 0 hold from then on, with what they imply; a model
\* that has them loses nothing, and shows that there is no conflict.
LEMMA AssertedUnits ==
  ASSUME TypeOK, NEW d \in Store, NEW U \in SUBSET Lit, AssertUnits(d, U), chosen' = chosen
  PROVE  /\ root' \in SUBSET Lit /\ consistent' \in BOOLEAN
         /\ Known \cup U \subseteq Known'
         /\ Known' \subseteq Known \cup U \cup Literals(d)
         /\ \A m \in Model : Satisfies(m, LiveClauses(d)) /\ Known \cup U \subseteq m =>
                               consistent' /\ Known' \subseteq m
<1> DEFINE A == Known \cup U
           t == Trail(d, 0, A)
<1>1. A \in SUBSET Lit /\ Literals(d) \in SUBSET Lit
  BY Typed, StoreFacts
<1>2. /\ A \subseteq t /\ t \subseteq A \cup Literals(d)
      /\ \A m \in Model :
           (\A r \in Live(d) \ {0} : d[r].lits \cap m # {}) /\ A \subseteq m =>
             t \subseteq m /\ ~ ConflictIn(d, 0, A)
  <2> HIDE DEF A
  <2> QED
    BY <1>1, TrailSound
<1>3. root' = t \ chosen /\ consistent' = ~ ConflictIn(d, 0, A)
  BY DEF AssertUnits
<1>4. Known' = t
  <2> HIDE DEF t
  <2> QED
    BY <1>2, <1>3 DEF Known, A
<1>5. consistent' \in BOOLEAN
  BY <1>3 DEF ConflictIn, Conflicting
<1>6. root' \in SUBSET Lit
  <2> HIDE DEF t, A
  <2> QED
    BY <1>1, <1>2, <1>3
<1>7. ASSUME NEW m \in Model, Satisfies(m, LiveClauses(d)), A \subseteq m
      PROVE  consistent' /\ Known' \subseteq m
  <2>1. \A r \in Live(d) \ {0} : d[r].lits \cap m # {}
    BY <1>7 DEF Satisfies, LiveClauses
  <2> HIDE DEF t, A
  <2> QED
    BY <1>2, <1>3, <1>4, <1>7, <2>1
<1> QED
  BY <1>2, <1>4, <1>5, <1>6, <1>7

\* A new clause or value brings a variable that is already in use, or one of
\* the client's.
LEMMA FreshKept ==
  ASSUME TypeOK, FreshOK, NEW R, NEW N, Changes(db, db', R, N),
         \A l \in Known' \cup UNION N : VarOf(l) \in Mentioned \cup External
  PROVE  FreshOK'
<1>1. UnusedFresh' \subseteq UnusedFresh
  BY DEF UnusedFresh, Changes
<1>2. Literals(db)' = Literals(db) \cup UNION N
  BY Typed, ChangeFacts
<1>3. Mentioned' \subseteq Mentioned \cup External
  BY <1>2 DEF Mentioned
<1>4. UnusedFresh \cap External = {}
  BY DEF UnusedFresh, Fresh
<1> QED
  BY <1>1, <1>3, <1>4 DEF FreshOK

\* No clause stored is a tautology if no new one is.
LEMMA TautologyKept ==
  ASSUME NoTautology, NEW R, NEW N, Changes(db, db', R, N), \A c \in N : ~ Tautology(c)
  PROVE  NoTautology'
BY DEF NoTautology, Changes

\* An answer stays right while the clauses of the client are the same.
LEMMA AnswerKept ==
  ASSUME AnswerOK, UNCHANGED <<inputs, assumed, answer>>, chosen \subseteq chosen'
  PROVE  AnswerOK'
BY DEF AnswerOK, Refutes, Satisfies, Kept

\* A step that replaces clauses and values by others with the same models
\* keeps all but what is to be said of its schedule.
LEMMA Replacing ==
  ASSUME Inv, consistent,
         UNCHANGED <<config, client, inputs, chosen, records, started, stage, assumed, answer>>,
         root' \in SUBSET Lit, consistent' \in BOOLEAN,
         NEW R, NEW N, Changes(db, db', R, N),
         \A c \in N : ~ Tautology(c),
         UNION N \subseteq Literals(db),
         Known' \subseteq Known \cup ClientLit \cup Literals(db),
         \A m \in Complete : consistent' /\ m \in Complete',
         consistent' => Complete' \subseteq Complete
  PROVE  /\ TypeOK' /\ QueryOK' /\ NoTautology' /\ FreshOK'
         /\ Covered' /\ Recovered' /\ AnswerOK'
<1>1. TypeOK /\ QueryOK /\ NoTautology /\ FreshOK /\ Covered /\ Recovered /\ AnswerOK
  BY DEF Inv
<1>2. db' \in Seq(Row)
  BY DEF Changes, Store
<1>3. TypeOK'
  BY <1>1, <1>2 DEF TypeOK
<1>4. QueryOK'
  BY <1>1 DEF QueryOK
<1>5. NoTautology'
  BY <1>1, TautologyKept
<1>6. FreshOK'
  <2>1. \A l \in Known' \cup UNION N : VarOf(l) \in Mentioned \cup External
    BY DEF Mentioned, ClientLit
  <2> QED
    BY <1>1, <2>1, FreshKept
<1>7. Covered'
  <2>1. Kept' = Kept /\ ModelsOf(inputs)' = ModelsOf(inputs)
    BY DEF Kept, ModelsOf
  <2> QED
    BY <1>1, <2>1 DEF Covered
<1>8. Recovered'
  <2>1. \A m : UndoneRight(m)' <=> UndoneRight(m)
    BY DEF UndoneRight, Kept
  <2> QED
    BY <1>1, <2>1 DEF Recovered
<1>9. AnswerOK'
  BY <1>1, AnswerKept
<1> QED
  BY <1>3, <1>4, <1>5, <1>6, <1>7, <1>8, <1>9

\* The literal that probing takes next is one of its schedule.
LEMMA NextProbeIn ==
  ASSUME todo \in SUBSET Lit, todo # {}
  PROVE  NextProbe \in todo
<1> DEFINE T == {VarOf(l) : l \in todo}
           First(l) == \A k \in todo : VarOf(l) < VarOf(k) \/ (VarOf(l) = VarOf(k) /\ l >= k)
<1>1. T \in SUBSET Nat /\ T # {}
  BY NegLit, VarLit
<1>2. PICK v \in T : \A u \in T : v <= u
  <2> HIDE DEF T
  <2> QED
    BY <1>1, LeastNat
<1>3. /\ v \in Nat /\ \A k \in todo : VarOf(k) \in Nat /\ v <= VarOf(k)
      /\ \A k \in todo : VarOf(k) = v => k \in {v, -v}
      /\ VarOf(v) = v /\ VarOf(-v) = v
  <2>1. v \in Var
    BY NegLit
  <2> QED
    BY <1>1, <1>2, <2>1, VarLit
<1>4. PICK l \in todo : VarOf(l) = v
  OBVIOUS
<1>5. \E k \in todo : First(k)
  <2>1. CASE v \in todo
    <3>1. First(v)
      BY <1>3
    <3> HIDE DEF First
    <3> QED
      BY <2>1, <3>1
  <2>2. CASE v \notin todo
    <3>1. l = -v /\ \A k \in todo : VarOf(k) = v => k = l
      BY <1>3, <1>4, <2>2
    <3>2. First(l)
      BY <1>3, <1>4, <3>1
    <3> HIDE DEF First
    <3> QED
      BY <3>2
  <2> QED
    BY <2>1, <2>2
<1> QED
  BY <1>5 DEF NextProbe

\* The clause that vivification or subsumption takes next.
LEMMA ShortestIn ==
  ASSUME TypeOK, NEW S \in SUBSET DOMAIN db, S # {}
  PROVE  Shortest(S) \in S
<1> DEFINE size(r) == Cardinality(db[r].lits)
           T == {size(r) : r \in S}
<1>1. \A r \in S : r \in Nat /\ size(r) \in Nat
  BY Typed, ClauseFinite
<1>2. PICK n \in T : \A k \in T : n <= k
  <2>1. T \in SUBSET Nat /\ T # {}
    BY <1>1
  <2> HIDE DEF T
  <2> QED
    BY <2>1, LeastNat
<1> DEFINE U == {r \in S : size(r) = n}
<1>3. PICK r \in U : \A q \in U : r <= q
  <2>1. U \in SUBSET Nat /\ U # {}
    BY <1>1, <1>2
  <2> HIDE DEF U
  <2> QED
    BY <2>1, LeastNat
<1>4. \A q \in S : ByLength(r, q)
  <2> SUFFICES ASSUME NEW q \in S PROVE ByLength(r, q)
    OBVIOUS
  <2>1. n <= size(q) /\ size(r) = n /\ (size(q) = n => r <= q)
    BY <1>2, <1>3
  <2>2. size(q) \in Nat /\ size(r) \in Nat
    BY <1>1, <1>3
  <2> QED
    BY <2>1, <2>2 DEF ByLength
<1> QED
  BY <1>3, <1>4 DEF Shortest

\* The variable that elimination takes next.
LEMMA NextEliminationIn ==
  ASSUME todo \subseteq Nat \X Var, todo # {}
  PROVE  NextElimination \in todo
<1> DEFINE T == {e[1] : e \in todo}
<1>1. \A e \in todo : e[1] \in Nat /\ e[2] \in Nat
  BY VarLit
<1>2. PICK n \in T : \A k \in T : n <= k
  <2>1. T \in SUBSET Nat /\ T # {}
    BY <1>1
  <2> HIDE DEF T
  <2> QED
    BY <2>1, LeastNat
<1> DEFINE U == {e[2] : e \in {f \in todo : f[1] = n}}
<1>3. PICK v \in U : \A u \in U : v <= u
  <2>1. U \in SUBSET Nat /\ U # {}
    BY <1>1, <1>2
  <2> HIDE DEF U
  <2> QED
    BY <2>1, LeastNat
<1>4. PICK e \in todo : e[1] = n /\ e[2] = v
  BY <1>3
<1>5. \A f \in todo : e[1] < f[1] \/ (e[1] = f[1] /\ e[2] <= f[2])
  BY <1>1, <1>2, <1>3, <1>4
<1> QED
  BY <1>4, <1>5 DEF NextElimination

-----------------------------------------------------------------------------
(***************************************************************************)
(* Probing, vivification, subsumption.                                     *)
(***************************************************************************)

\* Probing: the complement of a literal that leads to a conflict holds in
\* every model.
LEMMA ProbeInv == Inv /\ Probe => Inv'
<1> SUFFICES ASSUME Inv, Probe PROVE Inv'
  OBVIOUS
<1>1. /\ TypeOK /\ ScheduleOK /\ stage = 2 /\ consistent /\ todo # {}
      /\ UNCHANGED <<config, client, inputs, db, chosen, records, started, stage, assumed, answer>>
  BY DEF Inv, Probe, Pass, Passes
<1>2. PICK l \in ClientLit : l = NextProbe
  <2>1. todo \in SUBSET ClientLit /\ todo \in SUBSET Lit
    BY <1>1 DEF ScheduleOK, ClientLit
  <2> QED
    BY <1>1, <2>1, NextProbeIn
<1>3. l \in Lit /\ Neg(l) \in ClientLit /\ Neg(l) \in Lit
  BY NegLit DEF ClientLit
<1>4. Changes(db, db', {}, {})
  <2>1. Stored({}) \in Row /\ ~ Stored({}).deleted
    BY DEF Stored, Row
  <2> QED
    BY <1>1, <2>1, Typed, StoreShort
<1>5. /\ root' \in SUBSET Lit /\ consistent' \in BOOLEAN
      /\ Known' \subseteq Known \cup ClientLit \cup Literals(db)
      /\ \A m \in Complete : consistent' /\ m \in Complete'
      /\ consistent' => Complete' \subseteq Complete
  <2>1. CASE Unassigned(l) /\ ConflictIn(db, 0, Known \cup {l})
    <3>1. AssertUnits(db, {Neg(l)})
      BY <1>2, <2>1 DEF Probe
    <3>2. /\ root' \in SUBSET Lit /\ consistent' \in BOOLEAN
          /\ Known \cup {Neg(l)} \subseteq Known'
          /\ Known' \subseteq Known \cup {Neg(l)} \cup Literals(db)
          /\ \A m \in Model : Satisfies(m, LiveClauses(db)) /\ Known \cup {Neg(l)} \subseteq m =>
                                consistent' /\ Known' \subseteq m
      BY <1>1, <1>3, <3>1, Typed, AssertedUnits
    <3>3. ASSUME NEW m \in Complete PROVE Neg(l) \in m
      <4>1. /\ m \in Model /\ Known \subseteq m /\ Known \cup {l} \in SUBSET Lit
            /\ \A r \in Live(db) \ {0} : db[r].lits \cap m # {}
        BY <1>1, <1>3, Typed, CompleteFacts
      <4>2. ~ (Known \cup {l} \subseteq m)
        BY <1>1, <2>1, <4>1, Typed, TrailSound
      <4> QED
        BY <1>3, <4>1, <4>2, ModelTotal
    <3>4. \A m \in Complete : consistent' /\ m \in Complete'
      BY <1>1, <3>2, <3>3 DEF Complete
    <3>5. Complete' \subseteq Complete
      BY <1>1, <3>2 DEF Complete
    <3> QED
      BY <1>3, <3>2, <3>4, <3>5
  <2>2. CASE ~ (Unassigned(l) /\ ConflictIn(db, 0, Known \cup {l}))
    <3>1. UNCHANGED <<root, consistent>>
      BY <1>2, <2>2 DEF Probe
    <3> QED
      BY <1>1, <3>1 DEF Complete, Known, TypeOK
  <2> QED
    BY <2>1, <2>2
<1>6. /\ TypeOK' /\ QueryOK' /\ NoTautology' /\ FreshOK'
      /\ Covered' /\ Recovered' /\ AnswerOK'
  BY <1>1, <1>4, <1>5, Replacing
<1>7. ScheduleOK'
  <2>1. todo' \subseteq todo
    BY DEF Probe
  <2> QED
    BY <1>1, <2>1 DEF ScheduleOK
<1> QED
  BY <1>6, <1>7 DEF Inv

\* One clause is replaced by a shorter one: what the models of the store, and
\* those that the new clause and its values leave, have in common.
LEMMA Shortening ==
  ASSUME Inv, consistent,
         UNCHANGED <<config, client, inputs, chosen, records, started, stage, assumed, answer>>,
         NEW r \in Live(db), NEW c \in SUBSET db[r].lits, NEW row \in Row,
         row.lits = c, ~ row.deleted,
         \A m \in Complete : c \cap m # {},
         NEW d, Changes(db, d, {r}, {}), Changes(db, Append(d, row), {r}, {c}),
         \/ Cardinality(c) = 1 /\ db' = d /\ AssertUnits(d, c)
         \/ db' = Append(d, row) /\ UNCHANGED <<root, consistent>>
  PROVE  /\ TypeOK' /\ QueryOK' /\ NoTautology' /\ FreshOK'
         /\ Covered' /\ Recovered' /\ AnswerOK'
         /\ \E N : Changes(db, db', {r}, N)
<1>1. TypeOK /\ NoTautology
  BY DEF Inv
<1>2. /\ db \in Store /\ Known \in SUBSET Lit /\ r \in DOMAIN db /\ c \in SUBSET Lit
      /\ c \subseteq Literals(db) /\ ~ Tautology(c)
  BY <1>1, Typed DEF Literals, NoTautology, Tautology
<1>3. Changes(db, d, {r}, {}) /\ Changes(db, Append(d, row), {r}, {c})
  OBVIOUS
<1>4. d \in Store /\ LiveClauses(d) = {db[q].lits : q \in Live(db) \ {r}} /\ Literals(d) = Literals(db)
  <2>1. d \in Store
    BY <1>3 DEF Changes
  <2>2. /\ LiveClauses(d) = {db[q].lits : q \in Live(db) \ {r}} \cup {}
        /\ Literals(d) = Literals(db) \cup UNION {}
    BY <1>2, <1>3, ChangeFacts
  <2> QED
    BY <2>1, <2>2
<1>5. CASE Cardinality(c) = 1 /\ db' = d /\ AssertUnits(d, c)
  <2>1. PICK l \in Lit : c = {l}
    BY <1>2, <1>5, ClauseFinite, FS_Singleton
  <2>2. /\ root' \in SUBSET Lit /\ consistent' \in BOOLEAN
        /\ Known \cup c \subseteq Known'
        /\ Known' \subseteq Known \cup c \cup Literals(d)
        /\ \A m \in Model : Satisfies(m, LiveClauses(d)) /\ Known \cup c \subseteq m =>
                              consistent' /\ Known' \subseteq m
    <3>1. chosen' = chosen
      OBVIOUS
    <3> QED
      BY <1>1, <1>2, <1>4, <1>5, <3>1, AssertedUnits
  <2>3. LiveClauses(db)' = LiveClauses(d)
    BY <1>5 DEF LiveClauses
  <2>4. ASSUME NEW m \in Complete PROVE consistent' /\ m \in Complete'
    <3>1. /\ m \in Model /\ Known \subseteq m /\ c \subseteq m
          /\ \A q \in Live(db) : db[q].lits \cap m # {}
      BY <2>1, CompleteFacts
    <3>2. Satisfies(m, LiveClauses(d))
      BY <1>4, <3>1 DEF Satisfies
    <3> QED
      BY <2>2, <2>3, <3>1, <3>2 DEF Complete
  <2>5. ASSUME NEW m \in Complete' PROVE m \in Complete
    <3>1. m \in Model /\ Satisfies(m, LiveClauses(d)) /\ Known' \subseteq m
      BY <2>3 DEF Complete
    <3>2. db[r].lits \cap m # {}
      BY <2>1, <2>2, <3>1
    <3>3. Satisfies(m, LiveClauses(db))
      BY <1>4, <3>1, <3>2 DEF Satisfies, LiveClauses
    <3> QED
      BY <2>2, <3>1, <3>3 DEF Complete
  <2>6. Changes(db, db', {r}, {}) /\ Known' \subseteq Known \cup ClientLit \cup Literals(db)
    BY <1>2, <1>3, <1>4, <1>5, <2>2
  <2> QED
    BY <2>2, <2>4, <2>5, <2>6, Replacing
<1>6. CASE db' = Append(d, row) /\ UNCHANGED <<root, consistent>>
  <2>1. Changes(db, db', {r}, {c}) /\ Known' = Known
    BY <1>3, <1>6 DEF Known
  <2>2. LiveClauses(db)' = {db[q].lits : q \in Live(db) \ {r}} \cup {c}
    BY <1>2, <2>1, ChangeFacts
  <2>3. ASSUME NEW m \in Complete PROVE consistent' /\ m \in Complete'
    <3>1. m \in Model /\ Known \subseteq m /\ \A q \in Live(db) : db[q].lits \cap m # {}
      BY CompleteFacts
    <3>2. Satisfies(m, LiveClauses(db)')
      BY <2>2, <3>1 DEF Satisfies
    <3>3. consistent'
      BY <1>6
    <3> QED
      BY <2>1, <3>1, <3>2, <3>3 DEF Complete, Satisfies
  <2>4. ASSUME NEW m \in Complete' PROVE m \in Complete
    <3>1. m \in Model /\ Satisfies(m, LiveClauses(db)') /\ Known \subseteq m
      BY <2>1 DEF Complete, Satisfies
    <3>2. c \cap m # {} /\ \A q \in Live(db) \ {r} : db[q].lits \cap m # {}
      BY <2>2, <3>1 DEF Satisfies
    <3>3. Satisfies(m, LiveClauses(db))
      BY <3>2 DEF Satisfies, LiveClauses
    <3> QED
      BY <3>1, <3>3 DEF Complete
  <2>5. root' \in SUBSET Lit /\ consistent' \in BOOLEAN
    BY <1>1, <1>6 DEF TypeOK
  <2> QED
    BY <1>2, <2>1, <2>3, <2>4, <2>5, Replacing
<1> QED
  BY <1>5, <1>6

\* Vivification: the literals kept are a clause that every model satisfies.
LEMMA VivifyInv == Inv /\ Vivify => Inv'
<1> SUFFICES ASSUME Inv, Vivify PROVE Inv'
  OBVIOUS
<1>1. /\ TypeOK /\ ScheduleOK /\ stage = 3 /\ consistent /\ todo # {} /\ todo \subseteq Live(db)
      /\ UNCHANGED <<config, client, inputs, chosen, records, started, stage, assumed, answer>>
  BY DEF Inv, Vivify, Pass, Passes, ScheduleOK
<1>2. PICK r \in todo : r = Shortest(todo)
  <2>1. todo \in SUBSET DOMAIN db
    BY <1>1, Typed
  <2> QED
    BY <1>1, <2>1, ShortestIn
<1>3. /\ r \in Live(db) /\ r \in DOMAIN db /\ db[r].lits \in SUBSET Lit
      /\ db \in Store /\ Known \in SUBSET Lit
  BY <1>1, <1>2, Typed
<1>4. todo' = todo \ {r}
  BY <1>2 DEF Vivify
<1> DEFINE Keeps == /\ TypeOK' /\ QueryOK' /\ NoTautology' /\ FreshOK'
                    /\ Covered' /\ Recovered' /\ AnswerOK'
                    /\ \E N : Changes(db, db', {r}, N) \/ UNCHANGED db
<1>5. PICK order \in Orders(Reduced(db[r].lits)) :
        LET kept == Vivified(r, order)
        IN IF RootSatisfied(db[r].lits) \/ kept = db[r].lits
           THEN UNCHANGED <<proof, db, root, consistent>>
           ELSE IF Cardinality(kept) = 1
                THEN db' = WithoutRefs(db, {r}) /\ AssertUnits(db', kept)
                ELSE /\ db' = Append(WithoutRefs(db, {r}), Stored(kept))
                     /\ UNCHANGED <<root, consistent>>
  BY <1>2 DEF Vivify
<1>6. Keeps
  <2> PICK kept : kept = Vivified(r, order)
    OBVIOUS
  <2>1. kept \in SUBSET db[r].lits /\ \A m \in Complete : kept \cap m # {}
    BY <1>3, VivifiedSound DEF Reduced
  <2>2. CASE RootSatisfied(db[r].lits) \/ kept = db[r].lits
    <3>1. UNCHANGED <<db, root, consistent>>
      BY <1>5, <2>2
    <3>2. Stored({}) \in Row /\ ~ Stored({}).deleted
      BY DEF Stored, Row
    <3>3. Changes(db, db', {}, {})
      BY <1>3, <3>1, <3>2, StoreShort
    <3>4. /\ root' \in SUBSET Lit /\ consistent' \in BOOLEAN /\ Known' = Known
          /\ \A m \in Complete : consistent' /\ m \in Complete'
          /\ Complete' \subseteq Complete
      BY <1>1, <3>1 DEF TypeOK, Complete, Known
    <3> QED
      BY <1>1, <3>1, <3>3, <3>4, Replacing
  <2>3. CASE ~ (RootSatisfied(db[r].lits) \/ kept = db[r].lits)
    <3>1. PICK row : row = Stored(kept)
      OBVIOUS
    <3>2. row \in Row /\ row.lits = kept /\ ~ row.deleted
      BY <1>3, <2>1, <3>1 DEF Stored, Row
    <3>3. PICK d : d = WithoutRefs(db, {r})
      OBVIOUS
    <3>5. Changes(db, d, {r}, {}) /\ Changes(db, Append(d, row), {r}, {kept})
      BY <1>3, <3>2, <3>3, StoreShort
    <3>4. \/ Cardinality(kept) = 1 /\ db' = d /\ AssertUnits(d, kept)
          \/ db' = Append(d, row) /\ UNCHANGED <<root, consistent>>
      <4>1. CASE Cardinality(kept) = 1
        <5>1. db' = WithoutRefs(db, {r}) /\ AssertUnits(db', kept)
          BY <1>5, <2>3, <4>1
        <5> QED
          BY <3>3, <4>1, <5>1 DEF AssertUnits
      <4>2. CASE Cardinality(kept) # 1
        BY <1>5, <2>3, <3>1, <3>3, <4>2
      <4> QED
        BY <4>1, <4>2
    <3> QED
      BY <1>1, <1>3, <2>1, <3>2, <3>4, <3>5, Shortening
  <2> QED
    BY <2>2, <2>3
<1>7. ScheduleOK'
  <2>1. \A q \in Live(db) \ {r} : q \in Live(db')
    <3>1. PICK N : Changes(db, db', {r}, N) \/ UNCHANGED db
      BY <1>6
    <3>2. CASE Changes(db, db', {r}, N)
      BY <1>1, <3>2, Typed DEF Changes
    <3>3. CASE UNCHANGED db
      BY <3>3
    <3> QED
      BY <3>1, <3>2, <3>3
  <2>2. todo' \subseteq Live(db)'
    BY <1>1, <1>4, <2>1
  <2> QED
    BY <1>1, <2>2 DEF ScheduleOK
<1> QED
  BY <1>6, <1>7 DEF Inv

\* Resolving a clause with one that has all its other literals leaves the
\* larger clause without the literal resolved upon.
LEMMA SelfSubsumption ==
  ASSUME NEW m \in Model, NEW s \in SUBSET Lit, NEW t \in SUBSET Lit,
         ~ Tautology(s), ~ (s \subseteq t), s \cap m # {}, t \cap m # {}
  PROVE  (t \ {Neg(l) : l \in Pivots(s, t)}) \cap m # {}
<1> SUFFICES ASSUME (t \ {Neg(l) : l \in Pivots(s, t)}) \cap m = {} PROVE FALSE
  OBVIOUS
<1>1. PICK k \in t : k \in m
  OBVIOUS
<1>2. PICK l \in Pivots(s, t) : k = Neg(l)
  BY <1>1
<1>3. l \in s /\ l \in Lit /\ Neg(l) \in t /\ s \ {l} \subseteq t /\ l \notin m
  <2>1. l \in s /\ l \in Lit /\ Neg(l) \in t /\ s \ {l} \subseteq t
    BY <1>2 DEF Pivots
  <2> QED
    BY <1>1, <1>2, <2>1, ModelTotal
<1>4. l \notin t
  BY <1>3
<1>5. Pivots(s, t) = {l}
  BY <1>3, <1>4 DEF Pivots
<1>6. PICK j \in s : j \in m
  OBVIOUS
<1>7. j \in t /\ j # Neg(l)
  BY <1>3, <1>6 DEF Tautology
<1> QED
  BY <1>5, <1>6, <1>7

\* Subsumption: a clause is dropped for one of its subsets, or loses the
\* literal it resolves upon.
LEMMA SubsumeInv == Inv /\ Subsume => Inv'
<1> SUFFICES ASSUME Inv, Subsume PROVE Inv'
  OBVIOUS
<1>1. /\ TypeOK /\ ScheduleOK /\ NoTautology /\ stage = 4 /\ consistent
      /\ todo \subseteq {p \in (DOMAIN db) \X (DOMAIN db) : p[1] # p[2]}
      /\ UNCHANGED <<config, client, inputs, chosen, records, started, stage, assumed, answer>>
  BY DEF Inv, Subsume, Pass, Passes, ScheduleOK
<1>2. PICK p \in todo :
        LET s == db[p[1]].lits
            t == db[p[2]].lits
            less == t \ {Neg(l) : l \in Pivots(s, t)}
            rest == WithoutRefs(db, {p[2]})
        IN /\ todo' = todo \ {p}
           /\ IF db[p[1]].deleted \/ db[p[2]].deleted
              THEN UNCHANGED <<db, root, consistent>>
              ELSE IF s \subseteq t
              THEN db' = rest /\ UNCHANGED <<root, consistent>>
              ELSE IF Cardinality(less) = 1
              THEN db' = rest /\ AssertUnits(rest, less)
              ELSE /\ \E b \in {FALSE, Reduced(less) # less} :
                         db' = Append(rest, [Stored(less) EXCEPT !.blind = b])
                   /\ UNCHANGED <<root, consistent>>
  BY DEF Subsume
<1> PICK i, j, s, t : i = p[1] /\ j = p[2] /\ s = db[i].lits /\ t = db[j].lits
  OBVIOUS
<1>3. /\ i \in DOMAIN db /\ j \in DOMAIN db /\ i # j
      /\ s \in SUBSET Lit /\ t \in SUBSET Lit /\ ~ Tautology(s)
      /\ db \in Store
  BY <1>1, <1>2, Typed DEF NoTautology
<1>4. /\ TypeOK' /\ QueryOK' /\ NoTautology' /\ FreshOK'
      /\ Covered' /\ Recovered' /\ AnswerOK'
      /\ \E N : Changes(db, db', {j}, N) \/ UNCHANGED db
  <2>1. CASE db[i].deleted \/ db[j].deleted
    <3>1. UNCHANGED <<db, root, consistent>>
      BY <1>2, <2>1
    <3>2. Stored({}) \in Row /\ ~ Stored({}).deleted
      BY DEF Stored, Row
    <3>3. Changes(db, db', {}, {})
      BY <1>3, <3>1, <3>2, StoreShort
    <3>4. /\ root' \in SUBSET Lit /\ consistent' \in BOOLEAN /\ Known' = Known
          /\ \A m \in Complete : consistent' /\ m \in Complete'
          /\ Complete' \subseteq Complete
      BY <1>1, <3>1 DEF TypeOK, Complete, Known
    <3> QED
      BY <1>1, <3>1, <3>3, <3>4, Replacing
  <2>2. CASE ~ (db[i].deleted \/ db[j].deleted) /\ s \subseteq t
    <3>1. i \in Live(db) /\ j \in Live(db)
      BY <1>3, <2>2 DEF Live
    <3>2. db' = WithoutRefs(db, {j}) /\ UNCHANGED <<root, consistent>>
      BY <1>2, <2>2
    <3>3. Stored({}) \in Row /\ ~ Stored({}).deleted
      BY DEF Stored, Row
    <3>4. Changes(db, db', {j}, {})
      BY <1>3, <3>2, <3>3, StoreShort
    <3>5. LiveClauses(db)' = {db[q].lits : q \in Live(db) \ {j}} \cup {}
      BY <1>3, <3>4, ChangeFacts
    <3>6. Known' = Known /\ root' \in SUBSET Lit /\ consistent' \in BOOLEAN
      BY <1>1, <3>2 DEF Known, TypeOK
    <3>7. ASSUME NEW m \in Model
          PROVE  Satisfies(m, LiveClauses(db)') <=> Satisfies(m, LiveClauses(db))
      <4>1. LiveClauses(db) = LiveClauses(db)' \cup {t}
        BY <3>1, <3>5 DEF LiveClauses
      <4>2. s \in LiveClauses(db)'
        BY <1>3, <3>1, <3>5
      <4> QED
        BY <2>2, <4>1, <4>2 DEF Satisfies
    <3>8. Complete' = Complete
      BY <3>6, <3>7 DEF Complete, Satisfies
    <3>9. \A m \in Complete : consistent'
      BY <1>1, <3>2
    <3> QED
      BY <1>1, <3>4, <3>6, <3>8, <3>9, Replacing
  <2>3. CASE ~ (db[i].deleted \/ db[j].deleted) /\ ~ (s \subseteq t)
    <3> PICK less : less = t \ {Neg(l) : l \in Pivots(s, t)}
      OBVIOUS
    <3>1. i \in Live(db) /\ j \in Live(db)
      BY <1>3, <2>3 DEF Live
    <3>2. less \in SUBSET t /\ less \in SUBSET Lit
      BY <1>3
    <3>3. PICK d : d = WithoutRefs(db, {j})
      OBVIOUS
    <3>4. \/ Cardinality(less) = 1 /\ db' = d /\ AssertUnits(d, less)
          \/ /\ \E b \in {FALSE, Reduced(less) # less} :
                    db' = Append(d, [Stored(less) EXCEPT !.blind = b])
             /\ UNCHANGED <<root, consistent>>
      BY <1>2, <2>3, <3>3
    <3>5. PICK row \in Row : /\ row.lits = less /\ ~ row.deleted
                             /\ \/ Cardinality(less) = 1 /\ db' = d /\ AssertUnits(d, less)
                                \/ db' = Append(d, row) /\ UNCHANGED <<root, consistent>>
      <4>1. CASE Cardinality(less) = 1 /\ db' = d /\ AssertUnits(d, less)
        <5>1. Stored(less) \in Row /\ Stored(less).lits = less /\ ~ Stored(less).deleted
          BY <3>2 DEF Stored, Row
        <5> QED
          BY <4>1, <5>1
      <4>2. CASE /\ \E b \in {FALSE, Reduced(less) # less} :
                        db' = Append(d, [Stored(less) EXCEPT !.blind = b])
                 /\ UNCHANGED <<root, consistent>>
        <5>1. PICK b \in BOOLEAN : db' = Append(d, [Stored(less) EXCEPT !.blind = b])
          BY <4>2
        <5>2. PICK r : r = [lits |-> less, deleted |-> FALSE, blind |-> FALSE]
          OBVIOUS
        <5>3. PICK w : w = [r EXCEPT !.blind = b]
          OBVIOUS
        <5>4. r \in Row /\ w.lits = less /\ ~ w.deleted
          BY <3>2, <5>2, <5>3 DEF Row
        <5>5. w \in Row
          BY <5>3, <5>4 DEF Row
        <5>6. db' = Append(d, w)
          BY <5>1, <5>2, <5>3 DEF Stored
        <5> QED
          BY <4>2, <5>4, <5>5, <5>6
      <4> QED
        BY <3>4, <4>1, <4>2
    <3>6. Changes(db, d, {j}, {}) /\ Changes(db, Append(d, row), {j}, {less})
      BY <1>3, <3>3, <3>5, StoreShort
    <3>7. \A m \in Complete : less \cap m # {}
      <4> SUFFICES ASSUME NEW m \in Complete PROVE less \cap m # {}
        OBVIOUS
      <4>1. m \in Model /\ s \cap m # {} /\ t \cap m # {}
        BY <3>1, CompleteFacts
      <4> QED
        BY <1>3, <2>3, <4>1, SelfSubsumption
    <3>8. less \in SUBSET db[j].lits
      BY <3>2
    <3> QED
      BY <1>1, <3>1, <3>5, <3>6, <3>7, <3>8, Shortening
  <2> QED
    BY <2>1, <2>2, <2>3
<1>5. ScheduleOK'
  <2>1. DOMAIN db \subseteq DOMAIN db'
    <3>1. PICK N : Changes(db, db', {j}, N) \/ UNCHANGED db
      BY <1>4
    <3> QED
      BY <3>1 DEF Changes
  <2>2. todo' \subseteq {q \in (DOMAIN db') \X (DOMAIN db') : q[1] # q[2]}
    BY <1>1, <1>2, <2>1
  <2> QED
    BY <1>1, <2>2 DEF ScheduleOK
<1> QED
  BY <1>4, <1>5 DEF Inv

-----------------------------------------------------------------------------
(***************************************************************************)
(* Variable elimination.                                                   *)
(***************************************************************************)

Removed(v) == Having(v) \cup Having(-v)
Resolvents(v) == {Resolvent(p, v) : p \in ResolvingPairs(v)}
RecordOf(v) == [var |-> v, clauses |-> {db[r].lits : r \in Removed(v)}]

\* The clauses of a variable and their resolvents.
LEMMA OccurrenceFacts ==
  ASSUME TypeOK, NoTautology, NEW v \in Var
  PROVE  /\ Removed(v) \subseteq Live(db)
         /\ \A r \in Having(v) : v \in db[r].lits /\ -v \notin db[r].lits
         /\ \A r \in Having(-v) : -v \in db[r].lits /\ v \notin db[r].lits
         /\ \A r \in Live(db) \ Removed(v) : v \notin db[r].lits /\ -v \notin db[r].lits
         /\ RecordOf(v) \in Record
         /\ \A c \in Resolvents(v) : /\ c \subseteq Literals(db) /\ c \in SUBSET Lit
                                     /\ v \notin c /\ -v \notin c /\ ~ Tautology(c)
<1>1. v \in Lit /\ -v \in Lit /\ Neg(v) = -v /\ Neg(-v) = v
  BY VarLit DEF Neg
<1>2. Having(v) \subseteq Live(db) /\ Having(-v) \subseteq Live(db) /\ Live(db) \subseteq DOMAIN db
  BY Typed DEF Having
<1>3. /\ \A r \in Having(v) : v \in db[r].lits /\ -v \notin db[r].lits
      /\ \A r \in Having(-v) : -v \in db[r].lits /\ v \notin db[r].lits
  BY <1>1, <1>2 DEF Having, NoTautology, Tautology
<1>4. RecordOf(v) \in Record
  BY <1>2, Typed DEF RecordOf, Record, Removed
<1>5. ASSUME NEW c \in Resolvents(v)
      PROVE  /\ c \subseteq Literals(db) /\ c \in SUBSET Lit
             /\ v \notin c /\ -v \notin c /\ ~ Tautology(c)
  <2>1. PICK p \in ResolvingPairs(v) : c = Resolvent(p, v)
    BY DEF Resolvents
  <2>2. p[1] \in DOMAIN db /\ p[2] \in DOMAIN db /\ ~ Tautology(Resolvent(p, v))
    BY <1>2, <2>1 DEF ResolvingPairs
  <2> QED
    BY <2>1, <2>2, Typed DEF Resolvent, Reduced, Literals
<1> QED
  BY <1>2, <1>3, <1>4, <1>5 DEF Removed, Having

\* Every model of the store satisfies the resolvents.
LEMMA ResolventsHold ==
  ASSUME TypeOK, NoTautology, NEW v \in Var, NEW m \in Complete, NEW c \in Resolvents(v)
  PROVE  c \cap m # {}
<1>1. PICK p \in ResolvingPairs(v) : c = Resolvent(p, v)
  BY DEF Resolvents
<1>2. p[1] \in Having(v) /\ p[2] \in Having(-v)
  BY <1>1 DEF ResolvingPairs
<1> PICK a, b : a = db[p[1]].lits /\ b = db[p[2]].lits
  OBVIOUS
<1>3. /\ a \in SUBSET Lit /\ b \in SUBSET Lit /\ a \cap m # {} /\ b \cap m # {}
      /\ -v \notin a /\ v \notin b
  BY <1>2, OccurrenceFacts, Typed, CompleteFacts DEF Having
<1>4. m \in Model /\ Known \subseteq m /\ v \in Lit /\ Neg(v) = -v
  BY VarLit, CompleteFacts DEF Neg
<1>5. PICK k \in (a \cup b) \ {v, -v} : k \in m
  <2>1. CASE v \in m
    <3>1. -v \notin m
      BY <1>4, <2>1, ModelTotal
    <3> QED
      BY <1>3, <3>1
  <2>2. CASE v \notin m
    BY <1>3, <2>2
  <2> QED
    BY <2>1, <2>2
<1>6. Neg(k) \notin Known
  BY <1>3, <1>4, <1>5, ModelTotal
<1> QED
  BY <1>1, <1>5, <1>6 DEF Resolvent, Reduced

\* A model changed in one variable is a model.
LEMMA Changed ==
  ASSUME NEW m \in Model, NEW v \in Var, NEW l \in {v, -v}
  PROVE  /\ (m \ {v, -v}) \cup {l} \in Model
         /\ \A c \in SUBSET Lit : v \notin c /\ -v \notin c /\ c \cap m # {} =>
                                    c \cap ((m \ {v, -v}) \cup {l}) # {}
         /\ \A k : VarOf(k) # v => (k \in m <=> k \in (m \ {v, -v}) \cup {l})
<1> DEFINE n == (m \ {v, -v}) \cup {l}
<1>1. n \in SUBSET Lit
  BY VarLit DEF Model
<1>2. ASSUME NEW u \in Var PROVE (u \in n) # (-u \in n)
  <2>1. (u \in m) # (-u \in m)
    BY DEF Model
  <2>2. CASE u = v
    <3>1. v # -v
      BY VarLit
    <3> QED
      BY <2>2, <3>1
  <2>3. CASE u # v
    <3>1. u \notin {v, -v} /\ -u \notin {v, -v}
      BY <2>3, VarAssumption
    <3> QED
      BY <2>1, <3>1
  <2> QED
    BY <2>2, <2>3
<1>3. n \in Model
  BY <1>1, <1>2 DEF Model
<1>4. VarOf(v) = v /\ VarOf(-v) = v
  BY VarLit
<1> QED
  BY <1>3, <1>4

\* A model of the resolvents asks for one value at most, and with that value
\* it satisfies the clauses of the variable.
LEMMA UndoSound ==
  ASSUME TypeOK, NoTautology, NEW v \in Var, Unassigned(v),
         NEW m \in Model, Known \subseteq m,
         \A r \in Live(db) \ Removed(v) : db[r].lits \cap m # {},
         \A c \in Resolvents(v) : c \cap m # {}
  PROVE  /\ Cardinality(Required(m, RecordOf(v))) <= 1
         /\ Undo(m, RecordOf(v)) \in Complete
<1> PICK rec : rec = RecordOf(v)
  OBVIOUS
<1> DEFINE Asks(l) == \E r \in Removed(v) : l \in db[r].lits /\ (db[r].lits \ {l}) \cap m = {}
<1>1. /\ v \in Lit /\ -v \in Lit /\ Neg(v) = -v /\ Neg(-v) = v /\ v # -v
      /\ v \notin Known /\ -v \notin Known
  BY VarLit DEF Neg, Unassigned
<1>2. Required(m, rec) = {l \in {v, -v} : Asks(l)}
  BY DEF Required, RecordOf
<1>3. ~ (Asks(v) /\ Asks(-v))
  <2> SUFFICES ASSUME Asks(v), Asks(-v) PROVE FALSE
    OBVIOUS
  <2>1. PICK i \in Removed(v) : v \in db[i].lits /\ (db[i].lits \ {v}) \cap m = {}
    OBVIOUS
  <2>2. PICK j \in Removed(v) : -v \in db[j].lits /\ (db[j].lits \ {-v}) \cap m = {}
    OBVIOUS
  <2>3. /\ i \in Having(v) /\ j \in Having(-v)
        /\ -v \notin db[i].lits /\ v \notin db[j].lits
        /\ db[i].lits \in SUBSET Lit /\ db[j].lits \in SUBSET Lit
    BY <2>1, <2>2, OccurrenceFacts, Typed DEF Removed, Having
  <2> PICK p : p = <<i, j>>
    OBVIOUS
  <2>4. p \in Having(v) \X Having(-v) /\ p[1] = i /\ p[2] = j
    BY <2>3
  <2> PICK c : c = (db[i].lits \cup db[j].lits) \ {v, -v}
    OBVIOUS
  <2>5. c \cap m = {} /\ c \in SUBSET Lit
    BY <2>1, <2>2, <2>3
  <2>6. ~ RootSatisfied(c)
    <3>1. c \cap chosen = {} /\ c \cap root = {}
      BY <2>5 DEF Known
    <3> QED
      BY <2>5, <3>1 DEF RootSatisfied, Known
  <2>7. Resolvent(p, v) = Reduced(c) /\ Reduced(c) \subseteq c
    BY <2>4 DEF Resolvent, Reduced
  <2>8. ~ Tautology(Reduced(c))
    <3> SUFFICES ASSUME NEW k \in Reduced(c), Neg(k) \in Reduced(c) PROVE FALSE
      BY DEF Tautology
    <3>1. k \in Lit /\ k \notin m /\ Neg(k) \notin m
      BY <2>5, <2>7
    <3> QED
      BY <3>1, ModelTotal
  <2>9. p \in ResolvingPairs(v)
    BY <2>4, <2>6, <2>7, <2>8 DEF ResolvingPairs
  <2> QED
    BY <2>5, <2>7, <2>9 DEF Resolvents
<1>4. Required(m, rec) = {} \/ Required(m, rec) = {v} \/ Required(m, rec) = {-v}
  BY <1>2, <1>3
<1>5. Cardinality(Required(m, rec)) <= 1
  <2>1. Cardinality({}) = 0 /\ Cardinality({v}) = 1 /\ Cardinality({-v}) = 1
    BY FS_EmptySet, FS_Singleton
  <2> PICK R : R = Required(m, rec)
    OBVIOUS
  <2>2. Cardinality(R) = 0 \/ Cardinality(R) = 1
    <3> HIDE DEF Asks
    <3>1. R = {} \/ R = {v} \/ R = {-v}
      BY <1>4
    <3> QED
      BY <2>1, <3>1
  <2> QED
    BY <2>2
<1>6. PICK l \in {v, -v} : /\ Undo(m, rec) = (m \ {v, -v}) \cup {l}
                          /\ ~ Asks(IF l = v THEN -v ELSE v)
  <2>1. rec.var = v
    BY DEF RecordOf
  <2>2. CASE Required(m, rec) = {}
    <3>1. Undo(m, rec) = m
      BY <2>2 DEF Undo
    <3>2. (v \in m) # (-v \in m)
      BY DEF Model
    <3>3. m = (m \ {v, -v}) \cup {v} \/ m = (m \ {v, -v}) \cup {-v}
      BY <3>2
    <3>4. ~ Asks(v) /\ ~ Asks(-v)
      BY <1>2, <2>2
    <3> HIDE DEF Asks
    <3> QED
      BY <1>1, <3>1, <3>3, <3>4
  <2>3. CASE Required(m, rec) = {v}
    <3>1. Undo(m, rec) = (m \ {v, -v}) \cup {v}
      BY <2>1, <2>3 DEF Undo
    <3>2. ~ Asks(-v)
      BY <1>1, <1>2, <2>3
    <3> HIDE DEF Asks
    <3> QED
      BY <1>1, <3>1, <3>2
  <2>4. CASE Required(m, rec) = {-v}
    <3>1. Undo(m, rec) = (m \ {v, -v}) \cup {-v}
      BY <2>1, <2>4 DEF Undo
    <3>2. ~ Asks(v)
      BY <1>1, <1>2, <2>4
    <3> HIDE DEF Asks
    <3> QED
      BY <1>1, <3>1, <3>2
  <2> QED
    BY <1>4, <2>2, <2>3, <2>4
<1> PICK n : n = (m \ {v, -v}) \cup {l}
  OBVIOUS
<1>7. n \in Model /\ \A c \in SUBSET Lit : v \notin c /\ -v \notin c /\ c \cap m # {} => c \cap n # {}
  <2> HIDE DEF Asks
  <2>1. l \in {v, -v} /\ m \in Model /\ v \in Var
    OBVIOUS
  <2>2. (m \ {v, -v}) \cup {l} \in Model
    BY <2>1, Changed
  <2>3. \A c \in SUBSET Lit : v \notin c /\ -v \notin c /\ c \cap m # {} =>
                                 c \cap ((m \ {v, -v}) \cup {l}) # {}
    BY <2>1, Changed
  <2> QED
    BY <2>2, <2>3
<1>8. Known \subseteq n
  BY <1>1
<1>9. ASSUME NEW r \in Live(db) PROVE db[r].lits \cap n # {}
  <2>1. db[r].lits \in SUBSET Lit
    BY Typed
  <2>2. CASE r \notin Removed(v)
    <3>1. v \notin db[r].lits /\ -v \notin db[r].lits
      BY <2>2, OccurrenceFacts
    <3> QED
      BY <1>7, <2>1, <2>2, <3>1
  <2>3. CASE r \in Removed(v)
    <3>1. PICK k \in {v, -v} : k \in db[r].lits
      BY <2>3 DEF Removed, Having
    <3>2. CASE k = l
      BY <3>1, <3>2
    <3>3. CASE k # l
      <4>1. ~ Asks(k)
        BY <1>1, <1>6, <3>3
      <4>2. (db[r].lits \ {k}) \cap m # {}
        BY <2>3, <3>1, <4>1
      <4>3. PICK j \in db[r].lits : j # k /\ j \in m
        BY <4>2
      <4>4. j \notin {v, -v}
        BY <1>1, <2>3, <3>1, <4>3, OccurrenceFacts DEF Removed
      <4> QED
        BY <4>3, <4>4
    <3> QED
      BY <3>2, <3>3
  <2> QED
    BY <2>2, <2>3
<1>10. n \in Complete
  BY <1>7, <1>8, <1>9 DEF Complete, Satisfies, LiveClauses
<1> QED
  BY <1>5, <1>6, <1>10

\* The resolvents that become clauses, and those that become values.
Long(v) == {c \in Resolvents(v) : Cardinality(c) >= 2}
Units(v) == UNION {c \in Resolvents(v) : Cardinality(c) = 1}

\* What eliminating a variable does.
Eliminates(v, d) ==
  /\ Unassigned(v) /\ Removed(v) # {}
  /\ Changes(db, d, Removed(v), Long(v))
  /\ records' = Append(records, RecordOf(v))
  /\ chosen' = chosen \cup {v}
  /\ root' = Trail(d, 0, Known \cup {v} \cup Units(v)) \ chosen'
  /\ consistent' = ({} \notin Resolvents(v) /\ ~ ConflictIn(d, 0, Known \cup {v} \cup Units(v)))

\* An elimination replaces the clauses of its variable by their resolvents.
LEMMA EliminateShape ==
  ASSUME TypeOK, NoTautology, ScheduleOK, Eliminate
  PROVE  /\ stage = 5 /\ consistent /\ todo # {} /\ todo' \subseteq todo
         /\ UNCHANGED <<config, client, inputs, started, stage, assumed, answer>>
         /\ \/ UNCHANGED <<db, root, chosen, records, consistent>>
            \/ \E v \in Var : Eliminates(v, db')
<1>1. /\ stage = 5 /\ consistent /\ todo # {} /\ todo' \subseteq todo
      /\ UNCHANGED <<config, client, inputs, started, stage, assumed, answer>>
  BY DEF Eliminate, Pass, Passes
<1>2. PICK v \in Var : v = NextElimination[2]
  BY <1>1, NextEliminationIn DEF ScheduleOK
<1>3. CASE ~ (Unassigned(v) /\ Eliminable(v))
  BY <1>1, <1>2, <1>3 DEF Eliminate
<1>4. CASE Unassigned(v) /\ Eliminable(v)
  <2> DEFINE long == {p \in ResolvingPairs(v) : Cardinality(Resolvent(p, v)) >= 2}
  <2> PICK pairs, new : pairs = SetToSeq(ResolvingPairs(v)) /\ new = SetToSeq(long)
    OBVIOUS
  <2> DEFINE rows == [i \in DOMAIN new |-> Stored(Resolvent(new[i], v))]
             resolvents == [i \in DOMAIN pairs |-> Resolvent(pairs[i], v)]
             units == UNION {c \in Range(resolvents) : Cardinality(c) = 1}
             A == Known \cup {v} \cup units
  <2>1. /\ db' = WithoutRefs(db, Removed(v)) \o rows
        /\ records' = Append(records, RecordOf(v))
        /\ chosen' = chosen \cup {v}
        /\ root' = Trail(db', 0, A) \ chosen'
        /\ consistent' = ({} \notin Range(resolvents) /\ ~ ConflictIn(db', 0, A))
    BY <1>2, <1>4 DEF Eliminate, Removed, RecordOf
  <2>2. IsFiniteSet(ResolvingPairs(v)) /\ IsFiniteSet(long)
    <3>1. IsFiniteSet(DOMAIN db)
      BY Typed, StoreFacts, FS_Interval
    <3>2. IsFiniteSet((DOMAIN db) \X (DOMAIN db))
      BY <3>1, FS_Product
    <3>3. ResolvingPairs(v) \subseteq (DOMAIN db) \X (DOMAIN db)
      BY Typed DEF ResolvingPairs, Having
    <3>4. IsFiniteSet(ResolvingPairs(v))
      BY <3>2, <3>3, FS_Subset
    <3> QED
      BY <3>4, FS_Subset
  <2>3. /\ DOMAIN pairs = 1 .. Len(pairs) /\ Len(pairs) \in Nat
        /\ \A i \in 1 .. Len(pairs) : pairs[i] \in ResolvingPairs(v)
        /\ \A p \in ResolvingPairs(v) : \E i \in 1 .. Len(pairs) : pairs[i] = p
    BY <2>2, SetToSeqFacts
  <2>4. /\ DOMAIN new = 1 .. Len(new) /\ Len(new) \in Nat
        /\ \A i \in 1 .. Len(new) : new[i] \in long
        /\ \A p \in long : \E i \in 1 .. Len(new) : new[i] = p
    <3> HIDE DEF long
    <3> QED
      BY <2>2, SetToSeqFacts
  <2>5. Range(resolvents) = Resolvents(v)
    <3>1. Range(resolvents) = {resolvents[i] : i \in 1 .. Len(pairs)}
      BY <2>3 DEF Range
    <3>2. \A i \in 1 .. Len(pairs) : resolvents[i] = Resolvent(pairs[i], v)
      BY <2>3
    <3> HIDE DEF resolvents
    <3> QED
      BY <2>3, <3>1, <3>2 DEF Resolvents
  <2>6. units = Units(v)
    BY <2>5 DEF Units
  <2>7. /\ rows \in Seq(Row) /\ Len(rows) = Len(new)
        /\ \A i \in 1 .. Len(rows) : ~ rows[i].deleted /\ rows[i].lits = Resolvent(new[i], v)
    <3>1. \A i \in 1 .. Len(new) : Resolvent(new[i], v) \in SUBSET Lit
      <4> SUFFICES ASSUME NEW i \in 1 .. Len(new) PROVE Resolvent(new[i], v) \in SUBSET Lit
        OBVIOUS
      <4>1. new[i] \in ResolvingPairs(v)
        BY <2>4
      <4>2. Resolvent(new[i], v) \in Resolvents(v)
        BY <4>1 DEF Resolvents
      <4> QED
        BY <4>2, OccurrenceFacts
    <3>2. \A i \in 1 .. Len(new) : /\ Stored(Resolvent(new[i], v)) \in Row
                                   /\ ~ Stored(Resolvent(new[i], v)).deleted
                                   /\ Stored(Resolvent(new[i], v)).lits = Resolvent(new[i], v)
      BY <3>1 DEF Stored, Row
    <3>3. \A i \in 1 .. Len(new) : rows[i] = Stored(Resolvent(new[i], v))
      BY <2>4
    <3>4. rows = [i \in 1 .. Len(new) |-> rows[i]]
      BY <2>4
    <3> HIDE DEF rows, long
    <3>5. rows \in Seq(Row) /\ Len(rows) = Len(new)
      BY <2>4, <3>2, <3>3, <3>4
    <3> QED
      BY <3>2, <3>3, <3>5
  <2>8. Changes(db, db', Removed(v), Long(v))
    <3>1. {rows[i].lits : i \in 1 .. Len(rows)} = Long(v)
      <4>1. \A i \in 1 .. Len(new) : rows[i].lits \in Long(v)
        BY <2>4, <2>7 DEF Long, Resolvents
      <4>2. ASSUME NEW c \in Long(v) PROVE \E i \in 1 .. Len(new) : rows[i].lits = c
        <5>1. PICK p \in ResolvingPairs(v) : c = Resolvent(p, v) /\ Cardinality(c) >= 2
          BY DEF Long, Resolvents
        <5>2. PICK i \in 1 .. Len(new) : new[i] = p
          BY <2>4, <5>1
        <5> QED
          BY <2>7, <5>1, <5>2
      <4> HIDE DEF rows
      <4> QED
        BY <2>7, <4>1, <4>2
    <3>2. db \in Store
      BY Typed
    <3> HIDE DEF rows
    <3> QED
      BY <2>1, <2>7, <3>1, <3>2, StoreChanged
  <2>9. Removed(v) # {}
    <3>1. OccurrenceCount(v) > 0
      BY <1>4 DEF Eliminable
    <3>2. Cardinality({}) = 0
      BY FS_EmptySet
    <3> QED
      BY <3>1, <3>2 DEF OccurrenceCount, Removed
  <2>10. Eliminates(v, db')
    <3> HIDE DEF rows, resolvents
    <3> QED
      BY <1>4, <2>1, <2>5, <2>6, <2>8, <2>9 DEF Eliminates
  <2> QED
    BY <1>1, <2>10
<1> QED
  BY <1>3, <1>4

\* The values after an elimination, and the models that agree with them.
LEMMA EliminatedValues ==
  ASSUME TypeOK, NoTautology, NEW v \in Var, Eliminates(v, db')
  PROVE  /\ root' \in SUBSET Lit /\ consistent' \in BOOLEAN
         /\ Known \cup {v} \cup Units(v) \subseteq Known'
         /\ Known' \subseteq Known \cup {v} \cup Literals(db)
         /\ \A m \in Model :
              /\ Satisfies(m, LiveClauses(db)')
              /\ Known \cup {v} \cup Units(v) \subseteq m
              /\ {} \notin Resolvents(v)
              => consistent' /\ Known' \subseteq m
<1> PICK d : d = db'
  OBVIOUS
<1> DEFINE A == Known \cup {v} \cup Units(v)
           t == Trail(d, 0, A)
<1>1. /\ db \in Store /\ d \in Store /\ Changes(db, d, Removed(v), Long(v))
      /\ root' = t \ (chosen \cup {v}) /\ chosen' = chosen \cup {v}
      /\ consistent' = ({} \notin Resolvents(v) /\ ~ ConflictIn(d, 0, A))
  <2>1. Changes(db, d, Removed(v), Long(v))
    BY DEF Eliminates
  <2> QED
    BY <2>1, Typed DEF Eliminates, Changes
<1>2. \A c \in Resolvents(v) : c \subseteq Literals(db) /\ c \in SUBSET Lit
  BY OccurrenceFacts
<1>3. Units(v) \subseteq Literals(db) /\ UNION Long(v) \subseteq Literals(db)
  BY <1>2 DEF Units, Long
<1>4. A \in SUBSET Lit
  BY <1>2, Typed, VarLit DEF Units
<1>5. Literals(d) = Literals(db)
  <2>1. Literals(d) = Literals(db) \cup UNION Long(v)
    BY <1>1, ChangeFacts
  <2> QED
    BY <1>3, <2>1
<1>6. /\ A \subseteq t /\ t \subseteq A \cup Literals(d)
      /\ \A m \in Model :
           (\A r \in Live(d) \ {0} : d[r].lits \cap m # {}) /\ A \subseteq m =>
             t \subseteq m /\ ~ ConflictIn(d, 0, A)
  <2> HIDE DEF A
  <2> QED
    BY <1>1, <1>4, TrailSound
<1>7. Known' = t
  <2>1. chosen \cup {v} \subseteq A
    BY DEF Known
  <2> HIDE DEF t, A
  <2> QED
    BY <1>1, <1>6, <2>1 DEF Known
<1>8. root' \in SUBSET Lit /\ Known' \subseteq Known \cup {v} \cup Literals(db)
  <2>1. t \in SUBSET Lit /\ t \subseteq Known \cup {v} \cup Literals(db)
    <3> HIDE DEF t
    <3>1. Literals(d) \in SUBSET Lit
      BY <1>1, StoreFacts
    <3> QED
      BY <1>3, <1>4, <1>5, <1>6, <3>1
  <2> HIDE DEF t
  <2> QED
    BY <1>1, <1>7, <2>1
<1>9. consistent' \in BOOLEAN
  BY <1>1 DEF ConflictIn, Conflicting
<1>10. ASSUME NEW m \in Model, Satisfies(m, LiveClauses(db)'), A \subseteq m, {} \notin Resolvents(v)
       PROVE  consistent' /\ Known' \subseteq m
  <2>1. LiveClauses(db)' = LiveClauses(d)
    BY DEF LiveClauses
  <2>2. \A r \in Live(d) \ {0} : d[r].lits \cap m # {}
    BY <1>10, <2>1 DEF Satisfies, LiveClauses
  <2> HIDE DEF t, A
  <2> QED
    BY <1>1, <1>6, <1>7, <1>10, <2>2
<1> QED
  BY <1>6, <1>7, <1>8, <1>9, <1>10

\* A model of the store, with the eliminated variable made true, is one of
\* what is left.
LEMMA EliminatedForwards ==
  ASSUME TypeOK, NoTautology, NEW v \in Var, Eliminates(v, db'), NEW m \in Complete
  PROVE  consistent' /\ \E n \in Complete' : m \cap Kept' = n \cap Kept'
<1> PICK n : n = (m \ {v, -v}) \cup {v}
  OBVIOUS
<1>1. /\ m \in Model /\ Known \subseteq m
      /\ \A r \in Live(db) : db[r].lits \cap m # {}
  BY CompleteFacts
<1>2. /\ n \in Model
      /\ \A c \in SUBSET Lit : v \notin c /\ -v \notin c /\ c \cap m # {} => c \cap n # {}
      /\ \A k : VarOf(k) # v => (k \in m <=> k \in n)
  BY <1>1, Changed
<1>3. \A c \in Resolvents(v) : /\ c \in SUBSET Lit /\ v \notin c /\ -v \notin c
                               /\ c \cap m # {} /\ c \cap n # {}
  BY <1>2, OccurrenceFacts, ResolventsHold
<1>4. Satisfies(m, LiveClauses(db))
  BY DEF Complete
<1>5. Satisfies(n, LiveClauses(db)')
  <2>1. LiveClauses(db)' = {db[r].lits : r \in Live(db) \ Removed(v)} \cup Long(v)
    <3> PICK d : d = db'
      OBVIOUS
    <3>1. Changes(db, d, Removed(v), Long(v)) /\ db \in Store
      BY Typed DEF Eliminates
    <3>2. LiveClauses(d) = {db[r].lits : r \in Live(db) \ Removed(v)} \cup Long(v)
      BY <3>1, ChangeFacts
    <3> QED
      BY <3>2 DEF LiveClauses
  <2>2. \A r \in Live(db) \ Removed(v) : db[r].lits \cap n # {}
    BY <1>1, <1>2, OccurrenceFacts, Typed
  <2> QED
    BY <1>3, <2>1, <2>2 DEF Satisfies, Long
<1>6. Known \cup {v} \cup Units(v) \subseteq n
  <2>1. v \notin Known /\ -v \notin Known
    BY DEF Eliminates, Unassigned, Neg
  <2>2. Known \subseteq n
    BY <1>1, <2>1
  <2>3. ASSUME NEW c \in Resolvents(v), Cardinality(c) = 1 PROVE c \subseteq n
    <3>1. IsFiniteSet(c)
      BY <1>3, ClauseFinite
    <3>2. PICK l : c = {l}
      BY <2>3, <3>1, FS_Singleton
    <3> QED
      BY <1>3, <3>2
  <2> QED
    BY <2>2, <2>3 DEF Units
<1>7. consistent' /\ Known' \subseteq n
  BY <1>2, <1>3, <1>5, <1>6, EliminatedValues
<1>8. n \in Complete'
  BY <1>2, <1>5, <1>7 DEF Complete, Satisfies
<1>9. m \cap Kept' = n \cap Kept'
  <2>1. \A k \in Kept' : VarOf(k) # v
    BY DEF Kept, Eliminates
  <2> QED
    BY <1>2, <2>1
<1> QED
  BY <1>7, <1>8, <1>9

\* A model of what is left asks for one value of the eliminated variable at
\* most, and with that value it is a model of the store.
LEMMA EliminatedBack ==
  ASSUME TypeOK, NoTautology, NEW v \in Var, Eliminates(v, db'), consistent', NEW m \in Complete'
  PROVE  /\ m \in SUBSET Lit
         /\ Cardinality(Required(m, RecordOf(v))) <= 1
         /\ Undo(m, RecordOf(v)) \in Complete
<1>1. m \in Model /\ Satisfies(m, LiveClauses(db)') /\ Known' \subseteq m
  BY DEF Complete, Satisfies
<1>2. LiveClauses(db)' = {db[r].lits : r \in Live(db) \ Removed(v)} \cup Long(v)
  <2> PICK d : d = db'
    OBVIOUS
  <2>1. Changes(db, d, Removed(v), Long(v)) /\ db \in Store
    BY Typed DEF Eliminates
  <2>2. LiveClauses(d) = {db[r].lits : r \in Live(db) \ Removed(v)} \cup Long(v)
    BY <2>1, ChangeFacts
  <2> QED
    BY <2>2 DEF LiveClauses
<1>3. Known \subseteq m /\ Units(v) \subseteq m
  BY <1>1, EliminatedValues
<1>4. ASSUME NEW c \in Resolvents(v) PROVE c \cap m # {}
  <2>1. c \in SUBSET Lit
    BY OccurrenceFacts
  <2>2. IsFiniteSet(c) /\ Cardinality(c) \in Nat
    BY <2>1, ClauseFinite
  <2>3. CASE Cardinality(c) = 0
    <3>1. c = {}
      BY <2>2, <2>3, FS_EmptySet
    <3> QED
      BY <3>1 DEF Eliminates
  <2>4. CASE Cardinality(c) = 1
    <3>1. PICK l : c = {l}
      BY <2>2, <2>4, FS_Singleton
    <3>2. l \in Units(v)
      BY <2>4, <3>1 DEF Units
    <3> QED
      BY <1>3, <3>1, <3>2
  <2>5. CASE Cardinality(c) >= 2
    <3>1. c \in LiveClauses(db)'
      BY <1>2, <2>5 DEF Long
    <3> QED
      BY <1>1, <3>1 DEF Satisfies
  <2> QED
    BY <2>2, <2>3, <2>4, <2>5
<1>5. \A r \in Live(db) \ Removed(v) : db[r].lits \cap m # {}
  BY <1>1, <1>2 DEF Satisfies
<1>6. Unassigned(v) /\ m \in SUBSET Lit
  BY <1>1 DEF Eliminates, Model
<1> QED
  BY <1>1, <1>3, <1>4, <1>5, <1>6, UndoSound

\* What is left of a list of k + 1 records after the first i.
LEMMA SuffixFacts ==
  ASSUME NEW S, NEW all \in Seq(S), NEW k \in Nat, NEW i \in 1 .. k, Len(all) = k + 1
  PROVE  /\ SubSeq(all, i + 1, k + 1) \in Seq(S)
         /\ Len(SubSeq(all, i + 1, k + 1)) = k - i + 1
         /\ \A j \in 1 .. k - i + 1 : SubSeq(all, i + 1, k + 1)[j] = all[i + j]
<1> PICK lo, hi : lo = i + 1 /\ hi = k + 1
  OBVIOUS
<1>1. lo \in Int /\ hi \in Int /\ lo <= hi /\ hi - lo + 1 = k - i + 1
  OBVIOUS
<1>2. \A j \in lo .. hi : all[j] \in S
  BY LenProperties
<1>3. /\ SubSeq(all, lo, hi) \in Seq(S)
      /\ Len(SubSeq(all, lo, hi)) = IF lo <= hi THEN hi - lo + 1 ELSE 0
      /\ \A j \in 1 .. hi - lo + 1 : SubSeq(all, lo, hi)[j] = all[lo + j - 1]
  BY <1>1, <1>2, SubSeqProperties
<1>4. \A j \in 1 .. k - i + 1 : lo + j - 1 = i + j
  OBVIOUS
<1> QED
  BY <1>1, <1>3, <1>4

\* No record asks for both values of its variable while a model is rebuilt.
OneAtMost(S) == Cardinality(S) <= 1
AsksOnce(m, recs) ==
  \A i \in DOMAIN recs : OneAtMost(Required(Extended(m, SubSeq(recs, i + 1, Len(recs))), recs[i]))

\* What the reconstruction of a model of what is left goes through.
LEMMA EliminatedRecords ==
  ASSUME NEW recs \in Seq(Record), NEW rec \in Record, NEW m \in SUBSET Lit,
         OneAtMost(Required(m, rec)), AsksOnce(Undo(m, rec), recs)
  PROVE  /\ Extended(m, Append(recs, rec)) = Extended(Undo(m, rec), recs)
         /\ AsksOnce(m, Append(recs, rec))
<1> PICK n, all : n = Undo(m, rec) /\ all = Append(recs, rec)
  OBVIOUS
<1> DEFINE k == Len(recs)
<1>1. /\ all \in Seq(Record) /\ Len(all) = k + 1 /\ all[k + 1] = rec /\ k \in Nat
      /\ DOMAIN all = 1 .. k + 1 /\ DOMAIN recs = 1 .. k
      /\ \A i \in 1 .. k : all[i] = recs[i]
  BY AppendProperties, LenProperties
<1>2. Extended(m, all) = Extended(n, recs)
  BY ExtendedFacts
<1>3. ASSUME NEW i \in DOMAIN all
      PROVE  OneAtMost(Required(Extended(m, SubSeq(all, i + 1, Len(all))), all[i]))
  <2>1. CASE i = k + 1
    <3>1. SubSeq(all, i + 1, Len(all)) = << >>
      BY <1>1, <2>1
    <3>2. Extended(m, << >>) = m
      BY ExtendedFacts
    <3> QED
      BY <1>1, <2>1, <3>1, <3>2
  <2>2. CASE i # k + 1
    <3>1. i \in 1 .. k /\ all[i] = recs[i]
      BY <1>1, <2>2
    <3> PICK s : s = SubSeq(recs, i + 1, k)
      OBVIOUS
    <3>2. s \in Seq(Record) /\ Len(s) = k - i /\ \A j \in 1 .. k - i : s[j] = recs[i + j]
      BY <1>1, <3>1
    <3>3. SubSeq(all, i + 1, k + 1) = Append(s, rec)
      <4> PICK u, w : u = SubSeq(all, i + 1, k + 1) /\ w = Append(s, rec)
        OBVIOUS
      <4>1. i \in Nat /\ i <= k /\ \A j \in i + 1 .. k + 1 : all[j] \in Record
        BY <1>1, <3>1
      <4> HIDE DEF k
      <4>2. /\ u \in Seq(Record) /\ Len(u) = k - i + 1
            /\ \A j \in 1 .. k - i + 1 : u[j] = all[i + j]
        BY <1>1, <3>1, <4>1, SuffixFacts
      <4>3. /\ w \in Seq(Record) /\ Len(w) = k - i + 1 /\ w[k - i + 1] = rec
            /\ \A j \in 1 .. k - i : w[j] = s[j]
        BY <1>1, <3>2, <4>1, AppendProperties
      <4>4. \A j \in 1 .. k - i + 1 : u[j] = w[j]
        <5> SUFFICES ASSUME NEW j \in 1 .. k - i + 1 PROVE u[j] = w[j]
          OBVIOUS
        <5>1. CASE j = k - i + 1
          <6>1. i + j = k + 1
            BY <1>1, <4>1, <5>1
          <6> QED
            BY <1>1, <4>2, <4>3, <5>1, <6>1
        <5>2. CASE j # k - i + 1
          <6>1. j \in 1 .. k - i /\ i + j \in 1 .. k
            BY <1>1, <3>1, <5>2
          <6> QED
            BY <1>1, <3>2, <4>2, <4>3, <6>1
        <5> QED
          BY <5>1, <5>2
      <4>5. u = w
        BY <4>2, <4>3, <4>4, SeqEqual
      <4> QED
        BY <4>5
    <3>4. Extended(m, Append(s, rec)) = Extended(n, s)
      BY <3>2, ExtendedFacts
    <3>5. OneAtMost(Required(Extended(n, SubSeq(recs, i + 1, Len(recs))), recs[i]))
      BY <1>1, <3>1 DEF AsksOnce
    <3> QED
      BY <1>1, <3>1, <3>3, <3>4, <3>5
  <2> QED
    BY <2>1, <2>2
<1> QED
  BY <1>2, <1>3 DEF AsksOnce

\* Elimination: the models of what is left are those of the store, but for the
\* variable, which the record of its clauses gives back.
LEMMA EliminateInv == Inv /\ Eliminate => Inv'
<1> SUFFICES ASSUME Inv, Eliminate PROVE Inv'
  OBVIOUS
<1>1. /\ TypeOK /\ QueryOK /\ NoTautology /\ FreshOK /\ ScheduleOK
      /\ Covered /\ Recovered /\ AnswerOK
  BY DEF Inv
<1>2. /\ stage = 5 /\ consistent /\ todo # {} /\ todo' \subseteq todo
      /\ UNCHANGED <<config, client, inputs, started, stage, assumed, answer>>
      /\ \/ UNCHANGED <<db, root, chosen, records, consistent>>
         \/ \E v \in Var : Eliminates(v, db')
  BY <1>1, EliminateShape
<1>3. ScheduleOK'
  BY <1>1, <1>2 DEF ScheduleOK
<1>4. CASE UNCHANGED <<db, root, chosen, records, consistent>>
  <2>1. Changes(db, db', {}, {})
    <3>1. Stored({}) \in Row /\ ~ Stored({}).deleted
      BY DEF Stored, Row
    <3> QED
      BY <1>1, <1>4, <3>1, Typed, StoreShort
  <2>2. /\ root' \in SUBSET Lit /\ consistent' \in BOOLEAN /\ Known' = Known
        /\ \A m \in Complete : consistent' /\ m \in Complete'
        /\ Complete' \subseteq Complete
    BY <1>1, <1>2, <1>4 DEF TypeOK, Complete, Known
  <2>3. /\ TypeOK' /\ QueryOK' /\ NoTautology' /\ FreshOK'
        /\ Covered' /\ Recovered' /\ AnswerOK'
    BY <1>2, <1>4, <2>1, <2>2, Replacing
  <2> QED
    BY <1>3, <2>3 DEF Inv
<1>5. CASE \E v \in Var : Eliminates(v, db')
  <2>1. PICK v \in Var : Eliminates(v, db')
    BY <1>5
  <2>2. /\ Changes(db, db', Removed(v), Long(v)) /\ Removed(v) # {}
        /\ records' = Append(records, RecordOf(v))
        /\ chosen' = chosen \cup {v}
    BY <2>1 DEF Eliminates
  <2>3. /\ root' \in SUBSET Lit /\ consistent' \in BOOLEAN
        /\ Known' \subseteq Known \cup {v} \cup Literals(db)
    BY <1>1, <2>1, EliminatedValues
  <2>4. /\ RecordOf(v) \in Record /\ records \in Seq(Record)
        /\ \A c \in Long(v) : c \subseteq Literals(db) /\ ~ Tautology(c)
    BY <1>1, OccurrenceFacts, Typed DEF Long
  <2>5. TypeOK'
    <3>1. db' \in Seq(Row)
      BY <2>2 DEF Changes, Store
    <3>2. records' \in Seq(Record)
      BY <2>2, <2>4
    <3> QED
      BY <1>1, <1>2, <2>2, <2>3, <3>1, <3>2 DEF TypeOK
  <2>6. QueryOK'
    <3>1. "eliminate" \in config /\ started
      BY <1>1, <1>2 DEF ScheduleOK, QueryOK
    <3> QED
      BY <1>1, <1>2, <3>1 DEF QueryOK
  <2>7. NoTautology'
    BY <1>1, <2>2, <2>4, TautologyKept
  <2>8. FreshOK'
    <3>1. v \in Mentioned
      <4>1. PICK r \in Removed(v) : v \in db[r].lits \/ -v \in db[r].lits
        BY <2>2 DEF Removed, Having
      <4>2. r \in DOMAIN db
        BY <1>1, <4>1, OccurrenceFacts, Typed
      <4>3. VarOf(v) = v /\ VarOf(-v) = v
        BY VarLit
      <4> QED
        BY <4>1, <4>2, <4>3 DEF Mentioned, Literals
    <3>2. VarOf(v) = v
      BY VarLit
    <3>3. \A l \in Known' \cup UNION Long(v) : VarOf(l) \in Mentioned \cup External
      BY <2>3, <2>4, <3>1, <3>2 DEF Mentioned
    <3> QED
      BY <1>1, <2>2, <3>3, FreshKept
  <2>9. Covered'
    <3> SUFFICES ASSUME NEW m \in ModelsOf(inputs)
                 PROVE  consistent' /\ \E n \in Complete' : m \cap Kept' = n \cap Kept'
      BY <1>2 DEF Covered, ModelsOf
    <3>1. PICK n \in Complete : m \cap Kept = n \cap Kept
      BY <1>1 DEF Covered
    <3>2. consistent' /\ \E q \in Complete' : n \cap Kept' = q \cap Kept'
      BY <1>1, <2>1, EliminatedForwards
    <3>3. Kept' \subseteq Kept
      BY <2>2 DEF Kept
    <3> QED
      BY <3>1, <3>2, <3>3
  <2>10. Recovered'
    <3> SUFFICES ASSUME consistent', NEW m \in Complete' PROVE UndoneRight(m)'
      BY DEF Recovered
    <3> PICK rec : rec = RecordOf(v)
      OBVIOUS
    <3>1. m \in SUBSET Lit /\ OneAtMost(Required(m, rec)) /\ Undo(m, rec) \in Complete
      BY <1>1, <2>1, EliminatedBack DEF OneAtMost
    <3> PICK n : n = Extended(Undo(m, rec), records)
      OBVIOUS
    <3>2. /\ n \in Model /\ Satisfies(n, inputs) /\ n \cap Kept = Undo(m, rec) \cap Kept
          /\ AsksOnce(Undo(m, rec), records)
      BY <1>1, <1>2, <3>1 DEF Recovered, UndoneRight, AsksOnce, OneAtMost
    <3>7. Undo(m, rec) \cap Kept' = m \cap Kept' /\ Kept' \subseteq Kept
      <4>1. VarOf(v) \in chosen' /\ VarOf(-v) \in chosen' /\ rec.var = v
        BY <2>2, VarLit DEF RecordOf
      <4>2. v \notin Kept' /\ -v \notin Kept'
        BY <4>1 DEF Kept
      <4>3. Required(m, rec) \subseteq {v, -v}
        BY <4>1 DEF Required
      <4>4. Kept' \subseteq Kept
        BY <2>2 DEF Kept
      <4> QED
        BY <4>1, <4>2, <4>3, <4>4 DEF Undo
    <3>8. n \cap Kept' = m \cap Kept'
      BY <3>2, <3>7
    <3>3. records \in Seq(Record) /\ rec \in Record
      BY <2>4
    <3>4. /\ Extended(m, Append(records, rec)) = Extended(Undo(m, rec), records)
          /\ AsksOnce(m, Append(records, rec))
      BY <3>1, <3>2, <3>3, EliminatedRecords
    <3> PICK all : all = records'
      OBVIOUS
    <3>5. all = Append(records, rec)
      BY <2>2
    <3>6. /\ Extended(m, all) \in Model /\ Satisfies(Extended(m, all), inputs)
          /\ Extended(m, all) \cap Kept' = m \cap Kept' /\ AsksOnce(m, all)
      BY <3>2, <3>4, <3>5, <3>8
    <3> QED
      BY <1>2, <3>6 DEF UndoneRight, AsksOnce, OneAtMost
  <2>11. AnswerOK'
    BY <1>1, <1>2, <2>2, AnswerKept
  <2> QED
    BY <1>3, <2>5, <2>6, <2>7, <2>8, <2>9, <2>10, <2>11 DEF Inv
<1> QED
  BY <1>2, <1>4, <1>5

-----------------------------------------------------------------------------
(***************************************************************************)
(* Factorization.                                                          *)
(***************************************************************************)

\* The least of a set of natural numbers is one of them.
LEMMA MinIn ==
  ASSUME NEW S \in SUBSET Nat, S # {}
  PROVE  Min(S) \in S
BY LeastNat DEF Min

\* A neighbourhood lists, for each of its quotients, clauses that hold it and
\* the factor.
LEMMA NeighborhoodFacts ==
  ASSUME TypeOK, NEW f \in Lit, NEW q \in DOMAIN Neighborhood(f)
  PROVE  /\ q \in SUBSET Lit
         /\ Neighborhood(f)[q] \in SUBSET Nat /\ Neighborhood(f)[q] # {}
         /\ \A r \in Neighborhood(f)[q] : r \in DOMAIN db /\ Reduced(db[r].lits) = q \cup {f}
<1> DEFINE mine == {r \in Candidates : f \in Reduced(db[r].lits)}
<1>1. /\ q \in {Reduced(db[r].lits) \ {f} : r \in mine}
      /\ Neighborhood(f)[q] = {r \in mine : Reduced(db[r].lits) = q \cup {f}}
  BY DEF Neighborhood
<1>2. PICK r \in mine : q = Reduced(db[r].lits) \ {f}
  BY <1>1
<1>3. mine \subseteq DOMAIN db /\ DOMAIN db \subseteq Nat /\ r \in DOMAIN db
  BY Typed DEF Candidates
<1>4. q \in SUBSET Lit
  BY <1>2, <1>3, Typed DEF Reduced
<1>5. Reduced(db[r].lits) = q \cup {f}
  BY <1>2
<1> HIDE DEF mine
<1> QED
  BY <1>1, <1>2, <1>3, <1>4, <1>5

\* The plans of a round are valid.
LEMMA PlansValid ==
  ASSUME TypeOK, NEW p \in FactorPlans
  PROVE  PlanOK(p)
<1>1. PICK f \in Factors : p = PlanFor(Group(f))
  BY DEF FactorPlans
<1>0. PICK G, Q, h : G = Group(f) /\ h = (CHOOSE g \in G : TRUE) /\ Q = DOMAIN Neighborhood(h)
  OBVIOUS
<1>2. p.factors = G /\ p.quotients = Q /\ p.matrix = {Min(Neighborhood(g)[q]) : g \in G, q \in Q}
  BY <1>0, <1>1 DEF PlanFor
<1>3. f \in G /\ h \in G /\ G \in SUBSET Lit /\ G \subseteq Factors
  BY <1>0 DEF Group, Factors
<1>4. \A g \in G : DOMAIN Neighborhood(g) = Q
  <2>1. \A g \in G : DOMAIN Shape(Neighborhood(g)) = DOMAIN Shape(Neighborhood(h))
    BY <1>0, <1>3 DEF Group
  <2> QED
    BY <1>0, <2>1 DEF Shape
<1>5. Q # {}
  <2>1. Cardinality({}) = 0 /\ Cardinality(DOMAIN Neighborhood(h)) >= 2
    BY <1>0, <1>3, FS_EmptySet DEF Factors
  <2> QED
    BY <1>0, <2>1
<1>6. \A g \in G, q \in Q : LET r == Min(Neighborhood(g)[q])
                            IN r \in DOMAIN db /\ Reduced(db[r].lits) = q \cup {g}
  BY <1>3, <1>4, NeighborhoodFacts, MinIn
<1>7. Q \in SUBSET (SUBSET Lit)
  BY <1>3, <1>4, NeighborhoodFacts
<1>8. ASSUME NEW g \in G, NEW q \in Q
      PROVE  \E r \in p.matrix : r \in DOMAIN db /\ Reduced(db[r].lits) = q \cup {g}
  <2> PICK r : r = Min(Neighborhood(g)[q])
    OBVIOUS
  <2>1. r \in DOMAIN db /\ Reduced(db[r].lits) = q \cup {g}
    BY <1>6
  <2>2. r \in p.matrix
    BY <1>2
  <2> QED
    BY <2>1, <2>2
<1>9. ASSUME NEW r \in p.matrix
      PROVE  r \in DOMAIN db /\ \E g \in G, q \in Q : Reduced(db[r].lits) = q \cup {g}
  <2>1. PICK g \in G, q \in Q : r = Min(Neighborhood(g)[q])
    BY <1>2
  <2>2. r \in DOMAIN db /\ Reduced(db[r].lits) = q \cup {g}
    BY <1>6, <2>1
  <2> QED
    BY <2>2
<1>10. p.matrix \subseteq DOMAIN db
  BY <1>9
<1>11. \A g \in G, q \in Q : \E r \in p.matrix : Reduced(db[r].lits) = q \cup {g}
  BY <1>8
<1>12. \A r \in p.matrix : \E g \in G, q \in Q : Reduced(db[r].lits) = q \cup {g}
  BY <1>9
<1>13. p.factors = G /\ p.quotients = Q
  BY <1>2
<1> QED
  BY <1>3, <1>5, <1>7, <1>10, <1>11, <1>12, <1>13 DEF PlanOK

\* The clauses that define x and share the quotients through it.
Factored(p, x) == {{x, f} : f \in p.factors} \cup {{-x} \cup q : q \in p.quotients}

\* Two sets of clauses in a list, one set after the other.
LEMMA ListsJoined ==
  ASSUME NEW L \in SUBSET (SUBSET Lit), NEW M \in SUBSET (SUBSET Lit)
  PROVE  LET all == SetToSeq(L) \o SetToSeq(M)
         IN all \in Seq(SUBSET Lit) /\ {all[i] : i \in 1 .. Len(all)} = L \cup M
<1> PICK left, right : left = SetToSeq(L) /\ right = SetToSeq(M)
  OBVIOUS
<1>1. IsFiniteSet(SUBSET Lit)
  BY ClauseFinite, FS_SUBSET
<1>2. IsFiniteSet(L) /\ IsFiniteSet(M)
  BY <1>1, FS_Subset
<1>3. /\ left \in Seq(L) /\ right \in Seq(M) /\ Len(left) \in Nat /\ Len(right) \in Nat
      /\ \A i \in 1 .. Len(left) : left[i] \in L
      /\ \A i \in 1 .. Len(right) : right[i] \in M
      /\ \A c \in L : \E i \in 1 .. Len(left) : left[i] = c
      /\ \A c \in M : \E i \in 1 .. Len(right) : right[i] = c
  BY <1>2, SetToSeqFacts
<1> PICK all, n : all = left \o right /\ n = Len(left) + Len(right)
  OBVIOUS
<1>4. /\ all \in Seq(SUBSET Lit) /\ Len(all) = n /\ n \in Nat
      /\ \A i \in 1 .. n : all[i] = IF i <= Len(left) THEN left[i] ELSE right[i - Len(left)]
  <2>1. left \in Seq(SUBSET Lit) /\ right \in Seq(SUBSET Lit)
    BY <1>3
  <2> QED
    BY <1>3, <2>1, ConcatProperties
<1>5. \A i \in 1 .. n : all[i] \in L \cup M
  <2> SUFFICES ASSUME NEW i \in 1 .. n PROVE all[i] \in L \cup M
    OBVIOUS
  <2>1. CASE i <= Len(left)
    BY <1>3, <1>4, <2>1
  <2>2. CASE ~ (i <= Len(left))
    <3>1. i - Len(left) \in 1 .. Len(right)
      BY <1>3, <2>2
    <3> QED
      BY <1>3, <1>4, <2>2, <3>1
  <2> QED
    BY <2>1, <2>2
<1>6. \A c \in L : \E i \in 1 .. n : all[i] = c
  <2> SUFFICES ASSUME NEW c \in L PROVE \E i \in 1 .. n : all[i] = c
    OBVIOUS
  <2>1. PICK i \in 1 .. Len(left) : left[i] = c
    BY <1>3
  <2>2. i \in 1 .. n /\ i <= Len(left)
    BY <1>3, <2>1
  <2> QED
    BY <1>4, <2>1, <2>2
<1>7. \A c \in M : \E i \in 1 .. n : all[i] = c
  <2> SUFFICES ASSUME NEW c \in M PROVE \E i \in 1 .. n : all[i] = c
    OBVIOUS
  <2>1. PICK i \in 1 .. Len(right) : right[i] = c
    BY <1>3
  <2> PICK j : j = Len(left) + i
    OBVIOUS
  <2>2. j \in 1 .. n /\ ~ (j <= Len(left)) /\ j - Len(left) = i
    BY <1>3, <2>1
  <2> QED
    BY <1>4, <2>1, <2>2
<1>8. {all[i] : i \in 1 .. n} = L \cup M
  <2>1. \A c : c \in {all[i] : i \in 1 .. n} <=> \E i \in 1 .. n : all[i] = c
    OBVIOUS
  <2>2. \A c : (\E i \in 1 .. n : all[i] = c) <=> c \in L \cup M
    BY <1>5, <1>6, <1>7
  <2> QED
    BY <2>1, <2>2
<1> QED
  BY <1>4, <1>8

\* A list of clauses, stored.
LEMMA StoredList ==
  ASSUME NEW all \in Seq(SUBSET Lit)
  PROVE  LET rows == [i \in 1 .. Len(all) |-> Stored(all[i])]
         IN /\ rows \in Seq(Row) /\ \A i \in 1 .. Len(rows) : ~ rows[i].deleted
            /\ {rows[i].lits : i \in 1 .. Len(rows)} = {all[i] : i \in 1 .. Len(all)}
<1> DEFINE rows == [i \in 1 .. Len(all) |-> Stored(all[i])]
           n == Len(all)
<1>1. n \in Nat /\ \A i \in 1 .. n : all[i] \in SUBSET Lit
  OBVIOUS
<1>2. ASSUME NEW i \in 1 .. n
      PROVE  rows[i] \in Row /\ ~ rows[i].deleted /\ rows[i].lits = all[i]
  <2> PICK c, row : c = all[i] /\ row = rows[i]
    OBVIOUS
  <2>1. row = [lits |-> c, deleted |-> FALSE, blind |-> FALSE] /\ c \in SUBSET Lit
    BY <1>1 DEF Stored
  <2> HIDE DEF rows, n
  <2>2. row \in Row /\ ~ row.deleted /\ row.lits = c
    BY <2>1 DEF Row
  <2> QED
    BY <2>2
<1>3. rows = [i \in 1 .. n |-> rows[i]]
  OBVIOUS
<1> HIDE DEF rows, n
<1>4. rows \in Seq(Row) /\ Len(rows) = n
  BY <1>1, <1>2, <1>3
<1>5. \A i \in 1 .. n : rows[i].lits = all[i]
  BY <1>2
<1>6. {rows[i].lits : i \in 1 .. n} = {all[i] : i \in 1 .. n}
  BY <1>5
<1> QED
  BY <1>2, <1>4, <1>6 DEF rows, n
\* Applying a plan replaces its clauses by those of a fresh variable.
LEMMA FactorShape ==
  ASSUME TypeOK, ScheduleOK, Factor
  PROVE  /\ stage = 6 /\ todo' \subseteq todo
         /\ UNCHANGED <<config, client, inputs, root, chosen, records, consistent, started,
                        stage, assumed, answer>>
         /\ \/ UNCHANGED db
            \/ \E p \in todo, x \in UnusedFresh :
                 p.matrix \subseteq Live(db) /\ Changes(db, db', p.matrix, Factored(p, x))
<1>1. /\ stage = 6 /\ todo' \subseteq todo /\ UnusedFresh # {}
      /\ UNCHANGED <<config, client, inputs, root, chosen, records, consistent, started,
                     stage, assumed, answer>>
  BY DEF Factor, Pass, Passes
<1>2. PICK x \in UnusedFresh : x = Min(UnusedFresh)
  <2>1. UnusedFresh \in SUBSET Nat
    BY VarAssumption DEF UnusedFresh, Fresh
  <2> QED
    BY <1>1, <2>1, MinIn
<1>3. PICK p \in todo :
        IF p.matrix \subseteq Live(db)
        THEN LET left == SetToSeq({{x, f} : f \in p.factors})
                 right == SetToSeq({{-x} \cup q : q \in p.quotients})
             IN db' = WithoutRefs(db, p.matrix) \o
                        [i \in 1 .. Len(left \o right) |-> Stored((left \o right)[i])]
        ELSE UNCHANGED db
  BY <1>2 DEF Factor
<1>4. CASE p.matrix \subseteq Live(db)
  <2>0. PICK L, M : L = {{x, f} : f \in p.factors} /\ M = {{-x} \cup q : q \in p.quotients}
    OBVIOUS
  <2>9. PICK all : all = SetToSeq(L) \o SetToSeq(M)
    OBVIOUS
  <2>1. PICK rows : rows = [i \in 1 .. Len(all) |-> Stored(all[i])]
    OBVIOUS
  <2>2. db' = WithoutRefs(db, p.matrix) \o rows
    BY <2>0, <2>9, <1>3, <1>4, <2>1
  <2>3. L \in SUBSET (SUBSET Lit) /\ M \in SUBSET (SUBSET Lit)
    <3>1. x \in Lit /\ -x \in Lit
      BY VarLit DEF UnusedFresh, Fresh
    <3>2. p.factors \in SUBSET Lit /\ p.quotients \in SUBSET (SUBSET Lit)
      BY <1>1 DEF ScheduleOK, PlanOK
    <3> QED
      BY <2>0, <3>1, <3>2
  <2>4. all \in Seq(SUBSET Lit) /\ {all[i] : i \in 1 .. Len(all)} = L \cup M
    <3> QED
      BY <2>9, <2>3, ListsJoined
  <2>5. /\ rows \in Seq(Row) /\ \A i \in 1 .. Len(rows) : ~ rows[i].deleted
        /\ {rows[i].lits : i \in 1 .. Len(rows)} = L \cup M
    BY <2>1, <2>4, StoredList
  <2>6. L \cup M = Factored(p, x)
    BY <2>0 DEF Factored
  <2>7. db \in Store
    BY Typed
  <2>8. Changes(db, db', p.matrix, Factored(p, x))
    <3>1. Changes(db, WithoutRefs(db, p.matrix) \o rows, p.matrix,
                  {rows[i].lits : i \in 1 .. Len(rows)})
      BY <2>5, <2>7, StoreChanged
    <3> QED
      BY <2>2, <2>5, <2>6, <3>1
  <2> QED
    BY <1>1, <1>4, <2>8
<1>5. CASE ~ (p.matrix \subseteq Live(db))
  BY <1>1, <1>3, <1>5
<1> QED
  BY <1>4, <1>5

\* The clauses that a plan stores, and the variable they define.
LEMMA FactoredFacts ==
  ASSUME TypeOK, NoTautology, FreshOK, NEW x \in UnusedFresh, NEW p, PlanOK(p)
  PROVE  /\ x \in Var /\ x \notin External
         /\ x \notin Known /\ -x \notin Known
         /\ \A r \in DOMAIN db : x \notin db[r].lits /\ -x \notin db[r].lits
         /\ \A c \in Factored(p, x) : ~ Tautology(c)
         /\ \A l \in UNION Factored(p, x) : VarOf(l) = x \/ l \in Literals(db)
         /\ \E c \in Factored(p, x) : x \in c
<1>1. x \in Var /\ x \notin External /\ x \notin Mentioned
  BY DEF UnusedFresh, Fresh, FreshOK
<1>2. /\ x \in Lit /\ -x \in Lit /\ VarOf(x) = x /\ VarOf(-x) = x /\ x # -x
      /\ Neg(x) = -x /\ Neg(-x) = x
  BY <1>1, VarLit DEF Neg
<1>3. \A l \in Known \cup Literals(db) : VarOf(l) # x
  BY <1>1 DEF Mentioned
<1>4. \A r \in DOMAIN db : db[r].lits \subseteq Literals(db) /\ ~ Tautology(db[r].lits)
  BY DEF Literals, NoTautology
<1>5. /\ p.factors # {} /\ p.quotients # {} /\ p.matrix \subseteq DOMAIN db
      /\ p.factors \in SUBSET Lit /\ p.quotients \in SUBSET (SUBSET Lit)
      /\ \A f \in p.factors, q \in p.quotients :
           \E r \in p.matrix : Reduced(db[r].lits) = q \cup {f}
  BY DEF PlanOK
<1>6. \A f \in p.factors : f \in Literals(db)
  BY <1>4, <1>5 DEF Reduced
<1>7. \A q \in p.quotients : \E r \in DOMAIN db : q \subseteq db[r].lits
  BY <1>5 DEF Reduced
<1>8. ASSUME NEW f \in p.factors PROVE ~ Tautology({x, f})
  <2>1. f # x /\ f # -x
    BY <1>2, <1>3, <1>6, <1>8
  <2>2. f \in Lit /\ Neg(f) # f /\ Neg(Neg(f)) = f
    BY <1>5, NegLit
  <2>3. Neg(f) # x
    BY <1>2, <2>1, <2>2
  <2> QED
    BY <1>2, <2>1, <2>2, <2>3 DEF Tautology
<1>9. ASSUME NEW q \in p.quotients PROVE ~ Tautology({-x} \cup q)
  <2>1. PICK r \in DOMAIN db : q \subseteq db[r].lits
    BY <1>7
  <2>2. x \notin q /\ -x \notin q /\ q \in SUBSET Lit
    BY <1>2, <1>3, <1>4, <1>5, <2>1
  <2>3. \A l \in q : Neg(l) \notin q
    BY <1>4, <2>1 DEF Tautology
  <2>4. \A l \in q : Neg(l) # -x
    BY <1>2, <2>2, NegLit
  <2> QED
    BY <1>2, <2>2, <2>3, <2>4 DEF Tautology
<1>10. \A c \in Factored(p, x) : ~ Tautology(c)
  BY <1>8, <1>9 DEF Factored
<1>11. \A l \in UNION Factored(p, x) : VarOf(l) = x \/ l \in Literals(db)
  <2> SUFFICES ASSUME NEW c \in Factored(p, x), NEW l \in c PROVE VarOf(l) = x \/ l \in Literals(db)
    OBVIOUS
  <2>1. CASE c \in {{x, f} : f \in p.factors}
    BY <1>2, <1>6, <2>1
  <2>2. CASE c \in {{-x} \cup q : q \in p.quotients}
    BY <1>2, <1>4, <1>7, <2>2
  <2> QED
    BY <2>1, <2>2 DEF Factored
<1>12. \E c \in Factored(p, x) : x \in c
  <2>1. PICK f \in p.factors : TRUE
    BY <1>5
  <2>2. {x, f} \in Factored(p, x)
    BY DEF Factored
  <2> QED
    BY <2>2
<1> QED
  BY <1>1, <1>2, <1>3, <1>4, <1>10, <1>11, <1>12

\* A model of the store gives the new variable a value; a model of what is
\* stored instead satisfies the clauses of the plan.
LEMMA FactoredModels ==
  ASSUME TypeOK, NoTautology, FreshOK, NEW x \in UnusedFresh, NEW p, PlanOK(p),
         p.matrix \subseteq Live(db), Changes(db, db', p.matrix, Factored(p, x)),
         UNCHANGED <<root, chosen>>
  PROVE  /\ \A m \in Complete : \E n \in Complete' : m \cap Kept = n \cap Kept
         /\ Complete' \subseteq Complete
<1>1. /\ x \in Var /\ x \notin External /\ x \notin Known /\ -x \notin Known
      /\ \A r \in DOMAIN db : x \notin db[r].lits /\ -x \notin db[r].lits
  BY FactoredFacts
<1>2. /\ db \in Store /\ Live(db) \subseteq DOMAIN db /\ Known' = Known
      /\ \A r \in DOMAIN db : db[r].lits \in SUBSET Lit
  BY Typed DEF Known
<1>3. LiveClauses(db)' = {db[r].lits : r \in Live(db) \ p.matrix} \cup Factored(p, x)
  <2> PICK d : d = db'
    OBVIOUS
  <2>1. Changes(db, d, p.matrix, Factored(p, x))
    OBVIOUS
  <2>2. LiveClauses(d) = {db[r].lits : r \in Live(db) \ p.matrix} \cup Factored(p, x)
    BY <1>2, <2>1, ChangeFacts
  <2> QED
    BY <2>2 DEF LiveClauses
<1>4. /\ p.factors \in SUBSET Lit /\ p.quotients \in SUBSET (SUBSET Lit)
      /\ \A f \in p.factors, q \in p.quotients :
           \E r \in p.matrix : Reduced(db[r].lits) = q \cup {f}
      /\ \A r \in p.matrix : \E f \in p.factors, q \in p.quotients :
           Reduced(db[r].lits) = q \cup {f}
  BY DEF PlanOK
<1>5. x \in Lit /\ -x \in Lit /\ Neg(x) = -x
  BY <1>1, VarLit DEF Neg
<1>6. ASSUME NEW m \in Complete PROVE \E n \in Complete' : m \cap Kept = n \cap Kept
  <2>1. m \in Model /\ Known \subseteq m /\ \A r \in Live(db) : db[r].lits \cap m # {}
    BY CompleteFacts
  <2>2. \A f \in p.factors, q \in p.quotients : f \in m \/ q \cap m # {}
    <3> SUFFICES ASSUME NEW f \in p.factors, NEW q \in p.quotients PROVE f \in m \/ q \cap m # {}
      OBVIOUS
    <3>1. PICK r \in p.matrix : Reduced(db[r].lits) = q \cup {f}
      BY <1>4
    <3>2. r \in Live(db) /\ r \in DOMAIN db
      BY <1>2
    <3>3. PICK k \in db[r].lits : k \in m
      BY <2>1, <3>2
    <3>4. Neg(k) \notin Known
      BY <1>2, <2>1, <3>2, <3>3, ModelTotal
    <3> QED
      BY <3>1, <3>3, <3>4 DEF Reduced
  <2>3. PICK l \in {x, -x} : /\ l = x => \A q \in p.quotients : q \cap m # {}
                             /\ l = -x => \A f \in p.factors : f \in m
    <3>1. x # -x
      BY <1>1, VarLit
    <3>2. CASE \A q \in p.quotients : q \cap m # {}
      BY <3>1, <3>2
    <3>3. CASE \E q \in p.quotients : q \cap m = {}
      BY <2>2, <3>1, <3>3
    <3> QED
      BY <3>2, <3>3
  <2> PICK n : n = (m \ {x, -x}) \cup {l}
    OBVIOUS
  <2>4. /\ n \in Model
        /\ \A c \in SUBSET Lit : x \notin c /\ -x \notin c /\ c \cap m # {} => c \cap n # {}
        /\ \A k : VarOf(k) # x => (k \in m <=> k \in n)
    <3>1. l \in {x, -x} /\ m \in Model /\ x \in Var
      BY <1>1, <2>1
    <3>2. (m \ {x, -x}) \cup {l} \in Model
      BY <3>1, Changed
    <3>3. \A c \in SUBSET Lit : x \notin c /\ -x \notin c /\ c \cap m # {} =>
                                   c \cap ((m \ {x, -x}) \cup {l}) # {}
      BY <3>1, Changed
    <3>4. \A k : VarOf(k) # x => (k \in m <=> k \in (m \ {x, -x}) \cup {l})
      BY <3>1, Changed
    <3> QED
      BY <3>2, <3>3, <3>4
  <2>5. \A r \in Live(db) : db[r].lits \cap n # {}
    BY <1>1, <1>2, <2>1, <2>4
  <2>6. ASSUME NEW c \in Factored(p, x) PROVE c \cap n # {}
    <3>1. CASE c \in {{x, f} : f \in p.factors}
      <4>1. PICK f \in p.factors : c = {x, f}
        BY <3>1
      <4>2. CASE l = x
        BY <4>1, <4>2
      <4>3. CASE l = -x
        <5>1. f \in m
          BY <2>3, <4>3
        <5>2. CASE f = -x
          BY <4>1, <4>3, <5>2
        <5>3. CASE f = x
          <6>1. PICK q \in p.quotients : TRUE
            BY DEF PlanOK
          <6>2. PICK r \in p.matrix : Reduced(db[r].lits) = q \cup {f}
            BY <1>4
          <6> QED
            BY <1>1, <1>2, <5>3, <6>2 DEF Reduced
        <5>4. CASE f \notin {x, -x}
          BY <4>1, <5>1, <5>4
        <5> QED
          BY <5>2, <5>3, <5>4
      <4> QED
        BY <4>2, <4>3
    <3>2. CASE c \in {{-x} \cup q : q \in p.quotients}
      <4>1. PICK q \in p.quotients : c = {-x} \cup q
        BY <3>2
      <4>2. CASE l = -x
        BY <4>1, <4>2
      <4>3. CASE l = x
        <5>1. q \cap m # {} /\ q \in SUBSET Lit
          BY <1>4, <2>3, <4>3
        <5>2. x \notin q /\ -x \notin q
          <6>1. PICK f \in p.factors : TRUE
            BY DEF PlanOK
          <6>2. PICK r \in p.matrix : Reduced(db[r].lits) = q \cup {f}
            BY <1>4
          <6> QED
            BY <1>1, <1>2, <6>2 DEF Reduced
        <5> QED
          BY <2>4, <4>1, <5>1, <5>2
      <4> QED
        BY <4>2, <4>3
    <3> QED
      BY <3>1, <3>2 DEF Factored
  <2>7. Satisfies(n, LiveClauses(db)')
    BY <1>3, <2>5, <2>6 DEF Satisfies
  <2>8. Known' \subseteq n
    BY <1>1, <1>2, <2>1
  <2>9. n \in Complete'
    BY <2>4, <2>7, <2>8 DEF Complete, Satisfies
  <2>10. m \cap Kept = n \cap Kept
    <3>1. \A k \in Kept : VarOf(k) # x
      BY <1>1 DEF Kept
    <3> QED
      BY <2>4, <3>1
  <2> QED
    BY <2>9, <2>10
<1>7. ASSUME NEW m \in Complete' PROVE m \in Complete
  <2>1. m \in Model /\ Satisfies(m, LiveClauses(db)') /\ Known \subseteq m
    BY <1>2 DEF Complete, Satisfies
  <2>2. ASSUME NEW r \in Live(db) PROVE db[r].lits \cap m # {}
    <3>1. CASE r \notin p.matrix
      BY <1>3, <2>1, <3>1 DEF Satisfies
    <3>2. CASE r \in p.matrix
      <4>1. PICK f \in p.factors, q \in p.quotients : Reduced(db[r].lits) = q \cup {f}
        BY <1>4, <3>2
      <4>2. {x, f} \in Factored(p, x) /\ {-x} \cup q \in Factored(p, x)
        BY DEF Factored
      <4>3. {x, f} \cap m # {} /\ ({-x} \cup q) \cap m # {}
        BY <1>3, <2>1, <4>2 DEF Satisfies
      <4>4. ~ (x \in m /\ -x \in m)
        BY <1>5, <2>1, ModelTotal
      <4>5. (q \cup {f}) \cap m # {}
        BY <4>3, <4>4
      <4> QED
        BY <4>1, <4>5 DEF Reduced
    <3> QED
      BY <3>1, <3>2
  <2> QED
    BY <2>1, <2>2 DEF Complete, Satisfies, LiveClauses
<1> QED
  BY <1>6, <1>7

\* Factorization: the models are those of the store, with a value for the
\* fresh variable.
LEMMA FactorInv == Inv /\ Factor => Inv'
<1> SUFFICES ASSUME Inv, Factor PROVE Inv'
  OBVIOUS
<1>1. /\ TypeOK /\ QueryOK /\ NoTautology /\ FreshOK /\ ScheduleOK
      /\ Covered /\ Recovered /\ AnswerOK
  BY DEF Inv
<1>2. /\ stage = 6 /\ todo' \subseteq todo
      /\ UNCHANGED <<config, client, inputs, root, chosen, records, consistent, started,
                     stage, assumed, answer>>
      /\ \/ UNCHANGED db
         \/ \E p \in todo, x \in UnusedFresh :
              p.matrix \subseteq Live(db) /\ Changes(db, db', p.matrix, Factored(p, x))
  BY <1>1, FactorShape
<1>3. /\ QueryOK' /\ Kept' = Kept /\ Known' = Known
      /\ ModelsOf(inputs)' = ModelsOf(inputs)
      /\ \A m : UndoneRight(m)' <=> UndoneRight(m)
  BY <1>1, <1>2 DEF QueryOK, Kept, Known, ModelsOf, UndoneRight
<1>4. AnswerOK'
  BY <1>1, <1>2, AnswerKept
<1>5. CASE UNCHANGED db
  <2>1. Complete' = Complete
    BY <1>3, <1>5 DEF Complete
  <2>2. TypeOK' /\ NoTautology'
    BY <1>1, <1>2, <1>5 DEF TypeOK, NoTautology
  <2>3. FreshOK'
    BY <1>1, <1>3, <1>5 DEF FreshOK, UnusedFresh, Mentioned, Literals
  <2>4. ScheduleOK'
    <3>1. \A p \in todo' : PlanOK(p)'
      BY <1>1, <1>2, <1>3, <1>5 DEF ScheduleOK, PlanOK, Reduced
    <3> QED
      BY <1>2, <3>1 DEF ScheduleOK
  <2>5. Covered' /\ Recovered'
    BY <1>1, <1>2, <1>3, <2>1 DEF Covered, Recovered
  <2> QED
    BY <1>3, <1>4, <2>2, <2>3, <2>4, <2>5 DEF Inv
<1>6. CASE \E p \in todo, x \in UnusedFresh :
             p.matrix \subseteq Live(db) /\ Changes(db, db', p.matrix, Factored(p, x))
  <2>1. PICK p \in todo, x \in UnusedFresh :
          p.matrix \subseteq Live(db) /\ Changes(db, db', p.matrix, Factored(p, x))
    BY <1>6
  <2>2. PlanOK(p)
    BY <1>1, <1>2 DEF ScheduleOK
  <2>3. /\ \A m \in Complete : \E n \in Complete' : m \cap Kept = n \cap Kept
        /\ Complete' \subseteq Complete
    BY <1>1, <1>2, <2>1, <2>2, FactoredModels
  <2>4. /\ x \in Var /\ \A c \in Factored(p, x) : ~ Tautology(c)
        /\ \A l \in UNION Factored(p, x) : VarOf(l) = x \/ l \in Literals(db)
        /\ \E c \in Factored(p, x) : x \in c
    BY <1>1, <2>2, FactoredFacts
  <2>5. TypeOK'
    <3>1. db' \in Seq(Row)
      BY <2>1 DEF Changes, Store
    <3> QED
      BY <1>1, <1>2, <3>1 DEF TypeOK
  <2>6. NoTautology'
    BY <1>1, <2>1, <2>4, TautologyKept
  <2>7. FreshOK'
    <3>1. UnusedFresh' \subseteq UnusedFresh \ {x}
      <4>1. UnusedFresh' \subseteq UnusedFresh
        BY <2>1 DEF UnusedFresh, Changes
      <4>2. x \notin UnusedFresh'
        BY <2>1, <2>4 DEF UnusedFresh, Changes
      <4> QED
        BY <4>1, <4>2
    <3>2. Literals(db)' = Literals(db) \cup UNION Factored(p, x)
      <4> PICK d : d = db'
        OBVIOUS
      <4>1. Changes(db, d, p.matrix, Factored(p, x)) /\ db \in Store
        BY <1>1, <2>1, Typed
      <4>2. Literals(d) = Literals(db) \cup UNION Factored(p, x)
        BY <4>1, ChangeFacts
      <4> QED
        BY <4>2 DEF Literals
    <3>3. Mentioned' \subseteq Mentioned \cup {x}
      BY <1>3, <2>4, <3>2 DEF Mentioned
    <3> QED
      BY <1>1, <3>1, <3>3 DEF FreshOK
  <2>8. ScheduleOK'
    <3>1. ASSUME NEW q \in todo' PROVE PlanOK(q)'
      <4>1. PlanOK(q)
        BY <1>1, <1>2 DEF ScheduleOK
      <4>2. DOMAIN db \subseteq DOMAIN db' /\ \A r \in DOMAIN db : db'[r].lits = db[r].lits
        BY <2>1 DEF Changes
      <4>3. \A r \in q.matrix : Reduced(db[r].lits)' = Reduced(db[r].lits)
        BY <1>3, <4>1, <4>2 DEF Reduced, PlanOK
      <4>4. /\ q.factors \in SUBSET Lit /\ q.factors # {}
            /\ q.quotients \in SUBSET (SUBSET Lit) /\ q.quotients # {}
            /\ q.matrix \subseteq DOMAIN db'
        BY <4>1, <4>2 DEF PlanOK
      <4>5. \A f \in q.factors, t \in q.quotients :
              \E r \in q.matrix : Reduced(db[r].lits)' = t \cup {f}
        BY <4>1, <4>3 DEF PlanOK
      <4>6. \A r \in q.matrix :
              \E f \in q.factors, t \in q.quotients : Reduced(db[r].lits)' = t \cup {f}
        <5> SUFFICES ASSUME NEW r \in q.matrix
                     PROVE  \E f \in q.factors, t \in q.quotients :
                              Reduced(db[r].lits)' = t \cup {f}
          OBVIOUS
        <5>1. PICK f \in q.factors, t \in q.quotients : Reduced(db[r].lits) = t \cup {f}
          BY <4>1 DEF PlanOK
        <5> QED
          BY <4>3, <5>1
      <4> QED
        BY <4>4, <4>5, <4>6 DEF PlanOK
    <3> QED
      BY <1>2, <3>1 DEF ScheduleOK
  <2>9. Covered' /\ Recovered'
    <3>1. ASSUME NEW m \in ModelsOf(inputs)
          PROVE  consistent /\ \E n \in Complete' : m \cap Kept = n \cap Kept
      <4>1. consistent /\ \E k \in Complete : m \cap Kept = k \cap Kept
        BY <1>1 DEF Covered
      <4> QED
        BY <2>3, <4>1
    <3>2. Covered'
      BY <1>2, <1>3, <3>1 DEF Covered
    <3>3. Recovered'
      BY <1>1, <1>2, <1>3, <2>3 DEF Recovered
    <3> QED
      BY <3>2, <3>3
  <2> QED
    BY <1>3, <1>4, <2>5, <2>6, <2>7, <2>8, <2>9 DEF Inv
<1> QED
  BY <1>2, <1>5, <1>6

-----------------------------------------------------------------------------
(***************************************************************************)
(* The client's calls, and the passes of a query.                          *)
(***************************************************************************)

\* A step that only moves to another pass or another schedule.
LEMMA OnlySchedule ==
  ASSUME Inv, stage # 0, stage' \in 1 .. 7, ScheduleOK',
         UNCHANGED <<config, client, inputs, db, root, chosen, records, consistent, started,
                     assumed, answer>>
  PROVE  Inv'
<1>1. TypeOK' /\ QueryOK'
  BY DEF Inv, TypeOK, QueryOK
<1>2. /\ NoTautology' /\ Known' = Known /\ Kept' = Kept
      /\ \A m : UndoneRight(m)' <=> UndoneRight(m)
  BY DEF Inv, NoTautology, Known, Kept, UndoneRight
<1>3. Complete' = Complete /\ ModelsOf(inputs)' = ModelsOf(inputs)
  BY <1>2 DEF Complete, ModelsOf
<1>4. FreshOK'
  BY <1>2 DEF Inv, FreshOK, UnusedFresh, Mentioned, Literals
<1>5. Covered' /\ Recovered'
  BY <1>2, <1>3 DEF Inv, Covered, Recovered
<1>6. AnswerOK'
  BY AnswerKept DEF Inv
<1> QED
  BY <1>1, <1>2, <1>4, <1>5, <1>6 DEF Inv

\* A plan stays valid while the store and the values do.
LEMMA PlanKept ==
  ASSUME UNCHANGED <<db, root, chosen>>, NEW p, PlanOK(p)
  PROVE  PlanOK(p)'
<1>1. Known' = Known
  BY DEF Known
<1>2. \A r \in p.matrix : Reduced(db[r].lits)' = Reduced(db[r].lits)
  BY <1>1 DEF Reduced
<1>3. /\ p.factors \in SUBSET Lit /\ p.factors # {}
      /\ p.quotients \in SUBSET (SUBSET Lit) /\ p.quotients # {}
      /\ p.matrix \subseteq DOMAIN db'
  BY DEF PlanOK
<1>4. \A f \in p.factors, q \in p.quotients :
        \E r \in p.matrix : Reduced(db[r].lits)' = q \cup {f}
  <2> SUFFICES ASSUME NEW f \in p.factors, NEW q \in p.quotients
               PROVE  \E r \in p.matrix : Reduced(db[r].lits)' = q \cup {f}
    OBVIOUS
  <2>1. PICK r \in p.matrix : Reduced(db[r].lits) = q \cup {f}
    BY DEF PlanOK
  <2> QED
    BY <1>2, <2>1
<1>5. \A r \in p.matrix :
        \E f \in p.factors, q \in p.quotients : Reduced(db[r].lits)' = q \cup {f}
  <2> SUFFICES ASSUME NEW r \in p.matrix
               PROVE  \E f \in p.factors, q \in p.quotients : Reduced(db[r].lits)' = q \cup {f}
    OBVIOUS
  <2>1. PICK f \in p.factors, q \in p.quotients : Reduced(db[r].lits) = q \cup {f}
    BY DEF PlanOK
  <2> QED
    BY <1>2, <2>1
<1> QED
  BY <1>3, <1>4, <1>5 DEF PlanOK

\* Another round of factorization.
LEMMA FactorAgainInv == Inv /\ FactorAgain => Inv'
<1> SUFFICES ASSUME Inv, FactorAgain PROVE Inv'
  OBVIOUS
<1>1. /\ stage = 6 /\ todo' = FactorPlans
      /\ UNCHANGED <<config, client, inputs, db, root, chosen, records, consistent, started,
                     stage, assumed, answer>>
  BY DEF FactorAgain, Pass, Passes
<1>2. ScheduleOK'
  <2>1. \A p \in todo' : PlanOK(p)
    BY <1>1, PlansValid DEF Inv
  <2>2. \A p \in todo' : PlanOK(p)'
    BY <1>1, <2>1, PlanKept
  <2> QED
    BY <1>1, <2>2 DEF ScheduleOK
<1> QED
  BY <1>1, <1>2, OnlySchedule

\* The clauses of a variable can be counted.
LEMMA OccurrencesCounted ==
  ASSUME TypeOK, NEW v
  PROVE  OccurrenceCount(v) \in Nat
<1>1. IsFiniteSet(DOMAIN db)
  BY Typed, StoreFacts, FS_Interval
<1>2. Having(v) \subseteq DOMAIN db /\ Having(-v) \subseteq DOMAIN db
  BY Typed DEF Having
<1>3. /\ IsFiniteSet(Having(v)) /\ Cardinality(Having(v)) \in Nat
      /\ IsFiniteSet(Having(-v)) /\ Cardinality(Having(-v)) \in Nat
  BY <1>1, <1>2, FS_Subset, FS_CardinalityType
<1> QED
  BY <1>3 DEF OccurrenceCount

\* The next pass starts with its schedule.
LEMMA NextPassInv == Inv /\ NextPass => Inv'
<1> SUFFICES ASSUME Inv, NextPass PROVE Inv'
  OBVIOUS
<1>1. /\ TypeOK /\ stage \in 1 .. 6 /\ stage' = stage + 1
      /\ todo' = IF stage = 6 THEN {} ELSE Schedule(stage + 1)
      /\ UNCHANGED <<config, client, inputs, db, root, chosen, records, consistent, started,
                     assumed, answer>>
  BY DEF Inv, NextPass, Passes
<1>2. Known' = Known
  BY <1>1 DEF Known
<1>3. ScheduleOK'
  <2>1. CASE stage = 1
    <3>1. stage' = 2 /\ (todo' = {} \/ todo' = ProbeSchedule)
      BY <1>1, <2>1 DEF Schedule, Passes
    <3> QED
      BY <3>1 DEF ScheduleOK, ProbeSchedule
  <2>2. CASE stage = 2
    <3>1. stage' = 3 /\ (todo' = {} \/ todo' = VivifySchedule)
      BY <1>1, <2>2 DEF Schedule, Passes
    <3>2. todo' \subseteq Live(db)'
      BY <1>1, <3>1 DEF VivifySchedule
    <3> QED
      BY <3>1, <3>2 DEF ScheduleOK
  <2>3. CASE stage = 3
    <3>1. stage' = 4 /\ (todo' = {} \/ todo' = SubsumeSchedule)
      BY <1>1, <2>3 DEF Schedule, Passes
    <3>2. SubsumeSchedule \subseteq {p \in (DOMAIN db) \X (DOMAIN db) : p[1] # p[2]}
      BY <1>1, Typed DEF SubsumeSchedule
    <3> QED
      BY <1>1, <3>1, <3>2 DEF ScheduleOK
  <2>4. CASE stage = 4
    <3>1. stage' = 5 /\ (todo' = {} \/ (todo' = EliminationSchedule /\ "eliminate" \in config))
      BY <1>1, <2>4 DEF Schedule, Passes
    <3>2. EliminationSchedule \subseteq Nat \X Var
      BY <1>1, OccurrencesCounted DEF EliminationSchedule
    <3> QED
      BY <1>1, <3>1, <3>2 DEF ScheduleOK
  <2>5. CASE stage = 5
    <3>1. stage' = 6 /\ (todo' = {} \/ todo' = FactorPlans)
      BY <1>1, <2>5 DEF Schedule, Passes
    <3>2. \A p \in todo' : PlanOK(p)
      BY <1>1, <3>1, PlansValid
    <3>3. \A p \in todo' : PlanOK(p)'
      BY <1>1, <3>2, PlanKept
    <3> QED
      BY <3>1, <3>3 DEF ScheduleOK
  <2>6. CASE stage = 6
    BY <1>1, <2>6 DEF ScheduleOK
  <2> QED
    BY <1>1, <2>1, <2>2, <2>3, <2>4, <2>5, <2>6
<1>4. stage # 0 /\ stage' \in 1 .. 7
  BY <1>1
<1> QED
  BY <1>1, <1>3, <1>4, OnlySchedule

\* A query starts: what the root assignment implies is assigned.
LEMMA SolveInv == Inv /\ Solve => Inv'
<1> SUFFICES ASSUME Inv, Solve PROVE Inv'
  OBVIOUS
<1>1. /\ TypeOK /\ QueryOK /\ NoTautology /\ FreshOK /\ Covered /\ Recovered
      /\ client # << >> /\ Head(client).op = "solve"
      /\ assumed' = Head(client).assume /\ started' = TRUE
      /\ stage' \in {1, 7} /\ answer' = NoAnswer
      /\ UNCHANGED <<config, client, inputs, db, chosen, records, todo>>
  BY DEF Inv, Solve, Passes
<1>2. assumed' \in SUBSET ClientLit
  <2>1. Head(client) \in Call
    BY <1>1 DEF TypeOK
  <2> QED
    BY <1>1, <2>1 DEF Call
<1>3. /\ root' \in SUBSET Lit /\ consistent' \in BOOLEAN
      /\ Known \subseteq Known' /\ Known' \subseteq Known \cup Literals(db)
      /\ consistent' => consistent
      /\ consistent => \A m \in Complete : consistent' /\ Known' \subseteq m
  <2>1. CASE consistent
    <3>1. AssertUnits(db, {}) /\ chosen' = chosen
      BY <1>1, <2>1 DEF Solve
    <3>2. db \in Store /\ {} \in SUBSET Lit
      BY <1>1, Typed
    <3>3. /\ root' \in SUBSET Lit /\ consistent' \in BOOLEAN
          /\ Known \cup {} \subseteq Known'
          /\ Known' \subseteq Known \cup {} \cup Literals(db)
          /\ \A m \in Model : Satisfies(m, LiveClauses(db)) /\ Known \cup {} \subseteq m =>
                                consistent' /\ Known' \subseteq m
      BY <1>1, <3>1, <3>2, AssertedUnits
    <3> QED
      BY <2>1, <3>3 DEF Complete
  <2>2. CASE ~ consistent
    <3>1. UNCHANGED <<root, consistent>>
      BY <2>2 DEF Solve
    <3> QED
      BY <1>1, <2>2, <3>1 DEF TypeOK, Known
  <2> QED
    BY <2>1, <2>2
<1>4. Complete' \subseteq Complete
  BY <1>1, <1>3 DEF Complete
<1>5. ASSUME consistent, NEW m \in Complete PROVE consistent' /\ m \in Complete'
  BY <1>1, <1>3, <1>5 DEF Complete
<1>6. TypeOK' /\ QueryOK'
  BY <1>1, <1>2, <1>3 DEF TypeOK, QueryOK
<1>7. NoTautology'
  BY <1>1 DEF NoTautology
<1>8. FreshOK'
  <2>1. Stored({}) \in Row /\ ~ Stored({}).deleted
    BY DEF Stored, Row
  <2>2. Changes(db, db', {}, {})
    BY <1>1, <2>1, Typed, StoreShort
  <2>3. \A l \in Known' \cup UNION {} : VarOf(l) \in Mentioned \cup External
    BY <1>3 DEF Mentioned
  <2> QED
    BY <1>1, <2>2, <2>3, FreshKept
<1>9. ScheduleOK'
  BY <1>1 DEF ScheduleOK
<1>10. Kept' = Kept /\ ModelsOf(inputs)' = ModelsOf(inputs) /\ \A m : UndoneRight(m)' <=> UndoneRight(m)
  BY <1>1 DEF Kept, ModelsOf, UndoneRight
<1>11. Covered' /\ Recovered'
  BY <1>1, <1>3, <1>4, <1>5, <1>10 DEF Covered, Recovered
<1>12. AnswerOK'
  BY <1>1 DEF AnswerOK, NoAnswer
<1> QED
  BY <1>6, <1>7, <1>8, <1>9, <1>11, <1>12 DEF Inv

\* A query ends: with an answer that is right, and the next call.
LEMMA Answered ==
  ASSUME Inv, stage # 0, client' = Tail(client), stage' = 0, AnswerOK',
         UNCHANGED <<config, inputs, db, root, chosen, records, consistent, started, assumed>>
  PROVE  Inv'
<1>1. client # << >>
  BY DEF Inv, QueryOK
<1>2. TypeOK' /\ QueryOK'
  BY <1>1 DEF Inv, TypeOK, QueryOK
<1>3. /\ NoTautology' /\ Known' = Known /\ Kept' = Kept
      /\ \A m : UndoneRight(m)' <=> UndoneRight(m)
  BY DEF Inv, NoTautology, Known, Kept, UndoneRight
<1>4. Complete' = Complete /\ ModelsOf(inputs)' = ModelsOf(inputs)
  BY <1>3 DEF Complete, ModelsOf
<1>5. FreshOK'
  BY <1>3 DEF Inv, FreshOK, UnusedFresh, Mentioned, Literals
<1>6. Covered' /\ Recovered' /\ ScheduleOK'
  BY <1>3, <1>4 DEF Inv, Covered, Recovered, ScheduleOK
<1> QED
  BY <1>2, <1>3, <1>5, <1>6 DEF Inv

\* A conflict at level 0 refutes the clauses of the client.
LEMMA RootConflictInv == Inv /\ RootConflict => Inv'
<1> SUFFICES ASSUME Inv, RootConflict PROVE Inv'
  OBVIOUS
<1>1. /\ stage # 0 /\ ~ consistent /\ answer' = [kind |-> "unsat", core |-> {}]
      /\ client' = Tail(client) /\ stage' = 0
      /\ UNCHANGED <<config, inputs, db, root, chosen, records, consistent, started, assumed>>
  BY DEF RootConflict
<1>2. AnswerOK'
  <2>1. Refutes(inputs, {})
    BY <1>1 DEF Inv, Covered, Refutes, ModelsOf
  <2> QED
    BY <1>1, <2>1 DEF AnswerOK, Refutes
<1> QED
  BY <1>1, <1>2, Answered

\* The search answers about what is left, and that is right of the clauses of
\* the client.
LEMMA SearchInv == Inv /\ Search => Inv'
<1> SUFFICES ASSUME Inv, Search PROVE Inv'
  OBVIOUS
<1>1. /\ stage # 0 /\ consistent /\ client' = Tail(client) /\ stage' = 0
      /\ UNCHANGED <<config, inputs, db, root, chosen, records, consistent, started, assumed>>
  BY DEF Search, Pass, Passes
<1>2. AnswerOK'
  <2>1. CASE \E m \in Complete :
               assumed \subseteq m /\ answer' = [kind |-> "sat", model |-> Extended(m, records)]
    <3>1. PICK m \in Complete :
            assumed \subseteq m /\ answer' = [kind |-> "sat", model |-> Extended(m, records)]
      BY <2>1
    <3> PICK e : e = Extended(m, records)
      OBVIOUS
    <3>2. e \in Model /\ Satisfies(e, inputs) /\ e \cap Kept = m \cap Kept
      BY <1>1 DEF Inv, Recovered, UndoneRight
    <3>3. assumed \cap Kept \subseteq e
      BY <3>1, <3>2
    <3>4. answer'.kind = "sat" /\ answer'.model = e
      BY <3>1
    <3>5. Kept' = Kept
      BY <1>1 DEF Kept
    <3> QED
      BY <1>1, <3>2, <3>3, <3>4, <3>5 DEF AnswerOK
  <2>2. CASE \E core \in SUBSET assumed :
               /\ \A m \in Complete : ~ core \subseteq m
               /\ answer' = [kind |-> "unsat", core |-> core]
    <3>1. PICK core \in SUBSET assumed :
            /\ \A m \in Complete : ~ core \subseteq m
            /\ answer' = [kind |-> "unsat", core |-> core]
      BY <2>2
    <3>2. core \subseteq Kept => Refutes(inputs, core)
      <4> SUFFICES ASSUME core \subseteq Kept, NEW m \in Model, Satisfies(m, inputs), core \subseteq m
                   PROVE  FALSE
        BY DEF Refutes
      <4>1. PICK n \in Complete : m \cap Kept = n \cap Kept
        BY DEF Inv, Covered, ModelsOf
      <4> QED
        BY <3>1, <4>1
    <3>3. Kept' = Kept
      BY <1>1 DEF Kept
    <3> QED
      BY <1>1, <3>1, <3>2, <3>3 DEF AnswerOK, Refutes
  <2> QED
    BY <2>1, <2>2 DEF Search
<1> QED
  BY <1>1, <1>2, Answered

\* What adding the clause c leaves: its literals are the client's, and the
\* models are those of the store that satisfy it.
Adds(c) ==
  /\ inputs' = inputs \cup {c} /\ answer' = NoAnswer
  /\ root' \in SUBSET Lit /\ consistent' \in BOOLEAN /\ (consistent' => consistent)
  /\ Known \subseteq Known' /\ Known' \subseteq Known \cup c \cup Literals(db)
  /\ \E N \in SUBSET {c} : Changes(db, db', {}, N) /\ \A e \in N : ~ Tautology(e)
  /\ consistent => \A m \in Complete : c \cap m # {} => consistent' /\ m \in Complete'
  /\ consistent' => \A m \in Complete' : m \in Complete /\ c \cap m # {}

\* AddClause does that for every clause it does not refuse.
LEMMA AddClauseShape ==
  ASSUME Inv, AddClause, NEW c \in SUBSET ClientLit, c = Head(client).clause,
         ~ (started /\ config \cap {"eliminate", "factor"} # {}), chosen = {}
  PROVE  Adds(c)
<1> DEFINE plain == Tautology(c) \/ Cardinality(c) < 2
                      \/ (started /\ (RootSatisfied(c) \/ Reduced(c) = {}))
           unit == IF Cardinality(Reduced(c)) = 1 THEN Reduced(c) ELSE {}
           A == Known \cup unit
<1>1. PICK kept : kept = IF plain THEN db ELSE Append(db, Stored(c))
  OBVIOUS
<1>2. /\ TypeOK /\ inputs' = inputs \cup {c} /\ answer' = NoAnswer /\ db' = kept
      /\ UNCHANGED chosen
      /\ IF started /\ ~ RootSatisfied(c) /\ ~ Tautology(c)
         THEN /\ root' = Trail(kept, 0, A)
              /\ consistent' = (consistent /\ Reduced(c) # {} /\ ~ ConflictIn(kept, 0, A))
         ELSE /\ root' = IF Cardinality(c) = 1 THEN root \cup c ELSE root
              /\ consistent' = (consistent /\ c # {} /\ (Cardinality(c) = 1 => Reduced(c) # {}))
  BY <1>1 DEF Inv, AddClause
<1>3. /\ c \in SUBSET Lit /\ IsFiniteSet(c) /\ Cardinality(c) \in Nat
      /\ db \in Store /\ Known \in SUBSET Lit /\ Known = root
      /\ root \in SUBSET Lit /\ consistent \in BOOLEAN
  BY <1>2, ClauseFinite, Typed DEF TypeOK, ClientLit, Known
<1>4. Known' = root'
  BY <1>2 DEF Known
<1>5. PICK N \in SUBSET {c} : /\ Changes(db, kept, {}, N) /\ \A e \in N : ~ Tautology(e)
                              /\ plain => N = {}
                              /\ ~ plain => N = {c}
  <2>1. Stored(c) \in Row /\ Stored(c).lits = c /\ ~ Stored(c).deleted
    BY <1>3 DEF Stored, Row
  <2>2. Changes(db, Append(db, Stored(c)), {}, {Stored(c).lits}) /\ Changes(db, db, {}, {})
    BY <1>3, <2>1, StoreShort
  <2>3. CASE plain
    BY <1>1, <2>2, <2>3
  <2>4. CASE ~ plain
    BY <1>1, <2>1, <2>2, <2>4
  <2> QED
    BY <2>3, <2>4
<1>6. /\ kept \in Store
      /\ LiveClauses(kept) = LiveClauses(db) \cup N
      /\ Literals(kept) = Literals(db) \cup UNION N
      /\ LiveClauses(db)' = LiveClauses(kept)
  <2>1. kept \in Store
    BY <1>5 DEF Changes
  <2>2. /\ LiveClauses(kept) = {db[r].lits : r \in Live(db) \ {}} \cup N
        /\ Literals(kept) = Literals(db) \cup UNION N
    BY <1>3, <1>5, ChangeFacts
  <2>3. LiveClauses(db) = {db[r].lits : r \in Live(db) \ {}}
    BY DEF LiveClauses
  <2> QED
    BY <1>2, <2>1, <2>2, <2>3 DEF LiveClauses
<1>7. unit \in SUBSET c /\ A \in SUBSET Lit
  BY <1>3 DEF Reduced
<1>8. /\ A \subseteq Trail(kept, 0, A)
      /\ Trail(kept, 0, A) \subseteq A \cup Literals(kept)
      /\ \A m \in Model :
           Satisfies(m, LiveClauses(kept)) /\ A \subseteq m =>
             Trail(kept, 0, A) \subseteq m /\ ~ ConflictIn(kept, 0, A)
  <2> HIDE DEF A
  <2>1. /\ A \subseteq Trail(kept, 0, A)
        /\ Trail(kept, 0, A) \subseteq A \cup Literals(kept)
        /\ \A m \in Model :
             (\A r \in Live(kept) \ {0} : kept[r].lits \cap m # {}) /\ A \subseteq m =>
               Trail(kept, 0, A) \subseteq m /\ ~ ConflictIn(kept, 0, A)
    BY <1>6, <1>7, TrailSound
  <2>2. \A m : Satisfies(m, LiveClauses(kept)) =>
                 \A r \in Live(kept) \ {0} : kept[r].lits \cap m # {}
    BY DEF Satisfies, LiveClauses
  <2> QED
    BY <2>1, <2>2
<1>9. Literals(db) \in SUBSET Lit
  BY <1>2, Typed
<1>10. /\ root' \in SUBSET Lit /\ Known \subseteq Known'
       /\ Known' \subseteq Known \cup c \cup Literals(db)
  <2>1. CASE started /\ ~ RootSatisfied(c) /\ ~ Tautology(c)
    <3>1. root' = Trail(kept, 0, A)
      BY <1>2, <2>1
    <3>2. UNION N \subseteq c
      BY <1>5
    <3>3. A \subseteq Known \cup c /\ Known \subseteq A
      BY <1>7
    <3> HIDE DEF A
    <3> QED
      BY <1>3, <1>4, <1>6, <1>8, <1>9, <3>1, <3>2, <3>3
  <2>2. CASE ~ (started /\ ~ RootSatisfied(c) /\ ~ Tautology(c))
    BY <1>2, <1>3, <1>4, <2>2
  <2> QED
    BY <2>1, <2>2
<1>11. consistent' \in BOOLEAN /\ (consistent' => consistent)
  <2>1. ConflictIn(kept, 0, A) \in BOOLEAN
    BY DEF ConflictIn, Conflicting
  <2> HIDE DEF A
  <2> QED
    BY <1>2, <1>3, <2>1
<1>12. ASSUME consistent, NEW m \in Complete, c \cap m # {}
       PROVE  consistent' /\ m \in Complete'
  <2>1. m \in Model /\ Satisfies(m, LiveClauses(db)) /\ Known \subseteq m
    BY DEF Complete
  <2>2. Satisfies(m, LiveClauses(kept))
    BY <1>6, <1>12, <2>1 DEF Satisfies
  <2>3. PICK k \in c : k \in m
    BY <1>12
  <2>4. k \in Reduced(c)
    BY <1>3, <2>1, <2>3, ModelTotal DEF Reduced
  <2>5. unit \subseteq m
    <3>1. CASE Cardinality(Reduced(c)) = 1
      <4>1. IsFiniteSet(Reduced(c))
        BY <1>3, ClauseFinite DEF Reduced
      <4>2. PICK j : Reduced(c) = {j}
        BY <3>1, <4>1, FS_Singleton
      <4> QED
        BY <2>3, <2>4, <4>2
    <3> QED
      BY <3>1
  <2>6. CASE started /\ ~ RootSatisfied(c) /\ ~ Tautology(c)
    <3>1. A \subseteq m
      BY <2>1, <2>5
    <3> HIDE DEF A
    <3>2. root' \subseteq m /\ consistent'
      BY <1>2, <1>8, <1>12, <2>1, <2>2, <2>4, <2>6, <3>1
    <3> QED
      BY <1>4, <1>6, <2>1, <2>2, <3>2 DEF Complete, Satisfies
  <2>7. CASE ~ (started /\ ~ RootSatisfied(c) /\ ~ Tautology(c))
    <3>1. consistent'
      BY <1>2, <1>12, <2>3, <2>4, <2>7
    <3>2. root' \subseteq m
      <4>1. CASE Cardinality(c) = 1
        <5>1. PICK j : c = {j}
          BY <1>3, <4>1, FS_Singleton
        <5> QED
          BY <1>2, <1>3, <2>1, <2>3, <2>7, <5>1
      <4>2. CASE Cardinality(c) # 1
        BY <1>2, <1>3, <2>1, <2>7, <4>2
      <4> QED
        BY <4>1, <4>2
    <3> QED
      BY <1>4, <1>6, <2>1, <2>2, <3>1, <3>2 DEF Complete, Satisfies
  <2> QED
    BY <2>6, <2>7
<1>13. ASSUME consistent', NEW m \in Complete' PROVE m \in Complete /\ c \cap m # {}
  <2>1. m \in Model /\ Satisfies(m, LiveClauses(kept)) /\ root' \subseteq m
    BY <1>4, <1>6 DEF Complete, Satisfies
  <2>2. Satisfies(m, LiveClauses(db)) /\ Known \subseteq m
    BY <1>4, <1>6, <1>10, <2>1 DEF Satisfies
  <2>3. c \cap m # {}
    <3>1. CASE ~ plain
      BY <1>5, <1>6, <2>1, <3>1 DEF Satisfies
    <3>2. CASE RootSatisfied(c)
      BY <2>2, <3>2 DEF RootSatisfied
    <3>3. CASE Tautology(c)
      <4>1. PICK l \in c : Neg(l) \in c
        BY <3>3 DEF Tautology
      <4> QED
        BY <1>3, <2>1, <4>1, ModelTotal
    <3>4. CASE ~ RootSatisfied(c) /\ ~ Tautology(c) /\ started
      <4>1. Reduced(c) # {} /\ root' = Trail(kept, 0, A)
        BY <1>2, <1>13, <3>4
      <4>2. CASE Cardinality(c) < 2
        <5>1. c # {}
          BY <4>1 DEF Reduced
        <5>2. Cardinality(c) = 1
          BY <1>3, <4>2, <5>1, FS_EmptySet
        <5>3. PICK l : c = {l}
          BY <1>3, <5>2, FS_Singleton
        <5>4. Reduced(c) = c
          BY <4>1, <5>3 DEF Reduced
        <5>5. unit = c
          BY <5>2, <5>4
        <5> HIDE DEF A
        <5>6. c \subseteq A
          BY <5>5 DEF A
        <5> QED
          BY <1>8, <2>1, <4>1, <5>1, <5>6
      <4>3. CASE ~ (Cardinality(c) < 2)
        BY <3>1, <3>4, <4>1, <4>3
      <4> QED
        BY <4>2, <4>3
    <3>5. CASE ~ RootSatisfied(c) /\ ~ Tautology(c) /\ ~ started
      <4>1. /\ c # {} /\ root' = IF Cardinality(c) = 1 THEN root \cup c ELSE root
        BY <1>2, <1>13, <3>5
      <4>2. CASE Cardinality(c) < 2
        <5>1. Cardinality(c) = 1
          BY <1>3, <4>1, <4>2, FS_EmptySet
        <5> QED
          BY <2>1, <4>1, <5>1
      <4>3. CASE ~ (Cardinality(c) < 2)
        BY <3>1, <3>5, <4>3
      <4> QED
        BY <4>2, <4>3
    <3> QED
      BY <3>2, <3>3, <3>4, <3>5
  <2> QED
    BY <2>1, <2>2, <2>3 DEF Complete
<1> HIDE DEF A, unit, plain
<1>14. \E M \in SUBSET {c} : Changes(db, db', {}, M) /\ \A e \in M : ~ Tautology(e)
  BY <1>2, <1>5
<1> QED
  BY <1>2, <1>10, <1>11, <1>12, <1>13, <1>14 DEF Adds

\* A clause of the client narrows what it has asked and what the store holds
\* alike; one that is refused changes neither.
LEMMA AddClauseInv == Inv /\ AddClause => Inv'
<1> SUFFICES ASSUME Inv, AddClause PROVE Inv'
  OBVIOUS
<1>1. /\ TypeOK /\ QueryOK /\ NoTautology /\ FreshOK /\ Covered /\ Recovered /\ AnswerOK
      /\ stage = 0 /\ client # << >> /\ client' = Tail(client)
      /\ UNCHANGED <<config, chosen, records, started, stage, todo, assumed>>
  BY DEF Inv, AddClause
<1>2. PICK c \in SUBSET ClientLit : c = Head(client).clause
  <2>1. Head(client) \in Call /\ Head(client).op = "add"
    BY <1>1 DEF TypeOK, AddClause
  <2> QED
    BY <2>1 DEF Call
<1>3. client' \in Seq(Call) /\ ScheduleOK'
  BY <1>1 DEF TypeOK, ScheduleOK
<1>4. CASE started /\ config \cap {"eliminate", "factor"} # {}
  <2>1. UNCHANGED <<inputs, db, root, consistent, answer>>
    BY <1>4 DEF AddClause
  <2>2. TypeOK' /\ QueryOK'
    BY <1>1, <1>3, <2>1 DEF TypeOK, QueryOK
  <2>3. /\ NoTautology' /\ Known' = Known /\ Kept' = Kept
        /\ \A m : UndoneRight(m)' <=> UndoneRight(m)
    BY <1>1, <2>1 DEF NoTautology, Known, Kept, UndoneRight
  <2>4. Complete' = Complete /\ ModelsOf(inputs)' = ModelsOf(inputs)
    BY <2>1, <2>3 DEF Complete, ModelsOf
  <2>5. FreshOK'
    BY <1>1, <2>1, <2>3 DEF FreshOK, UnusedFresh, Mentioned, Literals
  <2>6. Covered' /\ Recovered'
    BY <1>1, <2>1, <2>3, <2>4 DEF Covered, Recovered
  <2>7. AnswerOK'
    BY <1>1, <2>1, AnswerKept
  <2> QED
    BY <1>3, <2>2, <2>3, <2>5, <2>6, <2>7 DEF Inv
<1>5. CASE ~ (started /\ config \cap {"eliminate", "factor"} # {})
  <2>1. chosen = {} /\ records = << >>
    BY <1>1, <1>5 DEF QueryOK
  <2>2. Adds(c)
    BY <1>2, <1>5, <2>1, AddClauseShape
  <2>3. /\ inputs' = inputs \cup {c} /\ answer' = NoAnswer
        /\ root' \in SUBSET Lit /\ consistent' \in BOOLEAN /\ (consistent' => consistent)
        /\ Known \subseteq Known' /\ Known' \subseteq Known \cup c \cup Literals(db)
        /\ consistent => \A m \in Complete : c \cap m # {} => consistent' /\ m \in Complete'
        /\ consistent' => \A m \in Complete' : m \in Complete /\ c \cap m # {}
    BY <2>2 DEF Adds
  <2>4. PICK N \in SUBSET {c} : Changes(db, db', {}, N) /\ \A e \in N : ~ Tautology(e)
    BY <2>2 DEF Adds
  <2>5. TypeOK'
    BY <1>1, <1>3, <2>3, <2>4 DEF TypeOK, Changes, Store
  <2>6. QueryOK'
    BY <1>1 DEF QueryOK
  <2>7. NoTautology'
    BY <1>1, <2>4, TautologyKept
  <2>8. FreshOK'
    <3>1. \A l \in Known' \cup UNION N : VarOf(l) \in Mentioned \cup External
      BY <2>3 DEF Mentioned, ClientLit
    <3> QED
      BY <1>1, <2>4, <3>1, FreshKept
  <2>9. /\ Kept = ClientLit /\ Kept' = Kept
    BY <1>1, <2>1 DEF Kept, ClientLit
  <2>10. Covered'
    <3> SUFFICES ASSUME NEW m \in ModelsOf(inputs')
                 PROVE  consistent' /\ \E n \in Complete' : m \cap Kept' = n \cap Kept'
      BY DEF Covered
    <3>1. m \in ModelsOf(inputs) /\ c \cap m # {}
      BY <2>3 DEF ModelsOf, Satisfies
    <3>2. consistent /\ \E n \in Complete : m \cap Kept = n \cap Kept
      BY <1>1, <3>1 DEF Covered
    <3>3. PICK n \in Complete : m \cap Kept = n \cap Kept
      BY <3>2
    <3>4. c \cap n # {}
      BY <2>9, <3>1, <3>3
    <3> QED
      BY <2>3, <2>9, <3>2, <3>3, <3>4
  <2>11. Recovered'
    <3> SUFFICES ASSUME consistent', NEW m \in Complete'
                 PROVE  UndoneRight(m)'
      BY DEF Recovered
    <3>1. m \in Complete /\ c \cap m # {}
      BY <2>3
    <3>2. Extended(m, << >>) = m
      BY <1>1, <3>1, CompleteFacts, Typed, ExtendedFacts
    <3>3. m \in Model /\ Satisfies(m, inputs)
      BY <1>1, <2>1, <2>3, <3>1, <3>2, CompleteFacts DEF Recovered, UndoneRight
    <3>4. records' = << >> /\ DOMAIN records' = {}
      BY <1>1, <2>1
    <3> QED
      BY <2>3, <3>1, <3>2, <3>3, <3>4 DEF UndoneRight, Satisfies
  <2>12. AnswerOK'
    BY <2>3 DEF AnswerOK, NoAnswer
  <2> QED
    BY <1>3, <2>5, <2>6, <2>7, <2>8, <2>10, <2>11, <2>12 DEF Inv
<1> QED
  BY <1>4, <1>5

-----------------------------------------------------------------------------
(***************************************************************************)
(* The invariant, and what it says of the properties the runs check.       *)
(***************************************************************************)

\* A new solver has no clauses, and any model will do.
LEMMA InitInv == Init => Inv
<1> SUFFICES ASSUME Init PROVE Inv
  OBVIOUS
<1>1. /\ client \in Seq(Call)
      /\ inputs = {} /\ db = << >> /\ root = {} /\ chosen = {} /\ records = << >>
      /\ consistent = TRUE /\ started = FALSE /\ stage = 0 /\ assumed = {}
      /\ answer = NoAnswer
  BY ScenarioAssumption DEF Init
<1>2. DOMAIN db = {} /\ DOMAIN records = {}
  BY <1>1
<1>3. TypeOK /\ QueryOK /\ ScheduleOK
  <2>1. db \in Seq(Row) /\ records \in Seq(Record)
    BY <1>1
  <2>2. TypeOK
    <3>1. inputs \in SUBSET (SUBSET ClientLit) /\ assumed \in SUBSET ClientLit
      BY <1>1
    <3>2. root \in SUBSET Lit /\ chosen \in SUBSET Var /\ stage \in 0 .. 7
      BY <1>1
    <3>3. consistent \in BOOLEAN /\ started \in BOOLEAN
      BY <1>1
    <3> QED
      BY <1>1, <2>1, <3>1, <3>2, <3>3 DEF TypeOK
  <2>3. QueryOK /\ ScheduleOK
    BY <1>1 DEF QueryOK, ScheduleOK
  <2> QED
    BY <2>2, <2>3
<1>4. NoTautology /\ Literals(db) = {} /\ Known = {} /\ Live(db) = {}
  BY <1>1, <1>2 DEF NoTautology, Literals, Known, Live
<1>5. FreshOK
  BY <1>4 DEF FreshOK, Mentioned
<1>6. LiveClauses(db) = {} /\ Complete = Model /\ ModelsOf(inputs) = Model
  BY <1>1, <1>4 DEF LiveClauses, Complete, ModelsOf, Satisfies
<1>7. Covered
  BY <1>1, <1>6 DEF Covered
<1>8. Recovered
  <2> SUFFICES ASSUME NEW m \in Model PROVE UndoneRight(m)
    BY <1>6 DEF Recovered
  <2>1. Extended(m, << >>) = m
    BY <1>3, Typed, ExtendedFacts DEF Model
  <2> QED
    BY <1>1, <1>2, <2>1 DEF UndoneRight, Satisfies
<1>9. AnswerOK
  BY <1>1 DEF AnswerOK, NoAnswer
<1> QED
  BY <1>3, <1>4, <1>5, <1>7, <1>8, <1>9 DEF Inv

\* Every step keeps the invariant.
LEMMA StepInv == Inv /\ [Next]_vars => Inv'
<1> SUFFICES ASSUME Inv, [Next]_vars PROVE Inv'
  OBVIOUS
<1>1. CASE Next
  BY <1>1, AddClauseInv, SolveInv, NextPassInv, RootConflictInv, SearchInv, ProbeInv, VivifyInv,
     SubsumeInv, EliminateInv, FactorInv, FactorAgainInv DEF Next
<1>2. CASE UNCHANGED vars
  <2>1. UNCHANGED <<config, client, inputs, db, root, chosen, records, consistent, started,
                    stage, todo, assumed, answer>>
    BY <1>2 DEF vars
  <2>2. /\ TypeOK' /\ QueryOK' /\ NoTautology' /\ Known' = Known /\ Kept' = Kept
        /\ \A m : UndoneRight(m)' <=> UndoneRight(m)
    BY <2>1 DEF Inv, TypeOK, QueryOK, NoTautology, Known, Kept, UndoneRight
  <2>3. Complete' = Complete /\ ModelsOf(inputs)' = ModelsOf(inputs)
    BY <2>1, <2>2 DEF Complete, ModelsOf
  <2>4. FreshOK'
    BY <2>1, <2>2 DEF Inv, FreshOK, UnusedFresh, Mentioned, Literals
  <2>5. Covered' /\ Recovered'
    BY <2>1, <2>2, <2>3 DEF Inv, Covered, Recovered
  <2>6. ScheduleOK'
    <3>1. \A p : PlanOK(p) => PlanOK(p)'
      BY <2>1, <2>2, PlanKept
    <3> QED
      BY <2>1, <3>1 DEF Inv, ScheduleOK, Live
  <2>7. AnswerOK'
    BY <2>1, AnswerKept DEF Inv
  <2> QED
    BY <2>2, <2>4, <2>5, <2>6, <2>7 DEF Inv
<1> QED
  BY <1>1, <1>2

\* In every state the clause store has the models of the client's clauses, up
\* to the eliminated variables, and the answer says what is true.
THEOREM Invariance == Spec => []Inv
<1> QED
  BY InitInv, StepInv, PTL DEF Spec

\* No pass, and no later clause, loses a model of the client's clauses.
THEOREM ModelsKept == Spec => []NothingLost
<1>1. Inv => NothingLost
  <2> SUFFICES ASSUME Inv, NEW m \in ModelsOf(inputs)
               PROVE  m \cap Kept \in {k \cap Kept : k \in {n \in ModelsOf(LiveClauses(db)) : root \subseteq n}}
    BY DEF NothingLost
  <2>1. PICK n \in Complete : m \cap Kept = n \cap Kept
    BY DEF Inv, Covered
  <2>2. n \in ModelsOf(LiveClauses(db)) /\ root \subseteq n
    BY DEF Complete, ModelsOf, Known
  <2> QED
    BY <2>1, <2>2
<1> QED
  BY <1>1, Invariance, PTL

\* No pass lets a model in that extend_model does not make one of the client's
\* clauses, or on which two records of the elimination disagree.
THEOREM ModelsRecovered == Spec => []NothingGained
<1>1. Inv => NothingGained
  BY DEF Inv, NothingGained, Recovered, UndoneRight
<1> QED
  BY <1>1, Invariance, PTL

\* The model of a satisfiable answer is one of the client's clauses, whatever
\* the passes did; and a query none of whose assumptions was eliminated gets
\* the answer that solve_assuming promises, model or core.
THEOREM QueriesRight ==
  Spec => [](/\ answer.kind = "sat" => answer.model \in ModelsOf(inputs)
             /\ assumed \subseteq Kept => AnswersRight /\ AssumptionsHonoured)
<1>1. Inv => /\ answer.kind = "sat" => answer.model \in ModelsOf(inputs)
             /\ assumed \subseteq Kept => AnswersRight /\ AssumptionsHonoured
  BY DEF Inv, AnswerOK, ModelsOf, AnswersRight, AssumptionsHonoured
<1> QED
  BY <1>1, Invariance, PTL

\* A client that asks for elimination and never assumes anything.
NothingAssumed ==
  "eliminate" \in config =>
    assumed = {} /\ \A i \in DOMAIN client : client[i].op = "solve" => client[i].assume = {}

\* How a step serves the client's calls: in their order, each once.
LEMMA CallServed ==
  ASSUME Inv, [Next]_vars
  PROVE  /\ config' = config
         /\ client' = client \/ (client # << >> /\ client' = Tail(client))
         /\ \/ assumed' = assumed
            \/ client # << >> /\ Head(client).op = "solve" /\ assumed' = Head(client).assume
<1>1. stage # 0 => client # << >>
  BY DEF Inv, QueryOK
<1>2. CASE AddClause \/ Solve \/ NextPass
  BY <1>2 DEF AddClause, Solve, NextPass
<1>3. CASE RootConflict
  BY <1>1, <1>3 DEF RootConflict
<1>4. CASE Search
  BY <1>1, <1>4 DEF Search, Pass, Passes
<1>5. CASE Probe \/ Vivify \/ Subsume \/ Eliminate
  BY <1>5 DEF Probe, Vivify, Subsume, Eliminate
<1>6. CASE Factor \/ FactorAgain
  BY <1>6 DEF Factor, FactorAgain
<1>7. CASE UNCHANGED vars
  BY <1>7 DEF vars
<1> QED
  BY <1>2, <1>3, <1>4, <1>5, <1>6, <1>7 DEF Next

\* All answers are right for a client that does not eliminate variables, or
\* does so and makes no assumptions.
THEOREM AnswersAlwaysRight ==
  ASSUME \A s \in Scenarios : "eliminate" \in s.config =>
           \A i \in DOMAIN s.calls : s.calls[i].op = "solve" => s.calls[i].assume = {}
  PROVE  Spec => []AnswersRight
<1>1. Init => NothingAssumed
  BY DEF Init, NothingAssumed
<1>2. Inv /\ NothingAssumed /\ [Next]_vars => NothingAssumed'
  <2> SUFFICES ASSUME Inv, NothingAssumed, [Next]_vars, "eliminate" \in config'
               PROVE  /\ assumed' = {}
                      /\ \A i \in DOMAIN client' : client'[i].op = "solve" => client'[i].assume = {}
    BY DEF NothingAssumed
  <2>1. /\ config' = config
        /\ client' = client \/ (client # << >> /\ client' = Tail(client))
        /\ \/ assumed' = assumed
           \/ client # << >> /\ Head(client).op = "solve" /\ assumed' = Head(client).assume
    BY CallServed
  <2>2. /\ client \in Seq(Call) /\ assumed = {}
        /\ \A i \in DOMAIN client : client[i].op = "solve" => client[i].assume = {}
    BY <2>1 DEF Inv, TypeOK, NothingAssumed
  <2>3. client # << >> => 1 \in DOMAIN client /\ Head(client) = client[1]
    BY <2>2
  <2>4. client # << >> => \A i \in DOMAIN Tail(client) :
                            i + 1 \in DOMAIN client /\ Tail(client)[i] = client[i + 1]
    BY <2>2
  <2>5. assumed' = {}
    BY <2>1, <2>2, <2>3
  <2>6. CASE client' = client
    BY <2>2, <2>5, <2>6
  <2>7. CASE client # << >> /\ client' = Tail(client)
    BY <2>2, <2>4, <2>5, <2>7
  <2> QED
    BY <2>1, <2>6, <2>7
<1>3. Inv /\ NothingAssumed => AnswersRight
  <2> SUFFICES ASSUME Inv, NothingAssumed PROVE assumed \subseteq Kept
    BY DEF Inv, AnswerOK, AnswersRight
  <2>1. CASE "eliminate" \in config
    BY <2>1 DEF NothingAssumed
  <2>2. CASE "eliminate" \notin config
    BY <2>2 DEF Inv, TypeOK, QueryOK, Kept, ClientLit
  <2> QED
    BY <2>1, <2>2
<1> QED
  BY <1>1, <1>2, <1>3, Invariance, PTL DEF Spec

=============================================================================
