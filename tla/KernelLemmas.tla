---------------------------- MODULE KernelLemmas ----------------------------
(***************************************************************************)
(* Facts about the operators module Kernel is built from, and about what   *)
(* each step does to the clauses and to the lists of their watches.  The   *)
(* analyses are resolution: the clause that analyze() and                  *)
(* minimize_learned_clause leave of a conflict follows from it and the     *)
(* reasons on the trail, and so does the blame that                        *)
(* analyze_failed_assumption puts on the decisions.                        *)
(***************************************************************************)
EXTENDS KernelInvariant, FiniteSetTheorems, SequenceTheorems, WellFoundedInduction, TLAPS

\* A nonempty set of natural numbers has a least element.
LEMMA LeastNat ==
  ASSUME NEW T \in SUBSET Nat, T # {}
  PROVE  \E x \in T : \A y \in T : x <= y
<1> DEFINE R == OpToRel(<, Nat)
<1>1. IsWellFoundedOn(R, Nat)
  BY NatLessThanWellFounded
<1>2. \A y, x \in Nat : <<y, x>> \in R <=> y < x
  BY DEF OpToRel
<1> HIDE DEF R
<1>3. PICK x \in T : \A y \in T : <<y, x>> \notin R
  BY <1>1, WFMin
<1>4. \A y \in T : ~ (y < x)
  BY <1>2, <1>3
<1> QED
  BY <1>4

IsStep(step, n, S) == step \in [1 .. n -> [S -> S]]
IsChain(g, n, S, a, step) == /\ g \in [0 .. n -> S] /\ g[n] = a
                             /\ \A i \in 0 .. n - 1 : g[i] = step[i + 1][g[i + 1]]

\* A function may be defined from the last position of a sequence backwards.
LEMMA BackwardRecursion ==
  ASSUME NEW n \in Nat, NEW S, NEW a \in S, NEW step, IsStep(step, n, S)
  PROVE  \E g : IsChain(g, n, S, a, step)
<1> USE DEF IsStep, IsChain
<1> DEFINE From(m) == \E g \in [n - m .. n -> S] :
             /\ g[n] = a
             /\ \A i \in n - m .. n - 1 : g[i] = step[i + 1][g[i + 1]]
<1> DEFINE T == {m \in 0 .. n : ~ From(m)}
<1>1. CASE T = {}
  <2>1. From(n)
    <3> HIDE DEF From
    <3> QED
      BY <1>1
  <2>2. n - n = 0
    OBVIOUS
  <2> QED
    BY <2>1, <2>2
<1>2. CASE T # {}
  <2>1. PICK m \in T : \A k \in T : m <= k
    <3> HIDE DEF From
    <3>1. T \in SUBSET Nat
      OBVIOUS
    <3> HIDE DEF T
    <3> QED
      BY <1>2, <3>1, LeastNat
  <2>2. m # 0
    <3>1. [i \in n .. n |-> a] \in [n - 0 .. n -> S]
      OBVIOUS
    <3>2. From(0)
      <4> WITNESS [i \in n .. n |-> a] \in [n - 0 .. n -> S]
      <4> QED
        OBVIOUS
    <3> QED
      BY <3>2
  <2>3. m - 1 \in 0 .. n /\ m - 1 \notin T
    <3> HIDE DEF From
    <3> QED
      BY <2>1, <2>2
  <2>4. From(m - 1)
    <3> HIDE DEF From
    <3> QED
      BY <2>3
  <2>5. PICK g \in [n - (m - 1) .. n -> S] :
             /\ g[n] = a
             /\ \A i \in n - (m - 1) .. n - 1 : g[i] = step[i + 1][g[i + 1]]
    BY <2>4
  <2> DEFINE h == [i \in n - m .. n |-> IF i = n - m THEN step[i + 1][g[i + 1]] ELSE g[i]]
  <2>6. n - m + 1 = n - (m - 1) /\ n - m + 1 \in 1 .. n
    BY <2>1, <2>2
  <2>7. step[n - m + 1][g[n - m + 1]] \in S
    <3>1. g[n - m + 1] \in S
      BY <2>5, <2>6
    <3> QED
      BY <3>1, <2>6
  <2>8. h \in [n - m .. n -> S]
    BY <2>6, <2>7
  <2>9. h[n] = a
    BY <2>1, <2>2, <2>5
  <2>10. \A i \in n - m .. n - 1 : h[i] = step[i + 1][h[i + 1]]
    BY <2>1, <2>2, <2>5
  <2>11. From(m)
    BY <2>8, <2>9, <2>10
  <2> QED
    BY <2>1, <2>11
<1> QED
  BY <1>1, <1>2

-----------------------------------------------------------------------------
(***************************************************************************)
(* Literals, clauses and assignments.                                      *)
(***************************************************************************)

\* Complements, and the variable both have.
LEMMA NegLit ==
  ASSUME NEW l \in Lit
  PROVE  /\ Neg(l) \in Lit /\ Neg(Neg(l)) = l /\ Neg(l) # l
         /\ VarOf(l) \in Var /\ VarOf(Neg(l)) = VarOf(l)
         /\ l \in Int /\ l # 0
BY VarAssumption DEF Lit, Neg, VarOf

\* Literals of one variable are equal or complementary.
LEMMA SameVar ==
  ASSUME NEW k \in Lit, NEW l \in Lit, VarOf(k) = VarOf(l)
  PROVE  k = l \/ k = Neg(l)
BY VarAssumption DEF Lit, Neg, VarOf

\* A variable is a literal, and so is its complement.
LEMMA VarLit ==
  ASSUME NEW v \in Var
  PROVE  v \in Lit /\ Neg(v) \in Lit /\ VarOf(v) = v /\ v \in Nat /\ v > 0
BY VarAssumption DEF Lit, Neg, VarOf

\* There are finitely many literals.
LEMMA LitFinite == IsFiniteSet(Lit)
<1> DEFINE f == [v \in Var |-> -v]
           Negative == {-v : v \in Var}
<1>1. f \in Surjection(Var, Negative)
  BY DEF Surjection
<1>2. IsFiniteSet(Var)
  BY NumberingAssumption
<1>3. IsFiniteSet(Negative)
  BY <1>1, <1>2, FS_Surjection
<1> QED
  BY <1>2, <1>3, FS_Union DEF Lit

\* Any set of literals is finite.
LEMMA ClauseFinite ==
  ASSUME NEW c \in SUBSET Lit
  PROVE  IsFiniteSet(c) /\ Cardinality(c) \in Nat
BY LitFinite, FS_Subset, FS_CardinalityType

\* The least of two numbers.
LEMMA MinOfTwo ==
  ASSUME NEW a \in Nat, NEW b \in Nat
  PROVE  /\ Min({a, b}) \in {a, b} /\ Min({a, b}) <= a /\ Min({a, b}) <= b
<1>1. \E x \in {a, b} : \A y \in {a, b} : x <= y
  <2>1. CASE a <= b
    BY <2>1
  <2>2. CASE b < a
    BY <2>2
  <2> QED
    BY <2>1, <2>2
<1>2. Min({a, b}) \in {a, b} /\ \A y \in {a, b} : Min({a, b}) <= y
  BY <1>1 DEF Min
<1> QED
  BY <1>2

\* Variables are bounded by their number.
LEMMA VarBound ==
  ASSUME NEW v \in Var
  PROVE  v \in Nat /\ v <= Cardinality(Var)
<1>1. v \in Nat /\ 1 .. v \in SUBSET Var /\ IsFiniteSet(Var)
  BY VarAssumption, NumberingAssumption
<1>2. Cardinality(1 .. v) = v
  BY <1>1, FS_Interval
<1>3. Cardinality(1 .. v) <= Cardinality(Var)
  BY <1>1, FS_Subset
<1> QED
  BY <1>1, <1>2, <1>3

\* A bounded set of numbers has a greatest one.
LEMMA MaxIn ==
  ASSUME NEW T \in SUBSET Nat, NEW n \in Nat, \A x \in T : x <= n, T # {}
  PROVE  Max(T) \in T /\ \A y \in T : y <= Max(T)
<1> DEFINE D == {m \in Nat : \A x \in T : x <= m}
<1>2. D \in SUBSET Nat /\ n \in D
  OBVIOUS
<1>3. PICK m \in D : \A k \in D : m <= k
  <2> HIDE DEF D
  <2> QED
    BY <1>2, LeastNat
<1>4. m \in T
  <2>1. SUFFICES ASSUME m \notin T PROVE FALSE
    OBVIOUS
  <2>2. \A x \in T : x < m
    BY <1>3, <2>1
  <2>3. m - 1 \in D
    <3>1. PICK x \in T : x < m
      BY <2>2
    <3>2. m \in Nat /\ m - 1 \in Nat
      BY <1>3, <3>1
    <3>3. \A y \in T : y <= m - 1
      BY <2>2, <3>2
    <3> QED
      BY <3>2, <3>3
  <2> QED
    BY <1>3, <2>3
<1>5. \E x \in T : \A y \in T : x >= y
  BY <1>3, <1>4
<1>6. Max(T) \in T /\ \A y \in T : Max(T) >= y
  BY <1>5 DEF Max
<1> QED
  BY <1>6

\* The sequences of a set list each member once.
LEMMA ListsSet ==
  ASSUME NEW c \in SUBSET Lit, NEW s \in SetToSeqs(c)
  PROVE  /\ s \in Seq(Lit) /\ Len(s) = Cardinality(c) /\ Len(s) \in Nat
         /\ \A i, j \in 1 .. Len(s) : s[i] = s[j] => i = j
         /\ \A i \in 1 .. Len(s) : s[i] \in c
         /\ \A l \in c : \E i \in 1 .. Len(s) : s[i] = l
         /\ Range(s) = c
<1> DEFINE n == Cardinality(c)
<1>1. n \in Nat /\ IsFiniteSet(c)
  BY ClauseFinite
<1>2. s \in [1 .. n -> c] /\ \A i, j \in 1 .. n : i # j => s[i] # s[j]
  BY DEF SetToSeqs
<1>3. s \in Seq(Lit) /\ Len(s) = n
  BY <1>1, <1>2
<1>4. Range(s) = {s[i] : i \in 1 .. n}
  BY <1>2 DEF Range
<1>5. Range(s) = c
  <2>1. s \in Surjection(1 .. n, Range(s)) /\ s \in Injection(1 .. n, Range(s))
    BY <1>2, <1>4 DEF Surjection, Injection, IsInjective
  <2>2. s \in Bijection(1 .. n, Range(s))
    BY <2>1 DEF Bijection
  <2>3. IsFiniteSet(1 .. n) /\ Cardinality(1 .. n) = n
    BY <1>1, FS_Interval
  <2>4. Cardinality(Range(s)) = n
    BY <2>2, <2>3, FS_Bijection DEF ExistsBijection
  <2>5. Range(s) \subseteq c
    BY <1>2, <1>4
  <2> QED
    BY <1>1, <2>4, <2>5, FS_Subset
<1> QED
  BY <1>2, <1>3, <1>4, <1>5
-----------------------------------------------------------------------------
\* What the types say of an assignment.
LEMMA EntryFields ==
  ASSUME TypeOK, NEW i \in Positions
  PROVE  /\ trail[i].lit \in Lit /\ trail[i].lev \in Nat /\ trail[i].rsn \in Nat
         /\ i \in Nat /\ 1 <= i /\ i <= Len(trail) /\ Len(trail) \in Nat
<1>1. trail \in Seq(Assignment) /\ i \in 1 .. Len(trail)
  BY DEF TypeOK, TrailType, Positions
<1>2. trail[i] \in Assignment
  BY <1>1
<1> QED
  BY <1>1, <1>2 DEF Assignment

\* What the types say of a clause.
LEMMA ClauseFields ==
  ASSUME TypeOK, NEW r \in Refs
  PROVE  /\ clauses[r] \in ClauseRecord
         /\ clauses[r].lits \in Seq(Lit) /\ Len(clauses[r].lits) \in Nat
         /\ Len(clauses[r].lits) > 1
         /\ \A i, j \in 1 .. Len(clauses[r].lits) :
              clauses[r].lits[i] = clauses[r].lits[j] => i = j
         /\ \A i \in 1 .. Len(clauses[r].lits) :
              clauses[r].lits[i] \in LitsOf(r) /\ clauses[r].lits[i] \in Lit
         /\ \A l \in LitsOf(r) : \E i \in 1 .. Len(clauses[r].lits) : clauses[r].lits[i] = l
         /\ LitsOf(r) \in SUBSET Lit
         /\ clauses[r].learned \in BOOLEAN /\ clauses[r].deleted \in BOOLEAN
<1>1. clauses \in Seq(ClauseRecord) /\ r \in 1 .. Len(clauses)
  BY DEF TypeOK, DatabaseType, Refs
<1>2. clauses[r] \in ClauseRecord
  BY <1>1
<1> DEFINE s == clauses[r].lits
<1>3. /\ s \in Seq(Lit) /\ Len(s) > 1 /\ IsInjective(s)
      /\ clauses[r].learned \in BOOLEAN /\ clauses[r].deleted \in BOOLEAN
  BY <1>2 DEF ClauseRecord, Disjunction
<1>4. DOMAIN s = 1 .. Len(s) /\ Len(s) \in Nat /\ \A i \in 1 .. Len(s) : s[i] \in Lit
  BY <1>3
<1>5. LitsOf(r) = {s[i] : i \in 1 .. Len(s)}
  BY <1>4 DEF LitsOf, Range
<1>6. \A i, j \in 1 .. Len(s) : s[i] = s[j] => i = j
  BY <1>3, <1>4 DEF IsInjective
<1> QED
  BY <1>2, <1>3, <1>4, <1>5, <1>6

\* The watched literals are two literals of the clause.
LEMMA WatchedFields ==
  ASSUME TypeOK, NEW r \in Refs
  PROVE  /\ Watched(r) \subseteq LitsOf(r) /\ Watched(r) \subseteq Lit
         /\ clauses[r].lits[1] # clauses[r].lits[2]
<1>1. 1 \in 1 .. Len(clauses[r].lits) /\ 2 \in 1 .. Len(clauses[r].lits)
  BY ClauseFields
<1> QED
  BY <1>1, ClauseFields DEF Watched

\* A variable is found where it is assigned.
LEMMA EntryOf ==
  ASSUME TypeOK, TrailOK, NEW i \in Positions, NEW l, VarOf(trail[i].lit) = VarOf(l)
  PROVE  Entry(l) = i /\ LevelOf(l) = trail[i].lev
<1>1. \A j \in Positions : VarOf(trail[j].lit) = VarOf(l) => j = i
  BY DEF TrailOK
<1>2. Entry(l) = i
  BY <1>1 DEF Entry, Positions
<1> QED
  BY <1>2 DEF LevelOf

\* A false literal is false at one place, and not true.
LEMMA FalseFacts ==
  ASSUME TypeOK, TrailOK, NEW l \in Lit, NEW i, FalseAt(l, i)
  PROVE  /\ IsFalse(l) /\ ~IsTrue(l) /\ Entry(l) = i /\ LevelOf(l) = trail[i].lev
         /\ \A j : FalseAt(l, j) => j = i
<1>1. i \in Positions /\ trail[i].lit = Neg(l)
  BY DEF FalseAt
<1>2. IsFalse(l)
  BY <1>1 DEF IsFalse, IsTrue, Positions
<1>3. VarOf(trail[i].lit) = VarOf(l)
  BY <1>1, NegLit
<1>4. Entry(l) = i /\ LevelOf(l) = trail[i].lev
  BY <1>1, <1>3, EntryOf
<1>5. \A j : FalseAt(l, j) => j = i
  BY <1>1 DEF TrailOK, FalseAt
<1>6. ~IsTrue(l)
  <2>1. SUFFICES ASSUME NEW j \in Positions, trail[j].lit = l PROVE FALSE
    BY DEF IsTrue, Positions
  <2>2. VarOf(trail[j].lit) = VarOf(trail[i].lit)
    BY <1>3, <2>1
  <2>3. j = i
    BY <1>1, <2>2 DEF TrailOK
  <2> QED
    BY <1>1, <2>1, <2>3, NegLit
<1> QED
  BY <1>2, <1>4, <1>5, <1>6

\* A literal is false when it is false somewhere.
LEMMA FalseSomewhere ==
  ASSUME NEW l
  PROVE  IsFalse(l) <=> \E i \in Positions : FalseAt(l, i)
BY DEF IsFalse, IsTrue, FalseAt, Positions
-----------------------------------------------------------------------------
(***************************************************************************)
(* Conflict analysis.                                                      *)
(***************************************************************************)

\* FirstUip is the end of a sequence of resolvents.
LEMMA UipSteps ==
  ASSUME trail \in Seq(Assignment)
  PROVE  \E res : /\ FirstUip = res[0]
                  /\ res[Len(trail)] = NonRoot(LitsOf(conflict))
                  /\ \A i \in 0 .. Len(trail) - 1 : LET e == trail[i + 1] IN res[i] =
                       IF Neg(e.lit) \in res[i + 1] /\ Cardinality(Current(res[i + 1])) > 1
                       THEN (res[i + 1] \ {Neg(e.lit)}) \cup NonRoot(LitsOf(e.rsn) \ {e.lit})
                       ELSE res[i + 1]
<1> DEFINE n == Len(trail)
           U == LitsOf(conflict) \cup UNION {LitsOf(trail[j].rsn) : j \in 1 .. n}
           Step(e, x) == IF Neg(e.lit) \in x /\ Cardinality(Current(x)) > 1
                         THEN (x \ {Neg(e.lit)}) \cup NonRoot(LitsOf(e.rsn) \ {e.lit})
                         ELSE x
           step == [j \in 1 .. n |-> [x \in SUBSET U |-> Step(trail[j], x)]]
           IsRes(g) == g = [i \in 0 .. n |-> IF i = n THEN NonRoot(LitsOf(conflict))
                                             ELSE Step(trail[i + 1], g[i + 1])]
<1>1. n \in Nat
  OBVIOUS
<1>2. NonRoot(LitsOf(conflict)) \in SUBSET U
  BY DEF NonRoot
<1>3. \A j \in 1 .. n, x \in SUBSET U : Step(trail[j], x) \in SUBSET U
  BY DEF NonRoot
<1>4. step \in [1 .. n -> [SUBSET U -> SUBSET U]]
  BY <1>3
<1>5. PICK g \in [0 .. n -> SUBSET U] :
         /\ g[n] = NonRoot(LitsOf(conflict))
         /\ \A i \in 0 .. n - 1 : g[i] = step[i + 1][g[i + 1]]
  <2> DEFINE S == SUBSET U
             a == NonRoot(LitsOf(conflict))
  <2>1. n \in Nat /\ a \in S /\ IsStep(step, n, S)
    BY <1>1, <1>2, <1>4 DEF IsStep
  <2> HIDE DEF S, a, step, n
  <2>2. PICK g : IsChain(g, n, S, a, step)
    BY <2>1, BackwardRecursion
  <2> QED
    BY <2>2 DEF S, a, IsChain
<1>6. \A i \in 0 .. n - 1 : g[i] = Step(trail[i + 1], g[i + 1])
  <2> SUFFICES ASSUME NEW i \in 0 .. n - 1 PROVE g[i] = Step(trail[i + 1], g[i + 1])
    OBVIOUS
  <2>1. i + 1 \in 1 .. n /\ g[i + 1] \in SUBSET U
    BY <1>1, <1>5
  <2>2. \A x \in SUBSET U : step[i + 1][x] = Step(trail[i + 1], x)
    <3> HIDE DEF U, Step
    <3> QED
      BY <2>1
  <2> QED
    BY <1>5, <2>1, <2>2
<1>7. IsRes(g)
  <2> HIDE DEF U, step, Step
  <2>1. \A i \in 0 .. n : g[i] = IF i = n THEN NonRoot(LitsOf(conflict))
                                 ELSE Step(trail[i + 1], g[i + 1])
    BY <1>1, <1>5, <1>6
  <2> QED
    BY <1>5, <2>1
<1> DEFINE res == CHOOSE r : IsRes(r)
<1>8. IsRes(res)
  BY <1>7
<1>9. FirstUip = res[0]
  BY DEF FirstUip
<1>10. /\ res[n] = NonRoot(LitsOf(conflict))
       /\ \A i \in 0 .. n - 1 : res[i] = Step(trail[i + 1], res[i + 1])
  <2> HIDE DEF res, Step
  <2> QED
    BY <1>1, <1>8
<1> QED
  BY <1>9, <1>10
\* The literals analysis works with: false, and not at the root.
Blamed == {l \in Lit : IsFalse(l) /\ LevelOf(l) > 0}

\* The literals of a conflict clause or of a reason that analysis keeps.
LEMMA BlamedFacts ==
  ASSUME TypeOK, TrailOK, NEW l \in Blamed
  PROVE  /\ l \in Lit /\ Entry(l) \in Positions /\ FalseAt(l, Entry(l))
         /\ LevelOf(l) = trail[Entry(l)].lev /\ LevelOf(l) \in 1 .. Level
<1>1. PICK i \in Positions : FalseAt(l, i)
  BY FalseSomewhere DEF Blamed
<1>2. Entry(l) = i /\ LevelOf(l) = trail[i].lev
  BY <1>1, FalseFacts DEF Blamed
<1>3. trail[i].lev <= Level /\ trail[i].lev \in Nat /\ Level \in Nat
  BY EntryFields DEF TrailOK, TypeOK, TrailType, Level
<1> QED
  BY <1>1, <1>2, <1>3 DEF Blamed

\* Before position i is looked at, the resolvent x is false, involves the
\* current level, and has nothing left to resolve beyond i.
Resolvent(x, i) ==
  /\ x \subseteq Blamed /\ Current(x) # {}
  /\ Cardinality(Current(x)) > 1 => \A l \in Current(x) : Entry(l) <= i

\* A set of literals with more than one member has a member besides any other.
LEMMA Another ==
  ASSUME NEW c \in SUBSET Lit, Cardinality(c) > 1, NEW k
  PROVE  \E l \in c : l # k
<1> SUFFICES ASSUME c \subseteq {k} PROVE FALSE
  OBVIOUS
<1>1. IsFiniteSet({k}) /\ Cardinality({k}) = 1
  BY FS_Singleton
<1>2. Cardinality(c) <= 1 /\ Cardinality(c) \in Nat
  BY <1>1, FS_Subset, ClauseFinite
<1> QED
  BY <1>2

\* A blamed literal is known by its position.
LEMMA BlamedAt ==
  ASSUME TypeOK, TrailOK, NEW l \in Blamed, NEW j \in Positions
  PROVE  l \in Lit /\ Entry(l) \in Nat /\ (Entry(l) = j => l = Neg(trail[j].lit))
<1>1. l \in Lit /\ Entry(l) \in Positions /\ FalseAt(l, Entry(l))
  BY BlamedFacts
<1> QED
  BY <1>1, NegLit DEF FalseAt, Positions

\* A literal is resolved away while another of its level is left: it is implied.
LEMMA ResolvedReason ==
  ASSUME TypeOK, TrailOK, ReasonsOK, Level > 0,
         NEW i \in 0 .. Len(trail) - 1, NEW x, Resolvent(x, i + 1),
         NEW j, j = i + 1, Neg(trail[j].lit) \in x, Cardinality(Current(x)) > 1
  PROVE  /\ j \in Positions /\ Explained(j)
         /\ \E l \in Current(x) : l # Neg(trail[j].lit) /\ l \in x /\ Entry(l) < j
<1> DEFINE e == trail[j]
<1>1. j \in Positions /\ j \in Nat /\ i \in Nat /\ e.lit \in Lit /\ e.rsn \in Nat /\ e.lev \in Nat
  BY EntryFields DEF TypeOK, TrailType, Positions
<1>2. x \in SUBSET Lit /\ Current(x) \in SUBSET Lit
  BY DEF Resolvent, Blamed, Current
<1>3. \A l \in x : l \in Lit /\ Entry(l) \in Nat /\ (Entry(l) = j => l = Neg(e.lit))
  BY <1>1, BlamedAt DEF Resolvent
<1>4. PICK l \in Current(x) : l # Neg(e.lit)
  BY <1>2, Another
<1>5. l \in x /\ LevelOf(l) = Level /\ Entry(l) < j
  BY <1>1, <1>3, <1>4 DEF Resolvent, Current
<1>6. /\ Entry(l) \in Positions /\ trail[Entry(l)].lev = Level /\ Level \in Nat
      /\ limits[Level] \in Nat
  <2>1. Entry(l) \in Positions /\ trail[Entry(l)].lev = Level
    BY <1>5, BlamedFacts DEF Resolvent
  <2>2. limits \in Seq(Nat) /\ Level = Len(limits)
    BY DEF TypeOK, TrailType, Level
  <2> QED
    BY <2>1, <2>2
<1>7. Level \in 1 .. Level
  BY <1>6
<1>8. limits[Level] < Entry(l)
  BY <1>6, <1>7 DEF TrailOK
<1>9. limits[Level] < j /\ j # limits[Level] + 1
  BY <1>1, <1>5, <1>6, <1>8 DEF Positions
<1>10. e.lev = Level
  BY <1>1, <1>6, <1>7, <1>9 DEF TrailOK
<1>11. Explained(j)
  BY <1>1, <1>9, <1>10 DEF ReasonsOK
<1> QED
  BY <1>1, <1>4, <1>5, <1>11

\* One step backwards along the trail.
LEMMA ResolveStep ==
  ASSUME TypeOK, TrailOK, ReasonsOK, Level > 0,
         NEW i \in 0 .. Len(trail) - 1, NEW x, Resolvent(x, i + 1), NEW y,
         LET e == trail[i + 1] IN
           y = IF Neg(e.lit) \in x /\ Cardinality(Current(x)) > 1
               THEN (x \ {Neg(e.lit)}) \cup NonRoot(LitsOf(e.rsn) \ {e.lit})
               ELSE x
  PROVE  Resolvent(y, i)
<1> DEFINE j == i + 1
           e == trail[j]
<1>1. j \in Positions /\ j \in Nat /\ i \in Nat /\ e.lit \in Lit /\ e.rsn \in Nat /\ e.lev \in Nat
  BY EntryFields DEF TypeOK, TrailType, Positions
<1>2. x \in SUBSET Lit /\ Current(x) \in SUBSET Lit
  BY DEF Resolvent, Blamed, Current
<1>3. \A l \in x : l \in Lit /\ Entry(l) \in Nat /\ (Entry(l) = j => l = Neg(e.lit))
  BY <1>1, BlamedAt DEF Resolvent
<1>4. CASE ~(Neg(e.lit) \in x /\ Cardinality(Current(x)) > 1)
  <2>1. y = x
    BY <1>4
  <2>2. Cardinality(Current(x)) > 1 => \A l \in Current(x) : Entry(l) <= i
    BY <1>1, <1>3, <1>4 DEF Resolvent, Current
  <2> QED
    BY <2>1, <2>2 DEF Resolvent
<1>5. CASE Neg(e.lit) \in x /\ Cardinality(Current(x)) > 1
  <2> DEFINE more == NonRoot(LitsOf(e.rsn) \ {e.lit})
  <2>1. y = (x \ {Neg(e.lit)}) \cup more
    BY <1>5
  <2>2. PICK l \in Current(x) : l # Neg(e.lit) /\ l \in x /\ Entry(l) < j
    BY <1>5, ResolvedReason
  <2>3. Explained(j)
    BY <1>5, ResolvedReason
  <2>4. \A k \in more : k \in Blamed /\ Entry(k) <= i
    <3> SUFFICES ASSUME NEW k \in more PROVE k \in Blamed /\ Entry(k) <= i
      OBVIOUS
    <3>1. k \in LitsOf(e.rsn) \ {e.lit} /\ LevelOf(k) > 0
      BY DEF NonRoot
    <3>2. PICK h \in 1 .. j - 1 : FalseAt(k, h)
      BY <2>3, <3>1 DEF Explained
    <3>3. e.rsn \in Refs
      BY <2>3 DEF Explained, Stored, Refs
    <3>4. k \in Lit
      BY <3>1, <3>3, ClauseFields
    <3> QED
      BY <1>1, <3>1, <3>2, <3>4, FalseFacts DEF Blamed
  <2>5. y \subseteq Blamed
    BY <2>1, <2>4 DEF Resolvent
  <2>6. l \in Current(y)
    BY <2>1, <2>2 DEF Current
  <2>7. \A k \in Current(y) : Entry(k) <= i
    <3> SUFFICES ASSUME NEW k \in Current(y) PROVE Entry(k) <= i
      OBVIOUS
    <3>1. CASE k \in more
      BY <2>4, <3>1
    <3>2. CASE k \in x \ {Neg(e.lit)}
      <4>1. k \in Current(x) /\ Entry(k) # j
        BY <1>3, <3>2 DEF Current
      <4> QED
        BY <1>1, <1>3, <1>5, <3>2, <4>1 DEF Resolvent
    <3> QED
      BY <2>1, <3>1, <3>2 DEF Current
  <2> QED
    BY <2>5, <2>6, <2>7 DEF Resolvent
<1> QED
  BY <1>4, <1>5

\* The resolvents of analysis, position by position.
LEMMA UipResolvents ==
  ASSUME TypeOK, TrailOK, ReasonsOK, ConflictOK, conflict # 0, Level > 0
  PROVE  \E res : /\ FirstUip = res[0]
                  /\ res[Len(trail)] = NonRoot(LitsOf(conflict))
                  /\ \A i \in 0 .. Len(trail) - 1 : LET e == trail[i + 1] IN res[i] =
                       IF Neg(e.lit) \in res[i + 1] /\ Cardinality(Current(res[i + 1])) > 1
                       THEN (res[i + 1] \ {Neg(e.lit)}) \cup NonRoot(LitsOf(e.rsn) \ {e.lit})
                       ELSE res[i + 1]
                  /\ \A i \in 0 .. Len(trail) : Resolvent(res[i], i)
<1> DEFINE n == Len(trail)
<1>1. n \in Nat /\ trail \in Seq(Assignment) /\ Level \in Nat
  BY DEF TypeOK, TrailType, Level
<1>2. PICK res :
        /\ FirstUip = res[0]
        /\ res[n] = NonRoot(LitsOf(conflict))
        /\ \A i \in 0 .. n - 1 : LET e == trail[i + 1] IN res[i] =
             IF Neg(e.lit) \in res[i + 1] /\ Cardinality(Current(res[i + 1])) > 1
             THEN (res[i + 1] \ {Neg(e.lit)}) \cup NonRoot(LitsOf(e.rsn) \ {e.lit})
             ELSE res[i + 1]
  BY <1>1, UipSteps
<1>3. Resolvent(res[n], n)
  <2>1. LitsOf(conflict) \in SUBSET Lit
    BY ClauseFields DEF ConflictOK, Stored, Refs
  <2>2. NonRoot(LitsOf(conflict)) \subseteq Blamed
    BY <2>1 DEF NonRoot, Blamed, ConflictOK
  <2> DEFINE k == Neg(trail[head].lit)
  <2>3. k \in LitsOf(conflict) /\ head \in Positions /\ trail[head].lev = Level
    BY DEF ConflictOK, AtHead
  <2>4. k \in Lit /\ FalseAt(k, head)
    BY <2>3, EntryFields, NegLit DEF FalseAt
  <2>5. LevelOf(k) = Level
    BY <2>3, <2>4, FalseFacts
  <2>6. k \in Current(NonRoot(LitsOf(conflict)))
    BY <2>3, <2>5 DEF Current, NonRoot
  <2>7. \A l \in Blamed : Entry(l) <= n
    BY BlamedFacts DEF Positions
  <2> QED
    BY <1>2, <2>2, <2>6, <2>7 DEF Resolvent, Current
<1>4. \A i \in 0 .. n : Resolvent(res[i], i)
  <2> DEFINE T == {m \in 0 .. n : ~Resolvent(res[n - m], n - m)}
  <2>1. SUFFICES ASSUME T # {} PROVE FALSE
    <3>1. \A i \in 0 .. n : n - i \in 0 .. n /\ n - (n - i) = i
      BY <1>1
    <3> QED
      BY <3>1
  <2>2. PICK m \in T : \A k \in T : m <= k
    <3>1. T \in SUBSET Nat
      OBVIOUS
    <3> HIDE DEF T
    <3> QED
      BY <2>1, <3>1, LeastNat
  <2>3. m # 0
    BY <1>1, <1>3, <2>2
  <2>4. m - 1 \in 0 .. n /\ m - 1 \notin T
    BY <1>1, <2>2, <2>3
  <2> DEFINE i == n - m
  <2>5. i \in 0 .. n - 1 /\ n - (m - 1) = i + 1
    BY <1>1, <2>2, <2>3
  <2>6. Resolvent(res[i + 1], i + 1)
    BY <2>4, <2>5
  <2>7. Resolvent(res[i], i)
    BY <1>2, <2>5, <2>6, ResolveStep
  <2> QED
    BY <2>2, <2>7
<1> QED
  BY <1>2, <1>4

\* Analysis of a conflict above the root ends with one literal of the
\* current level: the first unique implication point.
LEMMA UipFacts ==
  ASSUME TypeOK, TrailOK, ReasonsOK, ConflictOK, conflict # 0, Level > 0
  PROVE  /\ FirstUip \subseteq Blamed
         /\ \E u : Current(FirstUip) = {u}
<1>1. Resolvent(FirstUip, 0)
  <2>1. 0 \in 0 .. Len(trail)
    BY DEF TypeOK, TrailType
  <2> QED
    BY <2>1, UipResolvents
<1> DEFINE C == Current(FirstUip)
<1>2. FirstUip \subseteq Blamed /\ C # {} /\ C \subseteq FirstUip
  BY <1>1 DEF Resolvent, Current
<1>3. ~(Cardinality(C) > 1)
  BY <1>1, <1>2, BlamedFacts DEF Resolvent, Positions
<1>4. C \in SUBSET Lit /\ IsFiniteSet(C) /\ Cardinality(C) \in Nat
  BY <1>2, ClauseFinite DEF Blamed
<1>5. PICK u : u \in C
  BY <1>2
<1>6. C = {u}
  <2>1. {u} \in SUBSET C /\ IsFiniteSet({u}) /\ Cardinality({u}) = 1
    BY <1>5, FS_Singleton
  <2>2. Cardinality({u}) <= Cardinality(C)
    BY <1>4, <2>1, FS_Subset
  <2>3. Cardinality(C) = Cardinality({u})
    BY <1>3, <1>4, <2>1, <2>2
  <2> QED
    BY <1>4, <2>1, <2>3, FS_Subset
<1> QED
  BY <1>2, <1>6

\* Minimization only drops literals, and none of the current level.
LEMMA MinimizedFacts ==
  ASSUME NEW c
  PROVE  Minimized(c) \subseteq c /\ Current(Minimized(c)) = Current(c)
BY DEF Minimized, Current

\* Backtracking stays above the level the learned clause jumps to, and below
\* the current one.
LEMMA LearnedFacts ==
  ASSUME TypeOK, TrailOK, NEW c \in SUBSET Blamed, NEW u, Current(c) = {u}
  PROVE  /\ JumpLevel(c) \in Nat /\ BacktrackLevel(c) \in Nat
         /\ JumpLevel(c) <= BacktrackLevel(c) /\ BacktrackLevel(c) < Level
         /\ \A l \in c \ {u} : LevelOf(l) \in 1 .. JumpLevel(c)
         /\ c = {u} => BacktrackLevel(c) = 0
         /\ ~Chrono => BacktrackLevel(c) = JumpLevel(c)
         /\ u \in c /\ LevelOf(u) = Level
<1> DEFINE T == {0} \cup {LevelOf(l) : l \in c \ Current(c)}
<1>1. u \in c /\ LevelOf(u) = Level
  BY DEF Current
<1>2. Level \in Nat /\ \A l \in c : LevelOf(l) \in 1 .. Level
  BY BlamedFacts DEF TypeOK, TrailType, Level
<1>3. \A l \in c \ {u} : LevelOf(l) # Level
  BY DEF Current
<1>4. Level - 1 \in Nat
  BY <1>1, <1>2
<1>5. T \in SUBSET Nat /\ 0 \in T /\ \A x \in T : x <= Level - 1
  BY <1>2, <1>3, <1>4
<1>6. JumpLevel(c) \in T /\ \A x \in T : x <= JumpLevel(c)
  <2>1. JumpLevel(c) = Max(T)
    BY DEF JumpLevel
  <2> HIDE DEF T
  <2>2. T # {}
    BY <1>5
  <2> QED
    BY <1>4, <1>5, <2>1, <2>2, MaxIn
<1>7. JumpLevel(c) \in Nat /\ JumpLevel(c) <= Level - 1
  BY <1>5, <1>6
<1>8. \A l \in c \ {u} : LevelOf(l) \in 1 .. JumpLevel(c)
  <2> SUFFICES ASSUME NEW l \in c \ {u} PROVE LevelOf(l) \in 1 .. JumpLevel(c)
    OBVIOUS
  <2>1. LevelOf(l) \in T
    OBVIOUS
  <2> QED
    BY <1>2, <1>6, <1>7, <2>1
<1>9. c = {u} => JumpLevel(c) = 0 /\ Cardinality(c) = 1
  BY <1>6, FS_Singleton
<1>10. ChronoLimit \in Nat
  BY NumberingAssumption
<1> QED
  BY <1>1, <1>2, <1>4, <1>7, <1>8, <1>9, <1>10 DEF BacktrackLevel
-----------------------------------------------------------------------------
(***************************************************************************)
(* Backtracking.                                                           *)
(***************************************************************************)

\* cancel_until keeps the assignments of the levels up to k.
LEMMA KeptFacts ==
  ASSUME TypeOK, TrailOK, NEW k \in 0 .. Level
  PROVE  /\ Kept(k) \in Seq(Assignment) /\ KeptLimits(k) \in Seq(Nat)
         /\ Len(Kept(k)) \in Nat /\ Len(Kept(k)) <= Len(trail) /\ Len(KeptLimits(k)) = k
         /\ \A i \in 1 .. Len(Kept(k)) : Kept(k)[i] = trail[i]
         /\ \A i \in 1 .. k : KeptLimits(k)[i] = limits[i]
         /\ \A i \in Positions : i <= Len(Kept(k)) <=> trail[i].lev <= k
         /\ \A i \in 1 .. k : limits[i] <= Len(Kept(k))
         /\ k = Level => Kept(k) = trail /\ KeptLimits(k) = limits
<1>1. /\ trail \in Seq(Assignment) /\ limits \in Seq(Nat)
      /\ Len(trail) \in Nat /\ Level = Len(limits) /\ Level \in Nat /\ head \in Nat
      /\ \A i \in 1 .. Len(trail) : trail[i] \in Assignment
      /\ \A i \in 1 .. Level : limits[i] \in Nat
  BY DEF TypeOK, TrailType, Level
<1>2. CASE k = Level
  BY <1>1, <1>2, EntryFields DEF Kept, KeptLimits, TrailOK, Positions
<1>3. CASE k < Level
  <2> DEFINE n == limits[k + 1]
  <2>1. k + 1 \in 1 .. Level /\ n \in Nat /\ n <= Len(trail)
    BY <1>1, <1>3 DEF TrailOK
  <2>2. Kept(k) = SubSeq(trail, 1, n) /\ KeptLimits(k) = SubSeq(limits, 1, k)
    BY <1>3 DEF Kept, KeptLimits
  <2>3. /\ Kept(k) \in Seq(Assignment) /\ Len(Kept(k)) = n
        /\ \A i \in 1 .. n : Kept(k)[i] = trail[i]
    <3>1. \A i \in 1 .. n : trail[i] \in Assignment
      BY <1>1, <2>1
    <3> QED
      BY <2>1, <2>2, <3>1, SubSeqProperties
  <2>4. /\ KeptLimits(k) \in Seq(Nat) /\ Len(KeptLimits(k)) = k
        /\ \A i \in 1 .. k : KeptLimits(k)[i] = limits[i]
    <3>1. \A i \in 1 .. k : limits[i] \in Nat
      BY <1>1, <1>3
    <3> QED
      BY <1>1, <1>3, <2>2, <3>1, SubSeqProperties
  <2>5. \A i \in Positions : i <= n <=> trail[i].lev <= k
    <3> SUFFICES ASSUME NEW i \in Positions PROVE i <= n <=> trail[i].lev <= k
      OBVIOUS
    <3>1. n < i <=> k + 1 <= trail[i].lev
      BY <2>1 DEF TrailOK
    <3> QED
      BY <2>1, <3>1, EntryFields
  <2>6. \A i \in 1 .. k : limits[i] <= n
    <3> SUFFICES ASSUME NEW i \in 1 .. k, n < limits[i] PROVE FALSE
      BY <1>1, <1>3, <2>1
    <3>1. /\ i \in 1 .. Level /\ limits[i] \in Nat /\ limits[i] <= Len(trail)
      BY <1>1, <1>3 DEF TrailOK
    <3>2. limits[i] \in Positions
      BY <1>1, <2>1, <3>1 DEF Positions
    <3>3. k + 1 <= trail[limits[i]].lev
      BY <2>1, <3>2 DEF TrailOK
    <3>4. i <= trail[limits[i]].lev
      BY <1>3, <3>1, <3>2, <3>3, EntryFields
    <3>5. limits[i] < limits[i]
      BY <3>1, <3>2, <3>4 DEF TrailOK
    <3> QED
      BY <3>1, <3>5
  <2> QED
    BY <1>1, <1>3, <2>1, <2>3, <2>4, <2>5, <2>6
<1> QED
  BY <1>1, <1>2, <1>3

-----------------------------------------------------------------------------
(***************************************************************************)
(* Lists of watches, as sequences.                                         *)
(***************************************************************************)

\* The head of the unread part comes right after what is read.
LEMMA ReadAndRest ==
  ASSUME NEW w \in Seq(Watch), NEW rest \in Seq(Watch), rest # << >>
  PROVE  LET L == w \o rest IN
         /\ L \in Seq(Watch) /\ Len(w) + 1 \in 1 .. Len(L) /\ Len(L) = Len(w) + Len(rest)
         /\ L[Len(w) + 1] = Head(rest) /\ Head(rest) \in Watch
         /\ \A i \in 1 .. Len(rest) : Len(w) + i \in 1 .. Len(L) /\ L[Len(w) + i] = rest[i]
<1>1. Len(rest) \in Nat \ {0} /\ Len(w) \in Nat
  BY EmptySeq, LenProperties
<1>2. Head(rest) = rest[1] /\ Head(rest) \in Watch
  BY HeadTailProperties
<1> QED
  BY <1>1, <1>2, ConcatProperties

\* Rewriting the head watch keeps every other watch at its place.
LEMMA RetainList ==
  ASSUME NEW w \in Seq(Watch), NEW rest \in Seq(Watch), rest # << >>, NEW x \in Watch
  PROVE  LET L == w \o rest
             M == Append(w, x) \o Tail(rest) IN
         /\ M \in Seq(Watch) /\ Len(M) = Len(L)
         /\ \A i \in 1 .. Len(L) : M[i] = IF i = Len(w) + 1 THEN x ELSE L[i]
<1> DEFINE w2 == Append(w, x)
           t == Tail(rest)
<1>1. /\ Len(rest) \in Nat \ {0} /\ Len(w) \in Nat
      /\ t \in Seq(Watch) /\ Len(t) = Len(rest) - 1
      /\ \A i \in 1 .. Len(t) : t[i] = rest[i + 1]
  BY EmptySeq, LenProperties, HeadTailProperties
<1>2. /\ w2 \in Seq(Watch) /\ Len(w2) = Len(w) + 1
      /\ \A i \in 1 .. Len(w) : w2[i] = w[i]
      /\ w2[Len(w) + 1] = x
  BY AppendProperties
<1>3. /\ w \o rest \in Seq(Watch) /\ Len(w \o rest) = Len(w) + Len(rest)
      /\ \A i \in 1 .. Len(w) + Len(rest) :
           (w \o rest)[i] = IF i <= Len(w) THEN w[i] ELSE rest[i - Len(w)]
  BY ConcatProperties
<1>4. /\ w2 \o t \in Seq(Watch) /\ Len(w2 \o t) = Len(w2) + Len(t)
      /\ \A i \in 1 .. Len(w2) + Len(t) :
           (w2 \o t)[i] = IF i <= Len(w2) THEN w2[i] ELSE t[i - Len(w2)]
  <2> HIDE DEF w2, t
  <2> QED
    BY <1>1, <1>2, ConcatProperties
<1>5. ASSUME NEW i \in 1 .. Len(w) + Len(rest)
      PROVE  (w2 \o t)[i] = IF i = Len(w) + 1 THEN x ELSE (w \o rest)[i]
  <2> HIDE DEF w2, t
  <2>1. CASE i <= Len(w)
    BY <1>1, <1>2, <1>3, <1>4, <2>1
  <2>2. CASE i = Len(w) + 1
    BY <1>1, <1>2, <1>3, <1>4, <2>2
  <2>3. CASE i > Len(w) + 1
    <3>1. i - Len(w2) \in 1 .. Len(t) /\ i - Len(w2) + 1 = i - Len(w)
      BY <1>1, <1>2, <2>3
    <3>2. t[i - Len(w2)] = rest[i - Len(w)]
      BY <1>1, <3>1
    <3> QED
      BY <1>1, <1>2, <1>3, <1>4, <2>3, <3>1, <3>2
  <2>4. i <= Len(w) \/ i = Len(w) + 1 \/ i > Len(w) + 1
    BY <1>1
  <2> QED
    BY <2>1, <2>2, <2>3, <2>4
<1> QED
  BY <1>1, <1>2, <1>3, <1>4, <1>5

\* Dropping the head watch moves the watches after it one place down.
LEMMA DropList ==
  ASSUME NEW w \in Seq(Watch), NEW rest \in Seq(Watch), rest # << >>
  PROVE  LET L == w \o rest
             M == w \o Tail(rest) IN
         /\ M \in Seq(Watch) /\ Len(M) + 1 = Len(L) /\ Len(M) \in Nat
         /\ \A i \in 1 .. Len(w) : M[i] = L[i]
         /\ \A i \in Len(w) + 1 .. Len(M) : M[i] = L[i + 1]
<1> DEFINE t == Tail(rest)
<1>1. /\ Len(rest) \in Nat \ {0} /\ Len(w) \in Nat
      /\ t \in Seq(Watch) /\ Len(t) = Len(rest) - 1
      /\ \A i \in 1 .. Len(t) : t[i] = rest[i + 1]
  BY EmptySeq, LenProperties, HeadTailProperties
<1>2. /\ w \o rest \in Seq(Watch) /\ Len(w \o rest) = Len(w) + Len(rest)
      /\ \A i \in 1 .. Len(w) + Len(rest) :
           (w \o rest)[i] = IF i <= Len(w) THEN w[i] ELSE rest[i - Len(w)]
  BY ConcatProperties
<1>3. /\ w \o t \in Seq(Watch) /\ Len(w \o t) = Len(w) + Len(t)
      /\ \A i \in 1 .. Len(w) + Len(t) :
           (w \o t)[i] = IF i <= Len(w) THEN w[i] ELSE t[i - Len(w)]
  <2> HIDE DEF t
  <2> QED
    BY <1>1, ConcatProperties
<1>4. \A i \in 1 .. Len(w) : (w \o t)[i] = (w \o rest)[i]
  BY <1>1, <1>2, <1>3
<1>5. ASSUME NEW i \in Len(w) + 1 .. Len(w) + Len(t)
      PROVE  (w \o t)[i] = (w \o rest)[i + 1]
  <2> HIDE DEF t
  <2>1. i - Len(w) \in 1 .. Len(t) /\ i - Len(w) + 1 = i + 1 - Len(w)
    BY <1>1
  <2>2. t[i - Len(w)] = rest[i + 1 - Len(w)]
    BY <1>1, <2>1
  <2> QED
    BY <1>1, <1>2, <1>3, <2>2
<1> QED
  BY <1>1, <1>2, <1>3, <1>4, <1>5

\* The clause r is in the list L once, blocked by another literal of it.
Once(L, r, c) == \E i \in 1 .. Len(L) :
  /\ L[i].ref = r /\ L[i].blocker \in c
  /\ \A j \in 1 .. Len(L) : L[j].ref = r => j = i

Absent(L, r) == \A i \in 1 .. Len(L) : L[i].ref # r

\* WatchedOK, one list at a time.
LEMMA WatchedAlt ==
  WatchedOK <=> \A r \in Stored, l \in Lit :
    IF l \in Watched(r) THEN Once(ListOf(l), r, LitsOf(r) \ {l}) ELSE Absent(ListOf(l), r)
<1> DEFINE P(l, r) == {i \in 1 .. Len(ListOf(l)) : ListOf(l)[i].ref = r}
<1>1. ASSUME NEW l, NEW r
      PROVE  /\ Once(ListOf(l), r, LitsOf(r) \ {l}) <=>
                 \E i \in P(l, r) : P(l, r) = {i} /\ ListOf(l)[i].blocker \in LitsOf(r) \ {l}
             /\ Absent(ListOf(l), r) <=> P(l, r) = {}
  BY DEF Once, Absent
<1> QED
  BY <1>1 DEF WatchedOK, Watched

\* The same of the next state.
LEMMA WatchedAltNext ==
  WatchedOK' <=> \A r \in Stored', l \in Lit :
    IF l \in Watched(r)' THEN Once(ListOf(l)', r, LitsOf(r)' \ {l}) ELSE Absent(ListOf(l)', r)
<1> DEFINE P(l, r) == {i \in 1 .. Len(ListOf(l)') : ListOf(l)'[i].ref = r}
<1>1. ASSUME NEW l, NEW r
      PROVE  /\ Once(ListOf(l)', r, LitsOf(r)' \ {l}) <=>
                 \E i \in P(l, r) : P(l, r) = {i} /\ ListOf(l)'[i].blocker \in LitsOf(r)' \ {l}
             /\ Absent(ListOf(l)', r) <=> P(l, r) = {}
  BY DEF Once, Absent
<1> QED
  BY <1>1 DEF WatchedOK, Watched

-----------------------------------------------------------------------------
(***************************************************************************)
(* A visit to a watch.                                                     *)
(***************************************************************************)

\* Exchanging two places of a clause leaves its set of literals alone.
LEMMA SwapFacts ==
  ASSUME NEW s \in Disjunction, NEW t \in Seq(Lit), Len(t) = Len(s),
         NEW a \in 1 .. Len(s), NEW b \in 1 .. Len(s), t[a] = s[b], t[b] = s[a],
         \A i \in 1 .. Len(s) : i # a /\ i # b => t[i] = s[i]
  PROVE  t \in Disjunction /\ Range(t) = Range(s)
<1> DEFINE n == Len(s)
<1>1. /\ n \in Nat /\ n > 1 /\ IsInjective(s) /\ DOMAIN s = 1 .. n /\ DOMAIN t = 1 .. n
      /\ s \in Seq(Lit)
  BY DEF Disjunction
<1>2. \A i, j \in 1 .. n : s[i] = s[j] => i = j
  BY <1>1 DEF IsInjective
<1> HIDE DEF n
<1>3. \A i, j \in 1 .. n : t[i] = t[j] => i = j
  BY <1>2 DEF n
<1>4. IsInjective(t)
  BY <1>1, <1>3 DEF IsInjective
<1>5. \A i \in 1 .. n : \E j \in 1 .. n : t[i] = s[j]
  BY DEF n
<1>6. \A j \in 1 .. n : \E i \in 1 .. n : s[j] = t[i]
  BY DEF n
<1>7. Range(t) = {t[i] : i \in 1 .. n} /\ Range(s) = {s[i] : i \in 1 .. n}
  BY <1>1 DEF Range
<1>8. Range(t) \subseteq Range(s)
  BY <1>5, <1>7
<1>9. Range(s) \subseteq Range(t)
  BY <1>6, <1>7
<1> QED
  BY <1>1, <1>4, <1>8, <1>9 DEF Disjunction, n

\* What is being scanned.
LEMMA ScanFacts ==
  ASSUME Inv, scan # NoScan
  PROVE  /\ scan.lit \in Lit /\ scan.rest \in Seq(Watch) /\ scan.rest # << >>
         /\ watches[scan.lit] \in Seq(Watch)
         /\ Visited \in Watch /\ Visited.ref \in Refs /\ Visited.blocker \in Lit
         /\ \E i \in 1 .. Len(ListOf(scan.lit)) : ListOf(scan.lit)[i] = Visited
         /\ ListOf(scan.lit) = watches[scan.lit] \o scan.rest
         /\ scan.lit = Neg(trail[head].lit) /\ head \in Positions
         /\ trail[head].lev = Level /\ conflict = 0 /\ consistent
<1>1. /\ scan.lit \in Lit /\ scan.rest \in Seq(Watch) /\ scan.rest # << >>
      /\ watches[scan.lit] \in Seq(Watch)
  BY DEF Inv, TypeOK, DatabaseType
<1>2. ListOf(scan.lit) = watches[scan.lit] \o scan.rest
  BY DEF ListOf
<1>3. PICK i \in 1 .. Len(ListOf(scan.lit)) : ListOf(scan.lit)[i] = Visited
  <2> DEFINE w == watches[scan.lit]
             rest == scan.rest
  <2> HIDE DEF w, rest
  <2>1. Len(w) + 1 \in 1 .. Len(w \o rest) /\ (w \o rest)[Len(w) + 1] = Head(rest)
    BY <1>1, ReadAndRest DEF w, rest
  <2> QED
    BY <1>2, <2>1 DEF Visited, w, rest
<1>4. Visited \in Watch
  BY <1>1, ReadAndRest DEF Visited
<1>5. Visited.ref \in Refs
  BY <1>1, <1>3 DEF Inv, RefsOK
<1> QED
  BY <1>1, <1>2, <1>3, <1>4, <1>5 DEF Watch, Inv, ScanOK, AtHead

\* The falsified literal, and the other watch, of the clause of a visit.
LEMMA VisitFacts ==
  ASSUME Inv, Visiting(FALSE)
  PROVE  /\ scan.lit \in Lit /\ Visited.ref \in Stored /\ Visited.ref \in Refs
         /\ Visited.blocker \in LitsOf(Visited.ref) \ {scan.lit}
         /\ Watched(Visited.ref) = {scan.lit, Other} /\ Other # scan.lit
         /\ Other \in LitsOf(Visited.ref) /\ Other \in Lit
         /\ Settled \in Disjunction /\ Range(Settled) = LitsOf(Visited.ref)
         /\ {Settled[1], Settled[2]} = {scan.lit, Other}
         /\ Len(Settled) > 2 => Settled[1] = Other /\ Settled[2] = scan.lit
<1> DEFINE r == Visited.ref
           f == scan.lit
<1>1. scan # NoScan /\ clauses[r].deleted = FALSE
  BY DEF Visiting
<1>2. /\ f \in Lit /\ r \in Refs /\ Visited \in Watch
      /\ \E i \in 1 .. Len(ListOf(f)) : ListOf(f)[i] = Visited
  BY <1>1, ScanFacts
<1>3. r \in Stored
  BY <1>1, <1>2 DEF Stored, Refs
<1>4. ~Absent(ListOf(f), r)
  BY <1>2 DEF Absent
<1>5. f \in Watched(r) /\ Once(ListOf(f), r, LitsOf(r) \ {f})
  BY <1>2, <1>3, <1>4, WatchedAlt DEF Inv
<1>6. Visited.blocker \in LitsOf(r) \ {f}
  BY <1>2, <1>5 DEF Once
<1> DEFINE s == clauses[r].lits
<1>7. /\ s \in Seq(Lit) /\ Len(s) \in Nat /\ Len(s) > 1 /\ s \in Disjunction
      /\ \A i, j \in 1 .. Len(s) : s[i] = s[j] => i = j
      /\ \A i \in 1 .. Len(s) : s[i] \in LitsOf(r) /\ s[i] \in Lit
      /\ \A l \in LitsOf(r) : \E i \in 1 .. Len(s) : s[i] = l
      /\ LitsOf(r) \in SUBSET Lit /\ Range(s) = LitsOf(r)
  BY <1>2, ClauseFields DEF Inv, ClauseRecord, LitsOf
<1>8. /\ 1 \in 1 .. Len(s) /\ 2 \in 1 .. Len(s) /\ s[1] # s[2] /\ Watched(r) = {s[1], s[2]}
      /\ s[1] \in LitsOf(r) /\ s[2] \in LitsOf(r)
  BY <1>7 DEF Watched
<1>9. Seen = s
  BY DEF Seen
<1>10. CASE Fast
  <2>1. Settled = s /\ Len(s) = 2 /\ Other = Visited.blocker
    BY <1>9, <1>10 DEF Settled, Fast, Other
  <2>2. LitsOf(r) = {s[1], s[2]}
    BY <1>7, <1>8, <2>1
  <2>3. {f, Other} = {s[1], s[2]} /\ Other # f
    BY <1>5, <1>6, <1>8, <2>1, <2>2
  <2> QED
    BY <1>2, <1>3, <1>6, <1>7, <1>8, <2>1, <2>2, <2>3
<1>11. CASE ~Fast /\ s[1] # f
  <2>1. Settled = s /\ Other = s[1] /\ s[2] = f
    BY <1>5, <1>8, <1>9, <1>11 DEF Settled, Other
  <2>2. /\ Watched(r) = {f, Other} /\ Other # f /\ Other \in LitsOf(r) /\ Other \in Lit
        /\ {s[1], s[2]} = {f, Other}
    BY <1>7, <1>8, <2>1
  <2>3. Settled \in Disjunction /\ Range(Settled) = LitsOf(r) /\ {Settled[1], Settled[2]} = {f, Other}
    BY <1>7, <2>1, <2>2
  <2>4. Settled[1] = Other /\ Settled[2] = f
    BY <2>1
  <2> HIDE DEF s
  <2> QED
    BY <1>2, <1>3, <1>6, <2>2, <2>3, <2>4
<1>12. CASE ~Fast /\ s[1] = f
  <2> DEFINE t == <<s[2], s[1]>> \o SubSeq(s, 3, Len(s))
  <2>1. Settled = t
    BY <1>9, <1>12 DEF Settled
  <2>2. /\ t \in Seq(Lit) /\ Len(t) = Len(s)
        /\ t[1] = s[2] /\ t[2] = s[1] /\ \A i \in 3 .. Len(s) : t[i] = s[i]
    <3>1. /\ <<s[2], s[1]>> \in Seq(Lit) /\ Len(<<s[2], s[1]>>) = 2
          /\ <<s[2], s[1]>>[1] = s[2] /\ <<s[2], s[1]>>[2] = s[1]
      BY <1>7, <1>8
    <3> DEFINE u == SubSeq(s, 3, Len(s))
               a == <<s[2], s[1]>>
    <3>2. /\ u \in Seq(Lit) /\ Len(u) = Len(s) - 2
          /\ \A i \in 1 .. Len(s) - 2 : u[i] = s[i + 2]
      <4>1. \A i \in 3 .. Len(s) : s[i] \in Lit
        BY <1>7
      <4>2. Len(u) = IF 3 <= Len(s) THEN Len(s) - 3 + 1 ELSE 0
        BY <1>7, <4>1, SubSeqProperties
      <4>3. u \in Seq(Lit) /\ \A i \in 1 .. Len(s) - 3 + 1 : u[i] = s[3 + i - 1]
        BY <1>7, <4>1, SubSeqProperties
      <4> QED
        BY <1>7, <4>2, <4>3
    <3>3. /\ a \o u \in Seq(Lit) /\ Len(a \o u) = Len(a) + Len(u)
          /\ \A i \in 1 .. Len(a) + Len(u) :
               (a \o u)[i] = IF i <= Len(a) THEN a[i] ELSE u[i - Len(a)]
      <4> HIDE DEF a, u
      <4> QED
        BY <3>1, <3>2, ConcatProperties DEF a
    <3> HIDE DEF a, u
    <3>4. t = a \o u /\ Len(a) = 2 /\ a[1] = s[2] /\ a[2] = s[1]
      BY <3>1 DEF a, u
    <3>5. ASSUME NEW i \in 3 .. Len(s) PROVE (a \o u)[i] = s[i]
      <4>1. i - 2 \in 1 .. Len(s) - 2 /\ i - 2 + 2 = i
        BY <1>7
      <4> QED
        BY <1>7, <3>2, <3>3, <3>4, <4>1
    <3>6. Len(s) \in Nat /\ Len(s) >= 2 /\ Len(u) = Len(s) - 2
      BY <1>7, <1>8, <3>2
    <3>7. a \o u \in Seq(Lit) /\ Len(a \o u) = Len(s)
      <4> HIDE DEF t, s
      <4> QED
        BY <3>3, <3>4, <3>6
    <3>8. (a \o u)[1] = s[2] /\ (a \o u)[2] = s[1]
      <4>1. 1 \in 1 .. Len(a) + Len(u) /\ 2 \in 1 .. Len(a) + Len(u)
        BY <3>4, <3>6
      <4> HIDE DEF t, s
      <4> QED
        BY <3>3, <3>4, <4>1
    <3> HIDE DEF t, s
    <3> QED
      BY <3>4, <3>5, <3>7, <3>8
  <2> HIDE DEF t
  <2>3. t \in Disjunction /\ Range(t) = Range(s)
    <3> HIDE DEF s
    <3> QED
      BY <1>7, <1>8, <2>2, SwapFacts
  <2>9. Other = t[1] /\ Other = s[2] /\ t[2] = f
    BY <1>12, <2>1, <2>2 DEF Other
  <2> QED
    BY <1>2, <1>3, <1>6, <1>7, <1>8, <1>12, <2>1, <2>2, <2>3, <2>9
<1> QED
  BY <1>10, <1>11, <1>12

\* Swapping a free literal for the falsified watch keeps the clause.
LEMMA MovedFacts ==
  ASSUME Inv, Visiting(FALSE), NEW k \in 3 .. Len(Settled)
  PROVE  LET m == [Settled EXCEPT ![2] = Settled[k], ![k] = scan.lit] IN
         /\ m \in Disjunction /\ Range(m) = LitsOf(Visited.ref)
         /\ m[1] = Other /\ m[2] = Settled[k]
         /\ Settled[k] \in LitsOf(Visited.ref) \ {scan.lit, Other}
         /\ Settled[k] \in Lit
<1> DEFINE s == Settled
           n == Len(s)
           m == [s EXCEPT ![2] = s[k], ![k] = scan.lit]
<1>1. /\ s \in Seq(Lit) /\ n \in Nat /\ n > 2 /\ IsInjective(s) /\ DOMAIN s = 1 .. n
      /\ \A i \in 1 .. n : s[i] \in Lit
  BY VisitFacts DEF Disjunction
<1>2. s[1] = Other /\ s[2] = scan.lit /\ Range(s) = LitsOf(Visited.ref)
  BY <1>1, VisitFacts
<1>4. 1 \in 1 .. n /\ 2 \in 1 .. n /\ k \in 1 .. n /\ k # 1 /\ k # 2
  BY <1>1
<1>5. /\ DOMAIN m = 1 .. n /\ m \in [1 .. n -> Lit]
      /\ m[2] = s[k] /\ m[k] = s[2]
      /\ \A i \in 1 .. n : i # 2 /\ i # k => m[i] = s[i]
  <2> HIDE DEF s
  <2> QED
    BY <1>1, <1>2, <1>4
<1> HIDE DEF m, s
<1>6. m \in Seq(Lit) /\ Len(m) = n
  BY <1>1, <1>5
<1>7. s \in Disjunction
  BY VisitFacts DEF s
<1>8. m \in Disjunction /\ Range(m) = Range(s)
  BY <1>1, <1>4, <1>5, <1>6, <1>7, SwapFacts
<1>9. \A i, j \in 1 .. n : s[i] = s[j] => i = j
  BY <1>1 DEF IsInjective
<1>10. s[k] # s[1] /\ s[k] # s[2] /\ s[k] \in Range(s) /\ s[k] \in Lit
  BY <1>1, <1>4, <1>9 DEF Range
<1>11. m[1] = s[1]
  BY <1>4, <1>5
<1> QED
  BY <1>2, <1>5, <1>8, <1>10, <1>11 DEF m, s
-----------------------------------------------------------------------------
(***************************************************************************)
(* What a step does to a list, and to the places of a clause in it.        *)
(***************************************************************************)

\* M is L without its place p; M is L with a new watch x at the end; M is L
\* with the watch at place p replaced by x, which has the same clause.
Removed(L, M, p) ==
  /\ p \in 1 .. Len(L) /\ Len(M) \in Nat /\ Len(M) + 1 = Len(L)
  /\ \A i \in 1 .. p - 1 : M[i] = L[i]
  /\ \A i \in p .. Len(M) : M[i] = L[i + 1]

Extended(L, M, x) ==
  /\ Len(L) \in Nat /\ Len(M) = Len(L) + 1 /\ M[Len(M)] = x
  /\ \A i \in 1 .. Len(L) : M[i] = L[i]

Rewritten(L, M, p, x) ==
  /\ p \in 1 .. Len(L) /\ Len(L) \in Nat /\ Len(M) = Len(L) /\ L[p].ref = x.ref
  /\ \A i \in 1 .. Len(L) : M[i] = IF i = p THEN x ELSE L[i]

\* Removal takes away the place of one clause only.
LEMMA RemovedPlaces ==
  ASSUME NEW L, NEW M, NEW p, Removed(L, M, p), NEW q
  PROVE  /\ Absent(L, q) => Absent(M, q)
         /\ \A c : Once(L, q, c) /\ L[p].ref # q => Once(M, q, c)
         /\ \A c : Once(L, q, c) /\ L[p].ref = q => Absent(M, q)
         /\ \A S : (\A i \in 1 .. Len(L) : L[i].ref \in S) => \A i \in 1 .. Len(M) : M[i].ref \in S
<1>1. /\ p \in 1 .. Len(L) /\ p \in Nat /\ Len(M) \in Nat /\ Len(L) = Len(M) + 1
      /\ \A i \in 1 .. p - 1 : M[i] = L[i]
      /\ \A i \in p .. Len(M) : M[i] = L[i + 1]
  BY DEF Removed
<1>2. \A i \in 1 .. Len(M) : \E j \in 1 .. Len(L) :
        M[i] = L[j] /\ j # p /\ (i < p => j = i) /\ (i >= p => j = i + 1)
  <2> SUFFICES ASSUME NEW i \in 1 .. Len(M)
               PROVE  \E j \in 1 .. Len(L) :
                 M[i] = L[j] /\ j # p /\ (i < p => j = i) /\ (i >= p => j = i + 1)
    OBVIOUS
  <2>1. CASE i < p
    BY <1>1, <2>1
  <2>2. CASE i >= p
    <3>1. i + 1 \in 1 .. Len(L) /\ M[i] = L[i + 1] /\ i + 1 # p /\ ~(i < p)
      BY <1>1, <2>2
    <3> QED
      BY <3>1
  <2> QED
    BY <1>1, <2>1, <2>2
<1>3. \A j \in 1 .. Len(L) : j # p => \E i \in 1 .. Len(M) : M[i] = L[j]
  <2> SUFFICES ASSUME NEW j \in 1 .. Len(L), j # p
               PROVE  \E i \in 1 .. Len(M) : M[i] = L[j]
    OBVIOUS
  <2>1. CASE j < p
    BY <1>1, <2>1
  <2>2. CASE j > p
    <3>1. j - 1 \in p .. Len(M) /\ j - 1 \in 1 .. Len(M) /\ j - 1 + 1 = j
      BY <1>1, <2>2
    <3> QED
      BY <1>1, <3>1
  <2> QED
    BY <1>1, <2>1, <2>2
<1>4. Absent(L, q) => Absent(M, q)
  BY <1>2 DEF Absent
<1>5. ASSUME NEW c, Once(L, q, c), L[p].ref # q PROVE Once(M, q, c)
  <2>1. PICK j \in 1 .. Len(L) : /\ L[j].ref = q /\ L[j].blocker \in c
                                 /\ \A k \in 1 .. Len(L) : L[k].ref = q => k = j
    BY <1>5 DEF Once
  <2>2. PICK i \in 1 .. Len(M) : M[i] = L[j]
    BY <1>3, <1>5, <2>1
  <2>3. ASSUME NEW h \in 1 .. Len(M), M[h].ref = q PROVE h = i
    <3>1. PICK jh \in 1 .. Len(L) : M[h] = L[jh] /\ (h < p => jh = h) /\ (h >= p => jh = h + 1)
      BY <1>2
    <3>2. PICK ji \in 1 .. Len(L) : M[i] = L[ji] /\ (i < p => ji = i) /\ (i >= p => ji = i + 1)
      BY <1>2
    <3>3. jh = j /\ ji = j
      BY <2>1, <2>2, <2>3, <3>1, <3>2
    <3> QED
      BY <1>1, <3>1, <3>2, <3>3
  <2> QED
    BY <2>1, <2>2, <2>3 DEF Once
<1>6. ASSUME NEW c, Once(L, q, c), L[p].ref = q PROVE Absent(M, q)
  <2>1. \A k \in 1 .. Len(L) : L[k].ref = q => k = p
    BY <1>1, <1>6 DEF Once
  <2> QED
    BY <1>2, <2>1 DEF Absent
<1>7. ASSUME NEW S, \A i \in 1 .. Len(L) : L[i].ref \in S
      PROVE  \A i \in 1 .. Len(M) : M[i].ref \in S
  BY <1>2, <1>7
<1> QED
  BY <1>4, <1>5, <1>6, <1>7

\* A new watch adds one place of its clause.
LEMMA ExtendedPlaces ==
  ASSUME NEW L, NEW M, NEW x, Extended(L, M, x), NEW q
  PROVE  /\ Absent(L, q) /\ x.ref # q => Absent(M, q)
         /\ \A c : Once(L, q, c) /\ x.ref # q => Once(M, q, c)
         /\ \A c : Absent(L, q) /\ x.ref = q /\ x.blocker \in c => Once(M, q, c)
         /\ \A S : (\A i \in 1 .. Len(L) : L[i].ref \in S) /\ x.ref \in S
                 => \A i \in 1 .. Len(M) : M[i].ref \in S
<1> USE DEF Extended
<1>1. \A i \in 1 .. Len(M) : (i = Len(M) /\ M[i] = x) \/ (i \in 1 .. Len(L) /\ M[i] = L[i])
  OBVIOUS
<1>2. Len(M) \in 1 .. Len(M) /\ Len(M) \notin 1 .. Len(L)
  OBVIOUS
<1>3. Absent(L, q) /\ x.ref # q => Absent(M, q)
  BY <1>1 DEF Absent
<1>4. ASSUME NEW c, Once(L, q, c), x.ref # q PROVE Once(M, q, c)
  BY <1>1, <1>4 DEF Once
<1>5. ASSUME NEW c, Absent(L, q), x.ref = q, x.blocker \in c PROVE Once(M, q, c)
  BY <1>1, <1>2, <1>5 DEF Once, Absent
<1>6. ASSUME NEW S, \A i \in 1 .. Len(L) : L[i].ref \in S, x.ref \in S
      PROVE  \A i \in 1 .. Len(M) : M[i].ref \in S
  BY <1>1, <1>6
<1> QED
  BY <1>3, <1>4, <1>5, <1>6

\* Another blocker moves no clause.
LEMMA RewrittenPlaces ==
  ASSUME NEW L, NEW M, NEW p, NEW x, Rewritten(L, M, p, x), NEW q
  PROVE  /\ Absent(L, q) => Absent(M, q)
         /\ \A c : Once(L, q, c) /\ (x.ref = q => x.blocker \in c) => Once(M, q, c)
         /\ \A S : (\A i \in 1 .. Len(L) : L[i].ref \in S) => \A i \in 1 .. Len(M) : M[i].ref \in S
<1>1. /\ Len(M) = Len(L) /\ \A i \in 1 .. Len(L) : M[i].ref = L[i].ref
      /\ \A i \in 1 .. Len(L) : M[i] = L[i] \/ M[i] = x
  BY DEF Rewritten
<1>2. Absent(L, q) => Absent(M, q)
  BY <1>1 DEF Absent
<1>3. ASSUME NEW c, Once(L, q, c), x.ref = q => x.blocker \in c PROVE Once(M, q, c)
  <2>1. PICK i \in 1 .. Len(L) : /\ L[i].ref = q /\ L[i].blocker \in c
                                 /\ \A j \in 1 .. Len(L) : L[j].ref = q => j = i
    BY <1>3 DEF Once
  <2>2. M[i].ref = q /\ M[i].blocker \in c
    BY <1>1, <1>3, <2>1
  <2> QED
    BY <1>1, <2>1, <2>2 DEF Once
<1>4. ASSUME NEW S, \A i \in 1 .. Len(L) : L[i].ref \in S
      PROVE  \A i \in 1 .. Len(M) : M[i].ref \in S
  BY <1>1, <1>4
<1> QED
  BY <1>2, <1>3, <1>4
-----------------------------------------------------------------------------
(***************************************************************************)
(* What the steps of propagation do to the lists.                          *)
(***************************************************************************)
RestOf(l) == IF scan.lit = l THEN scan.rest ELSE << >>
ScanType == scan # NoScan =>
  scan \in [lit : Lit, rest : Seq(Watch)] /\ scan.rest # << >>

\* Reading a watch leaves the rest unread.
LEMMA RestAfter ==
  ASSUME Inv, scan # NoScan, NextWatch, NEW f, f = scan.lit
  PROVE  /\ ScanType' /\ (scan' # NoScan => scan'.lit = f)
         /\ RestOf(f)' = Tail(scan.rest)
         /\ \A l \in Lit \ {f} : RestOf(l)' = << >>
<1>1. /\ scan.lit \in Lit /\ scan.rest \in Seq(Watch) /\ scan.rest # << >>
      /\ Tail(scan.rest) \in Seq(Watch) /\ 0 \notin Lit
  BY ScanFacts, HeadTailProperties, NegLit
<1>2. CASE Tail(scan.rest) = << >>
  <2>1. scan' = NoScan
    BY <1>2 DEF NextWatch, Unread
  <2> QED
    BY <1>1, <1>2, <2>1 DEF ScanType, RestOf, NoScan
<1>3. CASE Tail(scan.rest) # << >>
  <2>1. scan' = [lit |-> scan.lit, rest |-> Tail(scan.rest)]
    BY <1>3 DEF NextWatch, Unread
  <2> QED
    BY <1>1, <1>3, <2>1 DEF ScanType, RestOf
<1> QED
  BY <1>2, <1>3

\* The lists not being scanned.
LEMMA ListsApart ==
  ASSUME Inv, NEW l \in Lit
  PROVE  /\ ListOf(l) = watches[l] \o RestOf(l) /\ ListOf(l)' = watches'[l] \o RestOf(l)'
         /\ watches[l] \in Seq(Watch) /\ RestOf(l) \in Seq(Watch)
         /\ scan.lit # l => RestOf(l) = << >> /\ ListOf(l) = watches[l]
<1>1. watches[l] \in Seq(Watch) /\ RestOf(l) \in Seq(Watch)
  <2>1. watches \in [Lit -> Seq(Watch)]
    BY DEF Inv, TypeOK, DatabaseType
  <2>2. CASE scan = NoScan
    BY <2>1, <2>2, NegLit DEF RestOf, NoScan
  <2>3. CASE scan # NoScan
    BY <2>1, <2>3, ScanFacts DEF RestOf
  <2> QED
    BY <2>2, <2>3
<1>2. ListOf(l) = watches[l] \o RestOf(l) /\ ListOf(l)' = watches'[l] \o RestOf(l)'
  BY DEF ListOf, RestOf
<1>3. scan.lit # l => RestOf(l) = << >>
  BY DEF RestOf
<1>4. scan.lit # l => ListOf(l) = watches[l]
  BY <1>1, <1>2, <1>3, ConcatEmptySeq
<1> QED
  BY <1>1, <1>2, <1>3, <1>4

\* A list that is not scanned is the same when its watches are.
LEMMA ListSame ==
  ASSUME Inv, scan # NoScan, NextWatch \/ scan' = NoScan,
         NEW l \in Lit \ {scan.lit}, watches'[l] = watches[l]
  PROVE  ListOf(l)' = ListOf(l)
<1>1. RestOf(l)' = << >>
  <2>1. CASE NextWatch
    BY <2>1, RestAfter
  <2>2. CASE scan' = NoScan
    BY <2>2, NegLit DEF RestOf, NoScan
  <2> QED
    BY <2>1, <2>2
<1>2. RestOf(l) = << >>
  BY DEF RestOf
<1> QED
  BY <1>1, <1>2, ListsApart

\* The visited watch is put back, with the blocker b.
LEMMA RetainStep ==
  ASSUME Inv, scan # NoScan, NEW b \in Lit, NEW f, f = scan.lit,
         \/ Retain(b) /\ NextWatch
         \/ /\ watches' = [watches EXCEPT ![scan.lit] =
                  Append(@, [ref |-> Visited.ref, blocker |-> b]) \o Tail(scan.rest)]
            /\ scan' = NoScan
  PROVE  /\ watches' \in [Lit -> Seq(Watch)] /\ ScanType'
         /\ \A l \in Lit \ {f} : ListOf(l)' = ListOf(l)
         /\ \E p : Rewritten(ListOf(f), ListOf(f)', p, [ref |-> Visited.ref, blocker |-> b])
<1> DEFINE w == watches[f]
           rest == scan.rest
           x == [ref |-> Visited.ref, blocker |-> b]
           M == Append(w, x) \o Tail(rest)
<1>1. /\ f \in Lit /\ w \in Seq(Watch) /\ rest \in Seq(Watch) /\ rest # << >>
      /\ ListOf(f) = w \o rest /\ x \in Watch /\ Visited = Head(rest)
      /\ watches \in [Lit -> Seq(Watch)] /\ 0 \notin Lit
  BY ScanFacts, NegLit DEF Visited, Watch, Inv, TypeOK, DatabaseType
<1>2. Append(w, x) \in Seq(Watch) /\ Tail(rest) \in Seq(Watch)
  BY <1>1, AppendProperties, HeadTailProperties
<1>3. M \in Seq(Watch) /\ Rewritten(w \o rest, M, Len(w) + 1, x)
  <2> HIDE DEF w, rest
  <2>1. /\ M \in Seq(Watch) /\ Len(M) = Len(w \o rest)
        /\ \A i \in 1 .. Len(w \o rest) : M[i] = IF i = Len(w) + 1 THEN x ELSE (w \o rest)[i]
    BY <1>1, RetainList
  <2>2. /\ w \o rest \in Seq(Watch) /\ Len(w) + 1 \in 1 .. Len(w \o rest)
        /\ (w \o rest)[Len(w) + 1] = Visited
    BY <1>1, ReadAndRest
  <2> QED
    BY <2>1, <2>2 DEF Rewritten
<1> HIDE DEF M
<1>4. CASE Retain(b) /\ NextWatch
  <2>1. watches' = [watches EXCEPT ![f] = Append(w, x)]
    BY <1>4 DEF Retain
  <2>2. watches' \in [Lit -> Seq(Watch)] /\ watches'[f] = Append(w, x)
        /\ \A l \in Lit \ {f} : watches'[l] = watches[l]
    BY <1>1, <1>2, <2>1
  <2>3. ListOf(f)' = M
    BY <1>1, <1>4, <2>2, RestAfter, ListsApart DEF M
  <2> QED
    BY <1>1, <1>3, <1>4, <2>2, <2>3, RestAfter, ListSame
<1>5. CASE watches' = [watches EXCEPT ![f] = M] /\ scan' = NoScan
  <2>1. /\ watches' \in [Lit -> Seq(Watch)] /\ watches'[f] = M
        /\ \A l \in Lit \ {f} : watches'[l] = watches[l]
    BY <1>1, <1>3, <1>5
  <2>2. ListOf(f)' = M
    <3>1. RestOf(f)' = << >>
      BY <1>1, <1>5 DEF RestOf, NoScan
    <3> QED
      BY <1>1, <1>3, <2>1, <3>1, ListsApart, ConcatEmptySeq
  <2>3. ScanType'
    BY <1>5 DEF ScanType
  <2> QED
    BY <1>1, <1>3, <1>5, <2>1, <2>2, <2>3, ListSame
<1> QED
  BY <1>4, <1>5 DEF M

\* The head watch leaves the scanned list.
LEMMA DropFromScan ==
  ASSUME Inv, scan # NoScan, NextWatch, NEW f, f = scan.lit, watches'[f] = watches[f]
  PROVE  \E p : Removed(ListOf(f), ListOf(f)', p) /\ ListOf(f)[p] = Visited
<1> DEFINE w == watches[f]
           rest == scan.rest
<1>1. /\ f \in Lit /\ w \in Seq(Watch) /\ rest \in Seq(Watch) /\ rest # << >>
      /\ ListOf(f) = w \o rest /\ Visited = Head(rest)
  BY ScanFacts DEF Visited
<1>2. ListOf(f)' = w \o Tail(rest)
  BY <1>1, RestAfter, ListsApart
<1> HIDE DEF w, rest
<1>3. Removed(w \o rest, w \o Tail(rest), Len(w) + 1)
  <2>1. /\ Len(w \o Tail(rest)) + 1 = Len(w \o rest) /\ Len(w \o Tail(rest)) \in Nat
        /\ \A i \in 1 .. Len(w) : (w \o Tail(rest))[i] = (w \o rest)[i]
        /\ \A i \in Len(w) + 1 .. Len(w \o Tail(rest)) :
             (w \o Tail(rest))[i] = (w \o rest)[i + 1]
    BY <1>1, DropList
  <2>2. Len(w) + 1 \in 1 .. Len(w \o rest) /\ Len(w) \in Nat
    BY <1>1, ReadAndRest, LenProperties
  <2> QED
    BY <2>1, <2>2 DEF Removed
<1>4. (w \o rest)[Len(w) + 1] = Visited
  BY <1>1, ReadAndRest
<1> QED
  BY <1>1, <1>2, <1>3, <1>4

\* A watch appended to a list that is not scanned.
LEMMA ExtendList ==
  ASSUME NEW L \in Seq(Watch), NEW x \in Watch
  PROVE  Extended(L, Append(L, x), x) /\ Append(L, x) \in Seq(Watch)
BY AppendProperties, LenProperties DEF Extended

\* The watch of a deleted clause is dropped.
LEMMA DropStep ==
  ASSUME Inv, scan # NoScan, NextWatch, watches' = watches, NEW f, f = scan.lit
  PROVE  /\ watches' \in [Lit -> Seq(Watch)] /\ ScanType'
         /\ \A l \in Lit \ {f} : ListOf(l)' = ListOf(l)
         /\ \E p : Removed(ListOf(f), ListOf(f)', p) /\ ListOf(f)[p] = Visited
BY DropFromScan, RestAfter, ListSame DEF Inv, TypeOK, DatabaseType

\* The watch moves to another literal's list.
LEMMA MoveStep ==
  ASSUME Inv, scan # NoScan, NextWatch, NEW f, f = scan.lit,
         NEW g \in Lit, g # f, NEW x \in Watch,
         watches' = [watches EXCEPT ![g] = Append(@, x)]
  PROVE  /\ watches' \in [Lit -> Seq(Watch)] /\ ScanType'
         /\ \A l \in Lit \ {f, g} : ListOf(l)' = ListOf(l)
         /\ \E p : Removed(ListOf(f), ListOf(f)', p) /\ ListOf(f)[p] = Visited
         /\ Extended(ListOf(g), ListOf(g)', x)
<1>1. /\ f \in Lit /\ watches \in [Lit -> Seq(Watch)] /\ watches[g] \in Seq(Watch)
  BY ScanFacts DEF Inv, TypeOK, DatabaseType
<1>2. /\ Append(watches[g], x) \in Seq(Watch)
      /\ Extended(watches[g], Append(watches[g], x), x)
  BY <1>1, ExtendList
<1>3. /\ watches' \in [Lit -> Seq(Watch)] /\ watches'[g] = Append(watches[g], x)
      /\ \A l \in Lit \ {g} : watches'[l] = watches[l]
  BY <1>1, <1>2
<1>4. ListOf(g) = watches[g] /\ ListOf(g)' = watches'[g]
  <2>1. RestOf(g)' = << >>
    BY RestAfter
  <2>2. ListOf(g)' = watches'[g] \o << >>
    BY <2>1, ListsApart
  <2> QED
    BY <1>2, <1>3, <2>2, ListsApart, ConcatEmptySeq
<1>5. watches'[f] = watches[f]
  BY <1>1, <1>3
<1>6. \E p : Removed(ListOf(f), ListOf(f)', p) /\ ListOf(f)[p] = Visited
  BY <1>5, DropFromScan
<1> QED
  BY <1>1, <1>2, <1>3, <1>4, <1>6, RestAfter, ListSame

\* Without a scan the lists are the watches.
LEMMA NoScanLists ==
  ASSUME Inv, NEW l \in Lit
  PROVE  /\ scan = NoScan => ListOf(l) = watches[l]
         /\ scan' = NoScan /\ watches'[l] \in Seq(Watch) => ListOf(l)' = watches'[l]
<1>1. 0 \notin Lit
  BY NegLit
<1>2. scan = NoScan => ListOf(l) = watches[l]
  BY <1>1, ListsApart DEF NoScan
<1>3. scan' = NoScan /\ watches'[l] \in Seq(Watch) => ListOf(l)' = watches'[l]
  <2>1. scan' = NoScan => RestOf(l)' = << >>
    BY <1>1 DEF RestOf, NoScan
  <2> QED
    BY <2>1, ListsApart, ConcatEmptySeq
<1> QED
  BY <1>2, <1>3

\* A clause is attached to the lists of its first two literals.
LEMMA AttachStep ==
  ASSUME Inv, scan = NoScan, scan' = NoScan, NEW x \in Watch, NEW y \in Watch,
         NEW a \in Lit, NEW b \in Lit, a # b,
         watches' = [watches EXCEPT ![a] = Append(@, x), ![b] = Append(@, y)]
  PROVE  /\ watches' \in [Lit -> Seq(Watch)] /\ ScanType'
         /\ \A l \in Lit \ {a, b} : ListOf(l)' = ListOf(l)
         /\ Extended(ListOf(a), ListOf(a)', x) /\ Extended(ListOf(b), ListOf(b)', y)
<1>1. watches \in [Lit -> Seq(Watch)]
  BY DEF Inv, TypeOK, DatabaseType
<1>2. /\ Append(watches[a], x) \in Seq(Watch) /\ Append(watches[b], y) \in Seq(Watch)
      /\ Extended(watches[a], Append(watches[a], x), x)
      /\ Extended(watches[b], Append(watches[b], y), y)
  BY <1>1, ExtendList
<1>3. /\ watches' \in [Lit -> Seq(Watch)]
      /\ watches'[a] = Append(watches[a], x) /\ watches'[b] = Append(watches[b], y)
      /\ \A l \in Lit \ {a, b} : watches'[l] = watches[l]
  BY <1>1, <1>2
<1>4. \A l \in Lit : ListOf(l) = watches[l] /\ ListOf(l)' = watches'[l]
  BY <1>3, NoScanLists
<1>5. ScanType'
  BY DEF ScanType
<1> QED
  BY <1>2, <1>3, <1>4, <1>5

\* Taking a list to scan it leaves its watches in the same order.
LEMMA DequeueStep ==
  ASSUME Inv, Dequeue
  PROVE  /\ watches' \in [Lit -> Seq(Watch)] /\ ScanType'
         /\ \A l \in Lit : ListOf(l)' = ListOf(l)
         /\ head + 1 \in Positions /\ Neg(trail[head + 1].lit) \in Lit
         /\ scan' # NoScan => scan'.lit = Neg(trail[head + 1].lit)
<1> DEFINE f == Neg(trail[head + 1].lit)
<1>1. /\ scan = NoScan /\ scan' = Unread(f, watches[f])
      /\ watches' = [watches EXCEPT ![f] = << >>]
  BY DEF Dequeue, Quiet
<1>2. head + 1 \in Positions /\ f \in Lit
  <2>1. head + 1 \in Positions
    BY DEF Dequeue, Positions, Inv, TypeOK, TrailType
  <2> QED
    BY <2>1, EntryFields, NegLit DEF Inv
<1> HIDE DEF f
<1>3. watches \in [Lit -> Seq(Watch)] /\ 0 \notin Lit
  BY NegLit DEF Inv, TypeOK, DatabaseType
<1>4. /\ watches' \in [Lit -> Seq(Watch)] /\ watches'[f] = << >>
      /\ \A l \in Lit \ {f} : watches'[l] = watches[l]
  BY <1>1, <1>2, <1>3
<1>5. CASE watches[f] = << >>
  <2>1. scan' = NoScan
    BY <1>1, <1>5 DEF Unread
  <2>2. \A l \in Lit : ListOf(l)' = ListOf(l)
    BY <1>1, <1>3, <1>4, <1>5, <2>1, NoScanLists
  <2> QED
    BY <1>2, <1>4, <2>1, <2>2 DEF ScanType, f
<1>6. CASE watches[f] # << >>
  <2>1. scan' = [lit |-> f, rest |-> watches[f]]
    BY <1>1, <1>6 DEF Unread
  <2>2. ScanType' /\ scan'.lit = f
    BY <1>2, <1>3, <1>6, <2>1 DEF ScanType
  <2>3. ASSUME NEW l \in Lit PROVE ListOf(l)' = ListOf(l)
    <3>1. CASE l = f
      <4>1. ListOf(l)' = << >> \o watches[l]
        BY <1>4, <2>1, <3>1, ListsApart DEF RestOf
      <4> QED
        BY <1>1, <1>3, <4>1, NoScanLists, ConcatEmptySeq
    <3>2. CASE l # f
      <4>1. RestOf(l)' = << >> /\ watches'[l] = watches[l] /\ watches[l] \in Seq(Watch)
        BY <1>3, <1>4, <2>1, <3>2 DEF RestOf
      <4>2. ListOf(l)' = watches[l] \o << >>
        BY <4>1, ListsApart
      <4> QED
        BY <1>1, <4>1, <4>2, NoScanLists, ConcatEmptySeq
    <3> QED
      BY <3>1, <3>2
  <2> QED
    BY <1>2, <1>4, <2>2, <2>3 DEF f
<1> QED
  BY <1>5, <1>6
-----------------------------------------------------------------------------
(***************************************************************************)
(* What the steps do to the arena.                                         *)
(***************************************************************************)

\* A step outside these actions leaves the clauses and their lists alone.
LEMMA DatabaseFrame ==
  ASSUME [Next]_vars
  PROVE  \/ UNCHANGED <<clauses, watches, scan>>
         \/ Dequeue \/ DropWatch \/ SkipWatch \/ KeepWatch \/ MoveWatch \/ Imply \/ Conflict
         \/ Learn \/ Reduce \/ AddStored
<1> USE DEF database, assigned, client, query, answer, budget, Unmoved, Installing
<1>1. CASE SolverStep
  <2>1. CASE Restart \/ NoRestart \/ RootConflict \/ AnswerInconsistent \/ BeginSearch \/ GiveUp
    BY <2>1 DEF Restart, NoRestart, RootConflict, AnswerInconsistent, BeginSearch, GiveUp
  <2>2. CASE Assume \/ FailAssumption \/ Decide \/ AnswerSat
    BY <2>2 DEF Assume, FailAssumption, Decide, AnswerSat
  <2>3. CASE Propagated \/ AddIgnored \/ AddFalsified \/ AddUnit \/ Settle
    BY <2>3 DEF Propagated, AddIgnored, AddFalsified, AddUnit, Settle
  <2> QED
    BY <1>1, <2>1, <2>2, <2>3 DEF SolverStep
<1>2. CASE ClientStep
  BY <1>2 DEF ClientStep, Add, Push, Pop, Refused, SolveCached, Solve
<1>3. CASE Interrupt \/ UNCHANGED vars
  BY <1>3 DEF Interrupt, vars
<1> QED
  BY <1>1, <1>2, <1>3 DEF Next

\* The literals of a clause are stored in another order.
LEMMA StoreFacts ==
  ASSUME TypeOK, NEW r \in Refs, NEW s \in Disjunction, Range(s) = LitsOf(r),
         clauses' = [clauses EXCEPT ![r].lits = s]
  PROVE  /\ clauses' \in Seq(ClauseRecord) /\ Refs' = Refs /\ Stored' = Stored
         /\ clauses'[r].lits = s /\ Watched(r)' = {s[1], s[2]}
         /\ \A q \in Refs : /\ LitsOf(q)' = LitsOf(q)
                            /\ clauses'[q].learned = clauses[q].learned
         /\ \A q \in Refs \ {r} : Watched(q)' = Watched(q)
<1>1. clauses \in Seq(ClauseRecord) /\ r \in 1 .. Len(clauses) /\ clauses[r] \in ClauseRecord
  BY ClauseFields DEF TypeOK, DatabaseType, Refs
<1> DEFINE d == [clauses[r] EXCEPT !.lits = s]
<1>2. d \in ClauseRecord /\ d.lits = s /\ d.learned = clauses[r].learned /\ d.deleted = clauses[r].deleted
  BY <1>1 DEF ClauseRecord
<1>3. clauses' = [clauses EXCEPT ![r] = d]
  OBVIOUS
<1> HIDE DEF d
<1>4. /\ clauses' \in Seq(ClauseRecord) /\ Len(clauses') = Len(clauses)
      /\ \A q \in 1 .. Len(clauses) : clauses'[q] = IF q = r THEN d ELSE clauses[q]
  BY <1>1, <1>2, <1>3, ExceptSeq
<1>5. Refs' = Refs
  BY <1>4 DEF Refs
<1>6. Stored' = Stored
  BY <1>2, <1>4 DEF Stored
<1>7. ASSUME NEW q \in Refs
      PROVE  LitsOf(q)' = LitsOf(q) /\ clauses'[q].learned = clauses[q].learned
  BY <1>2, <1>4 DEF LitsOf, Refs
<1>8. ASSUME NEW q \in Refs \ {r} PROVE Watched(q)' = Watched(q)
  BY <1>4 DEF Watched, Refs
<1> QED
  BY <1>1, <1>2, <1>4, <1>5, <1>6, <1>7, <1>8 DEF Watched

\* A clause is allocated after the others.
LEMMA AllocateFacts ==
  ASSUME TypeOK, NEW d \in ClauseRecord, ~d.deleted, NEW n, n = Len(clauses) + 1,
         clauses' = Append(clauses, d)
  PROVE  /\ clauses' \in Seq(ClauseRecord) /\ n \in Nat \ {0} /\ n \notin Refs
         /\ Refs' = Refs \cup {n} /\ Stored' = Stored \cup {n}
         /\ LitsOf(n)' = Range(d.lits) /\ Watched(n)' = {d.lits[1], d.lits[2]}
         /\ \A q \in Refs : /\ LitsOf(q)' = LitsOf(q) /\ Watched(q)' = Watched(q)
                            /\ clauses'[q].learned = clauses[q].learned
<1>1. clauses \in Seq(ClauseRecord) /\ Len(clauses) \in Nat
  BY DEF TypeOK, DatabaseType
<1>2. /\ clauses' \in Seq(ClauseRecord) /\ Len(clauses') = n
      /\ \A q \in 1 .. Len(clauses) : clauses'[q] = clauses[q]
      /\ clauses'[n] = d
  BY <1>1, AppendProperties
<1>3. Refs' = Refs \cup {n} /\ n \notin Refs /\ n \in Nat \ {0}
  BY <1>1, <1>2 DEF Refs
<1>4. Stored' = Stored \cup {n}
  BY <1>1, <1>2 DEF Stored
<1>5. LitsOf(n)' = Range(d.lits) /\ Watched(n)' = {d.lits[1], d.lits[2]}
  BY <1>2 DEF LitsOf, Watched
<1>6. ASSUME NEW q \in Refs
      PROVE  /\ LitsOf(q)' = LitsOf(q) /\ Watched(q)' = Watched(q)
             /\ clauses'[q].learned = clauses[q].learned
  BY <1>2 DEF LitsOf, Watched, Refs
<1> QED
  BY <1>2, <1>3, <1>4, <1>5, <1>6

\* Reduction marks clauses deleted that are no reasons.
LEMMA ReduceFacts ==
  ASSUME TypeOK, Reduce
  PROVE  /\ clauses' \in Seq(ClauseRecord) /\ Refs' = Refs /\ Stored' \subseteq Stored
         /\ \A q \in Refs : /\ LitsOf(q)' = LitsOf(q) /\ Watched(q)' = Watched(q)
                            /\ clauses'[q].learned = clauses[q].learned
         /\ \A q \in Stored \ Stored' : clauses[q].learned
         /\ \A q \in Stored, i \in Positions : trail[i].rsn = q => q \in Stored'
<1>1. PICK gone : /\ \A q \in gone : clauses[q].learned /\ \A i \in Positions : trail[i].rsn # q
                  /\ clauses' = [r \in 1 .. Len(clauses) |->
                        IF r \in gone THEN [clauses[r] EXCEPT !.deleted = TRUE] ELSE clauses[r]]
  BY DEF Reduce, Positions
<1>2. /\ clauses \in Seq(ClauseRecord) /\ Len(clauses) \in Nat
      /\ \A r \in 1 .. Len(clauses) : clauses[r] \in ClauseRecord
  BY DEF TypeOK, DatabaseType
<1>3. ASSUME NEW q \in 1 .. Len(clauses)
      PROVE  /\ clauses'[q] \in ClauseRecord
             /\ clauses'[q].lits = clauses[q].lits /\ clauses'[q].learned = clauses[q].learned
             /\ q \notin gone => clauses'[q].deleted = clauses[q].deleted
             /\ q \in gone => clauses'[q].deleted
  <2>1. CASE q \in gone
    <3>1. clauses'[q] = [clauses[q] EXCEPT !.deleted = TRUE]
      BY <1>1, <2>1
    <3> QED
      BY <1>2, <2>1, <3>1 DEF ClauseRecord
  <2>2. CASE q \notin gone
    BY <1>1, <1>2, <2>2
  <2> QED
    BY <2>1, <2>2
<1>4. clauses' \in Seq(ClauseRecord) /\ Len(clauses') = Len(clauses)
  <2>1. clauses' \in [1 .. Len(clauses) -> ClauseRecord]
    BY <1>1, <1>3
  <2> QED
    BY <1>2, <2>1
<1>5. Refs' = Refs
  BY <1>4 DEF Refs
<1>6. \A q \in Stored' : q \in Stored
  BY <1>3, <1>4 DEF Stored
<1>7. \A q \in Stored : q \notin gone => q \in Stored'
  BY <1>3, <1>4 DEF Stored
<1>8. ASSUME NEW q \in Refs
      PROVE  /\ LitsOf(q)' = LitsOf(q) /\ Watched(q)' = Watched(q)
             /\ clauses'[q].learned = clauses[q].learned
  BY <1>3 DEF LitsOf, Watched, Refs
<1> QED
  BY <1>1, <1>4, <1>5, <1>6, <1>7, <1>8

-----------------------------------------------------------------------------
(***************************************************************************)
(* What a resolution along the trail accounts for.                         *)
(***************************************************************************)

\* The literal l is one of x, or false at one of the positions S or the root.
Accounted(l, x, S) ==
  \/ l \in x
  \/ \E i \in S : FalseAt(l, i)
  \/ \E i \in Positions : FalseAt(l, i) /\ trail[i].lev = 0

\* The reasons at the positions S account for each other, down to x.
Resolvable(S, x) == \A i \in S :
  /\ trail[i].rsn # 0
  /\ \A l \in LitsOf(trail[i].rsn) \ {trail[i].lit} : Accounted(l, x, S)

\* The conflict clause, resolved with the reasons at S, leaves part of x.
ResolvedBy(x, S) == /\ S \subseteq Positions /\ Resolvable(S, x)
                    /\ \A l \in LitsOf(conflict) : Accounted(l, x, S)
Resolved(x) == \E S : ResolvedBy(x, S)

\* The other literals of a reason were false before.
LEMMA ReasonLits ==
  ASSUME TypeOK, TrailOK, ReasonsOK, NEW i \in Positions, trail[i].rsn # 0,
         NEW l \in LitsOf(trail[i].rsn) \ {trail[i].lit}
  PROVE  /\ l \in Lit /\ Entry(l) \in 1 .. i - 1 /\ Entry(l) \in Positions
         /\ FalseAt(l, Entry(l)) /\ LevelOf(l) = trail[Entry(l)].lev
<1>1. Explained(i)
  BY DEF ReasonsOK
<1>2. trail[i].rsn \in Refs
  BY <1>1 DEF Explained, Stored, Refs
<1>3. l \in Lit
  BY <1>2, ClauseFields
<1>4. PICK h \in 1 .. i - 1 : FalseAt(l, h)
  BY <1>1 DEF Explained
<1>5. Entry(l) = h /\ LevelOf(l) = trail[h].lev
  BY <1>3, <1>4, FalseFacts
<1> QED
  BY <1>3, <1>4, <1>5 DEF FalseAt

\* A false literal is accounted for by a clause that keeps it unless it is
\* false at the root.
LEMMA KeptAccounted ==
  ASSUME TypeOK, TrailOK, NEW l \in Lit, IsFalse(l), NEW x, NEW S, LevelOf(l) > 0 => l \in x
  PROVE  Accounted(l, x, S)
<1>1. PICK i \in Positions : FalseAt(l, i)
  BY FalseSomewhere
<1>2. LevelOf(l) = trail[i].lev /\ trail[i].lev \in Nat
  BY <1>1, FalseFacts, EntryFields
<1> QED
  BY <1>1, <1>2 DEF Accounted

-----------------------------------------------------------------------------
(***************************************************************************)
(* analyze()                                                               *)
(***************************************************************************)

\* One literal of the resolvent gives way to the reason of its falsity.
LEMMA ResolvedStep ==
  ASSUME TypeOK, TrailOK, ReasonsOK, Level > 0,
         NEW i \in 0 .. Len(trail) - 1, NEW x, Resolvent(x, i + 1), Resolved(x), NEW y,
         LET e == trail[i + 1] IN
           y = IF Neg(e.lit) \in x /\ Cardinality(Current(x)) > 1
               THEN (x \ {Neg(e.lit)}) \cup NonRoot(LitsOf(e.rsn) \ {e.lit})
               ELSE x
  PROVE  Resolved(y)
<1> DEFINE j == i + 1
           e == trail[j]
<1>1. CASE ~(Neg(e.lit) \in x /\ Cardinality(Current(x)) > 1)
  BY <1>1
<1>2. CASE Neg(e.lit) \in x /\ Cardinality(Current(x)) > 1
  <2>1. y = (x \ {Neg(e.lit)}) \cup NonRoot(LitsOf(e.rsn) \ {e.lit})
    BY <1>2
  <2>2. j \in Positions /\ Explained(j)
    BY <1>2, ResolvedReason
  <2>3. e.lit \in Lit /\ FalseAt(Neg(e.lit), j) /\ e.rsn # 0
    <3>1. e.lit \in Lit /\ e.rsn \in Stored
      BY <2>2, EntryFields DEF Explained
    <3> QED
      BY <2>2, <3>1, NegLit DEF FalseAt, Stored
  <2>4. PICK S : ResolvedBy(x, S)
    BY DEF Resolved
  <2>5. PICK T : T = S \cup {j}
    OBVIOUS
  <2>6. ASSUME NEW l, Accounted(l, x, S) PROVE Accounted(l, y, T)
    BY <2>1, <2>3, <2>5, <2>6 DEF Accounted
  <2>7. ASSUME NEW l \in LitsOf(e.rsn) \ {e.lit} PROVE Accounted(l, y, T)
    <3>1. l \in Lit /\ IsFalse(l)
      BY <2>2, <2>3, ReasonLits, FalseSomewhere
    <3>2. LevelOf(l) > 0 => l \in y
      BY <2>1 DEF NonRoot
    <3> QED
      BY <3>1, <3>2, KeptAccounted
  <2>8. T \subseteq Positions /\ \A l \in LitsOf(conflict) : Accounted(l, y, T)
    BY <2>2, <2>4, <2>5, <2>6 DEF ResolvedBy
  <2>9. Resolvable(T, y)
    BY <2>3, <2>4, <2>5, <2>6, <2>7 DEF ResolvedBy, Resolvable
  <2> QED
    BY <2>8, <2>9 DEF ResolvedBy, Resolved
<1> QED
  BY <1>1, <1>2

\* The clause of the first unique implication point follows by resolution.
LEMMA UipResolved ==
  ASSUME TypeOK, TrailOK, ReasonsOK, ConflictOK, conflict # 0, Level > 0
  PROVE  Resolved(FirstUip)
<1> DEFINE n == Len(trail)
<1>1. n \in Nat
  BY DEF TypeOK, TrailType
<1>2. PICK res :
        /\ FirstUip = res[0]
        /\ res[n] = NonRoot(LitsOf(conflict))
        /\ \A i \in 0 .. n - 1 : LET e == trail[i + 1] IN res[i] =
             IF Neg(e.lit) \in res[i + 1] /\ Cardinality(Current(res[i + 1])) > 1
             THEN (res[i + 1] \ {Neg(e.lit)}) \cup NonRoot(LitsOf(e.rsn) \ {e.lit})
             ELSE res[i + 1]
        /\ \A i \in 0 .. n : Resolvent(res[i], i)
  BY UipResolvents
<1>3. Resolved(res[n])
  <2>1. PICK x : x = NonRoot(LitsOf(conflict))
    OBVIOUS
  <2>2. ASSUME NEW l \in LitsOf(conflict) PROVE Accounted(l, x, {})
    <3>1. l \in Lit /\ IsFalse(l)
      BY ClauseFields DEF ConflictOK, Stored, Refs
    <3>2. LevelOf(l) > 0 => l \in x
      BY <2>1 DEF NonRoot
    <3> QED
      BY <3>1, <3>2, KeptAccounted
  <2>3. ResolvedBy(x, {})
    BY <2>2 DEF ResolvedBy, Resolvable
  <2> QED
    BY <1>2, <2>1, <2>3 DEF Resolved
<1> DEFINE T == {m \in 0 .. n : ~Resolved(res[n - m])}
<1>4. SUFFICES ASSUME T # {} PROVE FALSE
  <2>1. n \in 0 .. n /\ n - n = 0
    BY <1>1
  <2> QED
    BY <1>2, <2>1
<1>5. PICK m \in T : \A k \in T : m <= k
  <2>1. T \in SUBSET Nat
    OBVIOUS
  <2> HIDE DEF T
  <2> QED
    BY <1>4, <2>1, LeastNat
<1>6. m # 0
  BY <1>1, <1>3, <1>5
<1>7. m - 1 \in 0 .. n /\ m - 1 \notin T
  BY <1>1, <1>5, <1>6
<1> DEFINE i == n - m
<1>8. i \in 0 .. n - 1 /\ n - (m - 1) = i + 1 /\ i + 1 \in 0 .. n
  BY <1>1, <1>5, <1>6
<1>9. Resolved(res[i + 1]) /\ Resolvent(res[i + 1], i + 1)
  BY <1>2, <1>7, <1>8
<1>10. Resolved(res[i])
  BY <1>2, <1>8, <1>9, ResolvedStep
<1> QED
  BY <1>5, <1>10

-----------------------------------------------------------------------------
(***************************************************************************)
(* minimize_learned_clause()                                               *)
(***************************************************************************)

\* A set of positions may be defined from the first position on, each by the
\* ones before it.
LEMMA ForwardRecursion ==
  ASSUME NEW n \in Nat, NEW step \in [1 .. n -> [SUBSET (1 .. n) -> BOOLEAN]],
         \A i \in 1 .. n : \A A, B \in SUBSET (1 .. n) :
           (\A j \in 1 .. i - 1 : j \in A <=> j \in B) => step[i][A] = step[i][B]
  PROVE  \E X \in SUBSET (1 .. n) : \A i \in 1 .. n : i \in X <=> step[i][X]
<1> DEFINE UpTo(m) == \E X \in SUBSET (1 .. n) : \A i \in 1 .. m : i \in X <=> step[i][X]
           T == {m \in 0 .. n : ~UpTo(m)}
<1>1. CASE T = {}
  <2>1. UpTo(n)
    <3> HIDE DEF UpTo
    <3> QED
      BY <1>1
  <2> QED
    BY <2>1
<1>2. CASE T # {}
  <2>1. PICK m \in T : \A k \in T : m <= k
    <3>1. T \in SUBSET Nat
      OBVIOUS
    <3> HIDE DEF T
    <3> QED
      BY <1>2, <3>1, LeastNat
  <2>2. m \in 0 .. n /\ ~UpTo(m)
    <3> HIDE DEF UpTo
    <3> QED
      BY <2>1
  <2>3. UpTo(0)
    <3>1. {} \in SUBSET (1 .. n) /\ \A i \in 1 .. 0 : i \in {} <=> step[i][{}]
      OBVIOUS
    <3> QED
      BY <3>1
  <2>4. m # 0
    <3> HIDE DEF UpTo
    <3> QED
      BY <2>2, <2>3
  <2>5. UpTo(m - 1)
    <3> HIDE DEF UpTo
    <3>1. m - 1 \in 0 .. n /\ m - 1 \notin T
      BY <2>1, <2>2, <2>4
    <3> QED
      BY <3>1
  <2>6. PICK X \in SUBSET (1 .. n) : \A i \in 1 .. m - 1 : i \in X <=> step[i][X]
    BY <2>5
  <2>7. PICK Y \in SUBSET (1 .. n) : \A i \in 1 .. n :
          i \in Y <=> IF i = m THEN step[m][X] ELSE i \in X
    <3> DEFINE Y == {i \in 1 .. n : (i = m /\ step[m][X]) \/ (i # m /\ i \in X)}
    <3>1. \A i \in 1 .. n : i \in Y <=> IF i = m THEN step[m][X] ELSE i \in X
      OBVIOUS
    <3>2. Y \in SUBSET (1 .. n)
      OBVIOUS
    <3> HIDE DEF Y
    <3> QED
      BY <3>1, <3>2
  <2>8. ASSUME NEW i \in 1 .. m PROVE i \in Y <=> step[i][Y]
    <3>1. i \in 1 .. n /\ m \in 1 .. n
      BY <2>2, <2>4
    <3>2. \A j \in 1 .. i - 1 : j \in X <=> j \in Y
      BY <2>2, <2>7, <3>1
    <3>3. step[i][X] = step[i][Y]
      BY <3>1, <3>2
    <3> QED
      BY <2>2, <2>6, <2>7, <3>1, <3>3
  <2> QED
    BY <2>2, <2>8
<1> QED
  BY <1>1, <1>2

\* Whether a position is covered, given the covered positions before it.
Covering(i, rest, A) ==
  \/ trail[i].lev = 0
  \/ Neg(trail[i].lit) \in rest
  \/ /\ trail[i].rsn # 0
     /\ \E l \in rest : LevelBit(LevelOf(l)) = LevelBit(trail[i].lev)
     /\ \A l \in LitsOf(trail[i].rsn) \ {trail[i].lit} : Entry(l) \in A

\* The positions minimization covers: a reason of theirs leads back to the
\* rest of the clause.  The literals it drops have such a reason.
Minimizing(c, d, rest, X) ==
  /\ X \subseteq Positions
  /\ \A i \in X : Covering(i, rest, X)
  /\ \A k \in c \ d :
       /\ k \in rest /\ trail[Entry(k)].rsn # 0
       /\ Entry(k) \in Positions =>
            \A l \in LitsOf(trail[Entry(k)].rsn) \ {trail[Entry(k)].lit} : Entry(l) \in X

\* Minimization works with such a set of positions.
LEMMA MinimizeSteps ==
  ASSUME TypeOK, TrailOK, ReasonsOK, NEW c, NEW d, d = Minimized(c),
         NEW rest, rest = c \ Current(c)
  PROVE  \E X : Minimizing(c, d, rest, X)
<1> DEFINE n == Len(trail)
           Eqn(f) == f = [i \in 1 .. n |->
             \/ trail[i].lev = 0
             \/ Neg(trail[i].lit) \in rest
             \/ /\ trail[i].rsn # 0
                /\ \E l \in rest : LevelBit(LevelOf(l)) = LevelBit(trail[i].lev)
                /\ \A l \in LitsOf(trail[i].rsn) \ {trail[i].lit} : f[Entry(l)]]
           F == CHOOSE f : Eqn(f)
<1>1. n \in Nat /\ Positions = 1 .. n
  BY DEF TypeOK, TrailType, Positions
<1>2. \E f : Eqn(f)
  <2> DEFINE step == [i \in 1 .. n |-> [A \in SUBSET (1 .. n) |-> Covering(i, rest, A)]]
  <2>1. \A i \in 1 .. n, A \in SUBSET (1 .. n) :
          Covering(i, rest, A) \in BOOLEAN /\ (step[i][A] <=> Covering(i, rest, A))
    BY DEF Covering
  <2>2. step \in [1 .. n -> [SUBSET (1 .. n) -> BOOLEAN]]
    BY <2>1
  <2>3. ASSUME NEW i \in 1 .. n, NEW A \in SUBSET (1 .. n), NEW B \in SUBSET (1 .. n),
               \A j \in 1 .. i - 1 : j \in A <=> j \in B
        PROVE  Covering(i, rest, A) <=> Covering(i, rest, B)
    <3>1. ASSUME trail[i].rsn # 0, NEW l \in LitsOf(trail[i].rsn) \ {trail[i].lit}
          PROVE  Entry(l) \in A <=> Entry(l) \in B
      BY <1>1, <2>3, <3>1, ReasonLits
    <3> QED
      BY <3>1 DEF Covering
  <2>4. PICK X \in SUBSET (1 .. n) : \A i \in 1 .. n : i \in X <=> Covering(i, rest, X)
    <3>1. \A i \in 1 .. n : \A A, B \in SUBSET (1 .. n) :
            (\A j \in 1 .. i - 1 : j \in A <=> j \in B) => step[i][A] = step[i][B]
      <4> SUFFICES ASSUME NEW i \in 1 .. n, NEW A \in SUBSET (1 .. n), NEW B \in SUBSET (1 .. n),
                          \A j \in 1 .. i - 1 : j \in A <=> j \in B
                   PROVE  step[i][A] = step[i][B]
        OBVIOUS
      <4>1. Covering(i, rest, A) <=> Covering(i, rest, B)
        BY <2>3
      <4>2. step[i][A] = Covering(i, rest, A) /\ step[i][B] = Covering(i, rest, B)
        OBVIOUS
      <4> HIDE DEF step
      <4> QED
        BY <2>1, <4>1, <4>2
    <3> HIDE DEF step
    <3>2. \E X \in SUBSET (1 .. n) : \A i \in 1 .. n : i \in X <=> step[i][X]
      BY <1>1, <2>2, <3>1, ForwardRecursion
    <3> QED
      BY <2>1, <3>2
  <2>5. PICK f : f = [i \in 1 .. n |-> i \in X]
    OBVIOUS
  <2>6. \A i \in 1 .. n : f[i] = (i \in X)
    BY <2>5
  <2>7. ASSUME NEW i \in 1 .. n
        PROVE  f[i] = (\/ trail[i].lev = 0
                       \/ Neg(trail[i].lit) \in rest
                       \/ /\ trail[i].rsn # 0
                          /\ \E l \in rest : LevelBit(LevelOf(l)) = LevelBit(trail[i].lev)
                          /\ \A l \in LitsOf(trail[i].rsn) \ {trail[i].lit} : f[Entry(l)])
    <3>1. ASSUME trail[i].rsn # 0, NEW l \in LitsOf(trail[i].rsn) \ {trail[i].lit}
          PROVE  f[Entry(l)] <=> Entry(l) \in X
      <4>1. Entry(l) \in 1 .. n
        BY <1>1, <3>1, ReasonLits
      <4> QED
        BY <2>6, <4>1
    <3>2. ASSUME trail[i].rsn # 0
          PROVE  (\A l \in LitsOf(trail[i].rsn) \ {trail[i].lit} : f[Entry(l)])
                   <=> \A l \in LitsOf(trail[i].rsn) \ {trail[i].lit} : Entry(l) \in X
      BY <3>1, <3>2
    <3>3. Covering(i, rest, X) <=>
            (\/ trail[i].lev = 0
             \/ Neg(trail[i].lit) \in rest
             \/ /\ trail[i].rsn # 0
                /\ \E l \in rest : LevelBit(LevelOf(l)) = LevelBit(trail[i].lev)
                /\ \A l \in LitsOf(trail[i].rsn) \ {trail[i].lit} : f[Entry(l)])
      BY <3>2 DEF Covering
    <3>4. f[i] = (i \in X) /\ (i \in X <=> Covering(i, rest, X))
      BY <2>4, <2>6
    <3> DEFINE B == \/ trail[i].lev = 0
                    \/ Neg(trail[i].lit) \in rest
                    \/ /\ trail[i].rsn # 0
                       /\ \E l \in rest : LevelBit(LevelOf(l)) = LevelBit(trail[i].lev)
                       /\ \A l \in LitsOf(trail[i].rsn) \ {trail[i].lit} : f[Entry(l)]
    <3>5. B \in BOOLEAN /\ (i \in X) \in BOOLEAN
      OBVIOUS
    <3>6. (i \in X) <=> B
      BY <3>3, <3>4
    <3> HIDE DEF B
    <3>7. (i \in X) = B
      BY <3>5, <3>6
    <3>8. f[i] = B
      BY <3>4, <3>7
    <3> QED
      BY <3>8 DEF B
  <2>8. f = [i \in 1 .. n |-> f[i]]
    BY <2>5
  <2>9. Eqn(f)
    BY <2>7, <2>8
  <2> QED
    BY <2>9
<1>3. Eqn(F)
  <2> HIDE DEF Eqn
  <2> QED
    BY <1>2
<1>4. c \ d \subseteq
        {k \in rest : /\ trail[Entry(k)].rsn # 0
                   /\ \A l \in LitsOf(trail[Entry(k)].rsn) \ {trail[Entry(k)].lit} : F[Entry(l)]}
  BY DEF Minimized
<1>5. \A i \in 1 .. n : F[i] <=>
        (\/ trail[i].lev = 0
         \/ Neg(trail[i].lit) \in rest
         \/ /\ trail[i].rsn # 0
            /\ \E l \in rest : LevelBit(LevelOf(l)) = LevelBit(trail[i].lev)
            /\ \A l \in LitsOf(trail[i].rsn) \ {trail[i].lit} : F[Entry(l)])
  <2>1. PICK g : g = F
    OBVIOUS
  <2>2. Eqn(g)
    BY <1>3, <2>1
  <2> HIDE DEF F
  <2> QED
    BY <2>1, <2>2
<1>6. PICK X : X = {i \in 1 .. n : F[i]}
  OBVIOUS
<1> HIDE DEF F
<1>7. ASSUME NEW i \in Positions, trail[i].rsn # 0,
             NEW l \in LitsOf(trail[i].rsn) \ {trail[i].lit}, F[Entry(l)]
      PROVE  Entry(l) \in X
  BY <1>1, <1>6, <1>7, ReasonLits
<1>8. \A i \in X : Covering(i, rest, X)
  <2> QED
    BY <1>1, <1>5, <1>6, <1>7 DEF Covering
<1>9. \A k \in c \ d :
        /\ k \in rest /\ trail[Entry(k)].rsn # 0
        /\ Entry(k) \in Positions =>
             \A l \in LitsOf(trail[Entry(k)].rsn) \ {trail[Entry(k)].lit} : Entry(l) \in X
  <2> QED
    BY <1>4, <1>7
<1> QED
  BY <1>1, <1>6, <1>8, <1>9 DEF Minimizing

\* Minimization drops only literals that resolve away.
LEMMA MinimizedResolved ==
  ASSUME TypeOK, TrailOK, ReasonsOK, NEW c \in SUBSET Blamed, Resolved(c)
  PROVE  Resolved(Minimized(c))
<1>1. PICK d : d = Minimized(c)
  OBVIOUS
<1>2. PICK rest : rest = c \ Current(c)
  OBVIOUS
<1>3. PICK X : Minimizing(c, d, rest, X)
  BY <1>1, <1>2, MinimizeSteps
<1>4. PICK S : ResolvedBy(c, S)
  BY DEF Resolved
<1>5. PICK K : K = {i \in X : trail[i].lev > 0 /\ Neg(trail[i].lit) \notin rest}
  OBVIOUS
<1>6. PICK D : D = {Entry(k) : k \in c \ d}
  OBVIOUS
<1>7. PICK T : T = S \cup K \cup D
  OBVIOUS
<1>8. \A k \in c \ d : Entry(k) \in D /\ Entry(k) \in Positions /\ FalseAt(k, Entry(k))
  BY <1>6, BlamedFacts
<1>9. ASSUME NEW l, Accounted(l, c, S) PROVE Accounted(l, d, T)
  BY <1>7, <1>8, <1>9 DEF Accounted
<1>10. ASSUME NEW i \in Positions, trail[i].rsn # 0,
              \A l \in LitsOf(trail[i].rsn) \ {trail[i].lit} : Entry(l) \in X,
              NEW l \in LitsOf(trail[i].rsn) \ {trail[i].lit}
       PROVE  Accounted(l, d, T)
  <2>1. l \in Lit /\ Entry(l) \in Positions /\ FalseAt(l, Entry(l)) /\ Entry(l) \in X
    BY <1>10, ReasonLits
  <2>2. l = Neg(trail[Entry(l)].lit) /\ trail[Entry(l)].lev \in Nat
    BY <2>1, NegLit, EntryFields DEF FalseAt
  <2>3. CASE trail[Entry(l)].lev = 0
    BY <2>1, <2>3 DEF Accounted
  <2>4. CASE l \in rest
    BY <1>2, <1>7, <1>8, <2>4 DEF Accounted
  <2>5. CASE trail[Entry(l)].lev > 0 /\ l \notin rest
    BY <1>5, <1>7, <2>1, <2>2, <2>5 DEF Accounted
  <2> QED
    BY <2>2, <2>3, <2>4, <2>5
<1>11. ASSUME NEW i \in K
       PROVE  /\ trail[i].rsn # 0
              /\ \A l \in LitsOf(trail[i].rsn) \ {trail[i].lit} : Accounted(l, d, T)
  <2>1. i \in Positions /\ i \in X /\ trail[i].lev > 0 /\ Neg(trail[i].lit) \notin rest
    BY <1>3, <1>5 DEF Minimizing
  <2>2. /\ trail[i].rsn # 0
        /\ \A l \in LitsOf(trail[i].rsn) \ {trail[i].lit} : Entry(l) \in X
    BY <1>3, <2>1 DEF Minimizing, Covering
  <2> QED
    BY <1>10, <2>1, <2>2
<1>12. ASSUME NEW i \in D
       PROVE  /\ trail[i].rsn # 0
              /\ \A l \in LitsOf(trail[i].rsn) \ {trail[i].lit} : Accounted(l, d, T)
  <2>1. PICK k \in c \ d : i = Entry(k)
    BY <1>6
  <2>2. /\ trail[i].rsn # 0 /\ i \in Positions
        /\ \A l \in LitsOf(trail[i].rsn) \ {trail[i].lit} : Entry(l) \in X
    BY <1>3, <1>8, <2>1 DEF Minimizing
  <2> QED
    BY <1>10, <2>2
<1>13. Resolvable(T, d)
  BY <1>4, <1>7, <1>9, <1>11, <1>12 DEF ResolvedBy, Resolvable
<1>14. T \subseteq Positions /\ \A l \in LitsOf(conflict) : Accounted(l, d, T)
  BY <1>3, <1>4, <1>5, <1>6, <1>7, <1>8, <1>9 DEF ResolvedBy, Minimizing
<1> QED
  BY <1>1, <1>13, <1>14 DEF Resolved, ResolvedBy

-----------------------------------------------------------------------------
(***************************************************************************)
(* analyze_failed_assumption()                                             *)
(***************************************************************************)

\* The variables of the failure, after each position of the trail.
LEMMA InvolvedSteps ==
  ASSUME trail \in Seq(Assignment), NEW l
  PROVE  \E seen : /\ Involved(l) = seen[0]
                   /\ seen[Len(trail)] = {VarOf(l)}
                   /\ \A i \in 0 .. Len(trail) - 1 : LET e == trail[i + 1] IN seen[i] =
                        IF VarOf(e.lit) \in seen[i + 1] /\ e.lev > 0 /\ e.rsn # 0
                        THEN seen[i + 1] \cup {VarOf(k) : k \in NonRoot(LitsOf(e.rsn))}
                        ELSE seen[i + 1]
<1> DEFINE n == Len(trail)
           U == {VarOf(l)} \cup
                UNION {{VarOf(k) : k \in NonRoot(LitsOf(trail[j].rsn))} : j \in 1 .. n}
           Step(e, x) == IF VarOf(e.lit) \in x /\ e.lev > 0 /\ e.rsn # 0
                         THEN x \cup {VarOf(k) : k \in NonRoot(LitsOf(e.rsn))}
                         ELSE x
           step == [j \in 1 .. n |-> [x \in SUBSET U |-> Step(trail[j], x)]]
           IsSeen(g) == g = [i \in 0 .. n |-> IF i = n THEN {VarOf(l)}
                                              ELSE Step(trail[i + 1], g[i + 1])]
<1>1. n \in Nat
  OBVIOUS
<1>2. {VarOf(l)} \in SUBSET U
  OBVIOUS
<1>3. \A j \in 1 .. n, x \in SUBSET U : Step(trail[j], x) \in SUBSET U
  OBVIOUS
<1>4. step \in [1 .. n -> [SUBSET U -> SUBSET U]]
  <2> HIDE DEF U, Step
  <2> QED
    BY <1>3
<1>5. PICK g \in [0 .. n -> SUBSET U] :
         /\ g[n] = {VarOf(l)}
         /\ \A i \in 0 .. n - 1 : g[i] = step[i + 1][g[i + 1]]
  <2> DEFINE S == SUBSET U
             a == {VarOf(l)}
  <2>1. n \in Nat /\ a \in S /\ IsStep(step, n, S)
    BY <1>1, <1>2, <1>4 DEF IsStep
  <2> HIDE DEF S, a, step, n
  <2>2. PICK g : IsChain(g, n, S, a, step)
    BY <2>1, BackwardRecursion
  <2> QED
    BY <2>2 DEF S, a, IsChain
<1>6. \A i \in 0 .. n - 1 : g[i] = Step(trail[i + 1], g[i + 1])
  <2> SUFFICES ASSUME NEW i \in 0 .. n - 1 PROVE g[i] = Step(trail[i + 1], g[i + 1])
    OBVIOUS
  <2>1. i + 1 \in 1 .. n /\ g[i + 1] \in SUBSET U
    BY <1>1, <1>5
  <2>2. \A x \in SUBSET U : step[i + 1][x] = Step(trail[i + 1], x)
    <3> HIDE DEF U, Step
    <3> QED
      BY <2>1
  <2> QED
    BY <1>5, <2>1, <2>2
<1>7. IsSeen(g)
  <2> HIDE DEF U, step, Step
  <2>1. \A i \in 0 .. n : g[i] = IF i = n THEN {VarOf(l)} ELSE Step(trail[i + 1], g[i + 1])
    BY <1>1, <1>5, <1>6
  <2> QED
    BY <1>5, <2>1
<1> DEFINE seen == CHOOSE r : IsSeen(r)
<1>8. IsSeen(seen)
  BY <1>7
<1>9. Involved(l) = seen[0]
  BY DEF Involved
<1>10. /\ seen[n] = {VarOf(l)}
       /\ \A i \in 0 .. n - 1 : seen[i] = Step(trail[i + 1], seen[i + 1])
  <2> HIDE DEF seen, Step
  <2>1. \A i \in 0 .. n : seen[i] = IF i = n THEN {VarOf(l)} ELSE Step(trail[i + 1], seen[i + 1])
    BY <1>8
  <2> QED
    BY <1>1, <2>1
<1> QED
  BY <1>9, <1>10

\* The variables V, closed under the reasons at the positions beyond i.
Closed(V, i) == \A p \in Positions :
  p > i /\ VarOf(trail[p].lit) \in V /\ trail[p].lev > 0 /\ trail[p].rsn # 0
    => \A k \in NonRoot(LitsOf(trail[p].rsn)) : VarOf(k) \in V

\* A reason adds no variable assigned later.
LEMMA ClosedStep ==
  ASSUME TypeOK, TrailOK, ReasonsOK, NEW i \in 0 .. Len(trail) - 1, NEW V, Closed(V, i + 1), NEW W,
         LET e == trail[i + 1] IN
           W = IF VarOf(e.lit) \in V /\ e.lev > 0 /\ e.rsn # 0
               THEN V \cup {VarOf(k) : k \in NonRoot(LitsOf(e.rsn))}
               ELSE V
  PROVE  Closed(W, i) /\ V \subseteq W
<1> DEFINE j == i + 1
           e == trail[j]
<1>1. j \in Positions /\ i \in Nat
  BY DEF TypeOK, TrailType, Positions
<1>2. V \subseteq W
  OBVIOUS
<1>3. ASSUME NEW p \in Positions, p >= j, VarOf(trail[p].lit) \in W
      PROVE  VarOf(trail[p].lit) \in V
  <2> SUFFICES ASSUME e.rsn # 0, VarOf(e.lit) \in V,
                      NEW k \in NonRoot(LitsOf(e.rsn)), VarOf(trail[p].lit) = VarOf(k)
               PROVE  VarOf(trail[p].lit) \in V
    BY <1>3
  <2>1. CASE k = e.lit
    BY <2>1
  <2>2. CASE k # e.lit
    <3>1. k \in LitsOf(e.rsn) \ {e.lit}
      BY <2>2 DEF NonRoot
    <3>2. Entry(k) \in 1 .. j - 1
      BY <1>1, <3>1, ReasonLits
    <3>3. Entry(k) = p
      BY EntryOf
    <3> QED
      BY <1>1, <1>3, <3>2, <3>3 DEF Positions
  <2> QED
    BY <2>1, <2>2
<1>4. ASSUME NEW p \in Positions, p > i, VarOf(trail[p].lit) \in W, trail[p].lev > 0,
             trail[p].rsn # 0, NEW k \in NonRoot(LitsOf(trail[p].rsn))
      PROVE  VarOf(k) \in W
  <2>1. VarOf(trail[p].lit) \in V /\ p \in Nat
    <3>1. p \in Nat /\ p >= j
      BY <1>1, <1>4 DEF Positions
    <3> QED
      BY <1>3, <1>4, <3>1
  <2>2. CASE p = j
    BY <1>4, <2>1, <2>2
  <2>3. CASE p # j
    <3>1. p > j
      BY <1>1, <1>4, <2>1, <2>3
    <3>2. VarOf(k) \in V
      BY <1>4, <2>1, <3>1 DEF Closed
    <3> QED
      BY <1>2, <3>2
  <2> QED
    BY <2>2, <2>3
<1> QED
  BY <1>2, <1>4 DEF Closed

\* The failure involves its own variable, and with an implied variable those
\* of the reason.
LEMMA InvolvedFacts ==
  ASSUME TypeOK, TrailOK, ReasonsOK, NEW l
  PROVE  VarOf(l) \in Involved(l) /\ Closed(Involved(l), 0)
<1> DEFINE n == Len(trail)
<1>1. n \in Nat /\ trail \in Seq(Assignment)
  BY DEF TypeOK, TrailType
<1>2. PICK seen :
        /\ Involved(l) = seen[0]
        /\ seen[n] = {VarOf(l)}
        /\ \A i \in 0 .. n - 1 : LET e == trail[i + 1] IN seen[i] =
             IF VarOf(e.lit) \in seen[i + 1] /\ e.lev > 0 /\ e.rsn # 0
             THEN seen[i + 1] \cup {VarOf(k) : k \in NonRoot(LitsOf(e.rsn))}
             ELSE seen[i + 1]
  BY <1>1, InvolvedSteps
<1> DEFINE Good(i) == Closed(seen[i], i) /\ VarOf(l) \in seen[i]
<1>3. Good(n)
  BY <1>1, <1>2 DEF Closed, Positions
<1> DEFINE T == {m \in 0 .. n : ~Good(n - m)}
<1>4. SUFFICES ASSUME T # {} PROVE FALSE
  <2>1. n \in 0 .. n /\ n - n = 0
    BY <1>1
  <2>2. Good(0)
    BY <2>1
  <2> QED
    BY <1>2, <2>2
<1>5. PICK m \in T : \A k \in T : m <= k
  <2>1. T \in SUBSET Nat
    OBVIOUS
  <2> HIDE DEF T
  <2> QED
    BY <1>4, <2>1, LeastNat
<1>6. m # 0
  <2> HIDE DEF Good
  <2> QED
    BY <1>1, <1>3, <1>5
<1>7. m - 1 \in 0 .. n /\ m - 1 \notin T
  BY <1>1, <1>5, <1>6
<1> DEFINE i == n - m
<1>8. i \in 0 .. n - 1 /\ n - (m - 1) = i + 1
  BY <1>1, <1>5, <1>6
<1>9. Good(i + 1)
  <2> HIDE DEF Good
  <2> QED
    BY <1>7, <1>8
<1>10. Closed(seen[i], i) /\ seen[i + 1] \subseteq seen[i]
  <2>1. PICK V, W : V = seen[i + 1] /\ W = seen[i]
    OBVIOUS
  <2>2. LET e == trail[i + 1] IN
          W = IF VarOf(e.lit) \in V /\ e.lev > 0 /\ e.rsn # 0
              THEN V \cup {VarOf(k) : k \in NonRoot(LitsOf(e.rsn))}
              ELSE V
    BY <1>2, <1>8, <2>1
  <2>3. Closed(V, i + 1) /\ i \in 0 .. Len(trail) - 1
    BY <1>8, <1>9, <2>1
  <2> HIDE DEF i
  <2>4. Closed(W, i) /\ V \subseteq W
    BY <2>2, <2>3, ClosedStep
  <2> QED
    BY <2>1, <2>4
<1>11. Good(i)
  BY <1>9, <1>10
<1> QED
  BY <1>5, <1>11

\* The decisions and the implied assignments a failure involves.
BlamedFor(l) == {i \in Positions : /\ trail[i].lev > 0 /\ trail[i].rsn = 0
                                   /\ VarOf(trail[i].lit) \in Involved(l)}
ImpliedFor(l) == {i \in Positions : /\ trail[i].lev > 0 /\ trail[i].rsn # 0
                                    /\ VarOf(trail[i].lit) \in Involved(l)}

\* The blamed decisions account for the falsity of the failed assumption.
LEMMA BlameResolved ==
  ASSUME TypeOK, TrailOK, ReasonsOK, NEW l \in Lit, IsFalse(l), NEW x,
         x = {Neg(trail[i].lit) : i \in BlamedFor(l)}
  PROVE  Resolvable(ImpliedFor(l), x) /\ Accounted(l, x, ImpliedFor(l))
<1>1. ASSUME NEW k \in Lit, NEW i \in Positions, FalseAt(k, i), VarOf(k) \in Involved(l)
      PROVE  Accounted(k, x, ImpliedFor(l))
  <2>1. k = Neg(trail[i].lit) /\ VarOf(trail[i].lit) = VarOf(k) /\ trail[i].lev \in Nat
    BY <1>1, NegLit, EntryFields DEF FalseAt
  <2>2. CASE trail[i].lev = 0
    BY <1>1, <2>2 DEF Accounted
  <2>3. CASE trail[i].lev > 0 /\ trail[i].rsn = 0
    BY <1>1, <2>1, <2>3 DEF Accounted, BlamedFor
  <2>4. CASE trail[i].lev > 0 /\ trail[i].rsn # 0
    BY <1>1, <2>1, <2>4 DEF Accounted, ImpliedFor
  <2> QED
    BY <2>1, <2>2, <2>3, <2>4
<1>2. Accounted(l, x, ImpliedFor(l))
  BY <1>1, InvolvedFacts, FalseSomewhere
<1>3. ASSUME NEW i \in ImpliedFor(l), NEW k \in LitsOf(trail[i].rsn) \ {trail[i].lit}
      PROVE  Accounted(k, x, ImpliedFor(l))
  <2>1. /\ i \in Positions /\ trail[i].lev > 0 /\ trail[i].rsn # 0
        /\ VarOf(trail[i].lit) \in Involved(l) /\ i > 0
    BY DEF ImpliedFor, Positions
  <2>2. /\ k \in Lit /\ Entry(k) \in Positions /\ FalseAt(k, Entry(k))
        /\ LevelOf(k) = trail[Entry(k)].lev /\ trail[Entry(k)].lev \in Nat
    BY <2>1, ReasonLits, EntryFields
  <2>3. CASE LevelOf(k) = 0
    BY <2>2, <2>3 DEF Accounted
  <2>4. CASE LevelOf(k) > 0
    <3>1. k \in NonRoot(LitsOf(trail[i].rsn))
      BY <2>4 DEF NonRoot
    <3>2. VarOf(k) \in Involved(l)
      BY <2>1, <3>1, InvolvedFacts DEF Closed
    <3> QED
      BY <1>1, <2>2, <3>2
  <2> QED
    BY <2>2, <2>3, <2>4
<1> QED
  BY <1>2, <1>3 DEF Resolvable, ImpliedFor
=============================================================================
