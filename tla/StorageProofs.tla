---------------------------- MODULE StorageProofs ----------------------------
(***************************************************************************)
(* What Storage promises, for every configuration: clauses survive         *)
(* compaction, the gaps are accounted for, no reason is deleted, the count *)
(* of learned clauses is exact, and the bounded samples are the least of   *)
(* all they stand for.                                                     *)
(***************************************************************************)
EXTENDS Storage, FiniteSetTheorems, SequenceTheorems, WellFoundedInduction, TLAPS

-----------------------------------------------------------------------------
(***************************************************************************)
(* Induction along a sequence.                                             *)
(***************************************************************************)

\* A nonempty set of natural numbers has a least element.
LEMMA LeastNat ==
  ASSUME NEW T \in SUBSET Nat, T # {}
  PROVE  \E x \in T : \A y \in T : x <= y
<1> DEFINE R == OpToRel(<, Nat)
<1>1. IsWellFoundedOn(R, Nat)
  BY NatLessThanWellFounded
<1>2. \A y, x \in Nat : <<y, x>> \in R <=> y < x
  BY DEF OpToRel
<1> HIDE DEF R
<1>3. PICK x \in T : \A y \in T : <<y, x>> \notin R
  BY <1>1, WFMin
<1>4. \A y \in T : ~ (y < x)
  BY <1>2, <1>3
<1> QED
  BY <1>4

\* What holds at m and passes from each number below n to the next holds up to n.
LEMMA UpTo ==
  ASSUME NEW m \in Nat, NEW n \in Nat, NEW T \in SUBSET (m .. n), m \in T,
         \A k \in m .. n - 1 : k \in T => k + 1 \in T
  PROVE  \A k \in m .. n : k \in T
<1> DEFINE Rest == (m .. n) \ T
<1>1. CASE Rest = {}
  BY <1>1
<1>2. CASE Rest # {}
  <2>1. PICK k \in Rest : \A j \in Rest : k <= j
    <3>1. Rest \in SUBSET Nat
      OBVIOUS
    <3> HIDE DEF Rest
    <3> QED
      BY <1>2, <3>1, LeastNat
  <2>2. k # m /\ k - 1 \in m .. n - 1 /\ k - 1 + 1 = k
    BY <2>1
  <2>3. k - 1 \in T
    BY <2>1, <2>2
  <2> QED
    BY <2>1, <2>2, <2>3
<1> QED
  BY <1>1, <1>2

\* The values of a recursive function on 0 .. n.
IsChain(g, n, a, step) ==
  g = [k \in 0 .. n |-> IF k = 0 THEN a ELSE step[k][g[k - 1]]]
IsStep(step, n, S) == step \in [1 .. n -> [S -> S]]

\* A function may be defined from 0 upwards.
LEMMA Recursion ==
  ASSUME NEW n \in Nat, NEW S, NEW a \in S, NEW step, IsStep(step, n, S)
  PROVE  \E g \in [0 .. n -> S] : IsChain(g, n, a, step)
<1> DEFINE Until(k, g) == /\ g[0] = a
                          /\ \A i \in 1 .. k : g[i] = step[i][g[i - 1]]
           T == {k \in 0 .. n : \E g \in [0 .. k -> S] : Until(k, g)}
<1>1. 0 \in T
  <2>1. [i \in 0 .. 0 |-> a] \in [0 .. 0 -> S]
    OBVIOUS
  <2>2. Until(0, [i \in 0 .. 0 |-> a])
    OBVIOUS
  <2> HIDE DEF Until
  <2> QED
    BY <2>1, <2>2
<1>2. ASSUME NEW k \in 0 .. n - 1, k \in T PROVE k + 1 \in T
  <2>1. PICK g \in [0 .. k -> S] : Until(k, g)
    BY <1>2
  <2> DEFINE h == [i \in 0 .. k + 1 |-> IF i = k + 1 THEN step[i][g[k]] ELSE g[i]]
  <2>2. g[k] \in S /\ k + 1 \in 1 .. n
    OBVIOUS
  <2>3. step[k + 1][g[k]] \in S
    BY <2>2 DEF IsStep
  <2>4. h \in [0 .. k + 1 -> S]
    BY <2>3
  <2>5. Until(k + 1, h)
    <3>1. h[0] = a
      BY <2>1
    <3>2. ASSUME NEW i \in 1 .. k + 1 PROVE h[i] = step[i][h[i - 1]]
      <4>1. i - 1 \in 0 .. k /\ h[i - 1] = g[i - 1]
        OBVIOUS
      <4>2. CASE i = k + 1
        <5>1. i - 1 = k
          BY <4>2
        <5> QED
          BY <4>1, <4>2, <5>1
      <4>3. CASE i # k + 1
        BY <2>1, <4>1, <4>3
      <4> QED
        BY <4>2, <4>3
    <3> QED
      BY <3>1, <3>2
  <2> HIDE DEF Until, h
  <2> QED
    BY <2>2, <2>4, <2>5
<1>3. n \in T
  <2> HIDE DEF T
  <2>1. T \in SUBSET (0 .. n)
    BY DEF T
  <2>2. \A k \in 0 .. n : k \in T
    BY <1>1, <1>2, <2>1, UpTo
  <2> QED
    BY <2>2
<1>4. PICK g \in [0 .. n -> S] : Until(n, g)
  BY <1>3
<1>5. g = [k \in 0 .. n |-> IF k = 0 THEN a ELSE step[k][g[k - 1]]]
  BY <1>4
<1> QED
  BY <1>4, <1>5 DEF IsChain

\* The members of a finite set are listed once each.
LEMMA SetToSeqFacts ==
  ASSUME NEW D, IsFiniteSet(D)
  PROVE  LET s == SetToSeq(D)
         IN  /\ s \in Seq(D) /\ Len(s) = Cardinality(D) /\ Len(s) \in Nat
             /\ \A i \in 1 .. Len(s) : s[i] \in D
             /\ \A i, j \in 1 .. Len(s) : s[i] = s[j] => i = j
             /\ \A x \in D : \E i \in 1 .. Len(s) : s[i] = x
             /\ Range(s) = D
<1> DEFINE n == Cardinality(D)
           s == SetToSeq(D)
<1>1. PICK f : f \in Bijection(1 .. n, D)
  BY FS_CardinalityType DEF ExistsBijection
<1>2. f \in [1 .. n -> D] /\ IsInjective(f)
  BY <1>1 DEF Bijection, Injection
<1>3. s \in [1 .. n -> D] /\ IsInjective(s)
  BY <1>2 DEF SetToSeq
<1>4. n \in Nat
  BY FS_CardinalityType
<1>5. IsFiniteSet(1 .. n) /\ Cardinality(1 .. n) = n
  BY <1>4, FS_Interval
<1>6. s \in Injection(1 .. n, D)
  BY <1>3 DEF Injection
<1>7. s \in Surjection(1 .. n, D)
  <2> HIDE DEF n, s
  <2> QED
    BY <1>5, <1>6, FS_Injection DEF n
<1> HIDE DEF s
<1>8. \A x \in D : \E i \in 1 .. n : s[i] = x
  BY <1>7 DEF Surjection
<1>9. s \in Seq(D) /\ Len(s) = n /\ DOMAIN s = 1 .. n
  BY <1>3, <1>4
<1>10. \A i, j \in 1 .. n : s[i] = s[j] => i = j
  BY <1>3, <1>9 DEF IsInjective
<1>11. Range(s) = D
  BY <1>3, <1>8, <1>9 DEF Range
<1> QED
  BY <1>3, <1>4, <1>8, <1>9, <1>10, <1>11 DEF s

-----------------------------------------------------------------------------
(***************************************************************************)
(* The n first of a set.  An order is a set of pairs.                      *)
(***************************************************************************)
Orders(R, U) ==
  /\ \A x \in U : <<x, x>> \notin R
  /\ \A x, y, z \in U : <<x, y>> \in R /\ <<y, z>> \in R => <<x, z>> \in R
  /\ \A x, y \in U : x = y \/ <<x, y>> \in R \/ <<y, x>> \in R
Below(S, R, x) == {y \in S : <<y, x>> \in R}
Low(S, R, n) == {x \in S : Cardinality(Below(S, R, x)) < n}

\* A rank is a number, below the size of the set.
LEMMA RankFacts ==
  ASSUME NEW R, NEW U, Orders(R, U), NEW S \in SUBSET U, IsFiniteSet(S), NEW x \in U
  PROVE  /\ IsFiniteSet(Below(S, R, x)) /\ Cardinality(Below(S, R, x)) \in Nat
         /\ Cardinality(S) \in Nat /\ Cardinality(Below(S, R, x)) <= Cardinality(S)
         /\ x \in S => Cardinality(Below(S, R, x)) < Cardinality(S)
<1>1. Below(S, R, x) \in SUBSET S /\ x \notin Below(S, R, x)
  BY DEF Below, Orders
<1>2. /\ IsFiniteSet(Below(S, R, x)) /\ Cardinality(Below(S, R, x)) <= Cardinality(S)
      /\ Cardinality(S) = Cardinality(Below(S, R, x)) => S = Below(S, R, x)
  BY <1>1, FS_Subset
<1>3. Cardinality(Below(S, R, x)) \in Nat /\ Cardinality(S) \in Nat
  BY <1>2, FS_CardinalityType
<1> QED
  BY <1>1, <1>2, <1>3

\* Ranks grow along the order.
LEMMA RankGrows ==
  ASSUME NEW R, NEW U, Orders(R, U), NEW S \in SUBSET U, IsFiniteSet(S),
         NEW x \in S, NEW y \in S, <<x, y>> \in R
  PROVE  Cardinality(Below(S, R, x)) < Cardinality(Below(S, R, y))
<1>1. Below(S, R, x) \in SUBSET Below(S, R, y)
  BY DEF Below, Orders
<1>2. x \in Below(S, R, y) /\ x \notin Below(S, R, x)
  BY DEF Below, Orders
<1>3. /\ IsFiniteSet(Below(S, R, y)) /\ Cardinality(Below(S, R, y)) \in Nat
      /\ Cardinality(Below(S, R, x)) \in Nat
  BY RankFacts
<1>4. /\ Cardinality(Below(S, R, x)) <= Cardinality(Below(S, R, y))
      /\ Cardinality(Below(S, R, x)) = Cardinality(Below(S, R, y)) => Below(S, R, x) = Below(S, R, y)
  BY <1>1, <1>3, FS_Subset
<1> QED
  BY <1>2, <1>3, <1>4

\* A finite set that is not empty has a first element.
LEMMA FirstElement ==
  ASSUME NEW R, NEW U, Orders(R, U), NEW S \in SUBSET U, IsFiniteSet(S), S # {}
  PROVE  \E x \in S : \A y \in S : y = x \/ <<x, y>> \in R
<1> DEFINE T == {Cardinality(Below(S, R, x)) : x \in S}
<1>1. \A x \in S : Cardinality(Below(S, R, x)) \in Nat
  BY RankFacts
<1>2. PICK m \in T : \A k \in T : m <= k
  <2>1. T \in SUBSET Nat /\ T # {}
    BY <1>1
  <2> HIDE DEF T
  <2> QED
    BY <2>1, LeastNat
<1>3. PICK x \in S : m = Cardinality(Below(S, R, x))
  BY <1>2
<1>4. ASSUME NEW y \in S PROVE y = x \/ <<x, y>> \in R
  <2>1. CASE <<y, x>> \in R
    <3>1. Cardinality(Below(S, R, y)) < Cardinality(Below(S, R, x))
      BY <2>1, RankGrows
    <3>2. Cardinality(Below(S, R, y)) \in T
      BY <1>4
    <3> QED
      BY <1>1, <1>2, <1>3, <3>1, <3>2
  <2> QED
    BY <2>1 DEF Orders
<1> QED
  BY <1>4

\* The same order from above.
LEMMA Reversed ==
  ASSUME NEW R, NEW U, Orders(R, U)
  PROVE  LET Q == {p \in U \X U : <<p[2], p[1]>> \in R}
         IN  Orders(Q, U) /\ \A x, y \in U : <<x, y>> \in Q <=> <<y, x>> \in R
<1> DEFINE Q == {p \in U \X U : <<p[2], p[1]>> \in R}
<1>1. \A x, y \in U : <<x, y>> \in Q <=> <<y, x>> \in R
  <2>1. \A x, y \in U : <<x, y>> \in U \X U /\ <<x, y>>[1] = x /\ <<x, y>>[2] = y
    OBVIOUS
  <2> QED
    BY <2>1
<1> HIDE DEF Q
<1>2. Orders(Q, U)
  BY <1>1 DEF Orders
<1> QED
  BY <1>1, <1>2 DEF Q

\* A finite set that is not empty has a last element.
LEMMA LastElement ==
  ASSUME NEW R, NEW U, Orders(R, U), NEW S \in SUBSET U, IsFiniteSet(S), S # {}
  PROVE  \E x \in S : \A y \in S : y = x \/ <<y, x>> \in R
<1> DEFINE Q == {p \in U \X U : <<p[2], p[1]>> \in R}
<1>1. Orders(Q, U) /\ \A x, y \in U : <<x, y>> \in Q <=> <<y, x>> \in R
  BY Reversed
<1> HIDE DEF Q
<1>2. PICK x \in S : \A y \in S : y = x \/ <<x, y>> \in Q
  BY <1>1, FirstElement
<1> QED
  BY <1>1, <1>2

\* What comes before one of the n first is one of them.
LEMMA LowDown ==
  ASSUME NEW R, NEW U, Orders(R, U), NEW S \in SUBSET U, IsFiniteSet(S), NEW n \in Nat,
         NEW x \in Low(S, R, n), NEW y \in S, <<y, x>> \in R
  PROVE  y \in Low(S, R, n)
<1>1. x \in S /\ Cardinality(Below(S, R, x)) < n
  BY DEF Low
<1>2. Cardinality(Below(S, R, y)) < Cardinality(Below(S, R, x))
  BY <1>1, RankGrows
<1>3. Cardinality(Below(S, R, y)) \in Nat /\ Cardinality(Below(S, R, x)) \in Nat
  BY <1>1, RankFacts
<1> QED
  BY <1>1, <1>2, <1>3 DEF Low

\* The n first are at most n.
LEMMA LowSize ==
  ASSUME NEW R, NEW U, Orders(R, U), NEW S \in SUBSET U, IsFiniteSet(S), NEW n \in Nat
  PROVE  /\ Low(S, R, n) \in SUBSET S /\ IsFiniteSet(Low(S, R, n))
         /\ Cardinality(Low(S, R, n)) \in Nat /\ Cardinality(Low(S, R, n)) <= n
<1> DEFINE T == Low(S, R, n)
<1>1. T \in SUBSET S
  BY DEF Low
<1>2. IsFiniteSet(T) /\ Cardinality(T) \in Nat
  BY <1>1, FS_Subset, FS_CardinalityType
<1>3. CASE T = {}
  <2>1. Cardinality(T) = 0
    BY <1>3, FS_EmptySet
  <2> QED
    BY <1>1, <1>2, <2>1
<1>4. CASE T # {}
  <2>1. PICK x \in T : \A y \in T : y = x \/ <<y, x>> \in R
    <3>1. T \in SUBSET U
      BY <1>1
    <3> HIDE DEF T
    <3> QED
      BY <1>2, <1>4, <3>1, LastElement
  <2>2. T \ {x} \in SUBSET Below(S, R, x)
    BY <1>1, <2>1 DEF Below
  <2>3. IsFiniteSet(Below(S, R, x)) /\ Cardinality(Below(S, R, x)) \in Nat
    BY <1>1, RankFacts
  <2>4. Cardinality(T \ {x}) <= Cardinality(Below(S, R, x))
    BY <2>2, <2>3, FS_Subset
  <2>5. Cardinality(T \ {x}) = Cardinality(T) - 1
    BY <1>2, <2>1, FS_RemoveElement
  <2>6. Cardinality(Below(S, R, x)) < n
    BY <2>1 DEF Low
  <2> QED
    BY <1>1, <1>2, <2>3, <2>4, <2>5, <2>6
<1> QED
  BY <1>3, <1>4

\* Unless all are among them, the n first are n: a set has more to leave out
\* only when n come before it.
LEMMA LowOut ==
  ASSUME NEW R, NEW U, Orders(R, U), NEW S \in SUBSET U, IsFiniteSet(S), NEW n \in Nat,
         NEW x \in S, x \notin Low(S, R, n)
  PROVE  /\ n <= Cardinality(Low(S, R, n))
         /\ \A y \in Low(S, R, n) : <<y, x>> \in R
<1> DEFINE T == Low(S, R, n)
           W == S \ T
<1>1. W \in SUBSET U /\ IsFiniteSet(W) /\ W # {} /\ T \in SUBSET S
  <2>1. T \in SUBSET S /\ x \in W
    BY DEF Low
  <2> QED
    BY <2>1, FS_Subset
<1>2. PICK w \in W : \A y \in W : y = w \/ <<w, y>> \in R
  <2> HIDE DEF W
  <2> QED
    BY <1>1, FirstElement
<1>3. Below(S, R, w) \in SUBSET T
  <2>1. ASSUME NEW y \in Below(S, R, w), y \notin T PROVE FALSE
    <3>1. y \in S /\ <<y, w>> \in R /\ y \in W
      BY <2>1 DEF Below
    <3>2. y = w \/ <<w, y>> \in R
      BY <1>2, <3>1
    <3> QED
      BY <1>2, <3>1, <3>2 DEF Orders
  <2> QED
    BY <2>1
<1>4. ~ (Cardinality(Below(S, R, w)) < n)
  BY <1>2 DEF Low
<1>5. Cardinality(Below(S, R, w)) <= Cardinality(T)
  BY <1>1, <1>3, FS_Subset
<1>6. Cardinality(Below(S, R, w)) \in Nat /\ Cardinality(T) \in Nat
  BY <1>1, <1>2, RankFacts, LowSize
<1>7. ASSUME NEW y \in T PROVE <<y, x>> \in R
  <2>1. CASE <<x, y>> \in R
    BY <2>1, LowDown
  <2> QED
    BY <1>1, <2>1 DEF Orders
<1> QED
  BY <1>4, <1>5, <1>6, <1>7

\* Keeping the n first of what is known so far loses none of the n first of all.
LEMMA LowLow ==
  ASSUME NEW R, NEW U, Orders(R, U), NEW X \in SUBSET U, IsFiniteSet(X),
         NEW Y \in SUBSET U, IsFiniteSet(Y), NEW n \in Nat
  PROVE  Low(Low(X, R, n) \cup Y, R, n) = Low(X \cup Y, R, n)
<1> DEFINE T == Low(X, R, n)
           Z == T \cup Y
           A == X \cup Y
<1>1. T \in SUBSET X /\ IsFiniteSet(T) /\ Cardinality(T) \in Nat
  BY LowSize
<1>2. Z \in SUBSET A /\ A \in SUBSET U /\ IsFiniteSet(A) /\ IsFiniteSet(Z)
  BY <1>1, FS_Union
<1>3. ASSUME NEW v \in U PROVE
        /\ Cardinality(Below(Z, R, v)) \in Nat /\ Cardinality(Below(A, R, v)) \in Nat
        /\ Cardinality(Below(X, R, v)) \in Nat
        /\ Cardinality(Below(Z, R, v)) <= Cardinality(Below(A, R, v))
        /\ Cardinality(Below(X, R, v)) <= Cardinality(Below(A, R, v))
  <2>1. Below(Z, R, v) \in SUBSET Below(A, R, v) /\ Below(X, R, v) \in SUBSET Below(A, R, v)
    BY <1>2 DEF Below
  <2>2. /\ IsFiniteSet(Below(A, R, v)) /\ Cardinality(Below(A, R, v)) \in Nat
        /\ Cardinality(Below(Z, R, v)) \in Nat /\ Cardinality(Below(X, R, v)) \in Nat
    <3>1. Z \in SUBSET U
      BY <1>2
    <3> HIDE DEF A, Z
    <3> QED
      BY <1>2, <1>3, <3>1, RankFacts
  <2> QED
    BY <2>1, <2>2, FS_Subset
<1>4. ASSUME NEW v \in Low(A, R, n) PROVE v \in Low(Z, R, n)
  <2>1. v \in A /\ v \in U /\ Cardinality(Below(A, R, v)) < n
    BY <1>2 DEF Low
  <2>2. v \in Z
    <3>1. CASE v \in X
      <4>1. Cardinality(Below(X, R, v)) < n
        BY <1>3, <2>1
      <4> QED
        BY <3>1, <4>1 DEF Low
    <3> QED
      BY <2>1, <3>1
  <2> QED
    BY <1>3, <2>1, <2>2 DEF Low
<1>5. ASSUME NEW v \in Low(Z, R, n) PROVE v \in Low(A, R, n)
  <2>1. v \in Z /\ v \in U /\ v \in A /\ Cardinality(Below(Z, R, v)) < n
    BY <1>2 DEF Low
  <2>2. CASE \E w \in X : <<w, v>> \in R /\ w \notin T
    <3>1. PICK w \in X : <<w, v>> \in R /\ w \notin T
      BY <2>2
    <3>2. n <= Cardinality(T) /\ \A y \in T : <<y, w>> \in R
      BY <3>1, LowOut
    <3>3. T \in SUBSET Below(Z, R, v)
      <4>1. \A y \in T : y \in U /\ w \in U /\ <<y, w>> \in R
        BY <1>1, <3>2
      <4>2. \A y \in T : <<y, v>> \in R
        BY <2>1, <3>1, <4>1 DEF Orders
      <4> QED
        BY <4>2 DEF Below
    <3>4. Cardinality(T) <= Cardinality(Below(Z, R, v))
      <4>1. IsFiniteSet(Below(Z, R, v))
        <5>1. Z \in SUBSET U
          BY <1>2
        <5> HIDE DEF Z
        <5> QED
          BY <1>2, <2>1, <5>1, RankFacts
      <4> QED
        BY <3>3, <4>1, FS_Subset
    <3> QED
      BY <1>1, <1>3, <2>1, <3>2, <3>4
  <2>3. CASE ~ \E w \in X : <<w, v>> \in R /\ w \notin T
    <3>1. Below(A, R, v) = Below(Z, R, v)
      BY <1>1, <2>3 DEF Below
    <3> QED
      BY <2>1, <3>1 DEF Low
  <2> QED
    BY <2>2, <2>3
<1> QED
  BY <1>4, <1>5
-----------------------------------------------------------------------------
(***************************************************************************)
(* The invariant.  A clause that is live has its literals in its place;    *)
(* live clauses stand in the arena in the order of their numbers; and      *)
(* before the first gap, at the first deleted clause, there is none.       *)
(***************************************************************************)
Triple == Nat \X Nat \X Nat

ClauseRecord == [start : Nat, len : {n \in Nat : n >= 3}, learned : BOOLEAN, deleted : BOOLEAN,
                 lbd : Nat, used : Nat, score : Nat, debt : Nat,
                 watch : {"active", "observing", "triggered"}, since : Nat]
GarbageRecord == [literals : Nat, clause : Nat, start : Nat]

\* Every variable has its type, and every clause its account.
StorageTypeOK ==
  /\ config \in Configs
  /\ arena \in Seq(Nat) /\ clauses \in Seq(ClauseRecord) /\ garbage \in GarbageRecord
  /\ ancestry \in Seq([sample : SUBSET Nat, repeated : BOOLEAN]) /\ Len(ancestry) = Len(clauses)
  /\ pivots \in Seq(SUBSET Nat) /\ Len(pivots) = Len(clauses)
  /\ \A i \in Ref : IsFiniteSet(pivots[i])
  /\ written \in Seq(SUBSET Nat) /\ Len(written) = Len(clauses)
  /\ reasons \in SUBSET Ref /\ shadows \in Seq(Nat)
  /\ samples \in SUBSET Triple /\ offered \in SUBSET Triple /\ IsFiniteSet(offered)
  /\ active \in Nat /\ conflicts \in Nat /\ reductions \in Nat
  /\ pc \in {"search", "learned", "reduced"}

Named(i, n) == {10 * i + k : k \in 1 .. n}
Held(c) == c.start .. c.start + c.len - 1
LiveIn(C) == {i \in DOMAIN C : ~C[i].deleted}
GapsOf(A, C) == {k \in DOMAIN A : \A i \in LiveIn(C) : k \notin Held(C[i])}

\* The clause c has its literals in A.
Stands(A, c, i) ==
  /\ 1 <= c.start /\ c.start + c.len - 1 <= Len(A)
  /\ \A k \in 1 .. c.len : A[c.start + k - 1] = 10 * i + k

\* The first gap is at the first clause deleted.
FirstGap(A, C, G) ==
  IF G.literals = 0 THEN G = NoGarbage
  ELSE /\ G.clause \in DOMAIN C /\ G.start \in DOMAIN A
       /\ \A i \in LiveIn(C) : IF i < G.clause THEN C[i].start + C[i].len <= G.start
                               ELSE i # G.clause /\ G.start < C[i].start
       /\ \A k \in GapsOf(A, C) : G.start <= k

Ordered(C) == \A i, k \in LiveIn(C) : i < k => C[i].start + C[i].len <= C[k].start

ArenaOK(A, C, G) ==
  /\ \A i \in DOMAIN C : ~C[i].deleted \/ ~config.compact => Stands(A, C[i], i)
  /\ config.compact => /\ Ordered(C) /\ FirstGap(A, C, G)
                       /\ Cardinality(GapsOf(A, C)) = G.literals

Counting == {i \in Ref : Learned(i) /\ Live(i) /\ ~Shadow(i)}
NamesOK == \A i \in Ref : written[i] = Named(i, clauses[i].len)
ReasonsOK == \A i \in reasons : Live(i) /\ ~Shadow(i)
CountOK == active = Cardinality(Counting) /\ (conflicts = 0 => \A i \in Ref : ~Learned(i))
ShadowsOK == /\ Range(shadows) = {i \in Ref : Shadow(i)} /\ Len(shadows) <= Capacity
             /\ \A i \in Ref : Shadow(i) => Live(i) /\ Learned(i) /\ Policy = "shadow"
SamplesOK == /\ samples = Least(offered, Capacity) /\ \A o \in offered : o[2] <= reductions
             /\ \A i \in Ref : Policy = "nonregular" => ancestry[i].sample = Sampled(pivots[i])

StorageInv == /\ StorageTypeOK /\ ArenaOK(arena, clauses, garbage) /\ NamesOK /\ ReasonsOK
              /\ CountOK /\ ShadowsOK /\ SamplesOK
-----------------------------------------------------------------------------
(***************************************************************************)
(* Deletion.                                                               *)
(***************************************************************************)

\* The places of a clause.
LEMMA HeldFacts ==
  ASSUME NEW c \in ClauseRecord
  PROVE  /\ c.start \in Nat /\ c.len \in Nat /\ c.len >= 3 /\ c.deleted \in BOOLEAN
         /\ IsFiniteSet(Held(c)) /\ Cardinality(Held(c)) = c.len
         /\ Held(c) \in SUBSET Nat
         /\ \A k : k \in Held(c) <=> k \in Nat /\ c.start <= k /\ k < c.start + c.len
<1>1. c.start \in Nat /\ c.len \in Nat /\ c.len >= 3 /\ c.deleted \in BOOLEAN
  BY DEF ClauseRecord
<1>2. IsFiniteSet(Held(c)) /\ Cardinality(Held(c)) = c.len
  <2>1. PICK a, b : a = c.start /\ b = c.start + c.len - 1
    OBVIOUS
  <2>2. a \in Int /\ b \in Int /\ ~ (a > b) /\ b - a + 1 = c.len
    BY <1>1, <2>1
  <2>3. IsFiniteSet(a .. b) /\ Cardinality(a .. b) = b - a + 1
    BY <2>2, FS_Interval
  <2> QED
    BY <2>1, <2>2, <2>3 DEF Held
<1> QED
  BY <1>1, <1>2 DEF Held

\* The gaps of an arena are finitely many.
LEMMA GapsFinite ==
  ASSUME NEW A \in Seq(Nat), NEW C
  PROVE  IsFiniteSet(GapsOf(A, C)) /\ Cardinality(GapsOf(A, C)) \in Nat
<1>1. Len(A) \in Nat /\ DOMAIN A = 1 .. Len(A)
  BY LenProperties
<1>2. IsFiniteSet(1 .. Len(A))
  BY <1>1, FS_Interval
<1>3. GapsOf(A, C) \in SUBSET (1 .. Len(A))
  BY <1>1 DEF GapsOf
<1> QED
  BY <1>2, <1>3, FS_Subset, FS_CardinalityType

\* A clause marked as deleted leaves the others, and its places are a gap.
LEMMA MarkedFacts ==
  ASSUME config.compact \in BOOLEAN,
         NEW A \in Seq(Nat), NEW C \in Seq(ClauseRecord), NEW G \in GarbageRecord,
         ArenaOK(A, C, G), NEW i \in LiveIn(C)
  PROVE  LET t == MarkedDeleted([clauses |-> C, garbage |-> G], i)
         IN  /\ t = [clauses |-> [C EXCEPT ![i].deleted = TRUE], garbage |-> t.garbage]
             /\ t.garbage \in GarbageRecord
             /\ ArenaOK(A, t.clauses, t.garbage)
<1> DEFINE t == MarkedDeleted([clauses |-> C, garbage |-> G], i)
           E == [C EXCEPT ![i].deleted = TRUE]
           H == [literals |-> G.literals + C[i].len, clause |-> Smaller(G.clause, i),
                 start |-> Smaller(G.start, C[i].start)]
<1> SUFFICES /\ t = [clauses |-> E, garbage |-> t.garbage] /\ t.garbage \in GarbageRecord
             /\ ArenaOK(A, t.clauses, t.garbage)
  OBVIOUS
<1>1. /\ t = [clauses |-> E, garbage |-> IF config.compact THEN H ELSE G]
  BY DEF MarkedDeleted
<1>2. /\ DOMAIN C = 1 .. Len(C) /\ Len(C) \in Nat /\ \A j \in DOMAIN C : C[j] \in ClauseRecord
      /\ i \in DOMAIN C /\ ~C[i].deleted /\ i \in Nat \ {0}
      /\ DOMAIN A = 1 .. Len(A) /\ Len(A) \in Nat
  BY LenProperties DEF LiveIn
<1>3. /\ DOMAIN E = DOMAIN C /\ E[i].deleted
      /\ \A j \in DOMAIN C : j # i => E[j] = C[j]
      /\ \A j \in DOMAIN C : E[j].start = C[j].start /\ E[j].len = C[j].len
  BY <1>2 DEF ClauseRecord
<1>4. G.literals \in Nat /\ G.clause \in Nat /\ G.start \in Nat
  BY DEF GarbageRecord
<1>5. C[i].start \in Nat /\ C[i].len \in Nat /\ C[i].len >= 3
  BY <1>2, HeldFacts
<1>6. H \in GarbageRecord
  BY <1>2, <1>4, <1>5 DEF GarbageRecord, Smaller
<1> HIDE DEF E, t
<1>7. LiveIn(E) = LiveIn(C) \ {i}
  BY <1>2, <1>3 DEF LiveIn
<1>8. \A j \in DOMAIN C : ~C[j].deleted \/ ~config.compact => Stands(A, C[j], j)
  BY DEF ArenaOK
<1>9. \A j \in DOMAIN E : ~E[j].deleted \/ ~config.compact => Stands(A, E[j], j)
  BY <1>3, <1>8 DEF Stands
<1>10. CASE ~config.compact
  BY <1>1, <1>9, <1>10 DEF ArenaOK
<1>11. CASE config.compact
  <2>1. Ordered(C) /\ FirstGap(A, C, G) /\ Cardinality(GapsOf(A, C)) = G.literals
    BY <1>11 DEF ArenaOK
  <2>2. Stands(A, C[i], i)
    BY <1>2, <1>8
  <2>3. Ordered(E)
    BY <1>3, <1>7, <2>1 DEF Ordered, LiveIn
  <2>4. Held(C[i]) \in SUBSET DOMAIN A /\ \A k \in Held(C[i]) : C[i].start <= k
    <3>1. \A k : k \in Held(C[i]) <=> k \in Nat /\ C[i].start <= k /\ k < C[i].start + C[i].len
      BY <1>2, HeldFacts
    <3>2. 1 <= C[i].start /\ C[i].start + C[i].len - 1 <= Len(A)
      BY <2>2 DEF Stands
    <3>3. \A k \in Held(C[i]) : k \in 1 .. Len(A) /\ C[i].start <= k
      BY <1>2, <1>5, <3>1, <3>2
    <3> QED
      BY <1>2, <3>3
  <2>5. \A j \in LiveIn(C) \ {i} : Held(C[i]) \cap Held(C[j]) = {} /\ Held(E[j]) = Held(C[j])
    <3>1. SUFFICES ASSUME NEW j \in LiveIn(C), j # i
                   PROVE  Held(C[i]) \cap Held(C[j]) = {} /\ Held(E[j]) = Held(C[j])
      OBVIOUS
    <3>2. j \in DOMAIN C /\ C[j].start \in Nat /\ C[j].len \in Nat /\ j \in Nat
      BY <1>2, HeldFacts DEF LiveIn
    <3>4. Held(E[j]) = Held(C[j])
      BY <1>3, <3>1, <3>2
    <3>3. C[i].start + C[i].len <= C[j].start \/ C[j].start + C[j].len <= C[i].start
      BY <1>2, <2>1, <3>1, <3>2 DEF Ordered
    <3> QED
      BY <1>2, <1>5, <3>2, <3>3, <3>4, HeldFacts
  <2>6. GapsOf(A, E) = GapsOf(A, C) \cup Held(C[i]) /\ GapsOf(A, C) \cap Held(C[i]) = {}
    <3>1. GapsOf(A, E) = {k \in DOMAIN A : \A j \in LiveIn(C) \ {i} : k \notin Held(C[j])}
      BY <1>7, <2>5 DEF GapsOf
    <3> QED
      BY <2>4, <2>5, <3>1 DEF GapsOf
  <2>7. Cardinality(GapsOf(A, E)) = H.literals
    <3>1. /\ IsFiniteSet(GapsOf(A, C)) /\ IsFiniteSet(Held(C[i]))
          /\ Cardinality(Held(C[i])) = C[i].len
      BY <1>2, GapsFinite, HeldFacts
    <3>2. Cardinality(GapsOf(A, C) \cap Held(C[i])) = 0
      BY <2>6, FS_EmptySet
    <3>3. Cardinality(GapsOf(A, C) \cup Held(C[i])) = G.literals + C[i].len - 0
      BY <2>1, <3>1, <3>2, FS_Union
    <3> QED
      BY <1>4, <1>5, <2>6, <3>3
  <2>8. \A j \in LiveIn(E) : /\ j \in LiveIn(C) /\ j \in Nat /\ j # i
                             /\ E[j].start = C[j].start /\ E[j].len = C[j].len
                             /\ C[j].start \in Nat /\ C[j].len \in Nat /\ C[j].len >= 3
                             /\ j < i => C[j].start + C[j].len <= C[i].start
                             /\ i < j => C[i].start + C[i].len <= C[j].start
    <3>1. SUFFICES ASSUME NEW j \in LiveIn(E)
                   PROVE  /\ j \in LiveIn(C) /\ j \in Nat /\ j # i
                          /\ E[j].start = C[j].start /\ E[j].len = C[j].len
                          /\ C[j].start \in Nat /\ C[j].len \in Nat /\ C[j].len >= 3
                          /\ j < i => C[j].start + C[j].len <= C[i].start
                          /\ i < j => C[i].start + C[i].len <= C[j].start
      OBVIOUS
    <3>2. j \in LiveIn(C) /\ j # i /\ j \in DOMAIN C /\ j \in Nat
      BY <1>2, <1>7 DEF LiveIn
    <3>3. C[j].start \in Nat /\ C[j].len \in Nat /\ C[j].len >= 3
      BY <1>2, <3>2, HeldFacts
    <3> QED
      BY <1>3, <2>1, <3>2, <3>3 DEF Ordered
  <2>9. H.literals # 0 /\ H.literals = G.literals + C[i].len
    BY <1>4, <1>5
  <2>10. CASE G.literals = 0
    <3>1. G = NoGarbage /\ GapsOf(A, C) = {}
      BY <2>1, <2>10, GapsFinite, FS_EmptySet DEF FirstGap
    <3>2. H.clause = i /\ H.start = C[i].start
      BY <3>1 DEF Smaller, NoGarbage
    <3>3. \A k \in GapsOf(A, E) : H.start <= k
      BY <2>4, <2>6, <3>1, <3>2
    <3>4. H.clause \in DOMAIN E /\ H.start \in DOMAIN A
      BY <1>2, <1>3, <1>5, <2>2, <3>2 DEF Stands
    <3>5. \A j \in LiveIn(E) : IF j < H.clause THEN E[j].start + E[j].len <= H.start
                               ELSE j # H.clause /\ H.start < E[j].start
      BY <1>2, <1>5, <2>8, <3>2
    <3>6. FirstGap(A, E, H)
      <4> HIDE DEF H
      <4> QED
        BY <2>9, <3>3, <3>4, <3>5 DEF FirstGap
    <3> QED
      BY <1>1, <1>6, <1>9, <1>11, <2>3, <2>7, <3>6 DEF ArenaOK
  <2>11. CASE G.literals # 0
    <3>1. /\ G.clause \in DOMAIN C /\ G.start \in DOMAIN A
          /\ \A j \in LiveIn(C) : IF j < G.clause THEN C[j].start + C[j].len <= G.start
                                  ELSE j # G.clause /\ G.start < C[j].start
          /\ \A k \in GapsOf(A, C) : G.start <= k
      BY <2>1, <2>11 DEF FirstGap
    <3>2. G.clause # 0 /\ G.start # 0
      BY <1>2, <3>1
    <3>3. CASE i < G.clause
      <4>1. C[i].start + C[i].len <= G.start
        BY <3>1, <3>3
      <4>2. H.clause = i /\ H.start = C[i].start
        BY <1>2, <1>4, <1>5, <3>2, <3>3, <4>1 DEF Smaller
      <4>3. \A k \in GapsOf(A, E) : H.start <= k
        <5>1. ASSUME NEW k \in GapsOf(A, E) PROVE C[i].start <= k
          <6>1. k \in Nat
            BY <1>2 DEF GapsOf
          <6> QED
            BY <1>4, <1>5, <2>4, <2>6, <3>1, <4>1, <5>1, <6>1
        <5> QED
          BY <4>2, <5>1
      <4>4. H.clause \in DOMAIN E /\ H.start \in DOMAIN A
        BY <1>2, <1>3, <1>5, <2>2, <4>2 DEF Stands
      <4>5. \A j \in LiveIn(E) : IF j < H.clause THEN E[j].start + E[j].len <= H.start
                                 ELSE j # H.clause /\ H.start < E[j].start
        BY <1>2, <1>5, <2>8, <4>2
      <4>6. FirstGap(A, E, H)
        <5> HIDE DEF H
        <5> QED
          BY <2>9, <4>3, <4>4, <4>5 DEF FirstGap
      <4> QED
        BY <1>1, <1>6, <1>9, <1>11, <2>3, <2>7, <4>6 DEF ArenaOK
    <3>4. CASE ~ (i < G.clause)
      <4>1. i # G.clause /\ G.start < C[i].start
        BY <3>1, <3>4
      <4>2. H.clause = G.clause /\ H.start = G.start
        BY <1>2, <1>4, <1>5, <3>2, <3>4, <4>1 DEF Smaller
      <4>3. \A k \in GapsOf(A, E) : H.start <= k
        <5>1. ASSUME NEW k \in GapsOf(A, E) PROVE G.start <= k
          <6>1. k \in Nat
            BY <1>2 DEF GapsOf
          <6> QED
            BY <1>4, <1>5, <2>4, <2>6, <3>1, <4>1, <5>1, <6>1
        <5> QED
          BY <4>2, <5>1
      <4>4. H.clause \in DOMAIN E /\ H.start \in DOMAIN A
        BY <1>3, <3>1, <4>2
      <4>5. \A j \in LiveIn(E) : IF j < H.clause THEN E[j].start + E[j].len <= H.start
                                 ELSE j # H.clause /\ H.start < E[j].start
        BY <2>8, <3>1, <4>2
      <4>6. FirstGap(A, E, H)
        <5> HIDE DEF H
        <5> QED
          BY <2>9, <4>3, <4>4, <4>5 DEF FirstGap
      <4> QED
        BY <1>1, <1>6, <1>9, <1>11, <2>3, <2>7, <4>6 DEF ArenaOK
    <3> QED
      BY <3>3, <3>4
  <2> QED
    BY <2>10, <2>11
<1> QED
  BY <1>10, <1>11

\* The clauses of C with those of D deleted.
Struck(C, D) == [i \in DOMAIN C |-> IF i \in D THEN [C[i] EXCEPT !.deleted = TRUE] ELSE C[i]]

\* Deleting changes nothing else.
LEMMA StruckFacts ==
  ASSUME NEW C \in Seq(ClauseRecord), NEW D
  PROVE  /\ Struck(C, D) \in Seq(ClauseRecord) /\ Len(Struck(C, D)) = Len(C)
         /\ DOMAIN Struck(C, D) = DOMAIN C
         /\ LiveIn(Struck(C, D)) = LiveIn(C) \ D
         /\ \A i \in DOMAIN C : i \notin D => Struck(C, D)[i] = C[i]
         /\ \A i \in DOMAIN C : Struck(C, D)[i] = [C[i] EXCEPT !.deleted = (i \in D \/ C[i].deleted)]
<1>1. DOMAIN C = 1 .. Len(C) /\ Len(C) \in Nat /\ \A i \in DOMAIN C : C[i] \in ClauseRecord
  BY LenProperties
<1>2. \A i \in DOMAIN C : [C[i] EXCEPT !.deleted = TRUE] \in ClauseRecord
  BY <1>1 DEF ClauseRecord
<1>3. Struck(C, D) \in [1 .. Len(C) -> ClauseRecord]
  BY <1>1, <1>2 DEF Struck
<1>4. Struck(C, D) \in Seq(ClauseRecord) /\ Len(Struck(C, D)) = Len(C)
  BY <1>1, <1>3
<1>5. \A i \in DOMAIN C : Struck(C, D)[i] = [C[i] EXCEPT !.deleted = (i \in D \/ C[i].deleted)]
  <2>1. ASSUME NEW i \in DOMAIN C
        PROVE  Struck(C, D)[i] = [C[i] EXCEPT !.deleted = (i \in D \/ C[i].deleted)]
    <3>1. C[i] = [C[i] EXCEPT !.deleted = C[i].deleted] /\ C[i].deleted \in BOOLEAN
      BY <1>1 DEF ClauseRecord
    <3>2. CASE i \in D
      BY <3>1, <3>2 DEF Struck
    <3>3. CASE i \notin D
      BY <3>1, <3>3 DEF Struck
    <3> QED
      BY <3>2, <3>3
  <2> QED
    BY <2>1
<1>6. \A i \in DOMAIN C : Struck(C, D)[i].deleted <=> i \in D \/ C[i].deleted
  BY <1>1, <1>5 DEF ClauseRecord
<1>7. DOMAIN Struck(C, D) = DOMAIN C /\ \A i \in DOMAIN C : i \notin D => Struck(C, D)[i] = C[i]
  BY DEF Struck
<1> QED
  BY <1>4, <1>5, <1>6, <1>7 DEF LiveIn

\* One more.
LEMMA StruckMore ==
  ASSUME NEW C \in Seq(ClauseRecord), NEW D, NEW i \in DOMAIN C, i \notin D
  PROVE  [Struck(C, D) EXCEPT ![i].deleted = TRUE] = Struck(C, D \cup {i})
<1>1. Struck(C, D)[i] = C[i]
  BY DEF Struck
<1>2. \A j \in DOMAIN C : [Struck(C, D) EXCEPT ![i].deleted = TRUE][j] = Struck(C, D \cup {i})[j]
  BY <1>1 DEF Struck
<1> QED
  BY <1>2 DEF Struck

\* The clauses of D are deleted, and their places are accounted for.
LEMMA DeletingFacts ==
  ASSUME config.compact \in BOOLEAN,
         NEW A \in Seq(Nat), NEW C \in Seq(ClauseRecord), NEW G \in GarbageRecord,
         ArenaOK(A, C, G), NEW D \in SUBSET LiveIn(C)
  PROVE  LET t == Deleting([clauses |-> C, garbage |-> G], D)
         IN  /\ t = [clauses |-> Struck(C, D), garbage |-> t.garbage]
             /\ t.garbage \in GarbageRecord
             /\ ArenaOK(A, Struck(C, D), t.garbage)
<1> DEFINE s == [clauses |-> C, garbage |-> G]
           order == SetToSeq(D)
           n == Len(order)
           Is(g) == g = [k \in 0 .. n |-> IF k = 0 THEN s ELSE MarkedDeleted(g[k - 1], order[k])]
           after == CHOOSE g : Is(g)
           First(k) == {order[j] : j \in 1 .. k}
<1> SUFFICES /\ after[n] = [clauses |-> Struck(C, D), garbage |-> after[n].garbage]
             /\ after[n].garbage \in GarbageRecord
             /\ ArenaOK(A, Struck(C, D), after[n].garbage)
  BY DEF Deleting
<1>1. DOMAIN C = 1 .. Len(C) /\ Len(C) \in Nat /\ D \in SUBSET DOMAIN C
  BY LenProperties DEF LiveIn
<1>2. IsFiniteSet(D)
  <2>1. IsFiniteSet(1 .. Len(C)) /\ D \in SUBSET (1 .. Len(C))
    BY <1>1, FS_Interval
  <2> QED
    BY <2>1, FS_Subset
<1>3. /\ n \in Nat /\ \A k \in 1 .. n : order[k] \in D
      /\ \A i, j \in 1 .. n : order[i] = order[j] => i = j
      /\ \A x \in D : \E i \in 1 .. n : order[i] = x
  BY <1>2, SetToSeqFacts
<1> HIDE DEF order
<1>4. Is(after)
  <2> DEFINE S == [clauses : [DOMAIN C -> ClauseRecord], garbage : GarbageRecord]
             step == [k \in 1 .. n |-> [x \in S |-> MarkedDeleted(x, order[k])]]
  <2>1. ASSUME NEW x \in S, NEW k \in 1 .. n PROVE MarkedDeleted(x, order[k]) \in S
    <3>1. order[k] \in DOMAIN C /\ order[k] \in Nat
      BY <1>1, <1>3
    <3> DEFINE i == order[k]
    <3>2. x.clauses \in [DOMAIN C -> ClauseRecord] /\ x.garbage \in GarbageRecord
      OBVIOUS
    <3> HIDE DEF i, S
    <3>3. [x.clauses EXCEPT ![i].deleted = TRUE] \in [DOMAIN C -> ClauseRecord]
      <4>1. i \in DOMAIN C /\ x.clauses[i] \in ClauseRecord
        BY <3>1, <3>2 DEF i
      <4>2. [x.clauses[i] EXCEPT !.deleted = TRUE] \in ClauseRecord
        BY <4>1 DEF ClauseRecord
      <4> QED
        BY <3>2, <4>1, <4>2
    <3>4. [literals |-> x.garbage.literals + x.clauses[i].len,
           clause |-> Smaller(x.garbage.clause, i),
           start |-> Smaller(x.garbage.start, x.clauses[i].start)] \in GarbageRecord
      <4>1. x.clauses[i] \in ClauseRecord /\ i \in Nat
        BY <3>1, <3>2 DEF i
      <4>2. x.clauses[i].len \in Nat /\ x.clauses[i].start \in Nat
        BY <4>1 DEF ClauseRecord
      <4>3. /\ x.garbage.literals \in Nat /\ x.garbage.clause \in Nat
            /\ x.garbage.start \in Nat
        BY <3>2 DEF GarbageRecord
      <4>4. Smaller(x.garbage.clause, i) \in Nat
        BY <4>1, <4>3 DEF Smaller
      <4>5. Smaller(x.garbage.start, x.clauses[i].start) \in Nat
        BY <4>2, <4>3 DEF Smaller
      <4>6. x.garbage.literals + x.clauses[i].len \in Nat
        BY <4>2, <4>3
      <4> QED
        BY <4>4, <4>5, <4>6 DEF GarbageRecord
    <3> QED
      BY <3>2, <3>3, <3>4 DEF MarkedDeleted, S, i
  <2>2. IsStep(step, n, S)
    BY <2>1 DEF IsStep
  <2>3. s \in S
    BY <1>1, LenProperties
  <2>4. PICK g \in [0 .. n -> S] : IsChain(g, n, s, step)
    <3> HIDE DEF step, S, n, s
    <3> QED
      BY <1>3, <2>2, <2>3, Recursion
  <2>5. Is(g)
    <3> HIDE DEF S, n
    <3>1. \A k \in 1 .. n, x \in S : step[k][x] = MarkedDeleted(x, order[k])
      OBVIOUS
    <3>2. \A k \in 1 .. n : k - 1 \in 0 .. n /\ g[k - 1] \in S
      BY <1>3, <2>4
    <3>3. g = [k \in 0 .. n |-> IF k = 0 THEN s ELSE step[k][g[k - 1]]]
      BY <2>4 DEF IsChain
    <3> HIDE DEF step, n, s, S
    <3>4. \A k \in 0 .. n : k # 0 => step[k][g[k - 1]] = MarkedDeleted(g[k - 1], order[k])
      BY <1>3, <3>1, <3>2
    <3> QED
      BY <3>3, <3>4
  <2> QED
    BY <2>5
<1> HIDE DEF after
<1>5. after[0] = s /\ \A k \in 1 .. n : after[k] = MarkedDeleted(after[k - 1], order[k])
  <2>1. \A k \in 0 .. n : after[k] = IF k = 0 THEN s ELSE MarkedDeleted(after[k - 1], order[k])
    BY <1>4
  <2> HIDE DEF Is, s
  <2>2. 0 \in 0 .. n /\ \A k \in 1 .. n : k \in 0 .. n /\ k # 0
    BY <1>3
  <2> QED
    BY <2>1, <2>2
<1> DEFINE Good(k) == /\ after[k] = [clauses |-> Struck(C, First(k)), garbage |-> after[k].garbage]
                      /\ after[k].garbage \in GarbageRecord
                      /\ ArenaOK(A, Struck(C, First(k)), after[k].garbage)
           T == {k \in 0 .. n : Good(k)}
<1>6. Good(0)
  <2>1. First(0) = {}
    OBVIOUS
  <2>2. Struck(C, {}) = C
    BY LenProperties DEF Struck
  <2> HIDE DEF First
  <2>3. after[0] = [clauses |-> C, garbage |-> G]
    BY <1>5
  <2>4. after[0].garbage = G
    BY <2>3
  <2> QED
    BY <2>1, <2>2, <2>3, <2>4
<1> HIDE DEF Is, n, s
<1>7. ASSUME NEW k \in 0 .. n - 1, Good(k) PROVE Good(k + 1)
  <2> DEFINE i == order[k + 1]
             B == Struck(C, First(k))
             H == after[k].garbage
  <2>1. k + 1 \in 1 .. n /\ k + 1 - 1 = k
    BY <1>3
  <2>2. i \in D /\ i \in DOMAIN C /\ i \notin First(k)
    <3>1. \A j \in 1 .. k : j \in 1 .. n /\ j # k + 1
      BY <1>3
    <3> QED
      BY <1>1, <1>3, <2>1, <3>1
  <2>3. First(k + 1) = First(k) \cup {i}
    <3>1. \A j : j \in 1 .. k + 1 <=> j \in 1 .. k \/ j = k + 1
      BY <2>1
    <3> QED
      BY <3>1
  <2> HIDE DEF First, i
  <2>4. B \in Seq(ClauseRecord) /\ i \in LiveIn(B)
    <3>1. B \in Seq(ClauseRecord) /\ LiveIn(B) = LiveIn(C) \ First(k)
      BY StruckFacts
    <3> QED
      BY <2>2, <3>1
  <2>5. after[k + 1] = MarkedDeleted([clauses |-> B, garbage |-> H], i)
    <3>1. after[k] = [clauses |-> B, garbage |-> H]
      BY <1>7
    <3>2. after[k + 1] = MarkedDeleted(after[k + 1 - 1], order[k + 1])
      BY <1>5, <2>1
    <3> HIDE DEF B, H
    <3>3. after[k + 1] = MarkedDeleted(after[k], i)
      BY <2>1, <3>2 DEF i
    <3> QED
      BY <3>1, <3>3
  <2> DEFINE E == [B EXCEPT ![i].deleted = TRUE]
  <2>6. E = Struck(C, First(k + 1))
    <3>1. [Struck(C, First(k)) EXCEPT ![i].deleted = TRUE] = Struck(C, First(k) \cup {i})
      BY <2>2, StruckMore
    <3> QED
      BY <2>3, <3>1
  <2> DEFINE t == MarkedDeleted([clauses |-> B, garbage |-> H], i)
  <2>7. /\ t = [clauses |-> E, garbage |-> t.garbage]
        /\ t.garbage \in GarbageRecord /\ ArenaOK(A, t.clauses, t.garbage)
    <3>1. ArenaOK(A, B, H) /\ H \in GarbageRecord
      BY <1>7
    <3> HIDE DEF B, H
    <3> QED
      BY <2>4, <3>1, MarkedFacts
  <2> HIDE DEF t, B, E
  <2>8. t.clauses = Struck(C, First(k + 1))
    BY <2>6, <2>7
  <2> QED
    BY <2>5, <2>6, <2>7, <2>8 DEF t
<1>8. Good(n)
  <2> HIDE DEF Good
  <2>1. T \in SUBSET (0 .. n) /\ 0 \in T /\ \A k \in 0 .. n - 1 : k \in T => k + 1 \in T
    BY <1>3, <1>6, <1>7
  <2> HIDE DEF T
  <2>2. \A k \in 0 .. n : k \in T
    BY <1>3, <2>1, UpTo
  <2> QED
    BY <1>3, <2>2 DEF T
<1>9. First(n) = D
  BY <1>3
<1> QED
  BY <1>8, <1>9
-----------------------------------------------------------------------------
(***************************************************************************)
(* Compaction.                                                             *)
(***************************************************************************)

\* The arena A of the clauses C when they have been looked at up to i: those
\* that are live stand together below write, the others where they stood, at
\* write or above (the assertion of compact_clause_arena).
Moved(t, C) ==
  /\ t.clauses \in Seq(ClauseRecord) /\ Len(t.clauses) = Len(C)
  /\ \A j \in DOMAIN C : t.clauses[j] = [C[j] EXCEPT !.start = t.clauses[j].start]
Behind(t, i, A, C) ==
  /\ \A j \in DOMAIN C : i < j => t.clauses[j] = C[j]
  /\ \A j \in LiveIn(C) : i < j => t.write <= C[j].start
  /\ \A k \in DOMAIN A : t.write <= k => t.arena[k] = A[k]
Ahead(t, i, C) ==
  /\ \A j \in LiveIn(C) : j <= i => /\ Stands(t.arena, t.clauses[j], j)
                                    /\ t.clauses[j].start + C[j].len <= t.write
  /\ \A j, k \in LiveIn(C) : j < k /\ k <= i =>
       t.clauses[j].start + C[j].len <= t.clauses[k].start
  /\ \A p \in Nat : 1 <= p /\ p < t.write =>
       \E j \in LiveIn(C) : j <= i /\ p \in Held(t.clauses[j])
Sliding(t, i, A, C) ==
  /\ t = [arena |-> t.arena, clauses |-> t.clauses, write |-> t.write]
  /\ t.arena \in Seq(Nat) /\ Len(t.arena) = Len(A)
  /\ t.write \in Nat /\ 1 <= t.write /\ t.write <= Len(A) + 1
  /\ Moved(t, C) /\ Behind(t, i, A, C) /\ Ahead(t, i, C)

\* A clause slides down to where the preceding one ends.
LEMMA SlidFacts ==
  ASSUME NEW A \in Seq(Nat), NEW C \in Seq(ClauseRecord), Ordered(C),
         \A j \in LiveIn(C) : Stands(A, C[j], j),
         NEW q \in DOMAIN C, NEW t, Sliding(t, q - 1, A, C)
  PROVE  Sliding(Slid(t, q), q, A, C)
<1>1. /\ DOMAIN C = 1 .. Len(C) /\ Len(C) \in Nat /\ \A j \in DOMAIN C : C[j] \in ClauseRecord
      /\ DOMAIN A = 1 .. Len(A) /\ Len(A) \in Nat /\ q \in Nat /\ q >= 1
      /\ \A j \in DOMAIN C : j \in Nat
  BY LenProperties
<1>2. /\ t = [arena |-> t.arena, clauses |-> t.clauses, write |-> t.write]
      /\ t.arena \in Seq(Nat) /\ Len(t.arena) = Len(A)
      /\ t.write \in Nat /\ 1 <= t.write /\ t.write <= Len(A) + 1
      /\ Moved(t, C) /\ Behind(t, q - 1, A, C) /\ Ahead(t, q - 1, C)
  BY DEF Sliding
<1>3. /\ t.clauses \in Seq(ClauseRecord) /\ Len(t.clauses) = Len(C)
      /\ DOMAIN t.clauses = DOMAIN C /\ t.clauses[q] = C[q]
  BY <1>1, <1>2, LenProperties DEF Moved, Behind
<1>4. /\ C[q].start \in Nat /\ C[q].len \in Nat /\ C[q].len >= 3 /\ C[q].deleted \in BOOLEAN
      /\ \A j \in DOMAIN C : C[j].start \in Nat /\ C[j].len \in Nat /\ C[j].len >= 3
  BY <1>1, HeldFacts
<1>5. LiveIn(C) \in SUBSET DOMAIN C
  BY DEF LiveIn
<1>6. CASE C[q].deleted
  <2>1. Slid(t, q) = t
    BY <1>3, <1>6 DEF Slid
  <2>2. \A j \in LiveIn(C) : j <= q => j <= q - 1
    BY <1>1, <1>5, <1>6 DEF LiveIn
  <2>3. Behind(t, q, A, C)
    BY <1>1, <1>2, <1>5 DEF Behind
  <2>4. Ahead(t, q, C)
    <3>1. \A j \in LiveIn(C) : j <= q => /\ Stands(t.arena, t.clauses[j], j)
                                         /\ t.clauses[j].start + C[j].len <= t.write
      BY <1>2, <2>2 DEF Ahead
    <3>2. \A j, k \in LiveIn(C) : j < k /\ k <= q =>
            t.clauses[j].start + C[j].len <= t.clauses[k].start
      BY <1>2, <2>2 DEF Ahead
    <3>3. \A p \in Nat : 1 <= p /\ p < t.write =>
            \E j \in LiveIn(C) : j <= q /\ p \in Held(t.clauses[j])
      BY <1>1, <1>2, <1>5 DEF Ahead
    <3> QED
      BY <3>1, <3>2, <3>3 DEF Ahead
  <2> QED
    BY <1>2, <2>1, <2>3, <2>4 DEF Sliding
<1>7. CASE ~C[q].deleted
  <2> DEFINE old == C[q].start
             len == C[q].len
             w == t.write
             B == [k \in DOMAIN t.arena |-> IF k \in w .. w + len - 1
                                            THEN t.arena[old + k - w] ELSE t.arena[k]]
             E == [t.clauses EXCEPT ![q].start = w]
             u == [arena |-> B, clauses |-> E, write |-> w + len]
  <2>1. Slid(t, q) = u
    BY <1>3, <1>7 DEF Slid
  <2>2. q \in LiveIn(C) /\ w <= old /\ old + len - 1 <= Len(A)
    <3>1. q \in LiveIn(C) /\ q - 1 < q
      BY <1>1, <1>7 DEF LiveIn
    <3> QED
      BY <1>2, <3>1 DEF Behind, Stands
  <2>3. /\ DOMAIN E = DOMAIN C /\ E \in Seq(ClauseRecord) /\ Len(E) = Len(C)
        /\ E[q] = [C[q] EXCEPT !.start = w] /\ E[q].start = w /\ E[q].len = len
        /\ \A j \in DOMAIN C : j # q => E[j] = t.clauses[j]
    <3>1. [C[q] EXCEPT !.start = w] \in ClauseRecord /\ [C[q] EXCEPT !.start = w].start = w
          /\ [C[q] EXCEPT !.start = w].len = len
      BY <1>1, <1>2 DEF ClauseRecord
    <3>2. E = [t.clauses EXCEPT ![q] = [C[q] EXCEPT !.start = w]]
      BY <1>3
    <3> HIDE DEF E, w, len
    <3> QED
      BY <1>1, <1>3, <3>1, <3>2, ExceptSeq
  <2>4. /\ DOMAIN t.arena = DOMAIN A /\ DOMAIN B = DOMAIN A
        /\ \A k \in DOMAIN A : B[k] = IF k \in w .. w + len - 1 THEN t.arena[old + k - w]
                                      ELSE t.arena[k]
    BY <1>1, <1>2, LenProperties
  <2> DEFINE n == Len(A)
  <2>0. /\ n \in Nat /\ DOMAIN A = 1 .. n
        /\ old \in Nat /\ len \in Nat /\ len >= 3 /\ w \in Nat /\ 1 <= w
        /\ w <= old /\ old + len - 1 <= n
    BY <1>1, <1>2, <1>4, <2>2
  <2> HIDE DEF n, old, len, w
  <2>5. B \in Seq(Nat) /\ Len(B) = Len(A)
    <3>1. \A k \in DOMAIN A : t.arena[k] \in Nat
      <4>1. t.arena \in Seq(Nat) /\ DOMAIN t.arena = DOMAIN A
        BY <1>2, <2>4
      <4> QED
        BY <4>1, LenProperties
    <3>2. \A k \in w .. w + len - 1 : old + k - w \in DOMAIN A
      BY <2>0
    <3>3. \A k \in DOMAIN A : B[k] \in Nat
      BY <2>4, <3>1, <3>2
    <3>4. B = [k \in DOMAIN B |-> B[k]] /\ DOMAIN B = 1 .. n
      BY <2>0, <2>4
    <3> HIDE DEF B
    <3>5. B \in [1 .. n -> Nat]
      BY <2>0, <3>3, <3>4
    <3> QED
      BY <2>0, <3>5 DEF n
  <2> HIDE DEF B, E
  <2>6. \A j \in LiveIn(C) : /\ q < j => old + len <= C[j].start
                             /\ j < q => t.clauses[j].start + C[j].len <= w
    <3>1. ASSUME NEW j \in LiveIn(C), q < j PROVE old + len <= C[j].start
      BY <2>2, <3>1 DEF Ordered, old, len
    <3>2. ASSUME NEW j \in LiveIn(C), j < q PROVE t.clauses[j].start + C[j].len <= w
      <4>1. j <= q - 1
        BY <1>1, <1>5, <3>2
      <4> QED
        BY <1>2, <3>2, <4>1 DEF Ahead, w
    <3> QED
      BY <3>1, <3>2
  <2>7. Moved(u, C)
    <3>1. \A j \in DOMAIN C : t.clauses[j] = [C[j] EXCEPT !.start = t.clauses[j].start]
      BY <1>2 DEF Moved
    <3>2. \A j \in DOMAIN C : E[j] = [C[j] EXCEPT !.start = E[j].start]
      BY <2>3, <3>1
    <3> QED
      BY <2>3, <3>2 DEF Moved
  <2>8. Behind(u, q, A, C)
    <3>1. ASSUME NEW j \in DOMAIN C, q < j PROVE E[j] = C[j]
      <4>1. j # q /\ q - 1 < j
        BY <1>1, <3>1
      <4> QED
        BY <1>2, <2>3, <4>1 DEF Behind
    <3>2. ASSUME NEW j \in LiveIn(C), q < j PROVE w + len <= C[j].start
      <4>1. old + len <= C[j].start /\ C[j].start \in Nat
        BY <1>4, <1>5, <2>6, <3>2
      <4> QED
        BY <2>0, <4>1
    <3>3. \A k \in DOMAIN A : w + len <= k => B[k] = A[k]
      <4>1. \A k \in DOMAIN A : w + len <= k => w <= k /\ k \notin w .. w + len - 1
        BY <2>0
      <4>2. \A k \in DOMAIN A : w <= k => t.arena[k] = A[k]
        BY <1>2 DEF Behind, w
      <4> QED
        BY <2>4, <4>1, <4>2
    <3> QED
      BY <3>1, <3>2, <3>3 DEF Behind
  <2>9. Ahead(u, q, C)
    <3>1. \A j \in LiveIn(C) : j <= q => Stands(B, E[j], j) /\ E[j].start + C[j].len <= w + len
      <4>1. ASSUME NEW j \in LiveIn(C), j < q
            PROVE  Stands(B, E[j], j) /\ E[j].start + C[j].len <= w + len
        <5>1. /\ E[j] = t.clauses[j] /\ Stands(t.arena, t.clauses[j], j)
              /\ t.clauses[j].start + C[j].len <= w /\ j \in DOMAIN C
          <6>1. j \in DOMAIN C /\ j # q /\ j <= q - 1
            BY <1>1, <1>5, <4>1
          <6> QED
            BY <1>2, <2>3, <2>6, <4>1, <6>1 DEF Ahead
        <5>2. t.clauses[j].len = C[j].len /\ t.clauses[j].start \in Nat
          <6>1. t.clauses[j] = [C[j] EXCEPT !.start = t.clauses[j].start] /\ C[j] \in ClauseRecord
            BY <1>1, <1>2, <5>1 DEF Moved
          <6>2. t.clauses[j] \in ClauseRecord
            BY <1>3, <5>1, LenProperties
          <6>3. [C[j] EXCEPT !.start = t.clauses[j].start].len = C[j].len
            BY <6>1 DEF ClauseRecord
          <6> QED
            BY <6>1, <6>2, <6>3 DEF ClauseRecord
        <5> DEFINE a == t.clauses[j].start
                   m == C[j].len
        <5>3. 1 <= a /\ a + m - 1 <= n /\ \A k \in 1 .. m : t.arena[a + k - 1] = 10 * j + k
          BY <1>2, <5>1, <5>2 DEF Stands, n
        <5>4. a + m <= w /\ a \in Nat /\ m \in Nat
          BY <1>4, <5>1, <5>2
        <5>5. t.clauses[j].start = a /\ t.clauses[j].len = m /\ C[j].len = m
          BY <5>2
        <5> HIDE DEF a, m
        <5>6. \A k \in 1 .. m : a + k - 1 \in DOMAIN A /\ a + k - 1 \notin w .. w + len - 1
          BY <2>0, <5>3, <5>4
        <5>7. \A k \in 1 .. m : B[a + k - 1] = 10 * j + k
          BY <2>4, <5>3, <5>6
        <5>8. a + m <= w + len
          BY <2>0, <5>4
        <5> QED
          BY <2>5, <5>1, <5>3, <5>5, <5>7, <5>8 DEF Stands, n
      <4>2. Stands(B, E[q], q)
        <5>1. \A k \in 1 .. len : A[old + k - 1] = 10 * q + k
          BY <2>2 DEF Stands, old, len
        <5>2. \A k \in 1 .. len : /\ w + k - 1 \in DOMAIN A /\ w + k - 1 \in w .. w + len - 1
                                  /\ old + (w + k - 1) - w = old + k - 1
                                  /\ old + k - 1 \in DOMAIN A /\ w <= old + k - 1
          BY <2>0
        <5>3. \A k \in DOMAIN A : w <= k => t.arena[k] = A[k]
          BY <1>2 DEF Behind, w
        <5>4. \A k \in 1 .. len : B[w + k - 1] = 10 * q + k
          BY <2>4, <5>1, <5>2, <5>3
        <5>5. 1 <= w /\ w + len - 1 <= Len(A)
          BY <2>0 DEF n
        <5> QED
          BY <2>3, <2>5, <5>4, <5>5 DEF Stands
      <4>3. \A j \in LiveIn(C) : j <= q => j < q \/ j = q
        BY <1>1, <1>5
      <4>4. E[q].start + C[q].len <= w + len
        BY <2>0, <2>3 DEF len
      <4> QED
        BY <4>1, <4>2, <4>3, <4>4
    <3>2. \A j, k \in LiveIn(C) : j < k /\ k <= q => E[j].start + C[j].len <= E[k].start
      <4>1. ASSUME NEW j \in LiveIn(C), NEW k \in LiveIn(C), j < k, k <= q
            PROVE  E[j].start + C[j].len <= E[k].start
        <5>1. j \in DOMAIN C /\ k \in DOMAIN C /\ j < q /\ j # q /\ E[j] = t.clauses[j]
          BY <1>1, <1>5, <2>3, <4>1
        <5>2. CASE k = q
          BY <2>3, <2>6, <5>1, <5>2
        <5>3. CASE k # q
          <6>1. E[k] = t.clauses[k] /\ k <= q - 1
            BY <1>1, <2>3, <4>1, <5>1, <5>3
          <6> QED
            BY <1>2, <4>1, <5>1, <6>1 DEF Ahead
        <5> QED
          BY <5>2, <5>3
      <4> QED
        BY <4>1
    <3>3. \A p \in Nat : 1 <= p /\ p < w + len => \E j \in LiveIn(C) : j <= q /\ p \in Held(E[j])
      <4>1. SUFFICES ASSUME NEW p \in Nat, 1 <= p, p < w + len
                     PROVE  \E j \in LiveIn(C) : j <= q /\ p \in Held(E[j])
        OBVIOUS
      <4>2. CASE p < w
        <5>1. PICK j \in LiveIn(C) : j <= q - 1 /\ p \in Held(t.clauses[j])
          BY <1>2, <4>1, <4>2 DEF Ahead, w
        <5>2. j \in DOMAIN C /\ j # q /\ j <= q
          BY <1>1, <1>5, <5>1
        <5> QED
          BY <2>3, <5>1, <5>2
      <4>3. CASE ~ (p < w)
        <5>1. p \in Held(E[q])
          <6>1. E[q].start = w /\ E[q].len = len
            BY <2>3
          <6>2. p \in w .. w + len - 1
            BY <2>0, <4>1, <4>3
          <6> QED
            BY <6>1, <6>2 DEF Held
        <5> QED
          BY <1>1, <2>2, <5>1
      <4> QED
        BY <4>2, <4>3
    <3> QED
      BY <3>1, <3>2, <3>3 DEF Ahead
  <2>10. w + len \in Nat /\ 1 <= w + len /\ w + len <= Len(A) + 1
    BY <2>0 DEF n
  <2>11. Sliding(u, q, A, C)
    <3>1. u.arena = B /\ u.clauses = E /\ u.write = w + len
      OBVIOUS
    <3>2. u = [arena |-> u.arena, clauses |-> u.clauses, write |-> u.write]
      OBVIOUS
    <3> HIDE DEF u
    <3> QED
      BY <2>5, <2>7, <2>8, <2>9, <2>10, <3>1, <3>2 DEF Sliding
  <2> QED
    BY <2>1, <2>11
<1> QED
  BY <1>4, <1>6, <1>7

SlidStep(g, i, s) ==
  IF i = s.garbage.clause - 1
  THEN [arena |-> arena, clauses |-> s.clauses, write |-> s.garbage.start]
  ELSE Slid(g[i - 1], i)
SlidTaken(g, s) == g = [i \in s.garbage.clause - 1 .. Len(s.clauses) |-> SlidStep(g, i, s)]

\* The clauses slide one after another.
LEMMA SlidExist ==
  ASSUME NEW s, s.garbage.clause \in Nat, Len(s.clauses) \in Nat,
         1 <= s.garbage.clause, s.garbage.clause <= Len(s.clauses)
  PROVE  \E g : SlidTaken(g, s)
<1> DEFINE m == s.garbage.clause - 1
           n == Len(s.clauses)
           Upto(g, j) == g = [i \in m .. j |-> SlidStep(g, i, s)]
           T == {j \in m .. n : \E g : Upto(g, j)}
<1>1. m \in Nat /\ n \in Nat /\ m <= n
  OBVIOUS
<1>2. m \in T
  <2> DEFINE g == [i \in m .. m |-> SlidStep(<< >>, i, s)]
  <2>1. m \in m .. m /\ \A i \in m .. m : i = s.garbage.clause - 1
    BY <1>1
  <2>2. \A i \in m .. m : SlidStep(g, i, s) = SlidStep(<< >>, i, s)
    BY <2>1 DEF SlidStep
  <2>3. \A i \in m .. m : g[i] = SlidStep(g, i, s)
    BY <2>2
  <2>4. g = [i \in m .. m |-> g[i]]
    OBVIOUS
  <2> HIDE DEF g, m
  <2>5. Upto(g, m)
    BY <2>3, <2>4
  <2> QED
    BY <1>1, <2>5
<1>3. ASSUME NEW j \in m .. n - 1, j \in T PROVE j + 1 \in T
  <2>1. PICK g : Upto(g, j)
    BY <1>3
  <2> DEFINE h == [i \in m .. j + 1 |-> IF i = j + 1 THEN SlidStep(g, i, s) ELSE g[i]]
  <2>2. /\ \A i \in m .. j : h[i] = g[i] /\ g[i] = SlidStep(g, i, s)
        /\ h[j + 1] = SlidStep(g, j + 1, s) /\ h = [i \in m .. j + 1 |-> h[i]]
    <3>1. j + 1 \in m .. j + 1 /\ \A i \in m .. j : i \in m .. j + 1 /\ i # j + 1
      BY <1>1
    <3>2. \A i \in m .. j : g[i] = SlidStep(g, i, s)
      BY <2>1
    <3>3. \A i \in m .. j + 1 : h[i] = IF i = j + 1 THEN SlidStep(g, i, s) ELSE g[i]
      OBVIOUS
    <3>4. h = [i \in m .. j + 1 |-> h[i]]
      OBVIOUS
    <3> HIDE DEF h, m
    <3> QED
      BY <3>1, <3>2, <3>3, <3>4
  <2> HIDE DEF h
  <2>3. ASSUME NEW i \in m .. j + 1 PROVE SlidStep(h, i, s) = SlidStep(g, i, s)
    <3>1. CASE i = m
      BY <3>1 DEF SlidStep
    <3>2. CASE i # m
      <4>1. i - 1 \in m .. j
        BY <1>1, <3>2
      <4>2. h[i - 1] = g[i - 1]
        BY <2>2, <4>1
      <4> QED
        BY <3>2, <4>2 DEF SlidStep
    <3> QED
      BY <3>1, <3>2
  <2>4. \A i \in m .. j + 1 : h[i] = SlidStep(h, i, s)
    <3>1. \A i \in m .. j + 1 : i \in m .. j \/ i = j + 1
      BY <1>1
    <3> HIDE DEF m
    <3> QED
      BY <2>2, <2>3, <3>1
  <2> HIDE DEF m, n
  <2>5. Upto(h, j + 1)
    BY <2>2, <2>4
  <2>6. j + 1 \in m .. n
    BY <1>1
  <2> QED
    BY <2>5, <2>6
<1>4. n \in T
  <2>1. T \in SUBSET (m .. n) /\ n \in m .. n
    BY <1>1
  <2> HIDE DEF T, n, m
  <2>2. \A k \in m .. n : k \in T
    BY <1>1, <1>2, <1>3, <2>1, UpTo
  <2> QED
    BY <2>1, <2>2
<1> QED
  BY <1>4 DEF SlidTaken

\* Compaction leaves an arena without gaps that holds every live clause.
LEMMA CompactedFacts ==
  ASSUME config.compact, arena \in Seq(Nat),
         NEW s, s.clauses \in Seq(ClauseRecord), s.garbage \in GarbageRecord,
         s.garbage.literals # 0, ArenaOK(arena, s.clauses, s.garbage)
  PROVE  /\ Compacted(s).arena \in Seq(Nat)
         /\ Moved(Compacted(s), s.clauses)
         /\ ArenaOK(Compacted(s).arena, Compacted(s).clauses, NoGarbage)
<1> DEFINE C == s.clauses
           G == s.garbage
           m == G.clause - 1
           n == Len(C)
           slid == CHOOSE g : SlidTaken(g, s)
           t == slid[n]
<1>1. /\ Ordered(C) /\ FirstGap(arena, C, G) /\ \A j \in LiveIn(C) : Stands(arena, C[j], j)
  BY DEF ArenaOK, LiveIn
<1>2. /\ DOMAIN C = 1 .. n /\ n \in Nat /\ \A j \in DOMAIN C : C[j] \in ClauseRecord
      /\ DOMAIN arena = 1 .. Len(arena) /\ Len(arena) \in Nat
      /\ LiveIn(C) \in SUBSET DOMAIN C
  BY LenProperties DEF LiveIn
<1>3. /\ G.clause \in DOMAIN C /\ G.start \in DOMAIN arena
      /\ \A j \in LiveIn(C) : IF j < G.clause THEN C[j].start + C[j].len <= G.start
                              ELSE j # G.clause /\ G.start < C[j].start
      /\ \A k \in GapsOf(arena, C) : G.start <= k
  BY <1>1 DEF FirstGap
<1>4. SlidTaken(slid, s)
  <2>1. G.clause \in Nat /\ 1 <= G.clause /\ G.clause <= n
    BY <1>2, <1>3
  <2>2. \E g : SlidTaken(g, s)
    BY <1>2, <2>1, SlidExist
  <2> QED
    BY <2>2
<1>5. Compacted(s) = [arena |-> SubSeq(t.arena, 1, t.write - 1), clauses |-> t.clauses]
  BY DEF Compacted, SlidTaken, SlidStep
<1>51. /\ Compacted(s).arena = SubSeq(t.arena, 1, t.write - 1)
       /\ Compacted(s).clauses = t.clauses
  <2> HIDE DEF t
  <2>1. PICK a, c : a = SubSeq(t.arena, 1, t.write - 1) /\ c = t.clauses
    OBVIOUS
  <2>2. Compacted(s) = [arena |-> a, clauses |-> c]
    BY <1>5, <2>1
  <2>3. Compacted(s).arena = a /\ Compacted(s).clauses = c
    BY <2>2
  <2> QED
    BY <2>1, <2>3
<1> HIDE DEF slid
<1>6. m \in Nat /\ m < n /\ \A j \in DOMAIN C : j \in Nat /\ j >= 1
  BY <1>2, <1>3
<1>7. /\ slid[m] = [arena |-> arena, clauses |-> C, write |-> G.start]
      /\ \A i \in m + 1 .. n : slid[i] = Slid(slid[i - 1], i)
  <2>1. \A i \in m .. n : slid[i] = SlidStep(slid, i, s)
    BY <1>4 DEF SlidTaken
  <2>2. m \in m .. n /\ \A i \in m + 1 .. n : i \in m .. n /\ i # m
    BY <1>2, <1>6
  <2> QED
    BY <2>1, <2>2 DEF SlidStep
<1> DEFINE Good(i) == Sliding(slid[i], i, arena, C)
           T == {i \in m .. n : Good(i)}
<1>8. Good(m)
  <2> DEFINE x == slid[m]
  <2>1. x = [arena |-> arena, clauses |-> C, write |-> G.start]
    BY <1>7
  <2>2. x.arena = arena /\ x.clauses = C /\ x.write = G.start
    BY <2>1
  <2>3. x = [arena |-> x.arena, clauses |-> x.clauses, write |-> x.write]
    BY <2>1, <2>2
  <2> HIDE DEF x
  <2>4. x.write \in Nat /\ 1 <= x.write /\ x.write <= Len(arena) + 1
    BY <1>2, <1>3, <2>2
  <2>5. Moved(x, C)
    <3>1. \A j \in DOMAIN C : C[j] = [C[j] EXCEPT !.start = C[j].start]
      BY <1>2 DEF ClauseRecord
    <3> QED
      BY <2>2, <3>1 DEF Moved
  <2>6. \A j \in LiveIn(C) : /\ j \in DOMAIN C /\ j \in Nat
                             /\ C[j].start \in Nat /\ C[j].len \in Nat /\ C[j].len >= 3
    BY <1>2, <1>6, HeldFacts
  <2>7. G.start \in Nat /\ G.clause \in Nat
    BY <1>2, <1>3
  <2>8. Behind(x, m, arena, C)
    <3>1. \A j \in LiveIn(C) : m < j => G.start <= C[j].start
      BY <1>3, <2>6, <2>7
    <3> QED
      BY <2>2, <3>1 DEF Behind
  <2>9. Ahead(x, m, C)
    <3>1. \A j \in LiveIn(C) : j <= m => C[j].start + C[j].len <= G.start
      BY <1>3, <2>6, <2>7
    <3>2. \A p \in Nat : 1 <= p /\ p < G.start => \E j \in LiveIn(C) : j <= m /\ p \in Held(C[j])
      <4>1. ASSUME NEW p \in Nat, 1 <= p, p < G.start
            PROVE  \E j \in LiveIn(C) : j <= m /\ p \in Held(C[j])
        <5>1. p \in DOMAIN arena /\ p \notin GapsOf(arena, C)
          BY <1>2, <1>3, <2>7, <4>1
        <5>2. PICK j \in LiveIn(C) : p \in Held(C[j])
          BY <5>1 DEF GapsOf
        <5>3. C[j].start <= p
          BY <1>2, <2>6, <5>2, HeldFacts
        <5>4. j < G.clause
          BY <1>3, <2>6, <2>7, <4>1, <5>3
        <5> QED
          BY <2>6, <2>7, <5>2, <5>4
      <4> QED
        BY <4>1
    <3> QED
      BY <1>1, <2>2, <3>1, <3>2 DEF Ahead, Ordered
  <2>10. Sliding(x, m, arena, C)
    BY <2>2, <2>3, <2>4, <2>5, <2>8, <2>9 DEF Sliding
  <2> QED
    BY <2>10 DEF x
<1>9. ASSUME NEW i \in m .. n - 1, Good(i) PROVE Good(i + 1)
  <2>1. i + 1 \in DOMAIN C /\ i + 1 - 1 = i /\ i + 1 \in m + 1 .. n
    BY <1>2, <1>6
  <2>2. slid[i + 1] = Slid(slid[i], i + 1)
    BY <1>7, <2>1
  <2>3. Sliding(slid[i], i + 1 - 1, arena, C)
    BY <1>9, <2>1
  <2> HIDE DEF C
  <2>4. Sliding(Slid(slid[i], i + 1), i + 1, arena, C)
    <3>1. C \in Seq(ClauseRecord)
      BY DEF C
    <3> QED
      BY <1>1, <2>1, <2>3, <3>1, SlidFacts
  <2> QED
    BY <2>2, <2>4
<1>10. Sliding(t, n, arena, C)
  <2> HIDE DEF Good, C, m
  <2>1. n \in Nat
    BY <1>2
  <2> HIDE DEF n
  <2>2. T \in SUBSET (m .. n) /\ m \in T /\ \A i \in m .. n - 1 : i \in T => i + 1 \in T
    BY <1>6, <1>8, <1>9, <2>1
  <2>3. n \in m .. n
    BY <1>6, <2>1
  <2> HIDE DEF T
  <2>4. \A i \in m .. n : i \in T
    BY <1>6, <2>1, <2>2, UpTo
  <2>5. Good(n)
    BY <2>3, <2>4 DEF T
  <2> QED
    BY <2>5 DEF Good
<1> HIDE DEF t
<1> DEFINE B == SubSeq(t.arena, 1, t.write - 1)
           E == t.clauses
<1>11. /\ t.arena \in Seq(Nat) /\ Len(t.arena) = Len(arena)
       /\ t.write \in Nat /\ 1 <= t.write /\ t.write <= Len(arena) + 1
       /\ Moved(t, C) /\ Ahead(t, n, C)
  BY <1>10 DEF Sliding
<1>12. /\ B \in Seq(Nat) /\ Len(B) = t.write - 1
       /\ \A k \in 1 .. t.write - 1 : B[k] = t.arena[k]
  <2>1. PICK v : v = t.write - 1
    OBVIOUS
  <2>2. v \in Int /\ 0 <= v /\ \A k \in 1 .. v : t.arena[k] \in Nat
    BY <1>2, <1>11, <2>1, LenProperties
  <2>3. /\ SubSeq(t.arena, 1, v) \in Seq(Nat)
        /\ Len(SubSeq(t.arena, 1, v)) = IF 1 <= v THEN v - 1 + 1 ELSE 0
        /\ \A k \in 1 .. v - 1 + 1 : SubSeq(t.arena, 1, v)[k] = t.arena[1 + k - 1]
    BY <2>2, SubSeqProperties
  <2>4. v - 1 + 1 = v /\ \A k \in 1 .. v : 1 + k - 1 = k
    BY <2>2
  <2> QED
    BY <2>1, <2>2, <2>3, <2>4
<1>13. /\ E \in Seq(ClauseRecord) /\ DOMAIN E = DOMAIN C /\ LiveIn(E) = LiveIn(C)
       /\ \A j \in DOMAIN C : E[j] \in ClauseRecord /\ E[j].len = C[j].len
  <2>1. /\ E \in Seq(ClauseRecord) /\ Len(E) = n
        /\ \A j \in DOMAIN C : E[j] = [C[j] EXCEPT !.start = E[j].start]
    BY <1>11 DEF Moved
  <2>2. DOMAIN E = DOMAIN C /\ \A j \in DOMAIN C : E[j] \in ClauseRecord
    BY <1>2, <2>1, LenProperties
  <2>3. \A j \in DOMAIN C : E[j].len = C[j].len /\ E[j].deleted = C[j].deleted
    <3>1. \A j \in DOMAIN C : LET c == [C[j] EXCEPT !.start = E[j].start]
                              IN  c.len = C[j].len /\ c.deleted = C[j].deleted
      BY <1>2 DEF ClauseRecord
    <3> QED
      BY <2>1, <3>1
  <2> QED
    BY <2>1, <2>2, <2>3 DEF LiveIn
<1> HIDE DEF B, E, C, n
<1>14. \A j \in LiveIn(E) : Stands(B, E[j], j)
  <2>1. SUFFICES ASSUME NEW j \in LiveIn(E) PROVE Stands(B, E[j], j)
    OBVIOUS
  <2>2. j \in LiveIn(C) /\ j \in DOMAIN C /\ j <= n
    BY <1>2, <1>13, <2>1
  <2>3. Stands(t.arena, E[j], j) /\ E[j].start + C[j].len <= t.write
    BY <1>11, <2>2 DEF Ahead, E
  <2>4. E[j].start \in Nat /\ E[j].len \in Nat /\ E[j].len = C[j].len
    BY <1>13, <2>2, HeldFacts
  <2>5. 1 <= E[j].start /\ \A k \in 1 .. E[j].len : t.arena[E[j].start + k - 1] = 10 * j + k
    BY <2>3 DEF Stands
  <2>6. \A k \in 1 .. E[j].len : E[j].start + k - 1 \in 1 .. t.write - 1
    <3>1. PICK a, l, w : a = E[j].start /\ l = E[j].len /\ w = t.write
      OBVIOUS
    <3>2. a \in Nat /\ l \in Nat /\ w \in Nat /\ 1 <= a /\ a + l <= w
      BY <1>11, <2>3, <2>4, <2>5, <3>1
    <3>3. \A k \in 1 .. l : a + k - 1 \in 1 .. w - 1
      BY <3>2
    <3> QED
      BY <3>1, <3>3
  <2>7. \A k \in 1 .. E[j].len : B[E[j].start + k - 1] = 10 * j + k
    BY <1>12, <2>5, <2>6
  <2>8. E[j].start + E[j].len - 1 <= Len(B)
    BY <1>11, <1>12, <2>3, <2>4
  <2> QED
    BY <2>5, <2>7, <2>8 DEF Stands
<1>15. Ordered(E)
  <2>1. \A j \in LiveIn(C) : j \in DOMAIN C /\ j <= n
    BY <1>2
  <2> QED
    BY <1>11, <1>13, <2>1 DEF Ordered, Ahead, E
<1>16. GapsOf(B, E) = {}
  <2>1. SUFFICES ASSUME NEW p \in DOMAIN B PROVE \E j \in LiveIn(E) : p \in Held(E[j])
    BY DEF GapsOf
  <2>2. p \in Nat /\ 1 <= p /\ p < t.write
    <3>1. DOMAIN B = 1 .. Len(B)
      BY <1>12, LenProperties
    <3> QED
      BY <1>11, <1>12, <3>1
  <2> QED
    BY <1>11, <1>13, <2>2 DEF Ahead, E
<1>17. Cardinality(GapsOf(B, E)) = 0
  BY <1>16, FS_EmptySet
<1>18. FirstGap(B, E, NoGarbage) /\ NoGarbage.literals = 0
  BY DEF FirstGap, NoGarbage
<1>19. ArenaOK(B, E, NoGarbage)
  <2>1. \A j \in DOMAIN E : ~E[j].deleted \/ ~config.compact => Stands(B, E[j], j)
    BY <1>14 DEF LiveIn
  <2> QED
    BY <1>15, <1>17, <1>18, <2>1 DEF ArenaOK
<1>20. Compacted(s).arena = B /\ Compacted(s).clauses = E
  BY <1>51 DEF B, E
<1>21. Moved(Compacted(s), C)
  BY <1>11, <1>20 DEF Moved, E
<1> QED
  BY <1>12, <1>19, <1>20, <1>21 DEF C
-----------------------------------------------------------------------------
(***************************************************************************)
(* The samples.                                                            *)
(***************************************************************************)

\* One more is offered to the n first: it gets in if there is room, or if it
\* comes before the last, which it replaces.
LEMMA LowAdd ==
  ASSUME NEW R, NEW U, Orders(R, U), NEW O \in SUBSET U, IsFiniteSet(O), NEW n \in Nat,
         NEW x \in U, x \notin O
  PROVE  LET T == Low(O, R, n)
         IN  /\ Cardinality(T) < n => Low(O \cup {x}, R, n) = T \cup {x}
             /\ ~ (Cardinality(T) < n) =>
                  \A w \in T : (\A y \in T : y = w \/ <<y, w>> \in R) =>
                    Low(O \cup {x}, R, n) = IF <<x, w>> \in R THEN (T \ {w}) \cup {x} ELSE T
<1> DEFINE T == Low(O, R, n)
           A == O \cup {x}
           Rk(v) == Cardinality(Below(O, R, v))
<1>1. T \in SUBSET O /\ IsFiniteSet(T) /\ Cardinality(T) \in Nat /\ Cardinality(T) <= n
  BY LowSize
<1>2. \A v \in U : Rk(v) \in Nat /\ IsFiniteSet(Below(O, R, v)) /\ Rk(v) <= Cardinality(O)
  BY RankFacts
<1>3. Cardinality(O) \in Nat /\ \A v \in O : Rk(v) < Cardinality(O)
  BY RankFacts, FS_CardinalityType
<1>4. \A v \in O : v \in T <=> Rk(v) < n
  BY DEF Low
<1>5. ASSUME NEW v \in O
      PROVE  Cardinality(Below(A, R, v)) = IF <<x, v>> \in R THEN Rk(v) + 1 ELSE Rk(v)
  <2>1. CASE <<x, v>> \in R
    <3>1. Below(A, R, v) = Below(O, R, v) \cup {x} /\ x \notin Below(O, R, v)
      BY <2>1 DEF Below
    <3>2. Cardinality(Below(O, R, v) \cup {x}) = Cardinality(Below(O, R, v)) + 1
      BY <1>2, <3>1, FS_AddElement
    <3> QED
      BY <2>1, <3>1, <3>2
  <2>2. CASE <<x, v>> \notin R
    <3>1. Below(A, R, v) = Below(O, R, v)
      BY <2>2 DEF Below
    <3> QED
      BY <2>2, <3>1
  <2> QED
    BY <2>1, <2>2
<1>6. Below(A, R, x) = Below(O, R, x)
  BY DEF Below, Orders
<1> HIDE DEF Rk
<1>7. \A v \in O : v \in Low(A, R, n) <=> IF <<x, v>> \in R THEN Rk(v) + 1 < n ELSE Rk(v) < n
  BY <1>5 DEF Low
<1>8. x \in Low(A, R, n) <=> Rk(x) < n
  BY <1>6 DEF Low, Rk
<1>9. Low(A, R, n) \in SUBSET (O \cup {x})
  BY DEF Low
<1>10. ASSUME Cardinality(T) < n PROVE Low(A, R, n) = T \cup {x}
  <2>1. T = O
    <3>1. ASSUME NEW v \in O, v \notin T PROVE FALSE
      <4>1. n <= Cardinality(T)
        BY <3>1, LowOut
      <4> QED
        BY <1>1, <1>10, <4>1
    <3> QED
      BY <1>1, <3>1
  <2>2. Rk(x) <= Cardinality(O) /\ Rk(x) \in Nat
    BY <1>2
  <2>3. Cardinality(O) < n
    BY <1>10, <2>1
  <2>4. x \in Low(A, R, n)
    BY <1>3, <1>8, <2>2, <2>3
  <2>5. \A v \in O : Rk(v) \in Nat /\ Rk(v) < Cardinality(O)
    BY <1>2, <1>3
  <2>6. ASSUME NEW v \in O PROVE v \in Low(A, R, n)
    <3>1. PICK k \in Nat : k = Rk(v)
      BY <2>5
    <3>2. k < Cardinality(O)
      BY <2>5, <3>1
    <3>3. k < n /\ k + 1 < n
      BY <1>3, <2>3, <3>2
    <3> HIDE DEF A, T
    <3> QED
      BY <1>7, <3>1, <3>3
  <2> QED
    BY <1>9, <2>1, <2>4, <2>6
<1>11. ASSUME ~ (Cardinality(T) < n), NEW w \in T, \A y \in T : y = w \/ <<y, w>> \in R
       PROVE  Low(A, R, n) = IF <<x, w>> \in R THEN (T \ {w}) \cup {x} ELSE T
  <2>1. w \in O /\ w \in U
    BY <1>1
  <2>2. Below(O, R, w) = T \ {w}
    <3>1. \A y \in T : y # w => y \in Below(O, R, w)
      BY <1>1, <1>11 DEF Below
    <3>2. ASSUME NEW y \in Below(O, R, w) PROVE y \in T /\ y # w
      <4>1. y \in O /\ <<y, w>> \in R
        BY DEF Below
      <4>2. y # w
        BY <2>1, <4>1 DEF Orders
      <4>3. y \in T
        BY <4>1, LowDown
      <4> QED
        BY <4>2, <4>3
    <3> QED
      BY <3>1, <3>2
  <2>3. Rk(w) = n - 1
    <3>1. Cardinality(T \ {w}) = Cardinality(T) - 1
      BY <1>1, FS_RemoveElement
    <3> QED
      BY <1>1, <1>11, <2>2, <3>1 DEF Rk
  <2>4. \A v \in T : v # w => Rk(v) < n - 1 /\ Rk(v) \in Nat
    <3>1. ASSUME NEW v \in T, v # w PROVE Rk(v) < Rk(w)
      <4>1. v \in O /\ <<v, w>> \in R
        BY <1>1, <1>11, <3>1
      <4> QED
        BY <2>1, <4>1, RankGrows DEF Rk
    <3> QED
      BY <1>1, <1>2, <2>3, <3>1
  <2>5. ASSUME NEW v \in O, v \in Low(A, R, n) PROVE v \in T
    <3>1. PICK k \in Nat : k = Rk(v)
      BY <1>2
    <3>2. k + 1 < n => k < n
      BY <3>1
    <3> HIDE DEF A, T
    <3> QED
      BY <1>4, <1>7, <2>5, <3>1, <3>2
  <2>6. CASE <<x, w>> \in R
    <3>1. w \notin Low(A, R, n)
      BY <1>7, <2>1, <2>3, <2>6
    <3>2. \A v \in T : v # w => v \in Low(A, R, n)
      <4>1. ASSUME NEW v \in T, v # w PROVE v \in Low(A, R, n)
        <5>1. PICK k \in Nat : k = Rk(v) /\ k < n - 1
          BY <2>4, <4>1
        <5>2. k + 1 < n /\ k < n /\ v \in O
          BY <1>1, <5>1
        <5> HIDE DEF A, T
        <5> QED
          BY <1>7, <5>1, <5>2
      <4> QED
        BY <4>1
    <3>3. x \in Low(A, R, n)
      <4>1. Below(O, R, x) \in SUBSET Below(O, R, w)
        BY <2>1, <2>6 DEF Below, Orders
      <4>2. Rk(x) <= Rk(w)
        BY <1>2, <2>1, <4>1, FS_Subset DEF Rk
      <4>3. Rk(x) \in Nat
        BY <1>2
      <4> QED
        BY <1>8, <2>3, <4>2, <4>3
    <3> QED
      BY <1>9, <2>5, <2>6, <3>1, <3>2, <3>3
  <2>7. CASE <<x, w>> \notin R
    <3>1. <<w, x>> \in R
      BY <2>1, <2>7 DEF Orders
    <3>2. \A v \in T : <<x, v>> \notin R /\ <<v, x>> \in R
      BY <1>1, <1>11, <2>1, <2>7, <3>1 DEF Orders
    <3>3. \A v \in T : v \in Low(A, R, n)
      BY <1>1, <1>4, <1>7, <3>2
    <3>4. x \notin Low(A, R, n)
      <4>1. T \in SUBSET Below(O, R, x)
        BY <1>1, <3>2 DEF Below
      <4>2. Cardinality(T) <= Rk(x)
        BY <1>2, <4>1, FS_Subset DEF Rk
      <4>3. Rk(x) \in Nat
        BY <1>2
      <4> QED
        BY <1>1, <1>8, <1>11, <4>2, <4>3
    <3> QED
      BY <1>9, <2>5, <2>7, <3>3, <3>4
  <2> QED
    BY <2>6, <2>7
<1> HIDE DEF T, A
<1> QED
  BY <1>10, <1>11 DEF T, A

NatOrder == {p \in Nat \X Nat : p[1] < p[2]}
TripleOrder == {p \in Triple \X Triple : Before(p[1], p[2])}

\* Triples are compared place by place.
LEMMA BeforeTriples ==
  ASSUME NEW x \in Triple, NEW y \in Triple
  PROVE  Before(x, y) <=> \/ x[1] < y[1]
                          \/ x[1] = y[1] /\ x[2] < y[2]
                          \/ x[1] = y[1] /\ x[2] = y[2] /\ x[3] < y[3]
<1>1. Len(x) = 3 /\ 1 .. 3 = {1, 2, 3}
  BY DEF Triple
<1>2. 1 .. 1 - 1 = {} /\ 1 .. 2 - 1 = {1} /\ 1 .. 3 - 1 = {1, 2}
  OBVIOUS
<1> QED
  BY <1>1, <1>2 DEF Before

\* The orders of pivots and of samples.
LEMMA OrderFacts ==
  /\ Orders(NatOrder, Nat) /\ \A x, y \in Nat : <<x, y>> \in NatOrder <=> x < y
  /\ Orders(TripleOrder, Triple)
  /\ \A x, y \in Triple : <<x, y>> \in TripleOrder <=> Before(x, y)
<1>1. \A x, y \in Nat : <<x, y>> \in NatOrder <=> x < y
  BY DEF NatOrder
<1>2. Orders(NatOrder, Nat)
  BY <1>1 DEF Orders
<1>3. \A x, y \in Triple : <<x, y>> \in TripleOrder <=> Before(x, y)
  BY DEF TripleOrder
<1>4. \A x, y \in Triple : <<x, y>> \in TripleOrder <=>
        \/ x[1] < y[1]
        \/ x[1] = y[1] /\ x[2] < y[2]
        \/ x[1] = y[1] /\ x[2] = y[2] /\ x[3] < y[3]
  BY <1>3, BeforeTriples
<1>5. \A x \in Triple : x[1] \in Nat /\ x[2] \in Nat /\ x[3] \in Nat
  BY DEF Triple
<1>6. \A x, y \in Triple : x[1] = y[1] /\ x[2] = y[2] /\ x[3] = y[3] => x = y
  BY DEF Triple
<1>7. Orders(TripleOrder, Triple)
  <2>1. \A x \in Triple : <<x, x>> \notin TripleOrder
    BY <1>4, <1>5
  <2>2. \A x, y, z \in Triple :
          <<x, y>> \in TripleOrder /\ <<y, z>> \in TripleOrder => <<x, z>> \in TripleOrder
    BY <1>4, <1>5
  <2>3. \A x, y \in Triple : x = y \/ <<x, y>> \in TripleOrder \/ <<y, x>> \in TripleOrder
    <3>1. ASSUME NEW x \in Triple, NEW y \in Triple, <<x, y>> \notin TripleOrder,
                 <<y, x>> \notin TripleOrder
          PROVE  x = y
      <4>1. /\ x[1] \in Nat /\ x[2] \in Nat /\ x[3] \in Nat
            /\ y[1] \in Nat /\ y[2] \in Nat /\ y[3] \in Nat
        BY <1>5
      <4>2. ~ (x[1] < y[1]) /\ ~ (y[1] < x[1])
        BY <1>4, <3>1
      <4>3. x[1] = y[1]
        BY <4>1, <4>2
      <4>4. ~ (x[2] < y[2]) /\ ~ (y[2] < x[2])
        BY <1>4, <3>1, <4>3
      <4>5. x[2] = y[2]
        BY <4>1, <4>4
      <4>6. ~ (x[3] < y[3]) /\ ~ (y[3] < x[3])
        BY <1>4, <3>1, <4>3, <4>5
      <4>7. x[3] = y[3]
        BY <4>1, <4>6
      <4> QED
        BY <1>6, <4>3, <4>5, <4>7
    <3> QED
      BY <3>1
  <2> QED
    BY <2>1, <2>2, <2>3 DEF Orders
<1> QED
  BY <1>1, <1>2, <1>3, <1>7

\* What the samples keep is the first of their orders.
LEMMA SampledLow ==
  ASSUME NEW S \in SUBSET Nat
  PROVE  Sampled(S) = Low(S, NatOrder, Sketch)
<1>1. \A v \in S : {w \in S : w < v} = Below(S, NatOrder, v)
  BY OrderFacts DEF Below
<1> QED
  BY <1>1 DEF Sampled, Low

LEMMA LeastLow ==
  ASSUME NEW S \in SUBSET Triple, NEW n
  PROVE  Least(S, n) = Low(S, TripleOrder, n)
<1>1. \A x \in S : {y \in S : Before(y, x)} = Below(S, TripleOrder, x)
  BY OrderFacts DEF Below
<1> QED
  BY <1>1 DEF Least, Low

\* The n least of numbers, in two goes.
LEMMA NatLowLow ==
  ASSUME NEW X \in SUBSET Nat, IsFiniteSet(X), NEW Y \in SUBSET Nat, IsFiniteSet(Y),
         NEW n \in Nat
  PROVE  Low(Low(X, NatOrder, n) \cup Y, NatOrder, n) = Low(X \cup Y, NatOrder, n)
<1>1. \A U : Orders(NatOrder, U) => \A S \in SUBSET U : IsFiniteSet(S) =>
        \A T \in SUBSET U : IsFiniteSet(T) => \A m \in Nat :
          Low(Low(S, NatOrder, m) \cup T, NatOrder, m) = Low(S \cup T, NatOrder, m)
  BY LowLow
<1>2. PICK U : U = Nat
  OBVIOUS
<1>3. Orders(NatOrder, U)
  BY <1>2, OrderFacts
<1>4. \A S \in SUBSET U : IsFiniteSet(S) =>
        \A T \in SUBSET U : IsFiniteSet(T) => \A m \in Nat :
          Low(Low(S, NatOrder, m) \cup T, NatOrder, m) = Low(S \cup T, NatOrder, m)
  BY <1>1, <1>3, SMT
<1>5. \A S \in SUBSET Nat : IsFiniteSet(S) =>
        \A T \in SUBSET Nat : IsFiniteSet(T) => \A m \in Nat :
          Low(Low(S, NatOrder, m) \cup T, NatOrder, m) = Low(S \cup T, NatOrder, m)
  BY <1>2, <1>4
<1> QED
  BY <1>5

\* The sketch of a resolvent is that of all its pivots.
LEMMA ResolvedFacts ==
  ASSUME NEW P \in SUBSET Nat, IsFiniteSet(P), NEW Q \in SUBSET Nat, IsFiniteSet(Q),
         NEW v \in Nat
  PROVE  Sampled(Sampled(Sampled(P) \cup Sampled(Q)) \cup {v}) = Sampled(P \cup Q \cup {v})
<1>1. Sketch \in Nat /\ Orders(NatOrder, Nat) /\ IsFiniteSet({v}) /\ {v} \in SUBSET Nat
  BY StorageAssumption, OrderFacts, FS_Singleton
<1>2. ASSUME NEW X \in SUBSET Nat, IsFiniteSet(X), NEW Y \in SUBSET Nat, IsFiniteSet(Y)
      PROVE  Sampled(Sampled(X) \cup Y) = Sampled(X \cup Y)
  <2>1. Sampled(X) = Low(X, NatOrder, Sketch) /\ Sampled(X) \in SUBSET Nat
    BY <1>2, SampledLow DEF Low
  <2>2. Sampled(X) \cup Y \in SUBSET Nat /\ X \cup Y \in SUBSET Nat
    BY <1>2, <2>1
  <2>3. /\ Sampled(Sampled(X) \cup Y) = Low(Sampled(X) \cup Y, NatOrder, Sketch)
        /\ Sampled(X \cup Y) = Low(X \cup Y, NatOrder, Sketch)
    BY <2>2, SampledLow
  <2>4. Low(Low(X, NatOrder, Sketch) \cup Y, NatOrder, Sketch) = Low(X \cup Y, NatOrder, Sketch)
    BY <1>1, <1>2, NatLowLow
  <2> QED
    BY <2>1, <2>3, <2>4
<1>3. /\ Sampled(P) \in SUBSET Nat /\ IsFiniteSet(Sampled(P))
      /\ Sampled(Q) \in SUBSET Nat /\ IsFiniteSet(Sampled(Q))
  <2>1. Sampled(P) \in SUBSET P /\ Sampled(Q) \in SUBSET Q
    BY DEF Sampled
  <2> QED
    BY <2>1, FS_Subset
<1>4. /\ Sampled(P) \cup Sampled(Q) \in SUBSET Nat /\ IsFiniteSet(Sampled(P) \cup Sampled(Q))
      /\ Sampled(Q) \cup {v} \in SUBSET Nat /\ IsFiniteSet(Sampled(Q) \cup {v})
      /\ P \cup {v} \in SUBSET Nat /\ IsFiniteSet(P \cup {v})
  BY <1>1, <1>3, FS_Union
<1>5. Sampled(Sampled(Sampled(P) \cup Sampled(Q)) \cup {v})
        = Sampled((Sampled(P) \cup Sampled(Q)) \cup {v})
  BY <1>1, <1>2, <1>4
<1>6. Sampled(Sampled(P) \cup (Sampled(Q) \cup {v})) = Sampled(P \cup (Sampled(Q) \cup {v}))
  BY <1>2, <1>4
<1>7. Sampled(Sampled(Q) \cup (P \cup {v})) = Sampled(Q \cup (P \cup {v}))
  BY <1>2, <1>4
<1>8. /\ (Sampled(P) \cup Sampled(Q)) \cup {v} = Sampled(P) \cup (Sampled(Q) \cup {v})
      /\ P \cup (Sampled(Q) \cup {v}) = Sampled(Q) \cup (P \cup {v})
      /\ Q \cup (P \cup {v}) = P \cup Q \cup {v}
  OBVIOUS
<1> QED
  BY <1>5, <1>6, <1>7, <1>8

\* An offer keeps the least of all that were offered.
LEMMA OfferedFacts ==
  ASSUME NEW O \in SUBSET Triple, IsFiniteSet(O), NEW x \in Triple, x \notin O
  PROVE  Offered(Least(O, Capacity), x) = Least(O \cup {x}, Capacity)
<1> DEFINE T == Low(O, TripleOrder, Capacity)
<1>1. Capacity \in Nat /\ Capacity # 0 /\ Orders(TripleOrder, Triple)
  BY StorageAssumption, OrderFacts
<1>2. Least(O, Capacity) = T /\ Least(O \cup {x}, Capacity) = Low(O \cup {x}, TripleOrder, Capacity)
  BY LeastLow
<1>3. T \in SUBSET O /\ IsFiniteSet(T) /\ Cardinality(T) \in Nat
  BY <1>1, LowSize
<1>4. /\ Cardinality(T) < Capacity => Low(O \cup {x}, TripleOrder, Capacity) = T \cup {x}
      /\ ~ (Cardinality(T) < Capacity) =>
           \A w \in T : (\A y \in T : y = w \/ <<y, w>> \in TripleOrder) =>
             Low(O \cup {x}, TripleOrder, Capacity)
               = IF <<x, w>> \in TripleOrder THEN (T \ {w}) \cup {x} ELSE T
  BY <1>1, LowAdd
<1> HIDE DEF T
<1>5. CASE Cardinality(T) < Capacity
  BY <1>2, <1>4, <1>5 DEF Offered
<1>6. CASE ~ (Cardinality(T) < Capacity)
  <2> DEFINE w == CHOOSE w \in T : \A y \in T : y = w \/ Before(y, w)
  <2>1. T # {}
    <3>1. T = {} => Cardinality(T) = 0
      BY FS_EmptySet
    <3> QED
      BY <1>1, <1>6, <3>1
  <2>2. \E z \in T : \A y \in T : y = z \/ <<y, z>> \in TripleOrder
    BY <1>1, <1>3, <2>1, LastElement
  <2>3. \E z \in T : \A y \in T : y = z \/ Before(y, z)
    BY <1>3, <2>2, OrderFacts
  <2>4. w \in T /\ \A y \in T : y = w \/ Before(y, w)
    BY <2>3
  <2> HIDE DEF w
  <2>5. \A y \in T : y = w \/ <<y, w>> \in TripleOrder
    BY <1>3, <2>4, OrderFacts
  <2>6. w \in Triple /\ (<<x, w>> \in TripleOrder <=> Before(x, w))
    BY <1>3, <2>4, OrderFacts
  <2>7. Offered(T, x) = IF Before(x, w) THEN (T \ {w}) \cup {x} ELSE T
    BY <1>6 DEF Offered, w
  <2> QED
    BY <1>2, <1>4, <1>6, <2>4, <2>5, <2>6, <2>7
<1> QED
  BY <1>5, <1>6

\* The rank of a clause is a triple that tells it from the others, and from those
\* of earlier reductions.
LEMMA SampleFacts ==
  ASSUME reductions \in Nat, NEW i \in Nat, NEW k \in Nat
  PROVE  /\ SampleOf(i) \in Triple /\ SampleOf(i)[2] = reductions + 1
         /\ SampleOf(i) = SampleOf(k) => i = k
<1>1. Mixed(i, reductions + 1) \in Nat
  BY DEF Mixed
<1> HIDE DEF Mixed
<1>2. SampleOf(i) \in Triple
  BY <1>1 DEF SampleOf, Triple
<1>3. SampleOf(i)[2] = reductions + 1 /\ SampleOf(i)[3] = i /\ SampleOf(k)[3] = k
  BY DEF SampleOf
<1> QED
  BY <1>2, <1>3

\* The sample of the offers, when the clauses of D are offered, in any order.
LEMMA OfferingFacts ==
  ASSUME reductions \in Nat, samples = Least(offered, Capacity),
         offered \in SUBSET Triple, IsFiniteSet(offered),
         \A o \in offered : o[2] <= reductions,
         NEW D \in SUBSET Nat, IsFiniteSet(D)
  PROVE  LET O == offered \cup {SampleOf(i) : i \in D}
         IN  /\ Offering(D) = Least(O, Capacity)
             /\ O \in SUBSET Triple /\ IsFiniteSet(O)
             /\ \A o \in O : o[2] <= reductions + 1
<1> DEFINE order == SetToSeq(D)
           n == Len(order)
           Is(g) == g = [k \in 0 .. n |-> IF k = 0 THEN samples
                                          ELSE Offered(g[k - 1], SampleOf(order[k]))]
           sampled == CHOOSE g : Is(g)
           First(k) == offered \cup {SampleOf(order[j]) : j \in 1 .. k}
           O == offered \cup {SampleOf(i) : i \in D}
<1>1. Offering(D) = sampled[n]
  BY DEF Offering
<1>2. /\ n \in Nat /\ \A k \in 1 .. n : order[k] \in D
      /\ \A i, j \in 1 .. n : order[i] = order[j] => i = j
      /\ \A x \in D : \E i \in 1 .. n : order[i] = x
  BY SetToSeqFacts
<1> HIDE DEF order
<1>3. \A k \in 1 .. n : SampleOf(order[k]) \in Triple /\ SampleOf(order[k])[2] = reductions + 1
  BY <1>2, SampleFacts
<1>4. Is(sampled)
  <2> DEFINE S == SUBSET Triple
             step == [k \in 1 .. n |-> [x \in S |-> Offered(x, SampleOf(order[k]))]]
  <2>1. ASSUME NEW x \in S, NEW k \in 1 .. n PROVE Offered(x, SampleOf(order[k])) \in S
    <3>1. SampleOf(order[k]) \in Triple
      BY <1>3
    <3> HIDE DEF n
    <3> QED
      BY <3>1 DEF Offered
  <2>2. IsStep(step, n, S)
    BY <2>1 DEF IsStep
  <2>3. samples \in S
    BY DEF Least
  <2>4. PICK g \in [0 .. n -> S] : IsChain(g, n, samples, step)
    <3> HIDE DEF step, S, n
    <3> QED
      BY <1>2, <2>2, <2>3, Recursion
  <2>5. Is(g)
    <3> HIDE DEF S, n
    <3>1. \A k \in 1 .. n, x \in S : step[k][x] = Offered(x, SampleOf(order[k]))
      OBVIOUS
    <3>2. \A k \in 1 .. n : k - 1 \in 0 .. n /\ g[k - 1] \in S
      BY <1>2, <2>4
    <3>3. g = [k \in 0 .. n |-> IF k = 0 THEN samples ELSE step[k][g[k - 1]]]
      BY <2>4 DEF IsChain
    <3> HIDE DEF step, n, S
    <3>4. \A k \in 0 .. n : k # 0 => step[k][g[k - 1]] = Offered(g[k - 1], SampleOf(order[k]))
      BY <1>2, <3>1, <3>2
    <3> QED
      BY <3>3, <3>4
  <2> QED
    BY <2>5
<1> HIDE DEF sampled
<1>5. /\ sampled[0] = samples
      /\ \A k \in 1 .. n : sampled[k] = Offered(sampled[k - 1], SampleOf(order[k]))
  <2>1. \A k \in 0 .. n : sampled[k] = IF k = 0 THEN samples
                                       ELSE Offered(sampled[k - 1], SampleOf(order[k]))
    BY <1>4
  <2> HIDE DEF Is
  <2>2. 0 \in 0 .. n /\ \A k \in 1 .. n : k \in 0 .. n /\ k # 0
    BY <1>2
  <2> QED
    BY <2>1, <2>2
<1> HIDE DEF Is, n
<1>6. \A k \in 0 .. n : First(k) \in SUBSET Triple
  <2>1. \A k \in 0 .. n : \A j \in 1 .. k : j \in 1 .. n
    BY <1>2
  <2> QED
    BY <1>3, <2>1
<1> DEFINE Good(k) == sampled[k] = Least(First(k), Capacity) /\ IsFiniteSet(First(k))
           T == {k \in 0 .. n : Good(k)}
<1>7. Good(0)
  <2>1. First(0) = offered
    OBVIOUS
  <2> HIDE DEF First
  <2> QED
    BY <1>5, <2>1
<1>8. ASSUME NEW k \in 0 .. n - 1, Good(k) PROVE Good(k + 1)
  <2> DEFINE x == SampleOf(order[k + 1])
  <2>1. k + 1 \in 1 .. n /\ k + 1 - 1 = k /\ k \in 0 .. n
    BY <1>2
  <2>2. x \in Triple /\ x[2] = reductions + 1
    BY <1>3, <2>1
  <2>3. x \notin First(k)
    <3>1. x \notin offered
      BY <2>2
    <3>2. ASSUME NEW j \in 1 .. k PROVE SampleOf(order[j]) # x
      <4>1. j \in 1 .. n /\ j # k + 1
        BY <1>2, <2>1
      <4>2. order[j] # order[k + 1] /\ order[j] \in Nat /\ order[k + 1] \in Nat
        BY <1>2, <2>1, <4>1
      <4> QED
        BY <4>2, SampleFacts
    <3> QED
      BY <3>1, <3>2
  <2>4. First(k + 1) = First(k) \cup {x}
    <3>1. \A j : j \in 1 .. k + 1 <=> j \in 1 .. k \/ j = k + 1
      BY <2>1
    <3> HIDE DEF n
    <3> QED
      BY <3>1
  <2>5. First(k) \in SUBSET Triple
    BY <1>6, <2>1
  <2>6. sampled[k + 1] = Offered(sampled[k], x)
    BY <1>5, <2>1
  <2> HIDE DEF First, x
  <2>7. Offered(Least(First(k), Capacity), x) = Least(First(k) \cup {x}, Capacity)
    BY <1>8, <2>2, <2>3, <2>5, OfferedFacts
  <2>8. IsFiniteSet(First(k) \cup {x})
    BY <1>8, FS_AddElement
  <2> QED
    BY <1>8, <2>4, <2>6, <2>7, <2>8
<1>9. Good(n)
  <2> HIDE DEF Good
  <2>1. T \in SUBSET (0 .. n) /\ 0 \in T /\ \A k \in 0 .. n - 1 : k \in T => k + 1 \in T
    BY <1>2, <1>7, <1>8
  <2> HIDE DEF T
  <2>2. \A k \in 0 .. n : k \in T
    BY <1>2, <2>1, UpTo
  <2> QED
    BY <1>2, <2>2 DEF T
<1>10. First(n) = O /\ n \in 0 .. n
  <2>1. n \in 0 .. n
    BY <1>2
  <2>2. {SampleOf(order[j]) : j \in 1 .. n} = {SampleOf(i) : i \in D}
    <3>1. ASSUME NEW j \in 1 .. n PROVE SampleOf(order[j]) \in {SampleOf(i) : i \in D}
      BY <1>2
    <3>2. ASSUME NEW i \in D PROVE SampleOf(i) \in {SampleOf(order[j]) : j \in 1 .. n}
      <4>1. PICK j \in 1 .. n : order[j] = i
        BY <1>2
      <4> QED
        BY <4>1
    <3> QED
      BY <3>1, <3>2
  <2> QED
    BY <2>1, <2>2
<1>11. \A o \in O : o[2] <= reductions + 1
  <2>1. ASSUME NEW o \in offered PROVE o[2] <= reductions + 1
    <3>1. o[2] \in Nat /\ o[2] <= reductions
      BY DEF Triple
    <3> QED
      BY <3>1
  <2>2. ASSUME NEW i \in D PROVE SampleOf(i)[2] <= reductions + 1
    BY SampleFacts
  <2> QED
    BY <2>1, <2>2
<1> HIDE DEF First, O
<1> QED
  BY <1>1, <1>6, <1>9, <1>10, <1>11 DEF O

\* The shadow clauses that are not decided on are listed on, in their order.
LEMMA RetainedFacts ==
  ASSUME shadows \in Seq(Nat)
  PROVE  /\ Retained \in Seq(Nat) /\ Len(Retained) <= Len(shadows)
         /\ Range(Retained) = {x \in Range(shadows) : ~Finalized(x)}
<1> DEFINE n == Len(shadows)
           Is(g) == g = [k \in 0 .. n |-> IF k = 0 THEN << >>
                                          ELSE IF Finalized(shadows[k]) THEN g[k - 1]
                                          ELSE Append(g[k - 1], shadows[k])]
           kept == CHOOSE g : Is(g)
<1>1. Retained = kept[n]
  BY DEF Retained
<1>2. n \in Nat /\ DOMAIN shadows = 1 .. n /\ \A k \in 1 .. n : shadows[k] \in Nat
  BY LenProperties
<1> HIDE DEF n
<1>3. Is(kept)
  <2> DEFINE S == Seq(Nat)
             step == [k \in 1 .. n |-> [x \in S |-> IF Finalized(shadows[k]) THEN x
                                                    ELSE Append(x, shadows[k])]]
  <2>1. IsStep(step, n, S)
    <3>1. \A x \in S, k \in 1 .. n : Append(x, shadows[k]) \in S
      BY <1>2, AppendProperties
    <3> QED
      BY <3>1 DEF IsStep
  <2>2. << >> \in S
    BY EmptySeq
  <2>3. PICK g \in [0 .. n -> S] : IsChain(g, n, << >>, step)
    <3> HIDE DEF step, S
    <3> QED
      BY <1>2, <2>1, <2>2, Recursion
  <2>4. Is(g)
    <3> HIDE DEF S
    <3>1. \A k \in 1 .. n, x \in S : step[k][x] = IF Finalized(shadows[k]) THEN x
                                                  ELSE Append(x, shadows[k])
      OBVIOUS
    <3>2. \A k \in 1 .. n : k - 1 \in 0 .. n /\ g[k - 1] \in S
      BY <1>2, <2>3
    <3>3. g = [k \in 0 .. n |-> IF k = 0 THEN << >> ELSE step[k][g[k - 1]]]
      BY <2>3 DEF IsChain
    <3> HIDE DEF step
    <3>4. \A k \in 0 .. n : k # 0 => step[k][g[k - 1]] = IF Finalized(shadows[k]) THEN g[k - 1]
                                                         ELSE Append(g[k - 1], shadows[k])
      BY <1>2, <3>1, <3>2
    <3> QED
      BY <3>3, <3>4
  <2> QED
    BY <2>4
<1> HIDE DEF kept
<1>4. /\ kept[0] = << >>
      /\ \A k \in 1 .. n : kept[k] = IF Finalized(shadows[k]) THEN kept[k - 1]
                                     ELSE Append(kept[k - 1], shadows[k])
  <2>1. \A k \in 0 .. n : kept[k] = IF k = 0 THEN << >>
                                    ELSE IF Finalized(shadows[k]) THEN kept[k - 1]
                                    ELSE Append(kept[k - 1], shadows[k])
    BY <1>3
  <2> HIDE DEF Is
  <2>2. 0 \in 0 .. n /\ \A k \in 1 .. n : k \in 0 .. n /\ k # 0
    BY <1>2
  <2> QED
    BY <2>1, <2>2
<1> HIDE DEF Is
<1> DEFINE Left(k) == {shadows[j] : j \in {j \in 1 .. k : ~Finalized(shadows[j])}}
           Good(k) == kept[k] \in Seq(Nat) /\ Len(kept[k]) <= k /\ Range(kept[k]) = Left(k)
           T == {k \in 0 .. n : Good(k)}
<1>5. Good(0)
  <2>1. Left(0) = {}
    OBVIOUS
  <2>2. << >> \in Seq(Nat) /\ Len(<< >>) = 0 /\ Range(<< >>) = {}
    BY EmptySeq DEF Range
  <2> QED
    BY <1>4, <2>1, <2>2
<1>6. ASSUME NEW k \in 0 .. n - 1, Good(k) PROVE Good(k + 1)
  <2> DEFINE x == shadows[k + 1]
             s == kept[k]
  <2>1. k + 1 \in 1 .. n /\ k + 1 - 1 = k /\ k \in Nat
    BY <1>2
  <2>2. kept[k + 1] = IF Finalized(x) THEN s ELSE Append(s, x)
    BY <1>4, <2>1
  <2>3. x \in Nat
    BY <1>2, <2>1
  <2>4. Left(k + 1) = IF Finalized(x) THEN Left(k) ELSE Left(k) \cup {x}
    <3>1. \A j : j \in 1 .. k + 1 <=> j \in 1 .. k \/ j = k + 1
      BY <2>1
    <3>2. CASE Finalized(x)
      BY <3>1, <3>2
    <3>3. CASE ~Finalized(x)
      BY <3>1, <3>3
    <3> QED
      BY <3>2, <3>3
  <2>5. s \in Seq(Nat) /\ Len(s) \in Nat /\ Len(s) <= k /\ Range(s) = Left(k)
    BY <1>6, LenProperties
  <2> HIDE DEF Left, x, s
  <2>6. CASE Finalized(x)
    BY <2>1, <2>2, <2>4, <2>5, <2>6
  <2>7. CASE ~Finalized(x)
    <3>1. /\ Append(s, x) \in Seq(Nat) /\ Len(Append(s, x)) = Len(s) + 1
          /\ Append(s, x)[Len(s) + 1] = x
          /\ \A i \in 1 .. Len(s) : Append(s, x)[i] = s[i]
      BY <2>3, <2>5, AppendProperties
    <3>2. DOMAIN s = 1 .. Len(s) /\ DOMAIN Append(s, x) = 1 .. Len(s) + 1
      BY <2>5, <3>1, LenProperties
    <3>3. \A j : j \in 1 .. Len(s) + 1 <=> j \in 1 .. Len(s) \/ j = Len(s) + 1
      BY <2>5
    <3>4. Range(Append(s, x)) = Range(s) \cup {x}
      BY <3>1, <3>2, <3>3 DEF Range
    <3>5. Len(s) + 1 <= k + 1
      BY <2>1, <2>5
    <3> QED
      BY <2>2, <2>4, <2>5, <2>7, <3>1, <3>4, <3>5
  <2> QED
    BY <2>6, <2>7
<1>7. Good(n)
  <2> HIDE DEF Good
  <2>1. T \in SUBSET (0 .. n) /\ 0 \in T /\ \A k \in 0 .. n - 1 : k \in T => k + 1 \in T
    BY <1>2, <1>5, <1>6
  <2> HIDE DEF T
  <2>2. \A k \in 0 .. n : k \in T
    BY <1>2, <2>1, UpTo
  <2> QED
    BY <1>2, <2>2 DEF T
<1>8. Left(n) = {x \in Range(shadows) : ~Finalized(x)}
  BY <1>2 DEF Range
<1> QED
  BY <1>1, <1>2, <1>7, <1>8 DEF n

\* Pairs are compared place by place.
LEMMA BeforePairs ==
  ASSUME NEW a \in Nat, NEW b \in Nat, NEW c \in Nat, NEW d \in Nat
  PROVE  Before(<<a, b>>, <<c, d>>) <=> a < c \/ (a = c /\ b < d)
<1>1. Len(<<a, b>>) = 2 /\ 1 .. 2 = {1, 2} /\ 1 .. 1 - 1 = {} /\ 1 .. 2 - 1 = {1}
  OBVIOUS
<1> QED
  BY <1>1 DEF Before

\* There is room for the clauses that are put under observation.
LEMMA ObservedFacts ==
  ASSUME reductions \in Nat, Len(shadows) \in Nat, Len(shadows) <= Capacity,
         NEW D \in SUBSET Nat, IsFiniteSet(D)
  PROVE  /\ Observed(D) \in SUBSET D /\ IsFiniteSet(Observed(D))
         /\ Cardinality(Observed(D)) \in Nat
         /\ Cardinality(Observed(D)) + Len(shadows) <= Capacity
<1> DEFINE m(i) == Mixed(i, reductions + 1)
           R == {p \in Nat \X Nat : Before(<<m(p[1]), p[1]>>, <<m(p[2]), p[2]>>)}
           n == Capacity - Len(shadows)
<1>1. \A i \in Nat : m(i) \in Nat
  BY DEF Mixed
<1> HIDE DEF m
<1>2. \A i, k \in Nat : Before(<<m(i), i>>, <<m(k), k>>) <=> m(i) < m(k) \/ (m(i) = m(k) /\ i < k)
  BY <1>1, BeforePairs
<1>3. \A i, k \in Nat : <<i, k>> \in R <=> Before(<<m(i), i>>, <<m(k), k>>)
  OBVIOUS
<1> HIDE DEF R
<1>4. \A i, k \in Nat : <<i, k>> \in R <=> m(i) < m(k) \/ (m(i) = m(k) /\ i < k)
  BY <1>2, <1>3
<1>5. Orders(R, Nat)
  <2>1. \A x \in Nat : <<x, x>> \notin R
    BY <1>1, <1>4
  <2>2. ASSUME NEW x \in Nat, NEW y \in Nat, NEW z \in Nat, <<x, y>> \in R, <<y, z>> \in R
        PROVE  <<x, z>> \in R
    <3>1. PICK a \in Nat, b \in Nat, c \in Nat : a = m(x) /\ b = m(y) /\ c = m(z)
      BY <1>1
    <3>2. (a < b \/ (a = b /\ x < y)) /\ (b < c \/ (b = c /\ y < z))
      BY <1>4, <2>2, <3>1
    <3>3. a < c \/ (a = c /\ x < z)
      BY <3>2
    <3> QED
      BY <1>4, <3>1, <3>3
  <2>3. ASSUME NEW x \in Nat, NEW y \in Nat PROVE x = y \/ <<x, y>> \in R \/ <<y, x>> \in R
    <3>1. PICK a \in Nat, b \in Nat : a = m(x) /\ b = m(y)
      BY <1>1
    <3>2. a < b \/ b < a \/ (a = b /\ (x < y \/ y < x \/ x = y))
      OBVIOUS
    <3> QED
      BY <1>4, <3>1, <3>2
  <2> QED
    BY <2>1, <2>2, <2>3 DEF Orders
<1>6. Observed(D) = Low(D, R, n)
  <2>1. \A i \in D : {k \in D : Before(<<m(k), k>>, <<m(i), i>>)} = Below(D, R, i)
    BY <1>3 DEF Below
  <2> QED
    BY <2>1 DEF Observed, FirstBy, Low, m
<1>7. n \in Nat /\ n + Len(shadows) <= Capacity
  BY StorageAssumption
<1> HIDE DEF n
<1>8. /\ Low(D, R, n) \in SUBSET D /\ IsFiniteSet(Low(D, R, n))
      /\ Cardinality(Low(D, R, n)) \in Nat /\ Cardinality(Low(D, R, n)) <= n
  <2>1. PICK U : U = Nat
    OBVIOUS
  <2>2. Orders(R, U) /\ D \in SUBSET U
    BY <1>5, <2>1
  <2> QED
    BY <1>7, <2>2, LowSize
<1> QED
  BY <1>6, <1>7, <1>8, StorageAssumption

\* A reduction by use deletes candidates only.
LEMMA DoomedFacts ==
  Doomed \in SUBSET Candidate
<1>1. Unused \in SUBSET Candidate
  BY DEF Unused
<1> QED
  BY <1>1 DEF Doomed, FirstBy

-----------------------------------------------------------------------------
(***************************************************************************)
(* The arena under each kind of step.                                      *)
(***************************************************************************)

\* The accounts of use say nothing of the arena.
LEMMA ArenaSame ==
  ASSUME NEW A, NEW C, NEW E, NEW G, DOMAIN E = DOMAIN C,
         \A i \in DOMAIN C : /\ E[i].start = C[i].start /\ E[i].len = C[i].len
                             /\ E[i].deleted = C[i].deleted,
         ArenaOK(A, C, G)
  PROVE  ArenaOK(A, E, G)
<1>1. LiveIn(E) = LiveIn(C) /\ LiveIn(C) \in SUBSET DOMAIN C
  BY DEF LiveIn
<1>2. \A i \in DOMAIN C : Held(E[i]) = Held(C[i])
  BY DEF Held
<1>3. GapsOf(A, E) = GapsOf(A, C)
  BY <1>1, <1>2 DEF GapsOf
<1>4. \A i \in DOMAIN E : ~E[i].deleted \/ ~config.compact => Stands(A, E[i], i)
  BY DEF ArenaOK, Stands
<1>5. Ordered(C) => Ordered(E)
  BY <1>1 DEF Ordered
<1>6. FirstGap(A, C, G) => FirstGap(A, E, G)
  BY <1>1, <1>3 DEF FirstGap
<1> QED
  BY <1>3, <1>4, <1>5, <1>6 DEF ArenaOK

\* An arena that is never compacted keeps the deleted clauses too.
LEMMA ArenaLoose ==
  ASSUME NEW A, NEW C, NEW E, NEW G, ~config.compact, DOMAIN E = DOMAIN C,
         \A i \in DOMAIN C : E[i].start = C[i].start /\ E[i].len = C[i].len,
         ArenaOK(A, C, G)
  PROVE  ArenaOK(A, E, G)
BY DEF ArenaOK, Stands

\* What a reduction leaves.
LEMMA StoredFacts ==
  ASSUME config.compact \in BOOLEAN, arena \in Seq(Nat),
         NEW s, s.clauses \in Seq(ClauseRecord), s.garbage \in GarbageRecord,
         ArenaOK(arena, s.clauses, s.garbage), Stored(s)
  PROVE  /\ arena' \in Seq(Nat) /\ garbage' \in GarbageRecord
         /\ clauses' \in Seq(ClauseRecord) /\ Len(clauses') = Len(s.clauses)
         /\ \A i \in DOMAIN s.clauses :
              clauses'[i] = [s.clauses[i] EXCEPT !.start = clauses'[i].start]
         /\ ArenaOK(arena', clauses', garbage')
<1>1. CASE ~config.compact \/ s.garbage.literals = 0
  <2>1. arena' = arena /\ clauses' = s.clauses /\ garbage' = s.garbage
    BY <1>1 DEF Stored
  <2>2. \A i \in DOMAIN s.clauses : s.clauses[i] = [s.clauses[i] EXCEPT !.start = s.clauses[i].start]
    <3>1. \A i \in DOMAIN s.clauses : s.clauses[i] \in ClauseRecord
      BY LenProperties
    <3> QED
      BY <3>1 DEF ClauseRecord
  <2> QED
    BY <2>1, <2>2
<1>2. CASE ~ (~config.compact \/ s.garbage.literals = 0)
  <2>1. arena' = Compacted(s).arena /\ clauses' = Compacted(s).clauses /\ garbage' = NoGarbage
    BY <1>2 DEF Stored
  <2>2. /\ Compacted(s).arena \in Seq(Nat) /\ Moved(Compacted(s), s.clauses)
        /\ ArenaOK(Compacted(s).arena, Compacted(s).clauses, NoGarbage)
    BY <1>2, CompactedFacts
  <2>3. NoGarbage \in GarbageRecord
    BY DEF NoGarbage, GarbageRecord
  <2> QED
    BY <2>1, <2>2, <2>3 DEF Moved
<1> QED
  BY <1>1, <1>2

\* A clause allocated at the end.
LEMMA ArenaLonger ==
  ASSUME config.compact \in BOOLEAN, NEW A \in Seq(Nat), NEW C \in Seq(ClauseRecord),
         NEW G \in GarbageRecord, ArenaOK(A, C, G), NEW c \in ClauseRecord,
         c.start = Len(A) + 1, ~c.deleted
  PROVE  LET i == Len(C) + 1
             B == A \o Literals(i, c.len)
         IN  B \in Seq(Nat) /\ Append(C, c) \in Seq(ClauseRecord) /\ ArenaOK(B, Append(C, c), G)
<1> DEFINE i == Len(C) + 1
           L == Literals(i, c.len)
           B == A \o L
           E == Append(C, c)
<1>1. /\ DOMAIN C = 1 .. Len(C) /\ Len(C) \in Nat /\ \A j \in DOMAIN C : C[j] \in ClauseRecord
      /\ DOMAIN A = 1 .. Len(A) /\ Len(A) \in Nat /\ \A k \in 1 .. Len(A) : A[k] \in Nat
      /\ LiveIn(C) \in SUBSET DOMAIN C
  BY LenProperties DEF LiveIn
<1>2. c.len \in Nat /\ c.len >= 3 /\ c.start \in Nat
  BY HeldFacts
<1>3. L \in Seq(Nat) /\ Len(L) = c.len /\ \A k \in 1 .. c.len : L[k] = 10 * i + k
  <2>1. L = [j \in 1 .. c.len |-> 10 * i + j]
    BY DEF Literals
  <2>2. \A j \in 1 .. c.len : 10 * i + j \in Nat
    BY <1>1, <1>2
  <2> HIDE DEF L, i
  <2>3. L \in [1 .. c.len -> Nat]
    BY <2>1, <2>2
  <2>4. L \in Seq(Nat) /\ Len(L) = c.len
    <3>1. PICK m \in Nat : m = c.len
      BY <1>2
    <3>2. L \in [1 .. m -> Nat]
      BY <2>3, <3>1
    <3>3. L \in Seq(Nat) /\ Len(L) = m
      BY <3>2
    <3> QED
      BY <3>1, <3>3
  <2>5. \A k \in 1 .. c.len : L[k] = 10 * i + k
    BY <2>1
  <2> QED
    BY <2>4, <2>5
<1> HIDE DEF L
<1>4. /\ B \in Seq(Nat) /\ Len(B) = Len(A) + c.len /\ DOMAIN B = 1 .. Len(A) + c.len
      /\ \A k \in 1 .. Len(A) : B[k] = A[k]
      /\ \A k \in 1 .. c.len : B[Len(A) + k] = 10 * i + k
  <2>1. /\ B \in Seq(Nat) /\ Len(B) = Len(A) + Len(L)
        /\ \A k \in 1 .. Len(A) + Len(L) : B[k] = IF k <= Len(A) THEN A[k] ELSE L[k - Len(A)]
    BY <1>3, ConcatProperties
  <2> HIDE DEF B, i
  <2>2. DOMAIN B = 1 .. Len(B)
    BY <2>1, LenProperties
  <2>3. \A k \in 1 .. Len(A) : B[k] = A[k]
    <3>1. \A k \in 1 .. Len(A) : k \in 1 .. Len(A) + Len(L) /\ k <= Len(A)
      BY <1>1, <1>2, <1>3
    <3> QED
      BY <2>1, <3>1
  <2>4. \A k \in 1 .. c.len : B[Len(A) + k] = 10 * i + k
    <3>1. \A k \in 1 .. c.len : /\ Len(A) + k \in 1 .. Len(A) + Len(L) /\ ~ (Len(A) + k <= Len(A))
                                /\ Len(A) + k - Len(A) = k
      BY <1>1, <1>2, <1>3
    <3>2. \A k \in 1 .. c.len : B[Len(A) + k] = L[Len(A) + k - Len(A)]
      BY <2>1, <3>1
    <3> QED
      BY <1>3, <3>1, <3>2
  <2> QED
    BY <1>3, <2>1, <2>2, <2>3, <2>4
<1>5. /\ E \in Seq(ClauseRecord) /\ Len(E) = i /\ DOMAIN E = DOMAIN C \cup {i} /\ i \notin DOMAIN C
      /\ E[i] = c /\ \A j \in DOMAIN C : E[j] = C[j]
  <2>1. /\ E \in Seq(ClauseRecord) /\ Len(E) = Len(C) + 1 /\ E[Len(C) + 1] = c
        /\ \A j \in 1 .. Len(C) : E[j] = C[j]
    BY AppendProperties
  <2>2. DOMAIN E = 1 .. Len(C) + 1
    <3> HIDE DEF E
    <3> QED
      BY <2>1, LenProperties
  <2> HIDE DEF E
  <2>3. 1 .. Len(C) + 1 = (1 .. Len(C)) \cup {Len(C) + 1} /\ Len(C) + 1 \notin 1 .. Len(C)
    BY <1>1
  <2> QED
    BY <1>1, <2>1, <2>2, <2>3
<1> HIDE DEF B, E
<1>6. LiveIn(E) = LiveIn(C) \cup {i}
  BY <1>5 DEF LiveIn
<1>7. \A j \in DOMAIN C : ~C[j].deleted \/ ~config.compact => Stands(A, C[j], j)
  BY DEF ArenaOK
<1>8. Stands(B, c, i)
  <2>1. c.start + c.len - 1 <= Len(B) /\ 1 <= c.start
    BY <1>1, <1>2, <1>4
  <2>2. ASSUME NEW k \in 1 .. c.len PROVE B[c.start + k - 1] = 10 * i + k
    <3>1. c.start + k - 1 = Len(A) + k
      BY <1>1, <1>2
    <3> HIDE DEF i
    <3> QED
      BY <1>4, <3>1
  <2> QED
    BY <2>1, <2>2 DEF Stands
<1>9. ASSUME NEW j \in DOMAIN C, Stands(A, C[j], j) PROVE Stands(B, C[j], j)
  <2>1. C[j].start \in Nat /\ C[j].len \in Nat
    BY <1>1, HeldFacts
  <2>2. 1 <= C[j].start /\ C[j].start + C[j].len - 1 <= Len(A)
    BY <1>9 DEF Stands
  <2>3. C[j].start + C[j].len - 1 <= Len(B)
    BY <1>1, <1>2, <1>4, <2>1, <2>2
  <2>4. ASSUME NEW k \in 1 .. C[j].len PROVE B[C[j].start + k - 1] = 10 * j + k
    <3>1. C[j].start + k - 1 \in 1 .. Len(A)
      BY <1>1, <2>1, <2>2
    <3>2. A[C[j].start + k - 1] = 10 * j + k
      BY <1>9 DEF Stands
    <3> QED
      BY <1>4, <3>1, <3>2
  <2> QED
    BY <2>2, <2>3, <2>4 DEF Stands
<1>10. \A j \in DOMAIN E : ~E[j].deleted \/ ~config.compact => Stands(B, E[j], j)
  BY <1>5, <1>7, <1>8, <1>9
<1>11. CASE ~config.compact
  BY <1>4, <1>5, <1>10, <1>11 DEF ArenaOK, B, E, L
<1>12. CASE config.compact
  <2>1. Ordered(C) /\ FirstGap(A, C, G) /\ Cardinality(GapsOf(A, C)) = G.literals
    BY <1>12 DEF ArenaOK
  <2>2. \A j \in LiveIn(C) : /\ C[j].start + C[j].len <= c.start /\ j < i /\ j \in Nat
                             /\ C[j].start \in Nat /\ C[j].len \in Nat
    <3>1. ASSUME NEW j \in LiveIn(C)
          PROVE  /\ C[j].start + C[j].len <= c.start /\ j < i /\ j \in Nat
                 /\ C[j].start \in Nat /\ C[j].len \in Nat
      <4>1. j \in DOMAIN C /\ Stands(A, C[j], j)
        BY <1>7 DEF LiveIn
      <4>2. C[j].start \in Nat /\ C[j].len \in Nat /\ C[j].start + C[j].len - 1 <= Len(A)
        BY <1>1, <4>1, HeldFacts DEF Stands
      <4> QED
        BY <1>1, <4>1, <4>2
    <3> QED
      BY <3>1
  <2>3. Ordered(E)
    <3>1. SUFFICES ASSUME NEW j \in LiveIn(E), NEW k \in LiveIn(E), j < k
                   PROVE  E[j].start + E[j].len <= E[k].start
      BY DEF Ordered
    <3>2. CASE k \in LiveIn(C)
      <4>1. j \in LiveIn(C)
        <5>1. j # i
          BY <1>1, <2>2, <3>1, <3>2
        <5> QED
          BY <1>6, <5>1
      <4>2. E[j] = C[j] /\ E[k] = C[k]
        BY <1>1, <1>5, <3>2, <4>1
      <4> QED
        BY <2>1, <3>1, <3>2, <4>1, <4>2 DEF Ordered
    <3>3. CASE k = i
      <4>1. j \in LiveIn(C)
        <5>1. j # i
          BY <1>1, <3>1, <3>3
        <5> QED
          BY <1>6, <5>1
      <4> QED
        BY <1>1, <1>5, <2>2, <3>3, <4>1
    <3> QED
      BY <1>6, <3>2, <3>3
  <2>4. GapsOf(B, E) = GapsOf(A, C)
    <3>1. \A k : k \in Held(c) <=> k \in Nat /\ Len(A) + 1 <= k /\ k < Len(A) + 1 + c.len
      BY HeldFacts
    <3>2. DOMAIN B = DOMAIN A \cup Held(c) /\ DOMAIN A \cap Held(c) = {}
      <4>1. PICK a \in Nat, b \in Nat : a = Len(A) /\ b = c.len
        BY <1>1, <1>2
      <4>2. \A k : k \in Held(c) <=> k \in Nat /\ a + 1 <= k /\ k < a + 1 + b
        BY <3>1, <4>1
      <4>3. DOMAIN A = 1 .. a /\ DOMAIN B = 1 .. a + b
        BY <1>1, <1>4, <4>1
      <4>4. \A k : k \in 1 .. a + b <=> k \in 1 .. a \/ (k \in Nat /\ a + 1 <= k /\ k < a + 1 + b)
        BY <4>1
      <4>5. \A k \in 1 .. a : ~ (k \in Nat /\ a + 1 <= k /\ k < a + 1 + b)
        BY <4>1
      <4> QED
        BY <4>2, <4>3, <4>4, <4>5
    <3>3. \A k : (\A j \in LiveIn(E) : k \notin Held(E[j])) <=>
                 k \notin Held(c) /\ \A j \in LiveIn(C) : k \notin Held(C[j])
      BY <1>1, <1>5, <1>6
    <3> QED
      BY <3>2, <3>3 DEF GapsOf
  <2>5. FirstGap(B, E, G)
    <3>1. CASE G.literals = 0
      BY <2>1, <3>1 DEF FirstGap
    <3>2. CASE G.literals # 0
      <4>1. /\ G.clause \in DOMAIN C /\ G.start \in DOMAIN A
            /\ \A j \in LiveIn(C) : IF j < G.clause THEN C[j].start + C[j].len <= G.start
                                    ELSE j # G.clause /\ G.start < C[j].start
            /\ \A k \in GapsOf(A, C) : G.start <= k
        BY <2>1, <3>2 DEF FirstGap
      <4>2. G.clause \in DOMAIN E /\ G.start \in DOMAIN B
        <5>1. \A k \in 1 .. Len(A) : k \in 1 .. Len(A) + c.len
          BY <1>1, <1>2
        <5> HIDE DEF i
        <5> QED
          BY <1>1, <1>4, <1>5, <4>1, <5>1
      <4>3. ~ (i < G.clause) /\ i # G.clause /\ G.start < E[i].start
        BY <1>1, <1>5, <4>1
      <4>4. \A j \in LiveIn(E) : IF j < G.clause THEN E[j].start + E[j].len <= G.start
                                 ELSE j # G.clause /\ G.start < E[j].start
        <5>1. \A j \in LiveIn(C) : E[j] = C[j]
          BY <1>1, <1>5
        <5> HIDE DEF i
        <5> QED
          BY <1>6, <4>1, <4>3, <5>1
      <4> QED
        BY <2>4, <3>2, <4>1, <4>2, <4>4 DEF FirstGap
    <3> QED
      BY <3>1, <3>2
  <2>6. ArenaOK(B, E, G)
    BY <1>10, <2>1, <2>3, <2>4, <2>5 DEF ArenaOK
  <2> QED
    BY <1>4, <1>5, <2>6 DEF B, E, L
<1> QED
  BY <1>11, <1>12

-----------------------------------------------------------------------------
(***************************************************************************)
(* The steps.                                                              *)
(***************************************************************************)

\* What the invariant says of every clause and of the configuration.
LEMMA Standing ==
  ASSUME StorageInv
  PROVE  /\ config.compact \in BOOLEAN /\ (Policy \in {"shadow", "voting"} => ~config.compact)
         /\ Ref = DOMAIN clauses /\ IsFiniteSet(Ref) /\ Ref \in SUBSET Nat /\ Len(clauses) \in Nat
         /\ \A i \in Ref : clauses[i] \in ClauseRecord
         /\ LiveIn(clauses) = {i \in Ref : Live(i)}
<1>1. clauses \in Seq(ClauseRecord) /\ config \in Configs
  BY DEF StorageInv, StorageTypeOK
<1>2. /\ Ref = DOMAIN clauses /\ Len(clauses) \in Nat /\ Ref \in SUBSET Nat
      /\ \A i \in Ref : clauses[i] \in ClauseRecord
  BY <1>1, LenProperties DEF Ref
<1>3. IsFiniteSet(Ref)
  BY <1>2, FS_Interval DEF Ref
<1>4. config.compact \in BOOLEAN /\ (Policy \in {"shadow", "voting"} => ~config.compact)
  BY <1>1, StorageAssumption DEF Policy
<1>5. LiveIn(clauses) = {i \in Ref : Live(i)}
  BY <1>2 DEF LiveIn, Live
<1> QED
  BY <1>2, <1>3, <1>4, <1>5

\* A step that allocates nothing.
LEMMA Rearranged ==
  ASSUME StorageInv, UNCHANGED <<config, ancestry, written, pivots, conflicts>>,
         clauses' \in Seq(ClauseRecord), Len(clauses') = Len(clauses),
         \A i \in Ref : clauses'[i].len = clauses[i].len /\ clauses'[i].learned = clauses[i].learned,
         arena' \in Seq(Nat), garbage' \in GarbageRecord, ArenaOK(arena', clauses', garbage'),
         reasons' \in SUBSET Ref,
         \A i \in reasons' : ~clauses'[i].deleted /\ clauses'[i].watch = "active",
         reductions' \in Nat, pc' \in {"search", "learned", "reduced"}, active' \in Nat,
         active' = Cardinality({i \in Ref : /\ clauses[i].learned /\ ~clauses'[i].deleted
                                            /\ clauses'[i].watch = "active"}),
         shadows' \in Seq(Nat), Len(shadows') <= Capacity,
         Range(shadows') = {i \in Ref : clauses'[i].watch # "active"},
         \A i \in Ref : clauses'[i].watch # "active" =>
           ~clauses'[i].deleted /\ clauses[i].learned /\ Policy = "shadow",
         offered' \in SUBSET Triple, IsFiniteSet(offered'), samples' = Least(offered', Capacity),
         \A o \in offered' : o[2] <= reductions'
  PROVE  StorageInv'
<1>1. Ref' = Ref /\ Policy' = Policy
  BY DEF Ref, Policy
<1>2. samples' \in SUBSET Triple
  BY DEF Least
<1>3. StorageTypeOK'
  BY <1>1, <1>2 DEF StorageInv, StorageTypeOK
<1>4. ArenaOK(arena, clauses, garbage)'
  BY DEF ArenaOK
<1>5. NamesOK'
  BY <1>1 DEF StorageInv, NamesOK
<1>6. ReasonsOK'
  BY <1>1 DEF ReasonsOK, Live, Shadow
<1>7. CountOK'
  <2>1. Counting' = {i \in Ref : /\ clauses[i].learned /\ ~clauses'[i].deleted
                                 /\ clauses'[i].watch = "active"}
    BY <1>1 DEF Counting, Learned, Live, Shadow
  <2>2. conflicts' = 0 => \A i \in Ref : ~clauses'[i].learned
    BY DEF StorageInv, CountOK, Learned
  <2> QED
    BY <1>1, <2>1, <2>2 DEF CountOK, Learned
<1>8. ShadowsOK'
  BY <1>1 DEF ShadowsOK, Shadow, Live, Learned
<1>9. SamplesOK'
  <2>1. \A i \in Ref : Policy = "nonregular" => ancestry[i].sample = Sampled(pivots[i])
    BY DEF StorageInv, SamplesOK
  <2>2. (\A i \in Ref : Policy = "nonregular" => ancestry[i].sample = Sampled(pivots[i]))'
    BY <1>1, <2>1 DEF Sampled
  <2>3. (samples = Least(offered, Capacity))'
    BY DEF Least, Before
  <2> QED
    BY <2>2, <2>3 DEF SamplesOK
<1> QED
  BY <1>3, <1>4, <1>5, <1>6, <1>7, <1>8, <1>9 DEF StorageInv

\* A step that only writes to accounts.
LEMMA Accounts ==
  ASSUME StorageInv,
         UNCHANGED <<config, arena, garbage, active, ancestry, shadows, samples, conflicts,
                     reductions, written, pivots, offered>>,
         pc' \in {"search", "learned", "reduced"},
         clauses' \in Seq(ClauseRecord), Len(clauses') = Len(clauses),
         \A i \in Ref : /\ clauses'[i].start = clauses[i].start
                        /\ clauses'[i].len = clauses[i].len
                        /\ clauses'[i].learned = clauses[i].learned
                        /\ clauses'[i].deleted = clauses[i].deleted
                        /\ clauses'[i].watch = "active" <=> clauses[i].watch = "active",
         reasons' \in SUBSET Ref, \A i \in reasons' : Live(i) /\ ~Shadow(i)
  PROVE  StorageInv'
<1>1. /\ StorageTypeOK /\ ArenaOK(arena, clauses, garbage) /\ ReasonsOK /\ CountOK /\ ShadowsOK
      /\ SamplesOK
  BY DEF StorageInv
<1>2. DOMAIN clauses' = DOMAIN clauses /\ Ref = DOMAIN clauses
  BY Standing, LenProperties
<1>3. ArenaOK(arena', clauses', garbage')
  <2>1. ArenaOK(arena, clauses', garbage)
    BY <1>1, <1>2, ArenaSame
  <2> QED
    BY <2>1
<1>4. /\ arena' \in Seq(Nat) /\ garbage' \in GarbageRecord /\ reductions' \in Nat /\ active' \in Nat
      /\ shadows' \in Seq(Nat) /\ offered' \in SUBSET Triple /\ IsFiniteSet(offered')
  BY <1>1 DEF StorageTypeOK
<1>5. active' = Cardinality({i \in Ref : /\ clauses[i].learned /\ ~clauses'[i].deleted
                                         /\ clauses'[i].watch = "active"})
  <2>1. Counting = {i \in Ref : /\ clauses[i].learned /\ ~clauses'[i].deleted
                                /\ clauses'[i].watch = "active"}
    BY DEF Counting, Learned, Live, Shadow
  <2> QED
    BY <1>1, <2>1 DEF CountOK
<1>6. /\ Len(shadows') <= Capacity /\ Range(shadows') = {i \in Ref : clauses'[i].watch # "active"}
      /\ \A i \in Ref : clauses'[i].watch # "active" =>
           ~clauses'[i].deleted /\ clauses[i].learned /\ Policy = "shadow"
  BY <1>1 DEF ShadowsOK, Shadow, Live, Learned
<1>7. samples' = Least(offered', Capacity) /\ \A o \in offered' : o[2] <= reductions'
  BY <1>1 DEF SamplesOK
<1>8. \A i \in reasons' : ~clauses'[i].deleted /\ clauses'[i].watch = "active"
  BY DEF Live, Shadow
<1> QED
  BY <1>3, <1>4, <1>5, <1>6, <1>7, <1>8, Rearranged

LEMMA StutterKeeps == StorageInv /\ UNCHANGED vars => StorageInv'
<1> SUFFICES ASSUME StorageInv, UNCHANGED vars PROVE StorageInv'
  OBVIOUS
<1>1. UNCHANGED <<config, arena, clauses, garbage, active, ancestry, reasons, shadows, samples,
                  conflicts, reductions, pc, written, pivots, offered>>
  BY DEF vars, store
<1>2. /\ clauses' \in Seq(ClauseRecord) /\ pc' \in {"search", "learned", "reduced"}
      /\ reasons' \in SUBSET Ref /\ \A i \in reasons' : Live(i) /\ ~Shadow(i)
  BY <1>1 DEF StorageInv, StorageTypeOK, ReasonsOK
<1> QED
  BY <1>1, <1>2, Accounts

LEMMA GoOnKeeps == StorageInv /\ GoOn => StorageInv'
<1> SUFFICES ASSUME StorageInv, GoOn PROVE StorageInv'
  OBVIOUS
<1>1. /\ pc' = "search"
      /\ UNCHANGED <<config, arena, clauses, garbage, active, ancestry, reasons, shadows, samples,
                     conflicts, reductions, written, pivots, offered>>
  BY DEF GoOn, store
<1>2. /\ clauses' \in Seq(ClauseRecord) /\ pc' \in {"search", "learned", "reduced"}
      /\ reasons' \in SUBSET Ref /\ \A i \in reasons' : Live(i) /\ ~Shadow(i)
  BY <1>1 DEF StorageInv, StorageTypeOK, ReasonsOK
<1> QED
  BY <1>1, <1>2, Accounts

\* One clause's account.
LEMMA OneAccount ==
  ASSUME StorageInv, NEW i \in Ref, NEW c \in ClauseRecord,
         UNCHANGED <<config, arena, garbage, active, ancestry, shadows, samples, conflicts,
                     reductions, pc, written, pivots, offered>>,
         c.start = clauses[i].start, c.len = clauses[i].len, c.learned = clauses[i].learned,
         c.deleted = clauses[i].deleted, c.watch = "active" <=> clauses[i].watch = "active",
         clauses' = [clauses EXCEPT ![i] = c],
         reasons' = reasons \/ (reasons' = reasons \cup {i} /\ Live(i) /\ ~Shadow(i))
  PROVE  StorageInv'
<1>1. clauses \in Seq(ClauseRecord) /\ reasons \in SUBSET Ref /\ pc' \in {"search", "learned", "reduced"}
  BY DEF StorageInv, StorageTypeOK
<1>2. i \in 1 .. Len(clauses) /\ DOMAIN clauses = 1 .. Len(clauses)
  BY <1>1, LenProperties DEF Ref
<1>3. clauses' \in Seq(ClauseRecord) /\ Len(clauses') = Len(clauses)
  BY <1>1, <1>2, ExceptSeq
<1>4. \A k \in Ref : clauses'[k] = IF k = i THEN c ELSE clauses[k]
  BY <1>2 DEF Ref
<1>5. reasons' \in SUBSET Ref /\ \A k \in reasons' : Live(k) /\ ~Shadow(k)
  BY <1>1 DEF StorageInv, ReasonsOK
<1>6. \A k \in Ref : /\ clauses'[k].start = clauses[k].start
                     /\ clauses'[k].len = clauses[k].len
                     /\ clauses'[k].learned = clauses[k].learned
                     /\ clauses'[k].deleted = clauses[k].deleted
                     /\ clauses'[k].watch = "active" <=> clauses[k].watch = "active"
  BY <1>4
<1> QED
  BY <1>1, <1>3, <1>5, <1>6, Accounts

LEMMA BecomeReasonKeeps == StorageInv /\ BecomeReason => StorageInv'
<1> SUFFICES ASSUME StorageInv, BecomeReason PROVE StorageInv'
  OBVIOUS
<1>1. PICK i \in Ref \ reasons :
        /\ Live(i) /\ ~Shadow(i) /\ Learned(i) /\ reasons' = reasons \cup {i}
        /\ clauses' = [clauses EXCEPT ![i].debt = IF ByUsage THEN 0 ELSE @,
                                      ![i].score = IF ByUsage /\ @ < MaxUse THEN @ + 1 ELSE @]
  BY DEF BecomeReason
<1>2. UNCHANGED <<config, arena, garbage, active, ancestry, shadows, samples, conflicts,
                  reductions, pc, written, pivots, offered>>
  BY DEF BecomeReason
<1>3. clauses[i] \in ClauseRecord /\ i \in DOMAIN clauses
  BY Standing
<1> HIDE DEF ByUsage
<1> DEFINE d == IF ByUsage THEN 0 ELSE clauses[i].debt
           e == IF ByUsage /\ clauses[i].score < MaxUse THEN clauses[i].score + 1
                ELSE clauses[i].score
           c == [clauses[i] EXCEPT !.debt = d, !.score = e]
<1>6. d \in Nat /\ e \in Nat
  BY <1>3 DEF ClauseRecord
<1>7. clauses' = [clauses EXCEPT ![i].debt = d, ![i].score = e]
  BY <1>1, <1>3 DEF ClauseRecord
<1> HIDE DEF d, e
<1>4. /\ c \in ClauseRecord /\ c.start = clauses[i].start /\ c.len = clauses[i].len
      /\ c.learned = clauses[i].learned /\ c.deleted = clauses[i].deleted
      /\ c.watch = clauses[i].watch
  BY <1>3, <1>6 DEF ClauseRecord
<1>5. clauses' = [clauses EXCEPT ![i] = c]
  BY <1>3, <1>7 DEF ClauseRecord
<1> HIDE DEF c
<1> QED
  BY <1>1, <1>2, <1>4, <1>5, OneAccount

LEMMA BumpKeeps == StorageInv /\ Bump => StorageInv'
<1> SUFFICES ASSUME StorageInv, Bump PROVE StorageInv'
  OBVIOUS
<1>0. PICK i \in Ref : \E lbd \in {clauses[i].lbd} \cup Nearer(i) :
        clauses' = [clauses EXCEPT ![i].score = @ + 1, ![i].debt = IF ByUsage THEN 0 ELSE @,
                                   ![i].used = IF Policy = "tiered" THEN 3 ELSE @,
                                   ![i].lbd = lbd]
  BY DEF Bump
<1>1. PICK lbd \in {clauses[i].lbd} \cup Nearer(i) :
        clauses' = [clauses EXCEPT ![i].score = @ + 1, ![i].debt = IF ByUsage THEN 0 ELSE @,
                                   ![i].used = IF Policy = "tiered" THEN 3 ELSE @,
                                   ![i].lbd = lbd]
  BY <1>0
<1>2. UNCHANGED <<config, arena, garbage, active, ancestry, shadows, samples, conflicts,
                  reductions, pc, written, pivots, offered, reasons>>
  BY DEF Bump
<1>3. clauses[i] \in ClauseRecord /\ i \in DOMAIN clauses
  BY Standing
<1>4. lbd \in Nat
  BY <1>1, <1>3, StorageAssumption DEF ClauseRecord, Nearer
<1> DEFINE e == clauses[i].score + 1
           d == IF ByUsage THEN 0 ELSE clauses[i].debt
           u == IF Policy = "tiered" THEN 3 ELSE clauses[i].used
           c == [clauses[i] EXCEPT !.score = e, !.debt = d, !.used = u, !.lbd = lbd]
<1>7. d \in Nat /\ e \in Nat /\ u \in Nat
  BY <1>3 DEF ClauseRecord
<1>8. clauses' = [clauses EXCEPT ![i].score = e, ![i].debt = d, ![i].used = u, ![i].lbd = lbd]
  BY <1>1, <1>3 DEF ClauseRecord
<1> HIDE DEF d, e, u
<1>5. /\ c \in ClauseRecord /\ c.start = clauses[i].start /\ c.len = clauses[i].len
      /\ c.learned = clauses[i].learned /\ c.deleted = clauses[i].deleted
      /\ c.watch = clauses[i].watch
  BY <1>3, <1>4, <1>7 DEF ClauseRecord
<1>6. clauses' = [clauses EXCEPT ![i] = c]
  BY <1>3, <1>8 DEF ClauseRecord
<1> HIDE DEF c
<1> QED
  BY <1>1, <1>2, <1>5, <1>6, OneAccount

LEMMA ScanKeeps == StorageInv /\ Scan => StorageInv'
<1> SUFFICES ASSUME StorageInv, Scan PROVE StorageInv'
  OBVIOUS
<1>1. PICK i \in Ref : clauses' = [clauses EXCEPT ![i].debt = @ + 1]
  BY DEF Scan
<1>2. UNCHANGED <<config, arena, garbage, active, ancestry, shadows, samples, conflicts,
                  reductions, pc, written, pivots, offered, reasons>>
  BY DEF Scan
<1>3. clauses[i] \in ClauseRecord /\ i \in DOMAIN clauses
  BY Standing
<1> DEFINE c == [clauses[i] EXCEPT !.debt = clauses[i].debt + 1]
<1>4. /\ c \in ClauseRecord /\ c.start = clauses[i].start /\ c.len = clauses[i].len
      /\ c.learned = clauses[i].learned /\ c.deleted = clauses[i].deleted
      /\ c.watch = clauses[i].watch
  BY <1>3 DEF ClauseRecord
<1>5. clauses' = [clauses EXCEPT ![i] = c]
  BY <1>1, <1>3 DEF ClauseRecord
<1> HIDE DEF c
<1> QED
  BY <1>1, <1>2, <1>4, <1>5, OneAccount

LEMMA TriggerKeeps == StorageInv /\ Trigger => StorageInv'
<1> SUFFICES ASSUME StorageInv, Trigger PROVE StorageInv'
  OBVIOUS
<1>1. PICK i \in Ref : /\ clauses[i].watch = "observing"
                       /\ clauses' = [clauses EXCEPT ![i].watch = "triggered"]
  BY DEF Trigger
<1>2. UNCHANGED <<config, arena, garbage, active, ancestry, shadows, samples, conflicts,
                  reductions, pc, written, pivots, offered, reasons>>
  BY DEF Trigger
<1>3. clauses[i] \in ClauseRecord /\ i \in DOMAIN clauses
  BY Standing
<1> DEFINE c == [clauses[i] EXCEPT !.watch = "triggered"]
<1>4. /\ c \in ClauseRecord /\ c.start = clauses[i].start /\ c.len = clauses[i].len
      /\ c.learned = clauses[i].learned /\ c.deleted = clauses[i].deleted
      /\ c.watch = "triggered"
  BY <1>3 DEF ClauseRecord
<1>5. clauses' = [clauses EXCEPT ![i] = c]
  BY <1>1, <1>3 DEF ClauseRecord
<1> HIDE DEF c
<1> QED
  BY <1>1, <1>2, <1>4, <1>5, OneAccount

LEMMA DecayKeeps == StorageInv /\ Decay => StorageInv'
<1> SUFFICES ASSUME StorageInv, Decay PROVE StorageInv'
  OBVIOUS
<1>1. clauses' = [i \in Ref |->
        IF Learned(i) /\ Live(i) /\ ~Shadow(i) /\ clauses[i].score > 0
        THEN [clauses[i] EXCEPT !.score = @ - 1] ELSE clauses[i]]
  BY DEF Decay
<1>2. UNCHANGED <<config, arena, garbage, active, ancestry, shadows, samples, conflicts,
                  reductions, pc, written, pivots, offered, reasons>>
  BY DEF Decay
<1>3. /\ pc \in {"search", "learned", "reduced"}
      /\ reasons \in SUBSET Ref /\ \A i \in reasons : Live(i) /\ ~Shadow(i)
  BY DEF StorageInv, StorageTypeOK, ReasonsOK
<1>4. \A i \in Ref : /\ clauses'[i] \in ClauseRecord
                     /\ clauses'[i].start = clauses[i].start
                     /\ clauses'[i].len = clauses[i].len
                     /\ clauses'[i].learned = clauses[i].learned
                     /\ clauses'[i].deleted = clauses[i].deleted
                     /\ clauses'[i].watch = clauses[i].watch
  <2>1. ASSUME NEW i \in Ref
        PROVE  /\ clauses'[i] \in ClauseRecord
               /\ clauses'[i].start = clauses[i].start
               /\ clauses'[i].len = clauses[i].len
               /\ clauses'[i].learned = clauses[i].learned
               /\ clauses'[i].deleted = clauses[i].deleted
               /\ clauses'[i].watch = clauses[i].watch
    <3>1. clauses[i] \in ClauseRecord
      BY Standing
    <3>2. CASE clauses[i].score > 0 /\ clauses'[i] = [clauses[i] EXCEPT !.score = @ - 1]
      BY <3>1, <3>2 DEF ClauseRecord
    <3>3. CASE clauses'[i] = clauses[i]
      BY <3>1, <3>3
    <3> QED
      BY <1>1, <3>2, <3>3
  <2> QED
    BY <2>1
<1>5. clauses' \in Seq(ClauseRecord) /\ Len(clauses') = Len(clauses)
  <2>1. DOMAIN clauses' = 1 .. Len(clauses) /\ Len(clauses) \in Nat
    BY <1>1, Standing DEF Ref
  <2>2. clauses' \in [1 .. Len(clauses) -> ClauseRecord]
    BY <1>1, <1>4, <2>1 DEF Ref
  <2> QED
    BY <2>1, <2>2
<1> QED
  BY <1>2, <1>3, <1>4, <1>5, Accounts

\* A preprocessing pass deletes a clause that was given.
LEMMA SimplifyKeeps == StorageInv /\ Simplify => StorageInv'
<1> SUFFICES ASSUME StorageInv, Simplify PROVE StorageInv'
  OBVIOUS
<1> DEFINE s == [clauses |-> clauses, garbage |-> garbage]
<1>1. PICK i \in Ref \ reasons :
        /\ Live(i) /\ clauses' = MarkedDeleted(s, i).clauses /\ garbage' = MarkedDeleted(s, i).garbage
  BY DEF Simplify
<1>2. /\ conflicts = 0
      /\ UNCHANGED <<config, arena, active, ancestry, reasons, shadows, samples, conflicts,
                     reductions, pc, written, pivots, offered>>
  BY DEF Simplify
<1>3. /\ StorageTypeOK /\ ArenaOK(arena, clauses, garbage) /\ ReasonsOK /\ CountOK /\ ShadowsOK
      /\ SamplesOK
  BY DEF StorageInv
<1>4. arena \in Seq(Nat) /\ clauses \in Seq(ClauseRecord) /\ garbage \in GarbageRecord
  BY <1>3 DEF StorageTypeOK
<1>5. i \in LiveIn(clauses) /\ config.compact \in BOOLEAN /\ i \in DOMAIN clauses
  <2>1. i \in Ref /\ Live(i)
    BY <1>1
  <2>2. LiveIn(clauses) = {k \in Ref : Live(k)} /\ Ref = DOMAIN clauses /\ config.compact \in BOOLEAN
    BY Standing
  <2> HIDE <1>1
  <2>3. i \in LiveIn(clauses)
    BY <2>1, <2>2
  <2> QED
    BY <2>1, <2>2, <2>3
<1>6. /\ clauses' = [clauses EXCEPT ![i].deleted = TRUE] /\ garbage' \in GarbageRecord
      /\ ArenaOK(arena, clauses', garbage')
  <2> DEFINE t == MarkedDeleted(s, i)
  <2>1. /\ t = [clauses |-> [clauses EXCEPT ![i].deleted = TRUE], garbage |-> t.garbage]
        /\ t.garbage \in GarbageRecord /\ ArenaOK(arena, t.clauses, t.garbage)
    BY <1>3, <1>4, <1>5, MarkedFacts
  <2>2. clauses' = t.clauses /\ garbage' = t.garbage
    BY <1>1
  <2> HIDE DEF t
  <2>3. t.clauses = [clauses EXCEPT ![i].deleted = TRUE]
    BY <2>1
  <2> QED
    BY <2>1, <2>2, <2>3
<1>7. ~clauses[i].learned /\ clauses[i].watch = "active"
  <2>1. ~Learned(i)
    BY <1>2, <1>3 DEF CountOK
  <2>2. ~Shadow(i)
    BY <1>3, <2>1 DEF ShadowsOK
  <2> QED
    BY <2>1, <2>2 DEF Learned, Shadow
<1> DEFINE c == [clauses[i] EXCEPT !.deleted = TRUE]
<1>8. clauses[i] \in ClauseRecord
  BY Standing
<1>9. c \in ClauseRecord /\ c.len = clauses[i].len /\ ~c.learned /\ c.watch = "active"
  BY <1>7, <1>8 DEF ClauseRecord
<1>10. clauses' = [clauses EXCEPT ![i] = c]
  BY <1>5, <1>6
<1> HIDE DEF c
<1>11. clauses' \in Seq(ClauseRecord) /\ Len(clauses') = Len(clauses)
  <2>1. i \in 1 .. Len(clauses)
    BY <1>1 DEF Ref
  <2> QED
    BY <1>4, <1>9, <1>10, <2>1, ExceptSeq
<1>12. \A k \in Ref : clauses'[k] = IF k = i THEN c ELSE clauses[k]
  BY <1>10, Standing
<1>13. \A k \in Ref : /\ clauses'[k].len = clauses[k].len /\ clauses'[k].learned = clauses[k].learned
                      /\ clauses'[k].watch = clauses[k].watch
  BY <1>7, <1>9, <1>12, Standing DEF ClauseRecord
<1>14. active' = Cardinality({k \in Ref : /\ clauses[k].learned /\ ~clauses'[k].deleted
                                          /\ clauses'[k].watch = "active"})
  <2>1. \A k \in Ref : ~clauses[k].learned
    BY <1>2, <1>3 DEF CountOK, Learned
  <2>2. Counting = {} /\ {k \in Ref : /\ clauses[k].learned /\ ~clauses'[k].deleted
                                      /\ clauses'[k].watch = "active"} = {}
    BY <2>1 DEF Counting, Learned
  <2> QED
    BY <1>2, <1>3, <2>2 DEF CountOK
<1>15. \A k \in reasons' : ~clauses'[k].deleted /\ clauses'[k].watch = "active"
  BY <1>1, <1>2, <1>3, <1>12 DEF ReasonsOK, Live, Shadow, StorageTypeOK
<1>16. /\ Range(shadows') = {k \in Ref : clauses'[k].watch # "active"} /\ Len(shadows') <= Capacity
       /\ \A k \in Ref : clauses'[k].watch # "active" =>
            ~clauses'[k].deleted /\ clauses[k].learned /\ Policy = "shadow"
  <2>1. \A k \in Ref : clauses'[k].watch # "active" => k # i
    BY <1>7, <1>13
  <2> QED
    BY <1>2, <1>3, <1>12, <1>13, <2>1 DEF ShadowsOK, Shadow, Live, Learned
<1>17. samples' = Least(offered', Capacity) /\ \A o \in offered' : o[2] <= reductions'
  BY <1>2, <1>3 DEF SamplesOK
<1>18. ArenaOK(arena', clauses', garbage') /\ arena' \in Seq(Nat)
  BY <1>2, <1>4, <1>6
<1>19. /\ reasons' \in SUBSET Ref /\ reductions' \in Nat /\ active' \in Nat
       /\ pc' \in {"search", "learned", "reduced"}
       /\ shadows' \in Seq(Nat) /\ offered' \in SUBSET Triple /\ IsFiniteSet(offered')
  BY <1>2, <1>3 DEF StorageTypeOK
<1> QED
  BY <1>2, <1>6, <1>11, <1>13, <1>14, <1>15, <1>16, <1>17, <1>18, <1>19, Rearranged

\* A conflict allocates a clause and makes it a reason.
LEMMA ConflictKeeps == StorageInv /\ Conflict => StorageInv'
<1> SUFFICES ASSUME StorageInv, Conflict PROVE StorageInv'
  OBVIOUS
<1>1. PICK n \in Lengths[Policy], lbd \in (IF ByUsage THEN {0} ELSE Lbds),
           v \in (IF Policy = "nonregular" THEN Pivot ELSE {0}),
           from \in (IF Policy = "nonregular" THEN {i \in Ref : Live(i)} ELSE {1}),
           with \in (IF Policy = "nonregular" THEN {i \in Ref : Live(i)} ELSE {1}) :
        Learn(n, lbd, from, v, with)
  BY DEF Conflict
<1> DEFINE N == Len(clauses) + 1
           c == [start |-> Len(arena) + 1, len |-> n, learned |-> TRUE, deleted |-> FALSE,
                 lbd |-> lbd, used |-> 3, score |-> IF ByUsage THEN 1 ELSE 0, debt |-> 0,
                 watch |-> "active", since |-> 0]
           a == IF Policy = "nonregular" THEN ResolvedWith(ancestry[from], v, ancestry[with])
                ELSE NoAncestry
           p == IF Policy = "nonregular" THEN pivots[from] \cup pivots[with] \cup {v} ELSE {}
           w == Range(Literals(N, n))
<1>2. /\ conflicts' = conflicts + 1 /\ active' = active + 1 /\ pc' = "learned"
      /\ clauses' = Append(clauses, c) /\ arena' = arena \o Literals(N, n)
      /\ written' = Append(written, w) /\ ancestry' = Append(ancestry, a)
      /\ pivots' = Append(pivots, p)
      /\ UNCHANGED <<config, garbage, shadows, samples, reductions, offered>>
  BY <1>1 DEF Learn, Allocated
<1>3. PICK kept \in SUBSET reasons : reasons' = kept \cup {N}
  BY <1>1 DEF Learn
<1>4. /\ StorageTypeOK /\ ArenaOK(arena, clauses, garbage) /\ NamesOK /\ ReasonsOK /\ CountOK
      /\ ShadowsOK /\ SamplesOK
  BY DEF StorageInv
<1>5. /\ n \in Nat /\ n >= 3 /\ lbd \in Nat /\ (Policy = "nonregular" => v \in Nat)
      /\ (Policy = "nonregular" => from \in Ref /\ with \in Ref)
  <2>1. n \in Nat /\ n >= 3
    BY <1>4, StorageAssumption DEF StorageTypeOK, Policy
  <2>2. lbd \in Nat /\ (Policy = "nonregular" => v \in Nat)
    <3>1. Lbds \in SUBSET Nat /\ Pivot \in SUBSET Nat /\ {0} \in SUBSET Nat
      BY StorageAssumption
    <3>2. (IF ByUsage THEN {0} ELSE Lbds) \in SUBSET Nat
      BY <3>1
    <3>3. Policy = "nonregular" => v \in Pivot
      OBVIOUS
    <3> QED
      BY <3>1, <3>2, <3>3
  <2> QED
    BY <1>1, <2>1, <2>2
<1>6. arena \in Seq(Nat) /\ Len(arena) \in Nat /\ clauses \in Seq(ClauseRecord) /\ Len(clauses) \in Nat
  BY <1>4, LenProperties DEF StorageTypeOK
<1>7. /\ c \in ClauseRecord /\ c.start = Len(arena) + 1 /\ c.len = n /\ c.learned /\ ~c.deleted
      /\ c.watch = "active"
  BY <1>5, <1>6 DEF ClauseRecord
<1> HIDE DEF c
<1>8. /\ clauses' \in Seq(ClauseRecord) /\ Len(clauses') = N /\ clauses'[N] = c
      /\ \A i \in Ref : clauses'[i] = clauses[i]
  BY <1>2, <1>6, <1>7, AppendProperties DEF Ref
<1>9. Ref' = Ref \cup {N} /\ N \notin Ref /\ Policy' = Policy /\ Ref = 1 .. Len(clauses)
  BY <1>2, <1>6, <1>8 DEF Ref, Policy
<1>10. arena' \in Seq(Nat) /\ ArenaOK(arena', clauses', garbage')
  <2>1. config.compact \in BOOLEAN /\ garbage \in GarbageRecord
    BY <1>4, Standing DEF StorageTypeOK
  <2>2. /\ arena \o Literals(N, c.len) \in Seq(Nat)
        /\ ArenaOK(arena \o Literals(N, c.len), Append(clauses, c), garbage)
    BY <1>4, <1>6, <1>7, <2>1, ArenaLonger
  <2> QED
    BY <1>2, <1>7, <2>2
<1>11. ArenaOK(arena, clauses, garbage)'
  BY <1>2, <1>10 DEF ArenaOK
<1>12. w = Named(N, n) /\ w \in SUBSET Nat
  <2>1. w = {10 * N + j : j \in 1 .. n}
    BY DEF Literals, Range
  <2>2. \A j \in 1 .. n : 10 * N + j \in Nat
    BY <1>5, <1>6
  <2> QED
    BY <2>1, <2>2 DEF Named
<1>13. /\ written \in Seq(SUBSET Nat) /\ Len(written) = Len(clauses)
       /\ pivots \in Seq(SUBSET Nat) /\ Len(pivots) = Len(clauses)
       /\ ancestry \in Seq([sample : SUBSET Nat, repeated : BOOLEAN])
       /\ Len(ancestry) = Len(clauses) /\ \A i \in Ref : IsFiniteSet(pivots[i])
  BY <1>4 DEF StorageTypeOK
<1> HIDE DEF w, N
<1>14. /\ written' \in Seq(SUBSET Nat) /\ Len(written') = N /\ written'[N] = w
       /\ \A i \in Ref : written'[i] = written[i]
  BY <1>2, <1>12, <1>13, AppendProperties DEF Ref, N
<1>15. NamesOK'
  <2>1. written'[N] = Named(N, clauses'[N].len)
    BY <1>7, <1>8, <1>12, <1>14
  <2>2. \A i \in Ref : written'[i] = Named(i, clauses'[i].len)
    BY <1>4, <1>8, <1>14 DEF NamesOK
  <2> QED
    BY <1>9, <2>1, <2>2 DEF NamesOK
<1>16. /\ p \in SUBSET Nat /\ IsFiniteSet(p) /\ a \in [sample : SUBSET Nat, repeated : BOOLEAN]
       /\ (Policy = "nonregular" => a.sample = Sampled(p))
  <2>1. CASE Policy # "nonregular"
    <3>1. p = {} /\ a = NoAncestry
      BY <2>1
    <3> QED
      BY <2>1, <3>1, FS_EmptySet DEF NoAncestry
  <2>2. CASE Policy = "nonregular"
    <3> DEFINE P == pivots[from]
               Q == pivots[with]
    <3>1. /\ P \in SUBSET Nat /\ IsFiniteSet(P) /\ Q \in SUBSET Nat /\ IsFiniteSet(Q)
      BY <1>5, <1>9, <1>13, <2>2, ElementOfSeq
    <3>2. ancestry[from].sample = Sampled(P) /\ ancestry[with].sample = Sampled(Q)
      BY <1>4, <1>5, <2>2 DEF SamplesOK
    <3>3. p = P \cup Q \cup {v} /\ v \in Nat
      BY <1>5, <2>2
    <3>4. a = [sample |-> Sampled(Sampled(Sampled(P) \cup Sampled(Q)) \cup {v}),
               repeated |-> \/ ancestry[from].repeated \/ ancestry[with].repeated
                            \/ v \in Sampled(P) \cup Sampled(Q)]
      BY <2>2, <3>2 DEF ResolvedWith
    <3> HIDE DEF P, Q, p, a
    <3>5. IsFiniteSet(p) /\ p \in SUBSET Nat
      BY <3>1, <3>3, FS_Union, FS_Singleton
    <3>6. a.sample = Sampled(p)
      BY <3>1, <3>3, <3>4, ResolvedFacts
    <3>7. Sampled(p) \in SUBSET Nat
      BY <3>5 DEF Sampled
    <3>8. /\ ancestry[from].repeated \in BOOLEAN /\ ancestry[with].repeated \in BOOLEAN
      <4>1. /\ ancestry[from] \in [sample : SUBSET Nat, repeated : BOOLEAN]
            /\ ancestry[with] \in [sample : SUBSET Nat, repeated : BOOLEAN]
        BY <1>5, <1>9, <1>13, <2>2, ElementOfSeq
      <4> QED
        BY <4>1
    <3>9. a \in [sample : SUBSET Nat, repeated : BOOLEAN]
      BY <3>4, <3>6, <3>7
    <3> QED
      BY <3>5, <3>6, <3>9
  <2> QED
    BY <2>1, <2>2
<1> HIDE DEF a, p
<1>17. /\ pivots' \in Seq(SUBSET Nat) /\ Len(pivots') = N /\ pivots'[N] = p
       /\ \A i \in Ref : pivots'[i] = pivots[i]
  BY <1>2, <1>13, <1>16, AppendProperties DEF Ref, N
<1>18. /\ ancestry' \in Seq([sample : SUBSET Nat, repeated : BOOLEAN]) /\ Len(ancestry') = N
       /\ ancestry'[N] = a /\ \A i \in Ref : ancestry'[i] = ancestry[i]
  BY <1>2, <1>13, <1>16, AppendProperties DEF Ref, N
<1>19. ReasonsOK' /\ reasons' \in SUBSET Ref'
  <2>1. \A i \in kept : i \in Ref /\ ~clauses[i].deleted /\ clauses[i].watch = "active"
    BY <1>4 DEF StorageTypeOK, ReasonsOK, Live, Shadow
  <2>2. \A i \in reasons' : ~clauses'[i].deleted /\ clauses'[i].watch = "active"
    BY <1>3, <1>7, <1>8, <2>1
  <2> QED
    BY <1>3, <1>9, <2>1, <2>2 DEF ReasonsOK, Live, Shadow
<1>20. CountOK'
  <2>1. Counting' = Counting \cup {N} /\ N \notin Counting
    <3>1. Counting' = {i \in Ref \cup {N} : /\ clauses'[i].learned /\ ~clauses'[i].deleted
                                           /\ ~ (clauses'[i].watch # "active")}
      BY <1>9 DEF Counting, Learned, Live, Shadow
    <3>2. Counting = {i \in Ref : /\ clauses[i].learned /\ ~clauses[i].deleted
                                  /\ ~ (clauses[i].watch # "active")}
      BY DEF Counting, Learned, Live, Shadow
    <3> QED
      BY <1>7, <1>8, <1>9, <3>1, <3>2
  <2>2. IsFiniteSet(Counting)
    <3>1. IsFiniteSet(Ref) /\ Counting \in SUBSET Ref
      BY Standing DEF Counting
    <3> QED
      BY <3>1, FS_Subset
  <2>3. Cardinality(Counting \cup {N}) = Cardinality(Counting) + 1
    BY <2>1, <2>2, FS_AddElement
  <2>4. active' = Cardinality(Counting')
    BY <1>2, <1>4, <2>1, <2>3 DEF CountOK
  <2>5. conflicts' # 0
    BY <1>2, <1>4 DEF StorageTypeOK
  <2> QED
    BY <2>4, <2>5 DEF CountOK
<1>21. ShadowsOK'
  <2>1. /\ Range(shadows) = {i \in Ref : clauses[i].watch # "active"} /\ Len(shadows) <= Capacity
        /\ \A i \in Ref : clauses[i].watch # "active" =>
             ~clauses[i].deleted /\ clauses[i].learned /\ Policy = "shadow"
    BY <1>4 DEF ShadowsOK, Shadow, Live, Learned
  <2>2. {i \in Ref' : clauses'[i].watch # "active"} = {i \in Ref : clauses[i].watch # "active"}
    BY <1>7, <1>8, <1>9
  <2>3. \A i \in Ref' : clauses'[i].watch # "active" =>
          ~clauses'[i].deleted /\ clauses'[i].learned /\ Policy = "shadow"
    BY <1>7, <1>8, <1>9, <2>1
  <2> QED
    BY <1>2, <1>9, <2>1, <2>2, <2>3 DEF ShadowsOK, Shadow, Live, Learned
<1>22. SamplesOK'
  <2>1. (\A i \in Ref : Policy = "nonregular" => ancestry[i].sample = Sampled(pivots[i]))'
    <3>1. \A i \in Ref : Policy = "nonregular" => ancestry'[i].sample = Sampled(pivots'[i])
      BY <1>4, <1>17, <1>18 DEF SamplesOK
    <3>2. Policy = "nonregular" => ancestry'[N].sample = Sampled(pivots'[N])
      BY <1>16, <1>17, <1>18
    <3>3. \A i \in Ref' : Policy = "nonregular" => ancestry'[i].sample = Sampled(pivots'[i])
      BY <1>9, <3>1, <3>2
    <3> QED
      BY <1>9, <3>3 DEF Sampled
  <2>2. (samples = Least(offered, Capacity))' /\ (\A o \in offered : o[2] <= reductions)'
    BY <1>2, <1>4 DEF SamplesOK, Least, Before
  <2> QED
    BY <2>1, <2>2 DEF SamplesOK
<1>23. StorageTypeOK'
  <2>1. /\ config' \in Configs /\ garbage' \in GarbageRecord /\ shadows' \in Seq(Nat)
        /\ samples' \in SUBSET Triple /\ offered' \in SUBSET Triple /\ IsFiniteSet(offered')
        /\ active' \in Nat /\ conflicts' \in Nat /\ reductions' \in Nat
        /\ pc' \in {"search", "learned", "reduced"}
    BY <1>2, <1>4 DEF StorageTypeOK
  <2>2. \A i \in Ref' : IsFiniteSet(pivots'[i])
    BY <1>9, <1>13, <1>16, <1>17
  <2> QED
    BY <1>8, <1>10, <1>14, <1>17, <1>18, <1>19, <2>1, <2>2 DEF StorageTypeOK
<1> QED
  BY <1>11, <1>15, <1>19, <1>20, <1>21, <1>22, <1>23 DEF StorageInv

\* A reduction takes the candidates of L out of the count: those that are chosen
\* are put under observation, the others are deleted.
LEMMA Reducing ==
  ASSUME StorageInv, UNCHANGED <<config, ancestry, reasons, conflicts, written, pivots>>,
         pc' = "reduced", reductions' = reductions + 1,
         NEW L \in SUBSET Candidate, NEW chosen \in SUBSET L, chosen # {} => Policy = "shadow",
         NEW s, s.clauses \in Seq(ClauseRecord), s.garbage \in GarbageRecord,
         Len(s.clauses) = Len(clauses),
         \A i \in Ref :
           /\ s.clauses[i].len = clauses[i].len /\ s.clauses[i].learned = clauses[i].learned
           /\ s.clauses[i].deleted <=> clauses[i].deleted \/ i \in L \ chosen
           /\ s.clauses[i].watch = IF i \in chosen THEN "observing" ELSE clauses[i].watch,
         ArenaOK(arena, s.clauses, s.garbage), Stored(s), active' = active - Cardinality(L),
         shadows' \in Seq(Nat), Len(shadows') <= Capacity,
         Range(shadows') = Range(shadows) \cup chosen,
         offered' \in SUBSET Triple, IsFiniteSet(offered'), samples' = Least(offered', Capacity),
         \A o \in offered' : o[2] <= reductions'
  PROVE  StorageInv'
<1>1. /\ StorageTypeOK /\ ReasonsOK /\ CountOK /\ ShadowsOK
  BY DEF StorageInv
<1>2. /\ config.compact \in BOOLEAN /\ Ref = DOMAIN clauses /\ IsFiniteSet(Ref)
      /\ Ref = 1 .. Len(clauses)
  BY Standing DEF Ref
<1>3. DOMAIN s.clauses = Ref
  BY <1>2, LenProperties
<1>4. /\ arena' \in Seq(Nat) /\ garbage' \in GarbageRecord
      /\ clauses' \in Seq(ClauseRecord) /\ Len(clauses') = Len(clauses)
      /\ \A i \in Ref : clauses'[i] = [s.clauses[i] EXCEPT !.start = clauses'[i].start]
      /\ ArenaOK(arena', clauses', garbage')
  BY <1>1, <1>2, <1>3, StoredFacts DEF StorageTypeOK
<1>5. \A i \in Ref : /\ clauses'[i].len = clauses[i].len
                     /\ clauses'[i].learned = clauses[i].learned
                     /\ clauses'[i].deleted <=> clauses[i].deleted \/ i \in L \ chosen
                     /\ clauses'[i].watch = IF i \in chosen THEN "observing" ELSE clauses[i].watch
  <2>1. ASSUME NEW i \in Ref
        PROVE  /\ clauses'[i].len = s.clauses[i].len /\ clauses'[i].learned = s.clauses[i].learned
               /\ clauses'[i].deleted = s.clauses[i].deleted
               /\ clauses'[i].watch = s.clauses[i].watch
    <3>1. s.clauses[i] \in ClauseRecord
      BY <1>3, LenProperties
    <3>2. clauses'[i] = [s.clauses[i] EXCEPT !.start = clauses'[i].start]
      BY <1>4
    <3> QED
      BY <3>1, <3>2 DEF ClauseRecord
  <2> QED
    BY <2>1
<1>6. \A i \in L : /\ i \in Ref /\ clauses[i].learned /\ ~clauses[i].deleted
                   /\ ~ (clauses[i].watch # "active") /\ i \notin reasons
  BY DEF Candidate, Learned, Live, Shadow
<1>7. L \in SUBSET Counting /\ IsFiniteSet(Counting)
  <2>1. Counting \in SUBSET Ref
    BY DEF Counting
  <2>2. L \in SUBSET Counting
    BY DEF Candidate, Counting
  <2> QED
    BY <1>2, <2>1, <2>2, FS_Subset
<1>8. {i \in Ref : clauses[i].learned /\ ~clauses'[i].deleted /\ clauses'[i].watch = "active"}
        = Counting \ L
  <2>1. ASSUME NEW i \in Ref
        PROVE  clauses[i].learned /\ ~clauses'[i].deleted /\ clauses'[i].watch = "active"
                 <=> i \in Counting /\ i \notin L
    <3>1. i \in Counting <=> clauses[i].learned /\ ~clauses[i].deleted /\ clauses[i].watch = "active"
      BY DEF Counting, Learned, Live, Shadow
    <3> QED
      BY <1>5, <3>1
  <2>2. Counting \in SUBSET Ref
    BY DEF Counting
  <2> QED
    BY <2>1, <2>2
<1>9. /\ Cardinality(Counting \ L) = active' /\ active' \in Nat
  <2>1. /\ IsFiniteSet(L) /\ IsFiniteSet(Counting \ L) /\ Cardinality(Counting) \in Nat
        /\ Cardinality(Counting \ L) \in Nat /\ Cardinality(L) \in Nat
    BY <1>7, FS_Subset, FS_CardinalityType, FS_Difference
  <2>2. Counting \cap L = L
    BY <1>7
  <2>3. Cardinality(Counting \ L) = Cardinality(Counting) - Cardinality(L)
    <3>1. Cardinality(Counting \ L) = Cardinality(Counting) - Cardinality(Counting \cap L)
      BY <1>7, FS_Difference
    <3> QED
      BY <2>2, <3>1
  <2>4. active = Cardinality(Counting)
    BY <1>1 DEF CountOK
  <2>5. active' = Cardinality(Counting \ L)
    BY <2>3, <2>4
  <2> QED
    BY <2>1, <2>5
<1>10. reasons' \in SUBSET Ref /\ \A i \in reasons' : ~clauses'[i].deleted /\ clauses'[i].watch = "active"
  <2>1. \A i \in reasons : i \in Ref /\ ~clauses[i].deleted /\ clauses[i].watch = "active"
    BY <1>1 DEF StorageTypeOK, ReasonsOK, Live, Shadow
  <2> QED
    BY <1>5, <1>6, <2>1
<1>11. /\ Range(shadows') = {i \in Ref : clauses'[i].watch # "active"}
       /\ \A i \in Ref : clauses'[i].watch # "active" =>
            ~clauses'[i].deleted /\ clauses[i].learned /\ Policy = "shadow"
  <2>1. /\ Range(shadows) = {i \in Ref : clauses[i].watch # "active"}
        /\ \A i \in Ref : clauses[i].watch # "active" =>
             ~clauses[i].deleted /\ clauses[i].learned /\ Policy = "shadow"
    BY <1>1 DEF ShadowsOK, Shadow, Live, Learned
  <2>2. \A i \in Ref : clauses'[i].watch # "active" <=> i \in chosen \/ clauses[i].watch # "active"
    BY <1>5
  <2>3. Range(shadows') = {i \in Ref : clauses'[i].watch # "active"}
    BY <1>6, <2>1, <2>2
  <2>4. ASSUME NEW i \in Ref, clauses'[i].watch # "active"
        PROVE  ~clauses'[i].deleted /\ clauses[i].learned /\ Policy = "shadow"
    <3>1. CASE i \in chosen
      BY <1>5, <1>6, <3>1
    <3>2. CASE clauses[i].watch # "active"
      BY <1>5, <1>6, <2>1, <3>2
    <3> QED
      BY <2>2, <2>4, <3>1, <3>2
  <2> QED
    BY <2>3, <2>4
<1>12. reductions' \in Nat /\ pc' \in {"search", "learned", "reduced"}
  BY <1>1 DEF StorageTypeOK
<1> QED
  BY <1>4, <1>5, <1>8, <1>9, <1>10, <1>11, <1>12, Rearranged

\* The clauses of D deleted from C, whose records differ from those of the
\* solver in their accounts alone.
LEMMA DeletedFrom ==
  ASSUME StorageInv, NEW C \in Seq(ClauseRecord), Len(C) = Len(clauses),
         \A i \in Ref : /\ C[i].start = clauses[i].start /\ C[i].len = clauses[i].len
                        /\ C[i].learned = clauses[i].learned /\ C[i].watch = clauses[i].watch
                        /\ C[i].deleted = clauses[i].deleted,
         NEW D \in SUBSET Candidate
  PROVE  LET s == Deleting([clauses |-> C, garbage |-> garbage], D)
         IN  /\ s = [clauses |-> s.clauses, garbage |-> s.garbage]
             /\ s.clauses \in Seq(ClauseRecord) /\ s.garbage \in GarbageRecord
             /\ Len(s.clauses) = Len(clauses)
             /\ \A i \in Ref : /\ s.clauses[i].start = clauses[i].start
                               /\ s.clauses[i].len = clauses[i].len
                               /\ s.clauses[i].learned = clauses[i].learned
                               /\ s.clauses[i].deleted <=> clauses[i].deleted \/ i \in D
                               /\ s.clauses[i].watch = clauses[i].watch
             /\ ArenaOK(arena, s.clauses, s.garbage)
<1> DEFINE s == Deleting([clauses |-> C, garbage |-> garbage], D)
<1>1. /\ ArenaOK(arena, clauses, garbage) /\ arena \in Seq(Nat) /\ garbage \in GarbageRecord
  BY DEF StorageInv, StorageTypeOK
<1>2. config.compact \in BOOLEAN /\ Ref = DOMAIN clauses /\ DOMAIN C = Ref
  BY Standing, LenProperties DEF Ref
<1>3. ArenaOK(arena, C, garbage)
  BY <1>1, <1>2, ArenaSame
<1>4. D \in SUBSET LiveIn(C)
  <2>1. \A i \in D : i \in Ref /\ ~clauses[i].deleted
    BY DEF Candidate, Live
  <2> QED
    BY <1>2, <2>1 DEF LiveIn
<1>5. /\ s = [clauses |-> Struck(C, D), garbage |-> s.garbage]
      /\ s.garbage \in GarbageRecord /\ ArenaOK(arena, Struck(C, D), s.garbage)
  BY <1>1, <1>2, <1>3, <1>4, DeletingFacts
<1> HIDE DEF s
<1>6. s.clauses = Struck(C, D)
  BY <1>5
<1>7. /\ Struck(C, D) \in Seq(ClauseRecord) /\ Len(Struck(C, D)) = Len(C)
      /\ \A i \in DOMAIN C : Struck(C, D)[i] = [C[i] EXCEPT !.deleted = (i \in D \/ C[i].deleted)]
  BY StruckFacts
<1>8. \A i \in Ref : /\ s.clauses[i].start = clauses[i].start
                     /\ s.clauses[i].len = clauses[i].len
                     /\ s.clauses[i].learned = clauses[i].learned
                     /\ s.clauses[i].deleted <=> clauses[i].deleted \/ i \in D
                     /\ s.clauses[i].watch = clauses[i].watch
  <2>1. ASSUME NEW i \in Ref
        PROVE  /\ s.clauses[i].start = C[i].start /\ s.clauses[i].len = C[i].len
               /\ s.clauses[i].learned = C[i].learned /\ s.clauses[i].watch = C[i].watch
               /\ s.clauses[i].deleted <=> C[i].deleted \/ i \in D
    <3>1. C[i] \in ClauseRecord
      BY <1>2, LenProperties
    <3>2. s.clauses[i] = [C[i] EXCEPT !.deleted = (i \in D \/ C[i].deleted)]
      BY <1>2, <1>6, <1>7
    <3> QED
      BY <3>1, <3>2 DEF ClauseRecord
  <2> QED
    BY <2>1
<1> QED
  BY <1>5, <1>6, <1>7, <1>8 DEF s

\* The samples when nothing is offered.
LEMMA SamplesStand ==
  ASSUME StorageInv, UNCHANGED <<samples, offered>>, reductions' = reductions + 1
  PROVE  /\ offered' \in SUBSET Triple /\ IsFiniteSet(offered') /\ samples' = Least(offered', Capacity)
         /\ \A o \in offered' : o[2] <= reductions'
<1>1. /\ offered \in SUBSET Triple /\ IsFiniteSet(offered) /\ samples = Least(offered, Capacity)
      /\ \A o \in offered : o[2] <= reductions /\ reductions \in Nat
  BY DEF StorageInv, StorageTypeOK, SamplesOK
<1>2. \A o \in offered : o[2] \in Nat
  BY <1>1 DEF Triple
<1>3. \A o \in offered' : o[2] <= reductions'
  BY <1>1, <1>2
<1> QED
  BY <1>1, <1>3

LEMMA ReduceByQualityKeeps ==
  ASSUME StorageInv, UNCHANGED <<config, ancestry, reasons, conflicts, written, pivots>>,
         pc' = "reduced", reductions' = reductions + 1, ReduceByQuality
  PROVE  StorageInv'
<1>1. PICK D \in SUBSET {i \in Candidate : ~Protected(i)} :
        /\ Stored(Deleting([clauses |-> Aged, garbage |-> garbage], D))
        /\ active' = active - Cardinality(D)
  BY DEF ReduceByQuality
<1>2. UNCHANGED <<shadows, samples, offered>>
  BY DEF ReduceByQuality
<1>3. D \in SUBSET Candidate
  BY <1>1
<1>4. /\ Ref = DOMAIN clauses /\ Ref = 1 .. Len(clauses) /\ Len(clauses) \in Nat
      /\ \A i \in Ref : clauses[i] \in ClauseRecord
  BY Standing DEF Ref
<1>5. \A i \in Ref : /\ Aged[i] \in ClauseRecord
                     /\ Aged[i].start = clauses[i].start /\ Aged[i].len = clauses[i].len
                     /\ Aged[i].learned = clauses[i].learned /\ Aged[i].watch = clauses[i].watch
                     /\ Aged[i].deleted = clauses[i].deleted
  <2>1. ASSUME NEW i \in Ref
        PROVE  /\ Aged[i] \in ClauseRecord
               /\ Aged[i].start = clauses[i].start /\ Aged[i].len = clauses[i].len
               /\ Aged[i].learned = clauses[i].learned /\ Aged[i].watch = clauses[i].watch
               /\ Aged[i].deleted = clauses[i].deleted
    <3>1. clauses[i] \in ClauseRecord
      BY <1>4
    <3>2. CASE clauses[i].used > 0 /\ Aged[i] = [clauses[i] EXCEPT !.used = @ - 1]
      BY <3>1, <3>2 DEF ClauseRecord
    <3>3. CASE Aged[i] = clauses[i]
      BY <3>1, <3>3
    <3> QED
      BY <3>2, <3>3 DEF Aged
  <2> QED
    BY <2>1
<1>6. Aged \in Seq(ClauseRecord) /\ Len(Aged) = Len(clauses)
  <2>1. Aged \in [1 .. Len(clauses) -> ClauseRecord]
    <3>1. DOMAIN Aged = Ref /\ Aged = [i \in Ref |-> Aged[i]]
      BY DEF Aged
    <3> QED
      BY <1>4, <1>5, <3>1
  <2> QED
    BY <1>4, <2>1
<1> DEFINE s == Deleting([clauses |-> Aged, garbage |-> garbage], D)
<1>7. /\ s.clauses \in Seq(ClauseRecord) /\ s.garbage \in GarbageRecord
      /\ Len(s.clauses) = Len(clauses)
      /\ \A i \in Ref : /\ s.clauses[i].len = clauses[i].len
                        /\ s.clauses[i].learned = clauses[i].learned
                        /\ s.clauses[i].deleted <=> clauses[i].deleted \/ i \in D
                        /\ s.clauses[i].watch = clauses[i].watch
      /\ ArenaOK(arena, s.clauses, s.garbage)
  BY <1>3, <1>5, <1>6, DeletedFrom
<1>8. Stored(s)
  BY <1>1
<1> HIDE DEF s
<1>9. /\ shadows' \in Seq(Nat) /\ Len(shadows') <= Capacity /\ Range(shadows') = Range(shadows) \cup {}
  BY <1>2 DEF StorageInv, StorageTypeOK, ShadowsOK
<1>10. /\ offered' \in SUBSET Triple /\ IsFiniteSet(offered') /\ samples' = Least(offered', Capacity)
       /\ \A o \in offered' : o[2] <= reductions'
  BY <1>2, SamplesStand
<1>11. \A i \in Ref :
         /\ s.clauses[i].len = clauses[i].len /\ s.clauses[i].learned = clauses[i].learned
         /\ s.clauses[i].deleted <=> clauses[i].deleted \/ i \in D \ {}
         /\ s.clauses[i].watch = IF i \in {} THEN "observing" ELSE clauses[i].watch
  BY <1>7
<1>12. {} \in SUBSET D /\ active' = active - Cardinality(D)
  BY <1>1
<1> QED
  BY <1>3, <1>7, <1>8, <1>9, <1>10, <1>11, <1>12, Reducing

LEMMA ReduceByUsageKeeps ==
  ASSUME StorageInv, UNCHANGED <<config, ancestry, reasons, conflicts, written, pivots>>,
         pc' = "reduced", reductions' = reductions + 1, ReduceByUsage
  PROVE  StorageInv'
<1> DEFINE voting == IF Policy = "voting" THEN Doomed ELSE {}
           s == Deleting([clauses |-> clauses, garbage |-> garbage], Doomed)
<1>1. /\ Stored(s) /\ active' = active - Cardinality(Doomed) /\ shadows' = shadows
      /\ samples' = Offering(voting) /\ offered' = offered \cup {SampleOf(i) : i \in voting}
  BY DEF ReduceByUsage
<1>2. Doomed \in SUBSET Candidate
  BY DoomedFacts
<1>3. voting \in SUBSET Nat /\ IsFiniteSet(voting)
  <2>1. Doomed \in SUBSET Ref /\ Ref \in SUBSET Nat /\ IsFiniteSet(Ref)
    BY <1>2, Standing DEF Candidate
  <2>2. IsFiniteSet(Doomed) /\ IsFiniteSet({})
    BY <2>1, FS_Subset, FS_EmptySet
  <2> QED
    BY <2>1, <2>2
<1>4. /\ reductions \in Nat /\ samples = Least(offered, Capacity) /\ offered \in SUBSET Triple
      /\ IsFiniteSet(offered) /\ \A o \in offered : o[2] <= reductions
  BY DEF StorageInv, StorageTypeOK, SamplesOK
<1> HIDE DEF voting
<1>5. /\ offered' \in SUBSET Triple /\ IsFiniteSet(offered') /\ samples' = Least(offered', Capacity)
      /\ \A o \in offered' : o[2] <= reductions'
  BY <1>1, <1>3, <1>4, OfferingFacts
<1>6. clauses \in Seq(ClauseRecord)
  BY DEF StorageInv, StorageTypeOK
<1>7. /\ s.clauses \in Seq(ClauseRecord) /\ s.garbage \in GarbageRecord
      /\ Len(s.clauses) = Len(clauses)
      /\ \A i \in Ref : /\ s.clauses[i].len = clauses[i].len
                        /\ s.clauses[i].learned = clauses[i].learned
                        /\ s.clauses[i].deleted <=> clauses[i].deleted \/ i \in Doomed
                        /\ s.clauses[i].watch = clauses[i].watch
      /\ ArenaOK(arena, s.clauses, s.garbage)
  BY <1>2, <1>6, DeletedFrom
<1> HIDE DEF s
<1>8. /\ shadows' \in Seq(Nat) /\ Len(shadows') <= Capacity /\ Range(shadows') = Range(shadows) \cup {}
  BY <1>1 DEF StorageInv, StorageTypeOK, ShadowsOK
<1>9. \A i \in Ref :
         /\ s.clauses[i].len = clauses[i].len /\ s.clauses[i].learned = clauses[i].learned
         /\ s.clauses[i].deleted <=> clauses[i].deleted \/ i \in Doomed \ {}
         /\ s.clauses[i].watch = IF i \in {} THEN "observing" ELSE clauses[i].watch
  BY <1>7
<1>10. {} \in SUBSET Doomed
  OBVIOUS
<1> QED
  BY <1>1, <1>2, <1>5, <1>7, <1>8, <1>9, <1>10, Reducing

LEMMA ReduceToShadowsKeeps ==
  ASSUME StorageInv, UNCHANGED <<config, ancestry, reasons, conflicts, written, pivots>>,
         pc' = "reduced", reductions' = reductions + 1, ReduceToShadows
  PROVE  StorageInv'
<1> DEFINE chosen == Observed(Doomed)
           s == Deleting([clauses |-> clauses, garbage |-> garbage], Doomed \ chosen)
           E == [i \in Ref |-> IF i \in chosen
                               THEN [s.clauses[i] EXCEPT !.watch = "observing", !.since = conflicts]
                               ELSE s.clauses[i]]
           t == [s EXCEPT !.clauses = E]
<1>1. /\ Policy = "shadow" /\ Stored(t) /\ shadows' = shadows \o SetToSeq(chosen)
      /\ active' = active - Cardinality(Doomed) /\ UNCHANGED <<samples, offered>>
  BY DEF ReduceToShadows
<1>2. /\ Doomed \in SUBSET Candidate /\ Doomed \in SUBSET Nat /\ Doomed \in SUBSET Ref
      /\ IsFiniteSet(Doomed)
  <2>1. Doomed \in SUBSET Candidate
    BY DoomedFacts
  <2>2. Doomed \in SUBSET Ref /\ Ref \in SUBSET Nat /\ IsFiniteSet(Ref)
    BY <2>1, Standing DEF Candidate
  <2> QED
    BY <2>1, <2>2, FS_Subset
<1>3. /\ reductions \in Nat /\ shadows \in Seq(Nat) /\ Len(shadows) \in Nat
      /\ Len(shadows) <= Capacity /\ conflicts \in Nat
      /\ clauses \in Seq(ClauseRecord) /\ ArenaOK(arena, clauses, garbage)
  BY LenProperties DEF StorageInv, StorageTypeOK, ShadowsOK
<1>4. /\ chosen \in SUBSET Doomed /\ IsFiniteSet(chosen) /\ Cardinality(chosen) \in Nat
      /\ Cardinality(chosen) + Len(shadows) <= Capacity
  BY <1>2, <1>3, ObservedFacts
<1>5. /\ Ref = DOMAIN clauses /\ Ref = 1 .. Len(clauses) /\ Len(clauses) \in Nat
      /\ \A i \in Ref : clauses[i] \in ClauseRecord
  BY Standing DEF Ref
<1> HIDE DEF chosen
<1>6. /\ s = [clauses |-> s.clauses, garbage |-> s.garbage]
      /\ s.clauses \in Seq(ClauseRecord) /\ s.garbage \in GarbageRecord
      /\ Len(s.clauses) = Len(clauses)
      /\ \A i \in Ref : /\ s.clauses[i].start = clauses[i].start
                        /\ s.clauses[i].len = clauses[i].len
                        /\ s.clauses[i].learned = clauses[i].learned
                        /\ s.clauses[i].deleted <=> clauses[i].deleted \/ i \in Doomed \ chosen
                        /\ s.clauses[i].watch = clauses[i].watch
      /\ ArenaOK(arena, s.clauses, s.garbage)
  <2>1. Doomed \ chosen \in SUBSET Candidate
    BY <1>2
  <2> QED
    BY <1>3, <2>1, DeletedFrom
<1> HIDE DEF s
<1>7. DOMAIN s.clauses = Ref /\ \A i \in Ref : s.clauses[i] \in ClauseRecord
  BY <1>5, <1>6, LenProperties
<1>8. \A i \in Ref : /\ E[i] \in ClauseRecord /\ E[i].start = s.clauses[i].start
                     /\ E[i].len = s.clauses[i].len /\ E[i].learned = s.clauses[i].learned
                     /\ E[i].deleted = s.clauses[i].deleted
                     /\ E[i].watch = IF i \in chosen THEN "observing" ELSE s.clauses[i].watch
  <2>1. ASSUME NEW i \in Ref
        PROVE  /\ E[i] \in ClauseRecord /\ E[i].start = s.clauses[i].start
               /\ E[i].len = s.clauses[i].len /\ E[i].learned = s.clauses[i].learned
               /\ E[i].deleted = s.clauses[i].deleted
               /\ E[i].watch = IF i \in chosen THEN "observing" ELSE s.clauses[i].watch
    <3>1. s.clauses[i] \in ClauseRecord
      BY <1>7
    <3>2. CASE i \in chosen
      <4>1. E[i] = [s.clauses[i] EXCEPT !.watch = "observing", !.since = conflicts]
        BY <3>2
      <4> HIDE DEF E
      <4> QED
        BY <1>3, <3>1, <3>2, <4>1 DEF ClauseRecord
    <3>3. CASE i \notin chosen
      <4>1. E[i] = s.clauses[i]
        BY <3>3
      <4> HIDE DEF E
      <4> QED
        BY <3>1, <3>3, <4>1
    <3> QED
      BY <3>2, <3>3
  <2> QED
    BY <2>1
<1>9. DOMAIN E = Ref /\ E \in Seq(ClauseRecord) /\ Len(E) = Len(clauses)
  <2>1. DOMAIN E = Ref
    OBVIOUS
  <2>2. E \in [1 .. Len(clauses) -> ClauseRecord]
    <3>1. E = [i \in Ref |-> E[i]]
      OBVIOUS
    <3> HIDE DEF E
    <3> QED
      BY <1>5, <1>8, <3>1
  <2> HIDE DEF E
  <2> QED
    BY <1>5, <2>1, <2>2
<1>10. t.clauses = E /\ t.garbage = s.garbage
  <2> HIDE DEF E
  <2>1. t = [[clauses |-> s.clauses, garbage |-> s.garbage] EXCEPT !.clauses = E]
    BY <1>6
  <2> QED
    BY <2>1
<1>11. ArenaOK(arena, t.clauses, t.garbage)
  <2> HIDE DEF E, t
  <2>1. ArenaOK(arena, E, s.garbage)
    BY <1>6, <1>7, <1>8, <1>9, ArenaSame
  <2> QED
    BY <1>10, <2>1
<1>12. /\ shadows' \in Seq(Nat) /\ Len(shadows') <= Capacity
       /\ Range(shadows') = Range(shadows) \cup chosen
  <2> DEFINE l == SetToSeq(chosen)
  <2>1. l \in Seq(chosen) /\ Len(l) = Cardinality(chosen) /\ Range(l) = chosen
    BY <1>4, SetToSeqFacts
  <2>2. chosen \in SUBSET Nat
    BY <1>2, <1>4
  <2> HIDE DEF l
  <2>3. l \in Seq(Nat) /\ Len(l) \in Nat
    BY <1>4, <2>1, <2>2, SeqMonotonic
  <2>4. /\ shadows \o l \in Seq(Nat) /\ Len(shadows \o l) = Len(shadows) + Len(l)
    BY <1>3, <2>3, ConcatProperties
  <2>5. Range(shadows \o l) = Range(shadows) \cup Range(l)
    BY <1>3, <2>3, RangeConcatenation
  <2>6. shadows' = shadows \o l
    BY <1>1 DEF l
  <2>7. Len(shadows \o l) <= Capacity
    BY <1>3, <1>4, <2>1, <2>4
  <2>8. Range(shadows') = Range(shadows) \cup chosen
    BY <2>1, <2>5, <2>6
  <2> QED
    BY <2>4, <2>6, <2>7, <2>8
<1>13. /\ offered' \in SUBSET Triple /\ IsFiniteSet(offered') /\ samples' = Least(offered', Capacity)
       /\ \A o \in offered' : o[2] <= reductions'
  BY <1>1, SamplesStand
<1>14. \A i \in Ref :
         /\ t.clauses[i].len = clauses[i].len /\ t.clauses[i].learned = clauses[i].learned
         /\ t.clauses[i].deleted <=> clauses[i].deleted \/ i \in Doomed \ chosen
         /\ t.clauses[i].watch = IF i \in chosen THEN "observing" ELSE clauses[i].watch
  <2> HIDE DEF E, t
  <2> QED
    BY <1>6, <1>8, <1>10
<1> HIDE DEF E, t
<1>15. t.clauses \in Seq(ClauseRecord) /\ t.garbage \in GarbageRecord /\ Len(t.clauses) = Len(clauses)
  BY <1>6, <1>9, <1>10
<1> QED
  BY <1>1, <1>2, <1>4, <1>11, <1>12, <1>13, <1>14, <1>15, Reducing

LEMMA ReduceKeeps == StorageInv /\ Reduce => StorageInv'
<1> SUFFICES ASSUME StorageInv, Reduce PROVE StorageInv'
  OBVIOUS
<1>1. /\ pc' = "reduced" /\ reductions' = reductions + 1
      /\ UNCHANGED <<config, ancestry, reasons, conflicts, written, pivots>>
  BY DEF Reduce
<1>2. ReduceByQuality \/ ReduceByUsage \/ ReduceToShadows
  BY DEF Reduce
<1> QED
  BY <1>1, <1>2, ReduceByQualityKeeps, ReduceByUsageKeeps, ReduceToShadowsKeeps

\* The records of clauses that a restart takes back and deletes.
LEMMA DecidedFacts ==
  ASSUME NEW c \in ClauseRecord
  PROVE  LET b == [c EXCEPT !.watch = "active", !.since = 0, !.score = 1]
             g == [c EXCEPT !.watch = "active", !.since = 0, !.deleted = TRUE]
         IN  /\ b \in ClauseRecord /\ b.start = c.start /\ b.len = c.len
             /\ b.learned = c.learned /\ b.deleted = c.deleted /\ b.watch = "active"
             /\ g \in ClauseRecord /\ g.start = c.start /\ g.len = c.len
             /\ g.learned = c.learned /\ g.deleted /\ g.watch = "active"
BY DEF ClauseRecord

\* A restart decides on the shadow clauses.
LEMMA RestartKeeps == StorageInv /\ Restart => StorageInv'
<1> SUFFICES ASSUME StorageInv, Restart PROVE StorageInv'
  OBVIOUS
<1> DEFINE triggered == {i \in Ref : Finalized(i) /\ clauses[i].watch = "triggered"}
           expired == {i \in Ref : Finalized(i) /\ clauses[i].watch = "observing"}
           back(i) == [clauses[i] EXCEPT !.watch = "active", !.since = 0, !.score = 1]
           gone(i) == [clauses[i] EXCEPT !.watch = "active", !.since = 0, !.deleted = TRUE]
<1>1. /\ clauses' = [i \in Ref |-> IF i \in triggered THEN back(i)
                                   ELSE IF i \in expired THEN gone(i) ELSE clauses[i]]
      /\ active' = active + Cardinality(triggered)
      /\ shadows' = Retained /\ samples' = {} /\ offered' = {} /\ pc' = "search"
      /\ UNCHANGED <<config, arena, garbage, ancestry, conflicts, reductions, written, pivots>>
  BY DEF Restart
<1>2. PICK kept \in SUBSET reasons, units \in SUBSET triggered : reasons' = kept \cup units
  BY DEF Restart
<1>3. /\ StorageTypeOK /\ ArenaOK(arena, clauses, garbage) /\ ReasonsOK /\ CountOK /\ ShadowsOK
      /\ SamplesOK
  BY DEF StorageInv
<1>4. /\ Ref = DOMAIN clauses /\ Ref = 1 .. Len(clauses) /\ Len(clauses) \in Nat /\ IsFiniteSet(Ref)
      /\ \A i \in Ref : clauses[i] \in ClauseRecord
      /\ (Policy = "shadow" => ~config.compact)
  BY Standing DEF Ref
<1>5. \A i \in triggered : /\ i \in Ref /\ clauses[i].watch # "active" /\ ~clauses[i].deleted
                           /\ clauses[i].learned /\ Policy = "shadow" /\ i \notin expired
  BY <1>3 DEF Finalized, Shadow, Live, ShadowsOK, Learned
<1>6. \A i \in expired : /\ i \in Ref /\ clauses[i].watch # "active" /\ ~clauses[i].deleted
                         /\ clauses[i].learned /\ Policy = "shadow"
  BY <1>3 DEF Finalized, Shadow, Live, ShadowsOK, Learned
<1>7. \A i \in Ref : Finalized(i) <=> i \in triggered \/ i \in expired
  <2>1. ASSUME NEW i \in Ref, Finalized(i) PROVE i \in triggered \/ i \in expired
    <3>1. clauses[i].watch # "active" /\ clauses[i].watch \in {"active", "observing", "triggered"}
      BY <1>4, <2>1 DEF Finalized, Shadow, ClauseRecord
    <3> QED
      BY <2>1, <3>1
  <2> QED
    BY <2>1
<1> HIDE DEF triggered, expired
<1>8. \A i \in Ref : /\ clauses'[i] \in ClauseRecord
                     /\ clauses'[i].start = clauses[i].start /\ clauses'[i].len = clauses[i].len
                     /\ clauses'[i].learned = clauses[i].learned
                     /\ clauses'[i].deleted <=> clauses[i].deleted \/ i \in expired
                     /\ clauses'[i].watch = IF i \in triggered \/ i \in expired THEN "active"
                                            ELSE clauses[i].watch
                     /\ i \notin triggered /\ i \notin expired => clauses'[i] = clauses[i]
  <2>1. ASSUME NEW i \in Ref
        PROVE  /\ clauses'[i] \in ClauseRecord
               /\ clauses'[i].start = clauses[i].start /\ clauses'[i].len = clauses[i].len
               /\ clauses'[i].learned = clauses[i].learned
               /\ clauses'[i].deleted <=> clauses[i].deleted \/ i \in expired
               /\ clauses'[i].watch = IF i \in triggered \/ i \in expired THEN "active"
                                      ELSE clauses[i].watch
               /\ i \notin triggered /\ i \notin expired => clauses'[i] = clauses[i]
    <3>1. clauses[i] \in ClauseRecord
      BY <1>4
    <3>2. CASE i \in triggered
      <4>1. clauses'[i] = back(i) /\ i \notin expired
        BY <1>1, <1>5, <3>2
      <4>2. /\ back(i) \in ClauseRecord
            /\ back(i).start = clauses[i].start /\ back(i).len = clauses[i].len
            /\ back(i).learned = clauses[i].learned /\ back(i).deleted = clauses[i].deleted
            /\ back(i).watch = "active"
        BY <3>1, DecidedFacts
      <4> HIDE DEF back
      <4> QED
        BY <3>2, <4>1, <4>2
    <3>3. CASE i \notin triggered /\ i \in expired
      <4>1. clauses'[i] = gone(i)
        BY <1>1, <3>3
      <4>2. /\ gone(i) \in ClauseRecord
            /\ gone(i).start = clauses[i].start /\ gone(i).len = clauses[i].len
            /\ gone(i).learned = clauses[i].learned /\ gone(i).deleted
            /\ gone(i).watch = "active"
        BY <3>1, DecidedFacts
      <4> HIDE DEF gone
      <4> QED
        BY <3>3, <4>1, <4>2
    <3>4. CASE i \notin triggered /\ i \notin expired
      <4>1. clauses'[i] = clauses[i]
        BY <1>1, <3>4
      <4> QED
        BY <3>1, <3>4, <4>1
    <3> QED
      BY <3>2, <3>3, <3>4
  <2> QED
    BY <2>1
<1>9. DOMAIN clauses' = Ref /\ clauses' \in Seq(ClauseRecord) /\ Len(clauses') = Len(clauses)
  <2>1. DOMAIN clauses' = Ref /\ clauses' = [i \in Ref |-> clauses'[i]]
    BY <1>1
  <2>2. clauses' \in [1 .. Len(clauses) -> ClauseRecord]
    BY <1>4, <1>8, <2>1
  <2> QED
    BY <1>4, <2>1, <2>2
<1>10. arena' \in Seq(Nat) /\ garbage' \in GarbageRecord /\ ArenaOK(arena', clauses', garbage')
  <2>1. ArenaOK(arena, clauses', garbage)
    <3>1. CASE Policy = "shadow"
      BY <1>3, <1>4, <1>8, <1>9, <3>1, ArenaLoose
    <3>2. CASE Policy # "shadow"
      <4>1. \A i \in Ref : i \notin triggered /\ i \notin expired
        BY <1>5, <1>6, <3>2
      <4>2. \A i \in Ref : clauses'[i] = clauses[i]
        BY <1>8, <4>1
      <4> QED
        BY <1>3, <1>4, <1>9, <4>2, ArenaSame
    <3> QED
      BY <3>1, <3>2
  <2>2. arena' = arena /\ garbage' = garbage /\ arena \in Seq(Nat) /\ garbage \in GarbageRecord
    BY <1>1, <1>3 DEF StorageTypeOK
  <2> QED
    BY <2>1, <2>2
<1>11. reasons' \in SUBSET Ref /\ \A i \in reasons' : ~clauses'[i].deleted /\ clauses'[i].watch = "active"
  <2>1. \A i \in reasons : i \in Ref /\ ~clauses[i].deleted /\ clauses[i].watch = "active"
    BY <1>3 DEF StorageTypeOK, ReasonsOK, Live, Shadow
  <2>2. \A i \in kept : i \in Ref /\ ~clauses'[i].deleted /\ clauses'[i].watch = "active"
    BY <1>6, <1>8, <2>1
  <2>3. \A i \in units : i \in Ref /\ ~clauses'[i].deleted /\ clauses'[i].watch = "active"
    BY <1>5, <1>8
  <2> QED
    BY <1>2, <2>2, <2>3
<1>12. /\ active' = Cardinality({i \in Ref : /\ clauses[i].learned /\ ~clauses'[i].deleted
                                             /\ clauses'[i].watch = "active"})
       /\ active' \in Nat
  <2>1. /\ IsFiniteSet(Counting) /\ IsFiniteSet(triggered) /\ Cardinality(Counting) \in Nat
        /\ Cardinality(triggered) \in Nat
    <3>1. Counting \in SUBSET Ref /\ triggered \in SUBSET Ref
      BY <1>5 DEF Counting
    <3> QED
      BY <1>4, <3>1, FS_Subset, FS_CardinalityType
  <2>2. Counting \cap triggered = {}
    BY <1>5 DEF Counting, Shadow
  <2>3. {i \in Ref : clauses[i].learned /\ ~clauses'[i].deleted /\ clauses'[i].watch = "active"}
          = Counting \cup triggered
    <3>1. ASSUME NEW i \in Ref
          PROVE  clauses[i].learned /\ ~clauses'[i].deleted /\ clauses'[i].watch = "active"
                   <=> i \in Counting \/ i \in triggered
      <4>1. i \in Counting <=> clauses[i].learned /\ ~clauses[i].deleted /\ clauses[i].watch = "active"
        BY DEF Counting, Learned, Live, Shadow
      <4> QED
        BY <1>5, <1>6, <1>8, <4>1
    <3>2. Counting \in SUBSET Ref /\ triggered \in SUBSET Ref
      BY <1>5 DEF Counting
    <3> QED
      BY <3>1, <3>2
  <2>4. Cardinality(Counting \cup triggered) = Cardinality(Counting) + Cardinality(triggered)
    <3>1. Cardinality(Counting \cap triggered) = 0
      BY <2>2, FS_EmptySet
    <3>2. Cardinality(Counting \cup triggered)
            = Cardinality(Counting) + Cardinality(triggered) - Cardinality(Counting \cap triggered)
      BY <2>1, FS_Union
    <3> QED
      BY <2>1, <3>1, <3>2
  <2>5. active = Cardinality(Counting)
    BY <1>3 DEF CountOK
  <2>6. active' = Cardinality(Counting \cup triggered)
    BY <1>1, <2>4, <2>5
  <2>7. active' \in Nat
    BY <2>1, <2>4, <2>6
  <2> QED
    BY <2>3, <2>6, <2>7
<1>13. /\ shadows' \in Seq(Nat) /\ Len(shadows') <= Capacity
       /\ Range(shadows') = {i \in Ref : clauses'[i].watch # "active"}
       /\ \A i \in Ref : clauses'[i].watch # "active" =>
            ~clauses'[i].deleted /\ clauses[i].learned /\ Policy = "shadow"
  <2>1. /\ Range(shadows) = {i \in Ref : clauses[i].watch # "active"} /\ Len(shadows) <= Capacity
        /\ \A i \in Ref : clauses[i].watch # "active" =>
             ~clauses[i].deleted /\ clauses[i].learned /\ Policy = "shadow"
        /\ shadows \in Seq(Nat) /\ Len(shadows) \in Nat
    BY <1>3, LenProperties DEF ShadowsOK, Shadow, Live, Learned, StorageTypeOK
  <2>2. /\ Retained \in Seq(Nat) /\ Len(Retained) <= Len(shadows)
        /\ Range(Retained) = {x \in Range(shadows) : ~Finalized(x)}
    BY <2>1, RetainedFacts
  <2>3. Len(Retained) \in Nat /\ Capacity \in Nat
    BY <2>2, LenProperties, StorageAssumption
  <2>4. Len(Retained) <= Capacity
    BY <2>1, <2>2, <2>3
  <2>5. \A i \in Ref : clauses'[i].watch # "active" <=> clauses[i].watch # "active" /\ ~Finalized(i)
    BY <1>7, <1>8
  <2>6. Range(Retained) = {i \in Ref : clauses'[i].watch # "active"}
    BY <2>1, <2>2, <2>5
  <2>7. \A i \in Ref : clauses'[i].watch # "active" =>
          ~clauses'[i].deleted /\ clauses[i].learned /\ Policy = "shadow"
    BY <1>7, <1>8, <2>1, <2>5
  <2> QED
    BY <1>1, <2>2, <2>4, <2>6, <2>7
<1>14. /\ offered' \in SUBSET Triple /\ IsFiniteSet(offered') /\ samples' = Least(offered', Capacity)
       /\ \A o \in offered' : o[2] <= reductions'
  BY <1>1, FS_EmptySet DEF Least
<1>15. reductions' \in Nat /\ pc' \in {"search", "learned", "reduced"}
  BY <1>1, <1>3 DEF StorageTypeOK
<1> QED
  BY <1>1, <1>8, <1>9, <1>10, <1>11, <1>12, <1>13, <1>14, <1>15, Rearranged

\* The literals of a clause, in a row.
LEMMA LiteralsFacts ==
  ASSUME NEW i \in Nat, NEW n \in Nat
  PROVE  /\ Literals(i, n) \in Seq(Nat) /\ Len(Literals(i, n)) = n
         /\ Range(Literals(i, n)) = Named(i, n) /\ Named(i, n) \in SUBSET Nat
<1> DEFINE L == Literals(i, n)
<1>1. L = [j \in 1 .. n |-> 10 * i + j]
  BY DEF Literals
<1>2. \A j \in 1 .. n : 10 * i + j \in Nat
  OBVIOUS
<1>3. Range(L) = Named(i, n) /\ Named(i, n) \in SUBSET Nat
  BY <1>1, <1>2 DEF Range, Named
<1> HIDE DEF L
<1>4. L \in [1 .. n -> Nat]
  BY <1>1, <1>2
<1>5. L \in Seq(Nat) /\ Len(L) = n
  BY <1>4
<1> QED
  BY <1>3, <1>5 DEF L

\* The two clauses that the solver starts from.
LEMMA InitGood == Init => StorageInv
<1> SUFFICES ASSUME Init PROVE StorageInv
  OBVIOUS
<1>1. PICK n \in Lengths[Policy] :
        /\ arena = Literals(1, n) \o Literals(2, 3)
        /\ clauses = <<[start |-> 1, len |-> n, learned |-> FALSE, deleted |-> FALSE, lbd |-> 0,
                        used |-> 0, score |-> 0, debt |-> 0, watch |-> "active", since |-> 0],
                       [start |-> n + 1, len |-> 3, learned |-> FALSE, deleted |-> FALSE, lbd |-> 0,
                        used |-> 0, score |-> 0, debt |-> 0, watch |-> "active", since |-> 0]>>
        /\ written = <<Range(Literals(1, n)), Range(Literals(2, 3))>>
  BY DEF Init
<1>2. /\ config \in Configs /\ garbage = NoGarbage /\ active = 0
      /\ ancestry = <<NoAncestry, NoAncestry>> /\ pivots = <<{}, {}>>
      /\ reasons = {} /\ shadows = << >> /\ samples = {} /\ offered = {}
      /\ conflicts = 0 /\ reductions = 0 /\ pc = "search"
  BY DEF Init
<1>3. n \in Nat /\ n >= 3 /\ config.compact \in BOOLEAN
  BY <1>1, <1>2, StorageAssumption DEF Policy
<1> DEFINE c == [start |-> 1, len |-> n, learned |-> FALSE, deleted |-> FALSE, lbd |-> 0,
                 used |-> 0, score |-> 0, debt |-> 0, watch |-> "active", since |-> 0]
           d == [start |-> n + 1, len |-> 3, learned |-> FALSE, deleted |-> FALSE, lbd |-> 0,
                 used |-> 0, score |-> 0, debt |-> 0, watch |-> "active", since |-> 0]
<1>4. /\ c \in ClauseRecord /\ c.start = 1 /\ c.len = n /\ ~c.learned /\ ~c.deleted
      /\ c.watch = "active"
      /\ d \in ClauseRecord /\ d.start = n + 1 /\ d.len = 3 /\ ~d.learned /\ ~d.deleted
      /\ d.watch = "active"
  BY <1>3 DEF ClauseRecord
<1>5. clauses = <<c, d>>
  BY <1>1
<1> HIDE DEF c, d
<1>6. /\ clauses \in Seq(ClauseRecord) /\ Len(clauses) = 2 /\ Ref = {1, 2}
      /\ clauses[1] = c /\ clauses[2] = d
  BY <1>4, <1>5 DEF Ref
<1>7. arena \in Seq(Nat) /\ ArenaOK(arena, clauses, garbage)
  <2>1. ArenaOK(<< >>, << >>, NoGarbage) /\ NoGarbage \in GarbageRecord
    <3>1. LiveIn(<< >>) = {} /\ DOMAIN << >> = {}
      BY DEF LiveIn
    <3>2. GapsOf(<< >>, << >>) = {} /\ NoGarbage.literals = 0 /\ Cardinality({}) = 0
      BY <3>1, FS_EmptySet DEF GapsOf, NoGarbage
    <3>3. Ordered(<< >>) /\ FirstGap(<< >>, << >>, NoGarbage)
      BY <3>1, <3>2 DEF Ordered, FirstGap
    <3>4. \A i \in DOMAIN << >> : Stands(<< >>, << >>[i], i)
      BY <3>1
    <3>5. NoGarbage \in GarbageRecord
      BY DEF NoGarbage, GarbageRecord
    <3> QED
      BY <3>2, <3>3, <3>4, <3>5 DEF ArenaOK
  <2> DEFINE A == Literals(1, n)
  <2>2. A \in Seq(Nat) /\ Len(A) = n
    BY <1>3, LiteralsFacts
  <2>3. ArenaOK(A, <<c>>, NoGarbage)
    <3>1. /\ << >> \in Seq(Nat) /\ << >> \in Seq(ClauseRecord) /\ Len(<< >>) + 1 = 1
          /\ << >> \o A = A /\ Append(<< >>, c) = <<c>>
      BY <2>2, EmptySeq, ConcatEmptySeq
    <3>2. ArenaOK(<< >> \o Literals(Len(<< >>) + 1, c.len), Append(<< >>, c), NoGarbage)
      BY <1>3, <1>4, <2>1, <3>1, ArenaLonger
    <3> QED
      BY <1>4, <3>1, <3>2
  <2> HIDE DEF A
  <2>4. /\ <<c>> \in Seq(ClauseRecord) /\ Len(<<c>>) + 1 = 2 /\ Append(<<c>>, d) = <<c, d>>
    <3>1. <<c>> \in Seq(ClauseRecord) /\ Len(<<c>>) = 1 /\ <<c>>[1] = c
      BY <1>4
    <3>2. <<c, d>> \in Seq(ClauseRecord) /\ Len(<<c, d>>) = 2 /\ <<c, d>>[1] = c /\ <<c, d>>[2] = d
      BY <1>4
    <3>3. /\ Append(<<c>>, d) \in Seq(ClauseRecord) /\ Len(Append(<<c>>, d)) = Len(<<c>>) + 1
          /\ \A i \in 1 .. Len(<<c>>) : Append(<<c>>, d)[i] = <<c>>[i]
          /\ Append(<<c>>, d)[Len(<<c>>) + 1] = d
      BY <1>4, <3>1, AppendProperties
    <3>4. PICK x, y : x = Append(<<c>>, d) /\ y = <<c, d>>
      OBVIOUS
    <3>5. /\ x \in Seq(ClauseRecord) /\ Len(x) = 2 /\ x[1] = c /\ x[2] = d
          /\ y \in Seq(ClauseRecord) /\ Len(y) = 2 /\ y[1] = c /\ y[2] = d
      BY <3>1, <3>2, <3>3, <3>4
    <3>6. \A i \in 1 .. 2 : x[i] = y[i]
      BY <3>5
    <3>7. x = y
      BY <3>5, <3>6, SeqEqual
    <3>8. Append(<<c>>, d) = <<c, d>>
      BY <3>4, <3>7, Zenon
    <3>9. Len(<<c>>) + 1 = 2
      BY <3>1
    <3> QED
      BY <3>1, <3>8, <3>9, Zenon
  <2>5. /\ A \o Literals(2, 3) \in Seq(Nat)
        /\ ArenaOK(A \o Literals(2, 3), <<c, d>>, NoGarbage)
    <3>1. d.start = Len(A) + 1
      BY <1>4, <2>2
    <3>2. /\ A \o Literals(Len(<<c>>) + 1, d.len) \in Seq(Nat)
          /\ ArenaOK(A \o Literals(Len(<<c>>) + 1, d.len), Append(<<c>>, d), NoGarbage)
      BY <1>3, <1>4, <2>1, <2>2, <2>3, <2>4, <3>1, ArenaLonger
    <3> QED
      BY <1>4, <2>4, <3>2
  <2> QED
    BY <1>1, <1>2, <1>5, <2>5 DEF A
<1>8. /\ written \in Seq(SUBSET Nat) /\ Len(written) = 2 /\ NamesOK
  <2>1. /\ Range(Literals(1, n)) = Named(1, n) /\ Named(1, n) \in SUBSET Nat
        /\ Range(Literals(2, 3)) = Named(2, 3) /\ Named(2, 3) \in SUBSET Nat
    BY <1>3, LiteralsFacts
  <2>2. written = <<Named(1, n), Named(2, 3)>>
    BY <1>1, <2>1
  <2>3. written[1] = Named(1, n) /\ written[2] = Named(2, 3)
    BY <2>2
  <2>4. written \in Seq(SUBSET Nat) /\ Len(written) = 2
    BY <2>1, <2>2
  <2> QED
    BY <1>4, <1>6, <2>3, <2>4 DEF NamesOK
<1>9. StorageTypeOK
  <2>1. ancestry \in Seq([sample : SUBSET Nat, repeated : BOOLEAN]) /\ Len(ancestry) = 2
    <3>1. NoAncestry \in [sample : SUBSET Nat, repeated : BOOLEAN]
      BY DEF NoAncestry
    <3> QED
      BY <1>2, <3>1
  <2>2. pivots \in Seq(SUBSET Nat) /\ Len(pivots) = 2 /\ \A i \in Ref : IsFiniteSet(pivots[i])
    BY <1>2, <1>6, FS_EmptySet
  <2>3. garbage \in GarbageRecord
    BY <1>2 DEF GarbageRecord, NoGarbage
  <2>4. /\ shadows \in Seq(Nat) /\ samples \in SUBSET Triple /\ offered \in SUBSET Triple
        /\ IsFiniteSet(offered) /\ reasons \in SUBSET Ref
    BY <1>2, EmptySeq, FS_EmptySet
  <2> QED
    BY <1>2, <1>6, <1>7, <1>8, <2>1, <2>2, <2>3, <2>4 DEF StorageTypeOK
<1>10. ReasonsOK
  BY <1>2 DEF ReasonsOK
<1>11. CountOK
  <2>1. Counting = {} /\ \A i \in Ref : ~Learned(i)
    BY <1>4, <1>6 DEF Counting, Learned
  <2> QED
    BY <1>2, <2>1, FS_EmptySet DEF CountOK
<1>12. ShadowsOK
  <2>1. \A i \in Ref : ~Shadow(i)
    BY <1>4, <1>6 DEF Shadow
  <2>2. Range(shadows) = {} /\ Len(shadows) = 0
    BY <1>2 DEF Range
  <2>3. Len(shadows) <= Capacity
    BY <2>2, StorageAssumption
  <2> QED
    BY <2>1, <2>2, <2>3 DEF ShadowsOK
<1>13. SamplesOK
  <2>1. samples = Least(offered, Capacity) /\ \A o \in offered : o[2] <= reductions
    BY <1>2 DEF Least
  <2>2. \A i \in Ref : ancestry[i].sample = Sampled(pivots[i])
    <3>1. Sampled({}) = {} /\ NoAncestry.sample = {}
      BY DEF Sampled, NoAncestry
    <3>2. \A i \in Ref : ancestry[i] = NoAncestry /\ pivots[i] = {}
      BY <1>2, <1>6
    <3> QED
      BY <3>1, <3>2
  <2> QED
    BY <2>1, <2>2 DEF SamplesOK
<1> QED
  BY <1>7, <1>8, <1>9, <1>10, <1>11, <1>12, <1>13 DEF StorageInv

\* The invariant holds in every reachable state.
THEOREM StorageStands == Spec => []StorageInv
<1>1. StorageInv /\ [Next]_vars => StorageInv'
  BY SimplifyKeeps, ConflictKeeps, BecomeReasonKeeps, BumpKeeps, ScanKeeps, DecayKeeps,
     TriggerKeeps, ReduceKeeps, RestartKeeps, GoOnKeeps, StutterKeeps DEF Next
<1> QED
  BY <1>1, InitGood, PTL DEF Spec

-----------------------------------------------------------------------------
(***************************************************************************)
(* The promises.                                                           *)
(***************************************************************************)

\* A clause that stands in the arena reads what was written for it.
LEMMA ReadsRight ==
  ASSUME StorageInv, NEW i \in Ref, Live(i) \/ ~config.compact
  PROVE  Read(i) = written[i]
<1>1. clauses[i] \in ClauseRecord /\ i \in DOMAIN clauses /\ i \in Nat
  BY Standing
<1>2. Stands(arena, clauses[i], i)
  BY <1>1 DEF StorageInv, ArenaOK, Live
<1>3. PICK a \in Nat, n \in Nat : a = clauses[i].start /\ n = clauses[i].len
  BY <1>1, HeldFacts
<1>4. \A k \in 1 .. n : arena[a + k - 1] = 10 * i + k
  BY <1>2, <1>3 DEF Stands
<1>5. Place(i) = a .. a + n - 1 /\ written[i] = Named(i, n)
  BY <1>3 DEF Place, StorageInv, NamesOK
<1>6. ASSUME NEW k \in a .. a + n - 1 PROVE arena[k] \in Named(i, n)
  <2>1. k - a + 1 \in 1 .. n /\ a + (k - a + 1) - 1 = k
    OBVIOUS
  <2>2. arena[k] = 10 * i + (k - a + 1)
    BY <1>4, <2>1
  <2> QED
    BY <2>1, <2>2 DEF Named
<1>7. ASSUME NEW k \in 1 .. n PROVE 10 * i + k \in {arena[m] : m \in a .. a + n - 1}
  <2>1. a + k - 1 \in a .. a + n - 1
    OBVIOUS
  <2>2. arena[a + k - 1] = 10 * i + k
    BY <1>4
  <2> QED
    BY <2>1, <2>2
<1>8. {arena[m] : m \in a .. a + n - 1} = Named(i, n)
  BY <1>6, <1>7 DEF Named
<1> QED
  BY <1>5, <1>8 DEF Read

\* StoreExact, for every configuration: every live clause reads what was written
\* for it, however often compact_clause_arena moved it; the gaps are those that
\* arena_garbage_literals counts; no reason is deleted or put under observation;
\* and active_learned_clauses is exact.
THEOREM ClausesSurvive == Spec => []StoreExact
<1>1. StorageInv => StoreExact
  <2> SUFFICES ASSUME StorageInv PROVE StoreExact
    OBVIOUS
  <2>1. \A i \in Ref : Live(i) \/ ~config.compact => Read(i) = written[i]
    BY ReadsRight
  <2>2. Gaps = GapsOf(arena, clauses)
    <3>1. LiveIn(clauses) = {i \in Ref : Live(i)}
      BY Standing
    <3>2. \A i : Held(clauses[i]) = Place(i)
      BY DEF Held, Place
    <3> QED
      BY <3>1, <3>2 DEF Gaps, GapsOf
  <2>3. config.compact => Cardinality(Gaps) = garbage.literals
    BY <2>2 DEF StorageInv, ArenaOK
  <2>4. \A i \in reasons : Live(i) /\ ~Shadow(i)
    BY DEF StorageInv, ReasonsOK
  <2>5. active = Cardinality({i \in Ref : Learned(i) /\ Live(i) /\ ~Shadow(i)})
    BY DEF StorageInv, CountOK, Counting
  <2> QED
    BY <2>1, <2>3, <2>4, <2>5 DEF StoreExact
<1> QED
  BY <1>1, StorageStands, PTL

\* SamplesExact, for every configuration: offer_counterfactual_phase_sample and
\* the sketches of derivations keep the least of all they were shown, in whatever
\* order, and the shadow clauses are those listed, within SHADOW_CAPACITY.
THEOREM SamplesAreLeast == Spec => []SamplesExact
<1>1. StorageInv => SamplesExact
  <2> SUFFICES ASSUME StorageInv PROVE SamplesExact
    OBVIOUS
  <2>1. /\ samples = Least(offered, Capacity)
        /\ \A i \in Ref : Policy = "nonregular" => ancestry[i].sample = Sampled(pivots[i])
    BY DEF StorageInv, SamplesOK
  <2>2. /\ Len(shadows) <= Capacity /\ Range(shadows) = {i \in Ref : Shadow(i)}
        /\ \A i \in Range(shadows) : Live(i)
    BY DEF StorageInv, ShadowsOK
  <2> QED
    BY <2>1, <2>2 DEF SamplesExact
<1> QED
  BY <1>1, StorageStands, PTL
=============================================================================
