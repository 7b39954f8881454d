--------------------------- MODULE BranchingProofs ---------------------------
(***************************************************************************)
(* What Branching promises, for every number of variables and every        *)
(* strategy: no free variable is lost to any order, the heaps stay heaps,  *)
(* and the queue stays a list of all variables with rising stamps.         *)
(***************************************************************************)
EXTENDS Branching, FiniteSetTheorems, SequenceTheorems, WellFoundedInduction, TLAPS
-----------------------------------------------------------------------------
(***************************************************************************)
(* Induction along a sequence.                                             *)
(***************************************************************************)

\* A nonempty set of natural numbers has a least element.
LEMMA LeastNat ==
  ASSUME NEW T \in SUBSET Nat, T # {}
  PROVE  \E x \in T : \A y \in T : x <= y
<1> DEFINE R == OpToRel(<, Nat)
<1>1. IsWellFoundedOn(R, Nat)
  BY NatLessThanWellFounded
<1>2. \A y, x \in Nat : <<y, x>> \in R <=> y < x
  BY DEF OpToRel
<1> HIDE DEF R
<1>3. PICK x \in T : \A y \in T : <<y, x>> \notin R
  BY <1>1, WFMin
<1>4. \A y \in T : ~ (y < x)
  BY <1>2, <1>3
<1> QED
  BY <1>4

\* What holds at m and passes from each number below n to the next holds up to n.
LEMMA UpTo ==
  ASSUME NEW m \in Nat, NEW n \in Nat, NEW T \in SUBSET (m .. n), m \in T,
         \A k \in m .. n - 1 : k \in T => k + 1 \in T
  PROVE  \A k \in m .. n : k \in T
<1> DEFINE Rest == (m .. n) \ T
<1>1. CASE Rest = {}
  BY <1>1
<1>2. CASE Rest # {}
  <2>1. PICK k \in Rest : \A j \in Rest : k <= j
    <3>1. Rest \in SUBSET Nat
      OBVIOUS
    <3> HIDE DEF Rest
    <3> QED
      BY <1>2, <3>1, LeastNat
  <2>2. k # m /\ k - 1 \in m .. n - 1 /\ k - 1 + 1 = k
    BY <2>1
  <2>3. k - 1 \in T
    BY <2>1, <2>2
  <2> QED
    BY <2>1, <2>2, <2>3
<1> QED
  BY <1>1, <1>2

\* The values of a recursive function on 0 .. n.
IsChain(g, n, a, step) ==
  g = [k \in 0 .. n |-> IF k = 0 THEN a ELSE step[k][g[k - 1]]]
IsStep(step, n, S) == step \in [1 .. n -> [S -> S]]

\* A function may be defined from 0 upwards.
LEMMA Recursion ==
  ASSUME NEW n \in Nat, NEW S, NEW a \in S, NEW step, IsStep(step, n, S)
  PROVE  \E g \in [0 .. n -> S] : IsChain(g, n, a, step)
<1> DEFINE Until(k, g) == /\ g[0] = a
                          /\ \A i \in 1 .. k : g[i] = step[i][g[i - 1]]
           T == {k \in 0 .. n : \E g \in [0 .. k -> S] : Until(k, g)}
<1>1. 0 \in T
  <2>1. [i \in 0 .. 0 |-> a] \in [0 .. 0 -> S]
    OBVIOUS
  <2>2. Until(0, [i \in 0 .. 0 |-> a])
    OBVIOUS
  <2> HIDE DEF Until
  <2> QED
    BY <2>1, <2>2
<1>2. ASSUME NEW k \in 0 .. n - 1, k \in T PROVE k + 1 \in T
  <2>1. PICK g \in [0 .. k -> S] : Until(k, g)
    BY <1>2
  <2> DEFINE h == [i \in 0 .. k + 1 |-> IF i = k + 1 THEN step[i][g[k]] ELSE g[i]]
  <2>2. g[k] \in S /\ k + 1 \in 1 .. n
    OBVIOUS
  <2>3. step[k + 1][g[k]] \in S
    BY <2>2 DEF IsStep
  <2>4. h \in [0 .. k + 1 -> S]
    BY <2>3
  <2>5. Until(k + 1, h)
    <3>1. h[0] = a
      BY <2>1
    <3>2. ASSUME NEW i \in 1 .. k + 1 PROVE h[i] = step[i][h[i - 1]]
      <4>1. i - 1 \in 0 .. k /\ h[i - 1] = g[i - 1]
        OBVIOUS
      <4>2. CASE i = k + 1
        <5>1. i - 1 = k
          BY <4>2
        <5> QED
          BY <4>1, <4>2, <5>1
      <4>3. CASE i # k + 1
        BY <2>1, <4>1, <4>3
      <4> QED
        BY <4>2, <4>3
    <3> QED
      BY <3>1, <3>2
  <2> HIDE DEF Until, h
  <2> QED
    BY <2>2, <2>4, <2>5
<1>3. n \in T
  <2> HIDE DEF T
  <2>1. T \in SUBSET (0 .. n)
    BY DEF T
  <2>2. \A k \in 0 .. n : k \in T
    BY <1>1, <1>2, <2>1, UpTo
  <2> QED
    BY <2>2
<1>4. PICK g \in [0 .. n -> S] : Until(n, g)
  BY <1>3
<1>5. g = [k \in 0 .. n |-> IF k = 0 THEN a ELSE step[k][g[k - 1]]]
  BY <1>4
<1> QED
  BY <1>4, <1>5 DEF IsChain

\* The members of a finite set are listed once each.
LEMMA SetToSeqFacts ==
  ASSUME NEW D, IsFiniteSet(D)
  PROVE  LET s == SetToSeq(D)
         IN  /\ s \in Seq(D) /\ Len(s) = Cardinality(D) /\ Len(s) \in Nat
             /\ \A i \in 1 .. Len(s) : s[i] \in D
             /\ \A i, j \in 1 .. Len(s) : s[i] = s[j] => i = j
             /\ \A x \in D : \E i \in 1 .. Len(s) : s[i] = x
             /\ Range(s) = D
<1> DEFINE n == Cardinality(D)
           s == SetToSeq(D)
<1>1. PICK f : f \in Bijection(1 .. n, D)
  BY FS_CardinalityType DEF ExistsBijection
<1>2. f \in [1 .. n -> D] /\ IsInjective(f)
  BY <1>1 DEF Bijection, Injection
<1>3. s \in [1 .. n -> D] /\ IsInjective(s)
  BY <1>2 DEF SetToSeq
<1>4. n \in Nat
  BY FS_CardinalityType
<1>5. IsFiniteSet(1 .. n) /\ Cardinality(1 .. n) = n
  BY <1>4, FS_Interval
<1>6. s \in Injection(1 .. n, D)
  BY <1>3 DEF Injection
<1>7. s \in Surjection(1 .. n, D)
  <2> HIDE DEF n, s
  <2> QED
    BY <1>5, <1>6, FS_Injection DEF n
<1> HIDE DEF s
<1>8. \A x \in D : \E i \in 1 .. n : s[i] = x
  BY <1>7 DEF Surjection
<1>9. s \in Seq(D) /\ Len(s) = n /\ DOMAIN s = 1 .. n
  BY <1>3, <1>4
<1>10. \A i, j \in 1 .. n : s[i] = s[j] => i = j
  BY <1>3, <1>9 DEF IsInjective
<1>11. Range(s) = D
  BY <1>3, <1>8, <1>9 DEF Range
<1> QED
  BY <1>3, <1>4, <1>8, <1>9, <1>10, <1>11 DEF s

\* A loop of n turns that goes from S[k - 1] to S[k] can be defined.
LEMMA Folding ==
  ASSUME NEW n \in Nat, NEW U, NEW S \in [0 .. n -> SUBSET U], NEW a \in S[0],
         NEW step \in [1 .. n -> [U -> U]],
         \A k \in 1 .. n : \A x \in S[k - 1] : step[k][x] \in S[k]
  PROVE  \E g : IsChain(g, n, a, step) /\ \A k \in 0 .. n : g[k] \in S[k]
<1>1. 0 \in 0 .. n /\ S[0] \in SUBSET U /\ IsStep(step, n, U)
  BY DEF IsStep
<1>2. a \in U
  BY <1>1
<1>3. PICK g \in [0 .. n -> U] : IsChain(g, n, a, step)
  BY <1>1, <1>2, Recursion
<1>4. \A k \in 0 .. n : g[k] = IF k = 0 THEN a ELSE step[k][g[k - 1]]
  BY <1>3 DEF IsChain
<1> DEFINE T == {k \in 0 .. n : g[k] \in S[k]}
<1>5. 0 \in T
  BY <1>1, <1>4
<1>6. ASSUME NEW k \in 0 .. n - 1, k \in T PROVE k + 1 \in T
  <2>1. k + 1 \in 1 .. n /\ k + 1 \in 0 .. n /\ k + 1 - 1 = k /\ k + 1 # 0
    OBVIOUS
  <2>2. g[k + 1] = step[k + 1][g[k]]
    BY <1>4, <2>1
  <2> QED
    BY <1>6, <2>1, <2>2
<1>7. \A k \in 0 .. n : k \in T
  <2>1. T \in SUBSET (0 .. n)
    OBVIOUS
  <2> HIDE DEF T
  <2> QED
    BY <1>5, <1>6, <2>1, UpTo
<1> QED
  BY <1>3, <1>7

\* What such a loop comes by.
LEMMA Turns ==
  ASSUME NEW n \in Nat, NEW S, NEW g, g[0] \in S[0],
         \A k \in 1 .. n : g[k - 1] \in S[k - 1] => g[k] \in S[k]
  PROVE  \A k \in 0 .. n : g[k] \in S[k]
<1> DEFINE T == {k \in 0 .. n : g[k] \in S[k]}
<1>1. T \in SUBSET (0 .. n) /\ 0 \in T
  OBVIOUS
<1>2. ASSUME NEW k \in 0 .. n - 1, k \in T PROVE k + 1 \in T
  <2>1. k + 1 \in 1 .. n /\ k + 1 \in 0 .. n /\ k + 1 - 1 = k
    OBVIOUS
  <2> QED
    BY <1>2, <2>1
<1>3. \A k \in 0 .. n : k \in T
  <2> HIDE DEF T
  <2> QED
    BY <1>1, <1>2, UpTo
<1> QED
  BY <1>3
-----------------------------------------------------------------------------
(***************************************************************************)
(* Heaps.                                                                  *)
(***************************************************************************)
HeapSet == [heap : Seq(Var), pos : [Var -> Nat]]
HeapOK(h) == h \in HeapSet /\ Positioned(h)
Members(h) == {x \in Var : h.pos[x] # 0}
Activities == [Var -> Nat]

\* The heap as far as the loops of sifting keep it.
Kin(h, g) == HeapOK(g) /\ Len(g.heap) = Len(h.heap) /\ Members(g) = Members(h)

\* A heap but for the place i, whose variable may be too good, or too bad.
UpTo1(h, i, act) ==
  /\ \A j \in 2 .. Len(h.heap) : j # i => ~Higher(h.heap[j], h.heap[j \div 2], act)
  /\ i >= 2 => \A j \in 2 .. Len(h.heap) : j \div 2 = i =>
                 ~Higher(h.heap[j], h.heap[i \div 2], act)
DownTo1(h, i, act) ==
  /\ \A j \in 2 .. Len(h.heap) : j \div 2 # i => ~Higher(h.heap[j], h.heap[j \div 2], act)
  /\ i >= 2 => \A j \in 2 .. Len(h.heap) : j \div 2 = i =>
                 ~Higher(h.heap[j], h.heap[i \div 2], act)

\* Higher is a strict order of all variables.
LEMMA HigherFacts ==
  ASSUME NEW act \in Activities
  PROVE  /\ \A x \in Var : ~Higher(x, x, act)
         /\ \A x, y \in Var : Higher(x, y, act) => ~Higher(y, x, act)
         /\ \A x, y, z \in Var :
              ~Higher(x, y, act) /\ ~Higher(y, z, act) => ~Higher(x, z, act)
<1>1. \A x \in Var : act[x] \in Nat /\ x \in Int
  BY DEF Activities, Var
<1> QED
  BY <1>1 DEF Higher

\* A heap has its variables at their positions.
LEMMA HeapFacts ==
  ASSUME NEW h, HeapOK(h)
  PROVE  /\ h = [heap |-> h.heap, pos |-> h.pos]
         /\ Len(h.heap) \in Nat /\ DOMAIN h.heap = 1 .. Len(h.heap)
         /\ h.heap \in Seq(Var) /\ h.pos \in [Var -> Nat]
         /\ \A i \in 1 .. Len(h.heap) : h.heap[i] \in Var /\ h.pos[h.heap[i]] = i
         /\ \A i, j \in 1 .. Len(h.heap) : h.heap[i] = h.heap[j] => i = j
         /\ \A x \in Var : x \in Members(h) <=> \E i \in 1 .. Len(h.heap) : h.heap[i] = x
         /\ \A x \in Members(h) : h.pos[x] \in 1 .. Len(h.heap) /\ h.heap[h.pos[x]] = x
<1>1. h.heap \in Seq(Var) /\ h.pos \in [Var -> Nat] /\ h = [heap |-> h.heap, pos |-> h.pos]
  BY DEF HeapOK, HeapSet
<1>2. Len(h.heap) \in Nat /\ DOMAIN h.heap = 1 .. Len(h.heap)
      /\ \A i \in 1 .. Len(h.heap) : h.heap[i] \in Var
  BY <1>1, LenProperties
<1>3. \A i \in 1 .. Len(h.heap) : h.pos[h.heap[i]] = i
  BY DEF HeapOK, Positioned
<1>4. \A x \in Members(h) : h.pos[x] \in 1 .. Len(h.heap) /\ h.heap[h.pos[x]] = x
  <2> TAKE x \in Members(h)
  <2>1. x \in Var /\ h.pos[x] # 0 /\ h.pos[x] \in Nat
    BY <1>1 DEF Members
  <2>2. h.pos[x] <= Len(h.heap) /\ h.heap[h.pos[x]] = x
    BY <2>1 DEF HeapOK, Positioned
  <2> QED
    BY <1>2, <2>1, <2>2
<1>5. \A x \in Var : x \in Members(h) <=> \E i \in 1 .. Len(h.heap) : h.heap[i] = x
  <2> TAKE x \in Var
  <2>1. ASSUME NEW i \in 1 .. Len(h.heap), h.heap[i] = x PROVE x \in Members(h)
    BY <1>2, <1>3, <2>1 DEF Members
  <2> QED
    BY <1>4, <2>1
<1> QED
  BY <1>1, <1>2, <1>3, <1>4, <1>5

\* Two variables change places.
LEMMA SwapFacts ==
  ASSUME NEW h, HeapOK(h), NEW i \in 1 .. Len(h.heap), NEW j \in 1 .. Len(h.heap), i # j
  PROVE  LET g == Swapped(h, i, j)
         IN  /\ HeapOK(g) /\ Len(g.heap) = Len(h.heap) /\ Members(g) = Members(h)
             /\ g.heap[i] = h.heap[j] /\ g.heap[j] = h.heap[i]
             /\ \A k \in 1 .. Len(h.heap) : k # i /\ k # j => g.heap[k] = h.heap[k]
<1> DEFINE g == Swapped(h, i, j)
           n == Len(h.heap)
           x == h.heap[i]
           y == h.heap[j]
<1>1. /\ n \in Nat /\ h.heap \in Seq(Var) /\ h.pos \in [Var -> Nat] /\ DOMAIN h.heap = 1 .. n
      /\ \A k \in 1 .. n : h.heap[k] \in Var /\ h.pos[h.heap[k]] = k
      /\ \A k, l \in 1 .. n : h.heap[k] = h.heap[l] => k = l
      /\ \A z \in Members(h) : h.pos[z] \in 1 .. n /\ h.heap[h.pos[z]] = z
  BY HeapFacts
<1>2. x \in Var /\ y \in Var /\ x # y
  BY <1>1
<1>3. g = [heap |-> [h.heap EXCEPT ![i] = y, ![j] = x],
           pos |-> [h.pos EXCEPT ![x] = j, ![y] = i]]
  BY DEF Swapped
<1>4. /\ g.heap = [h.heap EXCEPT ![i] = y, ![j] = x]
      /\ g.pos = [h.pos EXCEPT ![x] = j, ![y] = i]
  BY <1>3
<1> HIDE DEF g
<1>5. /\ g.heap \in Seq(Var) /\ Len(g.heap) = n
      /\ \A k \in 1 .. n : g.heap[k] = IF k = j THEN x ELSE IF k = i THEN y ELSE h.heap[k]
  <2> DEFINE s == [h.heap EXCEPT ![i] = y]
  <2>1. s \in Seq(Var) /\ Len(s) = n /\ \A k \in 1 .. n : s[k] = IF k = i THEN y ELSE h.heap[k]
    BY <1>1, <1>2, ExceptSeq
  <2>2. g.heap = [s EXCEPT ![j] = x]
    BY <1>4
  <2> HIDE DEF s
  <2> QED
    BY <1>2, <2>1, <2>2, ExceptSeq
<1>6. /\ g.pos \in [Var -> Nat]
      /\ \A z \in Var : g.pos[z] = IF z = y THEN i ELSE IF z = x THEN j ELSE h.pos[z]
  <2> DEFINE p == [h.pos EXCEPT ![x] = j]
  <2>1. i \in Nat /\ j \in Nat /\ g.pos = [p EXCEPT ![y] = i]
    BY <1>1, <1>4
  <2> HIDE DEF x, y
  <2>2. p \in [Var -> Nat] /\ \A z \in Var : p[z] = IF z = x THEN j ELSE h.pos[z]
    BY <1>1, <1>2, <2>1
  <2> HIDE DEF p
  <2> QED
    BY <1>2, <2>1, <2>2
<1>7. \A k \in 1 .. n : g.pos[g.heap[k]] = k
  <2> TAKE k \in 1 .. n
  <2>1. g.heap[k] \in Var /\ h.heap[k] \in Var /\ h.pos[h.heap[k]] = k
    BY <1>1, <1>2, <1>5
  <2>2. CASE k = j
    BY <1>2, <1>5, <1>6, <2>2
  <2>3. CASE k = i
    BY <1>2, <1>5, <1>6, <2>3
  <2>4. CASE k # i /\ k # j
    <3>1. h.heap[k] # x /\ h.heap[k] # y
      BY <1>1, <2>4
    <3> QED
      BY <1>5, <1>6, <2>1, <2>4, <3>1
  <2> QED
    BY <2>2, <2>3, <2>4
<1>8. \A z \in Var : g.pos[z] # 0 => g.pos[z] <= n /\ g.heap[g.pos[z]] = z
  <2> SUFFICES ASSUME NEW z \in Var, g.pos[z] # 0 PROVE g.pos[z] <= n /\ g.heap[g.pos[z]] = z
    OBVIOUS
  <2>1. CASE z = y
    BY <1>2, <1>5, <1>6, <2>1
  <2>2. CASE z = x
    BY <1>2, <1>5, <1>6, <2>2
  <2>3. CASE z # x /\ z # y
    <3>1. z \in Members(h) /\ g.pos[z] = h.pos[z]
      BY <1>6, <2>3 DEF Members
    <3>2. h.pos[z] \in 1 .. n /\ h.heap[h.pos[z]] = z
      BY <1>1, <3>1
    <3>3. h.pos[z] # i /\ h.pos[z] # j
      BY <2>3, <3>2
    <3> QED
      BY <1>5, <3>1, <3>2, <3>3
  <2> QED
    BY <2>1, <2>2, <2>3
<1>9. HeapOK(g)
  <2>1. g \in HeapSet
    BY <1>3, <1>4, <1>5, <1>6 DEF HeapSet
  <2> QED
    BY <1>5, <1>7, <1>8, <2>1 DEF HeapOK, Positioned
<1>10. Members(g) = Members(h)
  <2>1. h.pos[x] # 0 /\ h.pos[y] # 0
    BY <1>1
  <2>2. \A z \in Var : g.pos[z] # 0 <=> h.pos[z] # 0
    BY <1>6, <2>1
  <2> QED
    BY <2>2 DEF Members
<1> QED
  BY <1>2, <1>5, <1>9, <1>10 DEF g

-----------------------------------------------------------------------------
(***************************************************************************)
(* Sifting.                                                                *)
(***************************************************************************)
Settled(s, act) == s.at = 1 \/ ~Higher(s.h.heap[s.at], s.h.heap[s.at \div 2], act)
Sunk(s, act) == \/ 2 * s.at > Len(s.h.heap)
                \/ ~Higher(s.h.heap[BestChild(s, act)], s.h.heap[s.at], act)

\* A place and its parent.
LEMMA Parent ==
  ASSUME NEW j \in Nat
  PROVE  /\ j >= 2 => j \div 2 \in Nat /\ 1 <= j \div 2 /\ j \div 2 < j
         /\ \A i \in Nat : j \div 2 = i <=> j = 2 * i \/ j = 2 * i + 1
  OBVIOUS

\* One turn up: what is above the variable comes down.
LEMMA RaisedFacts ==
  ASSUME NEW act \in Activities, NEW h, HeapOK(h), NEW i \in 2 .. Len(h.heap),
         Higher(h.heap[i], h.heap[i \div 2], act)
  PROVE  LET g == Swapped(h, i, i \div 2)
         IN  /\ HeapOK(g) /\ Len(g.heap) = Len(h.heap) /\ Members(g) = Members(h)
             /\ UpTo1(h, i, act) => UpTo1(g, i \div 2, act)
<1> DEFINE p == i \div 2
           g == Swapped(h, i, p)
           n == Len(h.heap)
<1>1. n \in Nat /\ \A k \in 1 .. n : h.heap[k] \in Var
  BY HeapFacts
<1>2. i \in Nat /\ i >= 2 /\ i \in 1 .. n /\ p \in Nat /\ 1 <= p /\ p < i /\ p \in 1 .. n
  BY <1>1, Parent
<1>3. /\ HeapOK(g) /\ Len(g.heap) = n /\ Members(g) = Members(h)
      /\ g.heap[i] = h.heap[p] /\ g.heap[p] = h.heap[i]
      /\ \A k \in 1 .. n : k # i /\ k # p => g.heap[k] = h.heap[k]
  BY <1>2, SwapFacts
<1>4. Higher(h.heap[i], h.heap[p], act)
  OBVIOUS
<1>5. /\ \A j \in 2 .. n : j \in Nat /\ j \in 1 .. n /\ j \div 2 \in Nat /\ j \div 2 \in 1 .. n /\ j \div 2 < j
      /\ \A j \in 2 .. n : j \div 2 \in Nat
  BY <1>1, Parent
<1> HIDE DEF g, n
<1>6. ASSUME UpTo1(h, i, act) PROVE UpTo1(g, p, act)
  <2>1. /\ \A j \in 2 .. n : j # i => ~Higher(h.heap[j], h.heap[j \div 2], act)
        /\ \A j \in 2 .. n : j \div 2 = i => ~Higher(h.heap[j], h.heap[p], act)
    BY <1>2, <1>6 DEF UpTo1, n
  <2>2. i = i /\ i \div 2 = p
    OBVIOUS
  <2> HIDE DEF p
  <2>3. /\ \A x, y \in Var : Higher(x, y, act) => ~Higher(y, x, act)
        /\ \A x, y, z \in Var : ~Higher(x, y, act) /\ ~Higher(y, z, act) => ~Higher(x, z, act)
    BY HigherFacts
  <2>4. h.heap[i] \in Var /\ h.heap[p] \in Var /\ ~Higher(h.heap[p], h.heap[i], act)
    BY <1>1, <1>2, <1>4, <2>3 DEF n
  <2>5. ASSUME NEW j \in 2 .. n, j # p PROVE ~Higher(g.heap[j], g.heap[j \div 2], act)
    <3>1. /\ j \in Nat /\ j \in 1 .. n /\ j \div 2 \in 1 .. n /\ j \div 2 < j /\ j \div 2 \in Nat
          /\ h.heap[j] \in Var /\ h.heap[j \div 2] \in Var
      BY <1>1, <1>5 DEF n
    <3>2. CASE j = i
      BY <1>3, <2>2, <2>4, <3>2
    <3>3. CASE j # i /\ j \div 2 = i
      <4>1. g.heap[j] = h.heap[j] /\ g.heap[j \div 2] = h.heap[p]
        BY <1>3, <2>5, <3>1, <3>3
      <4> QED
        BY <2>1, <3>3, <4>1
    <3>4. CASE j # i /\ j \div 2 = p
      <4>1. g.heap[j] = h.heap[j] /\ g.heap[j \div 2] = h.heap[i]
        BY <1>3, <2>5, <3>1, <3>4
      <4>2. ~Higher(h.heap[j], h.heap[p], act)
        BY <2>1, <3>4
      <4> QED
        BY <2>3, <2>4, <3>1, <4>1, <4>2
    <3>5. CASE j # i /\ j \div 2 # i /\ j \div 2 # p
      <4>1. g.heap[j] = h.heap[j] /\ g.heap[j \div 2] = h.heap[j \div 2]
        BY <1>3, <2>5, <3>1, <3>5
      <4> QED
        BY <2>1, <3>5, <4>1
    <3> QED
      BY <3>2, <3>3, <3>4, <3>5
  <2>6. ASSUME p >= 2, NEW j \in 2 .. n, j \div 2 = p
        PROVE  ~Higher(g.heap[j], g.heap[p \div 2], act)
    <3>1. p \in 2 .. n
      BY <1>2, <2>6
    <3>2. p \div 2 \in 1 .. n /\ p \div 2 < p
      BY <1>5, <3>1
    <3>3. g.heap[p \div 2] = h.heap[p \div 2]
      BY <1>2, <1>3, <3>2
    <3>4. ~Higher(h.heap[p], h.heap[p \div 2], act)
      BY <1>2, <2>1, <3>1
    <3>5. CASE j = i
      BY <1>3, <3>3, <3>4, <3>5
    <3>6. CASE j # i
      <4>1. j \in 1 .. n /\ p < j /\ j # p
        BY <1>2, <1>5, <2>6
      <4>2. g.heap[j] = h.heap[j] /\ h.heap[j] \in Var /\ h.heap[p \div 2] \in Var
        BY <1>1, <1>3, <3>2, <3>6, <4>1 DEF n
      <4>3. ~Higher(h.heap[j], h.heap[p], act)
        BY <2>1, <2>6, <3>6
      <4> QED
        BY <2>3, <2>4, <3>3, <3>4, <4>2, <4>3
    <3> QED
      BY <3>5, <3>6
  <2> QED
    BY <1>3, <2>5, <2>6 DEF UpTo1
<1> QED
  BY <1>3, <1>6 DEF g, n

\* One turn down: the better child goes up.
LEMMA LoweredFacts ==
  ASSUME NEW act \in Activities, NEW s, HeapOK(s.h), NEW i \in 1 .. Len(s.h.heap), s.at = i,
         ~Sunk(s, act)
  PROVE  LET c == BestChild(s, act)
             g == Swapped(s.h, i, c)
         IN  /\ c \in Nat /\ c > i /\ c <= Len(s.h.heap)
             /\ HeapOK(g) /\ Len(g.heap) = Len(s.h.heap) /\ Members(g) = Members(s.h)
             /\ DownTo1(s.h, i, act) => DownTo1(g, c, act)
<1> DEFINE c == BestChild(s, act)
           h == s.h
           g == Swapped(h, i, c)
           n == Len(h.heap)
<1>1. n \in Nat /\ i \in Nat /\ i >= 1 /\ \A k \in 1 .. n : h.heap[k] \in Var
  BY HeapFacts
<1>2. 2 * i <= n /\ Higher(h.heap[c], h.heap[i], act)
  BY <1>1 DEF Sunk
<1>3. c = IF 2 * i < n /\ Higher(h.heap[2 * i + 1], h.heap[2 * i], act) THEN 2 * i + 1 ELSE 2 * i
  BY DEF BestChild
<1>4. c \in Nat /\ c > i /\ c <= n /\ (c = 2 * i \/ c = 2 * i + 1) /\ c \in 1 .. n /\ c >= 2
  BY <1>1, <1>2, <1>3
<1>5. c \div 2 = i
  BY <1>1, <1>4, Parent
<1>6. /\ HeapOK(g) /\ Len(g.heap) = n /\ Members(g) = Members(h)
      /\ g.heap[i] = h.heap[c] /\ g.heap[c] = h.heap[i]
      /\ \A k \in 1 .. n : k # i /\ k # c => g.heap[k] = h.heap[k]
  <2> HIDE DEF c
  <2>1. c # i /\ i \in 1 .. n
    BY <1>1, <1>4
  <2> QED
    BY <1>4, <2>1, SwapFacts
<1>7. \A j \in 2 .. n : /\ j \in Nat /\ j \in 1 .. n /\ j \div 2 \in Nat /\ j \div 2 \in 1 .. n
                        /\ j \div 2 < j
  <2> HIDE DEF n
  <2> QED
    BY <1>1, Parent
<1>8. \A x, y \in Var : Higher(x, y, act) => ~Higher(y, x, act)
  BY HigherFacts
<1>9. ASSUME NEW j \in 2 .. n, j \div 2 = i, j # c PROVE ~Higher(h.heap[j], h.heap[c], act)
  <2>1. j = 2 * i \/ j = 2 * i + 1
    BY <1>1, <1>7, <1>9, Parent
  <2>2. CASE c = 2 * i
    <3>1. j = 2 * i + 1 /\ 2 * i < n
      BY <1>1, <1>9, <2>1, <2>2
    <3>2. c # 2 * i + 1
      BY <1>1, <2>2
    <3> QED
      BY <1>3, <2>2, <3>1, <3>2
  <2>3. CASE c = 2 * i + 1
    <3>1. j = 2 * i
      BY <1>9, <2>1, <2>3
    <3>2. c # 2 * i
      BY <1>1, <2>3
    <3>3. Higher(h.heap[c], h.heap[j], act)
      BY <1>3, <2>3, <3>1, <3>2
    <3>4. h.heap[c] \in Var /\ h.heap[j] \in Var
      BY <1>1, <1>4, <1>7
    <3> QED
      BY <1>8, <3>3, <3>4
  <2> QED
    BY <1>4, <2>2, <2>3
<1> HIDE DEF g, n, c
<1>10. ASSUME DownTo1(h, i, act) PROVE DownTo1(g, c, act)
  <2>1. /\ \A j \in 2 .. n : j \div 2 # i => ~Higher(h.heap[j], h.heap[j \div 2], act)
        /\ i >= 2 => \A j \in 2 .. n : j \div 2 = i => ~Higher(h.heap[j], h.heap[i \div 2], act)
    BY <1>10 DEF DownTo1, n
  <2>2. h.heap[c] \in Var /\ h.heap[i] \in Var /\ ~Higher(h.heap[i], h.heap[c], act)
    BY <1>1, <1>2, <1>4, <1>8 DEF n
  <2>3. ASSUME NEW j \in 2 .. n, j \div 2 # c PROVE ~Higher(g.heap[j], g.heap[j \div 2], act)
    <3>1. j \in Nat /\ j \in 1 .. n /\ j \div 2 \in 1 .. n /\ j \div 2 < j /\ j \div 2 \in Nat
      BY <1>7
    <3>2. CASE j = c
      BY <1>5, <1>6, <2>2, <3>2
    <3>3. CASE j # c /\ j \div 2 = i
      <4>1. j # i
        BY <1>1, <3>1, <3>3
      <4>2. g.heap[j] = h.heap[j] /\ g.heap[j \div 2] = h.heap[c]
        BY <1>6, <3>1, <3>3, <4>1
      <4> QED
        BY <1>9, <3>3, <4>2
    <3>4. CASE j = i
      <4>1. i >= 2 /\ j \div 2 # i /\ j \div 2 \in 1 .. n
        BY <1>1, <3>1, <3>4
      <4>2. g.heap[j] = h.heap[c] /\ g.heap[j \div 2] = h.heap[j \div 2]
        BY <1>6, <2>3, <3>4, <4>1
      <4>3. c \in 2 .. n
        BY <1>1, <1>4 DEF n
      <4> QED
        BY <1>5, <2>1, <3>4, <4>1, <4>2, <4>3
    <3>5. CASE j # c /\ j \div 2 # i /\ j # i
      <4>1. g.heap[j] = h.heap[j] /\ g.heap[j \div 2] = h.heap[j \div 2]
        BY <1>6, <2>3, <3>1, <3>5
      <4> QED
        BY <2>1, <3>5, <4>1
    <3> QED
      BY <3>2, <3>3, <3>4, <3>5
  <2>4. ASSUME NEW j \in 2 .. n, j \div 2 = c PROVE ~Higher(g.heap[j], g.heap[c \div 2], act)
    <3>1. j \in Nat /\ j \in 1 .. n /\ c < j /\ c \in Nat /\ i < c
      BY <1>4, <1>7, <2>4
    <3>2. j # i /\ j # c
      BY <1>1, <3>1
    <3>3. g.heap[j] = h.heap[j] /\ g.heap[c \div 2] = h.heap[c]
      BY <1>5, <1>6, <3>1, <3>2
    <3>4. c # i
      BY <1>1, <3>1
    <3> QED
      BY <2>1, <2>4, <3>3, <3>4
  <2> QED
    BY <1>6, <2>3, <2>4 DEF DownTo1
<1> QED
  BY <1>4, <1>6, <1>10 DEF g, n, c

LEMMA SiftUpFacts ==
  ASSUME NEW act \in Activities, NEW h, HeapOK(h), NEW i \in 1 .. Len(h.heap)
  PROVE  /\ Kin(h, SiftUp(h, i, act))
         /\ UpTo1(h, i, act) => Ordered(SiftUp(h, i, act), act)
<1> DEFINE n == Len(h.heap)
           U == [h : HeapSet, at : Nat]
           Good(k, s) == /\ Kin(h, s.h) /\ s.at \in 1 .. n
                         /\ UpTo1(h, i, act) => UpTo1(s.h, s.at, act)
                         /\ s.at + k <= n \/ Settled(s, act)
           S == [k \in 0 .. n |-> {s \in U : Good(k, s)}]
           a == [h |-> h, at |-> i]
           Is(g) == g = [k \in 0 .. n |-> IF k = 0 THEN a ELSE Raised(g[k - 1], act)]
           up == CHOOSE g : Is(g)
           step == [k \in 1 .. n |-> [s \in U |-> IF Raised(s, act) \in U THEN Raised(s, act) ELSE s]]
<1>1. SiftUp(h, i, act) = up[n].h
  BY DEF SiftUp
<1>2. n \in Nat /\ i \in Nat /\ h \in HeapSet /\ n \in 0 .. n /\ 0 \in 0 .. n
  BY HeapFacts DEF HeapOK
<1>3. a \in S[0]
  <2>1. a.h = h /\ a.at = i /\ a \in U
    BY <1>2
  <2>2. Good(0, a)
    BY <1>2, <2>1 DEF Kin
  <2> HIDE DEF a, U, Good
  <2> QED
    BY <1>2, <2>1, <2>2
<1>4. ASSUME NEW k \in 1 .. n, NEW s \in S[k - 1] PROVE Raised(s, act) \in S[k]
  <2>1. k - 1 \in 0 .. n /\ k \in 0 .. n /\ k \in Nat
    BY <1>2
  <2>2. s \in U /\ Good(k - 1, s)
    <3> HIDE DEF Good, U, n
    <3> QED
      BY <1>4, <2>1
  <2>3. SUFFICES Raised(s, act) \in U /\ Good(k, Raised(s, act))
    <3> HIDE DEF Good, U, n
    <3> QED
      BY <2>1, <2>3
  <2>4. CASE Settled(s, act)
    <3>1. Raised(s, act) = s
      BY <2>4 DEF Settled, Raised
    <3> QED
      BY <2>2, <2>4, <3>1
  <2>5. CASE ~Settled(s, act)
    <3> DEFINE p == s.at \div 2
               g == Swapped(s.h, s.at, p)
    <3>1. /\ HeapOK(s.h) /\ Len(s.h.heap) = n /\ Members(s.h) = Members(h)
          /\ s.at \in 1 .. n /\ s.at + (k - 1) <= n
          /\ UpTo1(h, i, act) => UpTo1(s.h, s.at, act)
      BY <2>2, <2>5 DEF Kin
    <3>2. s.at # 1 /\ Higher(s.h.heap[s.at], s.h.heap[p], act)
      BY <2>5 DEF Settled
    <3>3. s.at \in 2 .. Len(s.h.heap) /\ p \in Nat /\ 1 <= p /\ p < s.at /\ p \in 1 .. n
      BY <1>2, <3>1, <3>2
    <3>4. Raised(s, act) = [h |-> g, at |-> p]
      BY <2>5 DEF Settled, Raised
    <3>5. /\ HeapOK(g) /\ Len(g.heap) = Len(s.h.heap) /\ Members(g) = Members(s.h)
          /\ UpTo1(s.h, s.at, act) => UpTo1(g, p, act)
      BY <3>1, <3>2, <3>3, RaisedFacts
    <3>6. p + k <= n
      BY <1>2, <2>1, <3>1, <3>3
    <3>7. g \in HeapSet
      BY <3>5 DEF HeapOK
    <3> HIDE DEF g, p
    <3>8. Raised(s, act).h = g /\ Raised(s, act).at = p /\ Raised(s, act) \in U
      BY <3>3, <3>4, <3>7
    <3> QED
      BY <3>1, <3>3, <3>5, <3>6, <3>8 DEF Kin
  <2> QED
    BY <2>4, <2>5
<1>5. \E g : Is(g)
  <2>1. S \in [0 .. n -> SUBSET U] /\ step \in [1 .. n -> [U -> U]]
    OBVIOUS
  <2>2. ASSUME NEW k \in 1 .. n, NEW x \in S[k - 1]
        PROVE  x \in U /\ step[k][x] = Raised(x, act) /\ step[k][x] \in S[k]
    <3>1. k - 1 \in 0 .. n /\ k \in 0 .. n
      BY <1>2
    <3>2. x \in U /\ Raised(x, act) \in S[k]
      BY <1>4, <2>1, <2>2, <3>1
    <3>3. Raised(x, act) \in U
      BY <2>1, <3>1, <3>2
    <3> HIDE DEF U, S
    <3> QED
      BY <3>2, <3>3
  <2> HIDE DEF S, a, step, U, n
  <2>3. PICK g : IsChain(g, n, a, step) /\ \A k \in 0 .. n : g[k] \in S[k]
    BY <1>2, <1>3, <2>1, <2>2, Folding
  <2>4. \A k \in 0 .. n : k # 0 => k \in 1 .. n /\ k - 1 \in 0 .. n
    BY <1>2
  <2>5. \A k \in 0 .. n : k # 0 => step[k][g[k - 1]] = Raised(g[k - 1], act)
    BY <2>2, <2>3, <2>4
  <2> QED
    BY <2>3, <2>5 DEF IsChain
<1>6. Is(up)
  <2> HIDE DEF Is
  <2> QED
    BY <1>5
<1> HIDE DEF up
<1>7. up[n] \in S[n]
  <2>1. up[0] = a /\ \A k \in 1 .. n : up[k] = Raised(up[k - 1], act)
    <3>1. \A k \in 0 .. n : up[k] = IF k = 0 THEN a ELSE Raised(up[k - 1], act)
      BY <1>6
    <3> HIDE DEF Is, a, n
    <3> QED
      BY <1>2, <3>1
  <2> HIDE DEF S, a, Is, n
  <2>2. \A k \in 0 .. n : up[k] \in S[k]
    BY <1>2, <1>3, <1>4, <2>1, Turns
  <2> QED
    BY <1>2, <2>2
<1>8. Good(n, up[n])
  <2> HIDE DEF Good, U, n
  <2> QED
    BY <1>2, <1>7
<1> DEFINE s == up[n]
<1> HIDE DEF s
<1>9. UpTo1(h, i, act) => UpTo1(s.h, s.at, act)
  BY <1>8 DEF s
<1>10. Settled(s, act)
  BY <1>2, <1>8 DEF s
<1>11. Kin(h, s.h) /\ s.at \in 1 .. n
  BY <1>8 DEF s
<1>12. ASSUME UpTo1(s.h, s.at, act) PROVE Ordered(s.h, act)
  <2>1. \A j \in 2 .. Len(s.h.heap) : j # s.at => ~Higher(s.h.heap[j], s.h.heap[j \div 2], act)
    BY <1>12 DEF UpTo1
  <2>2. \A j \in 2 .. Len(s.h.heap) : j = s.at => ~Higher(s.h.heap[j], s.h.heap[j \div 2], act)
    BY <1>10 DEF Settled
  <2> QED
    BY <2>1, <2>2 DEF Ordered
<1> QED
  BY <1>1, <1>9, <1>11, <1>12 DEF s

LEMMA SiftDownFacts ==
  ASSUME NEW act \in Activities, NEW h, HeapOK(h), NEW i \in 1 .. Len(h.heap)
  PROVE  /\ Kin(h, SiftDown(h, i, act))
         /\ DownTo1(h, i, act) => Ordered(SiftDown(h, i, act), act)
<1> DEFINE n == Len(h.heap)
           U == [h : HeapSet, at : Nat]
           Good(k, s) == /\ Kin(h, s.h) /\ s.at \in 1 .. n
                         /\ DownTo1(h, i, act) => DownTo1(s.h, s.at, act)
                         /\ s.at > k \/ Sunk(s, act)
           S == [k \in 0 .. n |-> {s \in U : Good(k, s)}]
           a == [h |-> h, at |-> i]
           Is(g) == g = [k \in 0 .. n |-> IF k = 0 THEN a ELSE Lowered(g[k - 1], act)]
           down == CHOOSE g : Is(g)
           step == [k \in 1 .. n |-> [s \in U |-> IF Lowered(s, act) \in U THEN Lowered(s, act) ELSE s]]
<1>1. SiftDown(h, i, act) = down[n].h
  BY DEF SiftDown
<1>2. n \in Nat /\ i \in Nat /\ i >= 1 /\ h \in HeapSet /\ n \in 0 .. n /\ 0 \in 0 .. n
  BY HeapFacts DEF HeapOK
<1>3. a \in S[0]
  <2>1. a.h = h /\ a.at = i /\ a \in U
    BY <1>2
  <2>2. Good(0, a)
    BY <1>2, <2>1 DEF Kin
  <2> HIDE DEF a, U, Good
  <2> QED
    BY <1>2, <2>1, <2>2
<1>4. ASSUME NEW k \in 1 .. n, NEW s \in S[k - 1] PROVE Lowered(s, act) \in S[k]
  <2>1. k - 1 \in 0 .. n /\ k \in 0 .. n /\ k \in Nat
    BY <1>2
  <2>2. s \in U /\ Good(k - 1, s)
    <3> HIDE DEF Good, U, n
    <3> QED
      BY <1>4, <2>1
  <2>3. SUFFICES Lowered(s, act) \in U /\ Good(k, Lowered(s, act))
    <3> HIDE DEF Good, U, n
    <3> QED
      BY <2>1, <2>3
  <2>4. CASE Sunk(s, act)
    <3>1. Lowered(s, act) = s
      BY <2>4 DEF Sunk, Lowered
    <3> QED
      BY <2>2, <2>4, <3>1
  <2>5. CASE ~Sunk(s, act)
    <3> DEFINE c == BestChild(s, act)
               g == Swapped(s.h, s.at, c)
    <3>1. /\ HeapOK(s.h) /\ Len(s.h.heap) = n /\ Members(s.h) = Members(h)
          /\ s.at \in 1 .. n /\ s.at > k - 1
          /\ DownTo1(h, i, act) => DownTo1(s.h, s.at, act)
      BY <2>2, <2>5 DEF Kin
    <3>2. Lowered(s, act) = [h |-> g, at |-> c]
      BY <2>5 DEF Sunk, Lowered
    <3>3. /\ c \in Nat /\ c > s.at /\ c <= n
          /\ HeapOK(g) /\ Len(g.heap) = n /\ Members(g) = Members(s.h)
          /\ DownTo1(s.h, s.at, act) => DownTo1(g, c, act)
      BY <2>5, <3>1, LoweredFacts
    <3>4. c > k /\ c \in 1 .. n
      BY <1>2, <2>1, <3>1, <3>3
    <3>5. g \in HeapSet
      BY <3>3 DEF HeapOK
    <3> HIDE DEF g, c
    <3>6. Lowered(s, act).h = g /\ Lowered(s, act).at = c /\ Lowered(s, act) \in U
      BY <3>2, <3>3, <3>5
    <3> QED
      BY <3>1, <3>3, <3>4, <3>6 DEF Kin
  <2> QED
    BY <2>4, <2>5
<1>5. \E g : Is(g)
  <2>1. S \in [0 .. n -> SUBSET U] /\ step \in [1 .. n -> [U -> U]]
    OBVIOUS
  <2>2. ASSUME NEW k \in 1 .. n, NEW x \in S[k - 1]
        PROVE  x \in U /\ step[k][x] = Lowered(x, act) /\ step[k][x] \in S[k]
    <3>1. k - 1 \in 0 .. n /\ k \in 0 .. n
      BY <1>2
    <3>2. x \in U /\ Lowered(x, act) \in S[k]
      BY <1>4, <2>1, <2>2, <3>1
    <3>3. Lowered(x, act) \in U
      BY <2>1, <3>1, <3>2
    <3> HIDE DEF U, S
    <3> QED
      BY <3>2, <3>3
  <2> HIDE DEF S, a, step, U, n
  <2>3. PICK g : IsChain(g, n, a, step) /\ \A k \in 0 .. n : g[k] \in S[k]
    BY <1>2, <1>3, <2>1, <2>2, Folding
  <2>4. \A k \in 0 .. n : k # 0 => k \in 1 .. n /\ k - 1 \in 0 .. n
    BY <1>2
  <2>5. \A k \in 0 .. n : k # 0 => step[k][g[k - 1]] = Lowered(g[k - 1], act)
    BY <2>2, <2>3, <2>4
  <2> QED
    BY <2>3, <2>5 DEF IsChain
<1>6. Is(down)
  <2> HIDE DEF Is
  <2> QED
    BY <1>5
<1> HIDE DEF down
<1>7. down[n] \in S[n]
  <2>1. down[0] = a /\ \A k \in 1 .. n : down[k] = Lowered(down[k - 1], act)
    <3>1. \A k \in 0 .. n : down[k] = IF k = 0 THEN a ELSE Lowered(down[k - 1], act)
      BY <1>6
    <3> HIDE DEF Is, a, n
    <3> QED
      BY <1>2, <3>1
  <2> HIDE DEF S, a, Is, n
  <2>2. \A k \in 0 .. n : down[k] \in S[k]
    BY <1>2, <1>3, <1>4, <2>1, Turns
  <2> QED
    BY <1>2, <2>2
<1>8. Good(n, down[n])
  <2> HIDE DEF Good, U, n
  <2> QED
    BY <1>2, <1>7
<1> DEFINE s == down[n]
<1> HIDE DEF s
<1>9. DownTo1(h, i, act) => DownTo1(s.h, s.at, act)
  BY <1>8 DEF s
<1>10. Sunk(s, act)
  BY <1>2, <1>8 DEF s
<1>11. Kin(h, s.h) /\ s.at \in 1 .. n
  BY <1>8 DEF s
<1>12. ASSUME DownTo1(s.h, s.at, act) PROVE Ordered(s.h, act)
  <2> DEFINE m == Len(s.h.heap)
             i1 == s.at
             c == BestChild(s, act)
  <2>1. /\ m \in Nat /\ i1 \in Nat /\ i1 >= 1 /\ i1 \in 1 .. m
        /\ \A k \in 1 .. m : s.h.heap[k] \in Var
    <3>1. HeapOK(s.h) /\ m = n
      BY <1>11 DEF Kin
    <3>2. \A k \in 1 .. m : s.h.heap[k] \in Var
      BY <3>1, HeapFacts
    <3> HIDE DEF m, n
    <3> QED
      BY <1>2, <1>11, <3>1, <3>2
  <2>2. \A j \in 2 .. m : j \div 2 # i1 => ~Higher(s.h.heap[j], s.h.heap[j \div 2], act)
    BY <1>12 DEF DownTo1
  <2>3. ASSUME NEW j \in 2 .. m, j \div 2 = i1
        PROVE  ~Higher(s.h.heap[j], s.h.heap[j \div 2], act)
    <3>1. j \in Nat /\ j >= 2 /\ j <= m /\ j \in 1 .. m
      BY <2>1
    <3>2. j = 2 * i1 \/ j = 2 * i1 + 1
      BY <2>1, <2>3, <3>1, Parent
    <3>3. 2 * i1 <= m
      BY <2>1, <3>1, <3>2
    <3>4. ~Higher(s.h.heap[c], s.h.heap[i1], act)
      BY <1>10, <2>1, <3>3 DEF Sunk
    <3>5. c = IF 2 * i1 < m /\ Higher(s.h.heap[2 * i1 + 1], s.h.heap[2 * i1], act)
              THEN 2 * i1 + 1 ELSE 2 * i1
      BY DEF BestChild
    <3>6. /\ \A x, y \in Var : Higher(x, y, act) => ~Higher(y, x, act)
          /\ \A x, y, z \in Var : ~Higher(x, y, act) /\ ~Higher(y, z, act) => ~Higher(x, z, act)
      BY HigherFacts
    <3> HIDE DEF c
    <3>7. c \in 1 .. m /\ (j = c \/ ~Higher(s.h.heap[j], s.h.heap[c], act))
      <4>1. CASE 2 * i1 < m /\ Higher(s.h.heap[2 * i1 + 1], s.h.heap[2 * i1], act)
        <5>1. c = 2 * i1 + 1 /\ c \in 1 .. m /\ 2 * i1 \in 1 .. m
          BY <2>1, <3>5, <4>1
        <5>2. ~Higher(s.h.heap[2 * i1], s.h.heap[c], act)
          BY <2>1, <3>6, <4>1, <5>1
        <5> QED
          BY <3>2, <5>1, <5>2
      <4>2. CASE ~ (2 * i1 < m /\ Higher(s.h.heap[2 * i1 + 1], s.h.heap[2 * i1], act))
        <5>1. c = 2 * i1 /\ c \in 1 .. m
          BY <2>1, <3>3, <3>5, <4>2
        <5>2. j = 2 * i1 + 1 => 2 * i1 < m
          BY <2>1, <3>1
        <5> QED
          BY <3>2, <4>2, <5>1, <5>2
      <4> QED
        BY <4>1, <4>2
    <3>8. s.h.heap[j] \in Var /\ s.h.heap[c] \in Var /\ s.h.heap[i1] \in Var
      BY <2>1, <3>1, <3>7
    <3> QED
      BY <2>3, <3>4, <3>6, <3>7, <3>8
  <2> QED
    BY <2>2, <2>3 DEF Ordered
<1> QED
  BY <1>1, <1>9, <1>11, <1>12 DEF s

-----------------------------------------------------------------------------
(***************************************************************************)
(* The operations of VarOrder.                                             *)
(***************************************************************************)

\* When one variable's activity changes, only its own place is in doubt.
LEMMA ChangedFacts ==
  ASSUME NEW old \in Activities, NEW act \in Activities, NEW h, HeapOK(h),
         NEW i \in 1 .. Len(h.heap), \A y \in Var : y # h.heap[i] => act[y] = old[y],
         Ordered(h, old)
  PROVE  /\ act[h.heap[i]] >= old[h.heap[i]] => UpTo1(h, i, act)
         /\ act[h.heap[i]] <= old[h.heap[i]] => DownTo1(h, i, act)
<1> DEFINE n == Len(h.heap)
           x == h.heap[i]
<1>1. /\ n \in Nat /\ i \in Nat /\ i >= 1 /\ \A k \in 1 .. n : h.heap[k] \in Var
      /\ \A k, l \in 1 .. n : h.heap[k] = h.heap[l] => k = l
  BY HeapFacts
<1>2. \A y \in Var : act[y] \in Nat /\ old[y] \in Nat
  BY DEF Activities
<1>3. x \in Var /\ \A y \in Var : y # x => act[y] = old[y]
  BY <1>1
<1>4. \A j \in 2 .. n : ~Higher(h.heap[j], h.heap[j \div 2], old)
  BY DEF Ordered
<1>5. \A j \in 2 .. n : /\ j \in Nat /\ j \in 1 .. n /\ j \div 2 \in Nat /\ j \div 2 \in 1 .. n
                        /\ j \div 2 < j
  BY <1>1, Parent
<1> HIDE DEF x
<1>6. \A k \in 1 .. n : h.heap[k] = x <=> k = i
  BY <1>1 DEF x
<1> HIDE DEF n
<1>7. \A y, z \in Var : y # x /\ z # x /\ ~Higher(y, z, old) => ~Higher(y, z, act)
  BY <1>3 DEF Higher
<1>8. i >= 2 => \A j \in 2 .. n : j \div 2 = i => ~Higher(h.heap[j], h.heap[i \div 2], act)
  <2> SUFFICES ASSUME i >= 2, NEW j \in 2 .. n, j \div 2 = i
               PROVE  ~Higher(h.heap[j], h.heap[i \div 2], act)
    OBVIOUS
  <2>1. i \in 2 .. n /\ i \in 1 .. n
    BY <1>1, <1>5 DEF n
  <2>2. ~Higher(h.heap[j], h.heap[i], old) /\ ~Higher(h.heap[i], h.heap[i \div 2], old)
    BY <1>4, <2>1
  <2>3. i \div 2 \in 1 .. n /\ i \div 2 # i /\ j \in 1 .. n /\ j # i
    BY <1>1, <1>5, <2>1
  <2>4. /\ h.heap[j] \in Var /\ h.heap[i] \in Var /\ h.heap[i \div 2] \in Var
        /\ h.heap[j] # x /\ h.heap[i \div 2] # x
    BY <1>1, <1>6, <2>1, <2>3 DEF n
  <2>5. ~Higher(h.heap[j], h.heap[i \div 2], old)
    BY <2>2, <2>4, HigherFacts
  <2> QED
    BY <1>7, <2>4, <2>5
<1>9. ASSUME act[x] >= old[x] PROVE UpTo1(h, i, act)
  <2>1. \A y \in Var : y # x /\ ~Higher(y, x, old) => ~Higher(y, x, act)
    BY <1>2, <1>3, <1>9 DEF Higher, Var
  <2>2. ASSUME NEW j \in 2 .. n, j # i PROVE ~Higher(h.heap[j], h.heap[j \div 2], act)
    <3>1. /\ h.heap[j] \in Var /\ h.heap[j \div 2] \in Var /\ h.heap[j] # x
          /\ ~Higher(h.heap[j], h.heap[j \div 2], old)
      BY <1>1, <1>4, <1>5, <1>6, <2>2 DEF n
    <3> QED
      BY <1>7, <2>1, <3>1
  <2> QED
    BY <1>8, <2>2 DEF UpTo1, n
<1>10. ASSUME act[x] <= old[x] PROVE DownTo1(h, i, act)
  <2>1. \A y \in Var : y # x /\ ~Higher(x, y, old) => ~Higher(x, y, act)
    BY <1>2, <1>3, <1>10 DEF Higher, Var
  <2>2. ASSUME NEW j \in 2 .. n, j \div 2 # i PROVE ~Higher(h.heap[j], h.heap[j \div 2], act)
    <3>1. /\ h.heap[j] \in Var /\ h.heap[j \div 2] \in Var /\ h.heap[j \div 2] # x
          /\ ~Higher(h.heap[j], h.heap[j \div 2], old)
      BY <1>1, <1>4, <1>5, <1>6, <2>2 DEF n
    <3> QED
      BY <1>7, <2>1, <3>1
  <2> QED
    BY <1>8, <2>2 DEF DownTo1, n
<1> QED
  BY <1>9, <1>10 DEF x

\* When the activity of a variable that is not in the heap changes, nothing is.
LEMMA ChangedOutside ==
  ASSUME NEW old \in Activities, NEW act \in Activities, NEW h, HeapOK(h),
         NEW x \in Var \ Members(h), \A y \in Var : y # x => act[y] = old[y], Ordered(h, old)
  PROVE  Ordered(h, act)
<1>1. /\ Len(h.heap) \in Nat /\ \A k \in 1 .. Len(h.heap) : h.heap[k] \in Var /\ h.heap[k] # x
  BY HeapFacts
<1>2. \A j \in 2 .. Len(h.heap) : j \in 1 .. Len(h.heap) /\ j \div 2 \in 1 .. Len(h.heap)
  BY <1>1, Parent
<1>3. \A y, z \in Var : y # x /\ z # x /\ ~Higher(y, z, old) => ~Higher(y, z, act)
  BY DEF Higher
<1> QED
  BY <1>1, <1>2, <1>3 DEF Ordered

LEMMA IncreaseFacts ==
  ASSUME NEW act \in Activities, NEW h, HeapOK(h), NEW x \in Var
  PROVE  /\ HeapOK(Increase(h, x, act)) /\ Members(Increase(h, x, act)) = Members(h)
         /\ \A old \in Activities :
              /\ Ordered(h, old) /\ act[x] >= old[x]
              /\ \A y \in Var : y # x => act[y] = old[y]
              => Ordered(Increase(h, x, act), act)
<1>1. CASE h.pos[x] = 0
  <2>1. Increase(h, x, act) = h /\ x \in Var \ Members(h)
    BY <1>1 DEF Increase, Members
  <2> QED
    BY <2>1, ChangedOutside
<1>2. CASE h.pos[x] # 0
  <2>1. Increase(h, x, act) = SiftUp(h, h.pos[x], act)
    BY <1>2 DEF Increase
  <2>2. h.pos[x] \in 1 .. Len(h.heap) /\ h.heap[h.pos[x]] = x
    BY <1>2, HeapFacts DEF Members
  <2>3. /\ Kin(h, SiftUp(h, h.pos[x], act))
        /\ UpTo1(h, h.pos[x], act) => Ordered(SiftUp(h, h.pos[x], act), act)
    BY <2>2, SiftUpFacts
  <2>4. ASSUME NEW old \in Activities, Ordered(h, old), act[x] >= old[x],
               \A y \in Var : y # x => act[y] = old[y]
        PROVE  UpTo1(h, h.pos[x], act)
    BY <2>2, <2>4, ChangedFacts
  <2> QED
    BY <2>1, <2>3, <2>4 DEF Kin
<1> QED
  BY <1>1, <1>2

LEMMA UpdateFacts ==
  ASSUME NEW old \in Activities, NEW h, HeapOK(h), NEW x \in Var, NEW value \in Nat
  PROVE  LET act == [old EXCEPT ![x] = value]
             r == Update(h, x, old[x], act)
         IN  /\ act \in Activities /\ HeapOK(r) /\ Members(r) = Members(h)
             /\ Ordered(h, old) => Ordered(r, act)
<1> DEFINE act == [old EXCEPT ![x] = value]
           r == Update(h, x, old[x], act)
<1>1. /\ act \in Activities /\ act[x] = value /\ \A y \in Var : y # x => act[y] = old[y]
      /\ old[x] \in Nat
  BY DEF Activities
<1> HIDE DEF act
<1>2. CASE h.pos[x] = 0
  <2>1. r = h /\ x \in Var \ Members(h)
    BY <1>2 DEF Update, Members
  <2> QED
    BY <1>1, <2>1, ChangedOutside DEF act
<1>3. CASE h.pos[x] # 0
  <2>1. h.pos[x] \in 1 .. Len(h.heap) /\ h.heap[h.pos[x]] = x
    BY <1>3, HeapFacts DEF Members
  <2>2. CASE act[x] > old[x]
    <3>1. r = SiftUp(h, h.pos[x], act)
      <4>1. ~ (act[x] < old[x])
        BY <1>1, <2>2
      <4> QED
        BY <1>3, <2>2, <4>1 DEF Update
    <3>2. /\ Kin(h, SiftUp(h, h.pos[x], act))
          /\ UpTo1(h, h.pos[x], act) => Ordered(SiftUp(h, h.pos[x], act), act)
      BY <1>1, <2>1, SiftUpFacts
    <3>3. act[x] >= old[x]
      BY <1>1, <2>2
    <3>4. Ordered(h, old) => UpTo1(h, h.pos[x], act)
      BY <1>1, <2>1, <3>3, ChangedFacts
    <3> QED
      BY <1>1, <3>1, <3>2, <3>4 DEF Kin, act
  <2>3. CASE act[x] < old[x]
    <3>1. r = SiftDown(h, h.pos[x], act)
      <4>1. ~ (act[x] > old[x])
        BY <1>1, <2>3
      <4> QED
        BY <1>3, <2>3, <4>1 DEF Update
    <3>2. /\ Kin(h, SiftDown(h, h.pos[x], act))
          /\ DownTo1(h, h.pos[x], act) => Ordered(SiftDown(h, h.pos[x], act), act)
      BY <1>1, <2>1, SiftDownFacts
    <3>3. act[x] <= old[x]
      BY <1>1, <2>3
    <3>4. Ordered(h, old) => DownTo1(h, h.pos[x], act)
      BY <1>1, <2>1, <3>3, ChangedFacts
    <3> QED
      BY <1>1, <3>1, <3>2, <3>4 DEF Kin, act
  <2>4. CASE act[x] = old[x]
    <3>1. ~ (act[x] > old[x]) /\ ~ (act[x] < old[x])
      BY <1>1, <2>4
    <3>2. r = h
      BY <1>3, <3>1 DEF Update
    <3>3. act = old
      BY <1>1, <2>4 DEF act, Activities
    <3> QED
      BY <1>1, <3>2, <3>3 DEF act
  <2> QED
    BY <1>1, <2>2, <2>3, <2>4
<1> QED
  BY <1>2, <1>3

LEMMA InsertFacts ==
  ASSUME NEW act \in Activities, NEW h, HeapOK(h), NEW x \in Var
  PROVE  /\ HeapOK(Insert(h, x, act)) /\ Members(Insert(h, x, act)) = Members(h) \cup {x}
         /\ Ordered(h, act) => Ordered(Insert(h, x, act), act)
<1>1. CASE h.pos[x] # 0
  <2>1. Insert(h, x, act) = h
    BY <1>1 DEF Insert
  <2>2. x \in Members(h)
    BY <1>1 DEF Members
  <2> QED
    BY <2>1, <2>2
<1>2. CASE h.pos[x] = 0
  <2> DEFINE n == Len(h.heap)
             g == [heap |-> Append(h.heap, x), pos |-> [h.pos EXCEPT ![x] = n + 1]]
  <2>1. Insert(h, x, act) = SiftUp(g, n + 1, act)
    BY <1>2 DEF Insert
  <2>2. /\ n \in Nat /\ h.heap \in Seq(Var) /\ h.pos \in [Var -> Nat] /\ x \notin Members(h)
        /\ \A i \in 1 .. n : h.heap[i] \in Var /\ h.pos[h.heap[i]] = i
        /\ \A z \in Members(h) : h.pos[z] \in 1 .. n /\ h.heap[h.pos[z]] = z
    BY <1>2, HeapFacts DEF Members
  <2>3. /\ g.heap = Append(h.heap, x) /\ g.pos = [h.pos EXCEPT ![x] = n + 1]
        /\ g = [heap |-> g.heap, pos |-> g.pos]
    OBVIOUS
  <2> HIDE DEF g
  <2>4. /\ g.heap \in Seq(Var) /\ Len(g.heap) = n + 1 /\ g.heap[n + 1] = x
        /\ \A i \in 1 .. n : g.heap[i] = h.heap[i]
    BY <2>2, <2>3, AppendProperties
  <2>5. g.pos \in [Var -> Nat] /\ \A z \in Var : g.pos[z] = IF z = x THEN n + 1 ELSE h.pos[z]
    <3>1. n + 1 \in Nat
      BY <2>2
    <3> HIDE DEF n
    <3> QED
      BY <2>2, <2>3, <3>1
  <2>6. \A i \in 1 .. n : h.heap[i] # x
    BY <1>2, <2>2
  <2>7. \A i \in 1 .. n + 1 : g.pos[g.heap[i]] = i
    <3> TAKE i \in 1 .. n + 1
    <3>1. CASE i = n + 1
      BY <2>4, <2>5, <3>1
    <3>2. CASE i # n + 1
      <4>1. i \in 1 .. n
        BY <2>2, <3>2
      <4> QED
        BY <2>2, <2>4, <2>5, <2>6, <4>1
    <3> QED
      BY <3>1, <3>2
  <2>8. ASSUME NEW z \in Var, g.pos[z] # 0 PROVE g.pos[z] <= n + 1 /\ g.heap[g.pos[z]] = z
    <3>1. CASE z = x
      BY <2>2, <2>4, <2>5, <3>1
    <3>2. CASE z # x
      <4>1. g.pos[z] = h.pos[z] /\ z \in Members(h)
        BY <2>5, <2>8, <3>2 DEF Members
      <4>2. h.pos[z] \in 1 .. n /\ h.heap[h.pos[z]] = z
        BY <2>2, <4>1
      <4> HIDE DEF n
      <4>3. h.pos[z] <= n + 1 /\ g.heap[h.pos[z]] = h.heap[h.pos[z]]
        <5>1. h.pos[z] <= n + 1
          BY <2>2, <4>2
        <5> QED
          BY <2>4, <4>2, <5>1
      <4> QED
        BY <4>1, <4>2, <4>3
    <3> QED
      BY <3>1, <3>2
  <2>9. HeapOK(g) /\ n + 1 \in 1 .. Len(g.heap)
    <3>1. g \in HeapSet
      BY <2>3, <2>4, <2>5 DEF HeapSet
    <3> QED
      BY <2>2, <2>4, <2>7, <2>8, <3>1 DEF HeapOK, Positioned
  <2>10. Members(g) = Members(h) \cup {x}
    <3>1. n + 1 # 0
      BY <2>2
    <3> QED
      BY <2>5, <3>1 DEF Members
  <2>11. ASSUME Ordered(h, act) PROVE UpTo1(g, n + 1, act)
    <3>1. \A j \in 2 .. n : ~Higher(h.heap[j], h.heap[j \div 2], act)
      BY <2>11 DEF Ordered
    <3>2. ASSUME NEW j \in 2 .. n + 1, j # n + 1 PROVE ~Higher(g.heap[j], g.heap[j \div 2], act)
      <4>1. j \in 2 .. n /\ j \in Nat
        BY <2>2, <3>2
      <4>2. j \in 1 .. n /\ j \div 2 \in 1 .. n
        BY <2>2, <4>1, Parent
      <4> QED
        BY <2>4, <3>1, <4>1, <4>2
    <3>3. ASSUME NEW j \in 2 .. n + 1 PROVE j \div 2 # n + 1
      <4>1. j \in Nat /\ j <= n + 1 /\ j \div 2 < j /\ j \div 2 \in Nat
        BY <2>2, Parent
      <4> QED
        BY <2>2, <4>1
    <3> QED
      BY <2>4, <3>2, <3>3 DEF UpTo1
  <2>12. /\ Kin(g, SiftUp(g, n + 1, act))
         /\ UpTo1(g, n + 1, act) => Ordered(SiftUp(g, n + 1, act), act)
    BY <2>9, SiftUpFacts
  <2> QED
    BY <2>1, <2>10, <2>11, <2>12 DEF Kin
<1> QED
  BY <1>1, <1>2

\* The best variable leaves the heap.
LEMMA PopMaxFacts ==
  ASSUME NEW act \in Activities, NEW h, HeapOK(h), h.heap # << >>
  PROVE  LET r == PopMax(h, act)
         IN  /\ HeapOK(r) /\ Members(r) = Members(h) \ {Head(h.heap)}
             /\ Head(h.heap) \in Members(h) /\ Len(r.heap) = Len(h.heap) - 1
             /\ Ordered(h, act) => Ordered(r, act)
<1> DEFINE n == Len(h.heap)
           top == Head(h.heap)
           moved == h.heap[n]
           rest == SubSeq(h.heap, 1, n - 1)
           p == [h.pos EXCEPT ![top] = 0]
<1>1. /\ n \in Nat /\ h.heap \in Seq(Var) /\ h.pos \in [Var -> Nat]
      /\ \A i \in 1 .. n : h.heap[i] \in Var /\ h.pos[h.heap[i]] = i
      /\ \A i, j \in 1 .. n : h.heap[i] = h.heap[j] => i = j
      /\ \A z \in Members(h) : h.pos[z] \in 1 .. n /\ h.heap[h.pos[z]] = z
      /\ \A z \in Var : z \in Members(h) <=> \E i \in 1 .. n : h.heap[i] = z
  BY HeapFacts
<1>2. n \in Nat \ {0} /\ n >= 1 /\ 1 \in 1 .. n /\ n \in 1 .. n
  BY <1>1, EmptySeq
<1>3. top = h.heap[1] /\ top \in Var /\ top \in Members(h)
  <2>1. top = h.heap[1]
    BY <1>1, <1>2
  <2> QED
    BY <1>1, <1>2, <2>1
<1>4. /\ rest \in Seq(Var) /\ Len(rest) = n - 1 /\ n - 1 \in Nat
      /\ \A i \in 1 .. n - 1 : rest[i] = h.heap[i]
  <2>1. 1 \in Int /\ n - 1 \in Int /\ \A i \in 1 .. n - 1 : h.heap[i] \in Var
    BY <1>1, <1>2
  <2>2. /\ rest \in Seq(Var) /\ Len(rest) = IF 1 <= n - 1 THEN n - 1 - 1 + 1 ELSE 0
        /\ \A i \in 1 .. n - 1 - 1 + 1 : rest[i] = h.heap[1 + i - 1]
    BY <2>1, SubSeqProperties
  <2>3. n - 1 - 1 + 1 = n - 1 /\ \A i \in 1 .. n - 1 : 1 + i - 1 = i
    BY <1>2
  <2> HIDE DEF rest, n
  <2> QED
    BY <1>2, <2>2, <2>3
<1>5. Last(h.heap) = moved /\ Front(h.heap) = rest
  BY DEF Last, Front
<1>6. p \in [Var -> Nat] /\ \A z \in Var : p[z] = IF z = top THEN 0 ELSE h.pos[z]
  <2> HIDE DEF top
  <2> QED
    BY <1>1, <1>3
<1>7. PopMax(h, act) = IF rest = << >> THEN [heap |-> rest, pos |-> p]
                       ELSE SiftDown([heap |-> [rest EXCEPT ![1] = moved],
                                      pos |-> [p EXCEPT ![moved] = 1]], 1, act)
  BY <1>5 DEF PopMax
<1> HIDE DEF rest, p, top, moved
<1>8. CASE rest = << >>
  <2> DEFINE r == [heap |-> rest, pos |-> p]
  <2>1. n = 1
    <3>1. Len(rest) = 0
      BY <1>8
    <3> QED
      BY <1>2, <1>4, <3>1
  <2>2. r.heap = rest /\ r.pos = p /\ r = PopMax(h, act) /\ r \in HeapSet
    BY <1>4, <1>6, <1>7, <1>8 DEF HeapSet
  <2> HIDE DEF r
  <2>3. \A z \in Var : p[z] = 0
    <3>1. ASSUME NEW z \in Var, z # top PROVE h.pos[z] = 0
      <4>1. \A i \in 1 .. n : h.heap[i] # z
        BY <1>3, <2>1, <3>1
      <4> QED
        BY <1>1, <4>1, <3>1 DEF Members
    <3> QED
      BY <1>6, <3>1
  <2>4. HeapOK(r) /\ Members(r) = {} /\ Members(h) = {top} /\ Len(r.heap) = 0
    <3>1. Len(r.heap) = 0
      BY <1>4, <2>1, <2>2
    <3>2. Members(h) = {top}
      <4>1. \A z \in Members(h) : z = top
        BY <1>3, <1>6, <2>3 DEF Members
      <4> QED
        BY <1>3, <4>1
    <3> QED
      BY <2>2, <2>3, <3>1, <3>2 DEF HeapOK, Positioned, Members
  <2>5. Ordered(r, act)
    BY <2>4 DEF Ordered
  <2> QED
    BY <1>3, <2>1, <2>2, <2>4, <2>5 DEF top
<1>9. CASE rest # << >>
  <2> DEFINE g == [heap |-> [rest EXCEPT ![1] = moved], pos |-> [p EXCEPT ![moved] = 1]]
  <2>1. n >= 2 /\ 1 \in 1 .. n - 1 /\ moved \in Var /\ moved # top
    <3>1. Len(rest) \in Nat \ {0}
      BY <1>4, <1>9, EmptySeq
    <3> HIDE DEF n
    <3>2. n >= 2
      BY <1>2, <1>4, <3>1
    <3> QED
      BY <1>1, <1>2, <1>3, <3>2 DEF moved
  <2>2. PopMax(h, act) = SiftDown(g, 1, act)
    BY <1>7, <1>9
  <2>3. /\ g.heap = [rest EXCEPT ![1] = moved] /\ g.pos = [p EXCEPT ![moved] = 1]
        /\ g = [heap |-> g.heap, pos |-> g.pos]
    OBVIOUS
  <2> HIDE DEF g
  <2>4. /\ g.heap \in Seq(Var) /\ Len(g.heap) = n - 1
        /\ \A i \in 1 .. n - 1 : g.heap[i] = IF i = 1 THEN moved ELSE h.heap[i]
    <3>1. /\ g.heap \in Seq(Var) /\ Len(g.heap) = n - 1
          /\ \A i \in 1 .. n - 1 : g.heap[i] = IF i = 1 THEN moved ELSE rest[i]
      BY <1>4, <2>1, <2>3, ExceptSeq
    <3> QED
      BY <1>4, <3>1
  <2>5. /\ g.pos \in [Var -> Nat]
        /\ \A z \in Var : g.pos[z] = IF z = moved THEN 1 ELSE IF z = top THEN 0 ELSE h.pos[z]
    BY <1>6, <2>1, <2>3
  <2>6. \A i \in 1 .. n - 1 : g.pos[g.heap[i]] = i
    <3> TAKE i \in 1 .. n - 1
    <3>1. i \in 1 .. n /\ i # n
      BY <1>2
    <3>2. CASE i = 1
      BY <2>1, <2>4, <2>5, <3>2
    <3>3. CASE i # 1
      <4>1. h.heap[i] \in Var /\ h.heap[i] # top /\ h.heap[i] # moved /\ h.pos[h.heap[i]] = i
        BY <1>1, <1>2, <1>3, <3>1, <3>3 DEF moved
      <4> QED
        BY <2>4, <2>5, <3>3, <4>1
    <3> QED
      BY <3>2, <3>3
  <2>7. ASSUME NEW z \in Var, g.pos[z] # 0 PROVE g.pos[z] <= n - 1 /\ g.heap[g.pos[z]] = z
    <3>1. CASE z = moved
      BY <2>1, <2>4, <2>5, <3>1
    <3>2. CASE z # moved
      <4>1. z # top /\ g.pos[z] = h.pos[z] /\ z \in Members(h)
        BY <2>5, <2>7, <3>2 DEF Members
      <4>2. h.pos[z] \in 1 .. n /\ h.heap[h.pos[z]] = z
        BY <1>1, <4>1
      <4>3. h.pos[z] # n /\ h.pos[z] # 1
        BY <1>3, <3>2, <4>1, <4>2 DEF moved
      <4>4. h.pos[z] \in 1 .. n - 1 /\ h.pos[z] <= n - 1
        BY <1>2, <4>2, <4>3
      <4>5. g.heap[h.pos[z]] = h.heap[h.pos[z]]
        BY <2>4, <4>3, <4>4
      <4> QED
        BY <4>1, <4>2, <4>4, <4>5
    <3> QED
      BY <3>1, <3>2
  <2>8. HeapOK(g) /\ 1 \in 1 .. Len(g.heap)
    <3>1. g \in HeapSet
      BY <2>3, <2>4, <2>5 DEF HeapSet
    <3> QED
      BY <2>1, <2>4, <2>6, <2>7, <3>1 DEF HeapOK, Positioned
  <2>9. Members(g) = Members(h) \ {top}
    <3>1. moved \in Members(h)
      BY <1>1, <1>2, <2>1 DEF moved
    <3> QED
      BY <2>1, <2>5, <3>1 DEF Members
  <2>10. ASSUME Ordered(h, act) PROVE DownTo1(g, 1, act)
    <3>1. \A j \in 2 .. n : ~Higher(h.heap[j], h.heap[j \div 2], act)
      BY <2>10 DEF Ordered
    <3>2. ASSUME NEW j \in 2 .. n - 1, j \div 2 # 1 PROVE ~Higher(g.heap[j], g.heap[j \div 2], act)
      <4>1. j \in 2 .. n /\ j \in Nat /\ j # 1
        BY <1>2, <3>2
      <4>2. j \in 1 .. n - 1 /\ j \div 2 \in 1 .. n - 1
        BY <1>2, <3>2, <4>1, Parent
      <4> QED
        BY <2>4, <3>1, <3>2, <4>1, <4>2
    <3> QED
      BY <2>4, <3>2 DEF DownTo1
  <2>11. /\ Kin(g, SiftDown(g, 1, act))
         /\ DownTo1(g, 1, act) => Ordered(SiftDown(g, 1, act), act)
    BY <2>8, SiftDownFacts
  <2> QED
    BY <1>3, <2>2, <2>4, <2>9, <2>10, <2>11 DEF Kin, top
<1> QED
  BY <1>8, <1>9

\* Assigned variables leave, until the best one is free.
LEMMA PeekedFacts ==
  ASSUME NEW act \in Activities, NEW h, HeapOK(h), NEW assigned
  PROVE  LET r == Peeked(h, act, assigned)
         IN  /\ HeapOK(r) /\ Members(r) \in SUBSET Members(h)
             /\ Members(h) \ assigned \in SUBSET Members(r)
             /\ Ordered(h, act) => Ordered(r, act)
             /\ r.heap = << >> \/ Head(r.heap) \notin assigned
<1> DEFINE n == Len(h.heap)
           U == HeapSet
           Done(s) == s.heap = << >> \/ Head(s.heap) \notin assigned
           Good(k, s) == /\ HeapOK(s) /\ Members(s) \in SUBSET Members(h)
                         /\ Members(h) \ assigned \in SUBSET Members(s)
                         /\ Ordered(h, act) => Ordered(s, act)
                         /\ Len(s.heap) + k <= n \/ Done(s)
           S == [k \in 0 .. n |-> {s \in U : Good(k, s)}]
           a == h
           Is(g) == g = [k \in 0 .. n |-> IF k = 0 THEN a ELSE Cleared(g[k - 1], act, assigned)]
           left == CHOOSE g : Is(g)
           step == [k \in 1 .. n |-> [s \in U |-> IF Cleared(s, act, assigned) \in U
                                                  THEN Cleared(s, act, assigned) ELSE s]]
<1>1. Peeked(h, act, assigned) = left[n]
  BY DEF Peeked
<1>2. n \in Nat /\ h \in HeapSet /\ n \in 0 .. n /\ 0 \in 0 .. n
  BY HeapFacts DEF HeapOK
<1>3. a \in S[0]
  BY <1>2
<1>4. ASSUME NEW k \in 1 .. n, NEW s \in S[k - 1] PROVE Cleared(s, act, assigned) \in S[k]
  <2>1. k - 1 \in 0 .. n /\ k \in 0 .. n /\ k \in Nat
    BY <1>2
  <2>2. s \in U /\ Good(k - 1, s)
    <3> HIDE DEF Good, U, n
    <3> QED
      BY <1>4, <2>1
  <2>3. SUFFICES Cleared(s, act, assigned) \in U /\ Good(k, Cleared(s, act, assigned))
    <3> HIDE DEF Good, U, n
    <3> QED
      BY <2>1, <2>3
  <2>4. CASE Done(s)
    <3>1. Cleared(s, act, assigned) = s
      BY <2>4 DEF Cleared
    <3> QED
      BY <2>2, <2>4, <3>1
  <2>5. CASE ~Done(s)
    <3> DEFINE r == PopMax(s, act)
    <3>1. Cleared(s, act, assigned) = r
      BY <2>5 DEF Cleared
    <3>2. /\ HeapOK(s) /\ Members(s) \in SUBSET Members(h)
          /\ Members(h) \ assigned \in SUBSET Members(s)
          /\ Ordered(h, act) => Ordered(s, act)
      BY <2>2
    <3>3. Len(s.heap) + (k - 1) <= n /\ s.heap # << >> /\ Head(s.heap) \in assigned
      BY <2>2, <2>5
    <3>4. /\ HeapOK(r) /\ Members(r) = Members(s) \ {Head(s.heap)}
          /\ Len(r.heap) = Len(s.heap) - 1
          /\ Ordered(s, act) => Ordered(r, act)
      BY <3>2, <3>3, PopMaxFacts
    <3>5. Len(s.heap) \in Nat
      BY <3>2, HeapFacts
    <3>6. Len(r.heap) + k <= n
      BY <1>2, <2>1, <3>3, <3>4, <3>5
    <3>7. r \in U
      BY <3>4 DEF HeapOK
    <3> HIDE DEF r, n
    <3> QED
      BY <3>1, <3>2, <3>3, <3>4, <3>6, <3>7
  <2> QED
    BY <2>4, <2>5
<1>5. \E g : Is(g)
  <2>1. S \in [0 .. n -> SUBSET U] /\ step \in [1 .. n -> [U -> U]]
    OBVIOUS
  <2>2. ASSUME NEW k \in 1 .. n, NEW x \in S[k - 1]
        PROVE  x \in U /\ step[k][x] = Cleared(x, act, assigned) /\ step[k][x] \in S[k]
    <3>1. k - 1 \in 0 .. n /\ k \in 0 .. n
      BY <1>2
    <3>2. x \in U /\ Cleared(x, act, assigned) \in S[k]
      BY <1>4, <2>1, <2>2, <3>1
    <3>3. Cleared(x, act, assigned) \in U
      BY <2>1, <3>1, <3>2
    <3> HIDE DEF U, S
    <3> QED
      BY <3>2, <3>3
  <2> HIDE DEF S, a, step, U, n
  <2>3. PICK g : IsChain(g, n, a, step) /\ \A k \in 0 .. n : g[k] \in S[k]
    BY <1>2, <1>3, <2>1, <2>2, Folding
  <2>4. \A k \in 0 .. n : k # 0 => k \in 1 .. n /\ k - 1 \in 0 .. n
    BY <1>2
  <2>5. \A k \in 0 .. n : k # 0 => step[k][g[k - 1]] = Cleared(g[k - 1], act, assigned)
    BY <2>2, <2>3, <2>4
  <2> QED
    BY <2>3, <2>5 DEF IsChain
<1>6. Is(left)
  <2> HIDE DEF Is
  <2> QED
    BY <1>5
<1> HIDE DEF left
<1>7. left[n] \in S[n]
  <2>1. left[0] = a /\ \A k \in 1 .. n : left[k] = Cleared(left[k - 1], act, assigned)
    <3>1. \A k \in 0 .. n : left[k] = IF k = 0 THEN a ELSE Cleared(left[k - 1], act, assigned)
      BY <1>6
    <3> HIDE DEF Is, a, n
    <3> QED
      BY <1>2, <3>1
  <2> HIDE DEF S, a, Is, n
  <2>2. \A k \in 0 .. n : left[k] \in S[k]
    BY <1>2, <1>3, <1>4, <2>1, Turns
  <2> QED
    BY <1>2, <2>2
<1>8. Good(n, left[n])
  <2> HIDE DEF Good, U, n
  <2> QED
    BY <1>2, <1>7
<1>9. Done(left[n])
  <2>1. HeapOK(left[n]) /\ (Len(left[n].heap) + n <= n \/ Done(left[n]))
    BY <1>8
  <2>2. Len(left[n].heap) \in Nat /\ left[n].heap \in Seq(Var)
    BY <2>1, HeapFacts
  <2>3. left[n].heap # << >> => Len(left[n].heap) \in Nat \ {0}
    BY <2>2, EmptySeq
  <2>4. Len(left[n].heap) + n <= n => ~ (Len(left[n].heap) \in Nat \ {0})
    <3> HIDE DEF n
    <3> QED
      BY <1>2, <2>2
  <2> QED
    BY <2>1, <2>3, <2>4
<1> QED
  BY <1>1, <1>8, <1>9

-----------------------------------------------------------------------------
(***************************************************************************)
(* VmtfOrder as a list.                                                    *)
(***************************************************************************)
Link == 0 .. MaxVar
QueueSet == [prev : [Var -> Link], next : [Var -> Link], stamp : [Var -> Nat],
             first : Link, last : Link, search : Link, now : 0 .. MaxStamp]

\* The links of q are those of the list L, and its stamps rise.
Linking(q, L) ==
  /\ L \in Seq(Var) /\ Len(L) <= MaxVar
  /\ q.first = IF Len(L) = 0 THEN 0 ELSE L[1]
  /\ q.last = IF Len(L) = 0 THEN 0 ELSE L[Len(L)]
  /\ \A i \in 1 .. Len(L) : q.next[L[i]] = IF i = Len(L) THEN 0 ELSE L[i + 1]
  /\ \A i \in 1 .. Len(L) : q.prev[L[i]] = IF i = 1 THEN 0 ELSE L[i - 1]
Rising(q, L) == \A i, j \in 1 .. Len(L) : i < j => q.stamp[L[i]] < q.stamp[L[j]]
Lists(q, L) == Linking(q, L) /\ Rising(q, L) /\ \A i \in 1 .. Len(L) : q.stamp[L[i]] <= q.now

\* The cursor is in the list, and no variable of F comes behind it.
Cursor(q, L, F) ==
  /\ q.search # 0 => \E s \in 1 .. Len(L) : q.search = L[s]
  /\ \A i \in 1 .. Len(L) : L[i] \in F => \E s \in 1 .. Len(L) : q.search = L[s] /\ i <= s

Holding(L, n) == Len(L) = n /\ Range(L) = 1 .. n
QueueOK(q, n, F) == q \in QueueSet /\ \E L : Lists(q, L) /\ Holding(L, n) /\ Cursor(q, L, F)

\* The members of a list with rising stamps are distinct.
LEMMA ListFacts ==
  ASSUME NEW q \in QueueSet, NEW L, Linking(q, L)
  PROVE  /\ Len(L) \in Nat /\ DOMAIN L = 1 .. Len(L) /\ MaxVar \in Nat
         /\ \A i \in 1 .. Len(L) : /\ L[i] \in Var /\ L[i] \in Link /\ L[i] \in Nat /\ L[i] # 0
                                   /\ q.stamp[L[i]] \in Nat
         /\ Rising(q, L) => \A i, j \in 1 .. Len(L) : L[i] = L[j] => i = j
<1>1. Len(L) \in Nat /\ DOMAIN L = 1 .. Len(L) /\ \A i \in 1 .. Len(L) : L[i] \in Var
  BY LenProperties DEF Linking
<1>2. MaxVar \in Nat /\ q.stamp \in [Var -> Nat]
  BY BranchingAssumption DEF QueueSet
<1>3. \A x \in Var : x \in Link /\ x \in Nat /\ x # 0
  BY <1>2 DEF Var, Link
<1>4. ASSUME Rising(q, L), NEW i \in 1 .. Len(L), NEW j \in 1 .. Len(L), L[i] = L[j] PROVE i = j
  <2>1. q.stamp[L[i]] \in Nat
    BY <1>1, <1>2
  <2>2. ~ (i < j) /\ ~ (j < i)
    BY <1>4, <2>1 DEF Rising
  <2> QED
    BY <1>1, <2>2
<1> QED
  BY <1>1, <1>2, <1>3, <1>4

\* Following the links gives the list.
LEMMA ListFromFacts ==
  ASSUME NEW q \in QueueSet, NEW L, Linking(q, L)
  PROVE  ListFrom(q, q.first) = L
<1> DEFINE n == MaxVar
           m == Len(L)
           U == Seq(Var)
           Reach(k) == IF k <= m THEN k ELSE m
           Good(k, s) == Len(s) = Reach(k) /\ \A i \in 1 .. Reach(k) : s[i] = L[i]
           S == [k \in 0 .. n |-> {s \in U : Good(k, s)}]
           a == << >>
           Is(g) == g = [k \in 0 .. n |-> IF k = 0 THEN a ELSE Longer(q, q.first, g[k - 1])]
           list == CHOOSE g : Is(g)
           step == [k \in 1 .. n |-> [s \in U |-> IF Longer(q, q.first, s) \in U
                                                  THEN Longer(q, q.first, s) ELSE s]]
<1>1. ListFrom(q, q.first) = list[n]
  BY DEF ListFrom
<1>2. n \in Nat /\ n \in 0 .. n /\ 0 \in 0 .. n /\ m \in Nat /\ m <= n
  BY ListFacts DEF Linking
<1>3. a \in S[0]
  <2>1. a \in U /\ Len(a) = 0
    BY EmptySeq
  <2>2. Good(0, a)
    BY <1>2, <2>1
  <2> HIDE DEF a, U, Good
  <2> QED
    BY <1>2, <2>1, <2>2
<1>4. ASSUME NEW k \in 1 .. n, NEW s \in S[k - 1] PROVE Longer(q, q.first, s) \in S[k]
  <2>1. k - 1 \in 0 .. n /\ k \in 0 .. n /\ k \in Nat
    BY <1>2
  <2>2. s \in U /\ Good(k - 1, s)
    <3> HIDE DEF Good, U, n
    <3> QED
      BY <1>4, <2>1
  <2>3. SUFFICES Longer(q, q.first, s) \in U /\ Good(k, Longer(q, q.first, s))
    <3> HIDE DEF Good, U, n
    <3> QED
      BY <2>1, <2>3
  <2> DEFINE y == IF s = << >> THEN q.first ELSE q.next[Last(s)]
  <2>4. Longer(q, q.first, s) = IF y = 0 THEN s ELSE Append(s, y)
    BY DEF Longer
  <2>5. s \in Seq(Var) /\ Len(s) = Reach(k - 1) /\ \A i \in 1 .. Reach(k - 1) : s[i] = L[i]
    BY <2>2
  <2>6. y = IF k <= m THEN L[k] ELSE 0
    <3>1. CASE s = << >>
      <4>1. Len(s) = 0
        BY <3>1
      <4>2. m = 0 \/ k = 1
        BY <1>2, <2>1, <2>5, <4>1
      <4> QED
        BY <1>2, <2>1, <3>1, <4>2 DEF Linking
    <3>2. CASE s # << >>
      <4>1. Len(s) \in Nat \ {0}
        BY <2>5, <3>2, EmptySeq
      <4>2. Reach(k - 1) \in 1 .. m /\ Reach(k - 1) = Len(s)
        BY <1>2, <2>1, <2>5, <4>1
      <4>3. y = q.next[L[Reach(k - 1)]]
        <5>1. Last(s) = s[Reach(k - 1)] /\ Reach(k - 1) \in 1 .. Reach(k - 1)
          BY <1>2, <4>2 DEF Last
        <5> HIDE DEF Reach
        <5> QED
          BY <2>5, <3>2, <5>1
      <4>4. y = IF Reach(k - 1) = m THEN 0 ELSE L[Reach(k - 1) + 1]
        <5> HIDE DEF Reach, y
        <5> QED
          BY <4>2, <4>3 DEF Linking
      <4> HIDE DEF y
      <4>5. CASE k <= m
        <5>1. Reach(k - 1) = k - 1 /\ Reach(k - 1) # m /\ Reach(k - 1) + 1 = k
          BY <1>2, <2>1, <4>5
        <5> HIDE DEF Reach
        <5> QED
          BY <4>4, <4>5, <5>1
      <4>6. CASE ~ (k <= m)
        <5>1. Reach(k - 1) = m
          BY <1>2, <2>1, <4>6
        <5> HIDE DEF Reach
        <5> QED
          BY <4>4, <4>6, <5>1
      <4> QED
        BY <4>5, <4>6
    <3> QED
      BY <3>1, <3>2
  <2> HIDE DEF y
  <2>7. CASE k <= m
    <3>1. y = L[k] /\ y \in Var /\ y # 0 /\ Reach(k - 1) = k - 1 /\ Reach(k) = k
      BY <1>2, <2>1, <2>6, <2>7, ListFacts
    <3>2. Longer(q, q.first, s) = Append(s, y)
      BY <2>4, <3>1
    <3> HIDE DEF Reach
    <3>3. Len(s) = k - 1 /\ k - 1 + 1 = k
      BY <2>1, <2>5, <3>1
    <3>4. /\ Append(s, y) \in Seq(Var) /\ Len(Append(s, y)) = k /\ Append(s, y)[k] = y
          /\ \A i \in 1 .. k - 1 : Append(s, y)[i] = s[i]
      BY <2>5, <3>1, <3>3, AppendProperties
    <3>5. \A i \in 1 .. k : Append(s, y)[i] = L[i]
      <4>1. \A i \in 1 .. k : i = k \/ i \in 1 .. k - 1
        BY <2>1
      <4> QED
        BY <2>5, <3>1, <3>4, <4>1
    <3> QED
      BY <3>1, <3>2, <3>4, <3>5
  <2>8. CASE ~ (k <= m)
    <3>1. Longer(q, q.first, s) = s
      BY <2>4, <2>6, <2>8
    <3>2. Reach(k - 1) = m /\ Reach(k) = m
      BY <1>2, <2>1, <2>8
    <3> HIDE DEF Reach
    <3> QED
      BY <2>5, <3>1, <3>2
  <2> QED
    BY <2>7, <2>8
<1>5. \E g : Is(g)
  <2>1. S \in [0 .. n -> SUBSET U] /\ step \in [1 .. n -> [U -> U]]
    OBVIOUS
  <2>2. ASSUME NEW k \in 1 .. n, NEW x \in S[k - 1]
        PROVE  x \in U /\ step[k][x] = Longer(q, q.first, x) /\ step[k][x] \in S[k]
    <3>1. k - 1 \in 0 .. n /\ k \in 0 .. n
      BY <1>2
    <3>2. x \in U /\ Longer(q, q.first, x) \in S[k]
      BY <1>4, <2>1, <2>2, <3>1
    <3>3. Longer(q, q.first, x) \in U
      BY <2>1, <3>1, <3>2
    <3> HIDE DEF U, S
    <3> QED
      BY <3>2, <3>3
  <2> HIDE DEF S, a, step, U, n
  <2>3. PICK g : IsChain(g, n, a, step) /\ \A k \in 0 .. n : g[k] \in S[k]
    BY <1>2, <1>3, <2>1, <2>2, Folding
  <2>4. \A k \in 0 .. n : k # 0 => k \in 1 .. n /\ k - 1 \in 0 .. n
    BY <1>2
  <2>5. \A k \in 0 .. n : k # 0 => step[k][g[k - 1]] = Longer(q, q.first, g[k - 1])
    BY <2>2, <2>3, <2>4
  <2> QED
    BY <2>3, <2>5 DEF IsChain
<1>6. Is(list)
  <2> HIDE DEF Is
  <2> QED
    BY <1>5
<1> HIDE DEF list
<1>7. list[n] \in S[n]
  <2>1. list[0] = a /\ \A k \in 1 .. n : list[k] = Longer(q, q.first, list[k - 1])
    <3>1. \A k \in 0 .. n : list[k] = IF k = 0 THEN a ELSE Longer(q, q.first, list[k - 1])
      BY <1>6
    <3> HIDE DEF Is, a, n
    <3> QED
      BY <1>2, <3>1
  <2> HIDE DEF S, a, Is, n
  <2>2. \A k \in 0 .. n : list[k] \in S[k]
    BY <1>2, <1>3, <1>4, <2>1, Turns
  <2> QED
    BY <1>2, <2>2
<1>8. list[n] \in Seq(Var) /\ Good(n, list[n])
  <2> HIDE DEF Good, n
  <2> QED
    BY <1>2, <1>7
<1>9. Reach(n) = m
  BY <1>2
<1> HIDE DEF Reach, n
<1>10. list[n] = L
  BY <1>8, <1>9, SeqEqual DEF Linking
<1> QED
  BY <1>1, <1>10

\* advance_stamp makes room for a stamp above all others.
LEMMA AdvancedFacts ==
  ASSUME NEW q \in QueueSet, NEW L, Lists(q, L), Len(L) < MaxVar
  PROVE  LET r == Advanced(q)
         IN  /\ r \in QueueSet /\ Lists(r, L) /\ r.search = q.search
             /\ \A i \in 1 .. Len(L) : r.stamp[L[i]] < r.now
<1> DEFINE r == Advanced(q)
           n == Len(L)
<1>1. /\ n \in Nat /\ DOMAIN L = 1 .. n /\ MaxVar \in Nat
      /\ \A i \in 1 .. n : L[i] \in Var /\ q.stamp[L[i]] \in Nat
      /\ \A i, j \in 1 .. n : L[i] = L[j] => i = j
      /\ Linking(q, L) /\ Rising(q, L) /\ \A i \in 1 .. n : q.stamp[L[i]] <= q.now
  BY ListFacts DEF Lists
<1>2. /\ MaxStamp \in Nat /\ MaxStamp > MaxVar /\ q.now \in 0 .. MaxStamp /\ q.stamp \in [Var -> Nat]
      /\ q = [prev |-> q.prev, next |-> q.next, stamp |-> q.stamp, first |-> q.first,
              last |-> q.last, search |-> q.search, now |-> q.now]
      /\ q.prev \in [Var -> Link] /\ q.next \in [Var -> Link]
      /\ q.first \in Link /\ q.last \in Link /\ q.search \in Link
  BY BranchingAssumption DEF QueueSet
<1>3. CASE q.now # MaxStamp
  <2>1. r = [q EXCEPT !.now = q.now + 1]
    BY <1>3 DEF Advanced
  <2>2. q.now + 1 \in 0 .. MaxStamp /\ q.now \in Nat
    BY <1>2, <1>3
  <2>3. /\ r.prev = q.prev /\ r.next = q.next /\ r.stamp = q.stamp /\ r.first = q.first
        /\ r.last = q.last /\ r.search = q.search /\ r.now = q.now + 1 /\ r \in QueueSet
    BY <1>2, <2>1, <2>2 DEF QueueSet
  <2> HIDE DEF r
  <2>4. Linking(r, L) /\ Rising(r, L)
    BY <1>1, <2>3 DEF Linking, Rising
  <2>5. \A i \in 1 .. n : r.stamp[L[i]] < r.now
    BY <1>1, <2>2, <2>3
  <2>6. r.now \in Nat /\ \A i \in 1 .. n : r.stamp[L[i]] <= r.now
    BY <1>1, <2>2, <2>3, <2>5
  <2> QED
    BY <2>3, <2>4, <2>5, <2>6 DEF Lists, r
<1>4. CASE q.now = MaxStamp
  <2> DEFINE Place(v) == CHOOSE i \in 1 .. n : L[i] = v
             stamps == [v \in Var |-> IF v \in Range(L) THEN Place(v) ELSE q.stamp[v]]
  <2>1. ListFrom(q, q.first) = L
    BY <1>1, ListFromFacts
  <2>2. r = [q EXCEPT !.now = n + 1, !.stamp = stamps]
    BY <1>4, <2>1 DEF Advanced
  <2>3. \A i \in 1 .. n : L[i] \in Range(L) /\ Place(L[i]) = i
    BY <1>1 DEF Range
  <2>4. \A v \in Range(L) : Place(v) \in 1 .. n
    <3> TAKE v \in Range(L)
    <3>1. \E i \in 1 .. n : L[i] = v
      BY <1>1 DEF Range
    <3> QED
      BY <3>1
  <2>5. n + 1 \in 0 .. MaxStamp
    BY <1>1, <1>2
  <2> HIDE DEF Place
  <2>6. stamps \in [Var -> Nat] /\ \A i \in 1 .. n : stamps[L[i]] = i
    BY <1>1, <1>2, <2>3, <2>4
  <2> HIDE DEF stamps
  <2>7. /\ r.prev = q.prev /\ r.next = q.next /\ r.stamp = stamps /\ r.first = q.first
        /\ r.last = q.last /\ r.search = q.search /\ r.now = n + 1 /\ r \in QueueSet
    BY <1>2, <2>2, <2>5, <2>6 DEF QueueSet
  <2> HIDE DEF r
  <2>8. Linking(r, L)
    BY <1>1, <2>7 DEF Linking
  <2>9. Rising(r, L) /\ \A i \in 1 .. n : r.stamp[L[i]] < r.now /\ r.stamp[L[i]] <= r.now
    BY <1>1, <2>6, <2>7 DEF Rising
  <2> QED
    BY <2>7, <2>8, <2>9 DEF Lists, r
<1> QED
  BY <1>3, <1>4

\* A variable joins the list at its young end.
LEMMA LinkedFacts ==
  ASSUME NEW q \in QueueSet, NEW L, Lists(q, L), Len(L) < MaxVar,
         \A i \in 1 .. Len(L) : q.stamp[L[i]] < q.now,
         NEW x \in Var, \A i \in 1 .. Len(L) : L[i] # x
  PROVE  LET r == Linked(q, x)
         IN r \in QueueSet /\ Lists(r, Append(L, x)) /\ r.search = q.search
<1> DEFINE r == Linked(q, x)
           n == Len(L)
           M == Append(L, x)
<1>1. /\ n \in Nat /\ DOMAIN L = 1 .. n /\ MaxVar \in Nat /\ L \in Seq(Var)
      /\ \A i \in 1 .. n : /\ L[i] \in Var /\ q.stamp[L[i]] \in Nat /\ L[i] \in Nat
                          /\ L[i] # 0 /\ L[i] \in Link
      /\ \A i, j \in 1 .. n : L[i] = L[j] => i = j
      /\ Linking(q, L) /\ Rising(q, L)
  BY ListFacts DEF Lists, Linking
<1>0. /\ q.first = IF n = 0 THEN 0 ELSE L[1]
      /\ q.last = IF n = 0 THEN 0 ELSE L[n]
      /\ \A i \in 1 .. n : q.next[L[i]] = IF i = n THEN 0 ELSE L[i + 1]
      /\ \A i \in 1 .. n : q.prev[L[i]] = IF i = 1 THEN 0 ELSE L[i - 1]
      /\ \A i \in 1 .. n : q.stamp[L[i]] < q.now /\ L[i] # x
      /\ \A i, j \in 1 .. n : i < j => q.stamp[L[i]] < q.stamp[L[j]]
      /\ n < MaxVar
  BY <1>1 DEF Linking, Rising
<1>2. /\ q.now \in Nat /\ q.now \in 0 .. MaxStamp /\ q.stamp \in [Var -> Nat]
      /\ q = [prev |-> q.prev, next |-> q.next, stamp |-> q.stamp, first |-> q.first,
              last |-> q.last, search |-> q.search, now |-> q.now]
      /\ q.prev \in [Var -> Link] /\ q.next \in [Var -> Link]
      /\ q.first \in Link /\ q.last \in Link /\ q.search \in Link /\ x \in Link /\ 0 \in Link
      /\ x \in Nat
  BY <1>1, BranchingAssumption DEF QueueSet, Link, Var
<1>3. /\ M \in Seq(Var) /\ Len(M) = n + 1 /\ M[n + 1] = x
      /\ \A i \in 1 .. n : M[i] = L[i]
  BY <1>1, AppendProperties
<1> HIDE DEF M, n
<1> DEFINE isolated == [q.next EXCEPT ![x] = 0]
           next == IF q.last = 0 THEN isolated ELSE [isolated EXCEPT ![q.last] = x]
<1>4. /\ r.prev = [q.prev EXCEPT ![x] = q.last]
      /\ r.stamp = [q.stamp EXCEPT ![x] = q.now]
      /\ r.first = IF q.last = 0 THEN x ELSE q.first
      /\ r.last = x /\ r.search = q.search /\ r.now = q.now
      /\ r = [prev |-> r.prev, next |-> r.next, stamp |-> r.stamp, first |-> r.first,
              last |-> r.last, search |-> r.search, now |-> r.now]
  <2>1. r = [prev |-> [q.prev EXCEPT ![x] = q.last], next |-> next,
             stamp |-> [q.stamp EXCEPT ![x] = q.now], first |-> IF q.last = 0 THEN x ELSE q.first,
             last |-> x, search |-> q.search, now |-> q.now]
    BY DEF Linked
  <2> HIDE DEF next, r
  <2> QED
    BY <2>1
<1>5. r.next = next
  BY DEF Linked
<1> HIDE DEF r
<1>6. n = 0 <=> q.last = 0
  <2>1. n # 0 => n \in 1 .. n
    BY <1>1
  <2> QED
    BY <1>0, <1>1, <2>1
<1>7. n # 0 => q.last = L[n] /\ q.last \in Var /\ q.last # x /\ n \in 1 .. n
  <2>1. n # 0 => n \in 1 .. n
    BY <1>1
  <2> QED
    BY <1>0, <1>1, <2>1
<1>8. isolated \in [Var -> Link] /\ \A v \in Var : isolated[v] = IF v = x THEN 0 ELSE q.next[v]
  BY <1>2
<1> HIDE DEF isolated
<1>9. next \in [Var -> Link]
      /\ \A v \in Var : next[v] = IF v = x THEN 0 ELSE IF n # 0 /\ v = q.last THEN x ELSE q.next[v]
  <2>1. CASE n = 0
    BY <1>6, <1>8, <2>1
  <2>2. CASE n # 0
    BY <1>2, <1>6, <1>7, <1>8, <2>2
  <2> QED
    BY <2>1, <2>2
<1> HIDE DEF next
<1>10. /\ r.prev \in [Var -> Link] /\ r.stamp \in [Var -> Nat]
       /\ \A v \in Var : r.prev[v] = IF v = x THEN q.last ELSE q.prev[v]
       /\ \A v \in Var : r.stamp[v] = IF v = x THEN q.now ELSE q.stamp[v]
  BY <1>2, <1>4
<1>11. r \in QueueSet
  BY <1>2, <1>4, <1>5, <1>9, <1>10 DEF QueueSet
<1>12. n + 1 # 0 /\ n + 1 <= MaxVar /\ 1 \in 1 .. n + 1 /\ n + 1 \in Nat
       /\ \A i \in 1 .. n + 1 : i = n + 1 \/ (i \in 1 .. n /\ i # n + 1)
  BY <1>0, <1>1
<1>13. r.first = M[1] /\ r.last = M[n + 1]
  <2>1. CASE n = 0
    BY <1>3, <1>4, <1>6, <2>1
  <2>2. CASE n # 0
    <3>1. 1 \in 1 .. n /\ q.first = L[1]
      BY <1>0, <1>1, <2>2
    <3> QED
      BY <1>3, <1>4, <1>6, <2>2, <3>1
  <2> QED
    BY <2>1, <2>2
<1>14. \A i \in 1 .. n + 1 : r.next[M[i]] = IF i = n + 1 THEN 0 ELSE M[i + 1]
  <2> TAKE i \in 1 .. n + 1
  <2>1. CASE i = n + 1
    BY <1>3, <1>5, <1>9, <2>1
  <2>2. CASE i # n + 1
    <3>1. i \in 1 .. n /\ M[i] = L[i] /\ L[i] \in Var /\ L[i] # x
      BY <1>0, <1>1, <1>3, <1>12, <2>2
    <3>2. CASE i = n
      <4>1. n # 0 /\ L[i] = q.last /\ M[i + 1] = x
        BY <1>1, <1>3, <1>7, <3>1, <3>2
      <4> QED
        BY <1>5, <1>9, <2>2, <3>1, <4>1
    <3>3. CASE i # n
      <4>1. i + 1 \in 1 .. n /\ M[i + 1] = L[i + 1] /\ q.next[L[i]] = L[i + 1] /\ n # 0
        <5>1. i + 1 \in 1 .. n /\ n # 0
          BY <1>1, <3>1, <3>3
        <5> QED
          BY <1>0, <1>3, <3>1, <3>3, <5>1
      <4>2. L[i] # q.last
        BY <1>1, <1>7, <3>1, <3>3, <4>1
      <4> QED
        BY <1>5, <1>9, <2>2, <3>1, <4>1, <4>2
    <3> QED
      BY <3>2, <3>3
  <2> QED
    BY <2>1, <2>2
<1>15. \A i \in 1 .. n + 1 : r.prev[M[i]] = IF i = 1 THEN 0 ELSE M[i - 1]
  <2> TAKE i \in 1 .. n + 1
  <2>1. CASE i = n + 1
    <3>1. r.prev[M[i]] = q.last
      BY <1>3, <1>10, <2>1
    <3>2. CASE n = 0
      BY <1>6, <2>1, <3>1, <3>2
    <3>3. CASE n # 0
      <4>1. i # 1 /\ i - 1 = n
        BY <1>1, <2>1, <3>3
      <4> QED
        BY <1>3, <1>7, <3>1, <3>3, <4>1
    <3> QED
      BY <3>2, <3>3
  <2>2. CASE i # n + 1
    <3>1. i \in 1 .. n /\ M[i] = L[i] /\ L[i] \in Var /\ L[i] # x
      BY <1>0, <1>1, <1>3, <1>12, <2>2
    <3>2. r.prev[M[i]] = IF i = 1 THEN 0 ELSE L[i - 1]
      BY <1>0, <1>10, <3>1
    <3>3. i # 1 => i - 1 \in 1 .. n
      BY <1>1, <3>1
    <3> QED
      BY <1>3, <3>2, <3>3
  <2> QED
    BY <2>1, <2>2
<1>16. \A i \in 1 .. n : r.stamp[M[i]] = q.stamp[L[i]]
  BY <1>1, <1>3, <1>10
<1>17. r.stamp[M[n + 1]] = q.now
  BY <1>3, <1>10
<1>18. Rising(r, M)
  <2> SUFFICES ASSUME NEW i \in 1 .. n + 1, NEW j \in 1 .. n + 1, i < j
               PROVE  r.stamp[M[i]] < r.stamp[M[j]]
    BY <1>3 DEF Rising
  <2>1. i \in 1 .. n
    BY <1>1
  <2>2. CASE j = n + 1
    BY <1>0, <1>16, <1>17, <2>1, <2>2
  <2>3. CASE j # n + 1
    BY <1>0, <1>12, <1>16, <2>1, <2>3
  <2> QED
    BY <2>2, <2>3
<1>19. \A i \in 1 .. n + 1 : r.stamp[M[i]] <= r.now
  <2>1. \A i \in 1 .. n : r.stamp[M[i]] <= r.now
    <3>1. \A i \in 1 .. n : r.stamp[M[i]] < q.now /\ r.stamp[M[i]] \in Nat
      BY <1>0, <1>1, <1>16
    <3> QED
      BY <1>2, <1>4, <3>1
  <2>2. r.stamp[M[n + 1]] <= r.now
    BY <1>2, <1>4, <1>17
  <2> QED
    BY <1>12, <2>1, <2>2
<1> QED
  BY <1>3, <1>4, <1>11, <1>12, <1>13, <1>14, <1>15, <1>18, <1>19 DEF Lists, Linking, r, M, n

\* A variable that is not the youngest leaves the list.
Without(L, p) == [i \in 1 .. Len(L) - 1 |-> IF i < p THEN L[i] ELSE L[i + 1]]
LEMMA UnlinkedFacts ==
  ASSUME NEW q \in QueueSet, NEW L, Lists(q, L),
         NEW p \in 1 .. Len(L), p # Len(L)
  PROVE  LET r == Unlinked(q, L[p])
         IN /\ r \in QueueSet /\ Lists(r, Without(L, p))
            /\ r.search = q.search /\ r.now = q.now /\ r.stamp = q.stamp
<1> DEFINE n == Len(L)
           m == n - 1
           R == Without(L, p)
           r == Unlinked(q, L[p])
           old == IF p = 1 THEN 0 ELSE L[p - 1]
           new == L[p + 1]
<1>1. /\ n \in Nat /\ DOMAIN L = 1 .. n /\ MaxVar \in Nat /\ L \in Seq(Var)
      /\ \A i \in 1 .. n : /\ L[i] \in Var /\ q.stamp[L[i]] \in Nat /\ L[i] \in Nat
                          /\ L[i] # 0 /\ L[i] \in Link
      /\ \A i, j \in 1 .. n : L[i] = L[j] => i = j
      /\ Linking(q, L) /\ Rising(q, L)
      /\ \A i \in 1 .. n : q.stamp[L[i]] <= q.now
  BY ListFacts DEF Lists, Linking
<1>2. p \in 1 .. n /\ p # n
  OBVIOUS
<1>3. n # 0
  <2> HIDE DEF n
  <2> QED
    BY <1>1, <1>2
<1>4. /\ q.first = L[1] /\ q.last = L[n]
      /\ \A i \in 1 .. n : q.next[L[i]] = IF i = n THEN 0 ELSE L[i + 1]
      /\ \A i \in 1 .. n : q.prev[L[i]] = IF i = 1 THEN 0 ELSE L[i - 1]
      /\ \A i, j \in 1 .. n : i < j => q.stamp[L[i]] < q.stamp[L[j]]
      /\ n <= MaxVar
  BY <1>1, <1>3 DEF Linking, Rising
<1>5. /\ q = [prev |-> q.prev, next |-> q.next, stamp |-> q.stamp, first |-> q.first,
              last |-> q.last, search |-> q.search, now |-> q.now]
      /\ q.prev \in [Var -> Link] /\ q.next \in [Var -> Link] /\ q.stamp \in [Var -> Nat]
      /\ q.first \in Link /\ q.last \in Link /\ q.search \in Link /\ 0 \in Link
      /\ q.now \in 0 .. MaxStamp
  <2>1. 0 \in Link
    BY BranchingAssumption DEF Link
  <2> QED
    BY <2>1 DEF QueueSet
<1>6. R = [i \in 1 .. m |-> IF i < p THEN L[i] ELSE L[i + 1]]
  BY DEF Without
<1> HIDE DEF n, R
<1>7. /\ m \in Nat /\ m # 0 /\ n = m + 1 /\ p \in 1 .. m /\ p + 1 \in 1 .. n /\ 1 \in 1 .. m /\ m \in 1 .. m
      /\ p # 1 => p - 1 \in 1 .. n
      /\ \A i \in 1 .. m : i \in 1 .. n /\ i + 1 \in 1 .. n
  BY <1>1, <1>2
<1>8. /\ R \in Seq(Var) /\ Len(R) = m
      /\ \A i \in 1 .. m : R[i] = IF i < p THEN L[i] ELSE L[i + 1]
  <2> HIDE DEF m
  <2> QED
    BY <1>1, <1>6, <1>7
<1>9. q.prev[L[p]] = old /\ q.next[L[p]] = new /\ new # 0 /\ (old = 0 <=> p = 1)
  BY <1>1, <1>2, <1>4, <1>7
<1>10. r = [q EXCEPT !.first = IF old = 0 THEN new ELSE q.first,
                     !.next = IF old = 0 THEN q.next ELSE [q.next EXCEPT ![old] = new],
                     !.prev = [q.prev EXCEPT ![new] = old]]
  <2> HIDE DEF old, new
  <2> QED
    BY <1>9 DEF Unlinked
<1> DEFINE next == IF old = 0 THEN q.next ELSE [q.next EXCEPT ![old] = new]
           prev == [q.prev EXCEPT ![new] = old]
<1>11. old \in Link /\ new \in Link /\ new \in Var /\ (old # 0 => old \in Var)
  BY <1>1, <1>5, <1>7
<1>12. /\ next \in [Var -> Link] /\ prev \in [Var -> Link]
       /\ \A v \in Var : next[v] = IF old # 0 /\ v = old THEN new ELSE q.next[v]
       /\ \A v \in Var : prev[v] = IF v = new THEN old ELSE q.prev[v]
  <2> HIDE DEF old, new
  <2> QED
    BY <1>5, <1>11
<1> DEFINE first == IF old = 0 THEN new ELSE q.first
<1>13. first \in Link
  BY <1>5, <1>11
<1>14. r = [prev |-> prev, next |-> next, stamp |-> q.stamp, first |-> first,
            last |-> q.last, search |-> q.search, now |-> q.now]
  <2> HIDE DEF old, new
  <2> QED
    BY <1>5, <1>10
<1>15. first = R[1]
  BY <1>4, <1>7, <1>8, <1>9
<1> HIDE DEF r, first, next, prev
<1>16. /\ r.prev = prev /\ r.next = next /\ r.stamp = q.stamp /\ r.first = first
       /\ r.last = q.last /\ r.search = q.search /\ r.now = q.now /\ r \in QueueSet
  BY <1>5, <1>12, <1>13, <1>14 DEF QueueSet
<1>17. \A i \in 1 .. n : old # 0 => (L[i] = old <=> i = p - 1)
  BY <1>1, <1>7, <1>9
<1>18. \A i \in 1 .. n : L[i] = new <=> i = p + 1
  BY <1>1, <1>7
<1>19. q.last = R[m]
  BY <1>1, <1>4, <1>7, <1>8
<1>20. \A i \in 1 .. m : next[R[i]] = IF i = m THEN 0 ELSE R[i + 1]
  <2> TAKE i \in 1 .. m
  <2>2. CASE i < p
    <3>1. R[i] = L[i] /\ L[i] \in Var /\ i # n /\ q.next[L[i]] = L[i + 1] /\ i # m
      <4>1. i \in 1 .. n /\ i # n /\ i # m
        BY <1>7, <2>2
      <4> QED
        BY <1>1, <1>4, <1>8, <2>2, <4>1
    <3>2. CASE i = p - 1
      <4>1. old # 0 /\ i + 1 = p /\ p \in 1 .. m /\ R[p] = new
        BY <1>7, <1>8, <1>9, <3>2
      <4>2. L[i] = old
        BY <1>7, <1>17, <3>2, <4>1
      <4> QED
        BY <1>12, <3>1, <4>1, <4>2
    <3>3. CASE i # p - 1
      <4>1. i + 1 < p /\ i + 1 \in 1 .. m
        BY <1>7, <2>2, <3>3
      <4>2. ~ (old # 0 /\ L[i] = old)
        BY <1>7, <1>17, <3>3
      <4> QED
        BY <1>8, <1>12, <3>1, <4>1, <4>2
    <3> QED
      BY <3>2, <3>3
  <2>3. CASE ~ (i < p)
    <3>1. i + 1 \in 1 .. n /\ R[i] = L[i + 1] /\ L[i + 1] \in Var
      BY <1>1, <1>7, <1>8, <2>3
    <3>2. ~ (old # 0 /\ L[i + 1] = old)
      BY <1>7, <1>17, <2>3, <3>1
    <3>3. next[R[i]] = q.next[L[i + 1]]
      BY <1>12, <3>1, <3>2
    <3>4. CASE i = m
      <4>1. i + 1 = n
        BY <1>7, <3>4
      <4> QED
        BY <1>4, <3>1, <3>3, <3>4, <4>1
    <3>5. CASE i # m
      <4>1. i + 1 # n /\ i + 1 \in 1 .. m /\ ~ (i + 1 < p)
        BY <1>7, <2>3, <3>5
      <4> QED
        BY <1>4, <1>8, <3>1, <3>3, <3>5, <4>1
    <3> QED
      BY <3>4, <3>5
  <2> QED
    BY <2>2, <2>3
<1>21. \A i \in 1 .. m : prev[R[i]] = IF i = 1 THEN 0 ELSE R[i - 1]
  <2> TAKE i \in 1 .. m
  <2>1. CASE i < p
    <3>1. R[i] = L[i] /\ L[i] \in Var /\ L[i] # new /\ i \in 1 .. n
      BY <1>1, <1>7, <1>8, <1>18, <2>1
    <3>2. prev[R[i]] = IF i = 1 THEN 0 ELSE L[i - 1]
      <4>1. q.prev[L[i]] = IF i = 1 THEN 0 ELSE L[i - 1]
        BY <1>4, <3>1
      <4> QED
        BY <1>12, <3>1, <4>1
    <3>3. i # 1 => i - 1 \in 1 .. m /\ i - 1 < p
      BY <1>7, <2>1
    <3> QED
      BY <1>8, <3>2, <3>3
  <2>2. CASE i = p
    <3>1. R[i] = new
      BY <1>7, <1>8, <2>2
    <3>2. prev[R[i]] = old
      BY <1>11, <1>12, <3>1
    <3>3. i # 1 => i - 1 \in 1 .. m /\ i - 1 < p
      BY <1>7, <2>2
    <3> QED
      BY <1>8, <2>2, <3>2, <3>3
  <2>3. CASE p < i
    <3>1. /\ R[i] = L[i + 1] /\ L[i + 1] \in Var /\ L[i + 1] # new /\ i + 1 \in 1 .. n /\ i + 1 # 1
          /\ i # 1 /\ i - 1 \in 1 .. m /\ ~ (i - 1 < p) /\ i - 1 + 1 = i /\ i + 1 - 1 = i
      BY <1>1, <1>7, <1>8, <1>18, <2>3
    <3>2. prev[R[i]] = L[i]
      <4>1. q.prev[L[i + 1]] = IF i + 1 = 1 THEN 0 ELSE L[i + 1 - 1]
        BY <1>4, <3>1
      <4> QED
        BY <1>12, <3>1, <4>1
    <3> QED
      BY <1>8, <3>1, <3>2
  <2> QED
    BY <1>7, <2>1, <2>2, <2>3
<1> HIDE DEF m, old, new
<1>22. Linking(r, R)
  <2>1. m <= MaxVar
    BY <1>1, <1>4, <1>7
  <2> QED
    BY <1>7, <1>8, <1>15, <1>16, <1>19, <1>20, <1>21, <2>1 DEF Linking
<1>23. Rising(r, R)
  <2> SUFFICES ASSUME NEW i \in 1 .. m, NEW j \in 1 .. m, i < j
               PROVE  q.stamp[R[i]] < q.stamp[R[j]]
    BY <1>8, <1>16 DEF Rising
  <2> DEFINE a == IF i < p THEN i ELSE i + 1
             b == IF j < p THEN j ELSE j + 1
  <2>1. a \in 1 .. n /\ b \in 1 .. n /\ a < b
    BY <1>7
  <2>2. R[i] = L[a] /\ R[j] = L[b]
    BY <1>8
  <2> HIDE DEF a, b
  <2> QED
    BY <1>4, <2>1, <2>2
<1>24. \A i \in 1 .. m : q.stamp[R[i]] <= q.now
  BY <1>1, <1>7, <1>8
<1> QED
  BY <1>8, <1>16, <1>22, <1>23, <1>24 DEF Lists, r, R

\* A new variable is the youngest, and the cursor goes to it.
LEMMA GrownFacts ==
  ASSUME NEW n \in Nat, NEW q, NEW F, QueueOK(q, n, F), n < MaxVar, NEW G
  PROVE  QueueOK(Grown(q, n + 1), n + 1, G)
<1> DEFINE x == n + 1
           a == Advanced(q)
           r == Linked(a, x)
           g == Grown(q, x)
<1>1. PICK L : Lists(q, L) /\ Holding(L, n)
  BY DEF QueueOK
<1>2. q \in QueueSet /\ Len(L) = n /\ Range(L) = 1 .. n
  BY <1>1 DEF QueueOK, Holding
<1>3. /\ a \in QueueSet /\ Lists(a, L) /\ \A i \in 1 .. Len(L) : a.stamp[L[i]] < a.now
  BY <1>1, <1>2, AdvancedFacts
<1>4. DOMAIN L = 1 .. Len(L) /\ MaxVar \in Nat /\ L \in Seq(Var)
  BY <1>1, <1>2, ListFacts DEF Lists, Linking
<1>5. x \in Var /\ \A i \in 1 .. Len(L) : L[i] # x
  <2>1. x \in Var /\ x \notin 1 .. n
    BY <1>4 DEF Var
  <2>2. \A i \in 1 .. Len(L) : L[i] \in Range(L)
    BY <1>4 DEF Range
  <2> QED
    BY <1>2, <2>1, <2>2
<1> HIDE DEF a, x
<1>6. r \in QueueSet /\ Lists(r, Append(L, x))
  BY <1>2, <1>3, <1>5, LinkedFacts
<1>7. g = [r EXCEPT !.search = x]
  BY DEF Grown, a
<1> HIDE DEF r, g
<1> DEFINE M == Append(L, x)
<1>8. M \in Seq(Var) /\ Len(M) = n + 1 /\ M[n + 1] = x /\ \A i \in 1 .. n : M[i] = L[i]
  BY <1>2, <1>4, <1>5, AppendProperties
<1> HIDE DEF M
<1>9. Range(M) = 1 .. n + 1
  <2>1. DOMAIN M = 1 .. n + 1 /\ DOMAIN L = 1 .. n
    BY <1>2, <1>4, <1>8
  <2>2. \A i \in 1 .. n + 1 : i = n + 1 \/ i \in 1 .. n
    OBVIOUS
  <2>3. \A i \in 1 .. n : i \in 1 .. n + 1
    OBVIOUS
  <2>4. Range(M) = Range(L) \cup {x}
    BY <1>8, <2>1, <2>2, <2>3 DEF Range
  <2> QED
    BY <1>2, <2>4 DEF x
<1>10. /\ g.prev = r.prev /\ g.next = r.next /\ g.stamp = r.stamp /\ g.first = r.first
       /\ g.last = r.last /\ g.search = x /\ g.now = r.now /\ g \in QueueSet
  <2>1. x \in Link
    BY <1>4, <1>5 DEF Var, Link
  <2> QED
    BY <1>6, <1>7, <2>1 DEF QueueSet
<1>11. Lists(g, M)
  BY <1>6, <1>10 DEF Lists, Linking, Rising, M
<1>12. Cursor(g, M, G)
  <2>1. n + 1 \in 1 .. Len(M) /\ \A i \in 1 .. Len(M) : i <= n + 1
    BY <1>8
  <2> QED
    BY <1>8, <1>10, <2>1 DEF Cursor
<1> QED
  BY <1>8, <1>9, <1>10, <1>11, <1>12 DEF QueueOK, Holding, g, x

\* The cursor does not matter to the list.
LEMMA CursorAside ==
  ASSUME NEW q \in QueueSet, NEW c \in Link
  PROVE  LET r == [q EXCEPT !.search = c]
         IN /\ r \in QueueSet /\ r.search = c /\ r.last = q.last /\ r.prev = q.prev
            /\ r.next = q.next /\ r.stamp = q.stamp /\ r.now = q.now
            /\ \A L : Lists(q, L) => Lists(r, L)
<1> DEFINE r == [q EXCEPT !.search = c]
<1>1. /\ r.prev = q.prev /\ r.next = q.next /\ r.stamp = q.stamp /\ r.first = q.first
      /\ r.last = q.last /\ r.search = c /\ r.now = q.now /\ r \in QueueSet
  BY DEF QueueSet
<1> HIDE DEF r
<1>2. \A L : Lists(q, L) => Lists(r, L)
  BY <1>1 DEF Lists, Linking, Rising
<1> QED
  BY <1>1, <1>2 DEF r

\* An assigned variable becomes the youngest; the cursor lets go of it.
LEMMA MoveToFrontFacts ==
  ASSUME NEW n \in Nat, NEW q, NEW F, QueueOK(q, n, F),
         NEW x \in 1 .. n, NEW assigned, x \in assigned, F \cap assigned = {}
  PROVE  QueueOK(MoveToFront(q, x, assigned), n, F)
<1>1. CASE x = q.last
  BY <1>1 DEF MoveToFront
<1>2. CASE x # q.last
  <2> DEFINE kept == IF q.search # x THEN q.search
                     ELSE IF q.prev[x] # 0 THEN q.prev[x] ELSE q.next[x]
             q1 == [q EXCEPT !.search = kept]
             q2 == Unlinked(q1, x)
             q3 == Advanced(q2)
             g == Linked(q3, x)
  <2>1. MoveToFront(q, x, assigned) = g
    BY <1>2 DEF MoveToFront
  <2>2. PICK L : Lists(q, L) /\ Holding(L, n) /\ Cursor(q, L, F)
    BY DEF QueueOK
  <2>3. /\ q \in QueueSet /\ Len(L) = n /\ Range(L) = 1 .. n /\ DOMAIN L = 1 .. n
        /\ \A i \in 1 .. n : L[i] \in Var /\ L[i] # 0
        /\ \A i, j \in 1 .. n : L[i] = L[j] => i = j
        /\ Linking(q, L)
    BY <2>2, ListFacts DEF Lists, QueueOK, Holding
  <2>4. PICK p \in 1 .. n : L[p] = x
    BY <2>3 DEF Range
  <2>5. /\ n # 0 /\ q.last = L[n]
        /\ \A i \in 1 .. n : q.next[L[i]] = IF i = n THEN 0 ELSE L[i + 1]
        /\ \A i \in 1 .. n : q.prev[L[i]] = IF i = 1 THEN 0 ELSE L[i - 1]
        /\ n <= MaxVar /\ MaxVar \in Nat /\ x \in Var
    <3>1. n # 0
      OBVIOUS
    <3> QED
      BY <2>3, <2>4, <3>1, BranchingAssumption DEF Linking
  <2>6. p # n
    BY <1>2, <2>4, <2>5
  <2>7. kept \in Link
    BY <2>3, <2>5 DEF QueueSet
  <2> HIDE DEF kept
  <2>8. /\ q1 \in QueueSet /\ Lists(q1, L) /\ q1.search = kept
    BY <2>2, <2>3, <2>7, CursorAside
  <2> HIDE DEF q1
  <2> DEFINE R == Without(L, p)
  <2>9. q2 \in QueueSet /\ Lists(q2, R) /\ q2.search = kept
    BY <2>3, <2>4, <2>6, <2>8, UnlinkedFacts
  <2> HIDE DEF q2
  <2>10. /\ Len(R) = n - 1 /\ R \in Seq(Var)
         /\ \A i \in 1 .. n - 1 : R[i] = IF i < p THEN L[i] ELSE L[i + 1]
    <3>1. R \in Seq(Var) /\ R = [i \in 1 .. n - 1 |-> IF i < p THEN L[i] ELSE L[i + 1]]
      BY <2>3, <2>9 DEF Lists, Linking, Without
    <3>2. n - 1 \in Nat
      BY <2>5
    <3> HIDE DEF R
    <3> QED
      BY <3>1, <3>2
  <2> HIDE DEF R
  <2>11. q3 \in QueueSet /\ Lists(q3, R) /\ q3.search = kept
         /\ \A i \in 1 .. Len(R) : q3.stamp[R[i]] < q3.now
    <3>1. Len(R) < MaxVar
      BY <2>5, <2>10
    <3> QED
      BY <2>9, <3>1, AdvancedFacts
  <2> HIDE DEF q3
  <2>12. \A i \in 1 .. n - 1 : /\ i \in 1 .. n /\ i + 1 \in 1 .. n
                              /\ R[i] # x /\ R[i] \in Range(L)
    <3> TAKE i \in 1 .. n - 1
    <3>1. i \in 1 .. n /\ i + 1 \in 1 .. n /\ (i < p => i # p) /\ (~ (i < p) => i + 1 # p)
      OBVIOUS
    <3> DEFINE j == IF i < p THEN i ELSE i + 1
    <3>2. R[i] = L[j] /\ j \in 1 .. n /\ j # p
      BY <2>10, <3>1
    <3> HIDE DEF j
    <3>3. L[j] # x /\ L[j] \in Range(L)
      BY <2>3, <2>4, <3>2 DEF Range
    <3> QED
      BY <3>1, <3>2, <3>3
  <2>13. g \in QueueSet /\ Lists(g, Append(R, x)) /\ g.search = kept
    <3>1. \A i \in 1 .. Len(R) : R[i] # x
      BY <2>10, <2>12
    <3>2. Len(R) < MaxVar
      BY <2>5, <2>10
    <3>3. q3 \in QueueSet /\ Lists(q3, R) /\ \A i \in 1 .. Len(R) : q3.stamp[R[i]] < q3.now
      BY <2>11
    <3>4. Linked(q3, x) \in QueueSet /\ Lists(Linked(q3, x), Append(R, x))
          /\ Linked(q3, x).search = q3.search
      <4>1. x \in Var
        BY <2>5
      <4> QED
        BY <3>1, <3>2, <3>3, <4>1, LinkedFacts
    <3> QED
      BY <2>11, <3>4
  <2> HIDE DEF g
  <2> DEFINE M == Append(R, x)
  <2>14. /\ M \in Seq(Var) /\ Len(M) = n /\ M[n] = x /\ DOMAIN M = 1 .. n
         /\ \A i \in 1 .. n - 1 : M[i] = R[i]
    <3>1. /\ M \in Seq(Var) /\ Len(M) = Len(R) + 1 /\ M[Len(R) + 1] = x
          /\ \A i \in 1 .. Len(R) : M[i] = R[i]
      BY <2>5, <2>10, AppendProperties
    <3>2. Len(R) + 1 = n
      BY <2>10
    <3> HIDE DEF M
    <3> QED
      BY <2>10, <3>1, <3>2
  <2> HIDE DEF M
  <2>15. \A i \in 1 .. n : i # n => i \in 1 .. n - 1
    OBVIOUS
  <2>16. Range(M) = 1 .. n
    <3>1. \A i \in 1 .. n : M[i] \in 1 .. n
      BY <2>3, <2>12, <2>14, <2>15
    <3>2. ASSUME NEW y \in 1 .. n PROVE \E i \in 1 .. n : M[i] = y
      <4>1. PICK i \in 1 .. n : L[i] = y
        BY <2>3 DEF Range
      <4>2. CASE i = p
        <5>1. n \in 1 .. n
          BY <2>5
        <5> QED
          BY <2>4, <2>14, <4>1, <4>2, <5>1
      <4>3. CASE i < p
        <5>1. i \in 1 .. n - 1 /\ i \in 1 .. n
          BY <4>3
        <5> QED
          BY <2>10, <2>14, <4>1, <4>3, <5>1
      <4>4. CASE p < i
        <5>1. i - 1 \in 1 .. n - 1 /\ i - 1 \in 1 .. n /\ ~ (i - 1 < p) /\ i - 1 + 1 = i
          BY <4>4
        <5> QED
          BY <2>10, <2>14, <4>1, <5>1
      <4> QED
        BY <4>2, <4>3, <4>4
    <3>3. Range(M) = {M[i] : i \in 1 .. n}
      BY <2>14 DEF Range
    <3> QED
      BY <3>1, <3>2, <3>3
  <2>17. \A s \in 1 .. n : s # p =>
           LET t == IF s < p THEN s ELSE s - 1 IN t \in 1 .. n - 1 /\ t \in 1 .. n /\ M[t] = L[s]
    <3> SUFFICES ASSUME NEW s \in 1 .. n, s # p
                 PROVE LET t == IF s < p THEN s ELSE s - 1
                       IN t \in 1 .. n - 1 /\ t \in 1 .. n /\ M[t] = L[s]
      OBVIOUS
    <3>1. CASE s < p
      <4>1. s \in 1 .. n - 1
        BY <3>1
      <4> QED
        BY <2>10, <2>14, <3>1, <4>1
    <3>2. CASE ~ (s < p)
      <4>1. s - 1 \in 1 .. n - 1 /\ s - 1 \in 1 .. n /\ ~ (s - 1 < p) /\ s - 1 + 1 = s
        BY <3>2
      <4> QED
        BY <2>10, <2>14, <3>2, <4>1
    <3> QED
      BY <3>1, <3>2
  <2>18. /\ kept = 0 => q.search = 0
         /\ q.search = x => kept = IF p = 1 THEN L[2] ELSE L[p - 1]
         /\ q.search # x => kept = q.search
    <3>1. p # 1 => p - 1 \in 1 .. n
      OBVIOUS
    <3>2. p + 1 \in 1 .. n
      BY <2>6
    <3>3. q.next[x] = L[p + 1] /\ q.prev[x] = IF p = 1 THEN 0 ELSE L[p - 1]
      BY <2>4, <2>5, <2>6
    <3> QED
      BY <2>3, <2>5, <3>1, <3>2, <3>3 DEF kept
  <2>19. Cursor(g, M, F)
    <3>1. ASSUME kept # 0 PROVE \E s \in 1 .. n : kept = M[s]
      <4>1. CASE q.search # x
        <5>1. q.search # 0
          BY <2>18, <3>1, <4>1
        <5>2. PICK s \in 1 .. n : q.search = L[s]
          BY <2>2, <2>3, <5>1 DEF Cursor
        <5> QED
          BY <2>4, <2>17, <2>18, <4>1, <5>2
      <4>2. CASE q.search = x
        <5>1. CASE p = 1
          <6>1. 2 \in 1 .. n /\ 2 # p
            BY <2>6, <5>1
          <6> QED
            BY <2>17, <2>18, <4>2, <5>1, <6>1
        <5>2. CASE p # 1
          <6>1. p - 1 \in 1 .. n /\ p - 1 # p
            BY <5>2
          <6> QED
            BY <2>17, <2>18, <4>2, <5>2, <6>1
        <5> QED
          BY <5>1, <5>2
      <4> QED
        BY <4>1, <4>2
    <3>2. ASSUME NEW i \in 1 .. n, M[i] \in F PROVE \E s \in 1 .. n : kept = M[s] /\ i <= s
      <4>1. i # n /\ i \in 1 .. n - 1
        BY <2>14, <2>15, <3>2
      <4> DEFINE e == IF i < p THEN i ELSE i + 1
      <4>2. e \in 1 .. n /\ M[i] = L[e] /\ e # p
        BY <2>10, <2>14, <4>1
      <4>3. PICK s \in 1 .. n : q.search = L[s] /\ e <= s
        BY <2>2, <2>3, <3>2, <4>2 DEF Cursor
      <4>4. CASE s = p
        <5>1. i < p /\ p # 1 /\ p - 1 \in 1 .. n /\ p - 1 # p /\ p - 1 < p /\ i <= p - 1
          BY <4>1, <4>2, <4>3, <4>4
        <5>2. kept = L[p - 1]
          BY <2>4, <2>18, <4>3, <4>4, <5>1
        <5>3. M[p - 1] = L[p - 1]
          BY <2>17, <5>1
        <5> QED
          BY <5>1, <5>2, <5>3
      <4>5. CASE s # p
        <5>1. kept = L[s]
          BY <2>3, <2>4, <2>18, <4>3, <4>5
        <5> DEFINE u == IF s < p THEN s ELSE s - 1
        <5>2. u \in 1 .. n /\ M[u] = L[s]
          BY <2>17, <4>5
        <5>3. i <= u
          BY <4>1, <4>2, <4>3, <4>5
        <5> HIDE DEF u
        <5> QED
          BY <5>1, <5>2, <5>3
      <4> QED
        BY <4>4, <4>5
    <3> QED
      BY <2>13, <2>14, <3>1, <3>2 DEF Cursor
  <2> QED
    BY <2>1, <2>13, <2>14, <2>16, <2>19 DEF QueueOK, Holding, M
<1> QED
  BY <1>1, <1>2

\* The cursor stands at the younger of itself and a variable set free.
LEMMA QueueUnassignFacts ==
  ASSUME NEW n \in Nat, NEW q, NEW F, QueueOK(q, n, F), NEW x \in 1 .. n
  PROVE  QueueOK(QueueUnassign(q, x), n, F \cup {x})
<1> DEFINE r == QueueUnassign(q, x)
<1>1. PICK L : Lists(q, L) /\ Holding(L, n) /\ Cursor(q, L, F)
  BY DEF QueueOK
<1>2. /\ q \in QueueSet /\ Len(L) = n /\ Range(L) = 1 .. n /\ DOMAIN L = 1 .. n
      /\ \A i \in 1 .. n : L[i] \in Var /\ L[i] # 0 /\ L[i] \in Link /\ q.stamp[L[i]] \in Nat
      /\ \A i, j \in 1 .. n : L[i] = L[j] => i = j
      /\ \A i, j \in 1 .. n : i < j => q.stamp[L[i]] < q.stamp[L[j]]
  BY <1>1, ListFacts DEF Lists, QueueOK, Holding, Rising
<1>3. PICK p \in 1 .. n : L[p] = x
  BY <1>2 DEF Range
<1>4. /\ q.search # 0 => \E s \in 1 .. n : q.search = L[s]
      /\ \A i \in 1 .. n : L[i] \in F => \E s \in 1 .. n : q.search = L[s] /\ i <= s
  BY <1>1, <1>2 DEF Cursor
<1>5. CASE q.search = 0 \/ q.stamp[x] > q.stamp[q.search]
  <2>1. r = [q EXCEPT !.search = x]
    BY <1>5 DEF QueueUnassign
  <2>2. r \in QueueSet /\ Lists(r, L) /\ r.search = x
    BY <1>1, <1>2, <1>3, <2>1, CursorAside
  <2> HIDE DEF r
  <2>3. ASSUME NEW i \in 1 .. n, L[i] \in F \cup {x} PROVE i <= p
    <3>1. CASE L[i] = x
      BY <1>2, <1>3, <3>1
    <3>2. CASE L[i] \in F
      <4>1. PICK s \in 1 .. n : q.search = L[s] /\ i <= s
        BY <1>4, <3>2
      <4>2. q.stamp[L[p]] > q.stamp[L[s]]
        BY <1>2, <1>3, <1>5, <4>1
      <4>3. ~ (p < s) /\ p # s
        BY <1>2, <4>2
      <4> QED
        BY <4>1, <4>3
    <3> QED
      BY <2>3, <3>1, <3>2
  <2>4. Cursor(r, L, F \cup {x})
    BY <1>2, <1>3, <2>2, <2>3 DEF Cursor
  <2> QED
    BY <1>1, <2>2, <2>4 DEF QueueOK, r
<1>6. CASE ~ (q.search = 0 \/ q.stamp[x] > q.stamp[q.search])
  <2>1. r = q
    BY <1>6 DEF QueueUnassign
  <2> HIDE DEF r
  <2>2. PICK s \in 1 .. n : q.search = L[s]
    BY <1>4, <1>6
  <2>3. p <= s
    BY <1>2, <1>3, <1>6, <2>2
  <2>4. Cursor(r, L, F \cup {x})
    BY <1>2, <1>3, <1>4, <2>1, <2>2, <2>3 DEF Cursor
  <2> QED
    BY <1>1, <1>2, <2>1, <2>4 DEF QueueOK, r
<1> QED
  BY <1>5, <1>6

\* The cursor walks back to the youngest free variable, if there is one.
LEMMA WalkFacts ==
  ASSUME NEW n \in Nat, NEW q, NEW F, QueueOK(q, n, F),
         NEW assigned, F \cap assigned = {}
  PROVE  LET r == Walk(q, assigned)
         IN /\ QueueOK(r, n, F)
            /\ r.search = 0 => F \cap (1 .. n) = {}
            /\ r.search # 0 => r.search \in (1 .. n) \ assigned
<1> DEFINE r == Walk(q, assigned)
           m == MaxVar
<1>1. PICK L : Lists(q, L) /\ Holding(L, n) /\ Cursor(q, L, F)
  BY DEF QueueOK
<1>2. m \in Nat /\ m \in 0 .. m /\ 0 \in 0 .. m
  BY BranchingAssumption
<1> DEFINE U == Link
           Behind(c, s) == /\ c = L[s] /\ s \in 1 .. n
                           /\ \A i \in 1 .. n : L[i] \in F => i <= s
           At(k, c) == \/ c = 0 /\ \A i \in 1 .. n : L[i] \notin F
                       \/ \E s \in 1 .. n : Behind(c, s) /\ (c \notin assigned \/ s <= m - k)
           S == [k \in 0 .. m |-> {c \in U : At(k, c)}]
           a == q.search
           Is(g) == g = [k \in 0 .. m |-> IF k = 0 THEN a ELSE Older(q, g[k - 1], assigned)]
           cursor == CHOOSE g : Is(g)
           step == [k \in 1 .. m |-> [c \in U |-> IF Older(q, c, assigned) \in U
                                                  THEN Older(q, c, assigned) ELSE c]]
<1>3. /\ q \in QueueSet /\ Len(L) = n /\ Range(L) = 1 .. n /\ DOMAIN L = 1 .. n
      /\ \A i \in 1 .. n : L[i] \in Var /\ L[i] # 0 /\ L[i] \in Link
      /\ \A i, j \in 1 .. n : L[i] = L[j] => i = j
      /\ \A i \in 1 .. n : q.prev[L[i]] = IF i = 1 THEN 0 ELSE L[i - 1]
      /\ n <= m
  <2>1. q \in QueueSet /\ Len(L) = n /\ Range(L) = 1 .. n /\ Linking(q, L) /\ Rising(q, L)
    BY <1>1 DEF Lists, QueueOK, Holding
  <2>2. /\ Len(L) \in Nat /\ DOMAIN L = 1 .. Len(L)
        /\ \A i \in 1 .. Len(L) : L[i] \in Var /\ L[i] # 0 /\ L[i] \in Link
        /\ \A i, j \in 1 .. Len(L) : L[i] = L[j] => i = j
    BY <2>1, ListFacts
  <2>3. n <= m /\ \A i \in 1 .. n : q.prev[L[i]] = IF i = 1 THEN 0 ELSE L[i - 1]
    BY <2>1 DEF Linking
  <2> QED
    BY <2>1, <2>2, <2>3
<1>4. /\ q.search # 0 => \E s \in 1 .. n : q.search = L[s]
      /\ \A i \in 1 .. n : L[i] \in F => \E s \in 1 .. n : q.search = L[s] /\ i <= s
  BY <1>1, <1>3 DEF Cursor
<1>5. a \in S[0]
  <2>1. a \in U
    BY <1>3 DEF QueueSet
  <2>2. At(0, a)
    <3>1. CASE q.search = 0
      BY <1>3, <1>4, <3>1
    <3>2. CASE q.search # 0
      <4>1. PICK s \in 1 .. n : q.search = L[s]
        BY <1>4, <3>2
      <4>2. \A i \in 1 .. n : L[i] \in F => i <= s
        BY <1>3, <1>4, <4>1
      <4>3. s <= m - 0
        BY <1>2, <1>3, <4>1
      <4> QED
        BY <4>1, <4>2, <4>3
    <3> QED
      BY <3>1, <3>2
  <2> HIDE DEF At, a
  <2> QED
    BY <1>2, <2>1, <2>2
<1>6. ASSUME NEW k \in 1 .. m, NEW c \in S[k - 1] PROVE Older(q, c, assigned) \in S[k]
  <2>1. k - 1 \in 0 .. m /\ k \in 0 .. m
    BY <1>2
  <2>2. c \in U /\ At(k - 1, c)
    <3> HIDE DEF At, U
    <3> QED
      BY <1>6, <2>1
  <2> DEFINE d == Older(q, c, assigned)
  <2>3. d \in U /\ At(k, d)
    <3>1. CASE c = 0 \/ c \notin assigned
      <4>1. d = c
        BY <3>1 DEF Older
      <4>2. At(k, c)
        <5>1. CASE c = 0
          <6>1. \A s \in 1 .. n : c # L[s]
            BY <1>3, <5>1
          <6> QED
            BY <2>2, <5>1, <6>1
        <5>2. CASE c # 0
          BY <2>2, <3>1, <5>2
        <5> QED
          BY <5>1, <5>2
      <4> HIDE DEF At, d
      <4> QED
        BY <2>2, <4>1, <4>2
    <3>2. CASE c # 0 /\ c \in assigned
      <4>1. PICK s \in 1 .. n : Behind(c, s) /\ s <= m - (k - 1)
        BY <2>2, <3>2
      <4>2. d = q.prev[L[s]]
        BY <3>2, <4>1 DEF Older
      <4>3. L[s] \notin F
        BY <3>2, <4>1
      <4>4. \A i \in 1 .. n : L[i] \in F => i <= s /\ i # s
        BY <4>1, <4>3
      <4>5. CASE s = 1
        <5>1. d = 0 /\ 0 \in U
          BY <1>2, <1>3, <4>2, <4>5 DEF Link
        <5>2. \A i \in 1 .. n : L[i] \notin F
          BY <4>4, <4>5
        <5> QED
          BY <5>1, <5>2
      <4>6. CASE s # 1
        <5>1. s - 1 \in 1 .. n /\ s - 1 <= m - k
          BY <1>2, <4>1, <4>6
        <5>2. d = L[s - 1] /\ d \in U
          BY <1>3, <4>2, <4>6, <5>1
        <5>3. \A i \in 1 .. n : L[i] \in F => i <= s - 1
          BY <4>4
        <5> HIDE DEF d
        <5> QED
          BY <5>1, <5>2, <5>3
      <4> QED
        BY <4>5, <4>6
    <3> QED
      BY <3>1, <3>2
  <2> HIDE DEF At, d, U
  <2> QED
    BY <2>1, <2>3 DEF d
<1>7. Walk(q, assigned) = [q EXCEPT !.search = cursor[m]]
  BY DEF Walk
<1>8. \E g : Is(g)
  <2>1. S \in [0 .. m -> SUBSET U] /\ step \in [1 .. m -> [U -> U]]
    OBVIOUS
  <2>2. ASSUME NEW k \in 1 .. m, NEW x \in S[k - 1]
        PROVE  x \in U /\ step[k][x] = Older(q, x, assigned) /\ step[k][x] \in S[k]
    <3>1. k - 1 \in 0 .. m /\ k \in 0 .. m
      BY <1>2
    <3>2. x \in U /\ Older(q, x, assigned) \in S[k]
      BY <1>6, <2>1, <2>2, <3>1
    <3>3. Older(q, x, assigned) \in U
      BY <2>1, <3>1, <3>2
    <3> HIDE DEF U, S
    <3> QED
      BY <3>2, <3>3
  <2> HIDE DEF S, a, step, U, m
  <2>3. PICK g : IsChain(g, m, a, step) /\ \A k \in 0 .. m : g[k] \in S[k]
    BY <1>2, <1>5, <2>1, <2>2, Folding
  <2>4. \A k \in 0 .. m : k # 0 => k \in 1 .. m /\ k - 1 \in 0 .. m
    BY <1>2
  <2>5. \A k \in 0 .. m : k # 0 => step[k][g[k - 1]] = Older(q, g[k - 1], assigned)
    BY <2>2, <2>3, <2>4
  <2>6. g = [k \in 0 .. m |-> IF k = 0 THEN a ELSE Older(q, g[k - 1], assigned)]
    <3>1. g = [k \in 0 .. m |-> IF k = 0 THEN a ELSE step[k][g[k - 1]]]
      BY <2>3 DEF IsChain
    <3>2. \A k \in 0 .. m : (IF k = 0 THEN a ELSE step[k][g[k - 1]])
                            = (IF k = 0 THEN a ELSE Older(q, g[k - 1], assigned))
      BY <2>5
    <3> QED
      BY <3>1, <3>2
  <2> QED
    BY <2>6
<1>9. Is(cursor)
  <2> HIDE DEF Is
  <2> QED
    BY <1>8
<1> HIDE DEF cursor
<1>10. cursor[m] \in S[m]
  <2>1. cursor[0] = a /\ \A k \in 1 .. m : cursor[k] = Older(q, cursor[k - 1], assigned)
    <3>1. \A k \in 0 .. m : cursor[k] = IF k = 0 THEN a ELSE Older(q, cursor[k - 1], assigned)
      BY <1>9
    <3> HIDE DEF Is, a, m
    <3> QED
      BY <1>2, <3>1
  <2> HIDE DEF S, a, Is, m
  <2>2. \A k \in 0 .. m : cursor[k] \in S[k]
    BY <1>2, <1>5, <1>6, <2>1, Turns
  <2> QED
    BY <1>2, <2>2
<1>11. cursor[m] \in U /\ At(m, cursor[m])
  <2> HIDE DEF At, U, m
  <2> QED
    BY <1>2, <1>10
<1> DEFINE c == cursor[m]
<1>12. r.search = c /\ r \in QueueSet /\ Lists(r, L)
  BY <1>1, <1>3, <1>7, <1>11, CursorAside
<1>13. At(m, c)
  BY <1>11
<1> HIDE DEF r, c
<1>14. CASE c = 0
  <2>1. \A i \in 1 .. n : L[i] \notin F
    <3>1. \A s \in 1 .. n : c # L[s]
      BY <1>3, <1>14
    <3> QED
      BY <1>13, <3>1
  <2>2. F \cap (1 .. n) = {}
    BY <1>3, <2>1 DEF Range
  <2>3. Cursor(r, L, F)
    BY <1>3, <1>12, <1>14, <2>1 DEF Cursor
  <2> QED
    BY <1>1, <1>12, <1>14, <2>2, <2>3 DEF QueueOK, r
<1>15. CASE c # 0
  <2>1. PICK s \in 1 .. n : Behind(c, s) /\ (c \notin assigned \/ s <= m - m)
    BY <1>13, <1>15
  <2>2. c \notin assigned
    BY <1>2, <2>1
  <2>3. c \in 1 .. n
    BY <1>3, <2>1 DEF Range
  <2>4. Cursor(r, L, F)
    BY <1>3, <1>12, <2>1 DEF Cursor
  <2> QED
    BY <1>1, <1>12, <1>15, <2>2, <2>3, <2>4 DEF QueueOK, r
<1> QED
  BY <1>14, <1>15

\* The walk may also begin at the youngest.
LEMMA ResetSearchFacts ==
  ASSUME NEW n \in Nat, NEW q, NEW F, QueueOK(q, n, F),
         NEW assigned, F \cap assigned = {}
  PROVE  QueueOK(ResetSearch(q, assigned), n, F)
<1> DEFINE r == [q EXCEPT !.search = q.last]
<1>1. PICK L : Lists(q, L) /\ Holding(L, n)
  BY DEF QueueOK
<1>2. q \in QueueSet /\ q.last \in Link /\ Len(L) = n
      /\ q.last = IF n = 0 THEN 0 ELSE L[n]
  BY <1>1 DEF QueueOK, QueueSet, Lists, Linking, Holding
<1>3. r \in QueueSet /\ Lists(r, L) /\ r.search = q.last
  BY <1>1, <1>2, CursorAside
<1> HIDE DEF r
<1>4. Cursor(r, L, F)
  <2>1. n # 0 => n \in 1 .. n
    OBVIOUS
  <2>2. n = 0 => 1 .. n = {}
    OBVIOUS
  <2>3. CASE n = 0
    BY <1>2, <1>3, <2>2, <2>3 DEF Cursor
  <2>4. CASE n # 0
    <3>1. \A i \in 1 .. n : i <= n
      OBVIOUS
    <3> QED
      BY <1>2, <1>3, <2>1, <2>4, <3>1 DEF Cursor
  <2> QED
    BY <2>3, <2>4
<1>5. QueueOK(r, n, F)
  BY <1>1, <1>3, <1>4 DEF QueueOK
<1> QED
  BY <1>5, WalkFacts DEF ResetSearch, r

\* Some member of a set has the least number.
LEMMA Smallest ==
  ASSUME NEW f, NEW D, D # {}, \A y \in D : f[y] \in Nat
  PROVE  \E y \in D : \A z \in D : f[y] <= f[z]
<1> DEFINE T == {t \in Nat : \E y \in D : f[y] = t}
<1>1. T \in SUBSET Nat /\ T # {} /\ \A y \in D : f[y] \in T
  OBVIOUS
<1>2. \A t \in T : \E y \in D : f[y] = t
  OBVIOUS
<1> HIDE DEF T
<1>3. PICK t \in T : \A u \in T : t <= u
  BY <1>1, LeastNat
<1>4. PICK y \in D : f[y] = t
  BY <1>2
<1> QED
  BY <1>1, <1>3, <1>4

\* What the analysis saw moves to the young end.
LEMMA BumpAnalyzedFacts ==
  ASSUME NEW n \in Nat, NEW q, NEW F, QueueOK(q, n, F),
         NEW assigned, F \cap assigned = {}, NEW seen, IsFiniteSet(seen),
         seen \subseteq 1 .. n, seen \subseteq assigned
  PROVE  QueueOK(BumpAnalyzed(q, seen, assigned), n, F)
<1> DEFINE m == Cardinality(seen)
           U == [queue : QueueSet, left : SUBSET seen]
           S == [k \in 0 .. m |-> {s \in U : QueueOK(s.queue, n, F) /\ Cardinality(s.left) = m - k}]
           a == [queue |-> q, left |-> seen]
           Is(g) == g = [k \in 0 .. m |-> IF k = 0 THEN a ELSE BumpedOldest(g[k - 1], q, assigned)]
           bumped == CHOOSE g : Is(g)
           step == [k \in 1 .. m |-> [s \in U |-> IF BumpedOldest(s, q, assigned) \in U
                                                  THEN BumpedOldest(s, q, assigned) ELSE s]]
<1>1. BumpAnalyzed(q, seen, assigned) = bumped[m].queue
  BY DEF BumpAnalyzed
<1>2. m \in Nat /\ m \in 0 .. m /\ 0 \in 0 .. m /\ q \in QueueSet /\ MaxVar \in Nat
      /\ \A x \in 1 .. n : x \in Nat
  <2>1. m \in Nat
    BY FS_CardinalityType
  <2> HIDE DEF m
  <2> QED
    BY <2>1, BranchingAssumption DEF QueueOK
<1>3. a \in S[0]
  <2>1. m - 0 = m
    BY <1>2
  <2>2. a \in U
    BY <1>2
  <2> HIDE DEF U
  <2> QED
    BY <1>2, <2>1, <2>2
<1>4. ASSUME NEW k \in 1 .. m, NEW s \in S[k - 1] PROVE BumpedOldest(s, q, assigned) \in S[k]
  <2>1. k - 1 \in 0 .. m /\ k \in 0 .. m /\ m - (k - 1) # 0 /\ m - (k - 1) - 1 = m - k
    <3> HIDE DEF m
    <3> QED
      BY <1>2
  <2>2. s \in U /\ QueueOK(s.queue, n, F) /\ Cardinality(s.left) = m - (k - 1)
    <3> HIDE DEF U, m
    <3> QED
      BY <1>4, <2>1
  <2>3. s.queue \in QueueSet /\ s.left \subseteq seen
    BY <2>2
  <2>4. s.left # {} /\ IsFiniteSet(s.left)
    BY <2>1, <2>2, <2>3, FS_Subset, FS_EmptySet
  <2> DEFINE x == Oldest(q, s.left)
  <2>5. x \in s.left
    <3>1. \A y \in s.left : q.stamp[y] \in Nat
      <4>1. \A y \in s.left : y \in Var
        <5>1. n <= MaxVar
          <6>1. PICK L : Lists(q, L) /\ Holding(L, n)
            BY DEF QueueOK
          <6> QED
            BY <6>1 DEF Lists, Linking, Holding
        <5> QED
          BY <1>2, <2>3, <5>1 DEF Var
      <4> QED
        BY <1>2, <4>1 DEF QueueSet
    <3>4. \E y \in s.left : \A z \in s.left : q.stamp[y] <= q.stamp[z]
      BY <2>4, <3>1, Smallest
    <3> QED
      BY <3>4 DEF Oldest
  <2> HIDE DEF x
  <2>6. BumpedOldest(s, q, assigned) = [queue |-> MoveToFront(s.queue, x, assigned), left |-> s.left \ {x}]
    BY DEF BumpedOldest, x
  <2>7. x \in 1 .. n /\ x \in assigned
    BY <2>3, <2>5
  <2>8. QueueOK(MoveToFront(s.queue, x, assigned), n, F)
    BY <2>2, <2>7, MoveToFrontFacts
  <2>9. Cardinality(s.left \ {x}) = m - k
    <3>1. Cardinality(s.left \ {x}) = Cardinality(s.left) - 1
      BY <2>4, <2>5, FS_RemoveElement
    <3> HIDE DEF m
    <3> QED
      BY <2>1, <2>2, <3>1
  <2>10. MoveToFront(s.queue, x, assigned) \in QueueSet
    BY <2>8 DEF QueueOK
  <2> DEFINE t == [queue |-> MoveToFront(s.queue, x, assigned), left |-> s.left \ {x}]
  <2>11. t \in U
    BY <2>3, <2>10
  <2>12. t.queue = MoveToFront(s.queue, x, assigned) /\ t.left = s.left \ {x}
    OBVIOUS
  <2>13. BumpedOldest(s, q, assigned) = t
    BY <2>6
  <2> HIDE DEF t, U, m
  <2> QED
    BY <2>1, <2>8, <2>9, <2>11, <2>12, <2>13
<1>5. \E g : Is(g)
  <2>1. S \in [0 .. m -> SUBSET U] /\ step \in [1 .. m -> [U -> U]]
    OBVIOUS
  <2>2. ASSUME NEW k \in 1 .. m, NEW x \in S[k - 1]
        PROVE  x \in U /\ step[k][x] = BumpedOldest(x, q, assigned) /\ step[k][x] \in S[k]
    <3>1. k - 1 \in 0 .. m /\ k \in 0 .. m
      BY <1>2
    <3>2. x \in U /\ BumpedOldest(x, q, assigned) \in S[k]
      BY <1>4, <2>1, <2>2, <3>1
    <3>3. BumpedOldest(x, q, assigned) \in U
      BY <2>1, <3>1, <3>2
    <3> HIDE DEF U, S
    <3> QED
      BY <3>2, <3>3
  <2> HIDE DEF S, a, step, U, m
  <2>3. PICK g : IsChain(g, m, a, step) /\ \A k \in 0 .. m : g[k] \in S[k]
    BY <1>2, <1>3, <2>1, <2>2, Folding
  <2>4. \A k \in 0 .. m : k # 0 => k \in 1 .. m /\ k - 1 \in 0 .. m
    BY <1>2
  <2>5. \A k \in 0 .. m : k # 0 => step[k][g[k - 1]] = BumpedOldest(g[k - 1], q, assigned)
    BY <2>2, <2>3, <2>4
  <2>6. g = [k \in 0 .. m |-> IF k = 0 THEN a ELSE BumpedOldest(g[k - 1], q, assigned)]
    <3>1. g = [k \in 0 .. m |-> IF k = 0 THEN a ELSE step[k][g[k - 1]]]
      BY <2>3 DEF IsChain
    <3>2. \A k \in 0 .. m : (IF k = 0 THEN a ELSE step[k][g[k - 1]])
                            = (IF k = 0 THEN a ELSE BumpedOldest(g[k - 1], q, assigned))
      BY <2>5
    <3> QED
      BY <3>1, <3>2
  <2> QED
    BY <2>6
<1>6. Is(bumped)
  <2> HIDE DEF Is
  <2> QED
    BY <1>5
<1> HIDE DEF bumped
<1>7. bumped[m] \in S[m]
  <2>1. bumped[0] = a /\ \A k \in 1 .. m : bumped[k] = BumpedOldest(bumped[k - 1], q, assigned)
    <3>1. \A k \in 0 .. m : bumped[k] = IF k = 0 THEN a ELSE BumpedOldest(bumped[k - 1], q, assigned)
      BY <1>6
    <3> HIDE DEF Is, a, m
    <3> QED
      BY <1>2, <3>1
  <2> HIDE DEF S, a, Is, m
  <2>2. \A k \in 0 .. m : bumped[k] \in S[k]
    BY <1>2, <1>3, <1>4, <2>1, Turns
  <2> QED
    BY <1>2, <2>2
<1> HIDE DEF U, m
<1> QED
  BY <1>1, <1>2, <1>7

-----------------------------------------------------------------------------
(***************************************************************************)
(* All orders together, for n variables of which F are free; both says     *)
(* whether the second heap is kept.                                        *)
(***************************************************************************)
Marks == [Var -> BOOLEAN]
States == [act : Activities, ord : HeapSet, lact : Activities, lord : HeapSet, queue : QueueSet,
           stale : Marks, aged : Marks, rescaled : BOOLEAN]
StateOK(s, n, F, both) ==
  /\ s \in States
  /\ HeapOK(s.ord) /\ (~s.rescaled => Ordered(s.ord, s.act)) /\ F \in SUBSET Members(s.ord)
  /\ HeapOK(s.lord) /\ Ordered(s.lord, s.lact) /\ (both => F \in SUBSET Members(s.lord))
  /\ Members(s.ord) \in SUBSET (1 .. n) /\ Members(s.lord) \in SUBSET (1 .. n)
  /\ QueueOK(s.queue, n, F)

\* What holds for the free variables holds for fewer.
LEMMA FewerFacts ==
  ASSUME NEW s, NEW n, NEW F, NEW both, StateOK(s, n, F, both), NEW G \in SUBSET F
  PROVE  StateOK(s, n, G, both)
<1>1. QueueOK(s.queue, n, G)
  <2>1. PICK L : Lists(s.queue, L) /\ Holding(L, n) /\ Cursor(s.queue, L, F)
    BY DEF StateOK, QueueOK
  <2>2. Cursor(s.queue, L, G)
    BY <2>1 DEF Cursor
  <2> QED
    BY <2>1, <2>2 DEF StateOK, QueueOK
<1> QED
  BY <1>1 DEF StateOK

\* LRB scores a variable.
LEMMA ScoredFacts ==
  ASSUME NEW s, NEW n, NEW F, StateOK(s, n, F, UsesTransfer), NEW x \in Var, NEW value \in Nat
  PROVE  LET r == Scored(s, x, value)
         IN StateOK(r, n, F, UsesTransfer) /\ r.aged = s.aged /\ r.stale = s.stale
<1> DEFINE r == Scored(s, x, value)
<1>1. s \in States
  BY DEF StateOK
<1>2. CASE UsesTransfer
  <2> DEFINE act == [s.lact EXCEPT ![x] = value]
             lord == Update(s.lord, x, s.lact[x], act)
  <2>1. r = [s EXCEPT !.lact = act, !.lord = lord]
    BY <1>2 DEF Scored
  <2>2. /\ act \in Activities /\ HeapOK(lord) /\ Members(lord) = Members(s.lord)
        /\ Ordered(lord, act)
    <3>1. s.lact \in Activities /\ HeapOK(s.lord) /\ Ordered(s.lord, s.lact)
      BY <1>1 DEF States, StateOK
    <3> QED
      BY <3>1, UpdateFacts
  <2> HIDE DEF act, lord
  <2>3. /\ r.act = s.act /\ r.ord = s.ord /\ r.lact = act /\ r.lord = lord /\ r.queue = s.queue
        /\ r.stale = s.stale /\ r.aged = s.aged /\ r.rescaled = s.rescaled /\ r \in States
    BY <1>1, <2>1, <2>2 DEF States, HeapOK
  <2> HIDE DEF r
  <2> QED
    BY <2>2, <2>3 DEF StateOK, r
<1>3. CASE ~UsesTransfer
  <2> DEFINE act == [s.act EXCEPT ![x] = value]
             ord == Update(s.ord, x, s.act[x], act)
  <2>1. r = [s EXCEPT !.act = act, !.ord = ord]
    BY <1>3 DEF Scored
  <2>2. /\ act \in Activities /\ HeapOK(ord) /\ Members(ord) = Members(s.ord)
        /\ Ordered(s.ord, s.act) => Ordered(ord, act)
    <3>1. s.act \in Activities /\ HeapOK(s.ord)
      BY <1>1 DEF States, StateOK
    <3> QED
      BY <3>1, UpdateFacts
  <2> HIDE DEF act, ord
  <2>3. /\ r.act = act /\ r.ord = ord /\ r.lact = s.lact /\ r.lord = s.lord /\ r.queue = s.queue
        /\ r.stale = s.stale /\ r.aged = s.aged /\ r.rescaled = s.rescaled /\ r \in States
    BY <1>1, <2>1, <2>2 DEF States, HeapOK
  <2> HIDE DEF r
  <2> QED
    BY <2>2, <2>3 DEF StateOK, r
<1> QED
  BY <1>2, <1>3

\* LRB's marks matter to nothing else.
LEMMA MarkedFacts ==
  ASSUME NEW s, NEW n, NEW F, NEW both, StateOK(s, n, F, both), NEW stales \in Marks, NEW ages \in Marks
  PROVE  LET r == [s EXCEPT !.stale = stales, !.aged = ages]
         IN StateOK(r, n, F, both) /\ r.aged = ages /\ r.stale = stales
<1> DEFINE r == [s EXCEPT !.stale = stales, !.aged = ages]
<1>1. /\ r.act = s.act /\ r.ord = s.ord /\ r.lact = s.lact /\ r.lord = s.lord /\ r.queue = s.queue
      /\ r.stale = stales /\ r.aged = ages /\ r.rescaled = s.rescaled /\ r \in States
  BY DEF States, StateOK
<1> HIDE DEF r
<1> QED
  BY <1>1 DEF StateOK, r

LEMMA MarkFacts ==
  ASSUME NEW s, NEW n, NEW F, NEW both, StateOK(s, n, F, both), NEW x \in Var
  PROVE  /\ LET r == [s EXCEPT !.stale[x] = FALSE]
            IN StateOK(r, n, F, both) /\ r.aged = s.aged
         /\ LET r == [s EXCEPT !.aged[x] = FALSE] IN StateOK(r, n, F, both)
<1> DEFINE stales == [s.stale EXCEPT ![x] = FALSE]
           ages == [s.aged EXCEPT ![x] = FALSE]
           t == [s EXCEPT !.stale = stales, !.aged = s.aged]
           u == [s EXCEPT !.stale = s.stale, !.aged = ages]
<1>1. s = [act |-> s.act, ord |-> s.ord, lact |-> s.lact, lord |-> s.lord, queue |-> s.queue,
           stale |-> s.stale, aged |-> s.aged, rescaled |-> s.rescaled]
      /\ s.stale \in Marks /\ s.aged \in Marks
  BY DEF States, StateOK
<1>2. stales \in Marks /\ ages \in Marks
  BY <1>1 DEF Marks
<1>3. [s EXCEPT !.stale[x] = FALSE] = t
  BY <1>1
<1>4. [s EXCEPT !.aged[x] = FALSE] = u
  BY <1>1
<1> HIDE DEF stales, ages
<1>5. StateOK(t, n, F, both) /\ t.aged = s.aged
  BY <1>1, <1>2, MarkedFacts
<1>6. StateOK(u, n, F, both)
  BY <1>1, <1>2, MarkedFacts
<1> HIDE DEF t, u
<1> QED
  BY <1>3, <1>4, <1>5, <1>6

LEMMA DecayedFacts ==
  ASSUME NEW s, NEW n, NEW F, StateOK(s, n, F, UsesTransfer), NEW x \in Var
  PROVE  StateOK(Decayed(s, x), n, F, UsesTransfer)
<1>1. CASE ~s.stale[x]
  BY <1>1 DEF Decayed
<1>2. CASE s.stale[x]
  <2> DEFINE r == [s EXCEPT !.stale[x] = FALSE]
             value == IF LrbScore(s, x) = 0 THEN 0 ELSE LrbScore(s, x) - 1
  <2>1. Decayed(s, x) = Scored(r, x, value)
    BY <1>2 DEF Decayed
  <2>2. StateOK(r, n, F, UsesTransfer)
    BY MarkFacts
  <2>3. value \in Nat
    BY DEF LrbScore, StateOK, States, Activities
  <2> HIDE DEF r, value
  <2> QED
    BY <2>1, <2>2, <2>3, ScoredFacts
<1> QED
  BY <1>1, <1>2

LEMMA EnqueuedFacts ==
  ASSUME NEW s, NEW n, NEW F, StateOK(s, n, F, UsesTransfer), NEW x \in Var
  PROVE  StateOK(Enqueued(s, x), n, F, UsesTransfer)
<1>1. CASE ~MaintainsLrb
  BY <1>1 DEF Enqueued
<1>2. CASE MaintainsLrb
  <2> DEFINE d == Decayed(s, x)
             r == [d EXCEPT !.aged[x] = FALSE]
  <2>1. Enqueued(s, x) = r
    BY <1>2 DEF Enqueued
  <2>2. StateOK(d, n, F, UsesTransfer)
    BY DecayedFacts
  <2> HIDE DEF d
  <2>3. StateOK(r, n, F, UsesTransfer)
    BY <2>2, MarkFacts
  <2> HIDE DEF r
  <2> QED
    BY <2>1, <2>3
<1> QED
  BY <1>1, <1>2

\* A bump, and scaling all activities down when one has become too large.
LEMMA BumpedFacts ==
  ASSUME NEW s, NEW n, NEW F, NEW both, StateOK(s, n, F, both), NEW x \in Var
  PROVE  StateOK(Bumped(s, x), n, F, both)
<1> DEFINE r == Bumped(s, x)
           raised == [s.act EXCEPT ![x] = s.act[x] + 1]
           over == raised[x] > MaxActivity
           act == IF over THEN [v \in Var |-> raised[v] \div 2] ELSE raised
           ord == Increase(s.ord, x, act)
           scaled == s.rescaled \/ over
<1>1. s \in States /\ s.act \in Activities /\ HeapOK(s.ord)
  BY DEF StateOK, States
<1>2. r = [s EXCEPT !.act = act, !.ord = ord, !.rescaled = scaled]
  BY DEF Bumped
<1>3. raised \in Activities /\ \A v \in Var : raised[v] = IF v = x THEN s.act[x] + 1 ELSE s.act[v]
  BY <1>1 DEF Activities
<1> HIDE DEF raised
<1>4. act \in Activities
  BY <1>3 DEF Activities
<1>5. ~over => act = raised
  OBVIOUS
<1> HIDE DEF act, over
<1>6. HeapOK(ord) /\ Members(ord) = Members(s.ord)
  BY <1>1, <1>4, IncreaseFacts
<1>7. ~over /\ Ordered(s.ord, s.act) => Ordered(ord, act)
  <2> SUFFICES ASSUME ~over, Ordered(s.ord, s.act) PROVE Ordered(ord, act)
    OBVIOUS
  <2>1. act[x] >= s.act[x] /\ \A y \in Var : y # x => act[y] = s.act[y]
    BY <1>1, <1>3, <1>5 DEF Activities
  <2> QED
    BY <1>1, <1>4, <2>1, IncreaseFacts
<1> HIDE DEF ord
<1>8. scaled \in BOOLEAN
  BY <1>1 DEF States
<1>9. /\ r.act = act /\ r.ord = ord /\ r.lact = s.lact /\ r.lord = s.lord /\ r.queue = s.queue
      /\ r.stale = s.stale /\ r.aged = s.aged /\ r.rescaled = scaled /\ r \in States
  <2> HIDE DEF scaled
  <2> QED
    BY <1>1, <1>2, <1>4, <1>6, <1>8 DEF States, HeapOK
<1> HIDE DEF r
<1>10. ~r.rescaled => Ordered(ord, act)
  BY <1>7, <1>9 DEF StateOK
<1> QED
  BY <1>6, <1>9, <1>10 DEF StateOK, r

\* A variable set free is put back into every order.
LEMMA UnassignedFacts ==
  ASSUME NEW s, NEW n \in Nat, NEW F, StateOK(s, n, F, UsesTransfer), n <= MaxVar,
         NEW x \in 1 .. n, NEW reward, MaintainsLrb /\ s.aged[x] => reward[x] \in Nat
  PROVE  LET r == Unassigned(s, x, reward)
         IN StateOK(r, n, F \cup {x}, UsesTransfer) /\ r.aged = s.aged
<1> DEFINE r == Unassigned(s, x, reward)
           scored == IF MaintainsLrb /\ s.aged[x] THEN Scored(s, x, reward[x]) ELSE s
           known == IF MaintainsLrb THEN [scored EXCEPT !.stale[x] = FALSE] ELSE scored
           ord == Insert(known.ord, x, known.act)
           lord == IF UsesTransfer THEN Insert(known.lord, x, known.lact) ELSE known.lord
           queue == QueueUnassign(known.queue, x)
<1>1. x \in Var
  BY BranchingAssumption DEF Var
<1>2. r = [known EXCEPT !.ord = ord, !.lord = lord, !.queue = queue]
  BY DEF Unassigned
<1>3. StateOK(scored, n, F, UsesTransfer) /\ scored.aged = s.aged
  BY <1>1, ScoredFacts
<1> HIDE DEF scored
<1>4. StateOK(known, n, F, UsesTransfer) /\ known.aged = s.aged
  <2>1. LET k == [scored EXCEPT !.stale[x] = FALSE]
        IN StateOK(k, n, F, UsesTransfer) /\ k.aged = scored.aged
    BY <1>1, <1>3, MarkFacts
  <2> QED
    BY <1>3, <2>1
<1> HIDE DEF known
<1>5. /\ known \in States /\ known.act \in Activities /\ known.lact \in Activities
      /\ HeapOK(known.ord) /\ HeapOK(known.lord) /\ QueueOK(known.queue, n, F)
  BY <1>4 DEF StateOK, States
<1>6. /\ HeapOK(ord) /\ Members(ord) = Members(known.ord) \cup {x}
      /\ Ordered(known.ord, known.act) => Ordered(ord, known.act)
  BY <1>1, <1>5, InsertFacts
<1>7. /\ HeapOK(lord) /\ (UsesTransfer => Members(lord) = Members(known.lord) \cup {x})
      /\ Ordered(known.lord, known.lact) => Ordered(lord, known.lact)
      /\ Members(lord) \in SUBSET (Members(known.lord) \cup {x})
  BY <1>1, <1>5, InsertFacts
<1>8. QueueOK(queue, n, F \cup {x})
  BY <1>5, QueueUnassignFacts
<1>9. queue \in QueueSet
  BY <1>8 DEF QueueOK
<1> HIDE DEF ord, lord, queue
<1>10. /\ r.act = known.act /\ r.ord = ord /\ r.lact = known.lact /\ r.lord = lord /\ r.queue = queue
       /\ r.stale = known.stale /\ r.aged = known.aged /\ r.rescaled = known.rescaled /\ r \in States
  BY <1>2, <1>5, <1>6, <1>7, <1>9 DEF States, HeapOK
<1> HIDE DEF r
<1>11. F \cup {x} \in SUBSET Members(ord) /\ (UsesTransfer => F \cup {x} \in SUBSET Members(lord))
  BY <1>4, <1>6, <1>7 DEF StateOK
<1>12. Members(ord) \in SUBSET (1 .. n) /\ Members(lord) \in SUBSET (1 .. n)
  BY <1>4, <1>6, <1>7 DEF StateOK
<1> QED
  BY <1>4, <1>6, <1>7, <1>8, <1>10, <1>11, <1>12 DEF StateOK, r

\* cancel_until puts everything above the level back.
LEMMA CancelledFacts ==
  ASSUME NEW s, NEW n \in Nat, NEW F, StateOK(s, n, F, UsesTransfer), n <= MaxVar,
         Len(trail) \in Nat, \A i \in 1 .. Len(trail) : trail[i] \in 1 .. n,
         NEW level, Kept(level) \in 0 .. Len(trail), NEW reward,
         \A i \in Kept(level) + 1 .. Len(trail) :
           MaintainsLrb /\ s.aged[trail[i]] => reward[trail[i]] \in Nat
  PROVE  StateOK(Cancelled(s, level, reward), n,
                 F \cup {trail[i] : i \in Kept(level) + 1 .. Len(trail)}, UsesTransfer)
<1> DEFINE len == Len(trail)
           m == len - Kept(level)
           U == States
           Freed(k) == F \cup {trail[i] : i \in len + 1 - k .. len}
           Good(k, r) == StateOK(r, n, Freed(k), UsesTransfer) /\ r.aged = s.aged
           S == [k \in 0 .. m |-> {r \in U : Good(k, r)}]
           a == s
           Is(g) == g = [k \in 0 .. m |->
                           IF k = 0 THEN a ELSE Unassigned(g[k - 1], trail[len + 1 - k], reward)]
           undone == CHOOSE g : Is(g)
           step == [k \in 1 .. m |-> [r \in U |->
                      IF Unassigned(r, trail[len + 1 - k], reward) \in U
                      THEN Unassigned(r, trail[len + 1 - k], reward) ELSE r]]
<1>1. Cancelled(s, level, reward) = undone[m]
  BY DEF Cancelled
<1>2. len \in Nat /\ m \in Nat /\ m \in 0 .. m /\ 0 \in 0 .. m
      /\ \A k \in 1 .. m : len + 1 - k \in 1 .. len /\ len + 1 - k \in Kept(level) + 1 .. len
  OBVIOUS
<1>3. a \in S[0]
  <2>1. Freed(0) = F
    <3>1. len + 1 - 0 .. len = {}
      BY <1>2
    <3> QED
      BY <3>1
  <2>2. a \in U /\ Good(0, a)
    <3> HIDE DEF Freed
    <3> QED
      BY <2>1 DEF StateOK
  <2> HIDE DEF Good, a, U, m
  <2> QED
    BY <1>2, <2>2
<1>4. ASSUME NEW k \in 1 .. m, NEW r \in S[k - 1]
      PROVE Unassigned(r, trail[len + 1 - k], reward) \in S[k]
  <2>1. k - 1 \in 0 .. m /\ k \in 0 .. m
    <3> HIDE DEF m
    <3> QED
      BY <1>2
  <2>2. r \in U /\ Good(k - 1, r)
    <3> HIDE DEF Good, U, m
    <3> QED
      BY <1>4, <2>1
  <2> DEFINE x == trail[len + 1 - k]
             u == Unassigned(r, x, reward)
  <2>3. x \in 1 .. n /\ (MaintainsLrb /\ s.aged[x] => reward[x] \in Nat)
    BY <1>2
  <2>4. Freed(k) = Freed(k - 1) \cup {x}
    <3>1. len + 1 - k .. len = (len + 1 - (k - 1) .. len) \cup {len + 1 - k}
      BY <1>2, <2>1
    <3> QED
      BY <3>1
  <2> HIDE DEF x, Freed
  <2>5. StateOK(u, n, Freed(k - 1) \cup {x}, UsesTransfer) /\ u.aged = r.aged
    <3>1. StateOK(r, n, Freed(k - 1), UsesTransfer) /\ r.aged = s.aged
      BY <2>2
    <3>2. MaintainsLrb /\ r.aged[x] => reward[x] \in Nat
      BY <2>3, <3>1
    <3> HIDE DEF m, U, S, Good, Freed, x, step
    <3> QED
      BY <2>3, <3>1, <3>2, UnassignedFacts
  <2>6. u \in U /\ Good(k, u)
    BY <2>2, <2>4, <2>5 DEF StateOK
  <2> HIDE DEF Good, U, u, m
  <2> QED
    BY <2>1, <2>6 DEF u, x
<1>5. \E g : Is(g)
  <2>1. S \in [0 .. m -> SUBSET U] /\ step \in [1 .. m -> [U -> U]]
    OBVIOUS
  <2>2. ASSUME NEW k \in 1 .. m, NEW x \in S[k - 1]
        PROVE  x \in U /\ step[k][x] = Unassigned(x, trail[len + 1 - k], reward) /\ step[k][x] \in S[k]
    <3>1. k - 1 \in 0 .. m /\ k \in 0 .. m
      BY <1>2
    <3>2. x \in U /\ Unassigned(x, trail[len + 1 - k], reward) \in S[k]
      BY <1>4, <2>1, <2>2, <3>1
    <3>3. Unassigned(x, trail[len + 1 - k], reward) \in U
      BY <2>1, <3>1, <3>2
    <3> HIDE DEF U, S
    <3> QED
      BY <3>2, <3>3
  <2> HIDE DEF S, a, step, U, m
  <2>3. PICK g : IsChain(g, m, a, step) /\ \A k \in 0 .. m : g[k] \in S[k]
    BY <1>2, <1>3, <2>1, <2>2, Folding
  <2>4. \A k \in 0 .. m : k # 0 => k \in 1 .. m /\ k - 1 \in 0 .. m
    BY <1>2
  <2>5. \A k \in 0 .. m : k # 0 => step[k][g[k - 1]] = Unassigned(g[k - 1], trail[len + 1 - k], reward)
    BY <2>2, <2>3, <2>4
  <2>6. g = [k \in 0 .. m |-> IF k = 0 THEN a ELSE Unassigned(g[k - 1], trail[len + 1 - k], reward)]
    <3>1. g = [k \in 0 .. m |-> IF k = 0 THEN a ELSE step[k][g[k - 1]]]
      BY <2>3 DEF IsChain
    <3>2. \A k \in 0 .. m : (IF k = 0 THEN a ELSE step[k][g[k - 1]])
                            = (IF k = 0 THEN a ELSE Unassigned(g[k - 1], trail[len + 1 - k], reward))
      BY <2>5
    <3> QED
      BY <3>1, <3>2
  <2> QED
    BY <2>6
<1>6. Is(undone)
  <2> HIDE DEF Is
  <2> QED
    BY <1>5
<1> HIDE DEF undone
<1>7. undone[m] \in S[m]
  <2>1. undone[0] = a /\ \A k \in 1 .. m : undone[k] = Unassigned(undone[k - 1], trail[len + 1 - k], reward)
    <3>1. \A k \in 0 .. m : undone[k] = IF k = 0 THEN a ELSE Unassigned(undone[k - 1], trail[len + 1 - k], reward)
      BY <1>6
    <3> HIDE DEF Is, a, m
    <3> QED
      BY <1>2, <3>1
  <2> HIDE DEF S, a, Is, m
  <2>2. \A k \in 0 .. m : undone[k] \in S[k]
    BY <1>2, <1>3, <1>4, <2>1, Turns
  <2> QED
    BY <1>2, <2>2
<1> HIDE DEF m
<1>8. StateOK(undone[m], n, Freed(m), UsesTransfer)
  BY <1>2, <1>7
<1>9. Freed(m) = F \cup {trail[i] : i \in Kept(level) + 1 .. len}
  <2>1. len + 1 - m = Kept(level) + 1
    BY <1>2 DEF m
  <2> QED
    BY <2>1
<1> QED
  BY <1>1, <1>8, <1>9

\* The activities of all the analysis saw are raised.
LEMMA BumpedAllFacts ==
  ASSUME NEW s, NEW n, NEW F, NEW both, StateOK(s, n, F, both),
         NEW seen, IsFiniteSet(seen), seen \in SUBSET Var
  PROVE  StateOK(BumpedAll(s, seen), n, F, both)
<1> DEFINE all == SetToSeq(seen)
           m == Len(all)
           U == States
           S == [k \in 0 .. m |-> {r \in U : StateOK(r, n, F, both)}]
           a == s
           Is(g) == g = [k \in 0 .. m |-> IF k = 0 THEN a ELSE Bumped(g[k - 1], all[k])]
           bumped == CHOOSE g : Is(g)
           step == [k \in 1 .. m |-> [r \in U |-> IF Bumped(r, all[k]) \in U
                                                  THEN Bumped(r, all[k]) ELSE r]]
<1>1. BumpedAll(s, seen) = bumped[m]
  BY DEF BumpedAll
<1>2. m \in Nat /\ m \in 0 .. m /\ 0 \in 0 .. m /\ \A k \in 1 .. m : all[k] \in Var
  <2>1. m \in Nat /\ \A k \in 1 .. m : all[k] \in seen
    BY SetToSeqFacts
  <2> HIDE DEF m, all
  <2> QED
    BY <2>1
<1> HIDE DEF all
<1>3. a \in S[0]
  BY <1>2 DEF StateOK
<1>4. ASSUME NEW k \in 1 .. m, NEW r \in S[k - 1] PROVE Bumped(r, all[k]) \in S[k]
  <2>1. k - 1 \in 0 .. m /\ k \in 0 .. m
    BY <1>2
  <2>2. r \in U /\ StateOK(r, n, F, both)
    BY <1>4, <2>1
  <2>3. StateOK(Bumped(r, all[k]), n, F, both)
    BY <1>2, <2>2, BumpedFacts
  <2>4. Bumped(r, all[k]) \in U
    BY <2>3 DEF StateOK
  <2> QED
    BY <2>1, <2>3, <2>4
<1>5. \E g : Is(g)
  <2>1. S \in [0 .. m -> SUBSET U] /\ step \in [1 .. m -> [U -> U]]
    OBVIOUS
  <2>2. ASSUME NEW k \in 1 .. m, NEW x \in S[k - 1]
        PROVE  x \in U /\ step[k][x] = Bumped(x, all[k]) /\ step[k][x] \in S[k]
    <3>1. k - 1 \in 0 .. m /\ k \in 0 .. m
      BY <1>2
    <3>2. x \in U /\ Bumped(x, all[k]) \in S[k]
      BY <1>4, <2>1, <2>2, <3>1
    <3>3. Bumped(x, all[k]) \in U
      BY <2>1, <3>1, <3>2
    <3> HIDE DEF U, S
    <3> QED
      BY <3>2, <3>3
  <2> HIDE DEF S, a, step, U, m
  <2>3. PICK g : IsChain(g, m, a, step) /\ \A k \in 0 .. m : g[k] \in S[k]
    BY <1>2, <1>3, <2>1, <2>2, Folding
  <2>4. \A k \in 0 .. m : k # 0 => k \in 1 .. m /\ k - 1 \in 0 .. m
    BY <1>2
  <2>5. \A k \in 0 .. m : k # 0 => step[k][g[k - 1]] = Bumped(g[k - 1], all[k])
    BY <2>2, <2>3, <2>4
  <2>6. g = [k \in 0 .. m |-> IF k = 0 THEN a ELSE Bumped(g[k - 1], all[k])]
    <3>1. g = [k \in 0 .. m |-> IF k = 0 THEN a ELSE step[k][g[k - 1]]]
      BY <2>3 DEF IsChain
    <3>2. \A k \in 0 .. m : (IF k = 0 THEN a ELSE step[k][g[k - 1]])
                            = (IF k = 0 THEN a ELSE Bumped(g[k - 1], all[k]))
      BY <2>5
    <3> QED
      BY <3>1, <3>2
  <2> QED
    BY <2>6
<1>6. Is(bumped)
  <2> HIDE DEF Is
  <2> QED
    BY <1>5
<1> HIDE DEF bumped
<1>7. bumped[m] \in S[m]
  <2>1. bumped[0] = a /\ \A k \in 1 .. m : bumped[k] = Bumped(bumped[k - 1], all[k])
    <3>1. \A k \in 0 .. m : bumped[k] = IF k = 0 THEN a ELSE Bumped(bumped[k - 1], all[k])
      BY <1>6
    <3> HIDE DEF Is, a, m
    <3> QED
      BY <1>2, <3>1
  <2> HIDE DEF S, a, Is, m
  <2>2. \A k \in 0 .. m : bumped[k] \in S[k]
    BY <1>2, <1>3, <1>4, <2>1, Turns
  <2> QED
    BY <1>2, <2>2
<1> HIDE DEF m, U
<1> QED
  BY <1>1, <1>2, <1>7

\* CHB scores what a propagation assigned.
LEMMA RewardedFacts ==
  ASSUME NEW n, NEW F, StateOK(State, n, F, UsesTransfer), NEW reward, Len(plays) \in Nat,
         \A i \in 1 .. Len(plays) : plays[i] \in Var /\ reward[plays[i]] \in Nat
  PROVE  StateOK(Rewarded(reward), n, F, UsesTransfer)
<1> DEFINE m == Len(plays)
           U == States
           S == [k \in 0 .. m |-> {r \in U : StateOK(r, n, F, UsesTransfer)}]
           a == State
           Is(g) == g = [k \in 0 .. m |->
                           IF k = 0 THEN a ELSE Scored(g[k - 1], plays[k], reward[plays[k]])]
           rewarded == CHOOSE g : Is(g)
           step == [k \in 1 .. m |-> [r \in U |->
                      IF Scored(r, plays[k], reward[plays[k]]) \in U
                      THEN Scored(r, plays[k], reward[plays[k]]) ELSE r]]
<1>1. Rewarded(reward) = rewarded[m]
  BY DEF Rewarded
<1>2. m \in Nat /\ m \in 0 .. m /\ 0 \in 0 .. m
  OBVIOUS
<1>3. a \in S[0]
  <2> HIDE DEF a
  <2>1. a = State
    BY DEF a
  <2> QED
    BY <1>2, <2>1 DEF StateOK
<1>4. ASSUME NEW k \in 1 .. m, NEW r \in S[k - 1]
      PROVE  Scored(r, plays[k], reward[plays[k]]) \in S[k]
  <2>1. k - 1 \in 0 .. m /\ k \in 0 .. m
    BY <1>2
  <2>2. r \in U /\ StateOK(r, n, F, UsesTransfer)
    BY <1>4, <2>1
  <2>3. StateOK(Scored(r, plays[k], reward[plays[k]]), n, F, UsesTransfer)
    BY <2>2, ScoredFacts
  <2>4. Scored(r, plays[k], reward[plays[k]]) \in U
    BY <2>3 DEF StateOK
  <2> QED
    BY <2>1, <2>3, <2>4
<1>5. \E g : Is(g)
  <2>1. S \in [0 .. m -> SUBSET U] /\ step \in [1 .. m -> [U -> U]]
    OBVIOUS
  <2>2. ASSUME NEW k \in 1 .. m, NEW x \in S[k - 1]
        PROVE  x \in U /\ step[k][x] = Scored(x, plays[k], reward[plays[k]]) /\ step[k][x] \in S[k]
    <3>1. k - 1 \in 0 .. m /\ k \in 0 .. m
      BY <1>2
    <3>2. x \in U /\ Scored(x, plays[k], reward[plays[k]]) \in S[k]
      BY <1>4, <2>1, <2>2, <3>1
    <3>3. Scored(x, plays[k], reward[plays[k]]) \in U
      BY <2>1, <3>1, <3>2
    <3> HIDE DEF U, S
    <3> QED
      BY <3>2, <3>3
  <2> HIDE DEF S, a, step, U, m
  <2>3. PICK g : IsChain(g, m, a, step) /\ \A k \in 0 .. m : g[k] \in S[k]
    BY <1>2, <1>3, <2>1, <2>2, Folding
  <2>4. \A k \in 0 .. m : k # 0 => k \in 1 .. m /\ k - 1 \in 0 .. m
    BY <1>2
  <2>5. \A k \in 0 .. m : k # 0 => step[k][g[k - 1]] = Scored(g[k - 1], plays[k], reward[plays[k]])
    BY <2>2, <2>3, <2>4
  <2>6. g = [k \in 0 .. m |-> IF k = 0 THEN a ELSE Scored(g[k - 1], plays[k], reward[plays[k]])]
    <3>1. g = [k \in 0 .. m |-> IF k = 0 THEN a ELSE step[k][g[k - 1]]]
      BY <2>3 DEF IsChain
    <3>2. \A k \in 0 .. m : (IF k = 0 THEN a ELSE step[k][g[k - 1]])
                            = (IF k = 0 THEN a ELSE Scored(g[k - 1], plays[k], reward[plays[k]]))
      BY <2>5
    <3> QED
      BY <3>1, <3>2
  <2> QED
    BY <2>6
<1>6. Is(rewarded)
  <2> HIDE DEF Is
  <2> QED
    BY <1>5
<1> HIDE DEF rewarded
<1>7. rewarded[m] \in S[m]
  <2>1. rewarded[0] = a /\ \A k \in 1 .. m : rewarded[k] = Scored(rewarded[k - 1], plays[k], reward[plays[k]])
    <3>1. \A k \in 0 .. m : rewarded[k] = IF k = 0 THEN a ELSE Scored(rewarded[k - 1], plays[k], reward[plays[k]])
      BY <1>6
    <3> HIDE DEF Is, a, m
    <3> QED
      BY <1>2, <3>1
  <2> HIDE DEF S, a, Is, m
  <2>2. \A k \in 0 .. m : rewarded[k] \in S[k]
    BY <1>2, <1>3, <1>4, <2>1, Turns
  <2> QED
    BY <1>2, <2>2
<1> HIDE DEF m, U
<1> QED
  BY <1>1, <1>2, <1>7

\* Everything a conflict bumps, whichever order decides.
LEMMA AnalyzedFacts ==
  ASSUME NEW s, NEW n \in Nat, NEW F, StateOK(s, n, F, UsesTransfer), n <= MaxVar,
         F \cap Assigned = {}, NEW seen, IsFiniteSet(seen), seen \subseteq 1 .. n, seen \subseteq Assigned
  PROVE  StateOK(Analyzed(s, seen), n, F, UsesTransfer)
<1> DEFINE evsids == IF UsesVmtf THEN strategy = "probe_evsids" ELSE strategy \notin {"lrb", "chb"}
           bumped == IF evsids THEN BumpedAll(s, seen) ELSE s
           queue == BumpAnalyzed(bumped.queue, seen, Assigned)
           r == Analyzed(s, seen)
<1>1. StateOK(bumped, n, F, UsesTransfer)
  <2>1. seen \in SUBSET Var
    BY BranchingAssumption DEF Var
  <2> QED
    BY <2>1, BumpedAllFacts
<1>2. r = IF UsesVmtf THEN [bumped EXCEPT !.queue = queue] ELSE bumped
  BY DEF Analyzed
<1> HIDE DEF bumped
<1>3. CASE ~UsesVmtf
  BY <1>1, <1>2, <1>3
<1>4. CASE UsesVmtf
  <2>1. QueueOK(queue, n, F)
    BY <1>1, BumpAnalyzedFacts DEF StateOK
  <2>2. queue \in QueueSet /\ bumped \in States
    BY <1>1, <2>1 DEF QueueOK, StateOK
  <2> HIDE DEF queue
  <2>3. r = [bumped EXCEPT !.queue = queue]
    BY <1>2, <1>4
  <2>4. /\ r.act = bumped.act /\ r.ord = bumped.ord /\ r.lact = bumped.lact /\ r.lord = bumped.lord
        /\ r.queue = queue /\ r.stale = bumped.stale /\ r.aged = bumped.aged
        /\ r.rescaled = bumped.rescaled /\ r \in States
    BY <2>2, <2>3 DEF States
  <2> HIDE DEF r
  <2> QED
    BY <1>1, <2>1, <2>4 DEF StateOK, r
<1> QED
  BY <1>3, <1>4

-----------------------------------------------------------------------------
(***************************************************************************)
(* The invariant and the steps.                                            *)
(***************************************************************************)
TrailOK(t, l, n) ==
  /\ t \in Seq(Var) /\ \A i \in 1 .. Len(t) : t[i] \in 1 .. n
  /\ l \in Seq(Nat) /\ \A i \in 1 .. Len(l) : l[i] <= Len(t)
  /\ \A i, j \in 1 .. Len(l) : i <= j => l[i] <= l[j]
Free == (1 .. count) \ Assigned
BranchInv ==
  /\ count \in 0 .. MaxVar /\ analyses \in Nat /\ plays \in Seq(Var)
  /\ TrailOK(trail, limits, count)
  /\ StateOK(State, count, Free, UsesTransfer)
  /\ stage = "sat" => Free = {}

\* A variable is assigned, in a level of its own or not.
LEMMA TrailGrows ==
  ASSUME NEW t, NEW l, NEW n \in Nat, n <= MaxVar, TrailOK(t, l, n), NEW x \in 1 .. n
  PROVE  /\ TrailOK(Append(t, x), l, n) /\ TrailOK(Append(t, x), Append(l, Len(t)), n)
         /\ Range(Append(t, x)) = Range(t) \cup {x}
<1> DEFINE u == Append(t, x)
           k == Append(l, Len(t))
<1>1. x \in Var /\ t \in Seq(Var) /\ l \in Seq(Nat) /\ Len(t) \in Nat /\ Len(l) \in Nat
  BY BranchingAssumption DEF Var, TrailOK
<1>2. /\ u \in Seq(Var) /\ Len(u) = Len(t) + 1 /\ u[Len(t) + 1] = x
      /\ \A i \in 1 .. Len(t) : u[i] = t[i]
  BY <1>1, AppendProperties
<1>3. /\ k \in Seq(Nat) /\ Len(k) = Len(l) + 1 /\ k[Len(l) + 1] = Len(t)
      /\ \A i \in 1 .. Len(l) : k[i] = l[i]
  BY <1>1, AppendProperties
<1> HIDE DEF u, k
<1>4. \A i \in 1 .. Len(t) + 1 : i = Len(t) + 1 \/ i \in 1 .. Len(t)
  BY <1>1
<1>5. \A i \in 1 .. Len(l) + 1 : i = Len(l) + 1 \/ i \in 1 .. Len(l)
  BY <1>1
<1>6. \A i \in 1 .. Len(l) : l[i] \in Nat /\ l[i] <= Len(t)
  BY <1>1 DEF TrailOK
<1>7. \A i \in 1 .. Len(u) : u[i] \in 1 .. n
  BY <1>2, <1>4 DEF TrailOK
<1>8. TrailOK(u, l, n)
  <2>1. \A i \in 1 .. Len(l) : l[i] <= Len(u)
    BY <1>1, <1>2, <1>6
  <2> QED
    BY <1>2, <1>7, <2>1 DEF TrailOK
<1>9. TrailOK(u, k, n)
  <2>1. \A i \in 1 .. Len(k) : k[i] <= Len(t) /\ k[i] \in Nat
    <3>1. Len(t) <= Len(t)
      BY <1>1
    <3>2. \A i \in 1 .. Len(l) + 1 : k[i] <= Len(t) /\ k[i] \in Nat
      BY <1>1, <1>3, <1>5, <1>6, <3>1
    <3> QED
      BY <1>3, <3>2
  <2>2. \A i \in 1 .. Len(k) : k[i] <= Len(u)
    BY <1>1, <1>2, <2>1
  <2>3. ASSUME NEW i \in 1 .. Len(k), NEW j \in 1 .. Len(k), i <= j PROVE k[i] <= k[j]
    <3>1. CASE j = Len(l) + 1
      BY <1>3, <2>1, <3>1
    <3>2. CASE j # Len(l) + 1
      <4>1. i \in 1 .. Len(l) /\ j \in 1 .. Len(l)
        BY <1>1, <1>3, <2>3, <3>2
      <4> QED
        BY <1>3, <2>3, <4>1 DEF TrailOK
    <3> QED
      BY <3>1, <3>2
  <2> QED
    BY <1>2, <1>3, <1>7, <2>2, <2>3 DEF TrailOK
<1>10. Range(u) = Range(t) \cup {x}
  <2>1. Range(u) = {u[i] : i \in 1 .. Len(t) + 1} /\ Range(t) = {t[i] : i \in 1 .. Len(t)}
    BY <1>1, <1>2 DEF Range
  <2>2. \A i \in 1 .. Len(t) : i \in 1 .. Len(t) + 1
    BY <1>1
  <2>3. Len(t) + 1 \in 1 .. Len(t) + 1
    BY <1>1
  <2> QED
    BY <1>2, <1>4, <2>1, <2>2, <2>3
<1> QED
  BY <1>8, <1>9, <1>10 DEF u, k

\* Everything above a level is taken back.
LEMMA TrailCut ==
  ASSUME TrailOK(trail, limits, count), count \in Nat, NEW level \in 0 .. Level
  PROVE  LET K == Kept(level)
         IN  /\ K \in 0 .. Len(trail) /\ TrailOK(SubSeq(trail, 1, K), SubSeq(limits, 1, level), count)
             /\ Range(SubSeq(trail, 1, K)) = {trail[i] : i \in 1 .. K}
             /\ Range(trail) = {trail[i] : i \in 1 .. Len(trail)}
             /\ Len(trail) \in Nat
<1> DEFINE K == Kept(level)
           t == SubSeq(trail, 1, K)
           l == SubSeq(limits, 1, level)
<1>1. /\ trail \in Seq(Var) /\ limits \in Seq(Nat) /\ Len(trail) \in Nat /\ Level \in Nat
      /\ Level = Len(limits) /\ DOMAIN trail = 1 .. Len(trail)
      /\ \A i \in 1 .. Level : limits[i] \in Nat /\ limits[i] <= Len(trail)
  BY DEF TrailOK, Level
<1>2. K = IF Level <= level THEN Len(trail) ELSE limits[level + 1]
  BY DEF Kept
<1>3. K \in 0 .. Len(trail) /\ level \in 0 .. Level
      /\ (level # Level => level + 1 \in 1 .. Level /\ K = limits[level + 1])
  BY <1>1, <1>2
<1> HIDE DEF K
<1>4. t \in Seq(Var) /\ Len(t) = K /\ \A i \in 1 .. K : t[i] = trail[i]
  <2>1. CASE K = 0
    <3>1. t = << >>
      BY <1>1, <1>3, <2>1
    <3> QED
      BY <2>1, <3>1
  <2>2. CASE K # 0
    <3>1. K \in 1 .. Len(trail) /\ 1 \in 1 .. Len(trail)
      BY <1>1, <1>3, <2>2
    <3>2. t = [i \in 1 .. K |-> trail[i]]
      <4>1. t = [i \in 1 .. (K - 1 + 1) |-> trail[i + 1 - 1]]
        BY <1>1, <3>1
      <4> QED
        BY <3>1, <4>1
    <3>3. \A i \in 1 .. K : trail[i] \in Var
      BY <1>1, <3>1
    <3> HIDE DEF t
    <3> QED
      BY <1>3, <3>2, <3>3
  <2> QED
    BY <2>1, <2>2
<1>5. l \in Seq(Nat) /\ Len(l) = level /\ \A i \in 1 .. level : l[i] = limits[i]
  <2>1. CASE level = 0
    <3>1. l = << >>
      BY <1>1, <1>3, <2>1
    <3> QED
      BY <2>1, <3>1
  <2>2. CASE level # 0
    <3>1. level \in 1 .. Len(limits) /\ 1 \in 1 .. Len(limits)
      BY <1>1, <1>3, <2>2
    <3>2. l = [i \in 1 .. level |-> limits[i]]
      <4>1. l = [i \in 1 .. (level - 1 + 1) |-> limits[i + 1 - 1]]
        BY <1>1, <3>1
      <4> QED
        BY <3>1, <4>1
    <3>3. \A i \in 1 .. level : limits[i] \in Nat
      BY <1>1, <3>1
    <3> HIDE DEF l
    <3> QED
      BY <1>3, <3>2, <3>3
  <2> QED
    BY <2>1, <2>2
<1> HIDE DEF t, l
<1>6. \A i \in 1 .. K : i \in 1 .. Len(trail)
  BY <1>1, <1>3
<1>7. \A i \in 1 .. level : limits[i] <= K /\ i \in 1 .. Level
  <2> TAKE i \in 1 .. level
  <2>1. i \in 1 .. Level /\ (level # Level => i <= level + 1)
    BY <1>1, <1>3
  <2>2. CASE level = Level
    BY <1>1, <1>2, <2>1, <2>2
  <2>3. CASE level # Level
    BY <1>1, <1>3, <2>1, <2>3 DEF TrailOK
  <2> QED
    BY <2>2, <2>3
<1>8. TrailOK(t, l, count)
  <2>1. \A i \in 1 .. Len(t) : t[i] \in 1 .. count
    BY <1>4, <1>6 DEF TrailOK
  <2>2. \A i, j \in 1 .. Len(l) : i <= j => l[i] <= l[j]
    <3>1. \A i, j \in 1 .. Level : i <= j => limits[i] <= limits[j]
      BY <1>1 DEF TrailOK
    <3> QED
      BY <1>5, <1>7, <3>1
  <2>3. \A i \in 1 .. Len(l) : l[i] <= Len(t)
    BY <1>4, <1>5, <1>7
  <2> QED
    BY <1>4, <1>5, <2>1, <2>2, <2>3 DEF TrailOK
<1>9. Range(t) = {trail[i] : i \in 1 .. K} /\ Range(trail) = {trail[i] : i \in 1 .. Len(trail)}
  <2>1. DOMAIN t = 1 .. K
    BY <1>1, <1>3, <1>4
  <2> QED
    BY <1>1, <1>4, <2>1 DEF Range
<1> QED
  BY <1>1, <1>3, <1>8, <1>9 DEF K, t, l

\* What a step makes of all orders.
LEMMA BecomesFacts ==
  ASSUME NEW s \in States, Becomes(s)
  PROVE  State' = s
<1>1. s = [act |-> s.act, ord |-> s.ord, lact |-> s.lact, lord |-> s.lord, queue |-> s.queue,
           stale |-> s.stale, aged |-> s.aged, rescaled |-> s.rescaled]
  BY DEF States
<1> QED
  BY <1>1 DEF Becomes, State

LEMMA InvFacts ==
  ASSUME BranchInv
  PROVE  /\ count \in Nat /\ count <= MaxVar /\ analyses \in Nat /\ plays \in Seq(Var)
         /\ TrailOK(trail, limits, count) /\ StateOK(State, count, Free, UsesTransfer)
         /\ Level \in Nat /\ Len(trail) \in Nat /\ \A x \in 1 .. count : x \in Var
         /\ State \in States /\ Free \cap Assigned = {}
<1>1. count \in Nat /\ count <= MaxVar /\ \A x \in 1 .. count : x \in Var
  BY BranchingAssumption DEF BranchInv, Var
<1>2. Level \in Nat /\ Len(trail) \in Nat
  BY DEF BranchInv, TrailOK, Level
<1> QED
  BY <1>1, <1>2 DEF BranchInv, StateOK, Free

\* A step that does not end in an answer keeps the invariant when it leaves
\* the trail and the orders in order.
LEMMA Stepping ==
  ASSUME BranchInv, strategy' = strategy, count' = count,
         analyses' \in Nat, plays' \in Seq(Var), stage' # "sat",
         TrailOK(trail', limits', count), NEW s, Becomes(s),
         StateOK(s, count, (1 .. count) \ Range(trail'), UsesTransfer)
  PROVE  BranchInv'
<1>1. s \in States
  BY DEF StateOK
<1>2. State' = s
  BY <1>1, BecomesFacts
<1>3. UsesTransfer' = UsesTransfer
  BY DEF UsesTransfer
<1>4. Free' = (1 .. count) \ Range(trail')
  BY DEF Free, Assigned
<1>5. StateOK(State, count, Free, UsesTransfer)'
  BY <1>2, <1>3, <1>4
<1>6. TrailOK(trail, limits, count)'
  OBVIOUS
<1>7. (count \in 0 .. MaxVar)' /\ (analyses \in Nat)' /\ (plays \in Seq(Var))'
  BY DEF BranchInv
<1> QED
  BY <1>5, <1>6, <1>7 DEF BranchInv

\* A variable is assigned.
LEMMA Taking ==
  ASSUME BranchInv, UNCHANGED <<settings, count, modes, analyses>>,
         NEW s, NEW x \in (1 .. count) \ Assigned, StateOK(s, count, Free \ {x}, UsesTransfer),
         Take(x), Becomes(Enqueued(s, x)), stage' # "sat",
         limits' = limits \/ limits' = Append(limits, Len(trail))
  PROVE  BranchInv'
<1>1. /\ count \in Nat /\ count <= MaxVar /\ x \in Var /\ x \in 1 .. count /\ plays \in Seq(Var)
      /\ analyses \in Nat /\ TrailOK(trail, limits, count)
  BY InvFacts
<1>2. trail' = Append(trail, x) /\ plays' \in Seq(Var)
  BY <1>1, AppendProperties DEF Take
<1>3. TrailOK(trail', limits', count) /\ Range(trail') = Range(trail) \cup {x}
  <2>1. /\ TrailOK(trail', limits, count) /\ TrailOK(trail', Append(limits, Len(trail)), count)
        /\ Range(trail') = Range(trail) \cup {x}
    BY <1>1, <1>2, TrailGrows
  <2>2. CASE limits' = limits
    BY <2>1, <2>2
  <2>3. CASE limits' = Append(limits, Len(trail))
    BY <2>1, <2>3
  <2> QED
    BY <2>2, <2>3
<1>4. StateOK(Enqueued(s, x), count, Free \ {x}, UsesTransfer)
  BY <1>1, EnqueuedFacts
<1>5. Free \ {x} = (1 .. count) \ Range(trail')
  BY <1>3 DEF Free, Assigned
<1>6. strategy' = strategy /\ count' = count /\ analyses' \in Nat
  BY <1>1 DEF settings
<1> QED
  BY <1>2, <1>3, <1>4, <1>5, <1>6, Stepping

\* What LRB rewards earns whole numbers.
LEMMA RewardsFacts ==
  ASSUME NEW s, NEW level, NEW reward \in Rewards(s, level)
  PROVE  \A i \in Kept(level) + 1 .. Len(trail) :
           MaintainsLrb /\ s.aged[trail[i]] => reward[trail[i]] \in Nat
<1> DEFINE D == {trail[i] : i \in {k \in Kept(level) + 1 .. Len(trail) : MaintainsLrb /\ s.aged[trail[k]]}}
<1>1. reward \in [D -> 0 .. MaxActivity]
  BY DEF Rewards
<1>2. \A i \in Kept(level) + 1 .. Len(trail) : MaintainsLrb /\ s.aged[trail[i]] => trail[i] \in D
  OBVIOUS
<1> HIDE DEF D
<1> QED
  BY <1>1, <1>2, BranchingAssumption

\* What is left of the trail has all free variables beside it.
LEMMA Cutting ==
  ASSUME BranchInv, NEW level \in 0 .. Level, NEW s, NEW reward \in Rewards(s, level),
         StateOK(s, count, Free, UsesTransfer)
  PROVE  LET K == Kept(level)
             t == SubSeq(trail, 1, K)
         IN  /\ TrailOK(t, SubSeq(limits, 1, level), count)
             /\ StateOK(Cancelled(s, level, reward), count, (1 .. count) \ Range(t), UsesTransfer)
<1> DEFINE K == Kept(level)
           t == SubSeq(trail, 1, K)
           G == Free \cup {trail[i] : i \in K + 1 .. Len(trail)}
<1>1. /\ count \in Nat /\ count <= MaxVar /\ TrailOK(trail, limits, count)
      /\ \A i \in 1 .. Len(trail) : trail[i] \in 1 .. count
  BY InvFacts DEF TrailOK
<1>2. /\ K \in 0 .. Len(trail) /\ TrailOK(t, SubSeq(limits, 1, level), count)
      /\ Range(t) = {trail[i] : i \in 1 .. K}
      /\ Range(trail) = {trail[i] : i \in 1 .. Len(trail)} /\ Len(trail) \in Nat
  BY <1>1, TrailCut
<1> HIDE DEF t
<1>3. StateOK(Cancelled(s, level, reward), count, G, UsesTransfer)
  BY <1>1, <1>2, RewardsFacts, CancelledFacts
<1> HIDE DEF K
<1>4. (1 .. count) \ Range(t) \in SUBSET G
  <2>1. \A i \in 1 .. Len(trail) : i \in 1 .. K \/ i \in K + 1 .. Len(trail)
    BY <1>2
  <2> QED
    BY <1>2, <2>1 DEF Free, Assigned
<1> HIDE DEF G
<1>5. StateOK(Cancelled(s, level, reward), count, (1 .. count) \ Range(t), UsesTransfer)
  BY <1>3, <1>4, FewerFacts
<1> QED
  BY <1>2, <1>5 DEF K, t

LEMMA Cancelling ==
  ASSUME BranchInv, UNCHANGED <<settings, count>>, NEW s, NEW level \in 0 .. Level,
         StateOK(s, count, Free, UsesTransfer), CancelTo(s, level), stage' # "sat",
         analyses' \in Nat, plays' \in Seq(Var)
  PROVE  BranchInv'
<1>1. PICK reward \in Rewards(s, level) : Becomes(Cancelled(s, level, reward))
  BY DEF CancelTo
<1>2. trail' = SubSeq(trail, 1, Kept(level)) /\ limits' = SubSeq(limits, 1, level)
  BY DEF CancelTo
<1>3. /\ TrailOK(trail', limits', count)
      /\ StateOK(Cancelled(s, level, reward), count, (1 .. count) \ Range(trail'), UsesTransfer)
  BY <1>2, Cutting
<1>4. strategy' = strategy /\ count' = count
  BY DEF settings
<1> QED
  BY <1>1, <1>3, <1>4, Stepping

\* The trail and what is free stay.
LEMMA Staying ==
  ASSUME BranchInv, UNCHANGED <<settings, count, trail, limits, analyses>>,
         plays' \in Seq(Var), stage' # "sat", NEW s, Becomes(s), StateOK(s, count, Free, UsesTransfer)
  PROVE  BranchInv'
<1>1. /\ strategy' = strategy /\ count' = count /\ analyses' \in Nat
      /\ TrailOK(trail', limits', count) /\ Free = (1 .. count) \ Range(trail')
  BY InvFacts DEF settings, Free, Assigned
<1> QED
  BY <1>1, Stepping

\* One order is replaced by one that is as good.
LEMMA WithQueue ==
  ASSUME NEW s, NEW n, NEW F, NEW both, StateOK(s, n, F, both), NEW q, QueueOK(q, n, F)
  PROVE  StateOK([s EXCEPT !.queue = q], n, F, both)
<1> DEFINE r == [s EXCEPT !.queue = q]
<1>1. q \in QueueSet
  BY DEF QueueOK
<1>2. /\ r.act = s.act /\ r.ord = s.ord /\ r.lact = s.lact /\ r.lord = s.lord /\ r.queue = q
      /\ r.stale = s.stale /\ r.aged = s.aged /\ r.rescaled = s.rescaled /\ r \in States
  BY <1>1 DEF StateOK, States
<1> HIDE DEF r
<1> QED
  BY <1>2 DEF StateOK, r

LEMMA WithOrder ==
  ASSUME NEW s, NEW n, NEW F, NEW both, StateOK(s, n, F, both), NEW h, HeapOK(h), NEW G \in SUBSET F,
         Members(h) \in SUBSET Members(s.ord), G \in SUBSET Members(h),
         Ordered(s.ord, s.act) => Ordered(h, s.act)
  PROVE  StateOK([s EXCEPT !.ord = h], n, G, both)
<1> DEFINE r == [s EXCEPT !.ord = h]
<1>1. StateOK(s, n, G, both)
  BY FewerFacts
<1>2. /\ r.act = s.act /\ r.ord = h /\ r.lact = s.lact /\ r.lord = s.lord /\ r.queue = s.queue
      /\ r.stale = s.stale /\ r.aged = s.aged /\ r.rescaled = s.rescaled /\ r \in States
  BY DEF StateOK, States, HeapOK
<1> HIDE DEF r
<1> QED
  BY <1>1, <1>2 DEF StateOK, r

LEMMA WithLrbOrder ==
  ASSUME NEW s, NEW n, NEW F, NEW both, StateOK(s, n, F, both), NEW h, HeapOK(h), NEW G \in SUBSET F,
         Members(h) \in SUBSET Members(s.lord), both => G \in SUBSET Members(h),
         Ordered(s.lord, s.lact) => Ordered(h, s.lact)
  PROVE  StateOK([s EXCEPT !.lord = h], n, G, both)
<1> DEFINE r == [s EXCEPT !.lord = h]
<1>1. StateOK(s, n, G, both)
  BY FewerFacts
<1>2. /\ r.act = s.act /\ r.ord = s.ord /\ r.lact = s.lact /\ r.lord = h /\ r.queue = s.queue
      /\ r.stale = s.stale /\ r.aged = s.aged /\ r.rescaled = s.rescaled /\ r \in States
  BY DEF StateOK, States, HeapOK
<1> HIDE DEF r
<1> QED
  BY <1>1, <1>2 DEF StateOK, r

\* The heap's best free variable, once what is assigned has left the top.
Top(h, act, free) ==
  LET p == Peeked(h, act, Assigned)
  IN  /\ HeapOK(p) /\ Members(p) \in SUBSET Members(h) /\ free \in SUBSET Members(p)
      /\ Ordered(h, act) => Ordered(p, act)
      /\ p.heap = << >> => free = {}
      /\ p.heap # << >> => /\ Head(p.heap) \in Members(h) \ Assigned
                           /\ HeapOK(PopMax(p, act)) /\ Members(PopMax(p, act)) \in SUBSET Members(h)
                           /\ free \ {Head(p.heap)} \in SUBSET Members(PopMax(p, act))
                           /\ Ordered(h, act) => Ordered(PopMax(p, act), act)

LEMMA TopFacts ==
  ASSUME NEW act \in Activities, NEW h, HeapOK(h), NEW free \in SUBSET Members(h), free \cap Assigned = {}
  PROVE  Top(h, act, free)
<1> DEFINE p == Peeked(h, act, Assigned)
<1>1. /\ HeapOK(p) /\ Members(p) \in SUBSET Members(h) /\ Members(h) \ Assigned \in SUBSET Members(p)
      /\ Ordered(h, act) => Ordered(p, act)
      /\ p.heap = << >> \/ Head(p.heap) \notin Assigned
  BY PeekedFacts
<1> HIDE DEF p
<1>2. free \in SUBSET Members(p)
  BY <1>1
<1>3. p.heap = << >> => free = {}
  <2> SUFFICES ASSUME p.heap = << >>, NEW x \in free PROVE FALSE
    OBVIOUS
  <2>1. x \in Members(p) /\ x \in Var
    BY <1>2 DEF Members
  <2>2. PICK i \in 1 .. Len(p.heap) : p.heap[i] = x
    BY <1>1, <2>1, HeapFacts
  <2>3. Len(p.heap) = 0
    OBVIOUS
  <2> QED
    BY <2>2, <2>3
<1>4. ASSUME p.heap # << >>
      PROVE  LET r == PopMax(p, act)
             IN  /\ HeapOK(r) /\ Members(r) = Members(p) \ {Head(p.heap)}
                 /\ Head(p.heap) \in Members(p) /\ (Ordered(p, act) => Ordered(r, act))
  BY <1>1, <1>4, PopMaxFacts
<1> QED
  BY <1>1, <1>2, <1>3, <1>4 DEF Top, p

\* The two heaps and the queue as they are when a decision is asked for.
LEMMA AskedFacts ==
  ASSUME BranchInv
  PROVE  /\ Top(order, activity, Free) /\ (UsesTransfer => Top(lrbOrder, lrbActivity, Free))
         /\ \A x \in Members(order) \cup Members(lrbOrder) : x \in 1 .. count
         /\ LET q == Walk(vmtf, Assigned)
            IN  /\ QueueOK(q, count, Free) /\ (q.search = 0 => Free = {})
                /\ q.search # 0 => q.search \in (1 .. count) \ Assigned
<1>1. /\ StateOK(State, count, Free, UsesTransfer) /\ Free \cap Assigned = {} /\ count \in Nat
  BY InvFacts
<1>2. /\ State.act = activity /\ State.ord = order /\ State.lact = lrbActivity
      /\ State.lord = lrbOrder /\ State.queue = vmtf
  BY DEF State
<1>3. /\ activity \in Activities /\ lrbActivity \in Activities /\ HeapOK(order) /\ HeapOK(lrbOrder)
      /\ Free \in SUBSET Members(order) /\ (UsesTransfer => Free \in SUBSET Members(lrbOrder))
      /\ Members(order) \in SUBSET (1 .. count) /\ Members(lrbOrder) \in SUBSET (1 .. count)
      /\ QueueOK(vmtf, count, Free)
  BY <1>1, <1>2 DEF StateOK, States
<1>4. Top(order, activity, Free) /\ (UsesTransfer => Top(lrbOrder, lrbActivity, Free))
  BY <1>1, <1>3, TopFacts
<1> DEFINE q == Walk(vmtf, Assigned)
<1>5. /\ QueueOK(q, count, Free) /\ (q.search = 0 => Free \cap (1 .. count) = {})
      /\ q.search # 0 => q.search \in (1 .. count) \ Assigned
  BY <1>1, <1>3, WalkFacts
<1> HIDE DEF q
<1>6. Free \cap (1 .. count) = Free
  BY DEF Free
<1> QED
  BY <1>3, <1>4, <1>5, <1>6 DEF q

LEMMA StateItself == ASSUME UNCHANGED <<scores, orders, stale, aged, rescaled>> PROVE Becomes(State)
  BY DEF scores, orders, Becomes, State

LEMMA NewVariableStep == ASSUME BranchInv, NewVariable PROVE BranchInv'
<1> DEFINE x == count + 1
           ord == Insert(order, x, activity)
           lord == IF UsesTransfer THEN Insert(lrbOrder, x, lrbActivity) ELSE lrbOrder
           queue == Grown(vmtf, x)
<1>1. /\ count' = x /\ order' = ord /\ lrbOrder' = lord /\ vmtf' = queue
      /\ stale' = [stale EXCEPT ![x] = analyses > 0] /\ aged' = [aged EXCEPT ![x] = analyses > 0]
      /\ strategy' = strategy /\ trail' = trail /\ limits' = limits /\ activity' = activity
      /\ lrbActivity' = lrbActivity /\ plays' = plays /\ rescaled' = rescaled /\ stage' = "idle"
      /\ analyses' = analyses /\ count < MaxVar
  BY DEF NewVariable, settings, scores
<1>2. /\ count \in Nat /\ analyses \in Nat /\ plays \in Seq(Var) /\ TrailOK(trail, limits, count)
      /\ StateOK(State, count, Free, UsesTransfer) /\ MaxVar \in Nat
  BY InvFacts, BranchingAssumption
<1>3. /\ activity \in Activities /\ lrbActivity \in Activities /\ HeapOK(order) /\ HeapOK(lrbOrder)
      /\ (~rescaled => Ordered(order, activity)) /\ Ordered(lrbOrder, lrbActivity)
      /\ Free \in SUBSET Members(order) /\ (UsesTransfer => Free \in SUBSET Members(lrbOrder))
      /\ Members(order) \in SUBSET (1 .. count) /\ Members(lrbOrder) \in SUBSET (1 .. count)
      /\ QueueOK(vmtf, count, Free) /\ stale \in Marks /\ aged \in Marks /\ rescaled \in BOOLEAN
  BY <1>2 DEF StateOK, States, State
<1>4. /\ x \in Var /\ x \in 1 .. x /\ x \in 0 .. MaxVar
      /\ \A y \in 1 .. count : y \in 1 .. x
      /\ \A y \in 1 .. x : y = x \/ y \in 1 .. count
  BY <1>1, <1>2 DEF Var
<1>5. /\ HeapOK(ord) /\ Members(ord) = Members(order) \cup {x}
      /\ Ordered(order, activity) => Ordered(ord, activity)
  BY <1>3, <1>4, InsertFacts
<1>6. /\ HeapOK(lord) /\ (UsesTransfer => Members(lord) = Members(lrbOrder) \cup {x})
      /\ Members(lord) \in SUBSET (Members(lrbOrder) \cup {x}) /\ Ordered(lord, lrbActivity)
  BY <1>3, <1>4, InsertFacts
<1> DEFINE free == (1 .. x) \ Assigned
<1>7. QueueOK(queue, x, free)
  BY <1>1, <1>2, <1>3, GrownFacts
<1>8. stale' \in Marks /\ aged' \in Marks
  <2>1. (analyses > 0) \in BOOLEAN
    BY <1>2
  <2> QED
    BY <1>1, <1>3, <2>1 DEF Marks
<1>9. free \in SUBSET (Free \cup {x})
  <2>1. \A y \in 1 .. x : y = x \/ y \in 1 .. count
    BY <1>4
  <2> HIDE DEF x
  <2>2. \A y \in free : y \in Free \cup {x}
    BY <2>1 DEF Free
  <2> HIDE DEF free
  <2> QED
    BY <2>2
<1> HIDE DEF ord, lord, queue
<1>10. queue \in QueueSet
  BY <1>7 DEF QueueOK
<1> DEFINE s == State'
<1>11. /\ s.act = activity /\ s.ord = ord /\ s.lact = lrbActivity /\ s.lord = lord /\ s.queue = queue
       /\ s.rescaled = rescaled /\ s \in States
  <2>1. s = [act |-> activity, ord |-> ord, lact |-> lrbActivity, lord |-> lord, queue |-> queue,
             stale |-> stale', aged |-> aged', rescaled |-> rescaled]
    BY <1>1 DEF State
  <2> HIDE DEF s
  <2> QED
    BY <1>3, <1>5, <1>6, <1>8, <1>10, <2>1 DEF States, HeapOK
<1> HIDE DEF s, free
<1>12. /\ free \in SUBSET Members(ord) /\ (UsesTransfer => free \in SUBSET Members(lord))
       /\ Members(ord) \in SUBSET (1 .. x) /\ Members(lord) \in SUBSET (1 .. x)
  BY <1>3, <1>4, <1>5, <1>6, <1>9
<1> HIDE DEF x
<1>13. StateOK(s, x, free, UsesTransfer)
  BY <1>3, <1>5, <1>6, <1>7, <1>11, <1>12 DEF StateOK
<1>14. Free' = free /\ UsesTransfer' = UsesTransfer
  BY <1>1 DEF Free, Assigned, UsesTransfer, free
<1>15. StateOK(State, count, Free, UsesTransfer)'
  BY <1>1, <1>13, <1>14 DEF s
<1>16. TrailOK(trail, limits, x)
  BY <1>2, <1>4 DEF TrailOK
<1> QED
  BY <1>1, <1>2, <1>4, <1>15, <1>16 DEF BranchInv

LEMMA QuietStep ==
  ASSUME BranchInv, Solve \/ FinishProbe \/ NothingDue
  PROVE  BranchInv'
<1>1. /\ UNCHANGED <<settings, count, trail, limits, analyses>> /\ plays' \in Seq(Var) /\ stage' # "sat"
      /\ UNCHANGED <<scores, orders, stale, aged, rescaled>>
  BY InvFacts, EmptySeq DEF Solve, FinishProbe, NothingDue, histories
<1> QED
  BY <1>1, StateItself, Staying, InvFacts

LEMMA ImplyStep == ASSUME BranchInv, Imply \/ Assume PROVE BranchInv'
<1>1. /\ UNCHANGED <<settings, count, modes, analyses>> /\ stage' # "sat"
      /\ limits' = limits \/ limits' = Append(limits, Len(trail))
  BY DEF Imply, Assume
<1>2. PICK x \in (1 .. count) \ Assigned : Take(x) /\ Becomes(Enqueued(State, x))
  BY DEF Imply, Assume
<1>3. StateOK(State, count, Free \ {x}, UsesTransfer)
  BY InvFacts, FewerFacts
<1> QED
  BY <1>1, <1>2, <1>3, Taking

LEMMA PropagatedStep == ASSUME BranchInv, Propagated PROVE BranchInv'
<1>1. PICK reward \in [Range(plays) -> 0 .. MaxActivity] : Becomes(Rewarded(reward))
  BY DEF Propagated
<1>2. /\ UNCHANGED <<settings, count, trail, limits, analyses>> /\ plays' \in Seq(Var) /\ stage' # "sat"
  BY EmptySeq DEF Propagated
<1>3. plays \in Seq(Var) /\ Len(plays) \in Nat /\ \A i \in 1 .. Len(plays) : plays[i] \in Var
  BY InvFacts
<1>4. \A i \in 1 .. Len(plays) : plays[i] \in Range(plays)
  BY <1>3 DEF Range
<1>5. \A i \in 1 .. Len(plays) : reward[plays[i]] \in Nat
  BY <1>4, BranchingAssumption
<1>6. StateOK(Rewarded(reward), count, Free, UsesTransfer)
  BY <1>3, <1>5, InvFacts, RewardedFacts
<1> QED
  BY <1>1, <1>2, <1>6, Staying

LEMMA AnalyzeStep == ASSUME BranchInv, Analyze PROVE BranchInv'
<1> DEFINE all == [v \in Var |-> v <= count]
           marked == [State EXCEPT !.stale = all, !.aged = all]
<1>1. PICK seen \in SUBSET {x \in Assigned : ~AtRoot(x)}, level \in 0 .. Level - 1 :
        \E uip \in {x \in seen : AtCurrent(x)} :
          LET s == Analyzed(marked, seen)
          IN  /\ \E reward \in Rewards(s, level) :
                   Becomes(Enqueued(Cancelled(s, level, reward), uip))
              /\ trail' = Append(SubSeq(trail, 1, Kept(level)), uip)
              /\ limits' = SubSeq(limits, 1, level)
              /\ plays' = IF strategy = "chb" THEN Append(plays, uip) ELSE plays
  BY DEF Analyze
<1> DEFINE s == Analyzed(marked, seen)
<1>2. PICK uip \in seen : /\ \E reward \in Rewards(s, level) :
                               Becomes(Enqueued(Cancelled(s, level, reward), uip))
                          /\ trail' = Append(SubSeq(trail, 1, Kept(level)), uip)
                          /\ limits' = SubSeq(limits, 1, level)
                          /\ plays' = IF strategy = "chb" THEN Append(plays, uip) ELSE plays
  BY <1>1
<1>3. PICK reward \in Rewards(s, level) : Becomes(Enqueued(Cancelled(s, level, reward), uip))
  BY <1>2
<1>4. /\ count \in Nat /\ count <= MaxVar /\ plays \in Seq(Var) /\ analyses \in Nat
      /\ TrailOK(trail, limits, count) /\ StateOK(State, count, Free, UsesTransfer)
      /\ Free \cap Assigned = {} /\ Level \in Nat
  BY InvFacts
<1>5. level \in 0 .. Level
  BY <1>4
<1>6. seen \subseteq Assigned /\ seen \subseteq 1 .. count /\ IsFiniteSet(seen)
  <2>1. seen \subseteq Assigned
    OBVIOUS
  <2>2. Assigned = {trail[i] : i \in 1 .. Len(trail)}
    BY <1>4, <1>5, TrailCut DEF Assigned
  <2>3. seen \subseteq 1 .. count
    <3>1. \A i \in 1 .. Len(trail) : trail[i] \in 1 .. count
      BY <1>4 DEF TrailOK
    <3> QED
      BY <2>1, <2>2, <3>1
  <2>4. IsFiniteSet(1 .. count)
    <3>1. count \in Int /\ 1 \in Int
      BY <1>4
    <3> QED
      BY <3>1, FS_Interval
  <2> QED
    BY <2>1, <2>3, <2>4, FS_Subset
<1>7. StateOK(marked, count, Free, UsesTransfer)
  <2>1. all \in Marks
    <3>1. \A v \in Var : (v <= count) \in BOOLEAN
      OBVIOUS
    <3> QED
      BY <3>1 DEF Marks
  <2> HIDE DEF all
  <2> QED
    BY <1>4, <2>1, MarkedFacts
<1> HIDE DEF marked
<1>8. StateOK(s, count, Free, UsesTransfer)
  BY <1>4, <1>6, <1>7, AnalyzedFacts
<1> HIDE DEF s
<1> DEFINE t == SubSeq(trail, 1, Kept(level))
           c == Cancelled(s, level, reward)
<1>9. TrailOK(t, limits', count) /\ StateOK(c, count, (1 .. count) \ Range(t), UsesTransfer)
  BY <1>2, <1>5, <1>8, Cutting
<1>10. uip \in 1 .. count /\ uip \in Var
  BY <1>6, InvFacts
<1> HIDE DEF t, c
<1>11. trail' = Append(t, uip)
  BY <1>2 DEF t
<1>12. TrailOK(trail', limits', count) /\ Range(trail') = Range(t) \cup {uip}
  BY <1>4, <1>9, <1>10, <1>11, TrailGrows
<1>13. StateOK(Enqueued(c, uip), count, (1 .. count) \ Range(t), UsesTransfer)
  BY <1>9, <1>10, EnqueuedFacts
<1>14. (1 .. count) \ Range(trail') \in SUBSET ((1 .. count) \ Range(t))
  BY <1>12
<1>15. StateOK(Enqueued(c, uip), count, (1 .. count) \ Range(trail'), UsesTransfer)
  BY <1>13, <1>14, FewerFacts
<1>16. Becomes(Enqueued(c, uip))
  BY <1>3 DEF c
<1>17. /\ strategy' = strategy /\ count' = count /\ analyses' \in Nat /\ stage' # "sat"
  BY <1>4 DEF Analyze, settings
<1>18. plays' \in Seq(Var)
  BY <1>2, <1>4, <1>10, AppendProperties
<1> QED
  BY <1>12, <1>15, <1>16, <1>17, <1>18, Stepping

LEMMA RootStep == ASSUME BranchInv, Rephase \/ Return PROVE BranchInv'
<1>1. /\ UNCHANGED <<settings, count>> /\ CancelTo(State, 0) /\ stage' # "sat"
      /\ analyses' = analyses /\ plays' = plays
  BY DEF Rephase, Return
<1>2. 0 \in 0 .. Level /\ analyses' \in Nat /\ plays' \in Seq(Var)
      /\ StateOK(State, count, Free, UsesTransfer)
  BY <1>1, InvFacts
<1> QED
  BY <1>1, <1>2, Cancelling

LEMMA SwitchModeStep == ASSUME BranchInv, SwitchMode PROVE BranchInv'
<1> DEFINE q == IF stable THEN ResetSearch(vmtf, Assigned) ELSE vmtf
           s == [State EXCEPT !.queue = q]
<1>1. /\ UNCHANGED <<settings, count, trail, limits, analyses>> /\ plays' = plays /\ stage' # "sat"
      /\ vmtf' = q /\ UNCHANGED <<scores, order, lrbOrder, stale, aged, rescaled>>
  BY DEF SwitchMode, histories
<1>2. StateOK(State, count, Free, UsesTransfer) /\ Free \cap Assigned = {} /\ count \in Nat
      /\ plays' \in Seq(Var)
  BY <1>1, InvFacts
<1>3. QueueOK(vmtf, count, Free)
  BY <1>2 DEF StateOK, State
<1>4. QueueOK(q, count, Free)
  BY <1>2, <1>3, ResetSearchFacts
<1> HIDE DEF q
<1>5. StateOK(s, count, Free, UsesTransfer)
  BY <1>2, <1>4, WithQueue
<1>6. Becomes(s)
  BY <1>1 DEF Becomes, State, scores
<1> HIDE DEF s
<1> QED
  BY <1>1, <1>2, <1>5, <1>6, Staying

\* There is a level that restart_reuse_candidate can stop at.
LEMMA ReuseFacts ==
  ASSUME BranchInv, NEW h
  PROVE  ReuseLevel(h) \in 0 .. Level
<1> DEFINE Worse(k) == Higher(Head(h.heap), trail[limits[k] + 1], activity)
           T == {k \in 0 .. Level : k = Level \/ Worse(k + 1)}
           P(k) == (\A i \in 1 .. k : ~Worse(i)) /\ (k = Level \/ Worse(k + 1))
<1>1. Level \in Nat /\ 0 \in 0 .. Level /\ Level \in 0 .. Level
  BY InvFacts
<1>2. CASE h.heap = << >>
  BY <1>1, <1>2 DEF ReuseLevel
<1>3. CASE h.heap # << >>
  <2> HIDE DEF Worse
  <2>1. T \in SUBSET Nat /\ T # {}
    BY <1>1
  <2>2. PICK k \in T : \A j \in T : k <= j
    <3> HIDE DEF T
    <3> QED
      BY <2>1, LeastNat
  <2>3. \A i \in 1 .. k : ~Worse(i)
    <3> SUFFICES ASSUME NEW i \in 1 .. k, Worse(i) PROVE FALSE
      OBVIOUS
    <3>1. i - 1 \in 0 .. Level /\ i - 1 + 1 = i /\ ~ (k <= i - 1)
      BY <1>1, <2>2
    <3> QED
      BY <2>2, <3>1
  <2>4. \E j \in 0 .. Level : P(j)
    BY <2>2, <2>3
  <2>5. ReuseLevel(h) = CHOOSE j \in 0 .. Level : P(j)
    BY <1>3 DEF ReuseLevel, Worse
  <2> HIDE DEF P
  <2> QED
    BY <2>4, <2>5
<1> QED
  BY <1>2, <1>3

LEMMA RestartSearchStep == ASSUME BranchInv, RestartSearch PROVE BranchInv'
<1> DEFINE h == Peeked(order, activity, Assigned)
           asked == strategy = "evsids" /\ reuse
           s == [State EXCEPT !.ord = IF asked THEN h ELSE order]
<1>1. PICK level \in IF asked THEN {0, ReuseLevel(h)} ELSE {0} : CancelTo(s, level)
  BY DEF RestartSearch, State
<1>2. level \in 0 .. Level
  BY <1>1, ReuseFacts, InvFacts
<1>3. StateOK(s, count, Free, UsesTransfer)
  <2>1. StateOK(State, count, Free, UsesTransfer) /\ State.ord = order /\ State.act = activity
    BY InvFacts DEF State
  <2>2. /\ HeapOK(h) /\ Members(h) \in SUBSET Members(order) /\ Free \in SUBSET Members(h)
        /\ Ordered(order, activity) => Ordered(h, activity)
    BY AskedFacts DEF Top
  <2> HIDE DEF h
  <2> DEFINE g == IF asked THEN h ELSE order
  <2>3. /\ HeapOK(g) /\ Members(g) \in SUBSET Members(State.ord) /\ Free \in SUBSET Members(g)
        /\ Ordered(State.ord, State.act) => Ordered(g, State.act)
    BY <2>1, <2>2 DEF StateOK
  <2> HIDE DEF g
  <2>4. StateOK([State EXCEPT !.ord = g], count, Free, UsesTransfer)
    BY <2>1, <2>3, WithOrder
  <2> QED
    BY <2>4 DEF g
<1>4. /\ UNCHANGED <<settings, count>> /\ stage' # "sat" /\ analyses' \in Nat /\ plays' \in Seq(Var)
  BY InvFacts DEF RestartSearch
<1> HIDE DEF s
<1> QED
  BY <1>1, <1>2, <1>3, <1>4, Cancelling

LEMMA DecideByQueueStep == ASSUME BranchInv, DecideByQueue PROVE BranchInv'
<1> DEFINE q == Walk(vmtf, Assigned)
           x == q.search
           s == [State EXCEPT !.queue = q]
<1>1. x # 0 /\ Decided(s, x)
  BY DEF DecideByQueue
<1>2. QueueOK(q, count, Free) /\ x \in (1 .. count) \ Assigned
  BY <1>1, AskedFacts
<1>3. StateOK(s, count, Free \ {x}, UsesTransfer)
  <2>1. StateOK(State, count, Free, UsesTransfer)
    BY InvFacts
  <2> HIDE DEF q
  <2>2. StateOK(s, count, Free, UsesTransfer)
    BY <1>2, <2>1, WithQueue
  <2> HIDE DEF s, x
  <2> QED
    BY <2>2, FewerFacts
<1> HIDE DEF s, x
<1> QED
  BY <1>1, <1>2, <1>3, Taking DEF Decided

LEMMA DecideByActivityStep == ASSUME BranchInv, DecideByActivity PROVE BranchInv'
<1> DEFINE h == Peeked(order, activity, Assigned)
           x == Head(h.heap)
           p == PopMax(h, activity)
           s == [State EXCEPT !.ord = p]
<1>1. h.heap # << >> /\ Decided(s, x)
  BY DEF DecideByActivity
<1>2. /\ x \in Members(order) \ Assigned /\ HeapOK(p) /\ Members(p) \in SUBSET Members(order)
      /\ Free \ {x} \in SUBSET Members(p) /\ (Ordered(order, activity) => Ordered(p, activity))
  BY <1>1, AskedFacts DEF Top
<1>3. x \in (1 .. count) \ Assigned
  BY <1>2, AskedFacts
<1> HIDE DEF p, x, h
<1>4. StateOK(s, count, Free \ {x}, UsesTransfer)
  <2>1. StateOK(State, count, Free, UsesTransfer) /\ State.ord = order /\ State.act = activity
    BY InvFacts DEF State
  <2> QED
    BY <1>2, <2>1, WithOrder
<1> HIDE DEF s
<1> QED
  BY <1>1, <1>3, <1>4, Taking DEF Decided

\* The heap LRB decides by, after the assigned variables have left its top.
LEMMA LrbFacts ==
  ASSUME BranchInv
  PROVE  LET act == IF UsesTransfer THEN lrbActivity ELSE activity
             r == PopMax(LrbPeeked, act)
             x == Head(LrbPeeked.heap)
         IN  /\ StateOK(WithLrbHeap(LrbPeeked), count, Free, UsesTransfer)
             /\ LrbPeeked.heap = << >> => Free = {}
             /\ LrbPeeked.heap # << >> =>
                  x \in (1 .. count) \ Assigned
                  /\ StateOK(WithLrbHeap(r), count, Free \ {x}, UsesTransfer)
<1> DEFINE p == LrbPeeked
           x == Head(p.heap)
           act == IF UsesTransfer THEN lrbActivity ELSE activity
           r == PopMax(p, act)
<1>1. /\ StateOK(State, count, Free, UsesTransfer)
      /\ State.ord = order /\ State.act = activity /\ State.lord = lrbOrder /\ State.lact = lrbActivity
  BY InvFacts DEF State
<1>2. CASE UsesTransfer
  <2>1. p = Peeked(lrbOrder, lrbActivity, Assigned) /\ r = PopMax(p, lrbActivity)
    BY <1>2 DEF LrbPeeked, LrbHeap
  <2> HIDE DEF p, r
  <2>2. Top(lrbOrder, lrbActivity, Free) /\ \A y \in Members(lrbOrder) : y \in 1 .. count
    BY <1>2, AskedFacts
  <2>3. /\ HeapOK(p) /\ Members(p) \in SUBSET Members(lrbOrder) /\ Free \in SUBSET Members(p)
        /\ Ordered(lrbOrder, lrbActivity) => Ordered(p, lrbActivity)
        /\ p.heap = << >> => Free = {}
    BY <2>1, <2>2 DEF Top
  <2>4. p.heap # << >> => /\ x \in Members(lrbOrder) \ Assigned
                          /\ HeapOK(r) /\ Members(r) \in SUBSET Members(lrbOrder)
                          /\ Free \ {x} \in SUBSET Members(r)
                          /\ Ordered(lrbOrder, lrbActivity) => Ordered(r, lrbActivity)
    BY <2>1, <2>2 DEF Top
  <2> HIDE DEF x
  <2>5. StateOK([State EXCEPT !.lord = p], count, Free, UsesTransfer)
    BY <1>1, <2>3, WithLrbOrder
  <2>6. p.heap # << >> => StateOK([State EXCEPT !.lord = r], count, Free \ {x}, UsesTransfer)
    BY <1>1, <2>4, WithLrbOrder
  <2>7. WithLrbHeap(p) = [State EXCEPT !.lord = p] /\ WithLrbHeap(r) = [State EXCEPT !.lord = r]
    BY <1>2 DEF WithLrbHeap
  <2> QED
    BY <2>2, <2>3, <2>4, <2>5, <2>6, <2>7 DEF p, r, x
<1>3. CASE ~UsesTransfer
  <2>1. p = Peeked(order, activity, Assigned) /\ r = PopMax(p, activity)
    BY <1>3 DEF LrbPeeked, LrbHeap
  <2> HIDE DEF p, r
  <2>2. Top(order, activity, Free) /\ \A y \in Members(order) : y \in 1 .. count
    BY AskedFacts
  <2>3. /\ HeapOK(p) /\ Members(p) \in SUBSET Members(order) /\ Free \in SUBSET Members(p)
        /\ Ordered(order, activity) => Ordered(p, activity)
        /\ p.heap = << >> => Free = {}
    BY <2>1, <2>2 DEF Top
  <2>4. p.heap # << >> => /\ x \in Members(order) \ Assigned
                          /\ HeapOK(r) /\ Members(r) \in SUBSET Members(order)
                          /\ Free \ {x} \in SUBSET Members(r)
                          /\ Ordered(order, activity) => Ordered(r, activity)
    BY <2>1, <2>2 DEF Top
  <2> HIDE DEF x
  <2>5. StateOK([State EXCEPT !.ord = p], count, Free, UsesTransfer)
    BY <1>1, <2>3, WithOrder
  <2>6. p.heap # << >> => StateOK([State EXCEPT !.ord = r], count, Free \ {x}, UsesTransfer)
    BY <1>1, <2>4, WithOrder
  <2>7. WithLrbHeap(p) = [State EXCEPT !.ord = p] /\ WithLrbHeap(r) = [State EXCEPT !.ord = r]
    BY <1>3 DEF WithLrbHeap
  <2> QED
    BY <2>2, <2>3, <2>4, <2>5, <2>6, <2>7 DEF p, r, x
<1> QED
  BY <1>2, <1>3

LEMMA DecideByLrbStep == ASSUME BranchInv, DecideByLrb PROVE BranchInv'
<1> DEFINE x == Head(LrbPeeked.heap)
           s == WithLrbHeap(PopMax(LrbPeeked, IF UsesTransfer THEN lrbActivity ELSE activity))
<1>1. LrbPeeked.heap # << >> /\ Decided(s, x)
  BY DEF DecideByLrb
<1>2. x \in (1 .. count) \ Assigned /\ StateOK(s, count, Free \ {x}, UsesTransfer)
  BY <1>1, LrbFacts
<1> HIDE DEF s, x
<1> QED
  BY <1>1, <1>2, Taking DEF Decided

LEMMA DecayTopStep == ASSUME BranchInv, DecayTop PROVE BranchInv'
<1> DEFINE x == Head(LrbPeeked.heap)
           s == WithLrbHeap(LrbPeeked)
<1>1. /\ LrbPeeked.heap # << >> /\ Becomes(Decayed(s, x)) /\ stage' = stage /\ stage = "decide"
      /\ UNCHANGED <<settings, count, trail, limits, analyses>> /\ plays' = plays
  BY DEF DecayTop
<1>2. x \in (1 .. count) \ Assigned /\ StateOK(s, count, Free, UsesTransfer)
  BY <1>1, LrbFacts
<1> HIDE DEF s, x
<1>3. x \in Var /\ plays' \in Seq(Var)
  BY <1>1, <1>2, InvFacts
<1>4. StateOK(Decayed(s, x), count, Free, UsesTransfer)
  BY <1>2, <1>3, DecayedFacts
<1>5. stage' # "sat"
  BY <1>1
<1> QED
  BY <1>1, <1>3, <1>4, <1>5, Staying

LEMMA AnswerSatStep == ASSUME BranchInv, AnswerSat PROVE BranchInv'
<1>1. /\ NoDecision
      /\ vmtf' = (IF UsesVmtf THEN Walk(vmtf, Assigned) ELSE vmtf)
      /\ order' = (IF UsesVmtf \/ (UsesTransfer /\ lrbActive) THEN order
                   ELSE Peeked(order, activity, Assigned))
      /\ lrbOrder' = (IF LrbDecides /\ UsesTransfer THEN LrbPeeked ELSE lrbOrder)
      /\ UNCHANGED <<settings, count, trail, limits, scores, modes, histories, analyses>>
  BY DEF AnswerSat
<1>2. Free = {}
  <2>1. CASE UsesVmtf
    BY <1>1, <2>1, AskedFacts DEF NoDecision
  <2>2. CASE ~UsesVmtf /\ LrbDecides
    BY <1>1, <2>2, LrbFacts DEF NoDecision
  <2>3. CASE ~UsesVmtf /\ ~LrbDecides
    <3>1. Peeked(order, activity, Assigned).heap = << >>
      BY <1>1, <2>3 DEF NoDecision
    <3>2. Top(order, activity, Free)
      BY AskedFacts
    <3> QED
      BY <3>1, <3>2 DEF Top
  <2> QED
    BY <2>1, <2>2, <2>3
<1>3. /\ StateOK(State, count, Free, UsesTransfer) /\ State.queue = vmtf
      /\ State.ord = order /\ State.act = activity /\ State.lord = lrbOrder /\ State.lact = lrbActivity
      /\ analyses \in Nat /\ plays \in Seq(Var) /\ TrailOK(trail, limits, count)
  BY InvFacts DEF State
<1> DEFINE a == [State EXCEPT !.queue = vmtf']
           b == [a EXCEPT !.ord = order']
           c == [b EXCEPT !.lord = lrbOrder']
<1>4. StateOK(a, count, Free, UsesTransfer)
  <2>1. QueueOK(vmtf', count, Free)
    BY <1>1, <1>3, AskedFacts DEF StateOK
  <2> QED
    BY <1>3, <2>1, WithQueue
<1>5. a.ord = order /\ a.act = activity /\ a.lord = lrbOrder /\ a.lact = lrbActivity
  BY DEF State
<1>6. StateOK(b, count, Free, UsesTransfer)
  <2>1. /\ HeapOK(order') /\ Members(order') \in SUBSET Members(order) /\ Free \in SUBSET Members(order')
        /\ Ordered(order, activity) => Ordered(order', activity)
    <3>1. CASE order' = order
      BY <1>3, <3>1 DEF StateOK
    <3>2. CASE order' = Peeked(order, activity, Assigned)
      BY <3>2, AskedFacts DEF Top
    <3> QED
      BY <1>1, <3>1, <3>2
  <2> HIDE DEF a
  <2> QED
    BY <1>4, <1>5, <2>1, WithOrder
<1>7. b.lord = lrbOrder /\ b.lact = lrbActivity
  BY DEF State
<1>8. StateOK(c, count, Free, UsesTransfer)
  <2>1. /\ HeapOK(lrbOrder') /\ Members(lrbOrder') \in SUBSET Members(lrbOrder)
        /\ UsesTransfer => Free \in SUBSET Members(lrbOrder')
        /\ Ordered(lrbOrder, lrbActivity) => Ordered(lrbOrder', lrbActivity)
    <3>1. CASE lrbOrder' = lrbOrder
      BY <1>3, <3>1 DEF StateOK
    <3>2. CASE UsesTransfer /\ lrbOrder' = LrbPeeked
      <4>1. lrbOrder' = Peeked(lrbOrder, lrbActivity, Assigned)
        BY <3>2 DEF LrbPeeked, LrbHeap
      <4>2. Top(lrbOrder, lrbActivity, Free)
        BY <3>2, AskedFacts
      <4> QED
        BY <4>1, <4>2 DEF Top
    <3> QED
      BY <1>1, <3>1, <3>2
  <2> HIDE DEF b
  <2> QED
    BY <1>6, <1>7, <2>1, WithLrbOrder
<1>9. State' = c
  <2>1. /\ a.act = activity /\ a.ord = order /\ a.lact = lrbActivity /\ a.lord = lrbOrder
        /\ a.queue = vmtf' /\ a.stale = stale /\ a.aged = aged /\ a.rescaled = rescaled
    BY DEF State
  <2>2. a \in States /\ b \in States /\ c \in States
    BY <1>4, <1>6, <1>8 DEF StateOK
  <2> HIDE DEF a
  <2>3. /\ b.act = activity /\ b.ord = order' /\ b.lact = lrbActivity /\ b.lord = lrbOrder
        /\ b.queue = vmtf' /\ b.stale = stale /\ b.aged = aged /\ b.rescaled = rescaled
    BY <2>1, <2>2 DEF States
  <2> HIDE DEF b
  <2>4. /\ c.act = activity /\ c.ord = order' /\ c.lact = lrbActivity /\ c.lord = lrbOrder'
        /\ c.queue = vmtf' /\ c.stale = stale /\ c.aged = aged /\ c.rescaled = rescaled
    BY <2>2, <2>3 DEF States
  <2> HIDE DEF c
  <2>5. Becomes(c)
    BY <1>1, <2>4 DEF Becomes, scores, histories
  <2> QED
    BY <2>2, <2>5, BecomesFacts
<1> HIDE DEF c
<1>10. Free' = Free /\ UsesTransfer' = UsesTransfer /\ count' = count
  BY <1>1 DEF Free, Assigned, UsesTransfer, settings
<1>11. StateOK(State, count, Free, UsesTransfer)'
  BY <1>8, <1>9, <1>10
<1>12. /\ trail' = trail /\ limits' = limits /\ plays' = plays /\ analyses' = analyses
  BY <1>1 DEF histories
<1> QED
  BY <1>2, <1>3, <1>10, <1>11, <1>12 DEF BranchInv

LEMMA InitBranching == BranchingInit => BranchInv
<1> SUFFICES ASSUME BranchingInit PROVE BranchInv
  OBVIOUS
<1>1. /\ count = 0 /\ trail = << >> /\ limits = << >> /\ plays = << >> /\ analyses = 0 /\ stage = "idle"
      /\ MaxVar \in Nat /\ MaxStamp \in Nat /\ 0 \in Link
  BY BranchingAssumption DEF BranchingInit, Link
<1>2. Free = {}
  BY <1>1 DEF Free
<1>3. NoHeap \in HeapSet /\ NoHeap.heap = << >> /\ NoHeap.pos = [v \in Var |-> 0] /\ Len(NoHeap.heap) = 0
  <2>1. << >> \in Seq(Var) /\ [v \in Var |-> 0] \in [Var -> Nat]
    BY EmptySeq
  <2> QED
    BY <2>1 DEF NoHeap, HeapSet
<1>4. HeapOK(NoHeap) /\ Members(NoHeap) = {} /\ \A act : Ordered(NoHeap, act)
  BY <1>3 DEF HeapOK, Positioned, Members, Ordered
<1>5. QueueOK(NoQueue, 0, {})
  <2>1. /\ NoQueue \in QueueSet /\ NoQueue.first = 0 /\ NoQueue.last = 0 /\ NoQueue.search = 0
    BY <1>1 DEF NoQueue, QueueSet
  <2>2. << >> \in Seq(Var) /\ Len(<< >>) = 0 /\ 1 .. 0 = {} /\ DOMAIN << >> = {}
    BY EmptySeq
  <2>3. Lists(NoQueue, << >>)
    BY <1>1, <2>1, <2>2 DEF Lists, Linking, Rising
  <2>4. Holding(<< >>, 0) /\ Cursor(NoQueue, << >>, {})
    BY <2>1, <2>2 DEF Holding, Cursor, Range
  <2> QED
    BY <2>1, <2>3, <2>4 DEF QueueOK
<1>6. /\ State.act = [v \in Var |-> 0] /\ State.lact = [v \in Var |-> 0] /\ State.ord = NoHeap
      /\ State.lord = NoHeap /\ State.queue = NoQueue /\ State.rescaled = FALSE
      /\ State \in States
  BY <1>3, <1>5 DEF BranchingInit, State, States, Activities, Marks, QueueOK
<1>7. StateOK(State, count, Free, UsesTransfer)
  BY <1>1, <1>2, <1>4, <1>5, <1>6 DEF StateOK
<1>8. TrailOK(trail, limits, count)
  BY <1>1, EmptySeq DEF TrailOK
<1> QED
  BY <1>1, <1>7, <1>8, EmptySeq DEF BranchInv

LEMMA StillBranching == BranchInv /\ UNCHANGED branching => BranchInv'
<1> SUFFICES ASSUME BranchInv, UNCHANGED branching PROVE BranchInv'
  OBVIOUS
<1>1. /\ count' = count /\ trail' = trail /\ limits' = limits /\ plays' = plays /\ stage' = stage
      /\ analyses' = analyses /\ State' = State /\ strategy' = strategy
  BY DEF branching, settings, scores, orders, histories, State
<1>2. UsesTransfer' = UsesTransfer /\ Free' = Free
  BY <1>1 DEF UsesTransfer, Free, Assigned
<1> QED
  BY <1>1, <1>2 DEF BranchInv

LEMMA NextBranching == BranchInv /\ [BranchingNext]_branching => BranchInv'
<1> SUFFICES ASSUME BranchInv, [BranchingNext]_branching PROVE BranchInv'
  OBVIOUS
<1>1. CASE BranchingNext
  BY <1>1, NewVariableStep, QuietStep, ImplyStep, PropagatedStep, AnalyzeStep, RootStep,
     SwitchModeStep, RestartSearchStep, DecideByQueueStep, DecideByActivityStep, DecideByLrbStep,
     DecayTopStep, AnswerSatStep DEF BranchingNext
<1> QED
  BY <1>1, StillBranching

\* What the heaps, the list and the cursor keep to themselves: all orders hold
\* every free variable while the others act on them.
THEOREM OrdersStand == BranchingSpec => []BranchInv
<1>1. BranchingInit => BranchInv
  BY InitBranching
<1>2. BranchInv /\ [BranchingNext]_branching => BranchInv'
  BY NextBranching
<1> QED
  BY <1>1, <1>2, PTL DEF BranchingSpec

\* Solver::decide never overlooks a variable: whichever order chooses now, each
\* of them can still reach every free variable, and "sat" means none is left.
THEOREM NoneOverlooked == BranchingSpec => []NoVariableLost
<1>1. ASSUME BranchInv PROVE NoVariableLost
  <2>1. StateOK(State, count, Free, UsesTransfer) /\ \A x \in 1 .. count : x \in Var
    BY <1>1, InvFacts
  <2>2. /\ Free \in SUBSET Members(order) /\ (UsesTransfer => Free \in SUBSET Members(lrbOrder))
        /\ QueueOK(vmtf, count, Free)
    BY <2>1 DEF StateOK, State
  <2>3. Holds(order) /\ (UsesTransfer => Holds(lrbOrder))
    BY <2>2 DEF Holds, Members, Free
  <2>4. PICK L : Lists(vmtf, L) /\ Holding(L, count) /\ Cursor(vmtf, L, Free)
    BY <2>2 DEF QueueOK
  <2>5. /\ DOMAIN L = 1 .. Len(L) /\ Range(L) = 1 .. count /\ Rising(vmtf, L)
        /\ \A i \in 1 .. Len(L) : L[i] # 0 /\ vmtf.stamp[L[i]] \in Nat
    BY <2>2, <2>4, ListFacts DEF QueueOK, Lists, Holding
  <2>6. ASSUME NEW x \in (1 .. count) \ Assigned
        PROVE  vmtf.search # 0 /\ vmtf.stamp[x] <= vmtf.stamp[vmtf.search]
    <3>1. PICK i \in 1 .. Len(L) : L[i] = x
      BY <2>5 DEF Range
    <3>2. PICK s \in 1 .. Len(L) : vmtf.search = L[s] /\ i <= s
      BY <2>4, <3>1 DEF Cursor, Free
    <3>3. CASE i = s
      BY <2>5, <3>1, <3>2, <3>3
    <3>4. CASE i # s
      <4>1. i < s
        BY <3>2, <3>4
      <4> QED
        BY <2>5, <3>1, <3>2, <4>1 DEF Rising
    <3> QED
      BY <3>3, <3>4
  <2>7. stage = "sat" => 1 .. count \subseteq Assigned
    BY <1>1 DEF BranchInv, Free
  <2> QED
    BY <2>3, <2>6, <2>7 DEF NoVariableLost
<1> QED
  BY <1>1, OrdersStand, PTL

\* VarOrder and VmtfOrder are what their operations rely on: positions lead to
\* the variables, no child is better than its parent, and the list runs both
\* ways through all variables with rising stamps.
THEOREM OrdersSound == BranchingSpec => []OrdersOK
<1>1. ASSUME BranchInv PROVE OrdersOK
  <2>1. StateOK(State, count, Free, UsesTransfer) /\ count \in Nat
    BY <1>1, InvFacts
  <2>2. /\ Positioned(order) /\ Positioned(lrbOrder) /\ (~rescaled => Ordered(order, activity))
        /\ Ordered(lrbOrder, lrbActivity) /\ QueueOK(vmtf, count, Free)
    BY <2>1 DEF StateOK, State, HeapOK
  <2>3. PICK L : Lists(vmtf, L) /\ Holding(L, count)
    BY <2>2 DEF QueueOK
  <2>4. /\ vmtf \in QueueSet /\ Linking(vmtf, L) /\ Rising(vmtf, L) /\ Len(L) = count /\ Range(L) = 1 .. count
        /\ DOMAIN L = 1 .. count /\ \A i \in 1 .. count : vmtf.stamp[L[i]] <= vmtf.now
    BY <2>2, <2>3, ListFacts DEF QueueOK, Lists, Holding
  <2>5. ListFrom(vmtf, vmtf.first) = L
    BY <2>4, ListFromFacts
  <2>6. vmtf.last = IF count = 0 THEN 0 ELSE Last(L)
    BY <2>4 DEF Linking, Last
  <2>7. ASSUME NEW i \in 2 .. count
        PROVE vmtf.prev[L[i]] = L[i - 1] /\ vmtf.stamp[L[i - 1]] < vmtf.stamp[L[i]]
    <3>1. i \in 1 .. count /\ i - 1 \in 1 .. count /\ i - 1 < i /\ i # 1
      BY <2>1
    <3> QED
      BY <2>4, <3>1 DEF Linking, Rising
  <2>8. \A x \in 1 .. count : vmtf.stamp[x] <= vmtf.now
    <3> TAKE x \in 1 .. count
    <3>1. PICK i \in 1 .. count : L[i] = x
      BY <2>4 DEF Range
    <3> QED
      BY <2>4, <3>1
  <2> QED
    BY <2>2, <2>4, <2>5, <2>6, <2>7, <2>8 DEF OrdersOK
<1> QED
  BY <1>1, OrdersStand, PTL
=============================================================================
