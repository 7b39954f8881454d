----------------------------- MODULE CdclProofs -----------------------------
(***************************************************************************)
(* Every answer of the search machine of module Cdcl is right, for every   *)
(* set of variables, every formula and every sequence of queries.          *)
(***************************************************************************)
EXTENDS Cdcl, WellFoundedInduction, TLAPS

-----------------------------------------------------------------------------
(***************************************************************************)
(* Literals, models and entailment.                                        *)
(***************************************************************************)

\* Complementing a literal twice gives it back, and never gives it at once.
LEMMA NegLit ==
  ASSUME NEW l \in Lit
  PROVE  Neg(l) \in Lit /\ Neg(Neg(l)) = l /\ Neg(l) # l
BY VarAssumption DEF Lit, Neg

\* The literals of a clause and their complements determine each other.
LEMMA NegsLit ==
  ASSUME NEW c \in SUBSET Lit
  PROVE  Negs(c) \in SUBSET Lit /\ Negs(Negs(c)) = c
BY NegLit DEF Negs

\* A model makes exactly one of a literal and its complement true.
LEMMA ModelTotal ==
  ASSUME NEW m \in Model, NEW l \in Lit
  PROVE  (Neg(l) \in m) <=> (l \notin m)
BY VarAssumption DEF Model, Lit, Neg

\* A model misses a clause exactly when it contains all its complements.
LEMMA ModelMisses ==
  ASSUME NEW m \in Model, NEW c \in SUBSET Lit
  PROVE  (c \cap m = {}) <=> (Negs(c) \subseteq m)
BY ModelTotal, NegLit DEF Negs

\* A larger formula entails and refutes what the smaller one does.
LEMMA EntailsMonotone ==
  ASSUME NEW F, NEW G, F \subseteq G
  PROVE  /\ \A c : Entails(F, c) => Entails(G, c)
         /\ \A A : Refutes(F, A) => Refutes(G, A)
BY DEF Entails, Refutes, Satisfies

\* A nonempty set of natural numbers has a least element.
LEMMA LeastNat ==
  ASSUME NEW T \in SUBSET Nat, T # {}
  PROVE  \E x \in T : \A y \in T : x <= y
<1> DEFINE R == OpToRel(<, Nat)
<1>1. IsWellFoundedOn(R, Nat)
  BY NatLessThanWellFounded
<1>2. \A y, x \in Nat : <<y, x>> \in R <=> y < x
  BY DEF OpToRel
<1> HIDE DEF R
<1>3. PICK x \in T : \A y \in T : <<y, x>> \notin R
  BY <1>1, WFMin
<1>4. \A y \in T : ~ (y < x)
  BY <1>2, <1>3
<1> QED
  BY <1>4
-----------------------------------------------------------------------------
(***************************************************************************)
(* What the trail says about the models of the input.                      *)
(***************************************************************************)

\* Entries of the trail have the fields the type invariant gives them.
LEMMA EntryFields ==
  ASSUME TypeOK, NEW i \in Positions
  PROVE  /\ trail[i] \in Entry
         /\ trail[i].lit \in Lit /\ trail[i].lev \in Nat
         /\ trail[i].rsn \in SUBSET Lit
         /\ i \in Nat
<1>1. trail \in Seq(Entry) /\ i \in 1 .. Len(trail)
  BY DEF TypeOK, Positions
<1>2. trail[i] \in Entry /\ i \in Nat
  BY <1>1
<1> QED
  BY <1>2 DEF Entry

\* A literal is assigned at one position only.
LEMMA OnePosition ==
  ASSUME TypeOK, TrailOK, NEW i \in Positions, NEW j \in Positions,
         trail[i].lit = trail[j].lit
  PROVE  i = j
BY EntryFields DEF TrailOK, Positions

\* Complementary literals are never both assigned.
LEMMA NoClash ==
  ASSUME TypeOK, TrailOK, NEW i \in Positions, NEW j \in Positions
  PROVE  trail[j].lit # Neg(trail[i].lit)
<1> SUFFICES ASSUME trail[j].lit = Neg(trail[i].lit) PROVE FALSE
  OBVIOUS
<1>1. /\ i \in Nat /\ j \in Nat /\ i >= 1 /\ j >= 1
      /\ trail[i].lit = Neg(trail[j].lit) /\ trail[i].lit # trail[j].lit
  BY EntryFields, NegLit DEF Positions
<1>2. i # j
  BY <1>1
<1>3. CASE i < j
  <2>1. i \in 1 .. j - 1
    BY <1>1, <1>3
  <2> QED
    BY <1>1, <2>1 DEF TrailOK
<1>4. CASE j < i
  <2>1. j \in 1 .. i - 1
    BY <1>1, <1>4
  <2> QED
    BY <2>1 DEF TrailOK
<1> QED
  BY <1>1, <1>2, <1>3, <1>4

(***************************************************************************)
(* Following reasons backwards is sound: a model of the input that makes   *)
(* the literals of the cut true makes every assignment explained by them   *)
(* true.  The earliest explained literal the model would miss has a reason *)
(* all of whose other literals the model falsifies.                        *)
(***************************************************************************)
LEMMA ChainHolds ==
  ASSUME TypeOK, TrailOK, ReasonOK, DatabaseOK,
         NEW S \in SUBSET Positions, NEW cut \in SUBSET Lit,
         \A i \in S : /\ trail[i].rsn # {}
                      /\ Negs(trail[i].rsn \ {trail[i].lit}) \subseteq cut \cup LitsAt(S),
         NEW m \in Model, Satisfies(m, inputs), cut \subseteq m
  PROVE  LitsAt(S) \subseteq m
<1> DEFINE T == {i \in S : trail[i].lit \notin m}
<1> SUFFICES ASSUME T # {} PROVE FALSE
  BY DEF LitsAt
<1>1. PICK i \in T : \A j \in T : i <= j
  <2>1. T \in SUBSET Nat
    BY EntryFields
  <2> QED
    BY <2>1, LeastNat
<1> DEFINE r == trail[i].rsn
<1>2. /\ i \in S /\ i \in Positions /\ r # {} /\ r \in SUBSET Lit
      /\ trail[i].lit \notin m
  BY <1>1, EntryFields
<1>3. Entails(inputs, r)
  BY <1>2 DEF ReasonOK, DatabaseOK
<1>4. PICK k \in r : k \in m
  BY <1>3 DEF Entails
<1>5. k \in r \ {trail[i].lit} /\ k \in Lit /\ Neg(k) \notin m
  BY <1>2, <1>4, ModelTotal
<1>6. Neg(k) \in Negs(r \ {trail[i].lit})
  BY <1>5 DEF Negs
<1>7. PICK j \in S : trail[j].lit = Neg(k)
  BY <1>2, <1>5, <1>6 DEF LitsAt
<1>8. PICK h \in 1 .. i - 1 : trail[h].lit = Neg(k)
  BY <1>2, <1>5 DEF ReasonOK
<1>9. h \in Positions /\ h < i
  BY <1>2, <1>8 DEF Positions, TypeOK
<1>10. j = h
  BY <1>7, <1>8, <1>9, OnePosition
<1>11. j \in T
  BY <1>5, <1>7
<1> QED
  BY <1>1, <1>9, <1>10, <1>11, EntryFields

\* Root assignments hold in every model of the input.
LEMMA RootHolds ==
  ASSUME TypeOK, TrailOK, ReasonOK, RootOK, DatabaseOK,
         NEW m \in Model, Satisfies(m, inputs)
  PROVE  RootLits \subseteq m
<1> DEFINE Z == {i \in Positions : trail[i].lev = 0}
           U == {i \in Z : trail[i].rsn = {}}
           S == Z \ U
<1>1. LitsAt(U) \in SUBSET Lit /\ LitsAt(U) \subseteq m
  BY EntryFields DEF LitsAt, RootOK, Entails
<1>2. ASSUME NEW i \in S
      PROVE  Negs(trail[i].rsn \ {trail[i].lit}) \subseteq LitsAt(U) \cup LitsAt(S)
  <2> SUFFICES ASSUME NEW k \in trail[i].rsn \ {trail[i].lit}
               PROVE  Neg(k) \in LitsAt(U) \cup LitsAt(S)
    BY DEF Negs
  <2>1. PICK j \in 1 .. i - 1 : trail[j].lit = Neg(k)
    BY <1>2 DEF ReasonOK
  <2>2. j \in Positions /\ trail[j].lev <= trail[i].lev
    BY <2>1, EntryFields DEF TrailOK, Positions, TypeOK
  <2>3. j \in Z
    BY <2>2, EntryFields
  <2> QED
    BY <2>1, <2>3 DEF LitsAt
<1>3. LitsAt(S) \subseteq m
  BY <1>1, <1>2, ChainHolds
<1> QED
  BY <1>1, <1>3 DEF RootLits, LitsAt

\* The same for the explanations the analyses build, whose literals may also
\* be falsified by root assignments.
LEMMA ExplainedHolds ==
  ASSUME TypeOK, TrailOK, ReasonOK, RootOK, DatabaseOK,
         NEW S \in SUBSET Positions, NEW cut \in SUBSET Lit, Explained(S, cut),
         NEW m \in Model, Satisfies(m, inputs), cut \subseteq m
  PROVE  LitsAt(S) \cup RootLits \subseteq m
<1>1. RootLits \subseteq m
  BY RootHolds
<1>2. RootLits \in SUBSET Lit
  BY EntryFields DEF RootLits, LitsAt
<1> DEFINE facts == cut \cup RootLits
<1>3. facts \in SUBSET Lit /\ facts \subseteq m
  BY <1>1, <1>2
<1>4. \A i \in S : /\ trail[i].rsn # {}
                   /\ Negs(trail[i].rsn \ {trail[i].lit}) \subseteq facts \cup LitsAt(S)
  BY DEF Explained
<1> HIDE DEF facts
<1>5. LitsAt(S) \subseteq m
  BY <1>3, <1>4, ChainHolds
<1> QED
  BY <1>1, <1>5
-----------------------------------------------------------------------------
(***************************************************************************)
(* How the steps change the trail.  Every step keeps it, truncates it at a *)
(* level (CancelUntil), or truncates it and appends one assignment.        *)
(***************************************************************************)
TrailInv == TrailOK /\ ReasonOK /\ RootOK

\* Truncating at a level keeps the entries below it as they were.
LEMMA CancelKeeps ==
  ASSUME TypeOK, NEW k \in Nat, CancelUntil(k)
  PROVE  /\ trail' \in Seq(Entry) /\ level' = k
         /\ Positions' \subseteq Positions
         /\ \A i \in Positions' : trail'[i] = trail[i] /\ trail[i].lev <= k
         /\ \A i \in Positions : trail[i].lev <= k => i \in Positions'
<1>1. PICK n \in 0 .. Len(trail) : CutAt(n, k) /\ trail' = SubSeq(trail, 1, n)
  BY DEF CancelUntil
<1>2. trail \in Seq(Entry) /\ Len(trail) \in Nat /\ n \in Nat
  BY DEF TypeOK
<1>3. \A i \in 1 .. n : trail[i] \in Entry
  BY <1>2
<1>4. /\ trail' \in Seq(Entry) /\ Len(trail') = n
      /\ \A i \in 1 .. n : trail'[i] = trail[i]
  BY <1>1, <1>2, <1>3
<1> QED
  <2>1. Positions' = 1 .. n /\ Positions = 1 .. Len(trail)
    BY <1>4 DEF Positions
  <2>2. \A i \in 1 .. n : trail[i].lev <= k
    BY <1>1 DEF CutAt
  <2>3. \A i \in Positions : trail[i].lev <= k => i \in 1 .. n
    <3> SUFFICES ASSUME NEW i \in Positions, i \notin 1 .. n, trail[i].lev <= k
                 PROVE  FALSE
      OBVIOUS
    <3>1. i \in n + 1 .. Len(trail)
      BY <1>2, <2>1
    <3>2. trail[i].lev > k
      BY <1>1, <3>1 DEF CutAt
    <3> QED
      BY <3>2, EntryFields
  <2> QED
    BY <1>2, <1>4, <2>1, <2>2, <2>3 DEF CancelUntil

\* Truncation preserves the trail invariants and the root assignments, even
\* while the formula grows.
LEMMA CancelStep ==
  ASSUME TypeOK, TrailInv, NEW k \in Nat, CancelUntil(k),
         inputs \subseteq inputs', Clauses \subseteq Clauses',
         known \subseteq known'
  PROVE  TrailInv' /\ RootLits' = RootLits
<1> USE CancelKeeps
<1>1. TrailOK'
  <2> SUFFICES ASSUME NEW i \in Positions'
               PROVE  /\ trail'[i].lev <= level'
                      /\ VarOf(trail'[i].lit) \in known'
                      /\ \A j \in 1 .. i - 1 :
                           /\ trail'[j].lev <= trail'[i].lev
                           /\ trail'[j].lit # trail'[i].lit
                           /\ trail'[j].lit # Neg(trail'[i].lit)
    BY DEF TrailOK
  <2>1. i \in Positions /\ trail'[i] = trail[i] /\ trail[i].lev <= k
    OBVIOUS
  <2>2. \A j \in 1 .. i - 1 : j \in Positions' /\ trail'[j] = trail[j]
    BY DEF Positions
  <2> QED
    BY <2>1, <2>2 DEF TrailInv, TrailOK
<1>2. ReasonOK'
  <2> SUFFICES ASSUME NEW i \in Positions', trail'[i].rsn # {}
               PROVE  /\ trail'[i].lit \in trail'[i].rsn
                      /\ trail'[i].rsn \in Clauses'
                      /\ \A x \in trail'[i].rsn \ {trail'[i].lit} :
                           \E j \in 1 .. i - 1 : trail'[j].lit = Neg(x)
    BY DEF ReasonOK
  <2>1. i \in Positions /\ trail'[i] = trail[i]
    OBVIOUS
  <2>2. \A j \in 1 .. i - 1 : j \in Positions' /\ trail'[j] = trail[j]
    BY DEF Positions
  <2> QED
    BY <2>1, <2>2 DEF TrailInv, ReasonOK
<1>3. RootOK'
  <2> SUFFICES ASSUME NEW i \in Positions', trail'[i].lev = 0, trail'[i].rsn = {}
               PROVE  Entails(inputs', {trail'[i].lit})
    BY DEF RootOK
  <2>1. Entails(inputs, {trail[i].lit})
    BY DEF TrailInv, RootOK
  <2>2. trail'[i].lit = trail[i].lit
    OBVIOUS
  <2>3. Entails(inputs', {trail[i].lit})
    BY <2>1 DEF Entails, Satisfies
  <2> QED
    BY <2>2, <2>3
<1>4. RootLits' = RootLits
  <2>1. {i \in Positions' : trail'[i].lev = 0} = {i \in Positions : trail[i].lev = 0}
    BY EntryFields
  <2>2. \A i \in Positions' : trail'[i].lit = trail[i].lit
    OBVIOUS
  <2>3. RootLits = {trail[i].lit : i \in {j \in Positions : trail[j].lev = 0}}
    BY DEF RootLits, LitsAt
  <2>4. RootLits' = {trail'[i].lit : i \in {j \in Positions' : trail'[j].lev = 0}}
    BY DEF RootLits, LitsAt
  <2> QED
    BY <2>1, <2>2, <2>3, <2>4
<1> QED
  BY <1>1, <1>2, <1>3, <1>4 DEF TrailInv

\* Truncating at level b and assigning l there preserves the trail invariants
\* when the reason of l, if it has one, is falsified by what was kept.
LEMMA AssignStep ==
  ASSUME TypeOK, TrailInv,
         NEW b \in Nat, NEW n \in 0 .. Len(trail), CutAt(n, b),
         NEW l \in Lit, NEW r \in SUBSET Lit,
         trail' = Append(SubSeq(trail, 1, n), Assign(l, b, r)), level' = b,
         \A i \in 1 .. n : trail[i].lit # l /\ trail[i].lit # Neg(l),
         VarOf(l) \in known', known \subseteq known',
         inputs \subseteq inputs', Clauses \subseteq Clauses',
         r # {} => /\ l \in r /\ r \in Clauses'
                   /\ \A x \in r \ {l} : \E j \in 1 .. n : trail[j].lit = Neg(x),
         b = 0 /\ r = {} => Entails(inputs', {l})
  PROVE  /\ trail' \in Seq(Entry)
         /\ Positions' = 1 .. n + 1 /\ 1 .. n \subseteq Positions
         /\ \A i \in 1 .. n : trail'[i] = trail[i] /\ trail[i].lev <= b
         /\ trail'[n + 1] = Assign(l, b, r)
         /\ TrailInv' /\ RootLits \subseteq RootLits'
<1> DEFINE kept == SubSeq(trail, 1, n)
<1>1. trail \in Seq(Entry) /\ Len(trail) \in Nat /\ n \in Nat
  BY DEF TypeOK
<1>2. \A i \in 1 .. n : trail[i] \in Entry
  BY <1>1
<1>3. kept \in Seq(Entry) /\ Len(kept) = n /\ \A i \in 1 .. n : kept[i] = trail[i]
  BY <1>1, <1>2
<1>4. Assign(l, b, r) \in Entry
  BY DEF Assign, Entry
<1>5. /\ trail' \in Seq(Entry) /\ Len(trail') = n + 1
      /\ \A i \in 1 .. n : trail'[i] = trail[i]
      /\ trail'[n + 1] = Assign(l, b, r)
  <2> HIDE DEF kept
  <2>1. trail' = Append(kept, Assign(l, b, r))
    BY DEF kept
  <2> QED
    BY <1>1, <1>3, <1>4, <2>1
<1>6. Positions' = 1 .. n + 1 /\ 1 .. n \subseteq Positions
  BY <1>1, <1>5 DEF Positions
<1>7. \A i \in 1 .. n : trail[i].lev <= b
  BY DEF CutAt
<1>8. /\ Assign(l, b, r).lit = l /\ Assign(l, b, r).lev = b
      /\ Assign(l, b, r).rsn = r
  BY DEF Assign
<1>9. ASSUME NEW i \in 1 .. n, NEW j \in 1 .. i - 1
      PROVE  j \in 1 .. n /\ trail'[j] = trail[j]
  BY <1>1, <1>5
<1>10. TrailOK'
  <2> SUFFICES ASSUME NEW i \in Positions'
               PROVE  /\ trail'[i].lev <= level'
                      /\ VarOf(trail'[i].lit) \in known'
                      /\ \A j \in 1 .. i - 1 :
                           /\ trail'[j].lev <= trail'[i].lev
                           /\ trail'[j].lit # trail'[i].lit
                           /\ trail'[j].lit # Neg(trail'[i].lit)
    BY DEF TrailOK
  <2>1. CASE i \in 1 .. n
    BY <1>5, <1>6, <1>7, <1>9, <2>1 DEF TrailInv, TrailOK
  <2>2. CASE i = n + 1
    <3>1. 1 .. i - 1 = 1 .. n
      BY <1>1, <2>2
    <3> QED
      BY <1>5, <1>7, <1>8, <2>2, <3>1
  <2> QED
    BY <1>1, <1>6, <2>1, <2>2
<1>11. ReasonOK'
  <2> SUFFICES ASSUME NEW i \in Positions', trail'[i].rsn # {}
               PROVE  /\ trail'[i].lit \in trail'[i].rsn
                      /\ trail'[i].rsn \in Clauses'
                      /\ \A x \in trail'[i].rsn \ {trail'[i].lit} :
                           \E j \in 1 .. i - 1 : trail'[j].lit = Neg(x)
    BY DEF ReasonOK
  <2>1. CASE i \in 1 .. n
    BY <1>5, <1>6, <1>9, <2>1 DEF TrailInv, ReasonOK
  <2>2. CASE i = n + 1
    <3>1. 1 .. i - 1 = 1 .. n
      BY <1>1, <2>2
    <3> QED
      BY <1>5, <1>8, <2>2, <3>1
  <2> QED
    BY <1>1, <1>6, <2>1, <2>2
<1>12. RootOK'
  <2> SUFFICES ASSUME NEW i \in Positions', trail'[i].lev = 0, trail'[i].rsn = {}
               PROVE  Entails(inputs', {trail'[i].lit})
    BY DEF RootOK
  <2>1. CASE i \in 1 .. n
    <3>1. trail'[i] = trail[i] /\ Entails(inputs, {trail[i].lit})
      BY <1>5, <1>6, <2>1 DEF TrailInv, RootOK
    <3>2. Entails(inputs', {trail[i].lit})
      BY <3>1 DEF Entails, Satisfies
    <3> QED
      BY <3>1, <3>2
  <2>2. CASE i = n + 1
    BY <1>5, <1>8, <2>2
  <2>3. i \in 1 .. n \/ i = n + 1
    BY <1>1, <1>6
  <2> QED
    BY <2>1, <2>2, <2>3
<1>13. RootLits \subseteq RootLits'
  <2> SUFFICES ASSUME NEW i \in Positions, trail[i].lev = 0
               PROVE  trail[i].lit \in RootLits'
    BY DEF RootLits, LitsAt
  <2>1. i \in 1 .. n
    <3>1. i \in n + 1 .. Len(trail) => trail[i].lev > b
      BY DEF CutAt
    <3> QED
      BY <1>1, <3>1 DEF Positions
  <2>2. i \in Positions' /\ trail'[i] = trail[i]
    BY <1>1, <1>5, <1>6, <2>1
  <2>3. RootLits' = {trail'[h].lit : h \in {j \in Positions' : trail'[j].lev = 0}}
    BY DEF RootLits, LitsAt
  <2> QED
    BY <2>2, <2>3
<1> QED
  BY <1>5, <1>6, <1>7, <1>10, <1>11, <1>12, <1>13 DEF TrailInv

\* The special case without truncation: an unassigned literal is assigned.
LEMMA AppendStep ==
  ASSUME TypeOK, TrailInv,
         NEW b \in Nat, level <= b, level' = b,
         NEW l \in Lit, Unassigned(l), NEW r \in SUBSET Lit,
         trail' = Append(trail, Assign(l, b, r)),
         VarOf(l) \in known', known \subseteq known',
         inputs \subseteq inputs', Clauses \subseteq Clauses',
         r # {} => l \in r /\ r \in Clauses' /\ Falsified(r \ {l}),
         b = 0 /\ r = {} => Entails(inputs', {l})
  PROVE  /\ trail' \in Seq(Entry)
         /\ Positions' = Positions \cup {Len(trail) + 1}
         /\ \A i \in Positions : trail'[i] = trail[i]
         /\ trail'[Len(trail) + 1] = Assign(l, b, r)
         /\ TrailInv' /\ RootLits \subseteq RootLits'
<1> DEFINE n == Len(trail)
<1>1. trail \in Seq(Entry) /\ n \in 0 .. Len(trail) /\ Positions = 1 .. n
  BY DEF TypeOK, Positions
<1>2. SubSeq(trail, 1, n) = trail
  BY <1>1
<1>3. CutAt(n, b)
  <2>1. \A i \in 1 .. n : trail[i].lev <= b
    BY <1>1, EntryFields DEF TrailInv, TrailOK, TypeOK
  <2>2. n + 1 .. Len(trail) = {}
    BY <1>1
  <2> QED
    BY <2>1, <2>2 DEF CutAt
<1>4. \A i \in 1 .. n : trail[i].lit # l /\ trail[i].lit # Neg(l)
  BY <1>1 DEF Unassigned, TrueLits, LitsAt
<1>5. r # {} => \A x \in r \ {l} : \E j \in 1 .. n : trail[j].lit = Neg(x)
  BY <1>1 DEF Falsified, Negs, TrueLits, LitsAt
<1>6. trail' = Append(SubSeq(trail, 1, n), Assign(l, b, r))
  BY <1>2
<1> HIDE DEF n
<1>7. /\ trail' \in Seq(Entry)
      /\ Positions' = 1 .. n + 1
      /\ \A i \in 1 .. n : trail'[i] = trail[i]
      /\ trail'[n + 1] = Assign(l, b, r)
      /\ TrailInv' /\ RootLits \subseteq RootLits'
  BY <1>1, <1>3, <1>4, <1>5, <1>6, AssignStep
<1>8. 1 .. n + 1 = (1 .. n) \cup {n + 1}
  BY <1>1
<1> QED
  BY <1>1, <1>7, <1>8 DEF n
-----------------------------------------------------------------------------
(***************************************************************************)
(* The inductive invariant.                                                *)
(***************************************************************************)
Inv == /\ TypeOK /\ TrailOK /\ ReasonOK /\ RootOK /\ DecisionOK
       /\ AssumedOK /\ DatabaseOK /\ OpenOK /\ SatIsRight /\ UnsatIsRight

\* Steps that leave the formula alone and store no clause keep the database
\* facts.
LEMMA DatabaseKept ==
  ASSUME DatabaseOK, UNCHANGED <<inputs, original, consistent>>,
         learned' \subseteq learned, known \subseteq known',
         RootLits \subseteq RootLits'
  PROVE  DatabaseOK'
BY DEF DatabaseOK, Clauses

\* Steps that open no assumption level and keep the assignments of the levels
\* that stay open keep the assumptions.
LEMMA AssumedKept ==
  ASSUME AssumedOK, UNCHANGED <<hard, user, mode>>, level \in Nat, level' \in Nat,
         \A i \in 1 .. Len(query) : i <= level' => i <= level,
         \A j \in Positions : trail[j].lev \in Nat,
         \A j \in Positions :
           trail[j].lev <= level' => j \in Positions' /\ trail'[j] = trail[j]
  PROVE  AssumedOK'
<1> SUFFICES ASSUME mode = "search", NEW i \in 1 .. Len(query), i <= level'
             PROVE  \E j \in Positions' : trail'[j].lit = query[i] /\ trail'[j].lev <= i
  BY DEF AssumedOK, query
<1>1. PICK j \in Positions : trail[j].lit = query[i] /\ trail[j].lev <= i
  BY DEF AssumedOK
<1>2. i \in Int /\ trail[j].lev \in Nat /\ trail[j].lev <= level'
  BY <1>1
<1> QED
  BY <1>1, <1>2

\* A stored clause that root assignments falsify refutes the input.
LEMMA RootRefutes ==
  ASSUME Inv, level = 0, NEW c \in SUBSET Lit, Falsified(c),
         NEW F, inputs \subseteq F, Entails(F, c)
  PROVE  Refutes(F, {})
<1>1. TrueLits = RootLits
  <2>1. \A i \in Positions : trail[i].lev = 0
    BY EntryFields DEF Inv, TrailOK
  <2> QED
    BY <2>1 DEF TrueLits, RootLits, LitsAt
<1> SUFFICES ASSUME NEW m \in Model, Satisfies(m, F) PROVE FALSE
  BY DEF Refutes
<1>2. Satisfies(m, inputs)
  BY DEF Satisfies
<1>3. Negs(c) \subseteq m
  BY <1>1, <1>2, RootHolds DEF Inv, Falsified
<1>4. c \cap m # {}
  BY DEF Entails
<1> QED
  BY <1>3, <1>4, ModelMisses

\* It holds of a new solver.
LEMMA InitInv == Init => Inv
<1> SUFFICES ASSUME Init PROVE Inv
  OBVIOUS
<1>1. Len(trail) = 0 /\ Positions = {}
  BY DEF Init, Positions
<1>2. TypeOK
  BY DEF Init, TypeOK
<1> QED
  BY <1>1, <1>2 DEF Init, Inv, TrailOK, ReasonOK, RootOK, DecisionOK, AssumedOK, DatabaseOK,
     OpenOK, SatIsRight, UnsatIsRight, Clauses
-----------------------------------------------------------------------------
(***************************************************************************)
(* One lemma per action.                                                   *)
(***************************************************************************)

\* A mutation discards the answer and its assignments above the root.
LEMMA MutateInv == ASSUME Inv, NEW n \in Var \cup {0}, Mutate(n) PROVE Inv'
<1>1. known \subseteq known' /\ known' \in SUBSET Var
  BY DEF Mutate, Inv, TypeOK
<1>2. trail' \in Seq(Entry) /\ level' = 0
  BY CancelKeeps DEF Mutate, Inv
<1>3. TrailInv' /\ RootLits' = RootLits
  BY <1>1, CancelStep DEF Mutate, Inv, TrailInv, Clauses
<1>4. TypeOK'
  BY <1>1, <1>2 DEF Mutate, Inv, TypeOK
<1>5. DatabaseOK'
  BY <1>1, <1>3, DatabaseKept DEF Mutate, Inv
<1> QED
  BY <1>2, <1>3, <1>4, <1>5
  DEF Mutate, Inv, TrailInv, DecisionOK, AssumedOK, OpenOK, SatIsRight, UnsatIsRight

\* Adding a clause: ignored, falsified, a unit, or stored.
LEMMA AddClauseInv ==
  ASSUME Inv, NEW c \in InputClauses, AddClause(c)
  PROVE  Inv'
<1> DEFINE F == inputs \cup {c}
<1>1. c \in SUBSET Lit /\ F \in SUBSET Clause
  BY InputAssumption DEF Inv, TypeOK, Clause
<1>2. inputs \subseteq F /\ Entails(F, c)
  BY DEF Entails, Satisfies
<1>3. \A d : Entails(inputs, d) => Entails(F, d)
  BY EntailsMonotone
<1>4. Refutes(inputs, {}) => Refutes(F, {})
  BY EntailsMonotone
<1>5. Adding(c)
  BY DEF AddClause, AddIgnored, AddFalsified, AddUnit, AddStored
<1>6. /\ inputs' = F /\ mode = "idle" /\ result = "none" /\ level = 0
      /\ VarsOf(c) \subseteq known
      /\ UNCHANGED <<learned, known, level, hard, user, mode, result, failed>>
  BY <1>5 DEF Adding
<1> HIDE DEF F
<1>7. ASSUME trail' \in Seq(Entry), TrailInv', RootLits \subseteq RootLits',
             original' \subseteq original \cup {c}, original \subseteq original',
             consistent' \in BOOLEAN,
             consistent' => consistent,
             ~consistent' => Refutes(F, {}),
             consistent' => c \in original' \/ Tautology(c) \/ c \cap RootLits' # {}
      PROVE  Inv'
  <2>1. TypeOK'
    BY <1>1, <1>6, <1>7 DEF Inv, TypeOK, Clause
  <2>2. DatabaseOK'
    <3>1. \A d \in Clauses' : Entails(F, d) /\ VarsOf(d) \subseteq known
      BY <1>2, <1>3, <1>6, <1>7 DEF Inv, DatabaseOK, Clauses
    <3>2. ASSUME consistent', NEW d \in F
          PROVE  d \in original' \/ Tautology(d) \/ d \cap RootLits' # {}
      <4>1. d \in inputs \/ d = c
        BY DEF F
      <4> QED
        BY <1>7, <3>2, <4>1 DEF Inv, DatabaseOK
    <3> QED
      BY <1>6, <1>7, <3>1, <3>2 DEF DatabaseOK
  <2> QED
    BY <1>6, <1>7, <2>1, <2>2
    DEF Inv, TrailInv, DecisionOK, AssumedOK, OpenOK, SatIsRight, UnsatIsRight
<1>8. ASSUME UNCHANGED trail, inputs \subseteq inputs', original \subseteq original'
      PROVE  trail' \in Seq(Entry) /\ TrailInv' /\ RootLits' = RootLits
  <2>1. Positions' = Positions /\ RootLits' = RootLits /\ trail' \in Seq(Entry)
    BY <1>8 DEF Positions, RootLits, LitsAt, Inv, TypeOK
  <2>2. TrailOK' /\ ReasonOK'
    BY <1>6, <1>8, <2>1 DEF Inv, TrailOK, ReasonOK, Clauses
  <2>3. RootOK'
    BY <1>3, <1>6, <1>8, <2>1 DEF Inv, RootOK
  <2> QED
    BY <2>1, <2>2, <2>3 DEF TrailInv
<1>9. CASE AddIgnored(c)
  BY <1>2, <1>4, <1>6, <1>7, <1>8, <1>9 DEF AddIgnored, Inv, DatabaseOK, TypeOK
<1>10. CASE AddFalsified(c)
  <2>1. Refutes(F, {})
    BY <1>1, <1>2, <1>6, <1>10, RootRefutes DEF AddFalsified
  <2> QED
    BY <1>2, <1>6, <1>7, <1>8, <1>10, <2>1 DEF AddFalsified
<1>11. ASSUME NEW l \in c, c = {l}, AddUnit(l) PROVE Inv'
  <2>1. l \in Lit /\ VarOf(l) \in known
    BY <1>1, <1>6 DEF VarsOf
  <2>2. /\ Unassigned(l) /\ trail' = Append(trail, Assign(l, 0, {}))
        /\ UNCHANGED <<original, consistent>>
    BY <1>11 DEF AddUnit
  <2>3. /\ trail' \in Seq(Entry) /\ TrailInv' /\ RootLits \subseteq RootLits'
        /\ Positions' = Positions \cup {Len(trail) + 1}
        /\ trail'[Len(trail) + 1] = Assign(l, 0, {})
    <3>1. /\ 0 \in Nat /\ level <= 0 /\ level' = 0 /\ {} \in SUBSET Lit
          /\ VarOf(l) \in known' /\ known \subseteq known'
          /\ inputs \subseteq inputs' /\ Clauses \subseteq Clauses'
          /\ Entails(inputs', {l})
      BY <1>2, <1>6, <1>11, <2>1, <2>2 DEF Clauses
    <3>2. TypeOK /\ TrailInv
      BY DEF Inv, TrailInv
    <3> QED
      BY <2>1, <2>2, <3>1, <3>2, AppendStep
  <2>4. l \in RootLits'
    BY <2>3 DEF RootLits, LitsAt, Assign
  <2>5. ~consistent' => Refutes(F, {})
    BY <1>4, <2>2 DEF Inv, DatabaseOK
  <2>6. consistent' \in BOOLEAN /\ consistent' = consistent
    BY <2>2 DEF Inv, TypeOK
  <2> QED
    BY <1>7, <2>2, <2>3, <2>4, <2>5, <2>6
<1>12. CASE AddStored(c)
  <2>1. original' = original \cup {c} /\ consistent' = consistent
    BY <1>12 DEF AddStored
  <2>2. trail' \in Seq(Entry) /\ TrailInv' /\ RootLits \subseteq RootLits'
    <3>1. CASE UNCHANGED trail
      BY <1>2, <1>6, <1>8, <2>1, <3>1
    <3>2. ASSUME NEW l \in c, Unassigned(l), Falsified(c \ {l}),
                 trail' = Append(trail, Assign(l, 0, c))
          PROVE  trail' \in Seq(Entry) /\ TrailInv' /\ RootLits \subseteq RootLits'
      <4>1. l \in Lit /\ VarOf(l) \in known
        BY <1>1, <1>6 DEF VarsOf
      <4>2. c \in Clauses' /\ Clauses \subseteq Clauses' /\ c # {}
        BY <1>6, <2>1, <3>2 DEF Clauses
      <4>3. /\ 0 \in Nat /\ level <= 0 /\ level' = 0
            /\ VarOf(l) \in known' /\ known \subseteq known'
            /\ inputs \subseteq inputs'
        BY <1>2, <1>6, <4>1
      <4>4. TypeOK /\ TrailInv
        BY DEF Inv, TrailInv
      <4> QED
        BY <1>1, <3>2, <4>1, <4>2, <4>3, <4>4, AppendStep
    <3> QED
      BY <1>12, <3>1, <3>2 DEF AddStored
  <2>3. ~consistent' => Refutes(F, {})
    BY <1>4, <2>1 DEF Inv, DatabaseOK
  <2> QED
    BY <1>7, <2>1, <2>2, <2>3 DEF Inv, TypeOK
<1> QED
  BY <1>9, <1>10, <1>11, <1>12 DEF AddClause

\* A query starts at the root.
LEMMA SolveInv == ASSUME Inv, NEW q \in Queries, Solve(q[1], q[2]) PROVE Inv'
<1>1. q[1] \in Seq(Lit) /\ q[2] \in Seq(Lit)
  BY InputAssumption
<1>2. UNCHANGED <<inputs, original, learned, known, consistent>>
  BY DEF Solve, db
<1>3. CancelUntil(0)
  BY DEF Solve
<1>4. /\ trail' \in Seq(Entry) /\ level' = 0
      /\ \A i \in Positions' : trail'[i].lev <= 0
  BY <1>3, CancelKeeps DEF Inv
<1>5. TrailInv' /\ RootLits' = RootLits
  BY <1>2, <1>3, CancelStep DEF Inv, TrailInv, Clauses
<1>6. TypeOK'
  BY <1>1, <1>2, <1>4 DEF Solve, Inv, TypeOK
<1>7. DatabaseOK'
  BY <1>2, <1>5, DatabaseKept DEF Inv
<1>8. DecisionOK'
  <2>1. \A i \in Positions' : trail'[i].lev \notin 1 .. Len(query')
    BY <1>4
  <2> QED
    BY <2>1 DEF DecisionOK
<1>9. AssumedOK'
  BY <1>4 DEF AssumedOK
<1>10. OpenOK'
  BY <1>2 DEF Solve, OpenOK
<1>11. SatIsRight' /\ UnsatIsRight'
  BY DEF Solve, SatIsRight, UnsatIsRight
<1> QED
  BY <1>5, <1>6, <1>7, <1>8, <1>9, <1>10, <1>11 DEF Inv, TrailInv

\* An implied literal joins the trail with its reason.
LEMMA PropagateInv == ASSUME Inv, Propagate PROVE Inv'
<1>0. PICK c \in Clauses : \E l \in c :
        /\ Unassigned(l) /\ Falsified(c \ {l})
        /\ trail' = Append(trail, Assign(l, level, c))
  BY DEF Propagate
<1>1. PICK l \in c :
        /\ Unassigned(l) /\ Falsified(c \ {l})
        /\ trail' = Append(trail, Assign(l, level, c))
  BY <1>0
<1>2. /\ UNCHANGED <<inputs, original, learned, known, consistent>>
      /\ UNCHANGED <<level, hard, user, mode, result, failed>>
      /\ result = "none"
  BY DEF Propagate, db, answer, Inv, OpenOK
<1>3. c \in SUBSET Lit /\ l \in Lit /\ VarOf(l) \in known /\ Clauses' = Clauses
  BY <1>2 DEF Inv, DatabaseOK, TypeOK, Clause, Clauses, VarsOf
<1>4. level \in Nat /\ level <= level /\ TypeOK /\ TrailInv /\ c # {}
  BY <1>1 DEF Inv, TypeOK, TrailInv
<1>5. /\ trail' \in Seq(Entry) /\ TrailInv' /\ RootLits \subseteq RootLits'
      /\ Positions' = Positions \cup {Len(trail) + 1}
      /\ \A i \in Positions : trail'[i] = trail[i]
      /\ trail'[Len(trail) + 1] = Assign(l, level, c)
  BY <1>1, <1>2, <1>3, <1>4, AppendStep
<1>6. TypeOK'
  BY <1>2, <1>5 DEF Inv, TypeOK
<1>7. DatabaseOK'
  BY <1>2, <1>5, DatabaseKept DEF Inv
<1>8. DecisionOK'
  <2> SUFFICES ASSUME mode = "search", NEW i \in Positions',
                      trail'[i].lev \in 1 .. Len(query), trail'[i].rsn = {}
               PROVE  trail'[i].lit = query[trail'[i].lev]
    BY <1>2 DEF DecisionOK, query
  <2>1. i \in Positions
    BY <1>4, <1>5 DEF Assign
  <2> QED
    BY <1>5, <2>1 DEF Inv, DecisionOK
<1>9. AssumedOK'
  <2>1. /\ AssumedOK /\ level' = level /\ UNCHANGED <<hard, user, mode>>
        /\ \A j \in Positions : trail[j].lev \in Nat
        /\ \A j \in Positions : j \in Positions' /\ trail'[j] = trail[j]
    BY <1>2, <1>5, EntryFields DEF Inv
  <2> QED
    BY <1>4, <2>1, AssumedKept
<1> QED
  BY <1>2, <1>5, <1>6, <1>7, <1>8, <1>9
  DEF Inv, TrailInv, OpenOK, SatIsRight, UnsatIsRight

\* A clause that root assignments falsify refutes the input.
LEMMA RootConflictInv == ASSUME Inv, RootConflict PROVE Inv'
<1>1. PICK c \in Clauses : Falsified(c)
  BY DEF RootConflict
<1>2. /\ UNCHANGED <<inputs, original, learned, known, trail, level, hard, user, failed>>
      /\ consistent' = FALSE /\ mode' = "idle" /\ level = 0
      /\ result' = IF mode = "search" THEN "unsat" ELSE "none"
  BY DEF RootConflict, search
<1>3. Refutes(inputs, {})
  BY <1>1, <1>2, RootRefutes DEF Inv, DatabaseOK, TypeOK, Clause, Clauses
<1>4. TypeOK'
  BY <1>2 DEF Inv, TypeOK
<1>5. TrailOK' /\ ReasonOK' /\ RootOK'
  <2>1. TrailOK'
    BY <1>2 DEF Inv, TrailOK, Positions
  <2>2. ReasonOK'
    BY <1>2 DEF Inv, ReasonOK, Positions, Clauses
  <2>3. RootOK'
    BY <1>2 DEF Inv, RootOK, Positions
  <2> QED
    BY <2>1, <2>2, <2>3
<1>6. DatabaseOK'
  BY <1>2, <1>3 DEF Inv, DatabaseOK, Clauses
<1>7. UnsatIsRight'
  BY <1>2, <1>3 DEF Refutes, UnsatIsRight, Inv, OpenOK
<1> QED
  BY <1>2, <1>4, <1>5, <1>6, <1>7
  DEF Inv, DecisionOK, AssumedOK, OpenOK, SatIsRight

\* An inconsistent solver answers "unsat" to every query.
LEMMA AnswerInconsistentInv == ASSUME Inv, AnswerInconsistent PROVE Inv'
<1>1. /\ UNCHANGED <<inputs, original, learned, known, consistent>>
      /\ UNCHANGED <<trail, level, hard, user, failed>>
      /\ ~consistent /\ mode' = "idle" /\ result' = "unsat" /\ failed = {}
  BY DEF AnswerInconsistent, db, search, Inv, OpenOK
<1>2. Refutes(inputs, {})
  BY <1>1 DEF Inv, DatabaseOK
<1>3. TypeOK'
  BY <1>1 DEF Inv, TypeOK
<1>4. TrailOK' /\ ReasonOK' /\ RootOK' /\ DatabaseOK'
  <2>1. TrailOK'
    BY <1>1 DEF Inv, TrailOK, Positions
  <2>2. ReasonOK'
    BY <1>1 DEF Inv, ReasonOK, Positions, Clauses
  <2>3. RootOK'
    BY <1>1 DEF Inv, RootOK, Positions
  <2>4. DatabaseOK'
    BY <1>1 DEF Inv, DatabaseOK, Positions, Clauses, RootLits, LitsAt
  <2> QED
    BY <2>1, <2>2, <2>3, <2>4
<1>5. UnsatIsRight'
  BY <1>1, <1>2 DEF Refutes, UnsatIsRight
<1> QED
  BY <1>1, <1>3, <1>4, <1>5 DEF Inv, DecisionOK, AssumedOK, OpenOK, SatIsRight

\* Assignments at a new level: what Assume and Decide have in common.
LEMMA NewLevelInv ==
  ASSUME Inv, mode = "search", NEW l \in Lit, Unassigned(l), VarOf(l) \in known,
         UNCHANGED <<inputs, original, learned, known, consistent>>,
         UNCHANGED <<hard, user, mode, result, failed>>,
         level' = level + 1,
         trail' = Append(trail, Assign(l, level + 1, {})),
         level + 1 \in 1 .. Len(query) => l = query[level + 1]
  PROVE  Inv'
<1>1. /\ level + 1 \in Nat /\ level <= level + 1 /\ level + 1 # 0
      /\ TypeOK /\ TrailInv /\ Clauses' = Clauses /\ {} \in SUBSET Lit
  BY DEF Inv, TypeOK, TrailInv, Clauses
<1>2. /\ trail' \in Seq(Entry) /\ TrailInv' /\ RootLits \subseteq RootLits'
      /\ Positions' = Positions \cup {Len(trail) + 1}
      /\ \A i \in Positions : trail'[i] = trail[i]
      /\ trail'[Len(trail) + 1] = Assign(l, level + 1, {})
  BY <1>1, AppendStep
<1>3. TypeOK'
  BY <1>1, <1>2 DEF Inv, TypeOK
<1>4. DatabaseOK'
  BY <1>2, DatabaseKept DEF Inv
<1>5. DecisionOK'
  <2> SUFFICES ASSUME NEW i \in Positions',
                      trail'[i].lev \in 1 .. Len(query), trail'[i].rsn = {}
               PROVE  trail'[i].lit = query[trail'[i].lev]
    BY DEF DecisionOK, query
  <2>1. CASE i \in Positions
    BY <1>2, <2>1 DEF Inv, DecisionOK
  <2>2. CASE i = Len(trail) + 1
    BY <1>2, <2>2 DEF Assign
  <2> QED
    BY <1>2, <2>1, <2>2
<1>6. AssumedOK'
  <2> SUFFICES ASSUME NEW i \in 1 .. Len(query), i <= level + 1
               PROVE  \E j \in Positions' : /\ trail'[j].lit = query[i]
                                            /\ trail'[j].lev <= i
    BY DEF AssumedOK, query
  <2>1. CASE i <= level
    BY <1>2, <2>1 DEF Inv, AssumedOK
  <2>2. CASE i = level + 1
    BY <1>1, <1>2, <2>2 DEF Assign
  <2>3. i <= level \/ i = level + 1
    BY <1>1 DEF Inv, TypeOK
  <2> QED
    BY <2>1, <2>2, <2>3
<1> QED
  BY <1>2, <1>3, <1>4, <1>5, <1>6
  DEF Inv, TrailInv, OpenOK, SatIsRight, UnsatIsRight

\* A decision beyond the assumptions.
LEMMA DecideInv == ASSUME Inv, Decide PROVE Inv'
<1>1. PICK l \in Lit : /\ VarOf(l) \in known /\ Unassigned(l)
                       /\ trail' = Append(trail, Assign(l, level + 1, {}))
  BY DEF Decide
<1>2. /\ UNCHANGED <<inputs, original, learned, known, consistent>>
      /\ UNCHANGED <<hard, user, mode, result, failed>>
      /\ mode = "search" /\ level' = level + 1 /\ level >= Len(query)
  BY DEF Decide, db, answer
<1>3. level + 1 \notin 1 .. Len(query)
  BY <1>2 DEF Inv, TypeOK, query
<1> QED
  BY <1>1, <1>2, <1>3, NewLevelInv

\* The assumptions of the open query are known variables.
LEMMA QueryKnown ==
  ASSUME Inv, mode = "search", NEW i \in 1 .. Len(query)
  PROVE  VarOf(query[i]) \in known
<1>1. hard \in Seq(Lit) /\ user \in Seq(Lit)
  BY DEF Inv, TypeOK
<1>2. query[i] \in Elems(hard) \cup Elems(user)
  BY <1>1 DEF query, Elems
<1> QED
  BY <1>2 DEF Inv, OpenOK, VarsOf

\* An assumption is decided at its own level, or holds already.
LEMMA AssumeInv == ASSUME Inv, Assume PROVE Inv'
<1> DEFINE p == query[level + 1]
<1>1. /\ UNCHANGED <<inputs, original, learned, known, consistent>>
      /\ UNCHANGED <<hard, user, mode, result, failed>>
      /\ mode = "search" /\ level' = level + 1 /\ level < Len(query)
      /\ \/ p \in TrueLits /\ UNCHANGED trail
         \/ Unassigned(p) /\ trail' = Append(trail, Assign(p, level + 1, {}))
  BY DEF Assume, db, answer
<1>2. query \in Seq(Lit) /\ level \in Nat /\ Len(query) \in Nat
  BY DEF Inv, TypeOK, query
<1>3. level + 1 \in 1 .. Len(query)
  BY <1>1, <1>2
<1>4. p \in Lit
  BY <1>2, <1>3
<1> HIDE DEF p
<1>5. CASE p \in TrueLits /\ UNCHANGED trail
  <2>1. TypeOK'
    BY <1>1, <1>2, <1>5 DEF Inv, TypeOK
  <2>2. TrailOK'
    <3>1. \A i \in Positions : trail[i].lev <= level + 1
      BY <1>2, EntryFields DEF Inv, TrailOK
    <3> QED
      BY <1>1, <1>5, <3>1 DEF Inv, TrailOK, Positions
  <2>3. ReasonOK' /\ RootOK'
    BY <1>1, <1>5 DEF Inv, ReasonOK, RootOK, Positions, Clauses
  <2>4. DecisionOK'
    BY <1>1, <1>5 DEF Inv, DecisionOK, Positions, query
  <2>5. RootLits' = RootLits
    BY <1>5 DEF Positions, RootLits, LitsAt
  <2>6. DatabaseOK'
    BY <1>1, <2>5, DatabaseKept DEF Inv
  <2>7. AssumedOK'
    <3> SUFFICES ASSUME NEW i \in 1 .. Len(query), i <= level + 1
                 PROVE  \E j \in Positions : trail[j].lit = query[i] /\ trail[j].lev <= i
      BY <1>1, <1>5 DEF AssumedOK, query, Positions
    <3>1. CASE i <= level
      BY <1>1, <3>1 DEF Inv, AssumedOK
    <3>2. CASE i = level + 1
      <4>1. PICK j \in Positions : trail[j].lit = p
        BY <1>5 DEF TrueLits, LitsAt
      <4>2. trail[j].lev <= level /\ trail[j].lev \in Nat
        BY EntryFields DEF Inv, TrailOK
      <4> QED
        BY <1>2, <3>2, <4>1, <4>2 DEF p
    <3> QED
      BY <1>2, <3>1, <3>2
  <2> QED
    BY <1>1, <2>1, <2>2, <2>3, <2>4, <2>6, <2>7 DEF Inv, OpenOK, SatIsRight, UnsatIsRight
<1>6. CASE Unassigned(p) /\ trail' = Append(trail, Assign(p, level + 1, {}))
  <2>1. VarOf(p) \in known
    BY <1>1, <1>3, QueryKnown DEF p
  <2> QED
    BY <1>1, <1>4, <1>6, <2>1, NewLevelInv DEF p
<1> QED
  BY <1>1, <1>5, <1>6

\* Giving up and failing an assumption both end the query at the root.
LEMMA EndAtRoot ==
  ASSUME Inv, CancelUntil(0), mode' = "idle",
         UNCHANGED <<inputs, original, learned, known, consistent, hard, user>>,
         result' \in {"unsat", "none"}, failed' \in SUBSET Lit, UnsatIsRight'
  PROVE  Inv'
<1>1. trail' \in Seq(Entry) /\ level' = 0
  BY CancelKeeps DEF Inv
<1>2. TrailInv' /\ RootLits' = RootLits
  BY CancelStep DEF Inv, TrailInv, Clauses
<1>3. TypeOK'
  BY <1>1 DEF Inv, TypeOK
<1>4. DatabaseOK'
  BY <1>2, DatabaseKept DEF Inv
<1> QED
  BY <1>1, <1>2, <1>3, <1>4
  DEF Inv, TrailInv, DecisionOK, AssumedOK, OpenOK, SatIsRight

\* Giving up leaves the root and no answer.
LEMMA GiveUpInv == ASSUME Inv, GiveUp PROVE Inv'
<1>1. UnsatIsRight' /\ failed' \in SUBSET Lit
  BY DEF GiveUp, UnsatIsRight
<1> QED
  BY <1>1, EndAtRoot DEF GiveUp, db

\* Before all assumptions are decided, every decision is an assumption.
LEMMA DecisionsAssumed ==
  ASSUME Inv, mode = "search", level < Len(query), NEW i \in Positions,
         trail[i].lev > 0, trail[i].rsn = {}
  PROVE  trail[i].lit \in Elems(hard) \cup Elems(user)
<1>1. hard \in Seq(Lit) /\ user \in Seq(Lit) /\ level \in Nat /\ Len(query) \in Nat
  BY DEF Inv, TypeOK, query
<1>2. trail[i].lev \in 1 .. Len(query)
  BY <1>1, EntryFields DEF Inv, TrailOK
<1>3. trail[i].lit = query[trail[i].lev]
  BY <1>2 DEF Inv, DecisionOK
<1> QED
  BY <1>1, <1>2, <1>3 DEF query, Elems

\* The decisions behind a false assumption are assumptions that refute it.
LEMMA FailAssumptionInv == ASSUME Inv, FailAssumption PROVE Inv'
<1> DEFINE p == query[level + 1]
           D == LitsAt({i \in Positions : trail[i].lev > 0 /\ trail[i].rsn = {}})
<1>1. PICK S \in SUBSET Positions, core \in SUBSET D :
        /\ Explained(S, core)
        /\ Neg(p) \in core \cup LitsAt(S) \cup RootLits
        /\ failed' = (core \cup {p}) \cap Elems(user)
  BY DEF FailAssumption
<1>2. /\ UNCHANGED <<inputs, original, learned, known, consistent, hard, user>>
      /\ mode = "search" /\ mode' = "idle" /\ result' = "unsat"
      /\ level < Len(query) /\ CancelUntil(0)
  BY DEF FailAssumption, db
<1>3. /\ hard \in Seq(Lit) /\ user \in Seq(Lit)
      /\ level + 1 \in 1 .. Len(query)
  BY <1>2 DEF Inv, TypeOK, query
<1>4. p \in Elems(hard) \cup Elems(user) /\ p \in Lit
  BY <1>3 DEF query, Elems
<1>5. core \subseteq Elems(hard) \cup Elems(user) /\ core \in SUBSET Lit
  <2>1. \A l \in D : l \in Elems(hard) \cup Elems(user) /\ l \in Lit
    BY <1>2, DecisionsAssumed, EntryFields DEF LitsAt, Inv
  <2> QED
    BY <2>1
<1> HIDE DEF p, D
<1>6. failed' \subseteq Elems(user') /\ failed' \in SUBSET Lit
  BY <1>1, <1>2, <1>4, <1>5
<1>7. Refutes(inputs, failed' \cup Elems(hard))
  <2> SUFFICES ASSUME NEW m \in Model, Satisfies(m, inputs),
                      failed' \cup Elems(hard) \subseteq m
               PROVE  FALSE
    BY DEF Refutes
  <2>1. core \subseteq m /\ p \in m
    BY <1>1, <1>4, <1>5
  <2>2. LitsAt(S) \cup RootLits \subseteq m
    BY <1>1, <1>5, <2>1, ExplainedHolds DEF Inv
  <2>3. Neg(p) \in m
    BY <1>1, <2>1, <2>2
  <2> QED
    BY <1>4, <2>1, <2>3, ModelTotal
<1>8. UnsatIsRight'
  BY <1>2, <1>6, <1>7 DEF UnsatIsRight
<1> QED
  BY <1>2, <1>6, <1>8, EndAtRoot

\* What conflict analysis derives is entailed by the input.
LEMMA DerivedEntailed ==
  ASSUME Inv, NEW c \in SUBSET Lit, Derives(c)
  PROVE  Entails(inputs, c)
<1>1. PICK k \in Clauses, S \in SUBSET Positions :
        /\ Falsified(k) /\ Explained(S, Negs(c))
        /\ Negs(k) \subseteq Negs(c) \cup LitsAt(S) \cup RootLits
  BY DEF Derives
<1> SUFFICES ASSUME NEW m \in Model, Satisfies(m, inputs), c \cap m = {}
             PROVE  FALSE
  BY DEF Entails
<1>2. Negs(c) \subseteq m /\ Negs(c) \in SUBSET Lit
  BY ModelMisses, NegsLit
<1>3. LitsAt(S) \cup RootLits \subseteq m
  BY <1>1, <1>2, ExplainedHolds DEF Inv
<1>4. Negs(k) \subseteq m
  BY <1>1, <1>2, <1>3
<1>5. k \in SUBSET Lit /\ k \cap m # {}
  BY DEF Inv, DatabaseOK, Entails, TypeOK, Clauses, Clause
<1> QED
  BY <1>4, <1>5, ModelMisses

\* A restart keeps the levels it reuses.
LEMMA RestartInv == ASSUME Inv, Restart PROVE Inv'
<1>1. PICK k \in 0 .. level - 1 : CancelUntil(k)
  BY DEF Restart
<1>2. /\ UNCHANGED <<inputs, original, learned, known, consistent>>
      /\ UNCHANGED <<hard, user, mode, result, failed>>
      /\ mode = "search" /\ result = "none"
  BY DEF Restart, db, answer, Inv, OpenOK
<1>3. k \in Nat /\ level \in Nat /\ k <= level /\ TypeOK /\ TrailInv
  BY DEF Inv, TypeOK, TrailInv
<1>4. /\ trail' \in Seq(Entry) /\ level' = k
      /\ Positions' \subseteq Positions
      /\ \A i \in Positions' : trail'[i] = trail[i]
      /\ \A i \in Positions : trail[i].lev <= k => i \in Positions'
  BY <1>1, <1>3, CancelKeeps
<1>5. TrailInv' /\ RootLits' = RootLits
  BY <1>1, <1>2, <1>3, CancelStep DEF Clauses
<1>6. TypeOK'
  BY <1>2, <1>3, <1>4 DEF Inv, TypeOK
<1>7. DatabaseOK'
  BY <1>2, <1>5, DatabaseKept DEF Inv
<1>8. DecisionOK'
  BY <1>2, <1>4 DEF Inv, DecisionOK, query
<1>9. AssumedOK'
  <2>1. /\ AssumedOK /\ UNCHANGED <<hard, user, mode>>
        /\ \A i \in 1 .. Len(query) : i <= level' => i <= level
        /\ \A j \in Positions : trail[j].lev \in Nat
    BY <1>2, <1>3, <1>4, EntryFields DEF Inv
  <2> QED
    BY <1>3, <1>4, <2>1, AssumedKept
<1> QED
  BY <1>2, <1>5, <1>6, <1>7, <1>8, <1>9
  DEF Inv, TrailInv, OpenOK, SatIsRight, UnsatIsRight

\* Reduction deletes no reason.
LEMMA ReduceInv == ASSUME Inv, Reduce PROVE Inv'
<1>1. PICK gone \in SUBSET (learned \ (Reasons \ original)) : learned' = learned \ gone
  BY DEF Reduce
<1>2. /\ UNCHANGED <<inputs, original, known, consistent, trail, level>>
      /\ UNCHANGED <<hard, user, mode, result, failed>>
      /\ mode = "search" /\ result = "none"
  BY DEF Reduce, search, answer, Inv, OpenOK
<1>3. TypeOK'
  BY <1>1, <1>2 DEF Inv, TypeOK
<1>4. TrailOK' /\ RootOK' /\ RootLits' = RootLits
  <2>1. TrailOK'
    BY <1>2 DEF Inv, TrailOK, Positions
  <2>2. RootOK'
    BY <1>2 DEF Inv, RootOK, Positions
  <2> QED
    BY <1>2, <2>1, <2>2 DEF RootLits, LitsAt, Positions
<1>5. ReasonOK'
  <2>1. \A i \in Positions : trail[i].rsn # {} => trail[i].rsn \in Clauses'
    BY <1>1, <1>2 DEF Inv, ReasonOK, Reasons, Clauses
  <2> QED
    BY <1>2, <2>1 DEF Inv, ReasonOK, Positions
<1>6. DatabaseOK'
  BY <1>1, <1>2, <1>4, DatabaseKept DEF Inv
<1>7. DecisionOK' /\ AssumedOK'
  BY <1>2 DEF Inv, DecisionOK, AssumedOK, Positions, query
<1> QED
  BY <1>2, <1>3, <1>4, <1>5, <1>6, <1>7 DEF Inv, OpenOK, SatIsRight, UnsatIsRight

\* A total assignment that falsifies no clause is a model.
LEMMA AnswerSatInv == ASSUME Inv, AnswerSat PROVE Inv'
<1>1. /\ UNCHANGED <<inputs, original, learned, known, consistent>>
      /\ UNCHANGED <<trail, level, hard, user, failed>>
      /\ mode = "search" /\ consistent /\ level >= Len(query)
      /\ mode' = "idle" /\ result' = "sat"
      /\ \A v \in known : v \in TrueLits \/ Neg(v) \in TrueLits
      /\ \A c \in Clauses : ~Falsified(c)
  BY DEF AnswerSat, db, search
<1>2. \A l \in TrueLits : l \in Lit /\ Neg(l) \notin TrueLits
  BY EntryFields, NoClash DEF TrueLits, LitsAt, Inv
<1>3. ASSUME NEW c \in SUBSET Lit, VarsOf(c) \subseteq known, ~Falsified(c)
      PROVE  c \cap TrueLits # {}
  <2>1. PICK l \in c : Neg(l) \notin TrueLits
    BY <1>3 DEF Falsified, Negs
  <2>2. VarOf(l) \in known /\ l \in Lit
    BY <1>3 DEF VarsOf
  <2>3. VarOf(l) \in TrueLits \/ Neg(VarOf(l)) \in TrueLits
    BY <1>1, <2>2
  <2>4. l = VarOf(l) \/ (l = Neg(VarOf(l)) /\ Neg(l) = VarOf(l))
    BY <2>2, VarAssumption DEF Lit, VarOf, Neg
  <2>5. l = VarOf(l) => Neg(l) = Neg(VarOf(l))
    OBVIOUS
  <2> QED
    BY <2>1, <2>3, <2>4, <2>5
<1>4. \A c \in inputs : Tautology(c) \/ c \cap TrueLits # {}
  <2> SUFFICES ASSUME NEW c \in inputs, ~Tautology(c)
               PROVE  c \cap TrueLits # {}
    OBVIOUS
  <2>1. CASE c \in original
    BY <1>1, <1>3, <2>1 DEF Inv, DatabaseOK, Clauses, TypeOK, Clause
  <2>2. CASE c \cap RootLits # {}
    BY <2>2 DEF RootLits, TrueLits, LitsAt
  <2> QED
    BY <1>1, <2>1, <2>2 DEF Inv, DatabaseOK
<1>5. Elems(query) \subseteq TrueLits
  <2> SUFFICES ASSUME NEW i \in 1 .. Len(query) PROVE query[i] \in TrueLits
    BY DEF Elems
  <2>1. i <= level
    BY <1>1 DEF Inv, TypeOK, query
  <2> QED
    BY <1>1, <2>1 DEF Inv, AssumedOK, TrueLits, LitsAt
<1>6. SatIsRight'
  <2>1. TrueLits' = TrueLits /\ query' = query
    BY <1>1 DEF TrueLits, LitsAt, Positions, query
  <2> QED
    BY <1>1, <1>2, <1>4, <1>5, <2>1 DEF SatIsRight
<1>7. TrailOK' /\ ReasonOK' /\ RootOK' /\ DatabaseOK'
  <2>1. TrailOK'
    BY <1>1 DEF Inv, TrailOK, Positions
  <2>2. ReasonOK'
    BY <1>1 DEF Inv, ReasonOK, Positions, Clauses
  <2>3. RootOK'
    BY <1>1 DEF Inv, RootOK, Positions
  <2>4. DatabaseOK'
    BY <1>1 DEF Inv, DatabaseOK, Positions, Clauses, RootLits, LitsAt
  <2> QED
    BY <2>1, <2>2, <2>3, <2>4
<1>8. TypeOK'
  BY <1>1 DEF Inv, TypeOK
<1> QED
  BY <1>1, <1>6, <1>7, <1>8 DEF Inv, DecisionOK, AssumedOK, OpenOK, UnsatIsRight

\* The learned clause is entailed and asserts its literal.
LEMMA LearnInv == ASSUME Inv, Learn PROVE Inv'
<1> DEFINE b == level'
<1>1. PICK F \in SUBSET TrueLits : \E a \in Negs(F) :
        /\ \A i \in Positions :
             trail[i].lit \in F =>
               IF trail[i].lit = Neg(a) THEN trail[i].lev > b
                                        ELSE trail[i].lev \in 1 .. b
        /\ Negs(F) = {a} => b = 0
        /\ learned' = IF Negs(F) = {a} THEN learned ELSE learned \cup {Negs(F)}
        /\ \E n \in 0 .. Len(trail) :
             /\ CutAt(n, b)
             /\ trail' = Append(SubSeq(trail, 1, n),
                                Assign(a, b, IF Negs(F) = {a} THEN {} ELSE Negs(F)))
        /\ Derives(Negs(F))
  BY DEF Learn
<1> DEFINE c == Negs(F)
<1>2. F \in SUBSET Lit /\ c \in SUBSET Lit /\ Negs(c) = F
  <2>1. TrueLits \in SUBSET Lit
    BY EntryFields DEF TrueLits, LitsAt, Inv
  <2> QED
    BY <2>1, NegsLit
<1>3. PICK a \in c, n \in 0 .. Len(trail) :
        /\ \A i \in Positions :
             trail[i].lit \in F =>
               IF trail[i].lit = Neg(a) THEN trail[i].lev > b
                                        ELSE trail[i].lev \in 1 .. b
        /\ c = {a} => b = 0
        /\ learned' = IF c = {a} THEN learned ELSE learned \cup {c}
        /\ CutAt(n, b)
        /\ trail' = Append(SubSeq(trail, 1, n), Assign(a, b, IF c = {a} THEN {} ELSE c))
        /\ Derives(c)
  BY <1>1
<1> DEFINE r == IF c = {a} THEN {} ELSE c
<1>4. /\ UNCHANGED <<inputs, original, known, consistent>>
      /\ UNCHANGED <<hard, user, mode, result, failed>>
      /\ mode = "search" /\ result = "none"
  BY DEF Learn, answer, Inv, OpenOK
<1>5. /\ b \in Nat /\ level \in Nat /\ b < level /\ TypeOK /\ TrailInv
      /\ Len(trail) \in Nat /\ n \in Nat /\ 1 .. n \subseteq Positions
  <2>1. b \in 0 .. level - 1
    BY DEF Learn
  <2> QED
    BY <2>1 DEF Inv, TypeOK, TrailInv, Positions
<1>6. \A l \in c : Neg(l) \in F /\ \E i \in Positions : trail[i].lit = Neg(l)
  BY <1>2 DEF Negs, TrueLits, LitsAt
<1>7. a \in Lit /\ VarOf(a) \in known /\ VarsOf(c) \subseteq known
  <2>1. \A l \in Lit : VarOf(Neg(l)) = VarOf(l)
    BY VarAssumption DEF Lit, Neg, VarOf
  <2>2. \A l \in c : VarOf(l) \in known
    BY <1>2, <1>6, <2>1 DEF Inv, TrailOK
  <2> QED
    BY <1>2, <1>3, <2>2 DEF VarsOf
<1>8. Entails(inputs, c)
  BY <1>2, <1>3, DerivedEntailed
<1> HIDE DEF c
<1>9. \A i \in 1 .. n : trail[i].lev <= b /\ trail[i].lev \in Nat
  BY <1>3, <1>5, EntryFields DEF CutAt
<1>10. \A i \in 1 .. n : trail[i].lit # a /\ trail[i].lit # Neg(a)
  <2>1. PICK j \in Positions : trail[j].lit = Neg(a)
    BY <1>3, <1>6
  <2>2. trail[j].lev > b /\ trail[j].lev \in Nat
    BY <1>3, <1>6, <2>1, EntryFields DEF Inv
  <2>3. ASSUME NEW i \in 1 .. n PROVE trail[i].lit # Neg(a)
    <3>1. i \in Positions
      BY <1>5
    <3>2. trail[i].lit = trail[j].lit => i = j
      BY <3>1, <1>5, OnePosition DEF TrailInv
    <3> QED
      BY <1>5, <1>9, <2>1, <2>2, <2>3, <3>2
  <2>4. ASSUME NEW i \in 1 .. n PROVE trail[i].lit # a
    BY <1>5, <1>7, <2>1, NoClash DEF TrailInv
  <2> QED
    BY <2>3, <2>4
<1>11. Clauses \subseteq Clauses' /\ (r # {} => r = c /\ a \in r /\ r \in Clauses')
  BY <1>3, <1>4 DEF Clauses
<1>12. \A x \in c \ {a} : \E j \in 1 .. n : trail[j].lit = Neg(x)
  <2> SUFFICES ASSUME NEW x \in c \ {a}
               PROVE  \E j \in 1 .. n : trail[j].lit = Neg(x)
    OBVIOUS
  <2>1. PICK j \in Positions : trail[j].lit = Neg(x)
    BY <1>6
  <2>2. Neg(x) # Neg(a)
    BY <1>2, <1>7, NegLit DEF c
  <2>3. trail[j].lev <= b /\ trail[j].lev \in Nat /\ j \in Nat
    BY <1>3, <1>6, <2>1, <2>2, EntryFields DEF Inv
  <2>4. j \notin n + 1 .. Len(trail)
    BY <1>3, <1>5, <2>3 DEF CutAt
  <2> QED
    BY <1>5, <2>1, <2>4 DEF Positions
<1>13. b = 0 /\ r = {} => Entails(inputs', {a})
  BY <1>3, <1>4, <1>8
<1>14. r \in SUBSET Lit /\ VarOf(a) \in known' /\ known \subseteq known'
       /\ inputs \subseteq inputs' /\ level' = b
       /\ trail' = Append(SubSeq(trail, 1, n), Assign(a, b, r))
  BY <1>2, <1>3, <1>4, <1>7 DEF c
<1>15. /\ r # {} => /\ a \in r /\ r \in Clauses'
                    /\ \A x \in r \ {a} : \E j \in 1 .. n : trail[j].lit = Neg(x)
  BY <1>11, <1>12
<1>16. CutAt(n, b)
  BY <1>3
<1> HIDE DEF r
<1>17. /\ trail' \in Seq(Entry)
       /\ Positions' = 1 .. n + 1
       /\ \A i \in 1 .. n : trail'[i] = trail[i]
       /\ trail'[n + 1] = Assign(a, b, r)
       /\ TrailInv' /\ RootLits \subseteq RootLits'
  <2>1. /\ TypeOK /\ TrailInv /\ b \in Nat /\ n \in 0 .. Len(trail) /\ CutAt(n, b)
        /\ a \in Lit /\ r \in SUBSET Lit /\ Clauses \subseteq Clauses'
    BY <1>5, <1>7, <1>11, <1>14, <1>16
  <2> QED
    BY <2>1, <1>10, <1>13, <1>14, <1>15, AssignStep
<1>18. TypeOK'
  BY <1>2, <1>3, <1>4, <1>5, <1>17 DEF Inv, TypeOK, Clause, c
<1>19. DatabaseOK'
  <2>1. \A d \in Clauses' : d = c \/ d \in Clauses
    BY <1>3, <1>4 DEF Clauses
  <2>2. \A d \in Clauses' : Entails(inputs', d) /\ VarsOf(d) \subseteq known'
    BY <1>4, <1>7, <1>8, <2>1 DEF Inv, DatabaseOK
  <2> QED
    BY <1>4, <1>17, <2>2 DEF Inv, DatabaseOK
<1>20. DecisionOK'
  <2> SUFFICES ASSUME NEW i \in Positions',
                      trail'[i].lev \in 1 .. Len(query), trail'[i].rsn = {}
               PROVE  trail'[i].lit = query[trail'[i].lev]
    BY <1>4 DEF DecisionOK, query
  <2>1. CASE i \in 1 .. n
    BY <1>4, <1>5, <1>17, <2>1 DEF Inv, DecisionOK
  <2>2. CASE i = n + 1
    <3>1. b \in 1 .. Len(query) /\ r = {}
      BY <1>17, <2>2 DEF Assign
    <3>2. c = {a} /\ b = 0
      BY <1>3, <3>1 DEF r
    <3> QED
      BY <3>1, <3>2
  <2> QED
    BY <1>5, <1>17, <2>1, <2>2
<1>21. AssumedOK'
  <2>1. ASSUME NEW j \in Positions, trail[j].lev <= b
        PROVE  j \in Positions' /\ trail'[j] = trail[j]
    <3>1. j \in 1 .. n
      <4>1. j \in Nat /\ trail[j].lev \in Nat
        BY <1>5, EntryFields
      <4>2. j \notin n + 1 .. Len(trail)
        BY <1>16, <2>1, <4>1, <1>5 DEF CutAt
      <4> QED
        BY <1>5, <4>1, <4>2 DEF Positions
    <3> QED
      BY <1>5, <1>17, <3>1
  <2>2. /\ AssumedOK /\ UNCHANGED <<hard, user, mode>> /\ level' \in Nat
        /\ \A i \in 1 .. Len(query) : i <= level' => i <= level
        /\ \A j \in Positions : trail[j].lev \in Nat
    BY <1>4, <1>5, <1>14, EntryFields DEF Inv
  <2>3. \A j \in Positions :
          trail[j].lev <= level' => j \in Positions' /\ trail'[j] = trail[j]
    BY <1>14, <2>1
  <2> QED
    BY <1>5, <2>2, <2>3, AssumedKept
<1> QED
  BY <1>4, <1>17, <1>18, <1>19, <1>20, <1>21
  DEF Inv, TrailInv, OpenOK, SatIsRight, UnsatIsRight

\* A step that changes nothing keeps every part of the invariant.
LEMMA StutterInv == ASSUME Inv, UNCHANGED vars PROVE Inv'
<1>1. /\ UNCHANGED <<inputs, original, learned, known, consistent>>
      /\ UNCHANGED <<trail, level, hard, user, mode, result, failed>>
  BY DEF vars
<1>2. TypeOK' /\ TrailOK'
  BY <1>1 DEF Inv, TypeOK, TrailOK, Positions
<1>3. ReasonOK' /\ RootOK'
  <2>1. ReasonOK'
    BY <1>1 DEF Inv, ReasonOK, Positions, Clauses
  <2>2. RootOK'
    BY <1>1 DEF Inv, RootOK, Positions
  <2> QED
    BY <2>1, <2>2
<1>4. DecisionOK' /\ AssumedOK' /\ OpenOK'
  BY <1>1 DEF Inv, DecisionOK, AssumedOK, OpenOK, Positions, query
<1>5. DatabaseOK'
  BY <1>1 DEF Inv, DatabaseOK, Clauses, RootLits, LitsAt, Positions
<1>6. SatIsRight' /\ UnsatIsRight'
  BY <1>1 DEF Inv, SatIsRight, UnsatIsRight, TrueLits, LitsAt, Positions, query
<1> QED
  BY <1>2, <1>3, <1>4, <1>5, <1>6 DEF Inv
-----------------------------------------------------------------------------
(***************************************************************************)
(* The theorems.                                                           *)
(***************************************************************************)

\* The inductive invariant holds throughout every execution: the trail is an
\* explained consistent assignment, the database is entailed by the input and
\* every answer is right.
THEOREM Invariance == Spec => []Inv
<1>1. Inv /\ [Next]_vars => Inv'
  <2> SUFFICES ASSUME Inv, [Next]_vars PROVE Inv'
    OBVIOUS
  <2>1. ASSUME NEW n \in Var \cup {0}, Mutate(n) PROVE Inv'
    BY <2>1, MutateInv
  <2>2. ASSUME NEW c \in InputClauses, AddClause(c) PROVE Inv'
    BY <2>2, AddClauseInv
  <2>3. ASSUME NEW q \in Queries, Solve(q[1], q[2]) PROVE Inv'
    BY <2>3, SolveInv
  <2>4. CASE Propagate
    BY <2>4, PropagateInv
  <2>5. CASE RootConflict
    BY <2>5, RootConflictInv
  <2>6. CASE AnswerInconsistent
    BY <2>6, AnswerInconsistentInv
  <2>7. CASE Assume
    BY <2>7, AssumeInv
  <2>8. CASE FailAssumption
    BY <2>8, FailAssumptionInv
  <2>9. CASE Decide
    BY <2>9, DecideInv
  <2>10. CASE Learn
    BY <2>10, LearnInv
  <2>11. CASE Restart
    BY <2>11, RestartInv
  <2>12. CASE Reduce
    BY <2>12, ReduceInv
  <2>13. CASE AnswerSat
    BY <2>13, AnswerSatInv
  <2>14. CASE GiveUp
    BY <2>14, GiveUpInv
  <2>15. CASE UNCHANGED vars
    BY <2>15, StutterInv
  <2> QED
    BY <2>1, <2>2, <2>3, <2>4, <2>5, <2>6, <2>7, <2>8, <2>9, <2>10, <2>11, <2>12,
       <2>13, <2>14, <2>15 DEF Next
<1> QED
  BY InitInv, <1>1, PTL DEF Spec

\* A step of the machine cannot leave the types of its variables.
THEOREM TypeCorrect == Spec => []TypeOK
<1>1. Inv => TypeOK
  BY DEF Inv
<1> QED
  BY <1>1, Invariance, PTL

\* Whatever is added, learned, deleted or backtracked over, the stored clauses
\* are consequences of the input, and no input clause is lost.
THEOREM DatabaseCorrect == Spec => []DatabaseOK
<1>1. Inv => DatabaseOK
  BY DEF Inv
<1> QED
  BY <1>1, Invariance, PTL

\* Backjumps, chronological backtracks and partial restarts never leave an
\* assumption of an open level unassigned.
THEOREM AssumptionsKept == Spec => []AssumedOK
<1>1. Inv => AssumedOK
  BY DEF Inv
<1> QED
  BY <1>1, Invariance, PTL

\* A "sat" answer satisfies every clause ever added and every assumption.
THEOREM SatCorrect == Spec => []SatIsRight
<1>1. Inv => SatIsRight
  BY DEF Inv
<1> QED
  BY <1>1, Invariance, PTL

\* An "unsat" answer and its failed assumptions refute the input.
THEOREM UnsatCorrect == Spec => []UnsatIsRight
<1>1. Inv => UnsatIsRight
  BY DEF Inv
<1> QED
  BY <1>1, Invariance, PTL

\* Every implied assignment keeps its reason: reduction never deletes it, and
\* its other literals were false before.
THEOREM ReasonsKept == Spec => []ReasonOK
<1>1. Inv => ReasonOK
  BY DEF Inv
<1> QED
  BY <1>1, Invariance, PTL
=============================================================================
