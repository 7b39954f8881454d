---------------------------- MODULE SessionProofs ----------------------------
(***************************************************************************)
(* What the commands of Session preserve, for every script: the scopes,    *)
(* the activation literals and the names stand together, a command that is *)
(* answered by an error changes nothing, a cached literal means its term   *)
(* and the preceding result is about the current assertions.               *)
(***************************************************************************)
EXTENDS Session, FiniteSetTheorems, SequenceTheorems, WellFoundedInduction, TLAPS

-----------------------------------------------------------------------------
(***************************************************************************)
(* Induction along a sequence, and maps.                                   *)
(***************************************************************************)

\* A nonempty set of natural numbers has a least element.
LEMMA LeastNat ==
  ASSUME NEW T \in SUBSET Nat, T # {}
  PROVE  \E x \in T : \A y \in T : x <= y
<1> DEFINE R == OpToRel(<, Nat)
<1>1. IsWellFoundedOn(R, Nat)
  BY NatLessThanWellFounded
<1>2. \A y, x \in Nat : <<y, x>> \in R <=> y < x
  BY DEF OpToRel
<1> HIDE DEF R
<1>3. PICK x \in T : \A y \in T : <<y, x>> \notin R
  BY <1>1, WFMin
<1>4. \A y \in T : ~ (y < x)
  BY <1>2, <1>3
<1> QED
  BY <1>4

\* What holds of a number when it holds of all that are smaller holds of all.
LEMMA FromBelow ==
  ASSUME NEW n \in Nat, NEW T \in SUBSET (0 .. n),
         \A k \in 0 .. n : (\A j \in 0 .. k - 1 : j \in T) => k \in T
  PROVE  \A k \in 0 .. n : k \in T
<1> DEFINE Rest == (0 .. n) \ T
<1>1. CASE Rest = {}
  BY <1>1
<1>2. CASE Rest # {}
  <2>1. PICK k \in Rest : \A j \in Rest : k <= j
    <3>1. Rest \in SUBSET Nat
      OBVIOUS
    <3> HIDE DEF Rest
    <3> QED
      BY <1>2, <3>1, LeastNat
  <2>2. \A j \in 0 .. k - 1 : j \in T
    BY <2>1
  <2> QED
    BY <2>1, <2>2
<1> QED
  BY <1>1, <1>2

\* What holds at 0 and passes from each number below n to the next holds at n.
LEMMA UpTo ==
  ASSUME NEW n \in Nat, NEW T \in SUBSET (0 .. n), 0 \in T,
         \A k \in 0 .. n - 1 : k \in T => k + 1 \in T
  PROVE  \A k \in 0 .. n : k \in T
<1>1. ASSUME NEW k \in 0 .. n, \A j \in 0 .. k - 1 : j \in T PROVE k \in T
  <2>1. CASE k = 0
    BY <2>1
  <2>2. CASE k # 0
    <3>1. k - 1 \in 0 .. n - 1 /\ k - 1 \in 0 .. k - 1 /\ k - 1 + 1 = k
      BY <2>2
    <3> QED
      BY <1>1, <3>1
  <2> QED
    BY <2>1, <2>2
<1> QED
  BY <1>1, FromBelow

Maps(A, B) == UNION {[D -> B] : D \in SUBSET A}

\* A map is a function from some of A to B.
LEMMA MapsFacts ==
  ASSUME NEW A, NEW B, NEW f \in Maps(A, B)
  PROVE  /\ DOMAIN f \in SUBSET A /\ f = [n \in DOMAIN f |-> f[n]]
         /\ \A n \in DOMAIN f : f[n] \in B
BY DEF Maps

\* The shape of a map.
LEMMA MapsIntro ==
  ASSUME NEW A, NEW B, NEW f, f = [n \in DOMAIN f |-> f[n]], DOMAIN f \in SUBSET A,
         \A n \in DOMAIN f : f[n] \in B
  PROVE  f \in Maps(A, B)
<1>1. f \in [DOMAIN f -> B]
  OBVIOUS
<1> QED
  BY <1>1 DEF Maps

\* What Put changes.
LEMMA PutFacts ==
  ASSUME NEW A, NEW B, NEW f \in Maps(A, B), NEW k \in A, NEW x \in B
  PROVE  /\ Put(f, k, x) \in Maps(A, B)
         /\ \A n : n \in DOMAIN Put(f, k, x) <=> n \in DOMAIN f \/ n = k
         /\ Put(f, k, x)[k] = x
         /\ \A n \in DOMAIN f : n # k => Put(f, k, x)[n] = f[n]
<1> DEFINE g == Put(f, k, x)
<1>1. /\ DOMAIN g = DOMAIN f \cup {k} /\ g = [n \in DOMAIN g |-> g[n]]
      /\ g[k] = x /\ \A n \in DOMAIN f : n # k => g[n] = f[n]
  BY DEF Put
<1>2. DOMAIN f \in SUBSET A /\ \A n \in DOMAIN f : f[n] \in B
  BY MapsFacts
<1>3. DOMAIN g \in SUBSET A /\ \A n \in DOMAIN g : g[n] \in B
  BY <1>1, <1>2
<1> HIDE DEF g
<1>4. g \in Maps(A, B)
  BY <1>1, <1>3, MapsIntro
<1> QED
  BY <1>1, <1>4 DEF g

\* The empty map.
LEMMA UnboundFacts ==
  ASSUME NEW A, NEW B
  PROVE  Unbound \in Maps(A, B) /\ DOMAIN Unbound = {}
<1>1. DOMAIN Unbound = {} /\ Unbound = [n \in DOMAIN Unbound |-> Unbound[n]]
  BY DEF Unbound
<1> QED
  BY <1>1, MapsIntro

-----------------------------------------------------------------------------
(***************************************************************************)
(* The term store grows, and every node is built over smaller ones.        *)
(***************************************************************************)
Nodes == [op : {"true", "false"}] \cup [op : {"atom"}, symbol : Nat]
           \cup [op : {"not"}, arg : Nat] \cup [op : {"or"}, args : SUBSET Nat]
Over(n, i) == /\ n.op = "not" => n.arg \in 1 .. i - 1
              /\ n.op = "or" => n.args \in SUBSET (1 .. i - 1)
StoreOK(s) ==
  /\ s \in Seq(Nodes) /\ Len(s) >= 2
  /\ s[TrueTerm] = [op |-> "true"] /\ s[FalseTerm] = [op |-> "false"]
  /\ \A i \in 3 .. Len(s) : s[i].op \in {"atom", "not", "or"} /\ Over(s[i], i)
Extends(s2, s) == Len(s2) >= Len(s) /\ \A i \in 1 .. Len(s) : s2[i] = s[i]

\* What a store is made of.
LEMMA StoreFacts ==
  ASSUME NEW s, StoreOK(s)
  PROVE  /\ s \in Seq(Nodes) /\ Len(s) \in Nat /\ DOMAIN s = 1 .. Len(s)
         /\ TrueTerm \in 1 .. Len(s) /\ FalseTerm \in 1 .. Len(s)
         /\ s[TrueTerm].op = "true" /\ s[FalseTerm].op = "false"
         /\ \A i \in 1 .. Len(s) :
              /\ s[i] \in Nodes
              /\ s[i].op = "true" <=> i = TrueTerm
              /\ s[i].op = "false" <=> i = FalseTerm
              /\ s[i].op \in {"true", "false", "atom", "not", "or"}
              /\ s[i].op = "atom" => s[i].symbol \in Nat
              /\ s[i].op = "not" => s[i].arg \in 1 .. Len(s) /\ s[i].arg \in 1 .. i - 1
              /\ s[i].op = "or" => /\ s[i].args \in SUBSET (1 .. Len(s))
                                   /\ s[i].args \in SUBSET (1 .. i - 1)
<1>1. s \in Seq(Nodes) /\ Len(s) \in Nat /\ DOMAIN s = 1 .. Len(s) /\ Len(s) >= 2
  BY DEF StoreOK
<1>2. /\ s[TrueTerm].op = "true" /\ s[FalseTerm].op = "false"
      /\ TrueTerm \in 1 .. Len(s) /\ FalseTerm \in 1 .. Len(s)
  BY <1>1 DEF StoreOK, TrueTerm, FalseTerm
<1>3. ASSUME NEW i \in 1 .. Len(s)
      PROVE  /\ s[i] \in Nodes
             /\ s[i].op = "true" <=> i = TrueTerm
             /\ s[i].op = "false" <=> i = FalseTerm
             /\ s[i].op \in {"true", "false", "atom", "not", "or"}
             /\ s[i].op = "atom" => s[i].symbol \in Nat
             /\ s[i].op = "not" => s[i].arg \in 1 .. Len(s) /\ s[i].arg \in 1 .. i - 1
             /\ s[i].op = "or" => /\ s[i].args \in SUBSET (1 .. Len(s))
                                  /\ s[i].args \in SUBSET (1 .. i - 1)
  <2>1. s[i] \in Nodes
    BY <1>1
  <2>2. CASE i = TrueTerm \/ i = FalseTerm
    BY <1>2, <2>1, <2>2 DEF TrueTerm, FalseTerm
  <2>3. CASE i # TrueTerm /\ i # FalseTerm
    <3>1. i \in 3 .. Len(s)
      BY <1>1, <2>3 DEF TrueTerm, FalseTerm
    <3>2. s[i].op \in {"atom", "not", "or"} /\ Over(s[i], i)
      BY <3>1 DEF StoreOK
    <3>3. s[i].op = "atom" => s[i].symbol \in Nat
      BY <2>1 DEF Nodes
    <3> QED
      BY <1>1, <2>1, <2>3, <3>1, <3>2, <3>3 DEF Over
  <2> QED
    BY <2>2, <2>3
<1> QED
  BY <1>1, <1>2, <1>3

\* Growth is reflexive and transitive, and keeps the terms.
LEMMA ExtendsFacts ==
  ASSUME NEW s1, NEW s2, NEW s3, StoreOK(s1), StoreOK(s2), StoreOK(s3)
  PROVE  /\ Extends(s1, s1)
         /\ Extends(s2, s1) /\ Extends(s3, s2) => Extends(s3, s1)
         /\ Extends(s2, s1) => 1 .. Len(s1) \subseteq 1 .. Len(s2)
BY StoreFacts DEF Extends

\* A new node over old ones.
LEMMA InternedFacts ==
  ASSUME NEW s, StoreOK(s), NEW n \in Nodes, n.op \in {"atom", "not", "or"}, Over(n, Len(s) + 1)
  PROVE  LET r == Interned(s, n)
         IN  StoreOK(r.store) /\ Extends(r.store, s) /\ r.term \in 1 .. Len(r.store) /\ r.ok
<1>1. s \in Seq(Nodes) /\ Len(s) \in Nat /\ DOMAIN s = 1 .. Len(s)
  BY StoreFacts
<1>2. CASE n \in Range(s)
  <2>1. \E i \in DOMAIN s : s[i] = n
    BY <1>2 DEF Range
  <2>2. (CHOOSE i \in DOMAIN s : s[i] = n) \in DOMAIN s
    BY <2>1
  <2> QED
    BY <1>1, <1>2, <2>2, ExtendsFacts DEF Interned
<1>3. CASE n \notin Range(s)
  <2>1. /\ Append(s, n) \in Seq(Nodes) /\ Len(Append(s, n)) = Len(s) + 1
        /\ Append(s, n)[Len(s) + 1] = n
        /\ \A i \in 1 .. Len(s) : Append(s, n)[i] = s[i]
    BY <1>1
  <2> DEFINE g == Append(s, n)
  <2> HIDE DEF g
  <2>2. StoreOK(g)
    <3>1. /\ Len(g) >= 2 /\ g[TrueTerm] = [op |-> "true"] /\ g[FalseTerm] = [op |-> "false"]
      BY <1>1, <2>1 DEF StoreOK, TrueTerm, FalseTerm, g
    <3>2. ASSUME NEW i \in 3 .. Len(g) PROVE g[i].op \in {"atom", "not", "or"} /\ Over(g[i], i)
      <4>1. CASE i = Len(s) + 1
        BY <2>1, <4>1 DEF g
      <4>2. CASE i # Len(s) + 1
        <5>1. i \in 3 .. Len(s) /\ g[i] = s[i]
          BY <1>1, <2>1, <4>2 DEF g
        <5> QED
          BY <5>1 DEF StoreOK
      <4> QED
        BY <4>1, <4>2
    <3> QED
      BY <2>1, <3>1, <3>2 DEF StoreOK, g
  <2>3. Extends(g, s)
    BY <1>1, <2>1 DEF Extends, g
  <2> QED
    BY <1>1, <1>3, <2>1, <2>2, <2>3 DEF Interned, g
<1> QED
  BY <1>2, <1>3

\* The next symbol is a number, whatever the store holds.
LEMMA FreshAtomFacts ==
  ASSUME NEW s, StoreOK(s)
  PROVE  LET r == FreshAtom(s)
         IN  StoreOK(r.store) /\ Extends(r.store, s) /\ r.term \in 1 .. Len(r.store) /\ r.ok
<1>1. NextSymbol(s) \in Nat
  <2> DEFINE T == {i \in DOMAIN s : s[i].op = "atom"}
  <2>1. IsFiniteSet(DOMAIN s)
    BY StoreFacts, FS_Interval
  <2>2. T \subseteq DOMAIN s
    OBVIOUS
  <2>3. Cardinality(T) \in Nat
    <3> HIDE DEF T
    <3> QED
      BY <2>1, <2>2, FS_Subset, FS_CardinalityType
  <2> QED
    BY <2>3 DEF NextSymbol
<1> DEFINE n == [op |-> "atom", symbol |-> NextSymbol(s)]
<1>2. n \in Nodes /\ n.op = "atom"
  BY <1>1 DEF Nodes
<1>3. Over(n, Len(s) + 1)
  BY DEF Over
<1> HIDE DEF n
<1> QED
  BY <1>2, <1>3, InternedFacts DEF FreshAtom, n

\* A complement.
LEMMA NegationFacts ==
  ASSUME NEW s, StoreOK(s), NEW t \in 1 .. Len(s)
  PROVE  LET r == Negation(s, t)
         IN  StoreOK(r.store) /\ Extends(r.store, s) /\ r.term \in 1 .. Len(r.store) /\ r.ok
<1>1. CASE t = TrueTerm \/ t = FalseTerm \/ s[t].op = "not"
  BY <1>1, StoreFacts, ExtendsFacts DEF Negation, TrueTerm, FalseTerm
<1>2. CASE t # TrueTerm /\ t # FalseTerm /\ s[t].op # "not"
  <2> DEFINE n == [op |-> "not", arg |-> t]
  <2>1. n \in Nodes /\ n.op = "not" /\ Over(n, Len(s) + 1)
    BY StoreFacts DEF Nodes, Over
  <2>2. Negation(s, t) = Interned(s, n)
    BY <1>2 DEF Negation
  <2> HIDE DEF n
  <2> QED
    BY <2>1, <2>2, InternedFacts
<1> QED
  BY <1>1, <1>2

\* A disjunction.
LEMMA JunctionFacts ==
  ASSUME NEW s, StoreOK(s), NEW T \in SUBSET (1 .. Len(s))
  PROVE  LET r == Junction(s, T)
         IN  StoreOK(r.store) /\ Extends(r.store, s) /\ r.term \in 1 .. Len(r.store) /\ r.ok
<1> DEFINE flat == UNION {IF s[t].op = "or" THEN s[t].args ELSE {t} : t \in T} \ {FalseTerm}
           complements == \E t \in flat : s[t].op = "not" /\ s[t].arg \in flat
           n == [op |-> "or", args |-> flat]
<1>1. Len(s) \in Nat /\ flat \in SUBSET (1 .. Len(s))
  BY StoreFacts
<1>2. n \in Nodes /\ n.op = "or" /\ Over(n, Len(s) + 1)
  <2> HIDE DEF flat
  <2> QED
    BY <1>1 DEF Nodes, Over
<1>3. Junction(s, T) =
        IF TrueTerm \in T \/ complements THEN [ok |-> TRUE, store |-> s, term |-> TrueTerm]
        ELSE IF flat = {} THEN [ok |-> TRUE, store |-> s, term |-> FalseTerm]
        ELSE IF Cardinality(flat) = 1
        THEN [ok |-> TRUE, store |-> s, term |-> CHOOSE t \in flat : TRUE]
        ELSE Interned(s, n)
  BY DEF Junction
<1>4. flat # {} => (CHOOSE t \in flat : TRUE) \in 1 .. Len(s)
  <2> HIDE DEF flat
  <2> QED
    BY <1>1
<1> HIDE DEF flat, complements, n
<1>5. CASE TrueTerm \in T \/ complements
  <2>1. Junction(s, T) = [ok |-> TRUE, store |-> s, term |-> TrueTerm]
    BY <1>3, <1>5
  <2> QED
    BY <2>1, StoreFacts, ExtendsFacts
<1>6. CASE ~ (TrueTerm \in T \/ complements) /\ flat = {}
  <2>1. Junction(s, T) = [ok |-> TRUE, store |-> s, term |-> FalseTerm]
    BY <1>3, <1>6
  <2> QED
    BY <2>1, StoreFacts, ExtendsFacts
<1>7. CASE ~ (TrueTerm \in T \/ complements) /\ flat # {} /\ Cardinality(flat) = 1
  BY <1>3, <1>4, <1>7, StoreFacts, ExtendsFacts
<1>8. CASE ~ (TrueTerm \in T \/ complements) /\ flat # {} /\ Cardinality(flat) # 1
  <2>1. Junction(s, T) = Interned(s, n)
    BY <1>3, <1>8
  <2> QED
    BY <1>2, <2>1, InternedFacts
<1> QED
  BY <1>5, <1>6, <1>7, <1>8

-----------------------------------------------------------------------------
(***************************************************************************)
(* Parsing.                                                                *)
(***************************************************************************)

\* The members of a term may be taken from left to right.
MembersTaken(g, b, body, a) ==
  g = [k \in 0 .. Len(body) |-> IF k = 0 THEN a ELSE Member(g[k - 1], b, body[k])]

\* ... and this is what doing it gives, member by member.
LEMMA MembersExist ==
  ASSUME NEW b, NEW body, NEW a, Len(body) \in Nat
  PROVE  /\ \E g : MembersTaken(g, b, body, a)
         /\ \A g : MembersTaken(g, b, body, a) =>
              g[0] = a /\ \A k \in 1 .. Len(body) : g[k] = Member(g[k - 1], b, body[k])
<1> DEFINE n == Len(body)
           T == {j \in 0 .. n : \E g : g = [k \in 0 .. j |-> IF k = 0 THEN a ELSE Member(g[k - 1], b, body[k])]}
<1>1. 0 \in T
  <2> DEFINE g == [k \in 0 .. 0 |-> a]
  <2>1. g = [k \in 0 .. 0 |-> IF k = 0 THEN a ELSE Member(g[k - 1], b, body[k])]
    OBVIOUS
  <2> HIDE DEF g
  <2> QED
    BY <2>1
<1>2. ASSUME NEW j \in 0 .. n - 1, j \in T PROVE j + 1 \in T
  <2>1. PICK g : g = [k \in 0 .. j |-> IF k = 0 THEN a ELSE Member(g[k - 1], b, body[k])]
    BY <1>2
  <2> DEFINE h == [k \in 0 .. j + 1 |-> IF k = j + 1 THEN Member(g[j], b, body[j + 1]) ELSE g[k]]
  <2>2. ASSUME NEW k \in 0 .. j + 1 PROVE h[k] = IF k = 0 THEN a ELSE Member(h[k - 1], b, body[k])
    <3>1. CASE k = j + 1
      BY <3>1
    <3>2. CASE k # j + 1 /\ k # 0
      <4>1. k \in 0 .. j /\ k - 1 \in 0 .. j + 1 /\ k - 1 # j + 1
        BY <3>2
      <4>2. g[k] = Member(g[k - 1], b, body[k]) /\ h[k] = g[k] /\ h[k - 1] = g[k - 1]
        BY <2>1, <3>2, <4>1
      <4> HIDE DEF h
      <4> QED
        BY <3>2, <4>2
    <3>3. CASE k = 0
      BY <2>1, <3>3
    <3> QED
      BY <3>1, <3>2, <3>3
  <2>3. h = [k \in 0 .. j + 1 |-> h[k]]
    OBVIOUS
  <2> HIDE DEF h
  <2>4. h = [k \in 0 .. j + 1 |-> IF k = 0 THEN a ELSE Member(h[k - 1], b, body[k])]
    BY <2>2, <2>3
  <2>5. j + 1 \in 0 .. n
    OBVIOUS
  <2> QED
    BY <2>4, <2>5
<1>3. n \in T
  <2>1. T \in SUBSET (0 .. n)
    OBVIOUS
  <2>2. n \in Nat /\ n \in 0 .. n
    OBVIOUS
  <2> HIDE DEF T, n
  <2>3. \A k \in 0 .. n : k \in T
    BY <1>1, <1>2, <2>1, <2>2, UpTo
  <2> QED
    BY <2>2, <2>3
<1>4. \E g : MembersTaken(g, b, body, a)
  BY <1>3 DEF MembersTaken
<1>5. ASSUME NEW g, MembersTaken(g, b, body, a)
      PROVE  g[0] = a /\ \A k \in 1 .. Len(body) : g[k] = Member(g[k - 1], b, body[k])
  <2>1. g = [k \in 0 .. Len(body) |-> IF k = 0 THEN a ELSE Member(g[k - 1], b, body[k])]
    BY <1>5 DEF MembersTaken
  <2> QED
    BY <2>1
<1> QED
  BY <1>4, <1>5

\* Labels may be bound from left to right.
LabelsTaken(g, items, a) ==
  g = [k \in 0 .. Len(items) |-> IF k = 0 THEN a ELSE BindLabel(g[k - 1], items[k])]

\* ... and this is what doing it gives, label by label.
LEMMA LabelsExist ==
  ASSUME NEW items, NEW a, Len(items) \in Nat
  PROVE  /\ \E g : LabelsTaken(g, items, a)
         /\ \A g : LabelsTaken(g, items, a) =>
              g[0] = a /\ \A k \in 1 .. Len(items) : g[k] = BindLabel(g[k - 1], items[k])
<1> DEFINE n == Len(items)
           T == {j \in 0 .. n : \E g : g = [k \in 0 .. j |-> IF k = 0 THEN a ELSE BindLabel(g[k - 1], items[k])]}
<1>1. 0 \in T
  <2> DEFINE g == [k \in 0 .. 0 |-> a]
  <2>1. g = [k \in 0 .. 0 |-> IF k = 0 THEN a ELSE BindLabel(g[k - 1], items[k])]
    OBVIOUS
  <2> HIDE DEF g
  <2> QED
    BY <2>1
<1>2. ASSUME NEW j \in 0 .. n - 1, j \in T PROVE j + 1 \in T
  <2>1. PICK g : g = [k \in 0 .. j |-> IF k = 0 THEN a ELSE BindLabel(g[k - 1], items[k])]
    BY <1>2
  <2> DEFINE h == [k \in 0 .. j + 1 |-> IF k = j + 1 THEN BindLabel(g[j], items[j + 1]) ELSE g[k]]
  <2>2. ASSUME NEW k \in 0 .. j + 1 PROVE h[k] = IF k = 0 THEN a ELSE BindLabel(h[k - 1], items[k])
    <3>1. CASE k = j + 1
      BY <3>1
    <3>2. CASE k # j + 1 /\ k # 0
      <4>1. k \in 0 .. j /\ k - 1 \in 0 .. j + 1 /\ k - 1 # j + 1
        BY <3>2
      <4>2. g[k] = BindLabel(g[k - 1], items[k]) /\ h[k] = g[k] /\ h[k - 1] = g[k - 1]
        BY <2>1, <3>2, <4>1
      <4> HIDE DEF h
      <4> QED
        BY <3>2, <4>2
    <3>3. CASE k = 0
      BY <2>1, <3>3
    <3> QED
      BY <3>1, <3>2, <3>3
  <2>3. h = [k \in 0 .. j + 1 |-> h[k]]
    OBVIOUS
  <2> HIDE DEF h
  <2>4. h = [k \in 0 .. j + 1 |-> IF k = 0 THEN a ELSE BindLabel(h[k - 1], items[k])]
    BY <2>2, <2>3
  <2>5. j + 1 \in 0 .. n
    OBVIOUS
  <2> QED
    BY <2>4, <2>5
<1>3. n \in T
  <2>1. T \in SUBSET (0 .. n)
    OBVIOUS
  <2>2. n \in Nat /\ n \in 0 .. n
    OBVIOUS
  <2> HIDE DEF T, n
  <2>3. \A k \in 0 .. n : k \in T
    BY <1>1, <1>2, <2>1, <2>2, UpTo
  <2> QED
    BY <2>2, <2>3
<1>4. \E g : LabelsTaken(g, items, a)
  BY <1>3 DEF LabelsTaken
<1>5. ASSUME NEW g, LabelsTaken(g, items, a)
      PROVE  g[0] = a /\ \A k \in 1 .. Len(items) : g[k] = BindLabel(g[k - 1], items[k])
  <2>1. g = [k \in 0 .. Len(items) |-> IF k = 0 THEN a ELSE BindLabel(g[k - 1], items[k])]
    BY <1>5 DEF LabelsTaken
  <2> QED
    BY <2>1
<1> QED
  BY <1>4, <1>5

\* Terms may be parsed from left to right.
ItemsTaken(g, b, items, a) ==
  g = [k \in 0 .. Len(items) |-> IF k = 0 THEN a ELSE ParseItem(g[k - 1], b, items[k])]

\* ... and this is what doing it gives, term by term.
LEMMA ItemsExist ==
  ASSUME NEW b, NEW items, NEW a, Len(items) \in Nat
  PROVE  /\ \E g : ItemsTaken(g, b, items, a)
         /\ \A g : ItemsTaken(g, b, items, a) =>
              g[0] = a /\ \A k \in 1 .. Len(items) : g[k] = ParseItem(g[k - 1], b, items[k])
<1> DEFINE n == Len(items)
           T == {j \in 0 .. n : \E g : g = [k \in 0 .. j |-> IF k = 0 THEN a ELSE ParseItem(g[k - 1], b, items[k])]}
<1>1. 0 \in T
  <2> DEFINE g == [k \in 0 .. 0 |-> a]
  <2>1. g = [k \in 0 .. 0 |-> IF k = 0 THEN a ELSE ParseItem(g[k - 1], b, items[k])]
    OBVIOUS
  <2> HIDE DEF g
  <2> QED
    BY <2>1
<1>2. ASSUME NEW j \in 0 .. n - 1, j \in T PROVE j + 1 \in T
  <2>1. PICK g : g = [k \in 0 .. j |-> IF k = 0 THEN a ELSE ParseItem(g[k - 1], b, items[k])]
    BY <1>2
  <2> DEFINE h == [k \in 0 .. j + 1 |-> IF k = j + 1 THEN ParseItem(g[j], b, items[j + 1]) ELSE g[k]]
  <2>2. ASSUME NEW k \in 0 .. j + 1 PROVE h[k] = IF k = 0 THEN a ELSE ParseItem(h[k - 1], b, items[k])
    <3>1. CASE k = j + 1
      BY <3>1
    <3>2. CASE k # j + 1 /\ k # 0
      <4>1. k \in 0 .. j /\ k - 1 \in 0 .. j + 1 /\ k - 1 # j + 1
        BY <3>2
      <4>2. g[k] = ParseItem(g[k - 1], b, items[k]) /\ h[k] = g[k] /\ h[k - 1] = g[k - 1]
        BY <2>1, <3>2, <4>1
      <4> HIDE DEF h
      <4> QED
        BY <3>2, <4>2
    <3>3. CASE k = 0
      BY <2>1, <3>3
    <3> QED
      BY <3>1, <3>2, <3>3
  <2>3. h = [k \in 0 .. j + 1 |-> h[k]]
    OBVIOUS
  <2> HIDE DEF h
  <2>4. h = [k \in 0 .. j + 1 |-> IF k = 0 THEN a ELSE ParseItem(h[k - 1], b, items[k])]
    BY <2>2, <2>3
  <2>5. j + 1 \in 0 .. n
    OBVIOUS
  <2> QED
    BY <2>4, <2>5
<1>3. n \in T
  <2>1. T \in SUBSET (0 .. n)
    OBVIOUS
  <2>2. n \in Nat /\ n \in 0 .. n
    OBVIOUS
  <2> HIDE DEF T, n
  <2>3. \A k \in 0 .. n : k \in T
    BY <1>1, <1>2, <2>1, <2>2, UpTo
  <2> QED
    BY <2>2, <2>3
<1>4. \E g : ItemsTaken(g, b, items, a)
  BY <1>3 DEF ItemsTaken
<1>5. ASSUME NEW g, ItemsTaken(g, b, items, a)
      PROVE  g[0] = a /\ \A k \in 1 .. Len(items) : g[k] = ParseItem(g[k - 1], b, items[k])
  <2>1. g = [k \in 0 .. Len(items) |-> IF k = 0 THEN a ELSE ParseItem(g[k - 1], b, items[k])]
    BY <1>5 DEF ItemsTaken
  <2> QED
    BY <2>1
<1> QED
  BY <1>4, <1>5

Named(b, s) == \A n \in DOMAIN b : b[n] \in 1 .. Len(s)
MembersOK(x, s) == /\ x.ok \in BOOLEAN /\ StoreOK(x.store) /\ Extends(x.store, s)
                   /\ x.members \in SUBSET (1 .. Len(x.store))

\* A larger store has the terms that the names stand for.
LEMMA NamedStays ==
  ASSUME NEW b, NEW s, NEW s2, StoreOK(s), StoreOK(s2), Named(b, s), Extends(s2, s)
  PROVE  Named(b, s2)
BY StoreFacts DEF Named, Extends

\* One more member.
LEMMA MemberFacts ==
  ASSUME NEW s, StoreOK(s), NEW x, MembersOK(x, s), NEW b, Named(b, s),
         NEW m \in Members
  PROVE  MembersOK(Member(x, b, m), s)
<1>1. Named(b, x.store)
  BY NamedStays DEF MembersOK
<1>2. CASE ~ x.ok \/ m.name \notin DOMAIN b
  BY <1>2 DEF Member, MembersOK
<1>3. CASE x.ok /\ m.name \in DOMAIN b /\ m.positive
  <2>1. Member(x, b, m) = [ok |-> TRUE, store |-> x.store, members |-> x.members \cup {b[m.name]}]
    BY <1>3 DEF Member
  <2> QED
    BY <1>1, <1>3, <2>1 DEF MembersOK, Named
<1>4. CASE x.ok /\ m.name \in DOMAIN b /\ ~ m.positive
  <2> DEFINE r == Negation(x.store, b[m.name])
  <2>1. StoreOK(r.store) /\ Extends(r.store, x.store) /\ r.term \in 1 .. Len(r.store)
    <3>1. b[m.name] \in 1 .. Len(x.store) /\ StoreOK(x.store)
      BY <1>1, <1>4 DEF Named, MembersOK
    <3> QED
      BY <3>1, NegationFacts
  <2>2. Member(x, b, m) = [ok |-> TRUE, store |-> r.store, members |-> x.members \cup {r.term}]
    BY <1>4 DEF Member
  <2> HIDE DEF r
  <2>3. Extends(r.store, s) /\ 1 .. Len(x.store) \subseteq 1 .. Len(r.store)
    BY <2>1, ExtendsFacts DEF MembersOK
  <2> QED
    BY <2>1, <2>2, <2>3 DEF MembersOK
<1> QED
  BY <1>2, <1>3, <1>4

\* parse_term builds over what there is: the terms that were there stay.
LEMMA ParsedFacts ==
  ASSUME NEW s, StoreOK(s), NEW b, Named(b, s), NEW body \in Seq(Members)
  PROVE  LET p == Parsed(s, b, body)
         IN  /\ p.ok \in BOOLEAN /\ StoreOK(p.store) /\ Extends(p.store, s) /\ p.term \in Nat
             /\ p.ok => p.term \in 1 .. Len(p.store)
<1> DEFINE n == Len(body)
           a == [ok |-> TRUE, store |-> s, members |-> {}]
           acc == CHOOSE g : MembersTaken(g, b, body, a)
<1>1. n \in Nat /\ \A k \in 1 .. n : body[k] \in Members
  OBVIOUS
<1>2. MembersTaken(acc, b, body, a)
  <2> HIDE DEF a
  <2>1. \E g : MembersTaken(g, b, body, a)
    BY <1>1, MembersExist
  <2> QED
    BY <2>1
<1>3. Parsed(s, b, body) = IF acc[n].ok THEN Junction(acc[n].store, acc[n].members)
                           ELSE [ok |-> FALSE, store |-> acc[n].store, term |-> 0]
  BY DEF Parsed, MembersTaken
<1> HIDE DEF acc, a
<1>4. acc[0] = a /\ \A k \in 1 .. n : acc[k] = Member(acc[k - 1], b, body[k])
  BY <1>1, <1>2, MembersExist
<1> HIDE DEF n
<1> DEFINE T == {k \in 0 .. n : MembersOK(acc[k], s)}
<1>5. 0 \in T
  <2>1. MembersOK(a, s)
    BY ExtendsFacts DEF a, MembersOK
  <2> QED
    BY <1>1, <1>4, <2>1
<1>6. ASSUME NEW k \in 0 .. n - 1, k \in T PROVE k + 1 \in T
  <2>1. k + 1 \in 1 .. n /\ k + 1 - 1 = k /\ k + 1 \in 0 .. n
    BY <1>1
  <2>2. acc[k + 1] = Member(acc[k], b, body[k + 1]) /\ body[k + 1] \in Members
    BY <1>1, <1>4, <2>1
  <2>3. MembersOK(acc[k + 1], s)
    BY <1>6, <2>2, MemberFacts
  <2> QED
    BY <2>1, <2>3
<1>7. MembersOK(acc[n], s)
  <2>1. T \in SUBSET (0 .. n) /\ n \in 0 .. n
    BY <1>1
  <2> HIDE DEF T
  <2>2. \A k \in 0 .. n : k \in T
    BY <1>1, <1>5, <1>6, <2>1, UpTo
  <2> QED
    BY <2>1, <2>2 DEF T
<1> DEFINE x == acc[n]
           r == Junction(x.store, x.members)
<1>8. StoreOK(r.store) /\ Extends(r.store, x.store) /\ r.term \in 1 .. Len(r.store) /\ r.ok
  BY <1>7, JunctionFacts DEF MembersOK
<1>9. CASE x.ok
  <2>1. Parsed(s, b, body) = r
    BY <1>3, <1>9
  <2>2. Extends(r.store, s)
    BY <1>7, <1>8, ExtendsFacts DEF MembersOK
  <2>3. r.term \in Nat /\ r.ok \in BOOLEAN
    BY <1>8, StoreFacts
  <2> HIDE DEF r
  <2> QED
    BY <1>8, <2>1, <2>2, <2>3
<1>10. CASE ~ x.ok
  <2>1. Parsed(s, b, body) = [ok |-> FALSE, store |-> x.store, term |-> 0]
    BY <1>3, <1>10
  <2> QED
    BY <1>7, <2>1 DEF MembersOK
<1> QED
  BY <1>9, <1>10

\* The visible names and the store, before a command.
NamesTyped == StoreOK(nodes) /\ bindings \in Maps(STRING, Nat) /\ Named(bindings, nodes)

\* The labels bound so far: they are new names for terms of the store.
LabelsOK(x, items) ==
  /\ x.ok \in BOOLEAN /\ StoreOK(x.store) /\ Extends(x.store, nodes)
  /\ x.bindings \in Maps(STRING, Nat) /\ Named(x.bindings, x.store)
  /\ DOMAIN bindings \subseteq DOMAIN x.bindings
  /\ DOMAIN x.bindings \subseteq DOMAIN bindings \cup Labels(items)
  /\ \A n \in DOMAIN bindings : x.bindings[n] = bindings[n]
  /\ x.ok => Labels(items) \cap DOMAIN bindings = {}

\* One more label.
LEMMA BindLabelFacts ==
  ASSUME NamesTyped, NEW items, NEW x, LabelsOK(x, items), NEW it \in Items, it \in Range(items)
  PROVE  LET y == BindLabel(x, it)
         IN  /\ LabelsOK(y, items) /\ (y.ok => x.ok)
             /\ DOMAIN x.bindings \subseteq DOMAIN y.bindings
             /\ y.ok /\ it.label # NoLabel => it.label \in DOMAIN y.bindings
<1> DEFINE p == Parsed(x.store, x.bindings, it.body)
           ok == x.ok /\ p.ok
           y == BindLabel(x, it)
<1>1. /\ p.ok \in BOOLEAN /\ StoreOK(p.store) /\ Extends(p.store, x.store)
      /\ p.ok => p.term \in 1 .. Len(p.store) /\ p.term \in Nat
  <2>1. it.body \in Seq(Members) /\ StoreOK(x.store) /\ Named(x.bindings, x.store)
    BY DEF Items, LabelsOK
  <2> QED
    BY <2>1, ParsedFacts
<1>2. StoreOK(p.store) /\ Extends(p.store, nodes) /\ Named(x.bindings, p.store)
  BY <1>1, ExtendsFacts, NamedStays DEF LabelsOK, NamesTyped
<1>3. CASE it.label = NoLabel
  BY <1>3 DEF BindLabel
<1>4. CASE it.label # NoLabel /\ ~ ok
  <2>1. y = [ok |-> FALSE, store |-> p.store, bindings |-> x.bindings]
    BY <1>4 DEF BindLabel
  <2> HIDE DEF y, p
  <2> QED
    BY <1>2, <2>1 DEF LabelsOK, y
<1>5. CASE it.label # NoLabel /\ ok
  <2>1. y = [ok |-> TRUE, store |-> p.store, bindings |-> Put(x.bindings, it.label, p.term)]
    BY <1>5 DEF BindLabel
  <2>2. it.label \in STRING /\ it.label \in Labels(items) /\ it.label \notin DOMAIN bindings
    BY <1>5 DEF Items, Labels, LabelsOK
  <2>3. p.term \in 1 .. Len(p.store) /\ p.term \in Nat
    BY <1>1, <1>5
  <2> DEFINE b == Put(x.bindings, it.label, p.term)
  <2> HIDE DEF y, p
  <2>4. /\ b \in Maps(STRING, Nat) /\ \A n : n \in DOMAIN b <=> n \in DOMAIN x.bindings \/ n = it.label
        /\ b[it.label] = p.term /\ \A n \in DOMAIN x.bindings : n # it.label => b[n] = x.bindings[n]
    <3>1. x.bindings \in Maps(STRING, Nat)
      BY DEF LabelsOK
    <3> QED
      BY <2>2, <2>3, <3>1, PutFacts
  <2> HIDE DEF b
  <2>5. Named(b, p.store)
    BY <1>2, <2>3, <2>4 DEF Named
  <2>6. /\ y.ok = TRUE /\ y.store = p.store /\ y.bindings = b
    BY <2>1 DEF b
  <2>7. LabelsOK(y, items)
    BY <1>2, <1>5, <2>2, <2>4, <2>5, <2>6 DEF LabelsOK
  <2> QED
    BY <1>5, <2>4, <2>6, <2>7 DEF y
<1> QED
  BY <1>3, <1>4, <1>5

\* prepare_inline_definitions: the labels are new names, and bound if all is well.
LEMMA PreparedFacts ==
  ASSUME NamesTyped, NEW items \in Seq(Items)
  PROVE  LET x == Prepared(items)
         IN  LabelsOK(x, items) /\ (x.ok => Labels(items) \subseteq DOMAIN x.bindings)
<1> DEFINE n == Len(items)
           a == [ok |-> NewLabels(items), store |-> nodes, bindings |-> bindings]
           acc == CHOOSE g : LabelsTaken(g, items, a)
<1>1. n \in Nat /\ \A k \in 1 .. n : items[k] \in Items /\ items[k] \in Range(items)
  BY DEF Range
<1>2. LabelsTaken(acc, items, a)
  <2> HIDE DEF a
  <2>1. \E g : LabelsTaken(g, items, a)
    BY <1>1, LabelsExist
  <2> QED
    BY <2>1
<1>3. Prepared(items) = acc[n]
  BY DEF Prepared, LabelsTaken
<1>4. LabelsOK(a, items)
  <2>1. NewLabels(items) \in BOOLEAN /\ (NewLabels(items) => Labels(items) \cap DOMAIN bindings = {})
    BY DEF NewLabels
  <2> QED
    BY <2>1, ExtendsFacts DEF LabelsOK, NamesTyped
<1> HIDE DEF acc, a
<1>5. acc[0] = a /\ \A k \in 1 .. n : acc[k] = BindLabel(acc[k - 1], items[k])
  BY <1>1, <1>2, LabelsExist
<1> DEFINE Bound0(k) == acc[k].ok => \A i \in 1 .. k : items[i].label # NoLabel
                                                        => items[i].label \in DOMAIN acc[k].bindings
           T == {k \in 0 .. n : LabelsOK(acc[k], items) /\ Bound0(k)}
<1>6. 0 \in T
  BY <1>1, <1>4, <1>5
<1> HIDE DEF n
<1>7. ASSUME NEW k \in 0 .. n - 1, k \in T PROVE k + 1 \in T
  <2>1. k + 1 \in 1 .. n /\ k + 1 - 1 = k /\ k + 1 \in 0 .. n
    BY <1>1
  <2>2. /\ acc[k + 1] = BindLabel(acc[k], items[k + 1])
        /\ items[k + 1] \in Items /\ items[k + 1] \in Range(items)
    BY <1>1, <1>5, <2>1
  <2> DEFINE it == items[k + 1]
             x == acc[k]
             y == acc[k + 1]
  <2>3. /\ LabelsOK(y, items) /\ (y.ok => x.ok)
        /\ DOMAIN x.bindings \subseteq DOMAIN y.bindings
        /\ y.ok /\ it.label # NoLabel => it.label \in DOMAIN y.bindings
    <3>1. /\ y = BindLabel(x, it) /\ it \in Items /\ it \in Range(items) /\ LabelsOK(x, items)
      BY <1>7, <2>2
    <3> HIDE DEF x, y, it
    <3> QED
      BY <3>1, BindLabelFacts
  <2>4. Bound0(k + 1)
    <3> SUFFICES ASSUME y.ok, NEW i \in 1 .. k + 1, items[i].label # NoLabel
                 PROVE  items[i].label \in DOMAIN y.bindings
      OBVIOUS
    <3>1. CASE i = k + 1
      BY <2>3, <3>1
    <3>2. CASE i # k + 1
      <4>1. i \in 1 .. k
        BY <3>2
      <4> QED
        BY <1>7, <2>3, <4>1
    <3> QED
      BY <3>1, <3>2
  <2> QED
    BY <2>1, <2>3, <2>4
<1>8. LabelsOK(acc[n], items) /\ Bound0(n)
  <2>1. T \in SUBSET (0 .. n) /\ n \in 0 .. n
    BY <1>1
  <2> HIDE DEF T
  <2>2. \A k \in 0 .. n : k \in T
    BY <1>1, <1>6, <1>7, <2>1, UpTo
  <2> QED
    BY <2>1, <2>2 DEF T
<1>9. ASSUME acc[n].ok PROVE Labels(items) \subseteq DOMAIN acc[n].bindings
  <2> SUFFICES ASSUME NEW m \in Labels(items) PROVE m \in DOMAIN acc[n].bindings
    OBVIOUS
  <2>1. PICK it \in Range(items) : m = it.label /\ it.label # NoLabel
    BY DEF Labels
  <2>2. PICK i \in 1 .. n : items[i] = it
    BY <2>1 DEF Range, n
  <2> QED
    BY <1>8, <1>9, <2>1, <2>2
<1> QED
  BY <1>3, <1>8, <1>9

\* What parse_term returned for the terms of a command.
ParseOK(t, items) ==
  /\ t.ok \in BOOLEAN /\ StoreOK(t.store) /\ StoreOK(t.prepared)
  /\ Extends(t.prepared, nodes) /\ Extends(t.store, t.prepared) /\ Extends(t.store, nodes)
  /\ t.bindings \in Maps(STRING, Nat) /\ Named(t.bindings, t.prepared)
  /\ DOMAIN bindings \subseteq DOMAIN t.bindings
  /\ DOMAIN t.bindings \subseteq DOMAIN bindings \cup Labels(items)
  /\ \A n \in DOMAIN bindings : t.bindings[n] = bindings[n]
  /\ t.ok => /\ Labels(items) \cap DOMAIN bindings = {}
             /\ Labels(items) \subseteq DOMAIN t.bindings
  /\ t.terms \in Seq(Nat) /\ Len(t.terms) = Len(items)
  /\ t.ok => \A i \in 1 .. Len(items) : t.terms[i] \in 1 .. Len(t.store)

\* The terms parsed so far.
ItemsOK(x, k, s) ==
  /\ x.ok \in BOOLEAN /\ StoreOK(x.store) /\ Extends(x.store, s)
  /\ x.terms \in Seq(Nat) /\ Len(x.terms) = k
  /\ x.ok => \A i \in 1 .. k : x.terms[i] \in 1 .. Len(x.store)

\* One more term.
LEMMA ParseItemFacts ==
  ASSUME NEW s, StoreOK(s), NEW b, Named(b, s), NEW k \in Nat, NEW x, ItemsOK(x, k, s),
         NEW it \in Items
  PROVE  LET y == ParseItem(x, b, it)
         IN  ItemsOK(y, k + 1, s) /\ (y.ok => x.ok)
<1> DEFINE p == Parsed(x.store, b, it.body)
           y == ParseItem(x, b, it)
<1>1. /\ p.ok \in BOOLEAN /\ StoreOK(p.store) /\ Extends(p.store, x.store)
      /\ p.ok => p.term \in 1 .. Len(p.store)
      /\ p.term \in Nat
  <2>1. it.body \in Seq(Members) /\ StoreOK(x.store) /\ Named(b, x.store)
    BY NamedStays DEF Items, ItemsOK
  <2> QED
    BY <2>1, ParsedFacts
<1>2. y = [ok |-> x.ok /\ p.ok, store |-> p.store, terms |-> Append(x.terms, p.term)]
  BY DEF ParseItem
<1> HIDE DEF p, y
<1>3. StoreOK(y.store) /\ Extends(y.store, s) /\ 1 .. Len(x.store) \subseteq 1 .. Len(y.store)
  BY <1>1, <1>2, ExtendsFacts DEF ItemsOK
<1>4. /\ y.terms \in Seq(Nat) /\ Len(y.terms) = k + 1 /\ y.terms[k + 1] = p.term
      /\ \A i \in 1 .. k : y.terms[i] = x.terms[i]
  BY <1>1, <1>2 DEF ItemsOK
<1>5. y.ok \in BOOLEAN /\ (y.ok <=> x.ok /\ p.ok)
  BY <1>1, <1>2 DEF ItemsOK
<1>6. ASSUME y.ok, NEW i \in 1 .. k + 1 PROVE y.terms[i] \in 1 .. Len(y.store)
  <2>1. CASE i = k + 1
    BY <1>1, <1>2, <1>4, <1>5, <1>6, <2>1
  <2>2. CASE i # k + 1
    <3>1. i \in 1 .. k
      BY <2>2
    <3>2. x.terms[i] \in 1 .. Len(x.store)
      BY <1>5, <1>6, <3>1 DEF ItemsOK
    <3> QED
      BY <1>3, <1>4, <3>1, <3>2
  <2> QED
    BY <2>1, <2>2
<1> QED
  BY <1>3, <1>4, <1>5, <1>6 DEF ItemsOK, y

\* A command's terms are parsed over the store, after its labels.
LEMMA ParsedAllFacts ==
  ASSUME NamesTyped, NEW items \in Seq(Items)
  PROVE  ParseOK(ParsedAll(items), items)
<1> DEFINE prep == Prepared(items)
           n == Len(items)
           s == prep.store
           b == prep.bindings
           a == [ok |-> prep.ok, store |-> prep.store, terms |-> << >>]
           acc == CHOOSE g : ItemsTaken(g, b, items, a)
           t == ParsedAll(items)
<1>1. n \in Nat /\ \A k \in 1 .. n : items[k] \in Items
  OBVIOUS
<1>2. LabelsOK(prep, items) /\ (prep.ok => Labels(items) \subseteq DOMAIN prep.bindings)
  BY PreparedFacts
<1>3. ItemsTaken(acc, b, items, a)
  <2> HIDE DEF a, b
  <2>1. \E g : ItemsTaken(g, b, items, a)
    BY <1>1, ItemsExist
  <2> QED
    BY <2>1
<1>4. /\ t.ok = acc[n].ok /\ t.prepared = s /\ t.store = acc[n].store
      /\ t.bindings = b /\ t.terms = acc[n].terms
  BY DEF ParsedAll, ItemsTaken
<1>5. StoreOK(s) /\ Named(b, s)
  BY <1>2 DEF LabelsOK
<1>6. ItemsOK(a, 0, s)
  <2> HIDE DEF prep
  <2>1. << >> \in Seq(Nat) /\ Len(<< >>) = 0
    OBVIOUS
  <2> QED
    BY <1>2, <1>5, <2>1, ExtendsFacts DEF ItemsOK, LabelsOK
<1>7. a.ok => prep.ok
  OBVIOUS
<1> HIDE DEF acc, a, prep, t
<1>8. acc[0] = a /\ \A k \in 1 .. n : acc[k] = ParseItem(acc[k - 1], b, items[k])
  BY <1>1, <1>3, ItemsExist
<1> HIDE DEF n, s, b
<1> DEFINE T == {k \in 0 .. n : ItemsOK(acc[k], k, s) /\ (acc[k].ok => prep.ok)}
<1>9. 0 \in T
  BY <1>1, <1>6, <1>7, <1>8
<1>10. ASSUME NEW k \in 0 .. n - 1, k \in T PROVE k + 1 \in T
  <2>1. k + 1 \in 1 .. n /\ k + 1 - 1 = k /\ k + 1 \in 0 .. n /\ k \in Nat
    BY <1>1
  <2>2. acc[k + 1] = ParseItem(acc[k], b, items[k + 1]) /\ items[k + 1] \in Items
    BY <1>1, <1>8, <2>1
  <2>3. ItemsOK(acc[k + 1], k + 1, s) /\ (acc[k + 1].ok => acc[k].ok)
    BY <1>5, <1>10, <2>1, <2>2, ParseItemFacts
  <2> QED
    BY <1>10, <2>1, <2>3
<1>11. ItemsOK(acc[n], n, s) /\ (acc[n].ok => prep.ok)
  <2>1. T \in SUBSET (0 .. n) /\ n \in 0 .. n
    BY <1>1
  <2> HIDE DEF T
  <2>2. \A k \in 0 .. n : k \in T
    BY <1>1, <1>9, <1>10, <2>1, UpTo
  <2> QED
    BY <2>1, <2>2 DEF T
<1>12. Extends(t.store, nodes)
  BY <1>2, <1>4, <1>5, <1>11, ExtendsFacts DEF ItemsOK, LabelsOK, NamesTyped, s
<1>13. /\ t.ok \in BOOLEAN /\ StoreOK(t.store) /\ StoreOK(t.prepared)
       /\ Extends(t.prepared, nodes) /\ Extends(t.store, t.prepared)
       /\ t.bindings \in Maps(STRING, Nat) /\ Named(t.bindings, t.prepared)
  BY <1>2, <1>4, <1>5, <1>11 DEF ItemsOK, LabelsOK, s, b
<1>14. /\ DOMAIN bindings \subseteq DOMAIN t.bindings
       /\ DOMAIN t.bindings \subseteq DOMAIN bindings \cup Labels(items)
       /\ \A m \in DOMAIN bindings : t.bindings[m] = bindings[m]
       /\ t.ok => /\ Labels(items) \cap DOMAIN bindings = {}
                  /\ Labels(items) \subseteq DOMAIN t.bindings
  BY <1>2, <1>4, <1>11 DEF LabelsOK, b
<1>15. /\ t.terms \in Seq(Nat) /\ Len(t.terms) = Len(items)
       /\ t.ok => \A i \in 1 .. Len(items) : t.terms[i] \in 1 .. Len(t.store)
  BY <1>4, <1>11 DEF ItemsOK, n
<1> QED
  BY <1>12, <1>13, <1>14, <1>15 DEF ParseOK, t

-----------------------------------------------------------------------------
(***************************************************************************)
(* The work of an encoding, step by step.                                  *)
(***************************************************************************)
Encoders == [terms : Maps(Nat, Int), atoms : Maps(Nat, Nat), truth : Nat]
Clauses == SUBSET (SUBSET Int)
Solvers == [count : Nat, clauses : Clauses, selectors : Seq(Nat)]
Works == [ok : BOOLEAN, new : Nat, room : Nat, encoder : Encoders, solver : Solvers]

\* Solver::new_variable: a variable that was none before, or a refusal.
LEMMA NewVariableFacts ==
  ASSUME NEW w \in Works
  PROVE  LET r == NewVariable(w)
         IN  /\ r \in Works /\ (r.ok => w.ok) /\ r.encoder = w.encoder
             /\ r.solver.clauses = w.solver.clauses /\ r.solver.selectors = w.solver.selectors
             /\ r.ok => r.new = w.solver.count + 1 /\ r.solver.count = w.solver.count + 1
             /\ ~ r.ok => r.solver = w.solver
<1>1. w.solver \in Solvers /\ w.room \in Nat /\ w.solver.count \in Nat
  BY DEF Works, Solvers
<1>2. CASE ~ w.ok \/ w.room = 0
  <2>1. NewVariable(w) = [w EXCEPT !.ok = FALSE]
    BY <1>2 DEF NewVariable
  <2> QED
    BY <2>1 DEF Works
<1>3. CASE w.ok /\ w.room # 0
  <2>1. NewVariable(w) = [w EXCEPT !.solver.count = w.solver.count + 1, !.new = w.solver.count + 1,
                                   !.room = w.room - 1]
    BY <1>3 DEF NewVariable
  <2>2. [w.solver EXCEPT !.count = w.solver.count + 1] \in Solvers
    BY <1>1 DEF Solvers
  <2>3. /\ [w.solver EXCEPT !.count = w.solver.count + 1].count = w.solver.count + 1
        /\ [w.solver EXCEPT !.count = w.solver.count + 1].clauses = w.solver.clauses
        /\ [w.solver EXCEPT !.count = w.solver.count + 1].selectors = w.solver.selectors
    BY <1>1 DEF Solvers
  <2>4. w.room - 1 \in Nat /\ w.solver.count + 1 \in Nat
    BY <1>1, <1>3
  <2>5. NewVariable(w) = [w EXCEPT !.solver = [w.solver EXCEPT !.count = w.solver.count + 1],
                                   !.new = w.solver.count + 1, !.room = w.room - 1]
    BY <2>1 DEF Works
  <2> DEFINE v == [w.solver EXCEPT !.count = w.solver.count + 1]
             q == w.solver.count + 1
             m == w.room - 1
  <2> HIDE DEF v, q, m
  <2>6. NewVariable(w) = [w EXCEPT !.solver = v, !.new = q, !.room = m]
    BY <2>5 DEF v, q, m
  <2>7. v \in Solvers /\ q \in Nat /\ m \in Nat
    BY <2>2, <2>4 DEF v, q, m
  <2>8. /\ NewVariable(w) \in Works /\ NewVariable(w).ok = w.ok
        /\ NewVariable(w).encoder = w.encoder /\ NewVariable(w).solver = v /\ NewVariable(w).new = q
    BY <2>6, <2>7 DEF Works
  <2> QED
    BY <1>3, <2>3, <2>8 DEF v, q
<1> QED
  BY <1>2, <1>3

\* add_encoding_clause.
LEMMA AddingFacts ==
  ASSUME NEW w \in Works, NEW C \in Clauses
  PROVE  LET r == Adding(w, C)
         IN  /\ r \in Works /\ r.ok = w.ok /\ r.encoder = w.encoder /\ r.new = w.new
             /\ r.solver.count = w.solver.count /\ r.solver.selectors = w.solver.selectors
             /\ w.ok => \A c : c \in r.solver.clauses <=> c \in w.solver.clauses \/ c \in C
             /\ ~ w.ok => r = w
<1>1. CASE ~ w.ok
  BY <1>1 DEF Adding
<1>2. CASE w.ok
  <2>1. w.solver \in Solvers /\ w.solver.clauses \cup C \in Clauses
    BY DEF Works, Solvers, Clauses
  <2> DEFINE D == w.solver.clauses \cup C
             v == [w.solver EXCEPT !.clauses = D]
  <2>2. Adding(w, C) = [w EXCEPT !.solver = v]
    BY <1>2 DEF Adding, Works
  <2> HIDE DEF D
  <2>3. /\ v \in Solvers /\ v.count = w.solver.count /\ v.selectors = w.solver.selectors
        /\ v.clauses = D
    BY <2>1 DEF Solvers, D
  <2> HIDE DEF v
  <2>4. /\ Adding(w, C) \in Works /\ Adding(w, C).ok = w.ok /\ Adding(w, C).encoder = w.encoder
        /\ Adding(w, C).new = w.new /\ Adding(w, C).solver = v
    BY <2>2, <2>3 DEF Works
  <2> QED
    BY <1>2, <2>3, <2>4 DEF D
<1> QED
  BY <1>1, <1>2

\* A term gets its literal.
LEMMA TermIsFacts ==
  ASSUME NEW w \in Works, NEW i \in Nat, NEW l \in Int
  PROVE  LET r == TermIs(w, i, l)
         IN  /\ r \in Works /\ r.ok = w.ok /\ r.solver = w.solver
             /\ r.encoder.atoms = w.encoder.atoms /\ r.encoder.truth = w.encoder.truth
             /\ w.ok => r.encoder.terms = Put(w.encoder.terms, i, l)
             /\ ~ w.ok => r = w
<1>1. CASE ~ w.ok
  BY <1>1 DEF TermIs
<1>2. CASE w.ok
  <2>1. w.encoder \in Encoders /\ w.encoder.terms \in Maps(Nat, Int)
    BY DEF Works, Encoders
  <2> DEFINE D == Put(w.encoder.terms, i, l)
             e == [w.encoder EXCEPT !.terms = D]
  <2>2. TermIs(w, i, l) = [w EXCEPT !.encoder = e]
    BY <1>2 DEF TermIs, Works
  <2>3. D \in Maps(Nat, Int)
    BY <2>1, PutFacts
  <2> HIDE DEF D
  <2>4. /\ e \in Encoders /\ e.atoms = w.encoder.atoms /\ e.truth = w.encoder.truth
        /\ e.terms = D
    BY <2>1, <2>3 DEF Encoders
  <2> HIDE DEF e
  <2>5. /\ TermIs(w, i, l) \in Works /\ TermIs(w, i, l).ok = w.ok
        /\ TermIs(w, i, l).solver = w.solver /\ TermIs(w, i, l).encoder = e
    BY <2>2, <2>4 DEF Works
  <2> QED
    BY <1>2, <2>4, <2>5 DEF D
<1> QED
  BY <1>1, <1>2

-----------------------------------------------------------------------------
(***************************************************************************)
(* The caches and the clauses stand together.  A literal is the literal of *)
(* its node; every variable has one role; every clause fixes the truth     *)
(* variable, defines a disjunction, belongs to an assertion in scope or is *)
(* true because a scope or an assertion is gone.                           *)
(***************************************************************************)

\* The literal of node i is what EncodeNode makes of it.
Defines(s, e, i, c) ==
  \/ \E d \in s[i].args : c = {-e.terms[d], e.terms[i]}
  \/ c = {-e.terms[i]} \cup {e.terms[d] : d \in s[i].args}
LiteralOK(s, e, v, i) ==
  /\ e.terms[i] # 0
  /\ s[i].op = "true" => e.truth # 0 /\ e.terms[i] = e.truth
  /\ s[i].op = "false" => e.truth # 0 /\ e.terms[i] = -e.truth
  /\ s[i].op = "atom" => s[i].symbol \in DOMAIN e.atoms /\ e.terms[i] = e.atoms[s[i].symbol]
  /\ s[i].op = "not" => s[i].arg \in DOMAIN e.terms /\ e.terms[i] = -e.terms[s[i].arg]
  /\ s[i].op = "or" => s[i].args \subseteq DOMAIN e.terms
                       /\ \A c : Defines(s, e, i, c) => c \in v.clauses
EncoderOK(s, e, v) ==
  /\ DOMAIN e.terms \subseteq 1 .. Len(s)
  /\ e.truth # 0 => {e.truth} \in v.clauses
  /\ \A i \in DOMAIN e.terms : LiteralOK(s, e, v, i)

\* What a variable stands for.
Role(k, n) == [kind |-> k, of |-> n]
Coloured(s, e, v, f, role) ==
  /\ e.truth # 0 => e.truth \in 1 .. v.count /\ role[e.truth] = Role("truth", 0)
  /\ \A a \in DOMAIN e.atoms : e.atoms[a] \in 1 .. v.count /\ role[e.atoms[a]] = Role("atom", a)
  /\ \A i \in DOMAIN e.terms :
       s[i].op = "or" => e.terms[i] \in 1 .. v.count /\ role[e.terms[i]] = Role("or", i)
  /\ \A k \in 1 .. Len(v.selectors) :
       v.selectors[k] \in 1 .. v.count /\ role[v.selectors[k]] = Role("scope", k)
  /\ \A k \in DOMAIN f : \A n \in f[k].named :
       n.selector \in 1 .. v.count /\ role[n.selector] = Role("name", k)

\* The clause of assertion a of scope k.
Selected(v, k, c) == k > 1 => -v.selectors[k - 1] \in c
Labelling(f, k, a, c) == a.label # NoLabel => \E n \in f[k].named : n.name = a.label /\ -n.selector \in c
ClauseOK(s, e, v, f, role, c) ==
  \/ e.truth # 0 /\ e.truth \in c
  \/ \E i \in DOMAIN e.terms : s[i].op = "or" /\ Defines(s, e, i, c)
  \/ \E x \in 1 .. v.count : -x \in c /\ role[x].kind = "dead"
  \/ \E k \in DOMAIN f : \E a \in f[k].asserted :
       e.terms[a.term] \in c /\ Selected(v, k, c) /\ Labelling(f, k, a, c)

\* An assertion is in force while its scope is open.
InForce(e, v, f, k, a, c) ==
  \A l \in c : \/ l = e.terms[a.term]
               \/ k > 1 /\ l = -v.selectors[k - 1]
               \/ \E n \in f[k].named : l = -n.selector
EntriesOK(e, v, f) ==
  \A k \in DOMAIN f : \A a \in f[k].asserted :
    a.term \in DOMAIN e.terms /\ \E c \in v.clauses : InForce(e, v, f, k, a, c)

Coherent(s, e, v, f) ==
  /\ EncoderOK(s, e, v) /\ EntriesOK(e, v, f)
  /\ \E role : /\ Coloured(s, e, v, f, role)
               /\ \A c \in v.clauses : ClauseOK(s, e, v, f, role, c)

\* What was cached stays.
Keeps(e, v, e2, v2) ==
  /\ \A j \in DOMAIN e.terms : j \in DOMAIN e2.terms /\ e2.terms[j] = e.terms[j]
  /\ \A b \in DOMAIN e.atoms : b \in DOMAIN e2.atoms /\ e2.atoms[b] = e.atoms[b]
  /\ e.truth # 0 => e2.truth = e.truth
  /\ v2.selectors = v.selectors /\ v.clauses \subseteq v2.clauses /\ v.count <= v2.count

\* A literal, a definition and an assertion mean what they meant.
LEMMA KeptLiteral ==
  ASSUME NEW s, StoreOK(s), NEW e \in Encoders, NEW e2 \in Encoders, NEW v \in Solvers,
         NEW v2 \in Solvers, Keeps(e, v, e2, v2), NEW j \in DOMAIN e.terms, j \in 1 .. Len(s),
         LiteralOK(s, e, v, j)
  PROVE  /\ LiteralOK(s, e2, v2, j)
         /\ s[j].op = "or" => \A c : Defines(s, e2, j, c) <=> Defines(s, e, j, c)
<1>1. e2.terms[j] = e.terms[j] /\ \A d \in DOMAIN e.terms : d \in DOMAIN e2.terms /\ e2.terms[d] = e.terms[d]
  BY DEF Keeps
<1>2. ASSUME s[j].op = "or", NEW c PROVE Defines(s, e2, j, c) <=> Defines(s, e, j, c)
  <2>1. s[j].args \subseteq DOMAIN e.terms
    BY <1>2 DEF LiteralOK
  <2>2. \A d \in s[j].args : e2.terms[d] = e.terms[d]
    BY <1>1, <2>1
  <2>3. {e2.terms[d] : d \in s[j].args} = {e.terms[d] : d \in s[j].args}
    BY <2>2
  <2> QED
    BY <1>1, <2>2, <2>3 DEF Defines
<1>3. s[j].op = "or" => s[j].args \subseteq DOMAIN e2.terms
                        /\ \A c : Defines(s, e2, j, c) => c \in v2.clauses
  <2> SUFFICES ASSUME s[j].op = "or"
               PROVE  s[j].args \subseteq DOMAIN e2.terms
                      /\ \A c : Defines(s, e2, j, c) => c \in v2.clauses
    OBVIOUS
  <2>1. s[j].args \subseteq DOMAIN e.terms /\ \A c : Defines(s, e, j, c) => c \in v.clauses
    BY DEF LiteralOK
  <2>2. \A c : Defines(s, e2, j, c) => c \in v.clauses
    BY <1>2, <2>1
  <2> QED
    BY <1>1, <2>1, <2>2 DEF Keeps
<1>4. /\ e2.terms[j] # 0
      /\ s[j].op = "true" => e2.truth # 0 /\ e2.terms[j] = e2.truth
      /\ s[j].op = "false" => e2.truth # 0 /\ e2.terms[j] = -e2.truth
  BY <1>1 DEF LiteralOK, Keeps
<1>5. s[j].op = "atom" => s[j].symbol \in DOMAIN e2.atoms /\ e2.terms[j] = e2.atoms[s[j].symbol]
  BY <1>1 DEF LiteralOK, Keeps
<1>6. s[j].op = "not" => s[j].arg \in DOMAIN e2.terms /\ e2.terms[j] = -e2.terms[s[j].arg]
  BY <1>1 DEF LiteralOK
<1> QED
  BY <1>2, <1>3, <1>4, <1>5, <1>6 DEF LiteralOK

\* A term more, and what its literal needs: a role for the new variable, if there
\* is one.
Adds(s, e, v, e2, v2, i) ==
  /\ \A j : j \in DOMAIN e2.terms <=> j \in DOMAIN e.terms \/ j = i
  /\ LiteralOK(s, e2, v2, i)
  /\ e2.truth # 0 => {e2.truth} \in v2.clauses
  /\ \A c \in v2.clauses : \/ c \in v.clauses
                           \/ e2.truth # 0 /\ e2.truth \in c
                           \/ s[i].op = "or" /\ Defines(s, e2, i, c)
NewRole(s, e, v, e2, v2, i, r) ==
  /\ e2.truth # 0 /\ e2.truth # e.truth => e2.truth \in v.count + 1 .. v2.count /\ r = Role("truth", 0)
  /\ \A b \in DOMAIN e2.atoms :
       b \notin DOMAIN e.atoms => e2.atoms[b] \in v.count + 1 .. v2.count /\ r = Role("atom", b)
  /\ s[i].op = "or" => e2.terms[i] \in v.count + 1 .. v2.count /\ r = Role("or", i)

\* The caches stay coherent when a term gets a literal.
LEMMA CoherentGrows ==
  ASSUME NEW s, StoreOK(s), NEW e \in Encoders, NEW e2 \in Encoders, NEW v \in Solvers,
         NEW v2 \in Solvers, NEW f, Coherent(s, e, v, f), Keeps(e, v, e2, v2),
         NEW i \in 1 .. Len(s), i \notin DOMAIN e.terms, Adds(s, e, v, e2, v2, i),
         NEW r, NewRole(s, e, v, e2, v2, i, r)
  PROVE  Coherent(s, e2, v2, f)
<1>1. PICK role : Coloured(s, e, v, f, role) /\ \A c \in v.clauses : ClauseOK(s, e, v, f, role, c)
  BY DEF Coherent
<1>2. EncoderOK(s, e, v) /\ EntriesOK(e, v, f)
  BY DEF Coherent
<1>3. v.count \in Nat /\ v2.count \in Nat /\ v.count <= v2.count /\ v2.selectors = v.selectors
  BY DEF Solvers, Keeps
<1> DEFINE role2 == [x \in 1 .. v2.count |-> IF x \in 1 .. v.count THEN role[x] ELSE r]
<1>4. /\ \A x \in 1 .. v.count : x \in 1 .. v2.count /\ role2[x] = role[x]
      /\ \A x \in v.count + 1 .. v2.count : x \in 1 .. v2.count /\ role2[x] = r
  BY <1>3
<1> HIDE DEF role2
<1>5. EncoderOK(s, e2, v2)
  <2>1. DOMAIN e2.terms \subseteq 1 .. Len(s)
    BY <1>2 DEF EncoderOK, Adds
  <2>2. ASSUME NEW j \in DOMAIN e2.terms PROVE LiteralOK(s, e2, v2, j)
    <3>1. CASE j = i
      BY <3>1 DEF Adds
    <3>2. CASE j # i
      <4>1. j \in DOMAIN e.terms /\ j \in 1 .. Len(s) /\ LiteralOK(s, e, v, j)
        BY <1>2, <2>2, <3>2 DEF Adds, EncoderOK
      <4> QED
        BY <4>1, KeptLiteral
    <3> QED
      BY <3>1, <3>2
  <2>3. e2.truth # 0 => {e2.truth} \in v2.clauses
    BY DEF Adds
  <2> QED
    BY <2>1, <2>2, <2>3 DEF EncoderOK
<1>6. EntriesOK(e2, v2, f)
  <2> SUFFICES ASSUME NEW k \in DOMAIN f, NEW a \in f[k].asserted
               PROVE  a.term \in DOMAIN e2.terms /\ \E c \in v2.clauses : InForce(e2, v2, f, k, a, c)
    BY DEF EntriesOK
  <2>1. a.term \in DOMAIN e.terms
    BY <1>2 DEF EntriesOK
  <2>2. PICK c \in v.clauses : InForce(e, v, f, k, a, c)
    BY <1>2 DEF EntriesOK
  <2>3. a.term \in DOMAIN e2.terms /\ e2.terms[a.term] = e.terms[a.term] /\ c \in v2.clauses
    BY <2>1, <2>2 DEF Keeps
  <2>4. InForce(e2, v2, f, k, a, c)
    BY <1>3, <2>2, <2>3 DEF InForce
  <2> QED
    BY <2>3, <2>4
<1>7. Coloured(s, e2, v2, f, role2)
  <2>1. e2.truth # 0 => e2.truth \in 1 .. v2.count /\ role2[e2.truth] = Role("truth", 0)
    <3>1. CASE e2.truth = e.truth
      BY <1>1, <1>4, <3>1 DEF Coloured
    <3>2. CASE e2.truth # e.truth
      BY <1>4, <3>2 DEF NewRole
    <3> QED
      BY <3>1, <3>2
  <2>2. ASSUME NEW a \in DOMAIN e2.atoms
        PROVE  e2.atoms[a] \in 1 .. v2.count /\ role2[e2.atoms[a]] = Role("atom", a)
    <3>1. CASE a \in DOMAIN e.atoms
      <4>1. e2.atoms[a] = e.atoms[a] /\ e.atoms[a] \in 1 .. v.count /\ role[e.atoms[a]] = Role("atom", a)
        BY <1>1, <3>1 DEF Keeps, Coloured
      <4> QED
        BY <1>4, <4>1
    <3>2. CASE a \notin DOMAIN e.atoms
      <4>1. e2.atoms[a] \in v.count + 1 .. v2.count /\ r = Role("atom", a)
        BY <2>2, <3>2 DEF NewRole
      <4> QED
        BY <1>4, <4>1
    <3> QED
      BY <3>1, <3>2
  <2>3. ASSUME NEW j \in DOMAIN e2.terms, s[j].op = "or"
        PROVE  e2.terms[j] \in 1 .. v2.count /\ role2[e2.terms[j]] = Role("or", j)
    <3>1. CASE j # i
      <4>1. j \in DOMAIN e.terms
        BY <2>3, <3>1 DEF Adds
      <4>2. e2.terms[j] = e.terms[j] /\ e.terms[j] \in 1 .. v.count /\ role[e.terms[j]] = Role("or", j)
        BY <1>1, <2>3, <4>1 DEF Keeps, Coloured
      <4> QED
        BY <1>4, <4>2
    <3>2. CASE j = i
      <4>1. e2.terms[i] \in v.count + 1 .. v2.count /\ r = Role("or", i)
        BY <2>3, <3>2 DEF NewRole
      <4> QED
        BY <1>4, <3>2, <4>1
    <3> QED
      BY <3>1, <3>2
  <2>4. \A k \in 1 .. Len(v2.selectors) :
          v2.selectors[k] \in 1 .. v2.count /\ role2[v2.selectors[k]] = Role("scope", k)
    BY <1>1, <1>3, <1>4 DEF Coloured
  <2>5. \A k \in DOMAIN f : \A n \in f[k].named :
          n.selector \in 1 .. v2.count /\ role2[n.selector] = Role("name", k)
    BY <1>1, <1>4 DEF Coloured
  <2> QED
    BY <2>1, <2>2, <2>3, <2>4, <2>5 DEF Coloured
<1>8. ASSUME NEW c \in v2.clauses PROVE ClauseOK(s, e2, v2, f, role2, c)
  <2>1. CASE e2.truth # 0 /\ e2.truth \in c
    BY <2>1 DEF ClauseOK
  <2>2. CASE s[i].op = "or" /\ Defines(s, e2, i, c)
    <3>1. i \in DOMAIN e2.terms
      BY DEF Adds
    <3> QED
      BY <2>2, <3>1 DEF ClauseOK
  <2>3. CASE c \in v.clauses
    <3>1. ClauseOK(s, e, v, f, role, c)
      BY <1>1, <2>3
    <3>2. CASE e.truth # 0 /\ e.truth \in c
      BY <3>2 DEF ClauseOK, Keeps
    <3>3. ASSUME NEW j \in DOMAIN e.terms, s[j].op = "or", Defines(s, e, j, c)
          PROVE  ClauseOK(s, e2, v2, f, role2, c)
      <4>1. j \in 1 .. Len(s) /\ LiteralOK(s, e, v, j)
        BY <1>2, <3>3 DEF EncoderOK
      <4>2. Defines(s, e2, j, c)
        BY <3>3, <4>1, KeptLiteral
      <4>3. j \in DOMAIN e2.terms
        BY <3>3 DEF Keeps
      <4> QED
        BY <3>3, <4>2, <4>3 DEF ClauseOK
    <3>4. ASSUME NEW x \in 1 .. v.count, -x \in c, role[x].kind = "dead"
          PROVE  ClauseOK(s, e2, v2, f, role2, c)
      <4>1. x \in 1 .. v2.count /\ role2[x].kind = "dead"
        BY <1>4, <3>4
      <4> QED
        BY <3>4, <4>1 DEF ClauseOK
    <3>5. ASSUME NEW k \in DOMAIN f, NEW a \in f[k].asserted,
                 e.terms[a.term] \in c, Selected(v, k, c), Labelling(f, k, a, c)
          PROVE  ClauseOK(s, e2, v2, f, role2, c)
      <4>1. e2.terms[a.term] = e.terms[a.term]
        BY <1>2 DEF EntriesOK, Keeps
      <4>2. Selected(v2, k, c)
        BY <1>3, <3>5 DEF Selected
      <4> QED
        BY <3>5, <4>1, <4>2 DEF ClauseOK
    <3> QED
      BY <3>1, <3>2, <3>3, <3>4, <3>5 DEF ClauseOK
  <2> QED
    BY <2>1, <2>2, <2>3 DEF Adds
<1> QED
  BY <1>5, <1>6, <1>7, <1>8 DEF Coherent

\* Encoding only adds, and keeps what is coherent so.
Grown(s, f, w, x) ==
  /\ x \in Works /\ (x.ok => w.ok) /\ Keeps(w.encoder, w.solver, x.encoder, x.solver)
  /\ Coherent(s, w.encoder, w.solver, f) => Coherent(s, x.encoder, x.solver, f)

\* Growth is reflexive and transitive.
LEMMA GrownFacts ==
  ASSUME NEW s, NEW f, NEW w \in Works, NEW x, NEW y
  PROVE  /\ Grown(s, f, w, w)
         /\ Grown(s, f, w, x) => x \in Works /\ (x.ok => w.ok)
         /\ Grown(s, f, w, x) /\ Grown(s, f, x, y) => Grown(s, f, w, y)
<1>1. w.solver.count \in Nat
  BY DEF Works, Solvers
<1>2. Grown(s, f, w, w)
  BY <1>1 DEF Grown, Keeps
<1>3. ASSUME Grown(s, f, w, x), Grown(s, f, x, y) PROVE Grown(s, f, w, y)
  <2>1. x.solver.count \in Nat /\ y.solver.count \in Nat
    BY <1>3 DEF Grown, Works, Solvers
  <2>2. Keeps(w.encoder, w.solver, y.encoder, y.solver)
    <3>1. Keeps(w.encoder, w.solver, x.encoder, x.solver) /\ Keeps(x.encoder, x.solver, y.encoder, y.solver)
      BY <1>3 DEF Grown
    <3> QED
      BY <1>1, <2>1, <3>1 DEF Keeps
  <2> QED
    BY <1>3, <2>2 DEF Grown
<1> QED
  BY <1>2, <1>3 DEF Grown

\* The truth variable is put in the encoder.
LEMMA TruthIsFacts ==
  ASSUME NEW w \in Works, NEW q \in Nat
  PROVE  LET r == TruthIs(w, q)
         IN  /\ r \in Works /\ r.ok = w.ok /\ r.solver = w.solver
             /\ r.encoder.truth = q /\ r.encoder.terms = w.encoder.terms
             /\ r.encoder.atoms = w.encoder.atoms
<1> DEFINE e == [w.encoder EXCEPT !.truth = q]
           r == TruthIs(w, q)
<1>1. w.encoder \in Encoders
  BY DEF Works
<1>2. r = [w EXCEPT !.encoder = e]
  BY DEF Works, TruthIs
<1>3. /\ e \in Encoders /\ e.truth = q /\ e.terms = w.encoder.terms /\ e.atoms = w.encoder.atoms
  BY <1>1 DEF Encoders
<1> HIDE DEF e, r
<1>4. r \in Works /\ r.ok = w.ok /\ r.solver = w.solver /\ r.encoder = e
  BY <1>2, <1>3 DEF Works
<1> QED
  BY <1>3, <1>4 DEF r

\* An atom is put in the encoder.
LEMMA AtomIsFacts ==
  ASSUME NEW w \in Works, NEW q \in Nat, NEW b \in Nat, b \notin DOMAIN w.encoder.atoms
  PROVE  LET r == AtomIs(w, b, q)
         IN  /\ r \in Works /\ r.ok = w.ok /\ r.solver = w.solver
             /\ r.encoder.truth = w.encoder.truth /\ r.encoder.terms = w.encoder.terms
             /\ \A a : a \in DOMAIN r.encoder.atoms <=> a \in DOMAIN w.encoder.atoms \/ a = b
             /\ r.encoder.atoms[b] = q
             /\ \A a \in DOMAIN w.encoder.atoms : r.encoder.atoms[a] = w.encoder.atoms[a]
<1> DEFINE f == w.encoder.atoms
<1>1. w.encoder \in Encoders /\ f \in Maps(Nat, Nat)
  BY DEF Works, Encoders
<1> HIDE DEF f
<1>2. /\ Put(f, b, q) \in Maps(Nat, Nat)
      /\ \A a : a \in DOMAIN Put(f, b, q) <=> a \in DOMAIN f \/ a = b
      /\ Put(f, b, q)[b] = q /\ \A a \in DOMAIN f : a # b => Put(f, b, q)[a] = f[a]
  <2> DEFINE N == Nat
  <2>1. f \in Maps(N, N) /\ b \in N /\ q \in N
    BY <1>1
  <2> HIDE DEF N
  <2>2. /\ Put(f, b, q) \in Maps(N, N)
        /\ \A a : a \in DOMAIN Put(f, b, q) <=> a \in DOMAIN f \/ a = b
        /\ Put(f, b, q)[b] = q /\ \A a \in DOMAIN f : a # b => Put(f, b, q)[a] = f[a]
    BY <2>1, PutFacts
  <2> QED
    BY <2>2 DEF N
<1> DEFINE D == Put(f, b, q)
           e == [w.encoder EXCEPT !.atoms = D]
           r == AtomIs(w, b, q)
<1>3. r = [w EXCEPT !.encoder = e]
  BY DEF Works, AtomIs, f
<1> HIDE DEF D
<1>4. /\ D \in Maps(Nat, Nat) /\ \A a : a \in DOMAIN D <=> a \in DOMAIN f \/ a = b
      /\ D[b] = q /\ \A a \in DOMAIN f : a # b => D[a] = f[a]
  BY <1>2 DEF D
<1>5. /\ e \in Encoders /\ e.truth = w.encoder.truth /\ e.terms = w.encoder.terms /\ e.atoms = D
  BY <1>1, <1>4 DEF Encoders
<1> HIDE DEF e, r
<1>6. r \in Works /\ r.ok = w.ok /\ r.solver = w.solver /\ r.encoder = e
  BY <1>3, <1>5 DEF Works
<1> QED
  BY <1>4, <1>5, <1>6 DEF r, f

\* The terms after TermIs, one by one.
LEMMA LiteralAdded ==
  ASSUME NEW w \in Works, w.ok, NEW i \in Nat, NEW l \in Int, i \notin DOMAIN w.encoder.terms
  PROVE  LET r == TermIs(w, i, l)
         IN  /\ r \in Works /\ r.ok /\ r.solver = w.solver
             /\ r.encoder.atoms = w.encoder.atoms /\ r.encoder.truth = w.encoder.truth
             /\ \A j : j \in DOMAIN r.encoder.terms <=> j \in DOMAIN w.encoder.terms \/ j = i
             /\ r.encoder.terms[i] = l
             /\ \A j \in DOMAIN w.encoder.terms : r.encoder.terms[j] = w.encoder.terms[j]
<1> DEFINE r == TermIs(w, i, l)
           f == w.encoder.terms
<1>1. /\ r \in Works /\ r.ok = w.ok /\ r.solver = w.solver
      /\ r.encoder.atoms = w.encoder.atoms /\ r.encoder.truth = w.encoder.truth
      /\ r.encoder.terms = Put(f, i, l)
  BY TermIsFacts
<1>2. f \in Maps(Nat, Int)
  BY DEF Works, Encoders
<1> HIDE DEF r, f
<1>3. /\ \A j : j \in DOMAIN Put(f, i, l) <=> j \in DOMAIN f \/ j = i
      /\ Put(f, i, l)[i] = l
      /\ \A j \in DOMAIN f : j # i => Put(f, i, l)[j] = f[j]
  BY <1>2, PutFacts
<1>4. /\ \A j : j \in DOMAIN r.encoder.terms <=> j \in DOMAIN f \/ j = i
      /\ r.encoder.terms[i] = l
      /\ \A j \in DOMAIN f : r.encoder.terms[j] = f[j]
  BY <1>1, <1>3 DEF f
<1> QED
  BY <1>1, <1>4 DEF r, f

\* From the parts to growth.
LEMMA GrownByTerm ==
  ASSUME NEW s, StoreOK(s), NEW f, NEW w \in Works, NEW x \in Works, x.ok => w.ok,
         NEW i \in 1 .. Len(s), i \notin DOMAIN w.encoder.terms,
         Keeps(w.encoder, w.solver, x.encoder, x.solver), NEW r,
         Coherent(s, w.encoder, w.solver, f) =>
           /\ Adds(s, w.encoder, w.solver, x.encoder, x.solver, i)
           /\ NewRole(s, w.encoder, w.solver, x.encoder, x.solver, i, r)
  PROVE  Grown(s, f, w, x)
<1>1. ASSUME Coherent(s, w.encoder, w.solver, f) PROVE Coherent(s, x.encoder, x.solver, f)
  <2>1. w.encoder \in Encoders /\ w.solver \in Solvers /\ x.encoder \in Encoders /\ x.solver \in Solvers
    BY DEF Works
  <2> QED
    BY <1>1, <2>1, CoherentGrows
<1> QED
  BY <1>1 DEF Grown

\* The constants have the literals of the truth variable.
LEMMA EncodeTruthFacts ==
  ASSUME NEW s, StoreOK(s), NEW f, NEW w \in Works, w.ok, NEW i \in 1 .. Len(s),
         i \notin DOMAIN w.encoder.terms, NEW sign \in {1, -1},
         sign = 1 => s[i].op = "true", sign = -1 => s[i].op = "false"
  PROVE  LET x == EncodeTruth(w, i, sign)
         IN  Grown(s, f, w, x) /\ (x.ok => i \in DOMAIN x.encoder.terms)
<1> DEFINE x == EncodeTruth(w, i, sign)
           q == w.encoder.truth
<1>1. i \in Nat /\ q \in Nat /\ w.solver.count \in Nat /\ w.solver.clauses \in Clauses
  BY StoreFacts DEF Works, Encoders, Solvers
<1>2. CASE q # 0
  <2> DEFINE l == sign * q
  <2>1. l \in Int /\ l # 0 /\ (sign = 1 => l = q) /\ (sign = -1 => l = -q)
    BY <1>1, <1>2
  <2>2. x = TermIs(w, i, l)
    BY <1>2 DEF EncodeTruth
  <2> HIDE DEF l, x
  <2>3. /\ x \in Works /\ x.ok /\ x.solver = w.solver
        /\ x.encoder.atoms = w.encoder.atoms /\ x.encoder.truth = q
        /\ \A j : j \in DOMAIN x.encoder.terms <=> j \in DOMAIN w.encoder.terms \/ j = i
        /\ x.encoder.terms[i] = l
        /\ \A j \in DOMAIN w.encoder.terms : x.encoder.terms[j] = w.encoder.terms[j]
    BY <1>1, <2>1, <2>2, LiteralAdded
  <2>4. Keeps(w.encoder, w.solver, x.encoder, x.solver)
    BY <1>1, <2>3 DEF Keeps
  <2>5. LiteralOK(s, x.encoder, x.solver, i)
    BY <1>2, <2>1, <2>3 DEF LiteralOK
  <2>6. ASSUME Coherent(s, w.encoder, w.solver, f)
        PROVE  /\ Adds(s, w.encoder, w.solver, x.encoder, x.solver, i)
               /\ NewRole(s, w.encoder, w.solver, x.encoder, x.solver, i, Role("truth", 0))
    <3>1. {q} \in w.solver.clauses
      BY <1>2, <2>6 DEF Coherent, EncoderOK
    <3>2. Adds(s, w.encoder, w.solver, x.encoder, x.solver, i)
      BY <2>3, <2>5, <3>1 DEF Adds
    <3>3. s[i].op # "or"
      OBVIOUS
    <3>4. NewRole(s, w.encoder, w.solver, x.encoder, x.solver, i, Role("truth", 0))
      BY <2>3, <3>3 DEF NewRole
    <3> QED
      BY <3>2, <3>4
  <2>7. Grown(s, f, w, x)
    BY <2>3, <2>4, <2>6, GrownByTerm
  <2> QED
    BY <2>3, <2>7 DEF x
<1>3. CASE q = 0
  <2> DEFINE v == NewVariable(w)
             t == TruthIs(Adding(v, {{v.new}}), v.new)
  <2>1. x = IF v.ok THEN TermIs(t, i, sign * v.new) ELSE v
    BY <1>3 DEF EncodeTruth
  <2>2. /\ v \in Works /\ v.encoder = w.encoder
        /\ v.solver.clauses = w.solver.clauses /\ v.solver.selectors = w.solver.selectors
        /\ v.ok => v.new = w.solver.count + 1 /\ v.solver.count = w.solver.count + 1
        /\ ~ v.ok => v.solver = w.solver
    BY NewVariableFacts
  <2>3. CASE ~ v.ok
    <3>1. x = v
      BY <2>1, <2>3
    <3> HIDE DEF v, x
    <3>2. Keeps(w.encoder, w.solver, x.encoder, x.solver)
      BY <1>1, <2>2, <2>3, <3>1 DEF Keeps
    <3>3. Coherent(s, w.encoder, w.solver, f) => Coherent(s, x.encoder, x.solver, f)
      BY <2>2, <2>3, <3>1
    <3>4. Grown(s, f, w, x)
      BY <2>2, <3>1, <3>2, <3>3 DEF Grown
    <3> QED
      BY <2>3, <3>1, <3>4 DEF x
  <2>4. CASE v.ok
    <3> DEFINE n == v.new
               d == Adding(v, {{n}})
               l == sign * n
    <3>1. n \in Nat /\ n = w.solver.count + 1 /\ n # 0 /\ {{n}} \in Clauses
      BY <1>1, <2>2, <2>4 DEF Clauses
    <3>2. l \in Int /\ l # 0 /\ (sign = 1 => l = n) /\ (sign = -1 => l = -n)
      BY <3>1
    <3>3. x = TermIs(t, i, l)
      BY <2>1, <2>4
    <3> HIDE DEF v, n
    <3>4. /\ d \in Works /\ d.ok /\ d.encoder = w.encoder
          /\ d.solver.count = w.solver.count + 1 /\ d.solver.selectors = w.solver.selectors
          /\ \A c : c \in d.solver.clauses <=> c \in w.solver.clauses \/ c = {n}
      <4> DEFINE C == {{n}}
      <4>1. \A c : c \in C <=> c = {n}
        OBVIOUS
      <4>2. C \in Clauses /\ v \in Works /\ v.ok
        BY <2>2, <2>4, <3>1
      <4> HIDE DEF C
      <4>3. LET r == Adding(v, C)
            IN  /\ r \in Works /\ r.ok = v.ok /\ r.encoder = v.encoder
                /\ r.solver.count = v.solver.count /\ r.solver.selectors = v.solver.selectors
                /\ \A c : c \in r.solver.clauses <=> c \in v.solver.clauses \/ c \in C
        BY <4>2, AddingFacts
      <4>4. d = Adding(v, C)
        BY DEF C
      <4> HIDE DEF d
      <4> QED
        BY <2>2, <2>4, <4>1, <4>2, <4>3, <4>4
    <3>5. t = TruthIs(d, n)
      BY DEF n
    <3> HIDE DEF d, t, l, x
    <3>6. /\ t \in Works /\ t.ok /\ t.solver = d.solver
          /\ t.encoder.truth = n /\ t.encoder.terms = w.encoder.terms
          /\ t.encoder.atoms = w.encoder.atoms
      <4>1. LET r == TruthIs(d, n)
            IN  /\ r \in Works /\ r.ok = d.ok /\ r.solver = d.solver
                /\ r.encoder.truth = n /\ r.encoder.terms = d.encoder.terms
                /\ r.encoder.atoms = d.encoder.atoms
        BY <3>1, <3>4, TruthIsFacts
      <4> QED
        BY <3>4, <3>5, <4>1
    <3>7. /\ x \in Works /\ x.ok /\ x.solver = d.solver
          /\ x.encoder.atoms = w.encoder.atoms /\ x.encoder.truth = n
          /\ \A j : j \in DOMAIN x.encoder.terms <=> j \in DOMAIN w.encoder.terms \/ j = i
          /\ x.encoder.terms[i] = l
          /\ \A j \in DOMAIN w.encoder.terms : x.encoder.terms[j] = w.encoder.terms[j]
      <4>1. i \notin DOMAIN t.encoder.terms
        BY <3>6
      <4>2. /\ x \in Works /\ x.ok /\ x.solver = t.solver
            /\ x.encoder.atoms = t.encoder.atoms /\ x.encoder.truth = t.encoder.truth
            /\ \A j : j \in DOMAIN x.encoder.terms <=> j \in DOMAIN t.encoder.terms \/ j = i
            /\ x.encoder.terms[i] = l
            /\ \A j \in DOMAIN t.encoder.terms : x.encoder.terms[j] = t.encoder.terms[j]
        BY <1>1, <3>2, <3>3, <3>6, <4>1, LiteralAdded
      <4> QED
        BY <3>6, <4>2
    <3>8. Keeps(w.encoder, w.solver, x.encoder, x.solver)
      BY <1>1, <1>3, <3>4, <3>7 DEF Keeps
    <3>9. LiteralOK(s, x.encoder, x.solver, i)
      BY <3>1, <3>2, <3>7 DEF LiteralOK
    <3>10. Adds(s, w.encoder, w.solver, x.encoder, x.solver, i)
      BY <3>1, <3>4, <3>7, <3>9 DEF Adds
    <3>11. NewRole(s, w.encoder, w.solver, x.encoder, x.solver, i, Role("truth", 0))
      <4>1. s[i].op # "or"
        OBVIOUS
      <4> QED
        BY <1>1, <3>1, <3>4, <3>7, <4>1 DEF NewRole
    <3>12. Grown(s, f, w, x)
      BY <3>7, <3>8, <3>10, <3>11, GrownByTerm
    <3> QED
      BY <3>7, <3>12 DEF x
  <2> QED
    BY <2>3, <2>4
<1> QED
  BY <1>2, <1>3

\* A refused variable changes nothing.
LEMMA SameGrows ==
  ASSUME NEW s, NEW f, NEW w \in Works, NEW x \in Works, x.ok => w.ok,
         x.encoder = w.encoder, x.solver = w.solver
  PROVE  Grown(s, f, w, x)
<1>1. w.solver.count \in Nat
  BY DEF Works, Solvers
<1> QED
  BY <1>1 DEF Grown, Keeps

\* An atom has the literal of its symbol.
LEMMA EncodeAtomFacts ==
  ASSUME NEW s, StoreOK(s), NEW f, NEW w \in Works, w.ok, NEW i \in 1 .. Len(s),
         i \notin DOMAIN w.encoder.terms, s[i].op = "atom"
  PROVE  LET x == EncodeAtom(w, i, s[i].symbol)
         IN  Grown(s, f, w, x) /\ (x.ok => i \in DOMAIN x.encoder.terms)
<1> DEFINE b == s[i].symbol
           x == EncodeAtom(w, i, b)
           at == w.encoder.atoms
<1>1. /\ i \in Nat /\ b \in Nat /\ w.solver.count \in Nat /\ at \in Maps(Nat, Nat)
      /\ w.solver.clauses \in Clauses
  BY StoreFacts DEF Works, Encoders, Solvers
<1> HIDE DEF b, at
<1>2. CASE b \in DOMAIN at
  <2> DEFINE l == at[b]
  <2>1. l \in Int
    BY <1>1, <1>2, MapsFacts
  <2>2. x = TermIs(w, i, l)
    BY <1>2 DEF EncodeAtom, at
  <2> HIDE DEF l, x
  <2>3. /\ x \in Works /\ x.ok /\ x.solver = w.solver
        /\ x.encoder.atoms = at /\ x.encoder.truth = w.encoder.truth
        /\ \A j : j \in DOMAIN x.encoder.terms <=> j \in DOMAIN w.encoder.terms \/ j = i
        /\ x.encoder.terms[i] = l
        /\ \A j \in DOMAIN w.encoder.terms : x.encoder.terms[j] = w.encoder.terms[j]
    BY <1>1, <2>1, <2>2, LiteralAdded DEF at
  <2>4. Keeps(w.encoder, w.solver, x.encoder, x.solver)
    BY <1>1, <2>3 DEF Keeps, at
  <2>5. ASSUME Coherent(s, w.encoder, w.solver, f)
        PROVE  /\ Adds(s, w.encoder, w.solver, x.encoder, x.solver, i)
               /\ NewRole(s, w.encoder, w.solver, x.encoder, x.solver, i, Role("atom", b))
    <3>1. l # 0
      <4>1. \E role : Coloured(s, w.encoder, w.solver, f, role)
        BY <2>5 DEF Coherent
      <4>2. at[b] \in 1 .. w.solver.count
        BY <1>2, <4>1 DEF Coloured, at
      <4> QED
        BY <4>2 DEF l
    <3>2. LiteralOK(s, x.encoder, x.solver, i)
      BY <1>2, <2>3, <3>1 DEF LiteralOK, b, l
    <3>3. w.encoder.truth # 0 => {w.encoder.truth} \in w.solver.clauses
      BY <2>5 DEF Coherent, EncoderOK
    <3>4. Adds(s, w.encoder, w.solver, x.encoder, x.solver, i)
      BY <2>3, <3>2, <3>3 DEF Adds
    <3>5. NewRole(s, w.encoder, w.solver, x.encoder, x.solver, i, Role("atom", b))
      BY <2>3 DEF NewRole, at
    <3> QED
      BY <3>4, <3>5
  <2>6. Grown(s, f, w, x)
    BY <2>3, <2>4, <2>5, GrownByTerm
  <2> QED
    BY <2>3, <2>6 DEF x, b
<1>3. CASE b \notin DOMAIN at
  <2> DEFINE v == NewVariable(w)
  <2>1. x = IF v.ok THEN TermIs(AtomIs(v, b, v.new), i, v.new) ELSE v
    BY <1>3 DEF EncodeAtom, at
  <2>2. /\ v \in Works /\ v.encoder = w.encoder
        /\ v.solver.clauses = w.solver.clauses /\ v.solver.selectors = w.solver.selectors
        /\ v.ok => v.new = w.solver.count + 1 /\ v.solver.count = w.solver.count + 1
        /\ ~ v.ok => v.solver = w.solver
    BY NewVariableFacts
  <2> HIDE DEF v
  <2>3. CASE ~ v.ok
    <3>1. x = v
      BY <2>1, <2>3
    <3> HIDE DEF x
    <3>2. Grown(s, f, w, x)
      BY <2>2, <2>3, <3>1, SameGrows
    <3> QED
      BY <2>3, <3>1, <3>2 DEF x, b
  <2>4. CASE v.ok
    <3> DEFINE n == v.new
               t == AtomIs(v, b, n)
    <3>1. n \in Nat /\ n \in Int /\ n = w.solver.count + 1 /\ n # 0
      BY <1>1, <2>2, <2>4
    <3>2. x = TermIs(t, i, n)
      BY <2>1, <2>4
    <3> HIDE DEF n, x
    <3>3. /\ t \in Works /\ t.ok /\ t.solver = v.solver
          /\ t.encoder.truth = w.encoder.truth /\ t.encoder.terms = w.encoder.terms
          /\ \A a : a \in DOMAIN t.encoder.atoms <=> a \in DOMAIN at \/ a = b
          /\ t.encoder.atoms[b] = n
          /\ \A a \in DOMAIN at : t.encoder.atoms[a] = at[a]
      <4>1. b \notin DOMAIN v.encoder.atoms
        BY <1>3, <2>2 DEF at
      <4>2. LET r == AtomIs(v, b, n)
            IN  /\ r \in Works /\ r.ok = v.ok /\ r.solver = v.solver
                /\ r.encoder.truth = v.encoder.truth /\ r.encoder.terms = v.encoder.terms
                /\ \A a : a \in DOMAIN r.encoder.atoms <=> a \in DOMAIN v.encoder.atoms \/ a = b
                /\ r.encoder.atoms[b] = n
                /\ \A a \in DOMAIN v.encoder.atoms : r.encoder.atoms[a] = v.encoder.atoms[a]
        <5>1. v \in Works /\ b \in Nat /\ n \in Nat
          BY <1>1, <2>2, <3>1
        <5> QED
          BY <4>1, <5>1, AtomIsFacts
      <4> HIDE DEF t
      <4>3. t = AtomIs(v, b, n)
        BY DEF t
      <4> QED
        BY <2>2, <2>4, <4>2, <4>3 DEF at
    <3> HIDE DEF t
    <3>4. /\ x \in Works /\ x.ok /\ x.solver = v.solver
          /\ x.encoder.atoms = t.encoder.atoms /\ x.encoder.truth = w.encoder.truth
          /\ \A j : j \in DOMAIN x.encoder.terms <=> j \in DOMAIN w.encoder.terms \/ j = i
          /\ x.encoder.terms[i] = n
          /\ \A j \in DOMAIN w.encoder.terms : x.encoder.terms[j] = w.encoder.terms[j]
      <4>1. i \notin DOMAIN t.encoder.terms
        BY <3>3
      <4>2. /\ x \in Works /\ x.ok /\ x.solver = t.solver
            /\ x.encoder.atoms = t.encoder.atoms /\ x.encoder.truth = t.encoder.truth
            /\ \A j : j \in DOMAIN x.encoder.terms <=> j \in DOMAIN t.encoder.terms \/ j = i
            /\ x.encoder.terms[i] = n
            /\ \A j \in DOMAIN t.encoder.terms : x.encoder.terms[j] = t.encoder.terms[j]
        <5>1. i \in Nat /\ n \in Int /\ t \in Works /\ t.ok
          BY <1>1, <3>1, <3>3
        <5> QED
          BY <3>2, <4>1, <5>1, LiteralAdded
      <4> QED
        BY <3>3, <4>2
    <3>5. Keeps(w.encoder, w.solver, x.encoder, x.solver)
      <4>1. \A a \in DOMAIN w.encoder.atoms : a \in DOMAIN x.encoder.atoms /\ x.encoder.atoms[a] = w.encoder.atoms[a]
        BY <3>3, <3>4 DEF at
      <4>2. /\ x.solver.selectors = w.solver.selectors /\ x.solver.clauses = w.solver.clauses
            /\ w.solver.count <= x.solver.count
        BY <1>1, <2>2, <2>4, <3>4
      <4> QED
        BY <3>4, <4>1, <4>2 DEF Keeps
    <3>6. LiteralOK(s, x.encoder, x.solver, i)
      BY <3>1, <3>3, <3>4 DEF LiteralOK, b
    <3>7. ASSUME Coherent(s, w.encoder, w.solver, f)
          PROVE  /\ Adds(s, w.encoder, w.solver, x.encoder, x.solver, i)
                 /\ NewRole(s, w.encoder, w.solver, x.encoder, x.solver, i, Role("atom", b))
      <4>1. w.encoder.truth # 0 => {w.encoder.truth} \in w.solver.clauses
        BY <3>7 DEF Coherent, EncoderOK
      <4>2. Adds(s, w.encoder, w.solver, x.encoder, x.solver, i)
        BY <2>2, <3>4, <3>6, <4>1 DEF Adds
      <4>3. x.solver.count = w.solver.count + 1
        BY <2>2, <2>4, <3>4
      <4>4. n \in w.solver.count + 1 .. x.solver.count
        BY <1>1, <3>1, <4>3
      <4>5. NewRole(s, w.encoder, w.solver, x.encoder, x.solver, i, Role("atom", b))
        BY <3>3, <3>4, <4>4 DEF NewRole, at
      <4> QED
        BY <4>2, <4>5
    <3>8. Grown(s, f, w, x)
      BY <3>4, <3>5, <3>7, GrownByTerm
    <3> QED
      BY <3>4, <3>8 DEF x, b
  <2> QED
    BY <2>3, <2>4
<1> QED
  BY <1>2, <1>3

\* A complement has the negated literal.
LEMMA EncodeNotFacts ==
  ASSUME NEW s, StoreOK(s), NEW f, NEW w \in Works, w.ok, NEW i \in 1 .. Len(s),
         i \notin DOMAIN w.encoder.terms, s[i].op = "not", s[i].arg \in DOMAIN w.encoder.terms
  PROVE  LET x == TermIs(w, i, -w.encoder.terms[s[i].arg])
         IN  Grown(s, f, w, x) /\ (x.ok => i \in DOMAIN x.encoder.terms)
<1> DEFINE d == s[i].arg
           l == -w.encoder.terms[d]
           x == TermIs(w, i, l)
<1>1. i \in Nat /\ w.solver.count \in Nat /\ w.encoder.terms \in Maps(Nat, Int)
  BY StoreFacts DEF Works, Encoders, Solvers
<1>2. w.encoder.terms[d] \in Int /\ l \in Int /\ d # i
  <2>1. w.encoder.terms[d] \in Int
    BY <1>1, MapsFacts
  <2> QED
    BY <2>1
<1>3. l = -w.encoder.terms[d]
  OBVIOUS
<1> HIDE DEF l, d
<1>4. /\ x \in Works /\ x.ok /\ x.solver = w.solver
      /\ x.encoder.atoms = w.encoder.atoms /\ x.encoder.truth = w.encoder.truth
      /\ \A j : j \in DOMAIN x.encoder.terms <=> j \in DOMAIN w.encoder.terms \/ j = i
      /\ x.encoder.terms[i] = l
      /\ \A j \in DOMAIN w.encoder.terms : x.encoder.terms[j] = w.encoder.terms[j]
  BY <1>1, <1>2, LiteralAdded
<1> HIDE DEF x
<1>5. Keeps(w.encoder, w.solver, x.encoder, x.solver)
  BY <1>1, <1>4 DEF Keeps
<1>6. d \in DOMAIN w.encoder.terms
  BY DEF d
<1>7. ASSUME Coherent(s, w.encoder, w.solver, f)
      PROVE  /\ Adds(s, w.encoder, w.solver, x.encoder, x.solver, i)
             /\ NewRole(s, w.encoder, w.solver, x.encoder, x.solver, i, Role("not", i))
  <2>1. /\ w.encoder.truth # 0 => {w.encoder.truth} \in w.solver.clauses
        /\ w.encoder.terms[d] # 0
    BY <1>6, <1>7 DEF Coherent, EncoderOK, LiteralOK
  <2>2. l # 0
    BY <1>2, <1>3, <2>1
  <2>3. LiteralOK(s, x.encoder, x.solver, i)
    BY <1>3, <1>4, <1>6, <2>2 DEF LiteralOK, d
  <2>4. Adds(s, w.encoder, w.solver, x.encoder, x.solver, i)
    BY <1>4, <2>1, <2>3 DEF Adds
  <2>5. NewRole(s, w.encoder, w.solver, x.encoder, x.solver, i, Role("not", i))
    BY <1>4 DEF NewRole
  <2> QED
    BY <2>4, <2>5
<1>8. Grown(s, f, w, x)
  BY <1>4, <1>5, <1>7, GrownByTerm
<1> QED
  BY <1>4, <1>8 DEF x, l, d

\* A disjunction has a variable of its own, which its clauses define.
LEMMA EncodeOrFacts ==
  ASSUME NEW s, StoreOK(s), NEW f, NEW w \in Works, w.ok, NEW i \in 1 .. Len(s),
         i \notin DOMAIN w.encoder.terms, s[i].op = "or", s[i].args \subseteq DOMAIN w.encoder.terms
  PROVE  LET x == EncodeOr(w, i, {w.encoder.terms[t] : t \in s[i].args})
         IN  Grown(s, f, w, x) /\ (x.ok => i \in DOMAIN x.encoder.terms)
<1> DEFINE A == s[i].args
           at == w.encoder.terms
           L == {at[d] : d \in A}
           o == NewVariable(w)
           n == o.new
           C == {{-l, n} : l \in L} \cup {{-n} \cup L}
           t == Adding(o, C)
           x == EncodeOr(w, i, L)
<1>1. i \in Nat /\ w.solver.count \in Nat /\ at \in Maps(Nat, Int) /\ A \subseteq 1 .. i - 1
  BY StoreFacts DEF Works, Encoders, Solvers
<1>2. A \subseteq DOMAIN at /\ i \notin A
  BY <1>1
<1>3. L \subseteq Int
  <2>1. \A d \in DOMAIN at : at[d] \in Int
    BY <1>1, MapsFacts
  <2> HIDE DEF at, A
  <2> QED
    BY <1>2, <2>1
<1>4. x = TermIs(t, i, n)
  BY DEF EncodeOr
<1>5. /\ o \in Works /\ o.encoder = w.encoder
      /\ o.solver.clauses = w.solver.clauses /\ o.solver.selectors = w.solver.selectors
      /\ o.ok => n = w.solver.count + 1 /\ o.solver.count = w.solver.count + 1
      /\ ~ o.ok => o.solver = w.solver
  BY NewVariableFacts
<1>6. \A c : c \in C <=> (\E d \in A : c = {-at[d], n}) \/ c = {-n} \cup L
  OBVIOUS
<1> HIDE DEF o
<1>7. CASE ~ o.ok
  <2>1. x = o
    BY <1>4, <1>7 DEF Adding, TermIs
  <2> HIDE DEF x
  <2>2. Grown(s, f, w, x)
    BY <1>5, <1>7, <2>1, SameGrows
  <2> QED
    BY <1>7, <2>1, <2>2 DEF x
<1>8. CASE o.ok
  <2>1. n \in Nat /\ n \in Int /\ n # 0 /\ n = w.solver.count + 1 /\ -n \in Int
    BY <1>1, <1>5, <1>8
  <2> HIDE DEF n, L, x, at, A
  <2>2. C \in Clauses
    <3>1. \A l \in L : {-l, n} \subseteq Int
      BY <1>3, <2>1
    <3>2. {-n} \cup L \subseteq Int
      BY <1>3, <2>1
    <3> QED
      BY <3>1, <3>2 DEF Clauses
  <2> HIDE DEF C
  <2>3. /\ t \in Works /\ t.ok /\ t.encoder = w.encoder
        /\ t.solver.count = w.solver.count + 1 /\ t.solver.selectors = w.solver.selectors
        /\ \A c : c \in t.solver.clauses <=> c \in w.solver.clauses \/ c \in C
    <3>1. /\ t \in Works /\ t.ok = o.ok /\ t.encoder = o.encoder
          /\ t.solver.count = o.solver.count /\ t.solver.selectors = o.solver.selectors
          /\ \A c : c \in t.solver.clauses <=> c \in o.solver.clauses \/ c \in C
      BY <1>5, <1>8, <2>2, AddingFacts
    <3> HIDE DEF t
    <3> QED
      BY <1>5, <1>8, <3>1
  <2> HIDE DEF t
  <2>4. /\ x \in Works /\ x.ok /\ x.solver = t.solver
        /\ x.encoder.atoms = w.encoder.atoms /\ x.encoder.truth = w.encoder.truth
        /\ \A j : j \in DOMAIN x.encoder.terms <=> j \in DOMAIN at \/ j = i
        /\ x.encoder.terms[i] = n
        /\ \A j \in DOMAIN at : x.encoder.terms[j] = at[j]
    <3>1. i \notin DOMAIN t.encoder.terms
      BY <2>3
    <3>2. /\ x \in Works /\ x.ok /\ x.solver = t.solver
          /\ x.encoder.atoms = t.encoder.atoms /\ x.encoder.truth = t.encoder.truth
          /\ \A j : j \in DOMAIN x.encoder.terms <=> j \in DOMAIN t.encoder.terms \/ j = i
          /\ x.encoder.terms[i] = n
          /\ \A j \in DOMAIN t.encoder.terms : x.encoder.terms[j] = t.encoder.terms[j]
      <4>1. i \in Nat /\ n \in Int /\ t \in Works /\ t.ok
        BY <1>1, <2>1, <2>3
      <4> QED
        BY <1>4, <3>1, <4>1, LiteralAdded
    <3> QED
      BY <2>3, <3>2 DEF at
  <2>5. Keeps(w.encoder, w.solver, x.encoder, x.solver)
    <3>1. w.solver.count <= x.solver.count
      BY <1>1, <2>3, <2>4
    <3>2. \A j \in DOMAIN w.encoder.terms : j \in DOMAIN x.encoder.terms /\ x.encoder.terms[j] = w.encoder.terms[j]
      BY <2>4 DEF at
    <3>3. w.solver.clauses \subseteq x.solver.clauses /\ x.solver.selectors = w.solver.selectors
      BY <2>3, <2>4
    <3> QED
      BY <2>4, <3>1, <3>2, <3>3 DEF Keeps
  <2>6. \A c : Defines(s, x.encoder, i, c) <=> c \in C
    <3>1. \A d \in A : x.encoder.terms[d] = at[d]
      BY <1>2, <2>4
    <3>2. {x.encoder.terms[d] : d \in A} = L
      BY <3>1 DEF L
    <3>3. \A c : Defines(s, x.encoder, i, c) <=> (\E d \in A : c = {-at[d], n}) \/ c = {-n} \cup L
      BY <2>4, <3>1, <3>2 DEF Defines, A
    <3> QED
      BY <1>6, <3>3
  <2>7. LiteralOK(s, x.encoder, x.solver, i)
    <3>1. s[i].args \subseteq DOMAIN x.encoder.terms
      BY <1>2, <2>4 DEF A
    <3>2. \A c : Defines(s, x.encoder, i, c) => c \in x.solver.clauses
      BY <2>3, <2>4, <2>6
    <3> QED
      BY <2>1, <2>4, <3>1, <3>2 DEF LiteralOK
  <2>8. ASSUME Coherent(s, w.encoder, w.solver, f)
        PROVE  /\ Adds(s, w.encoder, w.solver, x.encoder, x.solver, i)
               /\ NewRole(s, w.encoder, w.solver, x.encoder, x.solver, i, Role("or", i))
    <3>1. w.encoder.truth # 0 => {w.encoder.truth} \in w.solver.clauses
      BY <2>8 DEF Coherent, EncoderOK
    <3>2. Adds(s, w.encoder, w.solver, x.encoder, x.solver, i)
      <4>1. \A j : j \in DOMAIN x.encoder.terms <=> j \in DOMAIN w.encoder.terms \/ j = i
        BY <2>4 DEF at
      <4>2. x.encoder.truth # 0 => {x.encoder.truth} \in x.solver.clauses
        BY <2>3, <2>4, <3>1
      <4>3. \A c \in x.solver.clauses : c \in w.solver.clauses \/ Defines(s, x.encoder, i, c)
        BY <2>3, <2>4, <2>6
      <4> QED
        BY <2>7, <4>1, <4>2, <4>3 DEF Adds
    <3>3. n \in w.solver.count + 1 .. x.solver.count
      <4>1. x.solver.count = w.solver.count + 1
        BY <2>3, <2>4
      <4> QED
        BY <1>1, <2>1, <4>1
    <3>4. NewRole(s, w.encoder, w.solver, x.encoder, x.solver, i, Role("or", i))
      BY <2>4, <3>3 DEF NewRole
    <3> QED
      BY <3>2, <3>4
  <2>9. Grown(s, f, w, x)
    <3>1. x \in Works /\ w.ok
      BY <2>4
    <3>2. i \notin DOMAIN w.encoder.terms
      OBVIOUS
    <3> QED
      BY <2>5, <2>8, <3>1, <3>2, GrownByTerm
  <2> QED
    BY <2>4, <2>9 DEF x, L, at, A
<1> QED
  BY <1>7, <1>8

\* A node whose children have literals gets one, or the work is refused.
LEMMA EncodeNodeFacts ==
  ASSUME NEW s, StoreOK(s), NEW f, NEW w \in Works, NEW i \in 1 .. Len(s),
         w.ok => Arguments(s[i]) \subseteq DOMAIN w.encoder.terms
  PROVE  LET x == EncodeNode(s, w, i)
         IN  Grown(s, f, w, x) /\ (x.ok => i \in DOMAIN x.encoder.terms)
<1> DEFINE x == EncodeNode(s, w, i)
<1>1. CASE ~ w.ok \/ i \in DOMAIN w.encoder.terms
  <2>1. x = w
    BY <1>1 DEF EncodeNode
  <2> HIDE DEF x
  <2>2. Grown(s, f, w, x)
    BY <2>1, GrownFacts
  <2> QED
    BY <1>1, <2>1, <2>2 DEF x
<1>2. CASE w.ok /\ i \notin DOMAIN w.encoder.terms
  <2>1. s[i].op \in {"true", "false", "atom", "not", "or"}
    BY StoreFacts
  <2>2. CASE s[i].op = "true"
    <3>1. x = EncodeTruth(w, i, 1)
      BY <1>2, <2>2 DEF EncodeNode
    <3> HIDE DEF x
    <3> DEFINE sign == 1
    <3>2. sign \in {1, -1} /\ (sign = 1 => s[i].op = "true") /\ (sign = -1 => s[i].op = "false")
      BY <2>2
    <3>3. x = EncodeTruth(w, i, sign)
      BY <3>1
    <3> HIDE DEF sign
    <3>4. Grown(s, f, w, x) /\ (x.ok => i \in DOMAIN x.encoder.terms)
      BY <1>2, <3>2, <3>3, EncodeTruthFacts
    <3> QED
      BY <3>4 DEF x
  <2>3. CASE s[i].op = "false"
    <3>1. x = EncodeTruth(w, i, -1)
      BY <1>2, <2>3 DEF EncodeNode
    <3> HIDE DEF x
    <3> DEFINE sign == -1
    <3>2. sign \in {1, -1} /\ (sign = 1 => s[i].op = "true") /\ (sign = -1 => s[i].op = "false")
      BY <2>3
    <3>3. x = EncodeTruth(w, i, sign)
      BY <3>1
    <3> HIDE DEF sign
    <3>4. Grown(s, f, w, x) /\ (x.ok => i \in DOMAIN x.encoder.terms)
      BY <1>2, <3>2, <3>3, EncodeTruthFacts
    <3> QED
      BY <3>4 DEF x
  <2>4. CASE s[i].op = "atom"
    <3>1. x = EncodeAtom(w, i, s[i].symbol)
      BY <1>2, <2>4 DEF EncodeNode
    <3> HIDE DEF x
    <3>2. Grown(s, f, w, x) /\ (x.ok => i \in DOMAIN x.encoder.terms)
      BY <1>2, <2>4, <3>1, EncodeAtomFacts
    <3> QED
      BY <3>2 DEF x
  <2>5. CASE s[i].op = "not"
    <3>1. x = TermIs(w, i, -w.encoder.terms[s[i].arg])
      BY <1>2, <2>5 DEF EncodeNode
    <3>2. s[i].arg \in DOMAIN w.encoder.terms
      BY <1>2, <2>5 DEF Arguments
    <3> HIDE DEF x
    <3>3. Grown(s, f, w, x) /\ (x.ok => i \in DOMAIN x.encoder.terms)
      BY <1>2, <2>5, <3>1, <3>2, EncodeNotFacts
    <3> QED
      BY <3>3 DEF x
  <2>6. CASE s[i].op = "or"
    <3>1. x = EncodeOr(w, i, {w.encoder.terms[t] : t \in s[i].args})
      BY <1>2, <2>6 DEF EncodeNode
    <3>2. s[i].args \subseteq DOMAIN w.encoder.terms
      BY <1>2, <2>6 DEF Arguments
    <3> HIDE DEF x
    <3>3. Grown(s, f, w, x) /\ (x.ok => i \in DOMAIN x.encoder.terms)
      BY <1>2, <2>6, <3>1, <3>2, EncodeOrFacts
    <3> QED
      BY <3>3 DEF x
  <2> QED
    BY <2>1, <2>2, <2>3, <2>4, <2>5, <2>6
<1> QED
  BY <1>1, <1>2

-----------------------------------------------------------------------------
(***************************************************************************)
(* What a term is made of, and the value it has.                           *)
(***************************************************************************)

\* Arguments are smaller.
LEMMA ChildrenFacts ==
  ASSUME NEW s, StoreOK(s), NEW i \in 1 .. Len(s)
  PROVE  Arguments(s[i]) \subseteq 1 .. i - 1 /\ Arguments(s[i]) \subseteq 1 .. Len(s)
BY StoreFacts DEF Arguments

\* The subterms of every term, each over those of its children.
SubtermStep(s, g, i) == IF i = 0 THEN {} ELSE {i} \cup UNION {g[c] : c \in Arguments(s[i])}
SubtermsTaken(g, s) ==
  g = [i \in 0 .. Len(s) |-> IF i = 0 THEN {} ELSE {i} \cup UNION {g[c] : c \in Arguments(s[i])}]

\* The subterms of a term are there.
LEMMA SubtermsExist ==
  ASSUME NEW s, StoreOK(s)
  PROVE  \E g : SubtermsTaken(g, s)
<1> DEFINE n == Len(s)
           Upto(g, j) == g = [i \in 0 .. j |-> SubtermStep(s, g, i)]
           T == {j \in 0 .. n : \E g : Upto(g, j)}
<1>1. n \in Nat
  BY StoreFacts
<1>2. 0 \in T
  <2> DEFINE g == [i \in 0 .. 0 |-> {}]
  <2>1. \A i \in 0 .. 0 : g[i] = SubtermStep(s, g, i)
    BY DEF SubtermStep
  <2>2. g = [i \in 0 .. 0 |-> g[i]]
    OBVIOUS
  <2> HIDE DEF g
  <2>3. Upto(g, 0)
    BY <2>1, <2>2
  <2> QED
    BY <1>1, <2>3
<1>3. ASSUME NEW j \in 0 .. n - 1, j \in T PROVE j + 1 \in T
  <2>1. PICK g : Upto(g, j)
    BY <1>3
  <2> DEFINE h == [i \in 0 .. j + 1 |-> IF i = j + 1 THEN SubtermStep(s, g, i) ELSE g[i]]
  <2>2. /\ \A i \in 0 .. j : h[i] = g[i] /\ g[i] = SubtermStep(s, g, i)
        /\ h[j + 1] = SubtermStep(s, g, j + 1) /\ h = [i \in 0 .. j + 1 |-> h[i]]
    <3>1. j + 1 \in 0 .. j + 1 /\ \A i \in 0 .. j : i \in 0 .. j + 1 /\ i # j + 1
      BY <1>1
    <3>2. \A i \in 0 .. j : g[i] = SubtermStep(s, g, i)
      BY <2>1
    <3>3. \A i \in 0 .. j + 1 : h[i] = IF i = j + 1 THEN SubtermStep(s, g, i) ELSE g[i]
      OBVIOUS
    <3>4. h = [i \in 0 .. j + 1 |-> h[i]]
      OBVIOUS
    <3> HIDE DEF h
    <3> QED
      BY <3>1, <3>2, <3>3, <3>4
  <2> HIDE DEF h
  <2>3. ASSUME NEW i \in 0 .. j + 1 PROVE SubtermStep(s, h, i) = SubtermStep(s, g, i)
    <3>1. CASE i = 0
      BY <3>1 DEF SubtermStep
    <3>2. CASE i # 0
      <4>1. i \in 1 .. Len(s)
        BY <1>1, <3>2
      <4>2. \A c \in Arguments(s[i]) : h[c] = g[c]
        <5>1. Arguments(s[i]) \subseteq 0 .. j
          BY <4>1, ChildrenFacts
        <5> QED
          BY <2>2, <5>1
      <4>3. {h[c] : c \in Arguments(s[i])} = {g[c] : c \in Arguments(s[i])}
        BY <4>2
      <4> QED
        BY <3>2, <4>3 DEF SubtermStep
    <3> QED
      BY <3>1, <3>2
  <2>4. \A i \in 0 .. j + 1 : h[i] = SubtermStep(s, h, i)
    <3>1. \A i \in 0 .. j + 1 : i \in 0 .. j \/ i = j + 1
      BY <1>1
    <3> QED
      BY <2>2, <2>3, <3>1
  <2>5. Upto(h, j + 1)
    BY <2>2, <2>4
  <2> QED
    BY <1>1, <2>5
<1>4. n \in T
  <2>1. T \in SUBSET (0 .. n) /\ n \in 0 .. n
    BY <1>1
  <2> HIDE DEF T, n
  <2>2. \A k \in 0 .. n : k \in T
    BY <1>1, <1>2, <1>3, <2>1, UpTo
  <2> QED
    BY <2>1, <2>2
<1> QED
  BY <1>4 DEF SubtermsTaken, SubtermStep

\* The subterms of a term are terms up to it, itself one of them, and closed.
LEMMA SubtermsFacts ==
  ASSUME NEW s, StoreOK(s), NEW t \in 1 .. Len(s)
  PROVE  /\ t \in Within(s, t) /\ Within(s, t) \subseteq 1 .. Len(s)
         /\ \A j \in Within(s, t) : Arguments(s[j]) \subseteq Within(s, t)
<1> DEFINE n == Len(s)
           g == CHOOSE h : SubtermsTaken(h, s)
<1>1. SubtermsTaken(g, s) /\ n \in Nat
  BY SubtermsExist, StoreFacts
<1>2. Within(s, t) = g[t]
  BY DEF Within, SubtermsTaken
<1> HIDE DEF g
<1>3. g[0] = {} /\ \A i \in 1 .. n : g[i] = {i} \cup UNION {g[c] : c \in Arguments(s[i])}
  <2>1. g = [i \in 0 .. n |-> IF i = 0 THEN {} ELSE {i} \cup UNION {g[c] : c \in Arguments(s[i])}]
    BY <1>1 DEF SubtermsTaken
  <2>2. \A i \in 0 .. n : g[i] = IF i = 0 THEN {} ELSE {i} \cup UNION {g[c] : c \in Arguments(s[i])}
    BY <2>1
  <2>3. 0 \in 0 .. n /\ \A i \in 1 .. n : i \in 0 .. n /\ i # 0
    BY <1>1
  <2> HIDE DEF n
  <2>4. g[0] = {}
    BY <2>2, <2>3
  <2>5. ASSUME NEW i \in 1 .. n PROVE g[i] = {i} \cup UNION {g[c] : c \in Arguments(s[i])}
    BY <2>2, <2>3
  <2> QED
    BY <2>4, <2>5
<1> DEFINE T == {i \in 0 .. n : g[i] \subseteq 1 .. n /\ \A j \in g[i] : Arguments(s[j]) \subseteq g[i]}
<1>4. ASSUME NEW k \in 0 .. n, \A j \in 0 .. k - 1 : j \in T PROVE k \in T
  <2>1. CASE k = 0
    BY <1>3, <2>1
  <2>2. CASE k # 0
    <3>1. k \in 1 .. n /\ Arguments(s[k]) \subseteq 1 .. k - 1
      BY <1>1, <2>2, ChildrenFacts
    <3>2. \A c \in Arguments(s[k]) : g[c] \subseteq 1 .. n /\ g[c] \subseteq g[k]
                                    /\ c \in g[k] /\ \A j \in g[c] : Arguments(s[j]) \subseteq g[c]
      <4> SUFFICES ASSUME NEW c \in Arguments(s[k])
                   PROVE  g[c] \subseteq 1 .. n /\ g[c] \subseteq g[k]
                          /\ c \in g[k] /\ \A j \in g[c] : Arguments(s[j]) \subseteq g[c]
        OBVIOUS
      <4>1. c \in 0 .. k - 1 /\ c \in 1 .. n
        BY <1>1, <3>1
      <4>2. c \in g[c] /\ g[c] \subseteq g[k]
        BY <1>3, <3>1, <4>1
      <4> QED
        BY <1>4, <4>1, <4>2
    <3>3. \A j \in g[k] : j = k \/ \E c \in Arguments(s[k]) : j \in g[c]
      BY <1>3, <3>1
    <3>4. g[k] \subseteq 1 .. n
      BY <3>1, <3>2, <3>3
    <3>5. \A j \in g[k] : Arguments(s[j]) \subseteq g[k]
      BY <3>2, <3>3
    <3> QED
      BY <3>4, <3>5
  <2> QED
    BY <2>1, <2>2
<1>5. t \in T
  <2>1. T \in SUBSET (0 .. n) /\ t \in 0 .. n
    BY <1>1
  <2> HIDE DEF T
  <2>2. \A k \in 0 .. n : k \in T
    BY <1>1, <1>4, <2>1, FromBelow
  <2> QED
    BY <2>1, <2>2
<1> QED
  BY <1>2, <1>3, <1>5

-----------------------------------------------------------------------------
(***************************************************************************)
(* Encoding whole terms.                                                   *)
(***************************************************************************)
EncodeStep(s, T0, w, i) == IF i \in T0 THEN EncodeNode(s, w, i) ELSE w

\* Terms may be encoded from the inside out.
NodesTaken(g, s, T0, a) ==
  g = [k \in 0 .. Len(s) |-> IF k = 0 THEN a ELSE EncodeStep(s, T0, g[k - 1], k)]

\* ... and this is what doing it gives, node by node.
LEMMA NodesExist ==
  ASSUME NEW s, NEW T0, NEW a, Len(s) \in Nat
  PROVE  /\ \E g : NodesTaken(g, s, T0, a)
         /\ \A g : NodesTaken(g, s, T0, a) =>
              g[0] = a /\ \A k \in 1 .. Len(s) : g[k] = EncodeStep(s, T0, g[k - 1], k)
<1> DEFINE n == Len(s)
           T == {j \in 0 .. n : \E g : g = [k \in 0 .. j |-> IF k = 0 THEN a ELSE EncodeStep(s, T0, g[k - 1], k)]}
<1>1. 0 \in T
  <2> DEFINE g == [k \in 0 .. 0 |-> a]
  <2>1. g = [k \in 0 .. 0 |-> IF k = 0 THEN a ELSE EncodeStep(s, T0, g[k - 1], k)]
    OBVIOUS
  <2> HIDE DEF g
  <2> QED
    BY <2>1
<1>2. ASSUME NEW j \in 0 .. n - 1, j \in T PROVE j + 1 \in T
  <2>1. PICK g : g = [k \in 0 .. j |-> IF k = 0 THEN a ELSE EncodeStep(s, T0, g[k - 1], k)]
    BY <1>2
  <2> DEFINE h == [k \in 0 .. j + 1 |-> IF k = j + 1 THEN EncodeStep(s, T0, g[j], j + 1) ELSE g[k]]
  <2>2. ASSUME NEW k \in 0 .. j + 1 PROVE h[k] = IF k = 0 THEN a ELSE EncodeStep(s, T0, h[k - 1], k)
    <3>1. CASE k = j + 1
      BY <3>1
    <3>2. CASE k # j + 1 /\ k # 0
      <4>1. k \in 0 .. j /\ k - 1 \in 0 .. j + 1 /\ k - 1 # j + 1
        BY <3>2
      <4>2. g[k] = EncodeStep(s, T0, g[k - 1], k) /\ h[k] = g[k] /\ h[k - 1] = g[k - 1]
        BY <2>1, <3>2, <4>1
      <4> HIDE DEF h
      <4> QED
        BY <3>2, <4>2
    <3>3. CASE k = 0
      BY <2>1, <3>3
    <3> QED
      BY <3>1, <3>2, <3>3
  <2>3. h = [k \in 0 .. j + 1 |-> h[k]]
    OBVIOUS
  <2> HIDE DEF h
  <2>4. h = [k \in 0 .. j + 1 |-> IF k = 0 THEN a ELSE EncodeStep(s, T0, h[k - 1], k)]
    BY <2>2, <2>3
  <2>5. j + 1 \in 0 .. n
    OBVIOUS
  <2> QED
    BY <2>4, <2>5
<1>3. n \in T
  <2>1. T \in SUBSET (0 .. n)
    OBVIOUS
  <2>2. n \in Nat /\ n \in 0 .. n
    OBVIOUS
  <2> HIDE DEF T, n
  <2>3. \A k \in 0 .. n : k \in T
    BY <1>1, <1>2, <2>1, <2>2, UpTo
  <2> QED
    BY <2>2, <2>3
<1>4. \E g : NodesTaken(g, s, T0, a)
  BY <1>3 DEF NodesTaken
<1>5. ASSUME NEW g, NodesTaken(g, s, T0, a)
      PROVE  g[0] = a /\ \A k \in 1 .. Len(s) : g[k] = EncodeStep(s, T0, g[k - 1], k)
  <2>1. g = [k \in 0 .. Len(s) |-> IF k = 0 THEN a ELSE EncodeStep(s, T0, g[k - 1], k)]
    BY <1>5 DEF NodesTaken
  <2> QED
    BY <2>1
<1> QED
  BY <1>4, <1>5

\* Terms may be encoded one after the other.
TermsTaken(g, s, ts, a) ==
  g = [k \in 0 .. Len(ts) |-> IF k = 0 THEN a ELSE Encoded(s, g[k - 1], ts[k])]

\* ... and this is what doing it gives, term by term.
LEMMA TermsExist ==
  ASSUME NEW s, NEW ts, NEW a, Len(ts) \in Nat
  PROVE  /\ \E g : TermsTaken(g, s, ts, a)
         /\ \A g : TermsTaken(g, s, ts, a) =>
              g[0] = a /\ \A k \in 1 .. Len(ts) : g[k] = Encoded(s, g[k - 1], ts[k])
<1> DEFINE n == Len(ts)
           T == {j \in 0 .. n : \E g : g = [k \in 0 .. j |-> IF k = 0 THEN a ELSE Encoded(s, g[k - 1], ts[k])]}
<1>1. 0 \in T
  <2> DEFINE g == [k \in 0 .. 0 |-> a]
  <2>1. g = [k \in 0 .. 0 |-> IF k = 0 THEN a ELSE Encoded(s, g[k - 1], ts[k])]
    OBVIOUS
  <2> HIDE DEF g
  <2> QED
    BY <2>1
<1>2. ASSUME NEW j \in 0 .. n - 1, j \in T PROVE j + 1 \in T
  <2>1. PICK g : g = [k \in 0 .. j |-> IF k = 0 THEN a ELSE Encoded(s, g[k - 1], ts[k])]
    BY <1>2
  <2> DEFINE h == [k \in 0 .. j + 1 |-> IF k = j + 1 THEN Encoded(s, g[j], ts[j + 1]) ELSE g[k]]
  <2>2. ASSUME NEW k \in 0 .. j + 1 PROVE h[k] = IF k = 0 THEN a ELSE Encoded(s, h[k - 1], ts[k])
    <3>1. CASE k = j + 1
      BY <3>1
    <3>2. CASE k # j + 1 /\ k # 0
      <4>1. k \in 0 .. j /\ k - 1 \in 0 .. j + 1 /\ k - 1 # j + 1
        BY <3>2
      <4>2. g[k] = Encoded(s, g[k - 1], ts[k]) /\ h[k] = g[k] /\ h[k - 1] = g[k - 1]
        BY <2>1, <3>2, <4>1
      <4> HIDE DEF h
      <4> QED
        BY <3>2, <4>2
    <3>3. CASE k = 0
      BY <2>1, <3>3
    <3> QED
      BY <3>1, <3>2, <3>3
  <2>3. h = [k \in 0 .. j + 1 |-> h[k]]
    OBVIOUS
  <2> HIDE DEF h
  <2>4. h = [k \in 0 .. j + 1 |-> IF k = 0 THEN a ELSE Encoded(s, h[k - 1], ts[k])]
    BY <2>2, <2>3
  <2>5. j + 1 \in 0 .. n
    OBVIOUS
  <2> QED
    BY <2>4, <2>5
<1>3. n \in T
  <2>1. T \in SUBSET (0 .. n)
    OBVIOUS
  <2>2. n \in Nat /\ n \in 0 .. n
    OBVIOUS
  <2> HIDE DEF T, n
  <2>3. \A k \in 0 .. n : k \in T
    BY <1>1, <1>2, <2>1, <2>2, UpTo
  <2> QED
    BY <2>2, <2>3
<1>4. \E g : TermsTaken(g, s, ts, a)
  BY <1>3 DEF TermsTaken
<1>5. ASSUME NEW g, TermsTaken(g, s, ts, a)
      PROVE  g[0] = a /\ \A k \in 1 .. Len(ts) : g[k] = Encoded(s, g[k - 1], ts[k])
  <2>1. g = [k \in 0 .. Len(ts) |-> IF k = 0 THEN a ELSE Encoded(s, g[k - 1], ts[k])]
    BY <1>5 DEF TermsTaken
  <2> QED
    BY <2>1
<1> QED
  BY <1>4, <1>5

\* BoolEncoder::encode gives a term its literal or is refused, and keeps the rest.
LEMMA EncodedFacts ==
  ASSUME NEW s, StoreOK(s), NEW f, NEW w \in Works, NEW t \in 1 .. Len(s)
  PROVE  LET x == Encoded(s, w, t)
         IN  Grown(s, f, w, x) /\ (x.ok => t \in DOMAIN x.encoder.terms)
<1> DEFINE n == Len(s)
           T0 == Within(s, t)
           acc == CHOOSE g : NodesTaken(g, s, T0, w)
<1>1. n \in Nat /\ t \in T0 /\ T0 \subseteq 1 .. n /\ \A j \in T0 : Arguments(s[j]) \subseteq T0
  BY SubtermsFacts, StoreFacts
<1>2. NodesTaken(acc, s, T0, w)
  <2> HIDE DEF T0
  <2>1. \E g : NodesTaken(g, s, T0, w)
    BY <1>1, NodesExist
  <2> QED
    BY <2>1
<1>3. Encoded(s, w, t) = acc[n]
  BY DEF Encoded, NodesTaken, EncodeStep
<1> HIDE DEF acc, T0
<1>4. acc[0] = w /\ \A k \in 1 .. n : acc[k] = EncodeStep(s, T0, acc[k - 1], k)
  BY <1>1, <1>2, NodesExist
<1> DEFINE Done(k) == acc[k].ok => \A j \in T0 : j <= k => j \in DOMAIN acc[k].encoder.terms
           T == {k \in 0 .. n : Grown(s, f, w, acc[k]) /\ Done(k)}
<1>5. 0 \in T
  <2>1. Grown(s, f, w, acc[0])
    BY <1>4, GrownFacts
  <2>2. \A j \in T0 : ~ (j <= 0)
    BY <1>1
  <2> QED
    BY <1>1, <2>1, <2>2
<1>6. ASSUME NEW k \in 0 .. n - 1, k \in T PROVE k + 1 \in T
  <2> DEFINE i == k + 1
             x == acc[k]
             y == acc[i]
  <2>1. i \in 1 .. n /\ i \in 0 .. n /\ y = EncodeStep(s, T0, x, i)
    BY <1>1, <1>4
  <2>2. Grown(s, f, w, x) /\ x \in Works
    BY <1>6, GrownFacts
  <2>3. CASE i \notin T0
    <3>1. y = x
      BY <2>1, <2>3 DEF EncodeStep
    <3>2. \A j \in T0 : j <= i => j <= k
      BY <1>1, <2>3
    <3> HIDE DEF x, y
    <3>3. Done(i)
      BY <1>6, <3>1, <3>2 DEF x, y
    <3> QED
      BY <2>1, <2>2, <3>1, <3>3 DEF x, y
  <2>4. CASE i \in T0
    <3>1. y = EncodeNode(s, x, i)
      BY <2>1, <2>4 DEF EncodeStep
    <3>2. x.ok => Arguments(s[i]) \subseteq DOMAIN x.encoder.terms
      <4>1. Arguments(s[i]) \subseteq T0 /\ Arguments(s[i]) \subseteq 1 .. i - 1
        BY <1>1, <2>1, <2>4, ChildrenFacts
      <4>2. \A j \in Arguments(s[i]) : j \in T0 /\ j <= k
        BY <4>1
      <4> QED
        BY <1>6, <4>2
    <3> HIDE DEF x, y
    <3>3. Grown(s, f, x, y) /\ (y.ok => i \in DOMAIN y.encoder.terms)
      <4> HIDE DEF i
      <4> QED
        BY <2>1, <2>2, <3>1, <3>2, EncodeNodeFacts
    <3>4. Grown(s, f, w, y)
      BY <2>2, <3>3, GrownFacts
    <3>5. ASSUME y.ok, NEW j \in T0, j <= i PROVE j \in DOMAIN y.encoder.terms
      <4>1. CASE j = i
        BY <3>3, <3>5, <4>1
      <4>2. CASE j # i
        <5>1. j <= k
          BY <1>1, <3>5, <4>2
        <5>2. x.ok /\ \A b \in DOMAIN x.encoder.terms : b \in DOMAIN y.encoder.terms
          BY <3>3, <3>5 DEF Grown, Keeps
        <5>3. j \in DOMAIN x.encoder.terms
          BY <1>6, <3>5, <5>1, <5>2 DEF x
        <5> QED
          BY <5>2, <5>3
      <4> QED
        BY <4>1, <4>2
    <3> QED
      BY <2>1, <3>4, <3>5 DEF y
  <2> QED
    BY <2>3, <2>4
<1>7. Grown(s, f, w, acc[n]) /\ Done(n)
  <2>1. T \in SUBSET (0 .. n) /\ n \in 0 .. n
    BY <1>1
  <2> HIDE DEF T, n
  <2>2. \A k \in 0 .. n : k \in T
    BY <1>1, <1>5, <1>6, <2>1, UpTo
  <2> QED
    BY <2>1, <2>2 DEF T
<1>8. t <= n
  BY <1>1
<1> HIDE DEF n
<1> QED
  BY <1>1, <1>3, <1>7, <1>8

\* What a check encodes: all of its terms, or it is refused.
LEMMA EncodedAllFacts ==
  ASSUME NEW s, StoreOK(s), NEW f, NEW w \in Works, NEW ts \in Seq(Nat),
         \A k \in 1 .. Len(ts) : ts[k] \in 1 .. Len(s)
  PROVE  LET x == EncodedAll(s, w, ts)
         IN  Grown(s, f, w, x) /\ (x.ok => Range(ts) \subseteq DOMAIN x.encoder.terms)
<1> DEFINE n == Len(ts)
           acc == CHOOSE g : TermsTaken(g, s, ts, w)
<1>1. n \in Nat
  OBVIOUS
<1>2. TermsTaken(acc, s, ts, w)
  <2>1. \E g : TermsTaken(g, s, ts, w)
    BY <1>1, TermsExist
  <2> QED
    BY <2>1
<1>3. EncodedAll(s, w, ts) = acc[n]
  BY DEF EncodedAll, TermsTaken
<1> HIDE DEF acc
<1>4. acc[0] = w /\ \A k \in 1 .. n : acc[k] = Encoded(s, acc[k - 1], ts[k])
  BY <1>1, <1>2, TermsExist
<1> DEFINE Done(k) == acc[k].ok => \A j \in 1 .. k : ts[j] \in DOMAIN acc[k].encoder.terms
           T == {k \in 0 .. n : Grown(s, f, w, acc[k]) /\ Done(k)}
<1>5. 0 \in T
  <2>1. Grown(s, f, w, acc[0])
    BY <1>4, GrownFacts
  <2> QED
    BY <1>1, <2>1
<1>6. ASSUME NEW k \in 0 .. n - 1, k \in T PROVE k + 1 \in T
  <2> DEFINE i == k + 1
             x == acc[k]
             y == acc[i]
  <2>1. i \in 1 .. n /\ i \in 0 .. n /\ y = Encoded(s, x, ts[i]) /\ ts[i] \in 1 .. Len(s)
    BY <1>1, <1>4
  <2>2. Grown(s, f, w, x) /\ x \in Works
    BY <1>6, GrownFacts
  <2> HIDE DEF x, y
  <2>3. Grown(s, f, x, y) /\ (y.ok => ts[i] \in DOMAIN y.encoder.terms)
    <3> DEFINE t == ts[i]
    <3>1. t \in 1 .. Len(s) /\ y = Encoded(s, x, t)
      BY <2>1
    <3> HIDE DEF t
    <3>2. Grown(s, f, x, y) /\ (y.ok => t \in DOMAIN y.encoder.terms)
      BY <2>2, <3>1, EncodedFacts
    <3> QED
      BY <3>2 DEF t
  <2>4. Grown(s, f, w, y)
    BY <2>2, <2>3, GrownFacts
  <2>5. ASSUME y.ok, NEW j \in 1 .. i PROVE ts[j] \in DOMAIN y.encoder.terms
    <3>1. CASE j = i
      BY <2>3, <2>5, <3>1
    <3>2. CASE j # i
      <4>1. j \in 1 .. k
        BY <1>1, <2>5, <3>2
      <4>2. x.ok /\ \A b \in DOMAIN x.encoder.terms : b \in DOMAIN y.encoder.terms
        BY <2>3, <2>5 DEF Grown, Keeps
      <4>3. ts[j] \in DOMAIN x.encoder.terms
        BY <1>6, <4>1, <4>2 DEF x
      <4> QED
        BY <4>2, <4>3
    <3> QED
      BY <3>1, <3>2
  <2> QED
    BY <2>1, <2>4, <2>5 DEF y
<1>7. Grown(s, f, w, acc[n]) /\ Done(n)
  <2>1. T \in SUBSET (0 .. n) /\ n \in 0 .. n
    BY <1>1
  <2> HIDE DEF T, n
  <2>2. \A k \in 0 .. n : k \in T
    BY <1>1, <1>5, <1>6, <2>1, UpTo
  <2> QED
    BY <2>1, <2>2 DEF T
<1>8. \A m \in Range(ts) : \E j \in 1 .. n : m = ts[j]
  BY DEF Range
<1> HIDE DEF n
<1> QED
  BY <1>3, <1>7, <1>8

-----------------------------------------------------------------------------
(***************************************************************************)
(* The scope stack and the names.                                          *)
(***************************************************************************)
Frames == [bound : SUBSET STRING, labels : SUBSET [name : STRING, term : Nat],
           named : SUBSET [name : STRING, selector : Nat],
           asserted : SUBSET [term : Nat, label : STRING]]
ScopesOK(b, f) ==
  /\ b \in Maps(STRING, Nat) /\ f \in Seq(Frames) /\ Len(f) >= 1
  /\ \A n : n \in DOMAIN b <=> \E i \in 1 .. Len(f) : n \in f[i].bound
  /\ \A i, j \in 1 .. Len(f) : i # j => \A n \in f[i].bound : n \notin f[j].bound
  /\ \A i \in 1 .. Len(f) : \A l \in f[i].labels : l.name \in f[i].bound /\ b[l.name] = l.term

\* One scope gets names; no assertion is touched.
Binding(f, f2, k, N, b) ==
  /\ f2 \in Seq(Frames) /\ Len(f2) = Len(f)
  /\ \A i \in 1 .. Len(f) : f2[i].named = f[i].named /\ f2[i].asserted = f[i].asserted
  /\ \A i \in 1 .. Len(f) : i # k => f2[i].bound = f[i].bound /\ f2[i].labels = f[i].labels
  /\ \A n : n \in f2[k].bound <=> n \in f[k].bound \/ n \in N
  /\ \A l \in f2[k].labels : l \in f[k].labels \/ (l.name \in N /\ b[l.name] = l.term)
Extended(b, N, b2) ==
  /\ b2 \in Maps(STRING, Nat) /\ \A n \in N : n \notin DOMAIN b
  /\ \A n : n \in DOMAIN b2 <=> n \in DOMAIN b \/ n \in N
  /\ \A n \in DOMAIN b : b2[n] = b[n]

\* New names go to one scope.
LEMMA ScopesGrow ==
  ASSUME NEW b, NEW f, ScopesOK(b, f), NEW N, NEW b2, Extended(b, N, b2),
         NEW k \in 1 .. Len(f), NEW f2, Binding(f, f2, k, N, b2)
  PROVE  ScopesOK(b2, f2) /\ Len(f2) = Len(f)
<1> USE DEF Binding, Extended
<1>1. /\ \A n : n \in DOMAIN b <=> \E i \in 1 .. Len(f) : n \in f[i].bound
      /\ \A i, j \in 1 .. Len(f) : i # j => \A n \in f[i].bound : n \notin f[j].bound
      /\ \A i \in 1 .. Len(f) : \A l \in f[i].labels : l.name \in f[i].bound /\ b[l.name] = l.term
      /\ Len(f) >= 1
  BY DEF ScopesOK
<1>2. \A n : n \in DOMAIN b2 <=> \E i \in 1 .. Len(f2) : n \in f2[i].bound
  <2>1. ASSUME NEW n, n \in DOMAIN b2 PROVE \E i \in 1 .. Len(f2) : n \in f2[i].bound
    <3>1. CASE n \in N
      BY <3>1
    <3>2. CASE n \notin N
      <4>1. PICK i \in 1 .. Len(f) : n \in f[i].bound
        BY <1>1, <2>1, <3>2
      <4>2. n \in f2[i].bound
        BY <4>1
      <4> QED
        BY <4>2
    <3> QED
      BY <3>1, <3>2
  <2>2. ASSUME NEW n, NEW i \in 1 .. Len(f2), n \in f2[i].bound PROVE n \in DOMAIN b2
    BY <1>1, <2>2
  <2> QED
    BY <2>1, <2>2
<1>3. ASSUME NEW i \in 1 .. Len(f2), NEW j \in 1 .. Len(f2), i # j, NEW n \in f2[i].bound
      PROVE  n \notin f2[j].bound
  BY <1>1, <1>3
<1>4. ASSUME NEW i \in 1 .. Len(f2), NEW l \in f2[i].labels
      PROVE  l.name \in f2[i].bound /\ b2[l.name] = l.term
  <2>1. CASE l \in f[i].labels
    <3>1. l.name \in f[i].bound /\ b[l.name] = l.term
      BY <1>1, <2>1
    <3>2. l.name \in DOMAIN b
      BY <1>1, <3>1
    <3> QED
      BY <3>1, <3>2
  <2>2. CASE l \notin f[i].labels
    <3>1. i = k
      BY <2>2
    <3> QED
      BY <2>2, <3>1
  <2> QED
    BY <2>1, <2>2
<1> QED
  BY <1>1, <1>2, <1>3, <1>4 DEF ScopesOK

\* The innermost scope goes, and its names with it.
LEMMA ScopesShrink ==
  ASSUME NEW b, NEW f, ScopesOK(b, f), Len(f) > 1
  PROVE  ScopesOK([n \in DOMAIN b \ Last(f).bound |-> b[n]], Front(f))
<1> DEFINE b2 == [n \in DOMAIN b \ Last(f).bound |-> b[n]]
           f2 == Front(f)
           k == Len(f)
<1>1. /\ \A n : n \in DOMAIN b <=> \E i \in 1 .. Len(f) : n \in f[i].bound
      /\ \A i, j \in 1 .. Len(f) : i # j => \A n \in f[i].bound : n \notin f[j].bound
      /\ \A i \in 1 .. Len(f) : \A l \in f[i].labels : l.name \in f[i].bound /\ b[l.name] = l.term
      /\ f \in Seq(Frames) /\ b \in Maps(STRING, Nat)
  BY DEF ScopesOK
<1>2. k \in Nat /\ k \in 1 .. k /\ Last(f) = f[k]
  BY <1>1 DEF Last
<1>3. f2 \in Seq(Frames) /\ Len(f2) = k - 1 /\ \A i \in 1 .. k - 1 : f2[i] = f[i]
  BY <1>1 DEF Front
<1>4. DOMAIN b2 = DOMAIN b \ f[k].bound /\ \A n \in DOMAIN b2 : b2[n] = b[n]
  BY <1>2
<1>5. b2 \in Maps(STRING, Nat)
  <2>1. b2 = [n \in DOMAIN b2 |-> b2[n]]
    OBVIOUS
  <2>2. DOMAIN b \in SUBSET STRING /\ \A n \in DOMAIN b : b[n] \in Nat
    BY <1>1, MapsFacts
  <2>3. DOMAIN b2 \in SUBSET STRING /\ \A n \in DOMAIN b2 : b2[n] \in Nat
    BY <1>4, <2>2
  <2> HIDE DEF b2
  <2> QED
    BY <2>1, <2>3, MapsIntro
<1> HIDE DEF b2, f2
<1>6. \A i \in 1 .. Len(f2) : i \in 1 .. k /\ i # k /\ f2[i] = f[i]
  BY <1>2, <1>3
<1>7. \A n : n \in DOMAIN b2 <=> \E i \in 1 .. Len(f2) : n \in f2[i].bound
  <2>1. ASSUME NEW n, n \in DOMAIN b2 PROVE \E i \in 1 .. Len(f2) : n \in f2[i].bound
    <3>1. PICK i \in 1 .. k : n \in f[i].bound
      BY <1>1, <1>4, <2>1
    <3>2. i \in 1 .. Len(f2)
      BY <1>2, <1>3, <1>4, <2>1, <3>1
    <3> QED
      BY <1>6, <3>1, <3>2
  <2>2. ASSUME NEW n, NEW i \in 1 .. Len(f2), n \in f2[i].bound PROVE n \in DOMAIN b2
    <3>1. i \in 1 .. k /\ i # k /\ n \in f[i].bound
      BY <1>6, <2>2
    <3> QED
      BY <1>1, <1>2, <1>4, <3>1
  <2> QED
    BY <2>1, <2>2
<1>8. \A i, j \in 1 .. Len(f2) : i # j => \A n \in f2[i].bound : n \notin f2[j].bound
  BY <1>1, <1>6
<1>9. ASSUME NEW i \in 1 .. Len(f2), NEW l \in f2[i].labels
      PROVE  l.name \in f2[i].bound /\ b2[l.name] = l.term
  <2>1. l.name \in f2[i].bound /\ b[l.name] = l.term
    BY <1>1, <1>6
  <2>2. l.name \in DOMAIN b2
    BY <1>7, <2>1
  <2> QED
    BY <1>4, <2>1, <2>2
<1> QED
  BY <1>2, <1>3, <1>5, <1>7, <1>8, <1>9 DEF ScopesOK, b2, f2

\* A scope is opened.
LEMMA ScopesPushed ==
  ASSUME NEW b, NEW f, ScopesOK(b, f)
  PROVE  ScopesOK(b, Append(f, EmptyFrame))
<1> DEFINE f2 == Append(f, EmptyFrame)
           k == Len(f)
<1>1. /\ \A n : n \in DOMAIN b <=> \E i \in 1 .. Len(f) : n \in f[i].bound
      /\ \A i, j \in 1 .. Len(f) : i # j => \A n \in f[i].bound : n \notin f[j].bound
      /\ \A i \in 1 .. Len(f) : \A l \in f[i].labels : l.name \in f[i].bound /\ b[l.name] = l.term
      /\ f \in Seq(Frames) /\ b \in Maps(STRING, Nat) /\ Len(f) >= 1
  BY DEF ScopesOK
<1>2. EmptyFrame \in Frames /\ EmptyFrame.bound = {} /\ EmptyFrame.labels = {}
  BY DEF EmptyFrame, Frames
<1>3. /\ f2 \in Seq(Frames) /\ Len(f2) = k + 1 /\ f2[k + 1] = EmptyFrame
      /\ \A i \in 1 .. k : f2[i] = f[i]
  BY <1>1, <1>2
<1>4. k \in Nat
  BY <1>1
<1> HIDE DEF f2
<1>5. \A i \in 1 .. Len(f2) : \/ i \in 1 .. k /\ f2[i] = f[i]
                              \/ f2[i].bound = {} /\ f2[i].labels = {}
  BY <1>2, <1>3, <1>4
<1>6. \A i \in 1 .. k : i \in 1 .. Len(f2) /\ f2[i] = f[i]
  BY <1>3, <1>4
<1>7. \A n : n \in DOMAIN b <=> \E i \in 1 .. Len(f2) : n \in f2[i].bound
  BY <1>1, <1>5, <1>6
<1>8. \A i, j \in 1 .. Len(f2) : i # j => \A n \in f2[i].bound : n \notin f2[j].bound
  BY <1>1, <1>5
<1>9. \A i \in 1 .. Len(f2) : \A l \in f2[i].labels : l.name \in f2[i].bound /\ b[l.name] = l.term
  BY <1>1, <1>5
<1> QED
  BY <1>1, <1>3, <1>4, <1>7, <1>8, <1>9 DEF ScopesOK, f2

\* What a frame is made of.
LEMMA FrameFacts ==
  ASSUME NEW f \in Seq(Frames), NEW i \in 1 .. Len(f)
  PROVE  /\ f[i] \in Frames /\ f[i].bound \in SUBSET STRING
         /\ f[i].labels \in SUBSET [name : STRING, term : Nat]
         /\ f[i].named \in SUBSET [name : STRING, selector : Nat]
         /\ f[i].asserted \in SUBSET [term : Nat, label : STRING]
<1>1. f[i] \in Frames
  OBVIOUS
<1> QED
  BY <1>1 DEF Frames

\* A frame is replaced.
LEMMA Replaced ==
  ASSUME NEW f \in Seq(Frames), NEW k \in 1 .. Len(f), NEW g \in Frames
  PROVE  LET f2 == [f EXCEPT ![k] = g]
         IN  /\ f2 \in Seq(Frames) /\ Len(f2) = Len(f) /\ f2[k] = g
             /\ \A i \in 1 .. Len(f) : i # k => f2[i] = f[i]
<1> HIDE DEF Frames
<1> QED
  OBVIOUS

\* A declaration binds its name.
LEMMA BoundFacts ==
  ASSUME NEW f \in Seq(Frames), NEW k \in 1 .. Len(f), NEW n \in STRING, NEW b
  PROVE  Binding(f, Bound(f, k, n), k, {n}, b)
<1> DEFINE g == [f[k] EXCEPT !.bound = f[k].bound \cup {n}]
           f2 == Bound(f, k, n)
<1>1. /\ f[k] \in Frames /\ f[k].bound \in SUBSET STRING
  BY FrameFacts
<1>2. f2 = [f EXCEPT ![k] = g]
  BY DEF Bound
<1>3. /\ g \in Frames /\ g.bound = f[k].bound \cup {n} /\ g.labels = f[k].labels
      /\ g.named = f[k].named /\ g.asserted = f[k].asserted
  BY <1>1 DEF Frames
<1> HIDE DEF g, f2
<1>4. /\ f2 \in Seq(Frames) /\ Len(f2) = Len(f) /\ f2[k] = g
      /\ \A i \in 1 .. Len(f) : i # k => f2[i] = f[i]
  BY <1>2, <1>3, Replaced
<1> QED
  BY <1>3, <1>4 DEF Binding, f2

\* commit_inline_definitions binds the labels.
LEMMA LabelledFacts ==
  ASSUME NEW f \in Seq(Frames), DeclarationFrame \in 1 .. Len(f), NEW items,
         NEW b \in Maps(STRING, Nat), Labels(items) \subseteq DOMAIN b
  PROVE  Binding(f, Labelled(f, items, b), DeclarationFrame, Labels(items), b)
<1> DEFINE k == DeclarationFrame
           N == Labels(items)
           A == f[k].bound \cup N
           L == f[k].labels \cup {[name |-> n, term |-> b[n]] : n \in N}
           g == [f[k] EXCEPT !.bound = A, !.labels = L]
           f2 == Labelled(f, items, b)
<1>1. f[k] \in Frames /\ f[k].bound \in SUBSET STRING /\ f[k].labels \in SUBSET [name : STRING, term : Nat]
  BY FrameFacts
<1>2. f2 = [f EXCEPT ![k] = g]
  BY DEF Labelled
<1>3. A \in SUBSET STRING /\ L \in SUBSET [name : STRING, term : Nat]
  <2>1. N \in SUBSET STRING /\ \A n \in N : b[n] \in Nat
    BY MapsFacts
  <2> HIDE DEF N, k
  <2>2. {[name |-> n, term |-> b[n]] : n \in N} \in SUBSET [name : STRING, term : Nat]
    <3> DEFINE P == [name : STRING, term : Nat]
               E(n) == [name |-> n, term |-> b[n]]
    <3>1. ASSUME NEW n \in N PROVE E(n) \in P
      <4>1. n \in STRING /\ b[n] \in Nat
        BY <2>1
      <4> QED
        BY <4>1
    <3> HIDE DEF P, E
    <3>2. {E(n) : n \in N} \in SUBSET P
      BY <3>1
    <3> QED
      BY <3>2 DEF P, E
  <2>3. A \in SUBSET STRING
    BY <1>1, <2>1 DEF k
  <2>4. L \in SUBSET [name : STRING, term : Nat]
    BY <1>1, <2>2 DEF k
  <2> QED
    BY <2>3, <2>4
<1>4. \A l \in L : l \in f[k].labels \/ (l.name \in N /\ b[l.name] = l.term)
  OBVIOUS
<1>5. \A n : n \in A <=> n \in f[k].bound \/ n \in N
  OBVIOUS
<1> HIDE DEF A, L, N, k
<1>6. /\ g \in Frames /\ g.bound = A /\ g.labels = L
      /\ g.named = f[k].named /\ g.asserted = f[k].asserted
  BY <1>1, <1>3 DEF Frames
<1> HIDE DEF g, f2
<1>7. /\ f2 \in Seq(Frames) /\ Len(f2) = Len(f) /\ f2[k] = g
      /\ \A i \in 1 .. Len(f) : i # k => f2[i] = f[i]
  <2>1. k \in 1 .. Len(f)
    BY DEF k
  <2> QED
    BY <1>2, <1>6, <2>1, Replaced
<1> QED
  BY <1>4, <1>5, <1>6, <1>7 DEF Binding, f2, k, N

\* rollback_inline_definitions leaves the names that were there.
LEMMA WithoutInlineFacts ==
  ASSUME NamesTyped, NEW items, NEW t, ParseOK(t, items)
  PROVE  WithoutInline(t.bindings, items) = bindings
<1> DEFINE b == WithoutInline(t.bindings, items)
<1>1. \A n : n \in DOMAIN t.bindings /\ (n \in DOMAIN bindings \/ n \notin Labels(items)) <=> n \in DOMAIN bindings
  BY DEF ParseOK
<1>2. {n \in DOMAIN t.bindings : n \in DOMAIN bindings \/ n \notin Labels(items)} = DOMAIN bindings
  BY <1>1
<1>3. b = [n \in DOMAIN bindings |-> t.bindings[n]]
  BY <1>2 DEF WithoutInline
<1>4. \A n \in DOMAIN bindings : t.bindings[n] = bindings[n]
  BY DEF ParseOK
<1>5. bindings = [n \in DOMAIN bindings |-> bindings[n]]
  BY MapsFacts DEF NamesTyped
<1> QED
  BY <1>3, <1>4, <1>5

-----------------------------------------------------------------------------
(***************************************************************************)
(* The commands, over the names.  Whatever a script says, the names stand  *)
(* for terms of the store and the scopes agree; an error changes nothing.  *)
(***************************************************************************)
NamesInv ==
  /\ NamesTyped /\ encoder \in Encoders /\ solver \in Solvers /\ logic \in BOOLEAN
  /\ ScopesOK(bindings, frames) /\ Len(frames) = Len(solver.selectors) + 1
Harmless ==
  out'.kind = "error" =>
    /\ bindings' = bindings /\ frames' = frames /\ last' = last
    /\ solver'.selectors = solver.selectors /\ Extends(nodes', nodes)

\* The scopes, and the one that declarations go to.
LEMMA ScopeFacts ==
  ASSUME NamesInv
  PROVE  /\ frames \in Seq(Frames) /\ Len(frames) \in Nat /\ Len(frames) >= 1
         /\ DOMAIN frames = 1 .. Len(frames) /\ DeclarationFrame \in 1 .. Len(frames)
         /\ bindings \in Maps(STRING, Nat) /\ StoreOK(nodes) /\ Named(bindings, nodes)
         /\ solver.selectors \in Seq(Nat) /\ solver.clauses \in Clauses /\ solver.count \in Nat
         /\ Len(solver.selectors) = Len(frames) - 1
<1>1. frames \in Seq(Frames) /\ Len(frames) >= 1
  BY DEF NamesInv, ScopesOK
<1>2. solver.selectors \in Seq(Nat) /\ solver.clauses \in Clauses /\ solver.count \in Nat
  BY DEF NamesInv, Solvers
<1> QED
  BY <1>1, <1>2 DEF NamesInv, NamesTyped, DeclarationFrame

\* The work a command begins with.
LEMMA WorkFacts ==
  ASSUME NamesInv, NEW c, c.room \in Nat
  PROVE  Work(c) \in Works /\ Work(c).ok /\ Work(c).encoder = encoder /\ Work(c).solver = solver
BY DEF Work, Works, NamesInv

\* The terms of an assertion and of a check.
LEMMA CommandFacts ==
  ASSUME NamesInv, NEW c \in Commands
  PROVE  /\ c.op = "assert" => /\ c.item \in Items /\ c.room \in Nat /\ c.item.label \in STRING
                               /\ ParseOK(ParsedAll(<<c.item>>), <<c.item>>)
         /\ c.op = "check" => c.room \in Nat
         /\ c.op \in {"check", "value"} => ParseOK(ParsedAll(c.items), c.items)
<1>1. ASSUME c.op = "assert"
      PROVE  /\ c.item \in Items /\ c.room \in Nat /\ c.item.label \in STRING
             /\ ParseOK(ParsedAll(<<c.item>>), <<c.item>>)
  <2>1. c.item \in Items /\ c.room \in Nat
    BY <1>1, CommandsTyped
  <2> DEFINE items == <<c.item>>
  <2>2. items \in Seq(Items)
    BY <2>1
  <2> HIDE DEF items
  <2>3. ParseOK(ParsedAll(items), items)
    BY <2>2, ParsedAllFacts DEF NamesInv
  <2> QED
    BY <2>1, <2>3 DEF items, Items
<1>2. ASSUME c.op \in {"check", "value"} PROVE ParseOK(ParsedAll(c.items), c.items)
  <2>1. c.items \in Seq(Items)
    BY <1>2, CommandsTyped
  <2> QED
    BY <2>1, ParsedAllFacts DEF NamesInv
<1>3. c.op = "check" => c.room \in Nat
  BY CommandsTyped
<1> QED
  BY <1>1, <1>2, <1>3

\* A command that is refused leaves the terms and the names.
LEMMA RefusedFacts ==
  ASSUME NamesInv, NEW items, NEW t, ParseOK(t, items), Refused(t, items)
  PROVE  nodes' = nodes /\ bindings' = bindings
BY WithoutInlineFacts DEF Refused, RolledBack, NamesInv

\* Nothing but the terms has changed.
LEMMA IdleFacts ==
  ASSUME NamesInv, UNCHANGED <<nodes, bindings, encoder, solver, frames, last>>, logic' \in BOOLEAN
  PROVE  NamesInv' /\ Harmless
<1>1. Extends(nodes, nodes)
  BY ExtendsFacts DEF NamesInv, NamesTyped
<1> QED
  BY <1>1 DEF NamesInv, NamesTyped, Harmless

\* What was encoded when a command could not be completed.
LEMMA HalfFacts ==
  ASSUME NamesInv, NEW c, NEW items, NEW t, ParseOK(t, items), c.room \in Nat, NEW w,
         Grown(t.store, frames, Work(c), w), HalfEncoded(t, w, items), logic' = logic
  PROVE  NamesInv' /\ Harmless
<1>1. bindings' = bindings /\ frames' = frames /\ last' = last /\ encoder' = w.encoder /\ solver' = w.solver
  BY WithoutInlineFacts DEF HalfEncoded, NamesInv
<1>2. nodes' = nodes \/ nodes' = t.store
  BY DEF HalfEncoded, RolledBack
<1>3. StoreOK(nodes') /\ Extends(nodes', nodes)
  BY <1>2, ExtendsFacts DEF ParseOK, NamesInv, NamesTyped
<1>4. Named(bindings, nodes')
  BY <1>3, NamedStays DEF NamesInv, NamesTyped
<1>5. w \in Works /\ w.solver.selectors = solver.selectors
  BY WorkFacts DEF Grown, Keeps
<1>6. NamesTyped'
  BY <1>1, <1>3, <1>4 DEF NamesInv, NamesTyped
<1>7. encoder' \in Encoders /\ solver' \in Solvers
  BY <1>1, <1>5 DEF Works
<1>8. ScopesOK(bindings', frames') /\ Len(frames') = Len(solver'.selectors) + 1 /\ logic' \in BOOLEAN
  BY <1>1, <1>5 DEF NamesInv
<1>9. NamesInv'
  BY <1>6, <1>7, <1>8 DEF NamesInv
<1> QED
  BY <1>1, <1>3, <1>5, <1>9 DEF Harmless

\* The same names in the same scopes.
LEMMA ScopesSame ==
  ASSUME NEW b, NEW f, ScopesOK(b, f), NEW f2 \in Seq(Frames), Len(f2) = Len(f),
         \A i \in 1 .. Len(f) : f2[i].bound = f[i].bound /\ f2[i].labels = f[i].labels
  PROVE  ScopesOK(b, f2)
<1>1. /\ \A n : n \in DOMAIN b <=> \E i \in 1 .. Len(f) : n \in f[i].bound
      /\ \A i, j \in 1 .. Len(f) : i # j => \A n \in f[i].bound : n \notin f[j].bound
      /\ \A i \in 1 .. Len(f) : \A l \in f[i].labels : l.name \in f[i].bound /\ b[l.name] = l.term
      /\ b \in Maps(STRING, Nat) /\ Len(f) >= 1
  BY DEF ScopesOK
<1>2. \A n : n \in DOMAIN b <=> \E i \in 1 .. Len(f2) : n \in f2[i].bound
  BY <1>1
<1>3. \A i, j \in 1 .. Len(f2) : i # j => \A n \in f2[i].bound : n \notin f2[j].bound
  BY <1>1
<1>4. \A i \in 1 .. Len(f2) : \A l \in f2[i].labels : l.name \in f2[i].bound /\ b[l.name] = l.term
  BY <1>1
<1> QED
  BY <1>1, <1>2, <1>3, <1>4 DEF ScopesOK

\* What a command that succeeds has parsed: new names for terms of the store.
LEMMA ParsedNames ==
  ASSUME NamesInv, NEW items, NEW t, ParseOK(t, items), t.ok
  PROVE  /\ Extended(bindings, Labels(items), t.bindings) /\ Labels(items) \subseteq DOMAIN t.bindings
         /\ Named(t.bindings, t.store) /\ Named(t.bindings, t.prepared)
         /\ StoreOK(t.store) /\ StoreOK(t.prepared) /\ Extends(t.store, nodes) /\ Extends(t.prepared, nodes)
         /\ t.bindings \in Maps(STRING, Nat)
<1>1. Extended(bindings, Labels(items), t.bindings) /\ Labels(items) \subseteq DOMAIN t.bindings
  BY DEF ParseOK, Extended
<1>2. Named(t.bindings, t.store)
  BY NamedStays DEF ParseOK
<1> QED
  BY <1>1, <1>2 DEF ParseOK

\* commit_inline_definitions: the labels stand with the names.
LEMMA CommitFacts ==
  ASSUME NamesInv, NEW items, NEW t, ParseOK(t, items), t.ok,
         NEW f, ScopesOK(bindings, f), Len(f) = Len(frames)
  PROVE  LET f2 == Labelled(f, items, t.bindings)
         IN  /\ ScopesOK(t.bindings, f2) /\ Len(f2) = Len(frames)
             /\ \A i \in 1 .. Len(frames) : f2[i].named = f[i].named /\ f2[i].asserted = f[i].asserted
<1> DEFINE k == DeclarationFrame
           N == Labels(items)
           b == t.bindings
           f2 == Labelled(f, items, b)
<1>1. k \in 1 .. Len(f) /\ f \in Seq(Frames)
  BY ScopeFacts DEF ScopesOK
<1>2. Extended(bindings, N, b) /\ b \in Maps(STRING, Nat) /\ N \subseteq DOMAIN b
  BY ParsedNames
<1>3. Binding(f, f2, k, N, b)
  BY <1>1, <1>2, LabelledFacts
<1> HIDE DEF f2, k, N, b
<1>4. ScopesOK(b, f2) /\ Len(f2) = Len(f)
  BY <1>1, <1>2, <1>3, ScopesGrow
<1> QED
  BY <1>3, <1>4 DEF Binding, f2, b

\* Assertions are where they were.
SameAssertions(f, f2) ==
  Len(f2) = Len(f) /\ \A i \in 1 .. Len(f) : f2[i].named = f[i].named /\ f2[i].asserted = f[i].asserted

\* A name more.
LEMMA PutName ==
  ASSUME NEW b \in Maps(STRING, Nat), NEW n \in STRING, n \notin DOMAIN b, NEW x \in Nat
  PROVE  /\ Put(b, n, x) \in Maps(STRING, Nat) /\ Extended(b, {n}, Put(b, n, x))
         /\ \A s : Named(b, s) /\ x \in 1 .. Len(s) => Named(Put(b, n, x), s)
<1> DEFINE b2 == Put(b, n, x)
<1>1. /\ b2 \in Maps(STRING, Nat) /\ \A m : m \in DOMAIN b2 <=> m \in DOMAIN b \/ m = n
      /\ b2[n] = x /\ \A m \in DOMAIN b : m # n => b2[m] = b[m]
  <2> DEFINE A == STRING
             B == Nat
             k == n
             y == x
             g == Put(b, k, y)
  <2>1. b \in Maps(A, B) /\ k \in A /\ y \in B
    OBVIOUS
  <2> HIDE DEF A, B, k, y
  <2>2. /\ g \in Maps(A, B) /\ \A m : m \in DOMAIN g <=> m \in DOMAIN b \/ m = k
        /\ g[k] = y /\ \A m \in DOMAIN b : m # k => g[m] = b[m]
    BY <2>1, PutFacts
  <2> QED
    BY <2>2 DEF A, B, k, y
<1> HIDE DEF b2
<1>2. Extended(b, {n}, b2)
  BY <1>1 DEF Extended
<1>3. \A s : Named(b, s) /\ x \in 1 .. Len(s) => Named(b2, s)
  BY <1>1 DEF Named
<1> QED
  BY <1>1, <1>2, <1>3 DEF b2

\* A new name for a term.
LEMMA BoundName ==
  ASSUME NamesInv, NEW n \in STRING, IsFresh(n), NEW s, StoreOK(s), Extends(s, nodes),
         NEW x \in 1 .. Len(s), nodes' = s, bindings' = Put(bindings, n, x),
         frames' = Bound(frames, DeclarationFrame, n), UNCHANGED <<encoder, solver, logic>>
  PROVE  NamesInv' /\ SameAssertions(frames, frames')
<1> DEFINE b == Put(bindings, n, x)
           k == DeclarationFrame
           f == Bound(frames, k, n)
<1>1. x \in Nat
  BY StoreFacts
<1>2. k \in 1 .. Len(frames) /\ frames \in Seq(Frames) /\ bindings \in Maps(STRING, Nat)
  BY ScopeFacts
<1> HIDE DEF k
<1>3. b \in Maps(STRING, Nat) /\ Extended(bindings, {n}, b) /\ Named(b, s)
  <2>1. Named(bindings, s) /\ n \notin DOMAIN bindings
    BY NamedStays DEF NamesInv, NamesTyped, IsFresh
  <2> QED
    BY <1>1, <1>2, <2>1, PutName
<1> HIDE DEF b
<1>4. Binding(frames, f, k, {n}, b)
  BY <1>2, BoundFacts
<1> HIDE DEF f
<1>5. ScopesOK(b, f) /\ Len(f) = Len(frames)
  <2>1. ScopesOK(bindings, frames)
    BY DEF NamesInv
  <2> DEFINE N == {n}
  <2>2. Binding(frames, f, k, N, b) /\ Extended(bindings, N, b)
    BY <1>3, <1>4
  <2> HIDE DEF N
  <2> QED
    BY <1>2, <2>1, <2>2, ScopesGrow
<1>6. bindings' = b /\ frames' = f
  BY DEF b, f, k
<1>7. NamesInv'
  BY <1>3, <1>5, <1>6 DEF NamesInv, NamesTyped
<1> QED
  BY <1>4, <1>6, <1>7 DEF Binding, SameAssertions

\* What a declaration and a definition do, if they do anything.
LEMMA DeclareFacts ==
  ASSUME NamesInv, NEW c \in Commands, Declare(c)
  PROVE  \/ UNCHANGED <<nodes, bindings, encoder, solver, frames, last, logic>>
         \/ /\ NamesInv' /\ SameAssertions(frames, frames') /\ Extends(nodes', nodes)
            /\ out'.kind # "error" /\ last' = None /\ UNCHANGED <<encoder, solver>>
<1> DEFINE a == FreshAtom(nodes)
<1>1. c.name \in STRING /\ c.op = "declare" /\ logic' = logic
  BY CommandsTyped DEF Declare
<1>2. CASE IsFresh(c.name)
  <2>1. /\ nodes' = a.store /\ bindings' = Put(bindings, c.name, a.term)
        /\ frames' = Bound(frames, DeclarationFrame, c.name) /\ last' = None
        /\ encoder' = encoder /\ solver' = solver /\ out'.kind = "success"
    BY <1>2 DEF Declare, Answer, InvalidateCheck
  <2>2. StoreOK(a.store) /\ Extends(a.store, nodes) /\ a.term \in 1 .. Len(a.store)
    BY FreshAtomFacts DEF NamesInv, NamesTyped
  <2> HIDE DEF a
  <2>3. NamesInv' /\ SameAssertions(frames, frames')
    BY <1>1, <1>2, <2>1, <2>2, BoundName
  <2> QED
    BY <2>1, <2>2, <2>3
<1>3. CASE ~ IsFresh(c.name)
  BY <1>1, <1>3 DEF Declare, Rejected, RolledBack
<1> QED
  BY <1>2, <1>3

\* define-fun: as a declaration, with the terms of its body.
LEMMA DefineFacts ==
  ASSUME NamesInv, NEW c \in Commands, DefineFun(c)
  PROVE  \/ UNCHANGED <<nodes, bindings, encoder, solver, frames, last, logic>>
         \/ /\ NamesInv' /\ SameAssertions(frames, frames') /\ Extends(nodes', nodes)
            /\ out'.kind # "error" /\ last' = None /\ UNCHANGED <<encoder, solver>>
<1> DEFINE a == Parsed(nodes, bindings, c.body)
<1>1. c.name \in STRING /\ c.op = "define" /\ c.body \in Seq(Members) /\ logic' = logic
  BY CommandsTyped DEF DefineFun
<1>2. CASE a.ok /\ IsFresh(c.name)
  <2>1. /\ nodes' = a.store /\ bindings' = Put(bindings, c.name, a.term)
        /\ frames' = Bound(frames, DeclarationFrame, c.name) /\ last' = None
        /\ encoder' = encoder /\ solver' = solver /\ out'.kind = "success"
    BY <1>2 DEF DefineFun, Answer, InvalidateCheck
  <2>2. StoreOK(a.store) /\ Extends(a.store, nodes) /\ a.term \in 1 .. Len(a.store)
    BY <1>1, <1>2, ParsedFacts DEF NamesInv, NamesTyped
  <2> HIDE DEF a
  <2>3. NamesInv' /\ SameAssertions(frames, frames')
    BY <1>1, <1>2, <2>1, <2>2, BoundName
  <2> QED
    BY <2>1, <2>2, <2>3
<1>3. CASE ~ (a.ok /\ IsFresh(c.name))
  BY <1>1, <1>3 DEF DefineFun, Rejected, RolledBack
<1> QED
  BY <1>2, <1>3

\* The outcomes of an assertion: it was refused, it could not be encoded, or it
\* stands in the innermost scope, with its selector if it has a label.
Stopped(c, items) ==
  \E t, w : /\ ParseOK(t, items) /\ t.ok /\ Grown(t.store, frames, Work(c), w)
            /\ HalfEncoded(t, w, items)
Standing == UNCHANGED <<nodes, bindings, encoder, solver, frames, last>>
Selector(c, x, w) ==
  /\ w \in Works /\ w.ok /\ w.encoder = x.encoder
  /\ w.solver.clauses = x.solver.clauses /\ w.solver.selectors = x.solver.selectors
  /\ IsNamed(c) => w.new = x.solver.count + 1 /\ w.solver.count = x.solver.count + 1
  /\ ~ IsNamed(c) => w.solver = x.solver

\* What an assertion does.
LEMMA AssertOutcomes ==
  ASSUME NamesInv, NEW c \in Commands, AssertTerm(c)
  PROVE  /\ logic' = logic /\ c.op = "assert"
         /\ \/ Standing
            \/ Stopped(c, <<c.item>>)
            \/ \E t, x, w : /\ ParseOK(t, <<c.item>>) /\ t.ok /\ t.terms[1] \in 1 .. Len(t.store)
                            /\ Grown(t.store, frames, Work(c), x) /\ x.ok
                            /\ t.terms[1] \in DOMAIN x.encoder.terms
                            /\ Selector(c, x, w) /\ Asserted(c, t, w)
<1> DEFINE items == <<c.item>>
           t == ParsedAll(items)
           x == Encoded(t.store, Work(c), t.terms[1])
           w == AssertWork(c, t)
<1>1. /\ c.op = "assert" /\ logic' = logic
      /\ \/ t.ok /\ w.ok /\ Asserted(c, t, w)
         \/ t.ok /\ ~ w.ok /\ HalfEncoded(t, w, items)
         \/ ~ t.ok /\ Refused(t, items) /\ Rejected
  BY DEF AssertTerm
<1>2. ParseOK(t, items) /\ c.room \in Nat
  BY <1>1, CommandFacts
<1>3. Len(items) = 1
  OBVIOUS
<1> HIDE DEF t, items
<1>4. CASE ~ t.ok
  <2>1. Refused(t, items) /\ Rejected
    BY <1>1, <1>4
  <2>2. Standing
    BY <1>2, <2>1, RefusedFacts DEF Rejected, Standing
  <2> QED
    BY <1>1, <2>2
<1>5. CASE t.ok
  <2>1. t.terms[1] \in 1 .. Len(t.store) /\ StoreOK(t.store)
    BY <1>2, <1>3, <1>5 DEF ParseOK
  <2>2. Grown(t.store, frames, Work(c), x) /\ (x.ok => t.terms[1] \in DOMAIN x.encoder.terms)
    <3> DEFINE i == t.terms[1]
               w0 == Work(c)
               s == t.store
               y == Encoded(s, w0, i)
    <3>1. w0 \in Works /\ i \in 1 .. Len(s) /\ StoreOK(s)
      BY <1>2, <2>1, WorkFacts
    <3> HIDE DEF w0, i, s
    <3>2. Grown(s, frames, w0, y) /\ (y.ok => i \in DOMAIN y.encoder.terms)
      BY <3>1, EncodedFacts
    <3> QED
      BY <3>2 DEF w0, i, s
  <2>3. x \in Works
    BY <2>2 DEF Grown
  <2> HIDE DEF x
  <2>4. CASE ~ IsNamed(c)
    <3>1. w = x
      BY <1>5, <2>4 DEF AssertWork, x
    <3> HIDE DEF w
    <3>2. CASE w.ok
      <4>1. Asserted(c, t, w)
        BY <1>1, <1>5, <3>2
      <4>2. Selector(c, x, w)
        BY <2>3, <2>4, <3>1, <3>2 DEF Selector
      <4> QED
        BY <1>1, <1>2, <1>5, <2>1, <2>2, <3>1, <3>2, <4>1, <4>2 DEF items
    <3>3. CASE ~ w.ok
      <4>1. HalfEncoded(t, w, items)
        BY <1>1, <1>5, <3>3
      <4>2. Stopped(c, items)
        BY <1>2, <1>5, <2>2, <3>1, <4>1 DEF Stopped
      <4> QED
        BY <1>1, <4>2 DEF items
    <3> QED
      BY <3>2, <3>3
  <2>5. CASE IsNamed(c)
    <3>1. w = NewVariable(x)
      BY <1>5, <2>5 DEF AssertWork, x
    <3> HIDE DEF w
    <3>2. /\ w \in Works /\ (w.ok => x.ok) /\ w.encoder = x.encoder
          /\ w.solver.clauses = x.solver.clauses /\ w.solver.selectors = x.solver.selectors
          /\ w.ok => w.new = x.solver.count + 1 /\ w.solver.count = x.solver.count + 1
          /\ ~ w.ok => w.solver = x.solver
      BY <2>3, <3>1, NewVariableFacts
    <3>3. CASE w.ok
      <4>1. Asserted(c, t, w)
        BY <1>1, <1>5, <3>3
      <4>2. Selector(c, x, w)
        BY <2>5, <3>2, <3>3 DEF Selector
      <4> QED
        BY <1>1, <1>2, <1>5, <2>1, <2>2, <3>2, <3>3, <4>1, <4>2 DEF items
    <3>4. CASE ~ w.ok
      <4>1. HalfEncoded(t, w, items)
        BY <1>1, <1>5, <3>4
      <4>2. Grown(t.store, frames, x, w)
        BY <2>3, <3>2, <3>4, SameGrows
      <4>3. Grown(t.store, frames, Work(c), w)
        BY <1>2, <2>2, <4>2, WorkFacts, GrownFacts
      <4>4. Stopped(c, items)
        BY <1>2, <1>5, <4>1, <4>3 DEF Stopped
      <4> QED
        BY <1>1, <4>4 DEF items
    <3> QED
      BY <3>3, <3>4
  <2> QED
    BY <2>4, <2>5
<1> QED
  BY <1>4, <1>5

\* What a check does.
Checked(c, t, w) ==
  /\ nodes' = t.store /\ encoder' = w.encoder /\ solver' = w.solver
  /\ bindings' = t.bindings /\ frames' = Labelled(frames, c.items, t.bindings)
  /\ Answered(w, Range(t.terms))

\* A check answers, stops half encoded, or is refused.
LEMMA CheckOutcomes ==
  ASSUME NamesInv, NEW c \in Commands, CheckSat(c)
  PROVE  /\ logic' = logic /\ c.op = "check"
         /\ \/ Standing
            \/ Stopped(c, c.items)
            \/ \E t, w : /\ ParseOK(t, c.items) /\ t.ok
                         /\ \A k \in 1 .. Len(t.terms) : t.terms[k] \in 1 .. Len(t.store)
                         /\ Grown(t.store, frames, Work(c), w) /\ w.ok
                         /\ Range(t.terms) \subseteq DOMAIN w.encoder.terms
                         /\ Checked(c, t, w)
<1> DEFINE items == c.items
           t == ParsedAll(items)
           x == EncodedAll(t.store, Work(c), t.terms)
           w == IF t.ok THEN x ELSE Work(c)
<1>1. /\ c.op = "check" /\ logic' = logic
      /\ \/ t.ok /\ w.ok /\ Checked(c, t, w)
         \/ t.ok /\ ~ w.ok /\ HalfEncoded(t, w, items)
         \/ ~ t.ok /\ Refused(t, items) /\ Rejected
  BY DEF CheckSat, Checked
<1>2. ParseOK(t, items) /\ c.room \in Nat
  BY <1>1, CommandFacts
<1> HIDE DEF t, items
<1>3. CASE ~ t.ok
  <2>1. Refused(t, items) /\ Rejected
    BY <1>1, <1>3
  <2>2. Standing
    BY <1>2, <2>1, RefusedFacts DEF Rejected, Standing
  <2> QED
    BY <1>1, <2>2
<1>4. CASE t.ok
  <2>1. /\ t.terms \in Seq(Nat) /\ StoreOK(t.store)
        /\ \A k \in 1 .. Len(t.terms) : t.terms[k] \in 1 .. Len(t.store)
    BY <1>2, <1>4 DEF ParseOK
  <2>2. Grown(t.store, frames, Work(c), x) /\ (x.ok => Range(t.terms) \subseteq DOMAIN x.encoder.terms)
    <3> DEFINE ts == t.terms
               w0 == Work(c)
               s == t.store
               y == EncodedAll(s, w0, ts)
    <3>1. /\ w0 \in Works /\ ts \in Seq(Nat) /\ StoreOK(s)
          /\ \A k \in 1 .. Len(ts) : ts[k] \in 1 .. Len(s)
      BY <1>2, <2>1, WorkFacts
    <3> HIDE DEF w0, ts, s
    <3>2. Grown(s, frames, w0, y) /\ (y.ok => Range(ts) \subseteq DOMAIN y.encoder.terms)
      BY <3>1, EncodedAllFacts
    <3> QED
      BY <3>2 DEF w0, ts, s
  <2> HIDE DEF x
  <2>3. w = x
    BY <1>4
  <2> HIDE DEF w
  <2>4. CASE w.ok
    <3>1. Checked(c, t, w)
      BY <1>1, <1>4, <2>4
    <3> QED
      BY <1>1, <1>2, <1>4, <2>1, <2>2, <2>3, <2>4, <3>1 DEF items
  <2>5. CASE ~ w.ok
    <3>1. HalfEncoded(t, w, items)
      BY <1>1, <1>4, <2>5
    <3>2. Stopped(c, items)
      BY <1>2, <1>4, <2>2, <2>3, <3>1 DEF Stopped
    <3> QED
      BY <1>1, <3>2 DEF items
  <2> QED
    BY <2>4, <2>5
<1> QED
  BY <1>3, <1>4

\* A command that stopped half way.
LEMMA StoppedNames ==
  ASSUME NamesInv, NEW c, NEW items, c.room \in Nat, Stopped(c, items), logic' = logic
  PROVE  NamesInv' /\ Harmless
<1>1. PICK t, w : /\ ParseOK(t, items) /\ Grown(t.store, frames, Work(c), w)
                  /\ HalfEncoded(t, w, items)
  BY DEF Stopped
<1> QED
  BY <1>1, HalfFacts

\* What a successful assertion adds to the scope stack.
LEMMA EnteredFacts ==
  ASSUME NamesInv, NEW c, NEW t, NEW w, c.item.label \in STRING, t.terms[1] \in Nat, w.new \in Nat
  PROVE  LET f2 == Entered(c, t, w)
             k == Len(frames)
         IN  /\ f2 \in Seq(Frames) /\ Len(f2) = k
             /\ \A i \in 1 .. k : f2[i].bound = frames[i].bound /\ f2[i].labels = frames[i].labels
             /\ \A i \in 1 .. k : i # k => f2[i] = frames[i]
             /\ \A a : a \in f2[k].asserted <=> \/ a \in frames[k].asserted
                                                \/ a = [term |-> t.terms[1], label |-> c.item.label]
             /\ \A n : n \in f2[k].named <=>
                  \/ n \in frames[k].named
                  \/ IsNamed(c) /\ n = [name |-> c.item.label, selector |-> w.new]
<1> DEFINE k == Len(frames)
           r == [term |-> t.terms[1], label |-> c.item.label]
           q == [name |-> c.item.label, selector |-> w.new]
           R == {r}
           Q == IF IsNamed(c) THEN {q} ELSE {}
           A == frames[k].asserted \cup R
           N == frames[k].named \cup Q
           g == [frames[k] EXCEPT !.asserted = A, !.named = N]
           f2 == Entered(c, t, w)
<1>1. frames \in Seq(Frames) /\ k \in 1 .. Len(frames)
  <2>1. frames \in Seq(Frames) /\ k \in Nat /\ k >= 1
    BY ScopeFacts
  <2> QED
    BY <2>1
<1>2. /\ frames[k] \in Frames /\ frames[k].named \in SUBSET [name : STRING, selector : Nat]
      /\ frames[k].asserted \in SUBSET [term : Nat, label : STRING]
  BY <1>1, FrameFacts
<1>3. f2 = [frames EXCEPT ![k] = g]
  BY DEF Entered
<1>4. r \in [term : Nat, label : STRING] /\ q \in [name : STRING, selector : Nat]
  OBVIOUS
<1>5. /\ \A a : a \in A <=> a \in frames[k].asserted \/ a = r
      /\ \A n : n \in N <=> n \in frames[k].named \/ (IsNamed(c) /\ n = q)
  <2> HIDE DEF r, q
  <2> QED
    OBVIOUS
<1> HIDE DEF r, q, k
<1>6. A \in SUBSET [term : Nat, label : STRING] /\ N \in SUBSET [name : STRING, selector : Nat]
  BY <1>2, <1>4
<1> HIDE DEF A, N
<1>7. /\ g \in Frames /\ g.bound = frames[k].bound /\ g.labels = frames[k].labels
      /\ g.named = N /\ g.asserted = A
  BY <1>2, <1>6 DEF Frames
<1> HIDE DEF g, f2
<1>8. /\ f2 \in Seq(Frames) /\ Len(f2) = Len(frames) /\ f2[k] = g
      /\ \A i \in 1 .. Len(frames) : i # k => f2[i] = frames[i]
  BY <1>1, <1>3, <1>7, Replaced
<1>9. \A i \in 1 .. k : f2[i].bound = frames[i].bound /\ f2[i].labels = frames[i].labels
  BY <1>7, <1>8 DEF k
<1> QED
  BY <1>5, <1>7, <1>8, <1>9 DEF f2, r, q, k

\* Assertions, checks and queries keep the names.
LEMMA AssertNames ==
  ASSUME NamesInv, NEW c \in Commands, AssertTerm(c)
  PROVE  NamesInv' /\ Harmless
<1> DEFINE items == <<c.item>>
<1>1. logic' = logic /\ c.op = "assert" /\ c.room \in Nat /\ c.item.label \in STRING
  BY AssertOutcomes, CommandFacts
<1>2. CASE Standing
  BY <1>1, <1>2, IdleFacts DEF Standing, NamesInv
<1>3. CASE Stopped(c, items)
  <2> HIDE DEF items
  <2> QED
    BY <1>1, <1>3, StoppedNames
<1>4. ASSUME NEW t, NEW x, NEW w, ParseOK(t, items), t.ok, t.terms[1] \in 1 .. Len(t.store),
             Grown(t.store, frames, Work(c), x), x.ok, t.terms[1] \in DOMAIN x.encoder.terms,
             Selector(c, x, w), Asserted(c, t, w)
      PROVE  NamesInv' /\ Harmless
  <2> DEFINE f == Entered(c, t, w)
             f2 == Labelled(f, items, t.bindings)
             l == w.encoder.terms[t.terms[1]]
             C == w.solver.clauses \cup {Clause(c, t, w)}
             v == [w.solver EXCEPT !.clauses = C]
  <2>1. /\ nodes' = t.store /\ encoder' = w.encoder /\ bindings' = t.bindings
        /\ solver' = v /\ frames' = f2 /\ out'.kind = "success"
    BY <1>4 DEF Asserted, Answer
  <2>2. w \in Works /\ x \in Works /\ w.encoder = x.encoder /\ w.solver.selectors = solver.selectors
    <3>1. x \in Works /\ x.solver.selectors = Work(c).solver.selectors
      BY <1>4 DEF Grown, Keeps
    <3>2. Work(c).solver = solver
      BY <1>1, WorkFacts
    <3> QED
      BY <1>4, <3>1, <3>2 DEF Selector
  <2>3. w.new \in Nat /\ t.terms[1] \in Nat
    <3>1. Len(t.store) \in Nat
      BY <1>4, StoreFacts DEF ParseOK
    <3> QED
      BY <1>4, <2>2, <3>1 DEF Works
  <2>4. l \in Int
    <3>1. w.encoder.terms \in Maps(Nat, Int)
      BY <2>2 DEF Works, Encoders
    <3> QED
      BY <1>4, <2>2, <3>1, MapsFacts
  <2>5. Clause(c, t, w) \in SUBSET Int
    <3>1. solver.selectors = << >> \/ Last(solver.selectors) \in Int
      <4> DEFINE q == solver.selectors
      <4>1. q \in Seq(Nat)
        BY ScopeFacts
      <4> HIDE DEF q
      <4>2. q = << >> \/ Last(q) \in Int
        BY <4>1 DEF Last
      <4> QED
        BY <4>2 DEF q
    <3>2. -w.new \in Int
      BY <2>3
    <3> HIDE DEF l
    <3>3. Clause(c, t, w) = Guarded({l} \cup IF IsNamed(c) THEN {-w.new} ELSE {})
      BY DEF Clause, l
    <3>4. {l} \cup (IF IsNamed(c) THEN {-w.new} ELSE {}) \in SUBSET Int
      BY <2>4, <3>2
    <3> QED
      BY <3>1, <3>3, <3>4 DEF Guarded
  <2>6. v \in Solvers /\ v.selectors = solver.selectors
    <3>1. w.solver \in Solvers /\ w.solver.clauses \in Clauses
      BY <2>2 DEF Works, Solvers
    <3>2. C \in Clauses
      BY <2>5, <3>1 DEF Clauses
    <3> HIDE DEF C
    <3> QED
      BY <2>2, <3>1, <3>2 DEF Solvers
  <2> HIDE DEF v, l, C
  <2>7. /\ f \in Seq(Frames) /\ Len(f) = Len(frames)
        /\ \A i \in 1 .. Len(frames) : f[i].bound = frames[i].bound /\ f[i].labels = frames[i].labels
    BY <1>1, <2>3, EnteredFacts
  <2> HIDE DEF f
  <2>8. ScopesOK(bindings, f)
    <3>1. ScopesOK(bindings, frames)
      BY DEF NamesInv
    <3> QED
      BY <2>7, <3>1, ScopesSame
  <2> HIDE DEF items
  <2>9. ScopesOK(t.bindings, f2) /\ Len(f2) = Len(frames)
    BY <1>4, <2>7, <2>8, CommitFacts
  <2> HIDE DEF f2
  <2>10. StoreOK(t.store) /\ Named(t.bindings, t.store) /\ t.bindings \in Maps(STRING, Nat)
    BY <1>4, ParsedNames
  <2>11. NamesTyped'
    BY <2>1, <2>10 DEF NamesTyped
  <2>12. encoder' \in Encoders /\ solver' \in Solvers
    BY <2>1, <2>2, <2>6 DEF Works
  <2>13. ScopesOK(bindings', frames') /\ Len(frames') = Len(solver'.selectors) + 1
    BY <2>1, <2>6, <2>9 DEF NamesInv
  <2> QED
    BY <1>1, <2>1, <2>11, <2>12, <2>13 DEF NamesInv, Harmless
<1> QED
  BY <1>2, <1>3, <1>4, AssertOutcomes

\* check-sat-assuming keeps the names, answered, stopped or refused.
LEMMA CheckNames ==
  ASSUME NamesInv, NEW c \in Commands, CheckSat(c)
  PROVE  NamesInv' /\ Harmless
<1>1. logic' = logic /\ c.op = "check" /\ c.room \in Nat
  BY CheckOutcomes, CommandFacts
<1>2. CASE Standing
  BY <1>1, <1>2, IdleFacts DEF Standing, NamesInv
<1>3. CASE Stopped(c, c.items)
  <2> DEFINE items == c.items
  <2>1. Stopped(c, items)
    BY <1>3
  <2> HIDE DEF items
  <2> QED
    BY <1>1, <2>1, StoppedNames
<1>4. ASSUME NEW t, NEW w, ParseOK(t, c.items), t.ok, Grown(t.store, frames, Work(c), w), w.ok,
             Checked(c, t, w)
      PROVE  NamesInv' /\ Harmless
  <2> DEFINE items == c.items
             f2 == Labelled(frames, items, t.bindings)
  <2>1. /\ nodes' = t.store /\ encoder' = w.encoder /\ bindings' = t.bindings
        /\ solver' = w.solver /\ frames' = f2
    BY <1>4 DEF Checked
  <2>2. out'.kind # "error"
    BY <1>4 DEF Checked, Answered, Answer
  <2>3. w \in Works /\ w.solver.selectors = solver.selectors
    BY <1>1, <1>4, WorkFacts DEF Grown, Keeps
  <2>4. ParseOK(t, items) /\ ScopesOK(bindings, frames)
    BY <1>4 DEF NamesInv
  <2> HIDE DEF items
  <2>5. ScopesOK(t.bindings, f2) /\ Len(f2) = Len(frames)
    BY <1>4, <2>4, CommitFacts
  <2> HIDE DEF f2
  <2>6. StoreOK(t.store) /\ Named(t.bindings, t.store) /\ t.bindings \in Maps(STRING, Nat)
    BY <1>4, <2>4, ParsedNames
  <2>7. NamesTyped'
    BY <2>1, <2>6 DEF NamesTyped
  <2>8. encoder' \in Encoders /\ solver' \in Solvers
    BY <2>1, <2>3 DEF Works
  <2>9. ScopesOK(bindings', frames') /\ Len(frames') = Len(solver'.selectors) + 1
    BY <2>1, <2>3, <2>5 DEF NamesInv
  <2> QED
    BY <1>1, <2>1, <2>2, <2>7, <2>8, <2>9 DEF NamesInv, Harmless
<1> QED
  BY <1>2, <1>3, <1>4, CheckOutcomes

\* A query keeps its labels, and the terms of the labels.
LEMMA ValueOutcomes ==
  ASSUME NamesInv, NEW c \in Commands, GetValue(c)
  PROVE  /\ logic' = logic
         /\ \/ Standing
            \/ /\ NamesInv' /\ SameAssertions(frames, frames') /\ Extends(nodes', nodes)
               /\ out'.kind # "error" /\ UNCHANGED <<encoder, solver, last>>
<1> DEFINE items == c.items
           t == ParsedAll(items)
           f2 == Labelled(frames, items, t.bindings)
<1>1. c.op = "value" /\ logic' = logic
  BY DEF GetValue
<1>2. ParseOK(t, items)
  BY <1>1, CommandFacts
<1>3. CASE t.ok /\ HasModel("produce-models")
  <2>1. /\ nodes' = t.prepared /\ bindings' = t.bindings /\ frames' = f2
        /\ out'.kind = "values" /\ UNCHANGED <<encoder, solver, last>>
    BY <1>3 DEF GetValue, RolledBack
  <2> HIDE DEF t, items
  <2>2. ScopesOK(bindings, frames)
    BY DEF NamesInv
  <2>3. /\ ScopesOK(t.bindings, f2) /\ Len(f2) = Len(frames)
        /\ \A i \in 1 .. Len(frames) : f2[i].named = frames[i].named /\ f2[i].asserted = frames[i].asserted
    BY <1>2, <1>3, <2>2, CommitFacts
  <2> HIDE DEF f2
  <2>4. /\ StoreOK(t.prepared) /\ Named(t.bindings, t.prepared) /\ t.bindings \in Maps(STRING, Nat)
        /\ Extends(t.prepared, nodes)
    BY <1>2, <1>3, ParsedNames
  <2>5. NamesTyped'
    BY <2>1, <2>4 DEF NamesTyped
  <2>6. ScopesOK(bindings', frames') /\ Len(frames') = Len(solver'.selectors) + 1
    BY <2>1, <2>3 DEF NamesInv
  <2>7. NamesInv'
    BY <1>1, <2>1, <2>5, <2>6 DEF NamesInv
  <2> QED
    BY <1>1, <2>1, <2>3, <2>4, <2>7 DEF SameAssertions
<1>4. CASE ~ (t.ok /\ HasModel("produce-models"))
  <2>1. Refused(t, items) /\ Rejected
    BY <1>4 DEF GetValue
  <2> HIDE DEF t, items
  <2> QED
    BY <1>1, <1>2, <2>1, RefusedFacts DEF Rejected, Standing
<1> QED
  BY <1>3, <1>4

\* The scopes: one more, one less.
LEMMA PushNames ==
  ASSUME NamesInv, NEW c \in Commands, Push(c)
  PROVE  NamesInv' /\ Harmless
<1>1. logic' = logic /\ nodes' = nodes /\ bindings' = bindings
  BY DEF Push
<1>2. CASE c.room > 0
  <2> DEFINE q == solver.selectors
             m == solver.count + 1
             q2 == Append(q, m)
             v == [solver EXCEPT !.count = m, !.selectors = q2]
             f2 == Append(frames, EmptyFrame)
  <2>1. /\ solver' = v /\ frames' = f2 /\ encoder' = encoder /\ out'.kind = "success"
    BY <1>2 DEF Push, Answer
  <2>2. q \in Seq(Nat) /\ m \in Nat /\ solver \in Solvers /\ Len(q) = Len(frames) - 1 /\ Len(frames) \in Nat
    BY ScopeFacts DEF NamesInv
  <2> HIDE DEF q, m
  <2>3. q2 \in Seq(Nat) /\ Len(q2) = Len(q) + 1
    BY <2>2
  <2> HIDE DEF q2
  <2>4. v \in Solvers /\ v.selectors = q2
    BY <2>2, <2>3 DEF Solvers
  <2> HIDE DEF v
  <2>5. ScopesOK(bindings, f2)
    BY ScopesPushed DEF NamesInv
  <2>6. Len(f2) = Len(frames) + 1
    <3>1. frames \in Seq(Frames)
      BY ScopeFacts
    <3> QED
      BY <3>1
  <2> HIDE DEF f2
  <2>7. ScopesOK(bindings', frames') /\ Len(frames') = Len(solver'.selectors) + 1
    BY <1>1, <2>1, <2>2, <2>3, <2>4, <2>5, <2>6
  <2> QED
    BY <1>1, <2>1, <2>4, <2>7 DEF NamesInv, NamesTyped, Harmless
<1>3. CASE ~ (c.room > 0)
  <2>1. UNCHANGED <<nodes, bindings, encoder, solver, frames, last>> /\ logic' \in BOOLEAN
    BY <1>1, <1>3 DEF Push, Rejected, NamesInv
  <2> QED
    BY <2>1, IdleFacts
<1> QED
  BY <1>2, <1>3

\* pop keeps the names: exactly those of the popped scope go.
LEMMA PopNames ==
  ASSUME NamesInv, NEW c \in Commands, Pop(c)
  PROVE  NamesInv' /\ Harmless
<1>1. logic' = logic /\ nodes' = nodes
  BY DEF Pop
<1>2. CASE Len(frames) > 1
  <2> DEFINE q == solver.selectors
             q2 == Front(q)
             C == solver.clauses \cup {{-Last(q)}}
             v == [solver EXCEPT !.clauses = C, !.selectors = q2]
             f2 == Front(frames)
             b2 == [n \in DOMAIN bindings \ Last(frames).bound |-> bindings[n]]
  <2>1. /\ solver' = v /\ frames' = f2 /\ encoder' = encoder /\ bindings' = b2 /\ out'.kind = "success"
    BY <1>2 DEF Pop, Answer
  <2>2. /\ q \in Seq(Nat) /\ solver \in Solvers /\ Len(q) = Len(frames) - 1 /\ Len(frames) \in Nat
        /\ solver.clauses \in Clauses
    BY ScopeFacts DEF NamesInv
  <2>3. ScopesOK(b2, f2)
    BY <1>2, ScopesShrink DEF NamesInv
  <2>4. Len(f2) = Len(frames) - 1
    <3>1. frames \in Seq(Frames)
      BY ScopeFacts
    <3> QED
      BY <1>2, <3>1 DEF Front
  <2>5. Named(b2, nodes)
    <3>1. Named(bindings, nodes)
      BY DEF NamesInv, NamesTyped
    <3> QED
      BY <3>1 DEF Named
  <2>6. b2 \in Maps(STRING, Nat)
    BY <2>3 DEF ScopesOK
  <2> HIDE DEF q, f2, b2
  <2>7. q2 \in Seq(Nat) /\ Len(q2) = Len(q) - 1 /\ Last(q) \in Nat
    BY <1>2, <2>2 DEF Front, Last
  <2> HIDE DEF q2
  <2>8. C \in Clauses
    <3>1. -Last(q) \in Int
      BY <2>7
    <3> QED
      BY <2>2, <3>1 DEF Clauses
  <2> HIDE DEF C
  <2>9. v \in Solvers /\ v.selectors = q2
    BY <2>2, <2>7, <2>8 DEF Solvers
  <2> HIDE DEF v
  <2>10. ScopesOK(bindings', frames') /\ Len(frames') = Len(solver'.selectors) + 1
    BY <2>1, <2>2, <2>3, <2>4, <2>7, <2>9
  <2> QED
    BY <1>1, <2>1, <2>5, <2>6, <2>9, <2>10 DEF NamesInv, NamesTyped, Harmless
<1>3. CASE ~ (Len(frames) > 1)
  <2>1. UNCHANGED <<nodes, bindings, encoder, solver, frames, last>> /\ logic' \in BOOLEAN
    BY <1>1, <1>3 DEF Pop, Rejected, NamesInv
  <2> QED
    BY <2>1, IdleFacts
<1> QED
  BY <1>2, <1>3

\* What a session begins with.
LEMMA EmptyFacts ==
  /\ StoreOK(EmptyStore) /\ Unbound \in Maps(STRING, Nat) /\ Named(Unbound, EmptyStore)
  /\ ScopesOK(Unbound, <<EmptyFrame>>) /\ EmptyEncoder \in Encoders /\ EmptySolver \in Solvers
  /\ EmptySolver.selectors = << >> /\ Len(<<EmptyFrame>>) = 1
<1>1. StoreOK(EmptyStore)
  BY DEF StoreOK, EmptyStore, Nodes, TrueTerm, FalseTerm
<1>2. Unbound \in Maps(STRING, Nat) /\ DOMAIN Unbound = {} /\ Named(Unbound, EmptyStore)
  BY UnboundFacts DEF Named
<1>3. ScopesOK(Unbound, <<EmptyFrame>>)
  <2>1. EmptyFrame \in Frames /\ EmptyFrame.bound = {} /\ EmptyFrame.labels = {}
    BY DEF EmptyFrame, Frames
  <2> DEFINE f == <<EmptyFrame>>
  <2>2. f \in Seq(Frames) /\ Len(f) = 1 /\ f[1] = EmptyFrame
    BY <2>1
  <2> HIDE DEF f
  <2> QED
    BY <1>2, <2>1, <2>2 DEF ScopesOK, f
<1>4. EmptyEncoder \in Encoders
  <2>1. Unbound \in Maps(Nat, Int) /\ Unbound \in Maps(Nat, Nat)
    BY UnboundFacts
  <2> HIDE DEF Unbound
  <2> QED
    BY <2>1 DEF EmptyEncoder, Encoders
<1>5. EmptySolver \in Solvers /\ EmptySolver.selectors = << >>
  BY DEF EmptySolver, Solvers, Clauses
<1> QED
  BY <1>1, <1>2, <1>3, <1>4, <1>5

\* reset-assertions with global declarations: every name goes to the base scope.
LEMMA GlobalFrame ==
  ASSUME NamesInv
  PROVE  LET g == [EmptyFrame EXCEPT !.bound = DOMAIN bindings,
                                     !.labels = UNION {frames[i].labels : i \in DOMAIN frames}]
         IN  /\ ScopesOK(bindings, <<g>>) /\ Len(<<g>>) = 1
             /\ <<g>>[1].named = {} /\ <<g>>[1].asserted = {}
<1> DEFINE A == DOMAIN bindings
           L == UNION {frames[i].labels : i \in DOMAIN frames}
           g == [EmptyFrame EXCEPT !.bound = A, !.labels = L]
<1>1. /\ \A n : n \in DOMAIN bindings <=> \E i \in 1 .. Len(frames) : n \in frames[i].bound
      /\ \A i \in 1 .. Len(frames) : \A l \in frames[i].labels : l.name \in frames[i].bound /\ bindings[l.name] = l.term
      /\ bindings \in Maps(STRING, Nat) /\ frames \in Seq(Frames) /\ DOMAIN frames = 1 .. Len(frames)
  BY ScopeFacts DEF NamesInv, ScopesOK
<1>2. A \in SUBSET STRING
  BY <1>1, MapsFacts
<1>3. ASSUME NEW l \in L PROVE l \in [name : STRING, term : Nat] /\ l.name \in A /\ bindings[l.name] = l.term
  <2>1. PICK i \in 1 .. Len(frames) : l \in frames[i].labels
    BY <1>1
  <2>2. frames[i].labels \in SUBSET [name : STRING, term : Nat]
    BY <1>1, <2>1, FrameFacts
  <2> QED
    BY <1>1, <2>1, <2>2
<1>4. L \in SUBSET [name : STRING, term : Nat]
  BY <1>3
<1>5. EmptyFrame \in Frames /\ EmptyFrame.named = {} /\ EmptyFrame.asserted = {}
  BY DEF EmptyFrame, Frames
<1> HIDE DEF L
<1>6. /\ g \in Frames /\ g.bound = DOMAIN bindings /\ g.labels = L /\ g.named = {} /\ g.asserted = {}
  BY <1>2, <1>4, <1>5 DEF Frames
<1> DEFINE f == <<g>>
<1> HIDE DEF g
<1>7. f \in Seq(Frames) /\ Len(f) = 1 /\ f[1] = g
  BY <1>6
<1> HIDE DEF f
<1>8. ScopesOK(bindings, f)
  BY <1>1, <1>3, <1>6, <1>7 DEF ScopesOK
<1> QED
  BY <1>6, <1>7, <1>8 DEF f, g, L

\* reset-assertions and reset.
LEMMA ResetNames ==
  ASSUME NamesInv, NEW c \in Commands, ResetAssertions(c) \/ Reset(c)
  PROVE  NamesInv' /\ Harmless
<1>1. out'.kind = "success" /\ encoder' = EmptyEncoder /\ solver' = EmptySolver /\ logic' \in BOOLEAN
  <2>1. CASE ResetAssertions(c)
    <3>1. out' = Answer("success") /\ encoder' = EmptyEncoder /\ solver' = EmptySolver /\ logic' = logic
      BY <2>1 DEF ResetAssertions
    <3> QED
      BY <3>1 DEF Answer, NamesInv
  <2>2. CASE Reset(c)
    <3>1. out' = Answer("success") /\ encoder' = EmptyEncoder /\ solver' = EmptySolver /\ logic' = FALSE
      BY <2>2 DEF Reset
    <3> QED
      BY <3>1 DEF Answer
  <2> QED
    BY <2>1, <2>2
<1>2. CASE ResetAssertions(c) /\ "global-declarations" \in options
  <2> DEFINE g == [EmptyFrame EXCEPT !.bound = DOMAIN bindings,
                                     !.labels = UNION {frames[i].labels : i \in DOMAIN frames}]
  <2>1. frames' = <<g>> /\ nodes' = nodes /\ bindings' = bindings
    BY <1>2 DEF ResetAssertions
  <2>2. ScopesOK(bindings, <<g>>) /\ Len(<<g>>) = 1
    BY GlobalFrame
  <2> HIDE DEF g
  <2>3. ScopesOK(bindings', frames') /\ Len(frames') = Len(solver'.selectors) + 1
    BY <1>1, <2>1, <2>2, EmptyFacts
  <2> QED
    BY <1>1, <2>1, <2>3, EmptyFacts DEF NamesInv, NamesTyped, Harmless
<1>3. CASE ~ (ResetAssertions(c) /\ "global-declarations" \in options)
  <2>1. frames' = <<EmptyFrame>> /\ nodes' = EmptyStore /\ bindings' = Unbound
    BY <1>3 DEF ResetAssertions, Reset
  <2>2. ScopesOK(bindings', frames') /\ Len(frames') = Len(solver'.selectors) + 1
    BY <1>1, <2>1, EmptyFacts
  <2> QED
    BY <1>1, <2>1, <2>2, EmptyFacts DEF NamesInv, NamesTyped, Harmless
<1> QED
  BY <1>2, <1>3

\* A command that only reads or configures.
LEMMA ReadFacts ==
  ASSUME NamesInv, NEW c \in Commands,
         Configure(c) \/ Inspect(c) \/ (Rejected /\ UNCHANGED <<nodes, bindings, logic, options>>)
  PROVE  Standing /\ logic' \in BOOLEAN
<1>1. CASE Configure(c)
  BY <1>1 DEF Configure, Standing, NamesInv
<1>2. CASE Inspect(c)
  BY <1>2 DEF Inspect, Standing, NamesInv
<1>3. CASE Rejected /\ UNCHANGED <<nodes, bindings, logic, options>>
  BY <1>3 DEF Rejected, Standing, NamesInv
<1> QED
  BY <1>1, <1>2, <1>3

\* Every command keeps the names and the scopes, and an error changes nothing.
LEMMA StepNames ==
  ASSUME NamesInv, Next
  PROVE  NamesInv' /\ Harmless
<1>1. PICK c \in Commands : Execute(c)
  BY DEF Next
<1>2. ASSUME Standing, logic' \in BOOLEAN PROVE NamesInv' /\ Harmless
  BY <1>2, IdleFacts DEF Standing
<1>3. ASSUME NamesInv', out'.kind # "error" PROVE NamesInv' /\ Harmless
  BY <1>3 DEF Harmless
<1>4. CASE Configure(c) \/ Inspect(c) \/ (Rejected /\ UNCHANGED <<nodes, bindings, logic, options>>)
  BY <1>2, <1>4, ReadFacts
<1>5. CASE Declare(c)
  <2>1. Standing => logic' \in BOOLEAN
    BY <1>5 DEF Declare, NamesInv
  <2> QED
    BY <1>2, <1>3, <1>5, <2>1, DeclareFacts DEF Standing
<1>6. CASE DefineFun(c)
  <2>1. Standing => logic' \in BOOLEAN
    BY <1>6 DEF DefineFun, NamesInv
  <2> QED
    BY <1>2, <1>3, <1>6, <2>1, DefineFacts DEF Standing
<1>7. CASE GetValue(c)
  <2>1. logic' \in BOOLEAN
    BY <1>7 DEF GetValue, NamesInv
  <2> QED
    BY <1>2, <1>3, <1>7, <2>1, ValueOutcomes
<1>8. CASE AssertTerm(c) \/ CheckSat(c) \/ Push(c) \/ Pop(c) \/ ResetAssertions(c) \/ Reset(c)
  BY <1>8, AssertNames, CheckNames, PushNames, PopNames, ResetNames
<1> QED
  BY <1>1, <1>4, <1>5, <1>6, <1>7, <1>8 DEF Execute

\* Every command keeps the names, the scopes and the store in order (NamesInv).
\* Init and one lemma per command of Session::execute.
THEOREM NamesKept == Spec => []NamesInv
<1>1. Init => NamesInv
  <2> SUFFICES ASSUME Init PROVE NamesInv
    OBVIOUS
  <2>1. /\ nodes = EmptyStore /\ encoder = EmptyEncoder /\ solver = EmptySolver
        /\ bindings = Unbound /\ frames = <<EmptyFrame>> /\ logic \in BOOLEAN
    BY DEF Init
  <2>2. NamesTyped /\ encoder \in Encoders /\ solver \in Solvers /\ ScopesOK(bindings, frames)
    BY <2>1, EmptyFacts DEF NamesTyped
  <2>3. Len(frames) = Len(solver.selectors) + 1
    <3>1. Len(<< >>) = 0
      OBVIOUS
    <3> QED
      BY <2>1, <3>1, EmptyFacts
  <2> QED
    BY <2>1, <2>2, <2>3 DEF NamesInv
<1>2. NamesInv /\ [Next]_vars => NamesInv'
  <2>1. ASSUME NamesInv, UNCHANGED vars PROVE NamesInv'
    BY <2>1 DEF vars, NamesInv, NamesTyped
  <2> QED
    BY <2>1, StepNames
<1> QED
  BY <1>1, <1>2, PTL DEF Spec

\* Whatever a script says, the scope stack, the activation literals and the
\* visible names stand together: push, pop, the declarations, the labels of
\* annotated terms, commands that fail and the resets keep them so (the scope
\* stack of Session::execute and the scope_selectors of its solver).
THEOREM ScopesStandTogether == Spec => []ScopesAgree
<1>1. NamesInv => ScopesAgree
  <2> SUFFICES ASSUME NamesInv PROVE ScopesAgree
    OBVIOUS
  <2>1. DOMAIN frames = 1 .. Len(frames)
    BY ScopeFacts
  <2>2. /\ \A n : n \in DOMAIN bindings <=> \E i \in 1 .. Len(frames) : n \in frames[i].bound
        /\ \A i, j \in 1 .. Len(frames) : i # j => \A n \in frames[i].bound : n \notin frames[j].bound
        /\ \A i \in 1 .. Len(frames) : \A l \in frames[i].labels :
             l.name \in frames[i].bound /\ bindings[l.name] = l.term
    BY DEF NamesInv, ScopesOK
  <2>3. DOMAIN bindings = UNION {frames[i].bound : i \in DOMAIN frames}
    <3>1. \A n : n \in UNION {frames[i].bound : i \in DOMAIN frames}
                   <=> \E i \in 1 .. Len(frames) : n \in frames[i].bound
      BY <2>1
    <3> HIDE DEF NamesInv
    <3>2. \A n : n \in DOMAIN bindings <=> n \in UNION {frames[i].bound : i \in DOMAIN frames}
      BY <2>2, <3>1
    <3> QED
      BY <3>2
  <2>4. \A i, j \in DOMAIN frames : i # j => frames[i].bound \cap frames[j].bound = {}
    BY <2>1, <2>2
  <2>5. \A i \in DOMAIN frames : \A l \in frames[i].labels : bindings[l.name] = l.term
    BY <2>1, <2>2
  <2>6. Len(frames) = Len(solver.selectors) + 1
    BY DEF NamesInv
  <2> QED
    BY <2>3, <2>4, <2>5, <2>6 DEF ScopesAgree
<1> QED
  BY <1>1, NamesKept, PTL

\* The mode a command that fails leaves.
LEMMA ErrorKeepsMode ==
  ASSUME NamesInv, NEW c \in Commands, Execute(c), out'.kind = "error"
  PROVE  logic' = logic /\ options' = options
<1>1. CASE Rejected /\ UNCHANGED <<nodes, bindings, logic, options>>
  BY <1>1
<1>2. CASE Configure(c)
  <2>1. logic \in BOOLEAN
    BY DEF NamesInv
  <2>2. \/ out' = Answer("error") /\ logic' = logic /\ options' = options
        \/ out' = Answer("success")
    <3>1. CASE logic' = TRUE /\ UNCHANGED options /\ out' = Answer(IF logic THEN "error" ELSE "success")
      <4>1. CASE logic
        BY <2>1, <3>1, <4>1
      <4>2. CASE ~ logic
        BY <3>1, <4>2
      <4> QED
        BY <4>1, <4>2
    <3>2. CASE /\ IF logic /\ c.names # {"reproducible-resource-limit"}
                  THEN out' = Answer("error") /\ UNCHANGED options
                  ELSE options' = options \cup c.names /\ out' = Answer("success")
               /\ UNCHANGED logic
      BY <3>2
    <3> QED
      BY <1>2, <3>1, <3>2 DEF Configure
  <2> QED
    BY <2>2 DEF Answer
<1>3. CASE Reset(c)
  BY <1>3 DEF Reset, Answer
<1>4. CASE \/ Declare(c) \/ DefineFun(c) \/ AssertTerm(c) \/ Push(c) \/ Pop(c)
           \/ CheckSat(c) \/ GetValue(c) \/ Inspect(c) \/ ResetAssertions(c)
  BY <1>4 DEF Declare, DefineFun, AssertTerm, Push, Pop, CheckSat, GetValue, Inspect, ResetAssertions
<1> QED
  BY <1>1, <1>2, <1>3, <1>4 DEF Execute

\* A command that is answered by an error changes no name, scope, assertion,
\* label, result, logic or option, activates and retires no activation literal,
\* and removes no term (the rollback that every failing handler of Session does,
\* and the transactional boundary that docs/SMT_LIB.md states).
THEOREM ErrorsChangeNothing == Spec => RejectedChangesNothing
<1>1. NamesInv /\ NamesInv' /\ [Next]_vars =>
        [out'.kind = "error" =>
           /\ UNCHANGED <<bindings, frames, last, logic, options>>
           /\ solver'.selectors = solver.selectors
           /\ Len(nodes') >= Len(nodes) /\ SubSeq(nodes', 1, Len(nodes)) = nodes]_vars
  <2> SUFFICES ASSUME NamesInv, NamesInv', Next, out'.kind = "error"
               PROVE  /\ UNCHANGED <<bindings, frames, last, logic, options>>
                      /\ solver'.selectors = solver.selectors
                      /\ Len(nodes') >= Len(nodes) /\ SubSeq(nodes', 1, Len(nodes)) = nodes
    OBVIOUS
  <2>1. /\ bindings' = bindings /\ frames' = frames /\ last' = last
        /\ solver'.selectors = solver.selectors /\ Extends(nodes', nodes)
    BY StepNames DEF Harmless
  <2>2. logic' = logic /\ options' = options
    BY ErrorKeepsMode DEF Next
  <2>3. Len(nodes') >= Len(nodes) /\ SubSeq(nodes', 1, Len(nodes)) = nodes
    <3> DEFINE s == nodes
               s2 == nodes'
    <3>1. s \in Seq(Nodes) /\ s2 \in Seq(Nodes) /\ Extends(s2, s)
      BY <2>1 DEF NamesInv, NamesTyped, StoreOK
    <3> HIDE DEF s, s2
    <3>2. Len(s2) >= Len(s) /\ \A i \in 1 .. Len(s) : s2[i] = s[i]
      BY <3>1 DEF Extends
    <3>3. SubSeq(s2, 1, Len(s)) = s
      <4>1. /\ SubSeq(s2, 1, Len(s)) \in Seq(Nodes) /\ Len(SubSeq(s2, 1, Len(s))) = Len(s)
            /\ \A i \in 1 .. Len(s) : SubSeq(s2, 1, Len(s))[i] = s2[i]
        BY <3>1, <3>2
      <4> DEFINE q == SubSeq(s2, 1, Len(s))
      <4> HIDE DEF q
      <4>2. q \in Seq(Nodes) /\ Len(q) = Len(s) /\ \A i \in 1 .. Len(s) : q[i] = s[i]
        BY <3>2, <4>1 DEF q
      <4>3. q = s
        BY <3>1, <4>2, SeqEqual
      <4> QED
        BY <4>3 DEF q
    <3> QED
      BY <3>2, <3>3 DEF s, s2
  <2> QED
    BY <2>1, <2>2, <2>3
<1> QED
  BY <1>1, NamesKept, PTL DEF Spec, RejectedChangesNothing

-----------------------------------------------------------------------------
(***************************************************************************)
(* The meaning of terms.                                                   *)
(***************************************************************************)

\* The values of the terms, each over those of its arguments.
ValueStep(s, g, A, i) ==
  CASE i = 0 \/ i = FalseTerm -> FALSE
    [] i = TrueTerm -> TRUE
    [] i > 2 /\ s[i].op = "atom" -> s[i].symbol \in A
    [] i > 2 /\ s[i].op = "not" -> ~ g[s[i].arg]
    [] i > 2 /\ s[i].op = "or" -> \E a \in s[i].args : g[a]
ValuesTaken(g, s, A) ==
  g = [i \in 0 .. Len(s) |->
        CASE i = 0 \/ i = FalseTerm -> FALSE
          [] i = TrueTerm -> TRUE
          [] i > 2 /\ s[i].op = "atom" -> s[i].symbol \in A
          [] i > 2 /\ s[i].op = "not" -> ~ g[s[i].arg]
          [] i > 2 /\ s[i].op = "or" -> \E a \in s[i].args : g[a]]

\* The value of a term depends on its arguments' values.
LEMMA ValueStepSame ==
  ASSUME NEW s, StoreOK(s), NEW A, NEW i \in 0 .. Len(s), NEW g, NEW h,
         \A c \in 1 .. Len(s) : c < i => h[c] = g[c]
  PROVE  ValueStep(s, h, A, i) = ValueStep(s, g, A, i)
<1>1. Len(s) \in Nat
  BY StoreFacts
<1>2. CASE i \in {0, 1, 2}
  BY <1>2 DEF ValueStep, TrueTerm, FalseTerm
<1>3. CASE i \notin {0, 1, 2}
  <2>1. i \in 1 .. Len(s) /\ i > 2 /\ i # TrueTerm /\ i # FalseTerm /\ i # 0
    BY <1>1, <1>3 DEF TrueTerm, FalseTerm
  <2>2. /\ s[i].op \in {"atom", "not", "or"}
        /\ s[i].op = "not" => h[s[i].arg] = g[s[i].arg]
        /\ s[i].op = "or" => \A a \in s[i].args : h[a] = g[a]
    BY <1>1, <2>1, StoreFacts
  <2>3. CASE s[i].op = "atom"
    BY <2>1, <2>3 DEF ValueStep
  <2>4. CASE s[i].op = "not"
    BY <2>1, <2>2, <2>4 DEF ValueStep
  <2>5. CASE s[i].op = "or"
    <3>1. (\E a \in s[i].args : h[a]) <=> (\E a \in s[i].args : g[a])
      BY <2>2, <2>5
    <3>2. /\ ValueStep(s, h, A, i) = (\E a \in s[i].args : h[a])
          /\ ValueStep(s, g, A, i) = (\E a \in s[i].args : g[a])
      BY <2>1, <2>5 DEF ValueStep
    <3> QED
      BY <3>1, <3>2
  <2> QED
    BY <2>2, <2>3, <2>4, <2>5
<1> QED
  BY <1>2, <1>3

\* The values of the terms are there.
LEMMA ValuesExist ==
  ASSUME NEW s, StoreOK(s), NEW A
  PROVE  \E g : ValuesTaken(g, s, A)
<1> DEFINE n == Len(s)
           Upto(g, j) == g = [i \in 0 .. j |-> ValueStep(s, g, A, i)]
           T == {j \in 0 .. n : \E g : Upto(g, j)}
<1>1. n \in Nat
  BY StoreFacts
<1>2. 0 \in T
  <2> DEFINE g == [i \in 0 .. 0 |-> FALSE]
  <2>1. g = [i \in 0 .. 0 |-> g[i]] /\ \A i \in 0 .. 0 : i = 0 /\ g[i] = FALSE
    OBVIOUS
  <2> HIDE DEF g
  <2>2. ValueStep(s, g, A, 0) = FALSE
    BY DEF ValueStep, TrueTerm, FalseTerm
  <2>3. Upto(g, 0)
    BY <2>1, <2>2
  <2> QED
    BY <1>1, <2>3
<1>3. ASSUME NEW j \in 0 .. n - 1, j \in T PROVE j + 1 \in T
  <2>1. PICK g : Upto(g, j)
    BY <1>3
  <2> DEFINE h == [i \in 0 .. j + 1 |-> IF i = j + 1 THEN ValueStep(s, g, A, i) ELSE g[i]]
  <2>2. /\ \A i \in 0 .. j : h[i] = g[i] /\ g[i] = ValueStep(s, g, A, i)
        /\ h[j + 1] = ValueStep(s, g, A, j + 1) /\ h = [i \in 0 .. j + 1 |-> h[i]]
    <3>1. j + 1 \in 0 .. j + 1 /\ \A i \in 0 .. j : i \in 0 .. j + 1 /\ i # j + 1
      BY <1>1
    <3>2. \A i \in 0 .. j : g[i] = ValueStep(s, g, A, i)
      BY <2>1
    <3>3. \A i \in 0 .. j + 1 : h[i] = IF i = j + 1 THEN ValueStep(s, g, A, i) ELSE g[i]
      OBVIOUS
    <3>4. h = [i \in 0 .. j + 1 |-> h[i]]
      OBVIOUS
    <3> HIDE DEF h
    <3> QED
      BY <3>1, <3>2, <3>3, <3>4
  <2> HIDE DEF h
  <2>3. ASSUME NEW i \in 0 .. j + 1 PROVE ValueStep(s, h, A, i) = ValueStep(s, g, A, i)
    <3>1. i \in 0 .. Len(s) /\ \A c \in 1 .. Len(s) : c < i => h[c] = g[c]
      <4>1. i \in 0 .. Len(s) /\ \A c \in 1 .. Len(s) : c < i => c \in 0 .. j
        BY <1>1
      <4> QED
        BY <2>2, <4>1
    <3> QED
      BY <3>1, ValueStepSame
  <2>4. \A i \in 0 .. j + 1 : h[i] = ValueStep(s, h, A, i)
    <3>1. \A i \in 0 .. j + 1 : i \in 0 .. j \/ i = j + 1
      BY <1>1
    <3> QED
      BY <2>2, <2>3, <3>1
  <2>5. Upto(h, j + 1)
    BY <2>2, <2>4
  <2> QED
    BY <1>1, <2>5
<1>4. n \in T
  <2>1. T \in SUBSET (0 .. n) /\ n \in 0 .. n
    BY <1>1
  <2> HIDE DEF T, n
  <2>2. \A k \in 0 .. n : k \in T
    BY <1>1, <1>2, <1>3, <2>1, UpTo
  <2> QED
    BY <2>1, <2>2
<1> QED
  BY <1>4 DEF ValuesTaken, ValueStep

\* What bool_model_value says of each kind of node.
LEMMA TrueInFacts ==
  ASSUME NEW s, StoreOK(s), NEW A, NEW i \in 1 .. Len(s)
  PROVE  /\ TrueIn(s, i, A) \in BOOLEAN
         /\ s[i].op = "true" => TrueIn(s, i, A)
         /\ s[i].op = "false" => ~ TrueIn(s, i, A)
         /\ s[i].op = "atom" => (TrueIn(s, i, A) <=> s[i].symbol \in A)
         /\ s[i].op = "not" => (TrueIn(s, i, A) <=> ~ TrueIn(s, s[i].arg, A))
         /\ s[i].op = "or" => (TrueIn(s, i, A) <=> \E a \in s[i].args : TrueIn(s, a, A))
<1> DEFINE n == Len(s)
           g == CHOOSE h : ValuesTaken(h, s, A)
<1>1. ValuesTaken(g, s, A) /\ n \in Nat
  BY ValuesExist, StoreFacts
<1>2. \A j : TrueIn(s, j, A) = g[j]
  BY DEF TrueIn, ValuesTaken
<1> HIDE DEF g
<1>3. \A j \in 0 .. n : g[j] = ValueStep(s, g, A, j)
  BY <1>1 DEF ValuesTaken, ValueStep
<1>4. i \in 0 .. n /\ i # 0 /\ TrueIn(s, i, A) = ValueStep(s, g, A, i)
  BY <1>1, <1>2, <1>3
<1>5. CASE i = TrueTerm
  <2>1. s[i].op = "true"
    BY <1>5, StoreFacts
  <2>2. ValueStep(s, g, A, i) = TRUE
    BY <1>5 DEF ValueStep, TrueTerm, FalseTerm
  <2> QED
    BY <1>4, <2>1, <2>2
<1>6. CASE i = FalseTerm
  <2>1. s[i].op = "false"
    BY <1>6, StoreFacts
  <2>2. ValueStep(s, g, A, i) = FALSE
    BY <1>6 DEF ValueStep, TrueTerm, FalseTerm
  <2> QED
    BY <1>4, <2>1, <2>2
<1>7. CASE i # TrueTerm /\ i # FalseTerm
  <2>1. i > 2 /\ s[i].op \in {"atom", "not", "or"}
    BY <1>1, <1>7, StoreFacts DEF TrueTerm, FalseTerm
  <2>2. CASE s[i].op = "atom"
    <3>1. CASE s[i].symbol \in A
      <4>1. ValueStep(s, g, A, i) = TRUE
        BY <1>4, <1>7, <2>1, <2>2, <3>1 DEF ValueStep
      <4> QED
        BY <1>4, <2>2, <3>1, <4>1
    <3>2. CASE s[i].symbol \notin A
      <4>1. ValueStep(s, g, A, i) = FALSE
        BY <1>4, <1>7, <2>1, <2>2, <3>2 DEF ValueStep
      <4> QED
        BY <1>4, <2>2, <3>2, <4>1
    <3> QED
      BY <3>1, <3>2
  <2>3. CASE s[i].op = "not"
    <3>1. ValueStep(s, g, A, i) = ~ g[s[i].arg]
      BY <1>4, <1>7, <2>1, <2>3 DEF ValueStep
    <3>2. g[s[i].arg] = TrueIn(s, s[i].arg, A)
      BY <1>2
    <3> QED
      BY <1>4, <2>3, <3>1, <3>2
  <2>4. CASE s[i].op = "or"
    <3>1. ValueStep(s, g, A, i) = (\E a \in s[i].args : g[a])
      BY <1>4, <1>7, <2>1, <2>4 DEF ValueStep
    <3>2. (\E a \in s[i].args : g[a]) <=> (\E a \in s[i].args : TrueIn(s, a, A))
      BY <1>2
    <3> QED
      BY <1>4, <2>4, <3>1, <3>2
  <2> QED
    BY <2>1, <2>2, <2>3, <2>4
<1> QED
  BY <1>5, <1>6, <1>7

\* A larger store gives the terms that were there the value they had.
LEMMA TrueInExtends ==
  ASSUME NEW s, NEW s2, StoreOK(s), StoreOK(s2), Extends(s2, s), NEW A
  PROVE  \A i \in 1 .. Len(s) : TrueIn(s2, i, A) <=> TrueIn(s, i, A)
<1> DEFINE n == Len(s)
           T == {i \in 0 .. n : i # 0 => (TrueIn(s2, i, A) <=> TrueIn(s, i, A))}
<1>1. n \in Nat /\ \A i \in 1 .. n : i \in 1 .. Len(s2) /\ s2[i] = s[i]
  BY StoreFacts DEF Extends
<1>2. ASSUME NEW k \in 0 .. n, \A j \in 0 .. k - 1 : j \in T PROVE k \in T
  <2>1. CASE k = 0
    BY <2>1
  <2>2. CASE k # 0
    <3>1. k \in 1 .. n /\ k \in 1 .. Len(s2) /\ s2[k] = s[k]
      BY <1>1, <2>2
    <3>2. \A j \in 1 .. k - 1 : TrueIn(s2, j, A) <=> TrueIn(s, j, A)
      <4>1. \A j \in 1 .. k - 1 : j \in 0 .. k - 1 /\ j # 0
        BY <1>1
      <4> QED
        BY <1>2, <4>1
    <3> HIDE DEF T
    <3>3. /\ s[k].op \in {"true", "false", "atom", "not", "or"}
          /\ s[k].op = "not" => s[k].arg \in 1 .. k - 1
          /\ s[k].op = "or" => s[k].args \in SUBSET (1 .. k - 1)
      BY <3>1, StoreFacts
    <3>4. TrueIn(s2, k, A) <=> TrueIn(s, k, A)
      <4>1. CASE s[k].op \in {"true", "false", "atom"}
        BY <3>1, <4>1, TrueInFacts
      <4>2. CASE s[k].op = "not"
        <5>1. TrueIn(s2, s[k].arg, A) <=> TrueIn(s, s[k].arg, A)
          BY <3>2, <3>3, <4>2
        <5>2. TrueIn(s2, k, A) <=> ~ TrueIn(s2, s[k].arg, A)
          BY <3>1, <4>2, TrueInFacts
        <5>3. TrueIn(s, k, A) <=> ~ TrueIn(s, s[k].arg, A)
          BY <3>1, <4>2, TrueInFacts
        <5> QED
          BY <5>1, <5>2, <5>3
      <4>3. CASE s[k].op = "or"
        <5>1. \A a \in s[k].args : TrueIn(s2, a, A) <=> TrueIn(s, a, A)
          BY <3>2, <3>3, <4>3
        <5>2. TrueIn(s2, k, A) <=> \E a \in s[k].args : TrueIn(s2, a, A)
          BY <3>1, <4>3, TrueInFacts
        <5>3. TrueIn(s, k, A) <=> \E a \in s[k].args : TrueIn(s, a, A)
          BY <3>1, <4>3, TrueInFacts
        <5> QED
          BY <5>1, <5>2, <5>3
      <4> QED
        BY <3>3, <4>1, <4>2, <4>3
    <3> QED
      BY <3>4 DEF T
  <2> QED
    BY <2>1, <2>2
<1>3. T \in SUBSET (0 .. n)
  OBVIOUS
<1> HIDE DEF T
<1>4. \A k \in 0 .. n : k \in T
  BY <1>1, <1>2, <1>3, FromBelow
<1> QED
  <2> SUFFICES ASSUME NEW i \in 1 .. Len(s) PROVE TrueIn(s2, i, A) <=> TrueIn(s, i, A)
    OBVIOUS
  <2>1. i \in 0 .. n /\ i # 0
    BY <1>1
  <2> QED
    BY <1>4, <2>1 DEF T

\* A variable is true if it is in the model, its negation if it is not.
LEMMA HoldsFacts ==
  ASSUME NEW m
  PROVE  /\ \A x \in Nat : x # 0 => (Holds(m, x) <=> x \in m) /\ (Holds(m, -x) <=> x \notin m)
         /\ \A l \in Int : l # 0 => (Holds(m, -l) <=> ~ Holds(m, l))
<1>1. ASSUME NEW x \in Nat, x # 0 PROVE (Holds(m, x) <=> x \in m) /\ (Holds(m, -x) <=> x \notin m)
  <2>1. x > 0 /\ ~ (-x > 0) /\ -(-x) = x
    BY <1>1
  <2>2. Holds(m, x) <=> x \in m
    BY <2>1 DEF Holds
  <2>3. Holds(m, -x) <=> -(-x) \notin m
    BY <2>1 DEF Holds
  <2> QED
    BY <2>1, <2>2, <2>3
<1>2. ASSUME NEW l \in Int, l # 0 PROVE Holds(m, -l) <=> ~ Holds(m, l)
  <2>1. CASE l > 0
    <3>1. l \in Nat
      BY <2>1
    <3> QED
      BY <1>1, <1>2, <3>1
  <2>2. CASE ~ (l > 0)
    <3>1. -l \in Nat /\ -l # 0 /\ -(-l) = l
      BY <1>2, <2>2
    <3> DEFINE x == -l
    <3>2. x \in Nat /\ x # 0 /\ -x = l
      BY <3>1
    <3> HIDE DEF x
    <3>3. (Holds(m, x) <=> x \in m) /\ (Holds(m, -x) <=> x \notin m)
      BY <1>1, <3>2
    <3> QED
      BY <3>2, <3>3 DEF x
  <2> QED
    BY <2>1, <2>2
<1> QED
  BY <1>1, <1>2

\* A literal holds or it does not.
LEMMA HoldsBoolean ==
  ASSUME NEW m, NEW l
  PROVE  Holds(m, l) \in BOOLEAN
<1>1. CASE l > 0 /\ l \in m
  <2>1. Holds(m, l) = TRUE
    BY <1>1 DEF Holds
  <2> QED
    BY <2>1
<1>2. CASE l > 0 /\ l \notin m
  <2>1. Holds(m, l) = FALSE
    BY <1>2 DEF Holds
  <2> QED
    BY <2>1
<1>3. CASE ~ (l > 0) /\ -l \in m
  <2>1. Holds(m, l) = FALSE
    BY <1>3 DEF Holds
  <2> QED
    BY <2>1
<1>4. CASE ~ (l > 0) /\ -l \notin m
  <2>1. Holds(m, l) = TRUE
    BY <1>4 DEF Holds
  <2> QED
    BY <2>1
<1> QED
  BY <1>1, <1>2, <1>3, <1>4

\* What an assignment of the variables has to do with values of the symbols.
Faithful(s, e, m, A) ==
  /\ e.truth # 0 => e.truth \in m
  /\ \A a \in DOMAIN e.atoms : e.atoms[a] # 0 /\ (Holds(m, e.atoms[a]) <=> a \in A)
  /\ \A i \in DOMAIN e.terms : s[i].op = "or" =>
       \/ Holds(m, e.terms[i]) <=> TrueIn(s, i, A)
       \/ Holds(m, e.terms[i]) <=> \E d \in s[i].args : Holds(m, e.terms[d])

\* Then the literals mean the terms.
LEMMA Meaning ==
  ASSUME NEW s, StoreOK(s), NEW e \in Encoders, NEW v, EncoderOK(s, e, v), NEW m, NEW A,
         Faithful(s, e, m, A)
  PROVE  \A i \in DOMAIN e.terms : Holds(m, e.terms[i]) <=> TrueIn(s, i, A)
<1> DEFINE n == Len(s)
           Right(i) == i \in DOMAIN e.terms => (Holds(m, e.terms[i]) <=> TrueIn(s, i, A))
           T == {i \in 0 .. n : Right(i)}
<1>1. /\ n \in Nat /\ e.truth \in Nat /\ DOMAIN e.terms \subseteq 1 .. n
      /\ \A i \in DOMAIN e.terms : e.terms[i] \in Int /\ LiteralOK(s, e, v, i)
      /\ \A a \in DOMAIN e.atoms : e.atoms[a] \in Nat
  BY StoreFacts, MapsFacts DEF Encoders, EncoderOK
<1>2. ASSUME NEW k \in 0 .. n, \A j \in 0 .. k - 1 : j \in T PROVE k \in T
  <2>1. CASE k \notin DOMAIN e.terms
    BY <2>1
  <2>2. CASE k \in DOMAIN e.terms
    <3>1. k \in 1 .. n /\ LiteralOK(s, e, v, k)
      BY <1>1, <2>2
    <3>2. \A j \in 1 .. k - 1 : Right(j)
      <4>1. \A j \in 1 .. k - 1 : j \in 0 .. k - 1
        BY <1>1
      <4> QED
        BY <1>2, <4>1
    <3> HIDE DEF T
    <3>3. /\ s[k].op \in {"true", "false", "atom", "not", "or"}
          /\ s[k].op = "not" => s[k].arg \in 1 .. k - 1
          /\ s[k].op = "or" => s[k].args \in SUBSET (1 .. k - 1)
      BY <3>1, StoreFacts
    <3>4. Holds(m, e.terms[k]) <=> TrueIn(s, k, A)
      <4>1. CASE s[k].op = "true"
        <5>1. e.truth # 0 /\ e.terms[k] = e.truth /\ e.truth \in m
          BY <3>1, <4>1 DEF LiteralOK, Faithful
        <5>2. Holds(m, e.terms[k])
          BY <1>1, <5>1, HoldsFacts
        <5> QED
          BY <3>1, <4>1, <5>2, TrueInFacts
      <4>2. CASE s[k].op = "false"
        <5>1. e.truth # 0 /\ e.terms[k] = -e.truth /\ e.truth \in m
          BY <3>1, <4>2 DEF LiteralOK, Faithful
        <5>2. ~ Holds(m, e.terms[k])
          BY <1>1, <5>1, HoldsFacts
        <5> QED
          BY <3>1, <4>2, <5>2, TrueInFacts
      <4>3. CASE s[k].op = "atom"
        <5>1. s[k].symbol \in DOMAIN e.atoms /\ e.terms[k] = e.atoms[s[k].symbol]
          BY <3>1, <4>3 DEF LiteralOK
        <5>2. Holds(m, e.terms[k]) <=> s[k].symbol \in A
          BY <5>1 DEF Faithful
        <5> QED
          BY <3>1, <4>3, <5>2, TrueInFacts
      <4>4. CASE s[k].op = "not"
        <5>1. s[k].arg \in DOMAIN e.terms /\ e.terms[k] = -e.terms[s[k].arg]
          BY <3>1, <4>4 DEF LiteralOK
        <5>2. Holds(m, e.terms[s[k].arg]) <=> TrueIn(s, s[k].arg, A)
          BY <3>2, <3>3, <4>4, <5>1
        <5>3. e.terms[s[k].arg] \in Int /\ e.terms[s[k].arg] # 0
          BY <1>1, <5>1 DEF LiteralOK
        <5>4. Holds(m, e.terms[k]) <=> ~ Holds(m, e.terms[s[k].arg])
          <6> DEFINE l == e.terms[s[k].arg]
          <6>1. l \in Int /\ l # 0 /\ e.terms[k] = -l
            BY <5>1, <5>3
          <6> HIDE DEF l
          <6>2. Holds(m, -l) <=> ~ Holds(m, l)
            BY <6>1, HoldsFacts
          <6> QED
            BY <6>1, <6>2 DEF l
        <5> QED
          BY <3>1, <4>4, <5>2, <5>4, TrueInFacts
      <4>5. CASE s[k].op = "or"
        <5>1. s[k].args \subseteq DOMAIN e.terms
          BY <3>1, <4>5 DEF LiteralOK
        <5>2. \A d \in s[k].args : Holds(m, e.terms[d]) <=> TrueIn(s, d, A)
          BY <3>2, <3>3, <4>5, <5>1
        <5>3. TrueIn(s, k, A) <=> \E d \in s[k].args : TrueIn(s, d, A)
          BY <3>1, <4>5, TrueInFacts
        <5>4. \/ Holds(m, e.terms[k]) <=> TrueIn(s, k, A)
              \/ Holds(m, e.terms[k]) <=> \E d \in s[k].args : Holds(m, e.terms[d])
          BY <2>2, <4>5 DEF Faithful
        <5> QED
          BY <5>2, <5>3, <5>4
      <4> QED
        BY <3>3, <4>1, <4>2, <4>3, <4>4, <4>5
    <3> QED
      BY <3>4 DEF T
  <2> QED
    BY <2>1, <2>2
<1>3. T \in SUBSET (0 .. n)
  OBVIOUS
<1> HIDE DEF T
<1>4. \A k \in 0 .. n : k \in T
  BY <1>1, <1>2, <1>3, FromBelow
<1> QED
  <2> SUFFICES ASSUME NEW i \in DOMAIN e.terms PROVE Holds(m, e.terms[i]) <=> TrueIn(s, i, A)
    OBVIOUS
  <2>1. i \in 0 .. n
    BY <1>1
  <2> QED
    BY <1>4, <2>1 DEF T

\* A model of the clauses gives each term its value for the symbols that hold in it.
LEMMA ModelMeaning ==
  ASSUME NEW s, StoreOK(s), NEW e \in Encoders, NEW v \in Solvers, NEW f, Coherent(s, e, v, f),
         NEW m, \A c \in v.clauses : \E l \in c : Holds(m, l)
  PROVE  LET A == {a \in DOMAIN e.atoms : Holds(m, e.atoms[a])}
         IN  \A i \in DOMAIN e.terms : Holds(m, e.terms[i]) <=> TrueIn(s, i, A)
<1> DEFINE A == {a \in DOMAIN e.atoms : Holds(m, e.atoms[a])}
<1>1. /\ EncoderOK(s, e, v) /\ e.truth \in Nat
      /\ \A i \in DOMAIN e.terms : e.terms[i] \in Int /\ LiteralOK(s, e, v, i)
  BY MapsFacts DEF Encoders, EncoderOK, Coherent
<1>2. e.truth # 0 => e.truth \in m
  <2> SUFFICES ASSUME e.truth # 0 PROVE e.truth \in m
    OBVIOUS
  <2>1. {e.truth} \in v.clauses
    BY <1>1 DEF EncoderOK
  <2>2. Holds(m, e.truth)
    BY <2>1
  <2> QED
    BY <1>1, <2>2, HoldsFacts
<1>3. \A a \in DOMAIN e.atoms : e.atoms[a] # 0 /\ (Holds(m, e.atoms[a]) <=> a \in A)
  <2>1. \A a \in DOMAIN e.atoms : e.atoms[a] # 0
    BY DEF Coherent, Coloured
  <2> QED
    BY <2>1
<1>4. ASSUME NEW i \in DOMAIN e.terms, s[i].op = "or"
      PROVE  Holds(m, e.terms[i]) <=> \E d \in s[i].args : Holds(m, e.terms[d])
  <2>1. /\ s[i].args \subseteq DOMAIN e.terms /\ e.terms[i] \in Int /\ e.terms[i] # 0
        /\ \A c : Defines(s, e, i, c) => c \in v.clauses
    BY <1>1, <1>4 DEF LiteralOK
  <2>2. ASSUME Holds(m, e.terms[i]) PROVE \E d \in s[i].args : Holds(m, e.terms[d])
    <3>1. {-e.terms[i]} \cup {e.terms[d] : d \in s[i].args} \in v.clauses
      BY <2>1 DEF Defines
    <3>2. PICK l \in {-e.terms[i]} \cup {e.terms[d] : d \in s[i].args} : Holds(m, l)
      BY <3>1
    <3>3. l # -e.terms[i]
      BY <2>1, <2>2, <3>2, HoldsFacts
    <3> QED
      BY <3>2, <3>3
  <2>3. ASSUME NEW d \in s[i].args, Holds(m, e.terms[d]) PROVE Holds(m, e.terms[i])
    <3>1. {-e.terms[d], e.terms[i]} \in v.clauses
      BY <2>1 DEF Defines
    <3>2. PICK l \in {-e.terms[d], e.terms[i]} : Holds(m, l)
      BY <3>1
    <3>3. e.terms[d] \in Int /\ e.terms[d] # 0
      BY <1>1, <2>1 DEF LiteralOK
    <3>4. l # -e.terms[d]
      BY <2>3, <3>2, <3>3, HoldsFacts
    <3> QED
      BY <3>2, <3>4
  <2> QED
    BY <2>2, <2>3
<1> HIDE DEF A
<1>5. Faithful(s, e, m, A)
  BY <1>2, <1>3, <1>4 DEF Faithful
<1> QED
  BY <1>1, <1>5, Meaning DEF A

\* The assertions that are true or switched off, and what a query assumes.
Stands(s, f, W, failed) ==
  \A k \in DOMAIN f : \A a \in f[k].asserted :
    \/ TrueIn(s, a.term, W)
    \/ a.label # NoLabel /\ \A n \in f[k].named : n.name = a.label => n.selector \notin failed
Chosen(s, e, f, W, failed) ==
  \A l \in failed : \/ \E k \in DOMAIN f : \E n \in f[k].named : l = n.selector
                    \/ \E i \in DOMAIN e.terms : l = e.terms[i] /\ TrueIn(s, i, W)

\* The variables that are true when the symbols in W are and the selectors in failed.
RoleModel(s, v, role, W, failed) ==
  {x \in 1 .. v.count : \/ role[x].kind = "truth" \/ role[x].kind = "scope"
                        \/ role[x].kind = "atom" /\ role[x].of \in W
                        \/ role[x].kind = "or" /\ TrueIn(s, role[x].of, W)
                        \/ role[x].kind = "name" /\ x \in failed}

\* They give each variable the value that its role asks for.
LEMMA RoleModelFacts ==
  ASSUME NEW s, NEW e \in Encoders, NEW v \in Solvers, NEW f, NEW role, Coloured(s, e, v, f, role),
         NEW W, NEW failed
  PROVE  LET m == RoleModel(s, v, role, W, failed)
         IN  /\ m \in SUBSET (1 .. v.count)
             /\ e.truth # 0 => e.truth \in m
             /\ \A a \in DOMAIN e.atoms : e.atoms[a] # 0 /\ (Holds(m, e.atoms[a]) <=> a \in W)
             /\ \A i \in DOMAIN e.terms : s[i].op = "or" => (Holds(m, e.terms[i]) <=> TrueIn(s, i, W))
             /\ \A k \in 1 .. Len(v.selectors) : Holds(m, v.selectors[k])
             /\ \A k \in DOMAIN f : \A n \in f[k].named :
                  (n.selector \in failed => Holds(m, n.selector))
                  /\ (n.selector \notin failed => Holds(m, -n.selector))
             /\ \A x \in 1 .. v.count : role[x].kind = "dead" => Holds(m, -x)
<1> DEFINE m == RoleModel(s, v, role, W, failed)
<1>1. v.count \in Nat /\ \A x \in 1 .. v.count : x \in Nat /\ x # 0
  BY DEF Solvers
<1>2. ASSUME NEW x \in 1 .. v.count
      PROVE  x \in m <=> \/ role[x].kind = "truth" \/ role[x].kind = "scope"
                         \/ role[x].kind = "atom" /\ role[x].of \in W
                         \/ role[x].kind = "or" /\ TrueIn(s, role[x].of, W)
                         \/ role[x].kind = "name" /\ x \in failed
  BY DEF RoleModel
<1>3. m \in SUBSET (1 .. v.count)
  BY DEF RoleModel
<1> HIDE DEF m
<1>4. \A x \in 1 .. v.count : (Holds(m, x) <=> x \in m) /\ (Holds(m, -x) <=> x \notin m)
  BY <1>1, HoldsFacts
<1>5. \A t, r : Role(t, r).kind = t /\ Role(t, r).of = r
  BY DEF Role
<1>6. e.truth # 0 => e.truth \in m
  BY <1>2, <1>5 DEF Coloured
<1>7. ASSUME NEW a \in DOMAIN e.atoms PROVE e.atoms[a] # 0 /\ (Holds(m, e.atoms[a]) <=> a \in W)
  <2> DEFINE x == e.atoms[a]
  <2>1. x \in 1 .. v.count /\ role[x] = Role("atom", a)
    BY DEF Coloured
  <2> HIDE DEF x
  <2>2. role[x].kind = "atom" /\ role[x].of = a
    BY <1>5, <2>1
  <2>3. x \in m <=> a \in W
    BY <1>2, <2>1, <2>2
  <2> QED
    BY <1>1, <1>4, <2>1, <2>3 DEF x
<1>8. ASSUME NEW i \in DOMAIN e.terms, s[i].op = "or"
      PROVE  Holds(m, e.terms[i]) <=> TrueIn(s, i, W)
  <2> DEFINE x == e.terms[i]
  <2>1. x \in 1 .. v.count /\ role[x] = Role("or", i)
    BY <1>8 DEF Coloured
  <2> HIDE DEF x
  <2>2. role[x].kind = "or" /\ role[x].of = i
    BY <1>5, <2>1
  <2>3. x \in m <=> TrueIn(s, i, W)
    BY <1>2, <2>1, <2>2
  <2> QED
    BY <1>4, <2>1, <2>3 DEF x
<1>9. ASSUME NEW k \in 1 .. Len(v.selectors) PROVE Holds(m, v.selectors[k])
  <2> DEFINE x == v.selectors[k]
  <2>1. x \in 1 .. v.count /\ role[x] = Role("scope", k)
    BY DEF Coloured
  <2> HIDE DEF x
  <2>2. x \in m
    BY <1>2, <1>5, <2>1
  <2> QED
    BY <1>4, <2>1, <2>2 DEF x
<1>10. ASSUME NEW k \in DOMAIN f, NEW n \in f[k].named
       PROVE  (n.selector \in failed => Holds(m, n.selector))
              /\ (n.selector \notin failed => Holds(m, -n.selector))
  <2> DEFINE x == n.selector
  <2>1. x \in 1 .. v.count /\ role[x] = Role("name", k)
    BY DEF Coloured
  <2> HIDE DEF x
  <2>2. role[x].kind = "name"
    BY <1>5, <2>1
  <2>3. x \in m <=> x \in failed
    BY <1>2, <2>1, <2>2
  <2> QED
    BY <1>4, <2>1, <2>3 DEF x
<1>11. ASSUME NEW x \in 1 .. v.count, role[x].kind = "dead" PROVE Holds(m, -x)
  <2>1. x \notin m
    BY <1>2, <1>11
  <2> QED
    BY <1>4, <2>1
<1> QED
  BY <1>3, <1>6, <1>7, <1>8, <1>9, <1>10, <1>11 DEF m

\* A query that no model answers refutes what it names: the roles would make one.
LEMMA RolesAnswer ==
  ASSUME NEW s, StoreOK(s), NEW e \in Encoders, NEW v \in Solvers, NEW f, Coherent(s, e, v, f),
         NEW W, NEW failed, Stands(s, f, W, failed), Chosen(s, e, f, W, failed)
  PROVE  ModelsUnder(v, failed) # {}
<1>1. PICK role : Coloured(s, e, v, f, role) /\ \A c \in v.clauses : ClauseOK(s, e, v, f, role, c)
  BY DEF Coherent
<1>2. EncoderOK(s, e, v) /\ EntriesOK(e, v, f) /\ DOMAIN e.terms \subseteq 1 .. Len(s)
  BY DEF Coherent, EncoderOK
<1> DEFINE m == RoleModel(s, v, role, W, failed)
<1>3. /\ m \in SUBSET (1 .. v.count)
      /\ e.truth # 0 => e.truth \in m
      /\ \A a \in DOMAIN e.atoms : e.atoms[a] # 0 /\ (Holds(m, e.atoms[a]) <=> a \in W)
      /\ \A i \in DOMAIN e.terms : s[i].op = "or" => (Holds(m, e.terms[i]) <=> TrueIn(s, i, W))
      /\ \A k \in 1 .. Len(v.selectors) : Holds(m, v.selectors[k])
      /\ \A k \in DOMAIN f : \A n \in f[k].named :
           (n.selector \in failed => Holds(m, n.selector))
           /\ (n.selector \notin failed => Holds(m, -n.selector))
      /\ \A x \in 1 .. v.count : role[x].kind = "dead" => Holds(m, -x)
  BY <1>1, RoleModelFacts
<1> HIDE DEF m
<1>4. Faithful(s, e, m, W)
  BY <1>3 DEF Faithful
<1>5. \A i \in DOMAIN e.terms : Holds(m, e.terms[i]) <=> TrueIn(s, i, W)
  BY <1>2, <1>4, Meaning
<1>6. ASSUME NEW c \in v.clauses PROVE \E l \in c : Holds(m, l)
  <2>1. CASE e.truth # 0 /\ e.truth \in c
    <3>1. e.truth \in Nat
      BY DEF Encoders
    <3>2. Holds(m, e.truth)
      BY <1>3, <2>1, <3>1, HoldsFacts
    <3> QED
      BY <2>1, <3>2
  <2>2. ASSUME NEW i \in DOMAIN e.terms, s[i].op = "or", Defines(s, e, i, c) PROVE \E l \in c : Holds(m, l)
    <3>1. i \in 1 .. Len(s) /\ s[i].args \subseteq DOMAIN e.terms
      BY <1>2, <2>2 DEF EncoderOK, LiteralOK
    <3>2. \A d \in DOMAIN e.terms : e.terms[d] \in Int /\ e.terms[d] # 0
      BY <1>2, MapsFacts DEF Encoders, EncoderOK, LiteralOK
    <3>3. \A d \in DOMAIN e.terms : Holds(m, -e.terms[d]) <=> ~ TrueIn(s, d, W)
      <4> SUFFICES ASSUME NEW d \in DOMAIN e.terms PROVE Holds(m, -e.terms[d]) <=> ~ TrueIn(s, d, W)
        OBVIOUS
      <4> DEFINE l == e.terms[d]
      <4>1. l \in Int /\ l # 0 /\ (Holds(m, l) <=> TrueIn(s, d, W))
        BY <1>5, <3>2
      <4> HIDE DEF l
      <4>2. Holds(m, -l) <=> ~ Holds(m, l)
        BY <4>1, HoldsFacts
      <4> QED
        BY <4>1, <4>2 DEF l
    <3>4. TrueIn(s, i, W) <=> \E d \in s[i].args : TrueIn(s, d, W)
      BY <2>2, <3>1, TrueInFacts
    <3>5. CASE \E d \in s[i].args : c = {-e.terms[d], e.terms[i]}
      <4>1. PICK d \in s[i].args : c = {-e.terms[d], e.terms[i]}
        BY <3>5
      <4>2. CASE TrueIn(s, d, W)
        BY <1>5, <3>4, <4>1, <4>2
      <4>3. CASE ~ TrueIn(s, d, W)
        BY <3>1, <3>3, <4>1, <4>3
      <4> QED
        BY <4>2, <4>3
    <3>6. CASE c = {-e.terms[i]} \cup {e.terms[d] : d \in s[i].args}
      <4>1. CASE TrueIn(s, i, W)
        <5>1. PICK d \in s[i].args : TrueIn(s, d, W)
          BY <3>4, <4>1
        <5>2. Holds(m, e.terms[d]) /\ e.terms[d] \in c
          BY <1>5, <3>1, <3>6, <5>1
        <5> QED
          BY <5>2
      <4>2. CASE ~ TrueIn(s, i, W)
        <5>1. Holds(m, -e.terms[i]) /\ -e.terms[i] \in c
          BY <3>3, <3>6, <4>2
        <5> QED
          BY <5>1
      <4> QED
        BY <4>1, <4>2
    <3> QED
      BY <2>2, <3>5, <3>6 DEF Defines
  <2>3. CASE \E x \in 1 .. v.count : -x \in c /\ role[x].kind = "dead"
    BY <1>3, <2>3
  <2>4. ASSUME NEW k \in DOMAIN f, NEW a \in f[k].asserted, e.terms[a.term] \in c, Labelling(f, k, a, c)
        PROVE  \E l \in c : Holds(m, l)
    <3>1. CASE TrueIn(s, a.term, W)
      <4>1. a.term \in DOMAIN e.terms
        BY <1>2 DEF EntriesOK
      <4> QED
        BY <1>5, <2>4, <3>1, <4>1
    <3>2. CASE a.label # NoLabel /\ \A n \in f[k].named : n.name = a.label => n.selector \notin failed
      <4>1. PICK n \in f[k].named : n.name = a.label /\ -n.selector \in c
        BY <2>4, <3>2 DEF Labelling
      <4>2. Holds(m, -n.selector)
        BY <1>3, <3>2, <4>1
      <4> QED
        BY <4>1, <4>2
    <3> QED
      BY <3>1, <3>2 DEF Stands
  <2> QED
    <3>1. ClauseOK(s, e, v, f, role, c)
      BY <1>1
    <3> QED
      BY <2>1, <2>2, <2>3, <2>4, <3>1 DEF ClauseOK
<1>7. ASSUME NEW l \in failed \cup Range(v.selectors) PROVE Holds(m, l)
  <2>1. CASE l \in Range(v.selectors)
    <3>1. v.selectors \in Seq(Nat) /\ DOMAIN v.selectors = 1 .. Len(v.selectors)
      BY DEF Solvers
    <3>2. PICK k \in DOMAIN v.selectors : l = v.selectors[k]
      BY <2>1 DEF Range
    <3> QED
      BY <1>3, <3>1, <3>2
  <2>2. CASE l \in failed
    <3>1. CASE \E k \in DOMAIN f : \E n \in f[k].named : l = n.selector
      BY <1>3, <2>2, <3>1
    <3>2. CASE \E i \in DOMAIN e.terms : l = e.terms[i] /\ TrueIn(s, i, W)
      BY <1>5, <3>2
    <3> QED
      BY <2>2, <3>1, <3>2 DEF Chosen
  <2> QED
    BY <1>7, <2>1, <2>2
<1>8. m \in ModelsUnder(v, failed)
  BY <1>3, <1>6, <1>7 DEF ModelsUnder
<1> QED
  BY <1>8

-----------------------------------------------------------------------------
(***************************************************************************)
(* The answers.                                                            *)
(***************************************************************************)

\* A result is about the assertions: its model makes them and the assumptions
\* true, its core and failed assumptions cannot all be true.
LastOK(s, f, la) ==
  /\ la.kind \in {"sat", "unsat"} => \A t \in la.assumed : t \in 1 .. Len(s)
  /\ la.kind = "sat" =>
       /\ \A k \in DOMAIN f : \A a \in f[k].asserted : TrueIn(s, a.term, la.model)
       /\ \A t \in la.assumed : TrueIn(s, t, la.model)
  /\ la.kind = "unsat" => \A W \in SUBSET Nat :
       \/ \E k \in DOMAIN f : \E a \in f[k].asserted :
            (a.label = NoLabel \/ a.label \in la.core) /\ ~ TrueIn(s, a.term, W)
       \/ \E t \in la.assumed : ~ TrueIn(s, t, W)

\* A model of the clauses and the selectors makes the assertions in scope true.
LEMMA AssertionsHold ==
  ASSUME NEW s, NEW e \in Encoders, NEW v \in Solvers, NEW f, Coherent(s, e, v, f),
         DOMAIN f = 1 .. Len(v.selectors) + 1, NEW m,
         \A c \in v.clauses : \E l \in c : Holds(m, l),
         \A k \in 1 .. Len(v.selectors) : Holds(m, v.selectors[k]),
         \A k \in DOMAIN f : \A n \in f[k].named : Holds(m, n.selector)
  PROVE  \A k \in DOMAIN f : \A a \in f[k].asserted : a.term \in DOMAIN e.terms /\ Holds(m, e.terms[a.term])
<1> SUFFICES ASSUME NEW k \in DOMAIN f, NEW a \in f[k].asserted
             PROVE  a.term \in DOMAIN e.terms /\ Holds(m, e.terms[a.term])
  OBVIOUS
<1>1. a.term \in DOMAIN e.terms /\ \E c \in v.clauses : InForce(e, v, f, k, a, c)
  BY DEF Coherent, EntriesOK
<1>2. PICK c \in v.clauses : InForce(e, v, f, k, a, c)
  BY <1>1
<1>3. PICK l \in c : Holds(m, l)
  BY <1>2
<1>4. /\ \A j \in 1 .. Len(v.selectors) : v.selectors[j] \in 1 .. v.count
      /\ \A j \in DOMAIN f : \A n \in f[j].named : n.selector \in 1 .. v.count
  BY DEF Coherent, Coloured
<1>5. \A x \in 1 .. v.count : Holds(m, x) => ~ Holds(m, -x)
  <2> SUFFICES ASSUME NEW x \in 1 .. v.count PROVE Holds(m, x) => ~ Holds(m, -x)
    OBVIOUS
  <2>1. x \in Nat /\ x # 0
    BY DEF Solvers
  <2> QED
    BY <2>1, HoldsFacts
<1>6. ~ (k > 1 /\ l = -v.selectors[k - 1])
  <2> SUFFICES ASSUME k > 1, l = -v.selectors[k - 1] PROVE FALSE
    OBVIOUS
  <2>1. k - 1 \in 1 .. Len(v.selectors)
    <3>1. Len(v.selectors) \in Nat
      BY DEF Solvers
    <3> QED
      BY <3>1
  <2> DEFINE x == v.selectors[k - 1]
  <2>2. x \in 1 .. v.count /\ Holds(m, x) /\ Holds(m, -x)
    BY <1>3, <1>4, <2>1
  <2> HIDE DEF x
  <2> QED
    BY <1>5, <2>2
<1>7. ~ \E n \in f[k].named : l = -n.selector
  <2> SUFFICES ASSUME NEW n \in f[k].named, l = -n.selector PROVE FALSE
    OBVIOUS
  <2> DEFINE x == n.selector
  <2>1. x \in 1 .. v.count /\ Holds(m, x) /\ Holds(m, -x)
    BY <1>3, <1>4
  <2> HIDE DEF x
  <2> QED
    BY <1>5, <2>1
<1>8. l = e.terms[a.term]
  BY <1>2, <1>3, <1>6, <1>7 DEF InForce
<1> QED
  BY <1>1, <1>3, <1>8

\* What a check answers is about the assertions and its assumptions.
LEMMA AnsweredFacts ==
  ASSUME NamesInv, NEW s, StoreOK(s), NEW w \in Works, w.solver.selectors = solver.selectors,
         Coherent(s, w.encoder, w.solver, frames), NEW assumed, assumed \subseteq DOMAIN w.encoder.terms,
         Answered(w, assumed)
  PROVE  LastOK(s, frames, last')
<1> DEFINE e == w.encoder
           v == w.solver
           query == {n.selector : n \in NamedAssertions} \cup {e.terms[t] : t \in assumed}
<1>1. /\ e \in Encoders /\ v \in Solvers /\ DOMAIN frames = 1 .. Len(v.selectors) + 1
      /\ DOMAIN e.terms \subseteq 1 .. Len(s) /\ Coherent(s, e, v, frames)
      /\ assumed \subseteq DOMAIN e.terms /\ v.selectors \in Seq(Nat)
  <2>1. DOMAIN frames = 1 .. Len(frames) /\ Len(frames) = Len(solver.selectors) + 1
    BY ScopeFacts DEF NamesInv
  <2> QED
    BY <2>1, ScopeFacts DEF Works, Coherent, EncoderOK
<1>2. \A l : l \in query <=> \/ \E k \in DOMAIN frames : \E n \in frames[k].named : l = n.selector
                             \/ \E t \in assumed : l = e.terms[t]
  BY DEF NamedAssertions
<1>3. \/ \E m \in ModelsUnder(v, query) :
           last' = [kind |-> "sat", assumed |-> assumed,
                    model |-> {a \in DOMAIN e.atoms : Holds(m, e.atoms[a])}]
      \/ \E failed \in SUBSET query :
           /\ ModelsUnder(v, failed) = {}
           /\ last' = [kind |-> "unsat", assumed |-> {t \in assumed : e.terms[t] \in failed},
                       core |-> {n.name : n \in {k \in NamedAssertions : k.selector \in failed}}]
      \/ last' = [kind |-> "unknown", model |-> {}]
  BY DEF Answered
<1>4. \A n : n \in NamedAssertions <=> \E k \in DOMAIN frames : n \in frames[k].named
  BY DEF NamedAssertions
<1> HIDE DEF e, v, query
<1>5. ASSUME NEW m \in ModelsUnder(v, query),
             last' = [kind |-> "sat", assumed |-> assumed,
                      model |-> {a \in DOMAIN e.atoms : Holds(m, e.atoms[a])}]
      PROVE  LastOK(s, frames, last')
  <2> DEFINE A == {a \in DOMAIN e.atoms : Holds(m, e.atoms[a])}
             la == last'
  <2>1. la.kind = "sat" /\ la.assumed = assumed /\ la.model = A
    BY <1>5
  <2>2. /\ \A c \in v.clauses : \E l \in c : Holds(m, l)
        /\ \A l \in query : Holds(m, l)
        /\ \A k \in 1 .. Len(v.selectors) : Holds(m, v.selectors[k])
    <3>1. \A k \in 1 .. Len(v.selectors) : v.selectors[k] \in Range(v.selectors)
      BY <1>1 DEF Range
    <3> QED
      BY <1>5, <3>1 DEF ModelsUnder
  <2>3. \A i \in DOMAIN e.terms : Holds(m, e.terms[i]) <=> TrueIn(s, i, A)
    BY <1>1, <2>2, ModelMeaning
  <2>4. \A k \in DOMAIN frames : \A a \in frames[k].asserted :
          a.term \in DOMAIN e.terms /\ Holds(m, e.terms[a.term])
    BY <1>1, <1>2, <2>2, AssertionsHold
  <2>5. \A t \in assumed : TrueIn(s, t, A) /\ t \in 1 .. Len(s)
    BY <1>1, <1>2, <2>2, <2>3
  <2> HIDE DEF A, la
  <2>6. LastOK(s, frames, la)
    BY <2>1, <2>3, <2>4, <2>5 DEF LastOK
  <2> QED
    BY <2>6 DEF la
<1>6. ASSUME NEW failed \in SUBSET query, ModelsUnder(v, failed) = {},
             last' = [kind |-> "unsat", assumed |-> {t \in assumed : e.terms[t] \in failed},
                      core |-> {n.name : n \in {k \in NamedAssertions : k.selector \in failed}}]
      PROVE  LastOK(s, frames, last')
  <2> DEFINE la == last'
  <2>1. /\ la.kind = "unsat" /\ \A t : t \in la.assumed <=> t \in assumed /\ e.terms[t] \in failed
        /\ la.core = {n.name : n \in {k \in NamedAssertions : k.selector \in failed}}
    BY <1>6
  <2>2. \A k \in DOMAIN frames : \A n \in frames[k].named : n.selector \in failed => n.name \in la.core
    BY <1>4, <2>1
  <2> HIDE DEF la
  <2>3. ASSUME NEW W \in SUBSET Nat,
               ~ \E k \in DOMAIN frames : \E a \in frames[k].asserted :
                   (a.label = NoLabel \/ a.label \in la.core) /\ ~ TrueIn(s, a.term, W),
               ~ \E t \in la.assumed : ~ TrueIn(s, t, W)
        PROVE  FALSE
    <3>1. Stands(s, frames, W, failed)
      BY <2>2, <2>3 DEF Stands
    <3>2. Chosen(s, e, frames, W, failed)
      <4> SUFFICES ASSUME NEW l \in failed
                   PROVE  \/ \E k \in DOMAIN frames : \E n \in frames[k].named : l = n.selector
                          \/ \E i \in DOMAIN e.terms : l = e.terms[i] /\ TrueIn(s, i, W)
        BY DEF Chosen
      <4>1. CASE \E k \in DOMAIN frames : \E n \in frames[k].named : l = n.selector
        BY <4>1
      <4>2. CASE \E t \in assumed : l = e.terms[t]
        BY <1>1, <2>1, <2>3, <4>2
      <4> QED
        BY <1>2, <1>6, <4>1, <4>2
    <3> QED
      BY <1>1, <1>6, <3>1, <3>2, RolesAnswer
  <2>4. \A t \in la.assumed : t \in 1 .. Len(s)
    BY <1>1, <2>1
  <2>5. LastOK(s, frames, la)
    BY <2>1, <2>3, <2>4 DEF LastOK
  <2> QED
    BY <2>5 DEF la
<1>7. CASE last' = [kind |-> "unknown", model |-> {}]
  <2> DEFINE la == last'
  <2>1. la.kind = "unknown"
    BY <1>7
  <2> HIDE DEF la
  <2>2. LastOK(s, frames, la)
    BY <2>1 DEF LastOK
  <2> QED
    BY <2>2 DEF la
<1> QED
  BY <1>3, <1>5, <1>6, <1>7

\* More terms and other names leave the result and the caches right.
LEMMA LastStays ==
  ASSUME NEW s, NEW s2, StoreOK(s), StoreOK(s2), Extends(s2, s), NEW f, NEW f2, DOMAIN f = 1 .. Len(f),
         DOMAIN f2 = 1 .. Len(f2), SameAssertions(f, f2), NEW e, NEW v, Coherent(s, e, v, f),
         NEW la, LastOK(s, f, la)
  PROVE  LastOK(s2, f2, la)
<1>1. \A k \in DOMAIN f : \A a \in f[k].asserted : a.term \in 1 .. Len(s)
  BY DEF Coherent, EntriesOK, EncoderOK
<1>2. \A A : \A i \in 1 .. Len(s) : TrueIn(s2, i, A) <=> TrueIn(s, i, A)
  BY TrueInExtends
<1>3. \A i \in 1 .. Len(s) : i \in 1 .. Len(s2)
  BY StoreFacts DEF Extends
<1>4. DOMAIN f2 = DOMAIN f /\ \A k \in DOMAIN f : f2[k].asserted = f[k].asserted
  BY DEF SameAssertions
<1>5. la.kind \in {"sat", "unsat"} => \A t \in la.assumed : t \in 1 .. Len(s2) /\ t \in 1 .. Len(s)
  BY <1>3 DEF LastOK
<1>6. CASE la.kind = "sat"
  <2>1. /\ \A k \in DOMAIN f : \A a \in f[k].asserted : TrueIn(s, a.term, la.model)
        /\ \A t \in la.assumed : TrueIn(s, t, la.model)
    BY <1>6 DEF LastOK
  <2>2. /\ \A k \in DOMAIN f2 : \A a \in f2[k].asserted : TrueIn(s2, a.term, la.model)
        /\ \A t \in la.assumed : TrueIn(s2, t, la.model)
    BY <1>1, <1>2, <1>4, <1>5, <1>6, <2>1
  <2> QED
    BY <1>5, <1>6, <2>2 DEF LastOK
<1>7. CASE la.kind = "unsat"
  <2>1. ASSUME NEW W \in SUBSET Nat
        PROVE  \/ \E k \in DOMAIN f2 : \E a \in f2[k].asserted :
                    (a.label = NoLabel \/ a.label \in la.core) /\ ~ TrueIn(s2, a.term, W)
               \/ \E t \in la.assumed : ~ TrueIn(s2, t, W)
    <3>1. \/ \E k \in DOMAIN f : \E a \in f[k].asserted :
                (a.label = NoLabel \/ a.label \in la.core) /\ ~ TrueIn(s, a.term, W)
          \/ \E t \in la.assumed : ~ TrueIn(s, t, W)
      BY <1>7 DEF LastOK
    <3> QED
      BY <1>1, <1>2, <1>4, <1>5, <1>7, <3>1
  <2> QED
    BY <1>5, <1>7, <2>1 DEF LastOK
<1>8. CASE la.kind \notin {"sat", "unsat"}
  BY <1>8 DEF LastOK
<1> QED
  BY <1>6, <1>7, <1>8
\* The caches depend on the nodes that have literals, and on nothing else of the store.
LEMMA CoherentStore ==
  ASSUME NEW s, NEW s2, NEW e, NEW v, NEW f, DOMAIN e.terms \subseteq 1 .. Len(s2),
         \A i \in DOMAIN e.terms : s2[i] = s[i], Coherent(s, e, v, f)
  PROVE  Coherent(s2, e, v, f)
<1>1. \A i \in DOMAIN e.terms : \A c : Defines(s2, e, i, c) <=> Defines(s, e, i, c)
  BY DEF Defines
<1>2. EncoderOK(s, e, v) /\ EntriesOK(e, v, f)
  BY DEF Coherent
<1>3. ASSUME NEW i \in DOMAIN e.terms PROVE LiteralOK(s2, e, v, i)
  <2>1. LiteralOK(s, e, v, i) /\ s2[i] = s[i]
    BY <1>2 DEF EncoderOK
  <2>2. s[i].op = "or" => \A c : Defines(s2, e, i, c) => c \in v.clauses
    BY <1>1, <2>1 DEF LiteralOK
  <2> QED
    BY <2>1, <2>2 DEF LiteralOK
<1>4. EncoderOK(s2, e, v)
  BY <1>2, <1>3 DEF EncoderOK
<1>5. PICK role : Coloured(s, e, v, f, role) /\ \A c \in v.clauses : ClauseOK(s, e, v, f, role, c)
  BY DEF Coherent
<1>6. Coloured(s2, e, v, f, role)
  <2>1. \A i \in DOMAIN e.terms : s2[i].op = s[i].op
    OBVIOUS
  <2> QED
    BY <1>5, <2>1 DEF Coloured
<1>7. ASSUME NEW c \in v.clauses PROVE ClauseOK(s2, e, v, f, role, c)
  <2>1. ClauseOK(s, e, v, f, role, c)
    BY <1>5
  <2>2. (\E i \in DOMAIN e.terms : s[i].op = "or" /\ Defines(s, e, i, c))
          => \E i \in DOMAIN e.terms : s2[i].op = "or" /\ Defines(s2, e, i, c)
    BY <1>1
  <2> QED
    BY <2>1, <2>2 DEF ClauseOK
<1> QED
  BY <1>2, <1>4, <1>6, <1>7 DEF Coherent

\* More terms leave them coherent.
LEMMA CoherentExtends ==
  ASSUME NEW s, NEW s2, StoreOK(s), Extends(s2, s), Len(s2) \in Nat, NEW e, NEW v, NEW f, Coherent(s, e, v, f)
  PROVE  Coherent(s2, e, v, f)
<1>1. DOMAIN e.terms \subseteq 1 .. Len(s)
  BY DEF Coherent, EncoderOK
<1>2. \A i \in 1 .. Len(s) : i \in 1 .. Len(s2) /\ s2[i] = s[i]
  BY StoreFacts DEF Extends
<1>3. DOMAIN e.terms \subseteq 1 .. Len(s2) /\ \A i \in DOMAIN e.terms : s2[i] = s[i]
  BY <1>1, <1>2
<1> QED
  BY <1>3, CoherentStore

\* So do fewer, if no term that has a literal goes.
LEMMA CoherentPrefix ==
  ASSUME NEW s, NEW s2, StoreOK(s), Extends(s2, s), NEW e, NEW v, NEW f, Coherent(s2, e, v, f),
         DOMAIN e.terms \subseteq 1 .. Len(s)
  PROVE  Coherent(s, e, v, f)
<1>1. \A i \in DOMAIN e.terms : s[i] = s2[i]
  BY DEF Extends
<1> QED
  BY <1>1, CoherentStore

\* So does every change of the frames that is not about assertions.
LEMMA CoherentFrames ==
  ASSUME NEW s, NEW e, NEW v, NEW f, NEW f2, DOMAIN f = 1 .. Len(f), DOMAIN f2 = 1 .. Len(f2),
         SameAssertions(f, f2), Coherent(s, e, v, f)
  PROVE  Coherent(s, e, v, f2)
<1>1. /\ DOMAIN f2 = DOMAIN f
      /\ \A k \in DOMAIN f : f2[k].named = f[k].named /\ f2[k].asserted = f[k].asserted
  BY DEF SameAssertions
<1>2. EncoderOK(s, e, v) /\ EntriesOK(e, v, f)
  BY DEF Coherent
<1>3. EntriesOK(e, v, f2)
  <2> SUFFICES ASSUME NEW k \in DOMAIN f, NEW a \in f[k].asserted
               PROVE  a.term \in DOMAIN e.terms /\ \E c \in v.clauses : InForce(e, v, f2, k, a, c)
    BY <1>1 DEF EntriesOK
  <2>1. a.term \in DOMAIN e.terms /\ \E c \in v.clauses : InForce(e, v, f, k, a, c)
    BY <1>2 DEF EntriesOK
  <2>2. \A c : InForce(e, v, f, k, a, c) => InForce(e, v, f2, k, a, c)
    BY <1>1 DEF InForce
  <2> QED
    BY <2>1, <2>2
<1>4. PICK role : Coloured(s, e, v, f, role) /\ \A c \in v.clauses : ClauseOK(s, e, v, f, role, c)
  BY DEF Coherent
<1>5. Coloured(s, e, v, f2, role)
  <2>1. \A k \in DOMAIN f2 : \A n \in f2[k].named :
          n.selector \in 1 .. v.count /\ role[n.selector] = Role("name", k)
    BY <1>1, <1>4 DEF Coloured
  <2> QED
    BY <1>4, <2>1 DEF Coloured
<1>6. ASSUME NEW c \in v.clauses PROVE ClauseOK(s, e, v, f2, role, c)
  <2>1. ClauseOK(s, e, v, f, role, c)
    BY <1>4
  <2>2. ASSUME NEW k \in DOMAIN f, NEW a \in f[k].asserted, e.terms[a.term] \in c,
               Selected(v, k, c), Labelling(f, k, a, c)
        PROVE  \E j \in DOMAIN f2 : \E b \in f2[j].asserted :
                 e.terms[b.term] \in c /\ Selected(v, j, c) /\ Labelling(f2, j, b, c)
    <3>1. Labelling(f2, k, a, c)
      BY <1>1, <2>2 DEF Labelling
    <3> QED
      BY <1>1, <2>2, <3>1
  <2> QED
    BY <2>1, <2>2 DEF ClauseOK
<1> QED
  BY <1>2, <1>3, <1>5, <1>6 DEF Coherent
\* What push does to the solver and to the scope stack.
Pushed(v, f, v2, f2) ==
  /\ v2.count = v.count + 1 /\ v2.clauses = v.clauses
  /\ Len(v2.selectors) = Len(v.selectors) + 1 /\ v2.selectors[Len(v.selectors) + 1] = v.count + 1
  /\ \A k \in 1 .. Len(v.selectors) : v2.selectors[k] = v.selectors[k]
  /\ DOMAIN f = 1 .. Len(v.selectors) + 1 /\ DOMAIN f2 = 1 .. Len(v.selectors) + 2
  /\ \A k \in DOMAIN f : f2[k] = f[k]
  /\ f2[Len(v.selectors) + 2].named = {} /\ f2[Len(v.selectors) + 2].asserted = {}

\* A new scope: its selector is a new variable, and nothing is asserted in it.
LEMMA CoherentPushed ==
  ASSUME NEW s, NEW e, NEW v \in Solvers, NEW f, NEW v2, NEW f2, Pushed(v, f, v2, f2), Coherent(s, e, v, f)
  PROVE  Coherent(s, e, v2, f2)
<1> DEFINE n == Len(v.selectors)
           y == v.count + 1
<1>1. n \in Nat /\ v.count \in Nat /\ y \notin 1 .. v.count /\ y \in 1 .. v2.count
      /\ \A x \in 1 .. v.count : x \in 1 .. v2.count
  BY DEF Solvers, Pushed
<1>2. /\ v2.clauses = v.clauses /\ Len(v2.selectors) = n + 1 /\ v2.selectors[n + 1] = y
      /\ \A k \in 1 .. n : v2.selectors[k] = v.selectors[k]
      /\ DOMAIN f = 1 .. n + 1 /\ DOMAIN f2 = 1 .. n + 2 /\ \A k \in DOMAIN f : f2[k] = f[k] /\ k \in DOMAIN f2
      /\ f2[n + 2].named = {} /\ f2[n + 2].asserted = {}
  BY <1>1 DEF Pushed
<1>3. \A k \in DOMAIN f2 : k \in DOMAIN f \/ k = n + 2
  BY <1>1, <1>2
<1>4. EncoderOK(s, e, v) /\ EntriesOK(e, v, f)
  BY DEF Coherent
<1>5. PICK role : Coloured(s, e, v, f, role) /\ \A c \in v.clauses : ClauseOK(s, e, v, f, role, c)
  BY DEF Coherent
<1> DEFINE role2 == [x \in 1 .. v2.count |-> IF x = y THEN Role("scope", n + 1) ELSE role[x]]
<1>6. role2[y] = Role("scope", n + 1) /\ \A x \in 1 .. v.count : role2[x] = role[x]
  BY <1>1
<1> HIDE DEF role2, n, y
<1>7. \A k \in DOMAIN f : k > 1 => v2.selectors[k - 1] = v.selectors[k - 1]
  <2>1. \A k \in DOMAIN f : k > 1 => k - 1 \in 1 .. n
    BY <1>1, <1>2
  <2> QED
    BY <1>2, <2>1
<1>8. EncoderOK(s, e, v2)
  <2>1. \A i \in DOMAIN e.terms : LiteralOK(s, e, v2, i)
    BY <1>2, <1>4 DEF EncoderOK, LiteralOK
  <2> QED
    BY <1>2, <1>4, <2>1 DEF EncoderOK
<1>9. EntriesOK(e, v2, f2)
  <2> SUFFICES ASSUME NEW k \in DOMAIN f, NEW a \in f[k].asserted
               PROVE  a.term \in DOMAIN e.terms /\ \E c \in v2.clauses : InForce(e, v2, f2, k, a, c)
    BY <1>2, <1>3 DEF EntriesOK
  <2>1. a.term \in DOMAIN e.terms /\ \E c \in v.clauses : InForce(e, v, f, k, a, c)
    BY <1>4 DEF EntriesOK
  <2>2. \A c : InForce(e, v, f, k, a, c) => InForce(e, v2, f2, k, a, c)
    BY <1>2, <1>7 DEF InForce
  <2> QED
    BY <1>2, <2>1, <2>2
<1>10. Coloured(s, e, v2, f2, role2)
  <2>1. e.truth # 0 => e.truth \in 1 .. v2.count /\ role2[e.truth] = Role("truth", 0)
    BY <1>1, <1>5, <1>6 DEF Coloured
  <2>2. \A a \in DOMAIN e.atoms : e.atoms[a] \in 1 .. v2.count /\ role2[e.atoms[a]] = Role("atom", a)
    BY <1>1, <1>5, <1>6 DEF Coloured
  <2>3. \A i \in DOMAIN e.terms :
          s[i].op = "or" => e.terms[i] \in 1 .. v2.count /\ role2[e.terms[i]] = Role("or", i)
    BY <1>1, <1>5, <1>6 DEF Coloured
  <2>4. \A k \in 1 .. n + 1 : v2.selectors[k] \in 1 .. v2.count /\ role2[v2.selectors[k]] = Role("scope", k)
    <3> SUFFICES ASSUME NEW k \in 1 .. n + 1
                 PROVE  v2.selectors[k] \in 1 .. v2.count /\ role2[v2.selectors[k]] = Role("scope", k)
      OBVIOUS
    <3>1. CASE k = n + 1
      BY <1>1, <1>2, <1>6, <3>1
    <3>2. CASE k # n + 1
      <4>1. k \in 1 .. n
        BY <1>1, <3>2
      <4> QED
        BY <1>1, <1>2, <1>5, <1>6, <4>1 DEF Coloured, n
    <3> QED
      BY <3>1, <3>2
  <2>5. \A k \in DOMAIN f2 : \A m \in f2[k].named :
          m.selector \in 1 .. v2.count /\ role2[m.selector] = Role("name", k)
    BY <1>1, <1>2, <1>3, <1>5, <1>6 DEF Coloured
  <2> QED
    BY <1>2, <2>1, <2>2, <2>3, <2>4, <2>5 DEF Coloured
<1>11. ASSUME NEW c \in v.clauses PROVE ClauseOK(s, e, v2, f2, role2, c)
  <2>1. ClauseOK(s, e, v, f, role, c)
    BY <1>5
  <2>2. (\E x \in 1 .. v.count : -x \in c /\ role[x].kind = "dead")
          => \E x \in 1 .. v2.count : -x \in c /\ role2[x].kind = "dead"
    BY <1>1, <1>6
  <2>3. ASSUME NEW k \in DOMAIN f, NEW a \in f[k].asserted, e.terms[a.term] \in c,
               Selected(v, k, c), Labelling(f, k, a, c)
        PROVE  \E j \in DOMAIN f2 : \E b \in f2[j].asserted :
                 e.terms[b.term] \in c /\ Selected(v2, j, c) /\ Labelling(f2, j, b, c)
    <3>1. Labelling(f2, k, a, c)
      BY <1>2, <2>3 DEF Labelling
    <3>2. Selected(v2, k, c)
      BY <1>7, <2>3 DEF Selected
    <3> QED
      BY <1>2, <2>3, <3>1, <3>2
  <2> QED
    BY <2>1, <2>2, <2>3 DEF ClauseOK
<1> QED
  BY <1>2, <1>8, <1>9, <1>10, <1>11 DEF Coherent

\* What pop does to them.
Popped(v, f, v2, f2) ==
  /\ v2.count = v.count /\ Len(v.selectors) >= 1 /\ Len(v2.selectors) = Len(v.selectors) - 1
  /\ \A c : c \in v2.clauses <=> c \in v.clauses \/ c = {-v.selectors[Len(v.selectors)]}
  /\ \A k \in 1 .. Len(v.selectors) - 1 : v2.selectors[k] = v.selectors[k]
  /\ DOMAIN f = 1 .. Len(v.selectors) + 1 /\ DOMAIN f2 = 1 .. Len(v.selectors)
  /\ \A k \in DOMAIN f2 : f2[k] = f[k]

\* A scope less: its selector is false for good, and so are those of its assertions.
LEMMA CoherentPopped ==
  ASSUME NEW s, NEW e, NEW v \in Solvers, NEW f, NEW v2, NEW f2, Popped(v, f, v2, f2), Coherent(s, e, v, f)
  PROVE  Coherent(s, e, v2, f2)
<1> DEFINE n == Len(v.selectors)
           y == v.selectors[n]
<1>1. /\ n \in Nat /\ n >= 1 /\ v2.count = v.count /\ Len(v2.selectors) = n - 1
      /\ \A c : c \in v2.clauses <=> c \in v.clauses \/ c = {-y}
      /\ \A k \in 1 .. n - 1 : v2.selectors[k] = v.selectors[k] /\ k \in 1 .. n
      /\ DOMAIN f = 1 .. n + 1 /\ DOMAIN f2 = 1 .. n /\ \A k \in DOMAIN f2 : f2[k] = f[k] /\ k \in DOMAIN f
  BY DEF Solvers, Popped
<1>2. \A k \in DOMAIN f : (k \in DOMAIN f2 /\ k # n + 1) \/ k = n + 1
  BY <1>1
<1>3. EncoderOK(s, e, v) /\ EntriesOK(e, v, f)
  BY DEF Coherent
<1>4. PICK role : Coloured(s, e, v, f, role) /\ \A c \in v.clauses : ClauseOK(s, e, v, f, role, c)
  BY DEF Coherent
<1> DEFINE gone(x) == role[x] = Role("scope", n) \/ role[x] = Role("name", n + 1)
           role2 == [x \in 1 .. v.count |-> IF gone(x) THEN Role("dead", 0) ELSE role[x]]
<1>5. /\ \A x \in 1 .. v.count : role[x] # Role("scope", n) /\ role[x] # Role("name", n + 1) => role2[x] = role[x]
      /\ \A x \in 1 .. v.count : role[x] = Role("scope", n) => role2[x] = Role("dead", 0)
      /\ \A x \in 1 .. v.count : role[x].kind = "dead" => role2[x].kind = "dead"
  BY DEF Role
<1>6. y \in 1 .. v.count /\ role2[y].kind = "dead"
  <2>1. y \in 1 .. v.count /\ role[y] = Role("scope", n)
    BY <1>1, <1>4 DEF Coloured
  <2>2. Role("dead", 0).kind = "dead"
    BY DEF Role
  <2> QED
    BY <1>5, <2>1, <2>2
<1> HIDE DEF role2, n, y
<1>7. \A k \in DOMAIN f2 : k > 1 => v2.selectors[k - 1] = v.selectors[k - 1]
  <2>1. \A k \in DOMAIN f2 : k > 1 => k - 1 \in 1 .. n - 1
    BY <1>1
  <2> QED
    BY <1>1, <2>1
<1>8. EncoderOK(s, e, v2)
  <2>1. \A i \in DOMAIN e.terms : LiteralOK(s, e, v2, i)
    BY <1>1, <1>3 DEF EncoderOK, LiteralOK
  <2> QED
    BY <1>1, <1>3, <2>1 DEF EncoderOK
<1>9. EntriesOK(e, v2, f2)
  <2> SUFFICES ASSUME NEW k \in DOMAIN f2, NEW a \in f[k].asserted
               PROVE  a.term \in DOMAIN e.terms /\ \E c \in v2.clauses : InForce(e, v2, f2, k, a, c)
    BY <1>1 DEF EntriesOK
  <2>1. a.term \in DOMAIN e.terms /\ \E c \in v.clauses : InForce(e, v, f, k, a, c)
    BY <1>1, <1>3 DEF EntriesOK
  <2>2. \A c : InForce(e, v, f, k, a, c) => InForce(e, v2, f2, k, a, c)
    BY <1>1, <1>7 DEF InForce
  <2> QED
    BY <1>1, <2>1, <2>2
<1>10. Coloured(s, e, v2, f2, role2)
  <2>1. e.truth # 0 => e.truth \in 1 .. v2.count /\ role2[e.truth] = Role("truth", 0)
    BY <1>1, <1>4, <1>5 DEF Coloured, Role
  <2>2. \A a \in DOMAIN e.atoms : e.atoms[a] \in 1 .. v2.count /\ role2[e.atoms[a]] = Role("atom", a)
    <3>1. \A a, k : Role("atom", a) # Role("scope", k) /\ Role("atom", a) # Role("name", k)
      BY DEF Role
    <3>2. \A a \in DOMAIN e.atoms : e.atoms[a] \in 1 .. v.count /\ role[e.atoms[a]] = Role("atom", a)
      BY <1>4 DEF Coloured
    <3>3. ASSUME NEW a \in DOMAIN e.atoms
          PROVE  e.atoms[a] \in 1 .. v2.count /\ role2[e.atoms[a]] = Role("atom", a)
      <4> DEFINE x == e.atoms[a]
      <4>1. x \in 1 .. v.count /\ role[x] = Role("atom", a)
        BY <3>2
      <4> HIDE DEF x
      <4>2. x \in 1 .. v2.count /\ role2[x] = Role("atom", a)
        BY <1>1, <1>5, <3>1, <4>1
      <4> QED
        BY <4>2 DEF x
    <3> QED
      BY <3>3
  <2>3. \A i \in DOMAIN e.terms :
          s[i].op = "or" => e.terms[i] \in 1 .. v2.count /\ role2[e.terms[i]] = Role("or", i)
    BY <1>1, <1>4, <1>5 DEF Coloured, Role
  <2>4. \A k \in 1 .. n - 1 : v2.selectors[k] \in 1 .. v2.count /\ role2[v2.selectors[k]] = Role("scope", k)
    <3> SUFFICES ASSUME NEW k \in 1 .. n - 1
                 PROVE  v2.selectors[k] \in 1 .. v2.count /\ role2[v2.selectors[k]] = Role("scope", k)
      OBVIOUS
    <3>1. v.selectors[k] \in 1 .. v.count /\ role[v.selectors[k]] = Role("scope", k) /\ k # n
      BY <1>1, <1>4 DEF Coloured, n
    <3>2. Role("scope", k) # Role("scope", n) /\ Role("scope", k) # Role("name", n + 1)
      BY <3>1 DEF Role
    <3> QED
      BY <1>1, <1>5, <3>1, <3>2
  <2>5. \A k \in DOMAIN f2 : \A m \in f2[k].named :
          m.selector \in 1 .. v2.count /\ role2[m.selector] = Role("name", k)
    <3> SUFFICES ASSUME NEW k \in DOMAIN f2, NEW m \in f[k].named
                 PROVE  m.selector \in 1 .. v2.count /\ role2[m.selector] = Role("name", k)
      BY <1>1
    <3>1. m.selector \in 1 .. v.count /\ role[m.selector] = Role("name", k) /\ k # n + 1
      BY <1>1, <1>4 DEF Coloured
    <3>2. Role("name", k) # Role("scope", n) /\ Role("name", k) # Role("name", n + 1)
      BY <3>1 DEF Role
    <3> QED
      BY <1>1, <1>5, <3>1, <3>2
  <2> QED
    BY <1>1, <2>1, <2>2, <2>3, <2>4, <2>5 DEF Coloured
<1>11. ASSUME NEW c \in v.clauses PROVE ClauseOK(s, e, v2, f2, role2, c)
  <2>1. ClauseOK(s, e, v, f, role, c)
    BY <1>4
  <2>2. (\E x \in 1 .. v.count : -x \in c /\ role[x].kind = "dead") => ClauseOK(s, e, v2, f2, role2, c)
    BY <1>1, <1>5 DEF ClauseOK
  <2>3. ASSUME NEW k \in DOMAIN f, NEW a \in f[k].asserted, e.terms[a.term] \in c,
               Selected(v, k, c), Labelling(f, k, a, c)
        PROVE  ClauseOK(s, e, v2, f2, role2, c)
    <3>1. CASE k = n + 1
      <4>1. -y \in c
        <5>1. k > 1 /\ k - 1 = n
          BY <1>1, <3>1
        <5> QED
          BY <2>3, <5>1 DEF Selected, y
      <4> QED
        BY <1>1, <1>6, <4>1 DEF ClauseOK
    <3>2. CASE k # n + 1
      <4>1. k \in DOMAIN f2 /\ f2[k] = f[k]
        BY <1>1, <1>2, <3>2
      <4>2. Labelling(f2, k, a, c) /\ Selected(v2, k, c)
        BY <1>7, <2>3, <4>1 DEF Labelling, Selected
      <4> QED
        BY <2>3, <4>1, <4>2 DEF ClauseOK
    <3> QED
      BY <3>1, <3>2
  <2> QED
    BY <2>1, <2>2, <2>3 DEF ClauseOK
<1>12. ClauseOK(s, e, v2, f2, role2, {-y})
  BY <1>1, <1>6 DEF ClauseOK
<1> QED
  BY <1>1, <1>8, <1>9, <1>10, <1>11, <1>12 DEF Coherent
\* What assert does to them: i is the term, label its label, y the clause.
AssertedIn(e, v, f, i, label, y, v2, f2) ==
  LET k == Len(v.selectors) + 1
      q == v.count + 1
  IN /\ i \in DOMAIN e.terms /\ v2.selectors = v.selectors /\ DOMAIN f = 1 .. k /\ DOMAIN f2 = 1 .. k
     /\ IF label = NoLabel THEN v2.count = v.count ELSE v2.count = q
     /\ \A c : c \in v2.clauses <=> c \in v.clauses \/ c = y
     /\ \A l : l \in y <=> \/ l = e.terms[i]
                           \/ label # NoLabel /\ l = -q
                           \/ k > 1 /\ l = -v.selectors[k - 1]
     /\ \A j \in 1 .. k : j # k => f2[j].asserted = f[j].asserted /\ f2[j].named = f[j].named
     /\ \A a : a \in f2[k].asserted <=> a \in f[k].asserted \/ a = [term |-> i, label |-> label]
     /\ \A n : n \in f2[k].named <=> \/ n \in f[k].named
                                     \/ label # NoLabel /\ n = [name |-> label, selector |-> q]

\* An assertion more: its clause belongs to it, its selector to the innermost scope.
LEMMA CoherentAsserted ==
  ASSUME NEW s, NEW e, NEW v \in Solvers, NEW f, NEW i, NEW label, NEW y, NEW v2, NEW f2,
         AssertedIn(e, v, f, i, label, y, v2, f2), Coherent(s, e, v, f)
  PROVE  Coherent(s, e, v2, f2)
<1> DEFINE k == Len(v.selectors) + 1
           q == v.count + 1
           r == [term |-> i, label |-> label]
           h == [name |-> label, selector |-> q]
<1>1. /\ i \in DOMAIN e.terms /\ v2.selectors = v.selectors /\ DOMAIN f = 1 .. k /\ DOMAIN f2 = 1 .. k
      /\ (label = NoLabel => v2.count = v.count) /\ (label # NoLabel => v2.count = q)
      /\ \A c : c \in v2.clauses <=> c \in v.clauses \/ c = y
      /\ \A l : l \in y <=> \/ l = e.terms[i]
                            \/ label # NoLabel /\ l = -q
                            \/ k > 1 /\ l = -v.selectors[k - 1]
      /\ \A j \in 1 .. k : j # k => f2[j].asserted = f[j].asserted /\ f2[j].named = f[j].named
      /\ \A a : a \in f2[k].asserted <=> a \in f[k].asserted \/ a = r
      /\ \A n : n \in f2[k].named <=> n \in f[k].named \/ (label # NoLabel /\ n = h)
  BY DEF AssertedIn
<1>2. r.term = i /\ r.label = label /\ h.name = label /\ h.selector = q
  OBVIOUS
<1>3. /\ k \in 1 .. k /\ v.count \in Nat /\ q \notin 1 .. v.count /\ (label # NoLabel => q \in 1 .. v2.count)
      /\ \A x \in 1 .. v.count : x \in 1 .. v2.count
  <2>1. Len(v.selectors) \in Nat /\ v.count \in Nat
    BY DEF Solvers
  <2> QED
    BY <1>1, <2>1
<1>4. EncoderOK(s, e, v) /\ EntriesOK(e, v, f)
  BY DEF Coherent
<1>5. PICK role : Coloured(s, e, v, f, role) /\ \A c \in v.clauses : ClauseOK(s, e, v, f, role, c)
  BY DEF Coherent
<1> DEFINE role2 == [x \in 1 .. v2.count |-> IF x = q THEN Role("name", k) ELSE role[x]]
<1>6. (label # NoLabel => role2[q] = Role("name", k)) /\ \A x \in 1 .. v.count : role2[x] = role[x]
  BY <1>3
<1>7. \A j \in 1 .. k : /\ \A a : a \in f2[j].asserted <=> a \in f[j].asserted \/ (j = k /\ a = r)
                        /\ \A n : n \in f2[j].named <=> n \in f[j].named \/ (j = k /\ label # NoLabel /\ n = h)
  <2> HIDE DEF k, r, h, q
  <2> QED
    BY <1>1
<1> HIDE DEF role2, k, q, r, h
<1>8. EncoderOK(s, e, v2)
  <2>1. \A j \in DOMAIN e.terms : LiteralOK(s, e, v2, j)
    BY <1>1, <1>4 DEF EncoderOK, LiteralOK
  <2> QED
    BY <1>1, <1>4, <2>1 DEF EncoderOK
<1>9. EntriesOK(e, v2, f2)
  <2> SUFFICES ASSUME NEW j \in 1 .. k, NEW a \in f2[j].asserted
               PROVE  a.term \in DOMAIN e.terms /\ \E c \in v2.clauses : InForce(e, v2, f2, j, a, c)
    BY <1>1 DEF EntriesOK
  <2>1. CASE a \in f[j].asserted
    <3>1. a.term \in DOMAIN e.terms /\ \E c \in v.clauses : InForce(e, v, f, j, a, c)
      BY <1>1, <1>4, <2>1 DEF EntriesOK
    <3>2. \A c : InForce(e, v, f, j, a, c) => InForce(e, v2, f2, j, a, c)
      BY <1>1, <1>7 DEF InForce
    <3> QED
      BY <1>1, <3>1, <3>2
  <2>2. CASE j = k /\ a = r
    <3>1. a.term = i /\ y \in v2.clauses
      BY <1>1, <1>2, <2>2
    <3>2. label # NoLabel => \E n \in f2[k].named : -q = -n.selector
      BY <1>2, <1>3, <1>7
    <3>3. InForce(e, v2, f2, k, a, y)
      BY <1>1, <3>1, <3>2 DEF InForce
    <3> QED
      BY <1>1, <2>2, <3>1, <3>3
  <2> QED
    BY <1>7, <2>1, <2>2
<1>10. Coloured(s, e, v2, f2, role2)
  <2>1. e.truth # 0 => e.truth \in 1 .. v2.count /\ role2[e.truth] = Role("truth", 0)
    BY <1>3, <1>5, <1>6 DEF Coloured
  <2>2. \A a \in DOMAIN e.atoms : e.atoms[a] \in 1 .. v2.count /\ role2[e.atoms[a]] = Role("atom", a)
    BY <1>3, <1>5, <1>6 DEF Coloured
  <2>3. \A j \in DOMAIN e.terms :
          s[j].op = "or" => e.terms[j] \in 1 .. v2.count /\ role2[e.terms[j]] = Role("or", j)
    BY <1>3, <1>5, <1>6 DEF Coloured
  <2>4. \A j \in 1 .. Len(v2.selectors) :
          v2.selectors[j] \in 1 .. v2.count /\ role2[v2.selectors[j]] = Role("scope", j)
    BY <1>1, <1>3, <1>5, <1>6 DEF Coloured
  <2>5. \A j \in DOMAIN f2 : \A m \in f2[j].named :
          m.selector \in 1 .. v2.count /\ role2[m.selector] = Role("name", j)
    <3> SUFFICES ASSUME NEW j \in 1 .. k, NEW m \in f2[j].named
                 PROVE  m.selector \in 1 .. v2.count /\ role2[m.selector] = Role("name", j)
      BY <1>1
    <3>1. CASE m \in f[j].named
      BY <1>1, <1>3, <1>5, <1>6, <3>1 DEF Coloured
    <3>2. CASE j = k /\ label # NoLabel /\ m = h
      BY <1>2, <1>3, <1>6, <3>2
    <3> QED
      BY <1>7, <3>1, <3>2
  <2> QED
    BY <2>1, <2>2, <2>3, <2>4, <2>5 DEF Coloured
<1>11. ASSUME NEW c \in v.clauses PROVE ClauseOK(s, e, v2, f2, role2, c)
  <2>1. ClauseOK(s, e, v, f, role, c)
    BY <1>5
  <2>2. (\E x \in 1 .. v.count : -x \in c /\ role[x].kind = "dead")
          => \E x \in 1 .. v2.count : -x \in c /\ role2[x].kind = "dead"
    BY <1>3, <1>6
  <2>3. ASSUME NEW j \in 1 .. k, NEW a \in f[j].asserted, e.terms[a.term] \in c,
               Selected(v, j, c), Labelling(f, j, a, c)
        PROVE  \E j2 \in DOMAIN f2 : \E b \in f2[j2].asserted :
                 e.terms[b.term] \in c /\ Selected(v2, j2, c) /\ Labelling(f2, j2, b, c)
    <3>1. Labelling(f2, j, a, c) /\ Selected(v2, j, c) /\ a \in f2[j].asserted
      BY <1>1, <1>7, <2>3 DEF Labelling, Selected
    <3> QED
      BY <1>1, <2>3, <3>1
  <2> QED
    BY <1>1, <2>1, <2>2, <2>3 DEF ClauseOK
<1>12. ClauseOK(s, e, v2, f2, role2, y)
  <2>1. r \in f2[k].asserted /\ e.terms[r.term] \in y
    BY <1>1, <1>2
  <2>2. Selected(v2, k, y)
    BY <1>1 DEF Selected
  <2>3. Labelling(f2, k, r, y)
    <3>1. label # NoLabel => h \in f2[k].named /\ h.name = r.label /\ -h.selector \in y
      BY <1>1, <1>2
    <3> QED
      BY <1>2, <3>1 DEF Labelling
  <2> QED
    BY <1>1, <1>3, <2>1, <2>2, <2>3 DEF ClauseOK
<1> QED
  BY <1>1, <1>8, <1>9, <1>10, <1>11, <1>12 DEF Coherent

\* A new solver with a new encoder, and nothing asserted, is coherent.
LEMMA CoherentEmpty ==
  ASSUME NEW s, NEW f, f[1].named = {}, f[1].asserted = {}, DOMAIN f = {1}
  PROVE  Coherent(s, EmptyEncoder, EmptySolver, f)
<1> DEFINE e == EmptyEncoder
           v == EmptySolver
<1>1. DOMAIN e.terms = {} /\ DOMAIN e.atoms = {} /\ e.truth = 0
  BY UnboundFacts DEF EmptyEncoder
<1>2. v.clauses = {} /\ Len(v.selectors) = 0
  BY DEF EmptySolver
<1> HIDE DEF e, v
<1>3. EncoderOK(s, e, v)
  BY <1>1 DEF EncoderOK
<1>4. EntriesOK(e, v, f)
  BY DEF EntriesOK
<1>5. \A role : Coloured(s, e, v, f, role)
  BY <1>1, <1>2 DEF Coloured
<1> QED
  BY <1>2, <1>3, <1>4, <1>5 DEF Coherent, e, v
-----------------------------------------------------------------------------
(***************************************************************************)
(* The commands, over the caches and the result.                           *)
(***************************************************************************)
CachesInv == Coherent(nodes, encoder, solver, frames) /\ LastOK(nodes, frames, last)

\* A command with labels that could be encoded in part only: its terms go, and
\* the literals that some of them got stay (rollback_inline_definitions).
ItemsOf(c) == CASE c.op = "assert" -> <<c.item>> [] c.op = "check" -> c.items [] OTHER -> << >>
LeavesHalf(c) ==
  Execute(c) /\ Labels(ItemsOf(c)) # {} /\ out'.kind = "error" /\ encoder' # encoder
NothingHalfDone == [][\A c \in Commands : ~ LeavesHalf(c)]_vars

\* No result is right.
LEMMA NoneOK ==
  ASSUME NEW s, NEW f
  PROVE  LastOK(s, f, None)
<1>1. None.kind = "none"
  BY DEF None
<1> HIDE DEF None
<1> QED
  BY <1>1 DEF LastOK

\* A command that adds terms, names or literals.
LEMMA CachesStay ==
  ASSUME NamesInv, NamesInv', CachesInv, SameAssertions(frames, frames'), Extends(nodes', nodes),
         Coherent(nodes', encoder', solver', frames), last' = last \/ last' = None
  PROVE  CachesInv'
<1>1. /\ StoreOK(nodes) /\ StoreOK(nodes') /\ DOMAIN frames = 1 .. Len(frames) /\ DOMAIN frames' = 1 .. Len(frames')
  <2>1. frames \in Seq(Frames) /\ frames' \in Seq(Frames)
    BY DEF NamesInv, ScopesOK
  <2> QED
    BY <2>1 DEF NamesInv, NamesTyped
<1>2. Coherent(nodes', encoder', solver', frames')
  BY <1>1, CoherentFrames
<1>3. LastOK(nodes', frames', last')
  <2>1. CASE last' = last
    <3>1. LastOK(nodes', frames', last)
      BY <1>1, LastStays DEF CachesInv
    <3> QED
      BY <2>1, <3>1
  <2>2. CASE last' = None
    BY <2>2, NoneOK
  <2> QED
    BY <2>1, <2>2
<1> QED
  BY <1>2, <1>3 DEF CachesInv

\* A command that only adds terms and names.
LEMMA CachesKept ==
  ASSUME NamesInv, NamesInv', CachesInv, SameAssertions(frames, frames'), Extends(nodes', nodes),
         encoder' = encoder, solver' = solver, last' = last \/ last' = None
  PROVE  CachesInv'
<1>1. StoreOK(nodes) /\ Len(nodes') \in Nat
  BY StoreFacts DEF NamesInv, NamesTyped
<1>2. Coherent(nodes', encoder, solver, frames)
  BY <1>1, CoherentExtends DEF CachesInv
<1> QED
  BY <1>2, CachesStay

\* A command that changes nothing.
LEMMA CachesIdle ==
  ASSUME CachesInv, Standing
  PROVE  CachesInv'
BY DEF CachesInv, Standing

\* What a command has encoded is coherent over the terms it has parsed.
LEMMA CachesGrown ==
  ASSUME NamesInv, CachesInv, NEW c, c.room \in Nat, NEW items, NEW t, ParseOK(t, items), t.ok,
         NEW w, Grown(t.store, frames, Work(c), w)
  PROVE  /\ Coherent(t.store, w.encoder, w.solver, frames) /\ w \in Works
         /\ w.solver.selectors = solver.selectors
<1>1. StoreOK(nodes) /\ StoreOK(t.store) /\ Extends(t.store, nodes)
  BY ParsedNames DEF NamesInv, NamesTyped
<1>2. Len(t.store) \in Nat
  BY <1>1, StoreFacts
<1>3. Coherent(t.store, encoder, solver, frames)
  BY <1>1, <1>2, CoherentExtends DEF CachesInv
<1>4. Work(c).encoder = encoder /\ Work(c).solver = solver
  BY WorkFacts
<1> QED
  BY <1>3, <1>4 DEF Grown, Keeps

\* A command that stopped half way, and left no literal to a term that went.
LEMMA StoppedCaches ==
  ASSUME NamesInv, CachesInv, NEW c, NEW items, c.room \in Nat, Stopped(c, items), logic' = logic,
         Labels(items) # {} /\ out'.kind = "error" => encoder' = encoder
  PROVE  CachesInv'
<1>1. PICK t, w : /\ ParseOK(t, items) /\ t.ok /\ Grown(t.store, frames, Work(c), w)
                  /\ HalfEncoded(t, w, items)
  BY DEF Stopped
<1>2. NamesInv'
  BY StoppedNames
<1>3. /\ frames' = frames /\ last' = last /\ encoder' = w.encoder /\ solver' = w.solver
      /\ out'.kind = "error"
      /\ nodes' = t.store \/ (nodes' = nodes /\ Labels(items) # {})
  BY <1>1 DEF HalfEncoded, RolledBack, Answer
<1>4. Coherent(t.store, encoder', solver', frames)
  BY <1>1, <1>3, CachesGrown
<1>5. StoreOK(nodes) /\ Extends(t.store, nodes) /\ Extends(nodes, nodes)
  BY <1>1, ParsedNames, ExtendsFacts DEF NamesInv, NamesTyped
<1>6. Coherent(nodes', encoder', solver', frames)
  <2>1. CASE nodes' = t.store
    BY <1>4, <2>1
  <2>2. CASE nodes' = nodes /\ Labels(items) # {}
    <3>1. encoder' = encoder /\ DOMAIN encoder.terms \subseteq 1 .. Len(nodes)
      BY <1>3, <2>2 DEF CachesInv, Coherent, EncoderOK
    <3>2. Coherent(t.store, encoder, solver', frames)
      BY <1>4, <3>1
    <3>3. Coherent(nodes, encoder, solver', frames)
      BY <1>5, <3>1, <3>2, CoherentPrefix
    <3> QED
      BY <2>2, <3>1, <3>3
  <2> QED
    BY <1>3, <2>1, <2>2
<1>7. SameAssertions(frames, frames') /\ Extends(nodes', nodes)
  BY <1>3, <1>5 DEF SameAssertions
<1> QED
  BY <1>2, <1>3, <1>6, <1>7, CachesStay

\* check-sat and check-sat-assuming: the result is about the assertions.
LEMMA CheckCaches ==
  ASSUME NamesInv, CachesInv, NEW c \in Commands, CheckSat(c),
         Labels(c.items) # {} /\ out'.kind = "error" => encoder' = encoder
  PROVE  CachesInv'
<1>1. logic' = logic /\ c.op = "check" /\ c.room \in Nat /\ NamesInv'
  BY CheckOutcomes, CommandFacts, CheckNames
<1> DEFINE items == c.items
<1>2. CASE Stopped(c, items)
  <2>1. Labels(items) # {} /\ out'.kind = "error" => encoder' = encoder
    OBVIOUS
  <2> HIDE DEF items
  <2> QED
    BY <1>1, <1>2, <2>1, StoppedCaches
<1>3. ASSUME NEW t, NEW w, ParseOK(t, items), t.ok, Grown(t.store, frames, Work(c), w), w.ok,
             Range(t.terms) \subseteq DOMAIN w.encoder.terms, Checked(c, t, w)
      PROVE  CachesInv'
  <2> DEFINE f2 == Labelled(frames, items, t.bindings)
             assumed == Range(t.terms)
  <2>1. /\ nodes' = t.store /\ encoder' = w.encoder /\ solver' = w.solver /\ frames' = f2
        /\ Answered(w, assumed) /\ assumed \subseteq DOMAIN w.encoder.terms
    BY <1>3 DEF Checked
  <2> HIDE DEF items, assumed
  <2>2. /\ Coherent(t.store, w.encoder, w.solver, frames) /\ w \in Works
        /\ w.solver.selectors = solver.selectors
    BY <1>1, <1>3, CachesGrown
  <2>3. StoreOK(t.store) /\ Extends(t.store, t.store)
    BY <1>3, ParsedNames, ExtendsFacts
  <2>4. LastOK(t.store, frames, last')
    BY <2>1, <2>2, <2>3, AnsweredFacts
  <2>5. SameAssertions(frames, f2)
    <3>1. ScopesOK(bindings, frames)
      BY DEF NamesInv
    <3> QED
      BY <1>3, <3>1, CommitFacts DEF SameAssertions
  <2> HIDE DEF f2
  <2>6. DOMAIN frames = 1 .. Len(frames) /\ DOMAIN f2 = 1 .. Len(f2)
    <3>1. frames \in Seq(Frames) /\ frames' \in Seq(Frames)
      BY <1>1 DEF NamesInv, ScopesOK
    <3> QED
      BY <2>1, <3>1
  <2>7. LastOK(t.store, f2, last')
    <3> DEFINE la == last'
               s == t.store
               e == w.encoder
               v == w.solver
    <3>1. Coherent(s, e, v, frames) /\ LastOK(s, frames, la) /\ StoreOK(s) /\ Extends(s, s)
      BY <2>2, <2>3, <2>4
    <3> HIDE DEF la, s, e, v
    <3>2. LastOK(s, f2, la)
      BY <2>5, <2>6, <3>1, LastStays
    <3> QED
      BY <3>2 DEF la, s
  <2>8. Coherent(t.store, w.encoder, w.solver, f2)
    BY <2>2, <2>5, <2>6, CoherentFrames
  <2> QED
    BY <2>1, <2>7, <2>8 DEF CachesInv
<1> QED
  BY <1>2, <1>3, CachesIdle, CheckOutcomes
\* The clause of an assertion: its literal, under the selectors of its label and scope.
LEMMA ClauseFacts ==
  ASSUME NamesInv, NEW c, NEW t, NEW w, NEW v, v.selectors = solver.selectors
  PROVE  LET k == Len(v.selectors) + 1
         IN  \A l : l \in Clause(c, t, w) <=> \/ l = w.encoder.terms[t.terms[1]]
                                              \/ IsNamed(c) /\ l = -w.new
                                              \/ k > 1 /\ l = -v.selectors[k - 1]
<1> DEFINE q == solver.selectors
           x == w.encoder.terms[t.terms[1]]
           y == -w.new
           g == IF q = << >> THEN {} ELSE {-Last(q)}
           k == Len(v.selectors) + 1
<1>1. q \in Seq(Nat) /\ v.selectors = q
  BY ScopeFacts
<1>2. Clause(c, t, w) = ({x} \cup (IF IsNamed(c) THEN {y} ELSE {})) \cup g
  BY DEF Clause, Guarded
<1> HIDE DEF q, x, y
<1>3. \A l : l \in g <=> k > 1 /\ l = -v.selectors[k - 1]
  <2>1. CASE q = << >>
    BY <1>1, <2>1
  <2>2. CASE q # << >>
    <3>1. Len(q) \in Nat /\ Len(q) >= 1 /\ k - 1 = Len(q) /\ k > 1
      BY <1>1, <2>2
    <3>2. Last(q) = q[Len(q)]
      BY DEF Last
    <3>3. g = {-q[Len(q)]}
      BY <2>2, <3>2
    <3> HIDE DEF g
    <3>4. v.selectors[k - 1] = q[Len(q)]
      BY <1>1, <3>1
    <3> HIDE DEF k
    <3> QED
      BY <3>1, <3>3, <3>4
  <2> QED
    BY <2>1, <2>2
<1> HIDE DEF g, k
<1>4. \A l : l \in Clause(c, t, w) <=> l = x \/ (IsNamed(c) /\ l = y) \/ l \in g
  BY <1>2
<1> QED
  BY <1>3, <1>4 DEF x, y, k

\* assert: the clause and its selector belong to the assertion.
LEMMA AssertCaches ==
  ASSUME NamesInv, CachesInv, NEW c \in Commands, AssertTerm(c),
         Labels(<<c.item>>) # {} /\ out'.kind = "error" => encoder' = encoder
  PROVE  CachesInv'
<1> DEFINE items == <<c.item>>
<1>1. logic' = logic /\ c.op = "assert" /\ c.room \in Nat /\ c.item.label \in STRING /\ NamesInv'
  BY AssertOutcomes, CommandFacts, AssertNames
<1>2. CASE Stopped(c, items)
  <2>1. Labels(items) # {} /\ out'.kind = "error" => encoder' = encoder
    OBVIOUS
  <2> HIDE DEF items
  <2> QED
    BY <1>1, <1>2, <2>1, StoppedCaches
<1>3. ASSUME NEW t, NEW x, NEW w, ParseOK(t, items), t.ok, t.terms[1] \in 1 .. Len(t.store),
             Grown(t.store, frames, Work(c), x), x.ok, t.terms[1] \in DOMAIN x.encoder.terms,
             Selector(c, x, w), Asserted(c, t, w)
      PROVE  CachesInv'
  <2> DEFINE i == t.terms[1]
             label == c.item.label
             y == Clause(c, t, w)
             C == w.solver.clauses \cup {y}
             e == x.encoder
             v == x.solver
             v2 == [w.solver EXCEPT !.clauses = C]
             f == Entered(c, t, w)
             f2 == Labelled(f, items, t.bindings)
  <2>1. nodes' = t.store /\ encoder' = w.encoder /\ solver' = v2 /\ frames' = f2 /\ last' = None
    BY <1>3 DEF Asserted, InvalidateCheck
  <2>2. /\ w \in Works /\ w.encoder = e /\ w.solver.clauses = v.clauses /\ w.solver.selectors = v.selectors
        /\ (label # NoLabel => w.new = v.count + 1 /\ w.solver.count = v.count + 1)
        /\ (label = NoLabel => w.solver.count = v.count)
    BY <1>3 DEF Selector, IsNamed
  <2>3. Coherent(t.store, e, v, frames) /\ v \in Solvers /\ v.selectors = solver.selectors
    <3> HIDE DEF items
    <3>1. Coherent(t.store, x.encoder, x.solver, frames) /\ x \in Works /\ x.solver.selectors = solver.selectors
      BY <1>1, <1>3, CachesGrown
    <3> QED
      BY <3>1 DEF Works
  <2>4. i \in Nat /\ w.new \in Nat
    <3>1. Len(t.store) \in Nat
      BY <1>3, StoreFacts DEF ParseOK
    <3> QED
      BY <1>3, <2>2, <3>1 DEF Works
  <2>5. v2.count = w.solver.count /\ v2.clauses = C /\ v2.selectors = v.selectors
    BY <2>2 DEF Works, Solvers
  <2> HIDE DEF v2
  <2>6. LET k == Len(frames)
        IN  /\ f \in Seq(Frames) /\ Len(f) = k
            /\ \A j \in 1 .. k : f[j].bound = frames[j].bound /\ f[j].labels = frames[j].labels
            /\ \A j \in 1 .. k : j # k => f[j] = frames[j]
            /\ \A a : a \in f[k].asserted <=> a \in frames[k].asserted \/ a = [term |-> i, label |-> label]
            /\ \A n : n \in f[k].named <=> \/ n \in frames[k].named
                                           \/ IsNamed(c) /\ n = [name |-> label, selector |-> w.new]
    BY <1>1, <2>4, EnteredFacts
  <2> HIDE DEF f
  <2>7. /\ Len(frames) \in Nat /\ DOMAIN frames = 1 .. Len(frames) /\ DOMAIN f = 1 .. Len(frames)
        /\ Len(frames) = Len(v.selectors) + 1
    <3>1. DOMAIN f = 1 .. Len(f)
      BY <2>6
    <3> QED
      BY <2>3, <2>6, <3>1, ScopeFacts DEF NamesInv
  <2>8. AssertedIn(e, v, frames, i, label, y, v2, f)
    <3> DEFINE k == Len(v.selectors) + 1
               q == v.count + 1
    <3>1. \A l : l \in y <=> \/ l = e.terms[i]
                             \/ label # NoLabel /\ l = -q
                             \/ k > 1 /\ l = -v.selectors[k - 1]
      <4>1. \A l : l \in y <=> \/ l = e.terms[i]
                               \/ IsNamed(c) /\ l = -w.new
                               \/ k > 1 /\ l = -v.selectors[k - 1]
        BY <2>2, <2>3, ClauseFacts
      <4> HIDE DEF y, k, q
      <4>2. IsNamed(c) <=> label # NoLabel
        BY DEF IsNamed
      <4>3. label # NoLabel => -w.new = -q
        BY <2>2 DEF q
      <4> QED
        BY <4>1, <4>2, <4>3
    <3> HIDE DEF y
    <3>2. \A d : d \in v2.clauses <=> d \in v.clauses \/ d = y
      BY <2>2, <2>5
    <3>3. IF label = NoLabel THEN v2.count = v.count ELSE v2.count = q
      BY <2>2, <2>5
    <3>4. i \in DOMAIN e.terms /\ v2.selectors = v.selectors /\ DOMAIN frames = 1 .. k /\ DOMAIN f = 1 .. k
      BY <1>3, <2>5, <2>7
    <3>5. \A j \in 1 .. k : j # k => f[j].asserted = frames[j].asserted /\ f[j].named = frames[j].named
      BY <2>6, <2>7
    <3>6. \A a : a \in f[k].asserted <=> a \in frames[k].asserted \/ a = [term |-> i, label |-> label]
      BY <2>6, <2>7
    <3>7. \A n : n \in f[k].named <=> \/ n \in frames[k].named
                                      \/ label # NoLabel /\ n = [name |-> label, selector |-> q]
      <4>1. \A n : n \in f[k].named <=> \/ n \in frames[k].named
                                        \/ IsNamed(c) /\ n = [name |-> label, selector |-> w.new]
        BY <2>6, <2>7
      <4>2. IsNamed(c) <=> label # NoLabel
        BY DEF IsNamed
      <4>3. label # NoLabel => w.new = q
        BY <2>2
      <4> HIDE DEF k, q, label
      <4> QED
        BY <4>1, <4>2, <4>3
    <3> HIDE DEF e, v, i, label, C
    <3> QED
      BY <3>1, <3>2, <3>3, <3>4, <3>5, <3>6, <3>7 DEF AssertedIn
  <2>9. Coherent(t.store, e, v2, f)
    <3> DEFINE s == t.store
    <3>1. Coherent(s, e, v, frames) /\ v \in Solvers
      BY <2>3
    <3> HIDE DEF s, e, v, i, label, y
    <3>2. Coherent(s, e, v2, f)
      BY <2>8, <3>1, CoherentAsserted
    <3> QED
      BY <3>2 DEF s
  <2>10. SameAssertions(f, f2)
    <3>1. ScopesOK(bindings, frames)
      BY DEF NamesInv
    <3>2. ScopesOK(bindings, f)
      BY <2>6, <3>1, ScopesSame
    <3> HIDE DEF items
    <3>3. /\ Len(f2) = Len(frames)
          /\ \A j \in 1 .. Len(frames) : f2[j].named = f[j].named /\ f2[j].asserted = f[j].asserted
      BY <1>3, <2>6, <3>2, CommitFacts
    <3> HIDE DEF f2
    <3> QED
      BY <2>6, <3>3 DEF SameAssertions
  <2>11. DOMAIN f = 1 .. Len(f) /\ DOMAIN f2 = 1 .. Len(f2)
    <3>1. frames' \in Seq(Frames)
      BY <1>1 DEF NamesInv, ScopesOK
    <3> HIDE DEF f2
    <3> QED
      BY <2>1, <2>6, <3>1
  <2> HIDE DEF f2, e
  <2>12. Coherent(t.store, e, v2, f2)
    BY <2>9, <2>10, <2>11, CoherentFrames
  <2>13. LastOK(t.store, f2, None)
    BY NoneOK
  <2> QED
    BY <2>1, <2>2, <2>12, <2>13 DEF CachesInv
<1> QED
  BY <1>2, <1>3, CachesIdle, AssertOutcomes
\* push.
LEMMA PushCaches ==
  ASSUME NamesInv, CachesInv, NEW c \in Commands, Push(c)
  PROVE  CachesInv'
<1>1. nodes' = nodes
  BY DEF Push
<1>2. CASE c.room > 0
  <2> DEFINE q == solver.selectors
             m == solver.count + 1
             q2 == Append(q, m)
             v == [solver EXCEPT !.count = m, !.selectors = q2]
             f2 == Append(frames, EmptyFrame)
  <2>1. solver' = v /\ frames' = f2 /\ encoder' = encoder /\ last' = None
    BY <1>2 DEF Push, InvalidateCheck
  <2>2. /\ q \in Seq(Nat) /\ m \in Nat /\ solver \in Solvers /\ Len(frames) = Len(q) + 1
        /\ Len(q) \in Nat /\ frames \in Seq(Frames) /\ DOMAIN frames = 1 .. Len(frames)
    BY ScopeFacts DEF NamesInv
  <2> HIDE DEF q, m
  <2>3. Len(q2) = Len(q) + 1 /\ q2[Len(q) + 1] = m /\ \A k \in 1 .. Len(q) : q2[k] = q[k]
    BY <2>2
  <2> HIDE DEF q2
  <2>4. v.count = m /\ v.clauses = solver.clauses /\ v.selectors = q2
    BY <2>2 DEF Solvers
  <2> HIDE DEF v
  <2>5. EmptyFrame \in Frames /\ EmptyFrame.named = {} /\ EmptyFrame.asserted = {}
    BY DEF EmptyFrame, Frames
  <2> HIDE DEF EmptyFrame, Frames
  <2>6. /\ DOMAIN f2 = 1 .. Len(q) + 2 /\ f2[Len(q) + 2] = EmptyFrame
        /\ \A k \in DOMAIN frames : f2[k] = frames[k]
    BY <2>2, <2>5
  <2> HIDE DEF f2
  <2>7. Pushed(solver, frames, v, f2)
    BY <2>2, <2>3, <2>4, <2>5, <2>6 DEF Pushed, q, m
  <2>8. Coherent(nodes, encoder, v, f2)
    BY <2>2, <2>7, CoherentPushed DEF CachesInv
  <2>9. LastOK(nodes, f2, None)
    BY NoneOK
  <2> QED
    BY <1>1, <2>1, <2>8, <2>9 DEF CachesInv
<1>3. CASE ~ (c.room > 0)
  <2>1. Standing
    BY <1>3 DEF Push, Rejected, Standing
  <2> QED
    BY <2>1, CachesIdle
<1> QED
  BY <1>2, <1>3

\* All but the last element.
LEMMA FrontFacts ==
  ASSUME NEW S, NEW q \in Seq(S), Len(q) >= 1
  PROVE  /\ DOMAIN Front(q) = 1 .. Len(q) - 1 /\ Len(Front(q)) = Len(q) - 1
         /\ \A k \in 1 .. Len(q) - 1 : Front(q)[k] = q[k]
         /\ Last(q) = q[Len(q)]
<1>1. Last(q) = q[Len(q)]
  BY DEF Last
<1> DEFINE n == Len(q) - 1
           p == SubSeq(q, 1, n)
<1>2. n \in Nat /\ \A i \in 1 .. n : q[i] \in S
  OBVIOUS
<1>3. p \in Seq(S) /\ Len(p) = n /\ \A k \in 1 .. n : p[k] = q[k]
  <2> DEFINE m == 1
  <2>1. m \in Int /\ n \in Int /\ \A i \in m .. n : q[i] \in S
    BY <1>2
  <2> HIDE DEF n, m
  <2>2. /\ SubSeq(q, m, n) \in Seq(S)
        /\ Len(SubSeq(q, m, n)) = IF m <= n THEN n - m + 1 ELSE 0
        /\ \A i \in 1 .. n - m + 1 : SubSeq(q, m, n)[i] = q[m + i - 1]
    BY <2>1, SubSeqProperties
  <2>3. p = SubSeq(q, m, n)
    BY DEF m
  <2> HIDE DEF p
  <2>4. p \in Seq(S) /\ Len(p) = n
    BY <1>2, <2>2, <2>3 DEF m
  <2>5. ASSUME NEW k \in 1 .. n PROVE p[k] = q[k]
    <3>1. k \in 1 .. n - m + 1 /\ m + k - 1 = k
      BY <1>2 DEF m
    <3> QED
      BY <2>2, <2>3, <3>1
  <2> QED
    BY <2>4, <2>5
<1>4. DOMAIN p = 1 .. n
  <2> HIDE DEF p
  <2> QED
    BY <1>3
<1>5. Front(q) = p
  BY DEF Front
<1> HIDE DEF p
<1> QED
  BY <1>1, <1>3, <1>4, <1>5

\* pop: what was asserted in the scope is switched off for good.
LEMMA PopCaches ==
  ASSUME NamesInv, CachesInv, NEW c \in Commands, Pop(c)
  PROVE  CachesInv'
<1>1. nodes' = nodes
  BY DEF Pop
<1>2. CASE Len(frames) > 1
  <2> DEFINE q == solver.selectors
             q2 == Front(q)
             C == solver.clauses \cup {{-Last(q)}}
             v == [solver EXCEPT !.clauses = C, !.selectors = q2]
             f2 == Front(frames)
  <2>1. solver' = v /\ frames' = f2 /\ encoder' = encoder /\ last' = None
    BY <1>2 DEF Pop, InvalidateCheck
  <2>2. /\ q \in Seq(Nat) /\ solver \in Solvers /\ Len(frames) = Len(q) + 1 /\ Len(q) \in Nat
        /\ Len(q) >= 1 /\ frames \in Seq(Frames) /\ DOMAIN frames = 1 .. Len(q) + 1
    BY <1>2, ScopeFacts DEF NamesInv
  <2> HIDE DEF q
  <2>3. Len(q2) = Len(q) - 1 /\ (\A k \in 1 .. Len(q) - 1 : q2[k] = q[k]) /\ Last(q) = q[Len(q)]
    BY <2>2, FrontFacts DEF q2
  <2>4. DOMAIN f2 = 1 .. Len(q) /\ \A k \in 1 .. Len(q) : f2[k] = frames[k]
    <3> HIDE DEF Frames
    <3> QED
      BY <2>2 DEF Front
  <2> HIDE DEF q2, f2
  <2>5. \A d : d \in C <=> d \in solver.clauses \/ d = {-q[Len(q)]}
    BY <2>3
  <2> HIDE DEF C
  <2>6. v.count = solver.count /\ v.clauses = C /\ v.selectors = q2
    BY <2>2 DEF Solvers
  <2> HIDE DEF v
  <2>7. Popped(solver, frames, v, f2)
    BY <2>2, <2>3, <2>4, <2>5, <2>6 DEF Popped, q
  <2>8. Coherent(nodes, encoder, v, f2)
    BY <2>2, <2>7, CoherentPopped DEF CachesInv
  <2>9. LastOK(nodes, f2, None)
    BY NoneOK
  <2> QED
    BY <1>1, <2>1, <2>8, <2>9 DEF CachesInv
<1>3. CASE ~ (Len(frames) > 1)
  <2>1. Standing
    BY <1>3 DEF Pop, Rejected, Standing
  <2> QED
    BY <2>1, CachesIdle
<1> QED
  BY <1>2, <1>3

\* reset-assertions and reset.
LEMMA ResetCaches ==
  ASSUME NamesInv, NEW c \in Commands, ResetAssertions(c) \/ Reset(c)
  PROVE  CachesInv'
<1>1. encoder' = EmptyEncoder /\ solver' = EmptySolver /\ last' = None
  BY DEF ResetAssertions, Reset, InvalidateCheck
<1>2. frames'[1].named = {} /\ frames'[1].asserted = {} /\ DOMAIN frames' = {1}
  <2>1. CASE ResetAssertions(c) /\ "global-declarations" \in options
    <3> DEFINE g == [EmptyFrame EXCEPT !.bound = DOMAIN bindings,
                                       !.labels = UNION {frames[i].labels : i \in DOMAIN frames}]
    <3>1. frames' = <<g>>
      BY <2>1 DEF ResetAssertions
    <3>2. <<g>>[1].named = {} /\ <<g>>[1].asserted = {}
      BY GlobalFrame
    <3> HIDE DEF g
    <3> QED
      BY <3>1, <3>2
  <2>2. CASE ~ (ResetAssertions(c) /\ "global-declarations" \in options)
    <3>1. frames' = <<EmptyFrame>>
      BY <2>2 DEF ResetAssertions, Reset
    <3> QED
      BY <3>1 DEF EmptyFrame
  <2> QED
    BY <2>1, <2>2
<1>3. Coherent(nodes', EmptyEncoder, EmptySolver, frames')
  BY <1>2, CoherentEmpty
<1>4. LastOK(nodes', frames', None)
  BY NoneOK
<1> QED
  BY <1>1, <1>3, <1>4 DEF CachesInv

\* Every command keeps the caches coherent and the result right, unless it leaves
\* literals to terms that are gone.
LEMMA StepCaches ==
  ASSUME NamesInv, CachesInv, Next, \A c \in Commands : ~ LeavesHalf(c)
  PROVE  CachesInv'
<1>1. PICK c \in Commands : Execute(c)
  BY DEF Next
<1>2. NamesInv'
  BY StepNames
<1>3. Labels(ItemsOf(c)) # {} /\ out'.kind = "error" => encoder' = encoder
  BY <1>1 DEF LeavesHalf
<1>4. CASE Configure(c) \/ Inspect(c) \/ (Rejected /\ UNCHANGED <<nodes, bindings, logic, options>>)
  BY <1>4, ReadFacts, CachesIdle
<1>5. CASE Declare(c)
  <2>1. UNCHANGED <<nodes, bindings, encoder, solver, frames, last, logic>> => Standing
    BY DEF Standing
  <2> QED
    BY <1>2, <1>5, <2>1, DeclareFacts, CachesIdle, CachesKept
<1>6. CASE DefineFun(c)
  <2>1. UNCHANGED <<nodes, bindings, encoder, solver, frames, last, logic>> => Standing
    BY DEF Standing
  <2> QED
    BY <1>2, <1>6, <2>1, DefineFacts, CachesIdle, CachesKept
<1>7. CASE GetValue(c)
  BY <1>2, <1>7, ValueOutcomes, CachesIdle, CachesKept
<1>8. CASE AssertTerm(c)
  <2>1. c.op = "assert"
    BY <1>8 DEF AssertTerm
  <2>2. ItemsOf(c) = <<c.item>>
    BY <2>1 DEF ItemsOf
  <2>3. Labels(<<c.item>>) # {} /\ out'.kind = "error" => encoder' = encoder
    BY <1>3, <2>2
  <2> QED
    BY <1>8, <2>3, AssertCaches
<1>9. CASE CheckSat(c)
  <2>1. c.op = "check"
    BY <1>9 DEF CheckSat
  <2>2. ItemsOf(c) = c.items
    BY <2>1 DEF ItemsOf
  <2>3. Labels(c.items) # {} /\ out'.kind = "error" => encoder' = encoder
    BY <1>3, <2>2
  <2> QED
    BY <1>9, <2>3, CheckCaches
<1>10. CASE Push(c) \/ Pop(c) \/ ResetAssertions(c) \/ Reset(c)
  BY <1>10, PushCaches, PopCaches, ResetCaches
<1> QED
  BY <1>1, <1>4, <1>5, <1>6, <1>7, <1>8, <1>9, <1>10 DEF Execute

\* The caches are coherent and the result is right in every session that leaves no
\* literal to a term it withdraws.
LEMMA CachesAlways == Spec /\ NothingHalfDone => [](NamesInv /\ CachesInv)
<1>1. Init => CachesInv
  <2> SUFFICES ASSUME Init PROVE CachesInv
    OBVIOUS
  <2>1. /\ encoder = EmptyEncoder /\ solver = EmptySolver /\ last = None /\ frames = <<EmptyFrame>>
    BY DEF Init
  <2>2. frames[1].named = {} /\ frames[1].asserted = {} /\ DOMAIN frames = {1}
    BY <2>1 DEF EmptyFrame
  <2>3. Coherent(nodes, EmptyEncoder, EmptySolver, frames)
    BY <2>2, CoherentEmpty
  <2>4. LastOK(nodes, frames, None)
    BY NoneOK
  <2> QED
    BY <2>1, <2>3, <2>4 DEF CachesInv
<1>2. NamesInv /\ CachesInv /\ [Next]_vars /\ [\A c \in Commands : ~ LeavesHalf(c)]_vars => CachesInv'
  <2>1. ASSUME NamesInv, CachesInv, UNCHANGED vars PROVE CachesInv'
    <3>1. Standing
      BY <2>1 DEF vars, Standing
    <3> QED
      BY <2>1, <3>1, CachesIdle
  <2> QED
    BY <2>1, StepCaches
<1> QED
  BY <1>1, <1>2, NamesKept, PTL DEF Spec, NothingHalfDone

\* A cached literal means its term in every model of the solver's clauses, however
\* many scopes were opened and closed and names withdrawn since it was cached
\* (BoolEncoder's maps beside TermStore::rollback and Session::pop_frame).
THEOREM CachedLiteralsMean == Spec /\ NothingHalfDone => []CacheMeansTerm
<1>1. ASSUME NamesInv, CachesInv PROVE CacheMeansTerm
  <2> DEFINE v == solver
             e == encoder
             s == nodes
  <2>1. /\ StoreOK(s) /\ e \in Encoders /\ v \in Solvers /\ Coherent(s, e, v, frames)
        /\ DOMAIN s = 1 .. Len(s)
    BY <1>1, StoreFacts DEF NamesInv, NamesTyped, CachesInv
  <2>2. DOMAIN e.terms \subseteq 1 .. Len(s)
    BY <2>1 DEF Coherent, EncoderOK
  <2>3. ASSUME NEW m \in Permanent, NEW i \in DOMAIN e.terms
        PROVE  Holds(m, e.terms[i]) = TrueIn(s, i, SymbolsIn(m))
    <3>1. \A c \in v.clauses : \E l \in c : Holds(m, l)
      <4>1. [solver EXCEPT !.selectors = << >>].clauses = v.clauses
        BY <2>1 DEF Solvers
      <4> QED
        BY <2>3, <4>1 DEF Permanent, ModelsUnder
    <3> DEFINE A == {a \in DOMAIN e.atoms : Holds(m, e.atoms[a])}
    <3>2. SymbolsIn(m) = A
      BY DEF SymbolsIn
    <3> HIDE DEF e, s, v
    <3>3. Holds(m, e.terms[i]) <=> TrueIn(s, i, A)
      BY <2>1, <3>1, ModelMeaning
    <3> HIDE DEF A
    <3>4. TrueIn(s, i, A) \in BOOLEAN
      BY <2>1, <2>2, TrueInFacts
    <3>5. Holds(m, e.terms[i]) \in BOOLEAN
      BY HoldsBoolean
    <3> QED
      BY <3>2, <3>3, <3>4, <3>5
  <2> QED
    BY <2>1, <2>2, <2>3 DEF CacheMeansTerm
<1> QED
  BY <1>1, CachesAlways, PTL

\* The preceding result is about the current assertion stack: its model makes every
\* assertion true, its core and failed assumptions refute them (Session::last_check
\* beside the commands that invalidate it).
THEOREM LastResultRight == Spec /\ NothingHalfDone => []LastCheckRight
<1>1. ASSUME NamesInv, CachesInv PROVE LastCheckRight
  <2>1. LastOK(nodes, frames, last)
    BY <1>1 DEF CachesInv
  <2>2. \A a : a \in AssertedTerms <=> \E k \in DOMAIN frames : a \in frames[k].asserted
    BY DEF AssertedTerms
  <2>3. ASSUME last.kind = "sat", NEW t \in {a.term : a \in AssertedTerms} \cup last.assumed
        PROVE  TrueIn(nodes, t, last.model)
    BY <2>1, <2>2, <2>3 DEF LastOK
  <2>4. ASSUME last.kind = "unsat"
        PROVE  Unsatisfiable({a.term : a \in {k \in AssertedTerms : k.label \in last.core \cup {NoLabel}}}
                               \cup last.assumed)
    <3> DEFINE T == {a.term : a \in {k \in AssertedTerms : k.label \in last.core \cup {NoLabel}}}
                      \cup last.assumed
    <3> SUFFICES ASSUME NEW W \in SUBSET Symbols PROVE \E t \in T : ~ TrueIn(nodes, t, W)
      BY DEF Unsatisfiable
    <3>1. W \in SUBSET Nat
      <4>1. \A i \in DOMAIN nodes : nodes[i].op = "atom" => nodes[i].symbol \in Nat
        BY <1>1, StoreFacts DEF NamesInv, NamesTyped
      <4> QED
        BY <4>1 DEF Symbols
    <3>2. \/ \E k \in DOMAIN frames : \E a \in frames[k].asserted :
                (a.label = NoLabel \/ a.label \in last.core) /\ ~ TrueIn(nodes, a.term, W)
          \/ \E t \in last.assumed : ~ TrueIn(nodes, t, W)
      BY <2>1, <2>4, <3>1 DEF LastOK
    <3> QED
      BY <2>2, <3>2
  <2> QED
    BY <2>3, <2>4 DEF LastCheckRight
<1> QED
  BY <1>1, CachesAlways, PTL
=============================================================================
