---------------------------- MODULE KernelRefines ----------------------------
(***************************************************************************)
(* The kernel implements the search machine of Cdcl.tla: every step of the *)
(* solver on its arena, watch lists, queue and trail is a step of the      *)
(* abstract search, or changes nothing there.  With CdclProofs.tla every   *)
(* answer of the kernel is right.                                          *)
(***************************************************************************)
EXTENDS KernelProofs

-----------------------------------------------------------------------------
(***************************************************************************)
(* The state of the search machine, in the kernel's words.                 *)
(***************************************************************************)
ReasonSet(r) == IF r = 0 THEN {} ELSE LitsOf(r)

View == [i \in 1 .. Len(trail) |->
           [lit |-> trail[i].lit, lev |-> trail[i].lev,
            rsn |-> IF trail[i].rsn = 0 THEN {} ELSE LitsOf(trail[i].rsn)]]
ViewEntry == [lit : Lit, lev : Nat, rsn : SUBSET Lit]

Originals == {LitsOf(r) : r \in {q \in Stored : ~clauses[q].learned}}
Derived == {LitsOf(r) : r \in {q \in Stored : clauses[q].learned}}
Mode == IF Querying THEN "search" ELSE "idle"
Result == IF Querying THEN "none" ELSE cached.result

\* An assignment's reason is one of the arena's clauses.
LEMMA ReasonSets ==
  ASSUME TypeOK, ReasonsOK, NEW i \in Positions
  PROVE  /\ trail[i].rsn # 0 => trail[i].rsn \in Stored /\ trail[i].rsn \in Refs
         /\ ReasonSet(trail[i].rsn) \in SUBSET Lit
<1>1. trail[i].rsn # 0 => trail[i].rsn \in Stored /\ trail[i].rsn \in Refs
  BY DEF ReasonsOK, Explained, Stored, Refs
<1> QED
  BY <1>1, ClauseFields DEF ReasonSet

\* The trail of the search machine.
LEMMA ViewFacts ==
  ASSUME TypeOK, ReasonsOK
  PROVE  /\ View \in Seq(ViewEntry) /\ Len(View) = Len(trail) /\ Len(trail) \in Nat
         /\ \A i \in Positions : /\ View[i].lit = trail[i].lit /\ View[i].lev = trail[i].lev
                                 /\ View[i].rsn = ReasonSet(trail[i].rsn)
<1>1. Len(trail) \in Nat
  BY DEF TypeOK, TrailType
<1>2. ASSUME NEW i \in 1 .. Len(trail)
      PROVE  /\ View[i] = [lit |-> trail[i].lit, lev |-> trail[i].lev,
                           rsn |-> ReasonSet(trail[i].rsn)]
             /\ View[i] \in ViewEntry
  <2>1. View[i] = [lit |-> trail[i].lit, lev |-> trail[i].lev, rsn |-> ReasonSet(trail[i].rsn)]
    BY DEF View, ReasonSet
  <2>2. trail[i].lit \in Lit /\ trail[i].lev \in Nat /\ ReasonSet(trail[i].rsn) \in SUBSET Lit
    BY EntryFields, ReasonSets DEF Positions
  <2> QED
    BY <2>1, <2>2 DEF ViewEntry
<1>3. View = [i \in 1 .. Len(trail) |-> View[i]] /\ DOMAIN View = 1 .. Len(trail)
  BY DEF View
<1>4. View \in [1 .. Len(trail) -> ViewEntry]
  BY <1>2, <1>3
<1>5. View \in Seq(ViewEntry) /\ Len(View) = Len(trail)
  BY <1>1, <1>4, <1>3
<1>6. \A i \in Positions : /\ View[i].lit = trail[i].lit /\ View[i].lev = trail[i].lev
                          /\ View[i].rsn = ReasonSet(trail[i].rsn)
  <2> SUFFICES ASSUME NEW i \in Positions
               PROVE  /\ View[i].lit = trail[i].lit /\ View[i].lev = trail[i].lev
                      /\ View[i].rsn = ReasonSet(trail[i].rsn)
    OBVIOUS
  <2>1. PICK x, y, z : x = trail[i].lit /\ y = trail[i].lev /\ z = ReasonSet(trail[i].rsn)
    OBVIOUS
  <2>2. View[i] = [lit |-> x, lev |-> y, rsn |-> z]
    BY <1>2, <2>1 DEF Positions
  <2> QED
    BY <2>1, <2>2
<1> QED
  BY <1>1, <1>5, <1>6

\* The predicates of the search machine on the trail.
LEMMA SeenTrail ==
  ASSUME TypeOK, ReasonsOK
  PROVE  /\ Cdcl!Positions = Positions
         /\ \A S \in SUBSET Positions :
              \A l : l \in Cdcl!LitsAt(S) <=> \E i \in S : trail[i].lit = l
         /\ \A l : l \in Cdcl!TrueLits <=> IsTrue(l)
         /\ \A l : Cdcl!Unassigned(l) <=> Free(l)
         /\ \A c : Cdcl!Falsified(c) <=> \A l \in c : IsFalse(l)
         /\ \A l : l \in Cdcl!RootLits <=> \E i \in Positions : trail[i].lit = l /\ trail[i].lev = 0
<1>1. /\ Len(View) = Len(trail)
      /\ \A i \in Positions : View[i].lit = trail[i].lit /\ View[i].lev = trail[i].lev
  BY ViewFacts
<1>2. Cdcl!Positions = Positions
  BY <1>1 DEF Cdcl!Positions, Positions, View
<1>3. ASSUME NEW S \in SUBSET Positions, NEW l
      PROVE  l \in Cdcl!LitsAt(S) <=> \E i \in S : trail[i].lit = l
  <2>1. Cdcl!LitsAt(S) = {View[i].lit : i \in S}
    BY DEF Cdcl!LitsAt, View
  <2> QED
    BY <1>1, <2>1
<1>4. \A l : l \in Cdcl!TrueLits <=> IsTrue(l)
  BY <1>2, <1>3 DEF Cdcl!TrueLits, IsTrue, Positions
<1>5. \A l : Cdcl!Unassigned(l) <=> Free(l)
  BY <1>4 DEF Cdcl!Unassigned, Cdcl!Neg, Neg, Free, IsFalse
<1>6. \A c : Cdcl!Falsified(c) <=> \A l \in c : IsFalse(l)
  BY <1>4 DEF Cdcl!Falsified, Cdcl!Negs, Cdcl!Neg, Neg, IsFalse
<1>7. Cdcl!RootLits = Cdcl!LitsAt({i \in Positions : View[i].lev = 0})
  BY <1>2 DEF Cdcl!RootLits, View
<1>8. \A l : l \in Cdcl!RootLits <=> \E i \in Positions : trail[i].lit = l /\ trail[i].lev = 0
  <2>1. {i \in Positions : View[i].lev = 0} = {i \in Positions : trail[i].lev = 0}
    BY <1>1
  <2> QED
    BY <1>3, <1>7, <2>1
<1> QED
  BY <1>2, <1>3, <1>4, <1>5, <1>6, <1>8

\* Both modules read literals and clauses alike.
LEMMA SameLiterals ==
  /\ \A l : Cdcl!Neg(l) = Neg(l) /\ Cdcl!VarOf(l) = VarOf(l)
  /\ Cdcl!Lit = Lit
  /\ \A c : (Cdcl!Tautology(c) <=> Tautology(c)) /\ Cdcl!VarsOf(c) = {VarOf(l) : l \in c}
  /\ \A c : Cdcl!Negs(c) = {Neg(l) : l \in c}
  /\ \A s : Cdcl!Elems(s) = {s[i] : i \in 1 .. Len(s)}
<1>1. \A l : Cdcl!Neg(l) = Neg(l) /\ Cdcl!VarOf(l) = VarOf(l)
  BY DEF Cdcl!Neg, Neg, Cdcl!VarOf, VarOf
<1>2. Cdcl!Lit = Lit
  BY DEF Cdcl!Lit, Lit
<1>3. \A c : (Cdcl!Tautology(c) <=> Tautology(c)) /\ Cdcl!VarsOf(c) = {VarOf(l) : l \in c}
  BY <1>1 DEF Cdcl!Tautology, Tautology, Cdcl!VarsOf
<1>4. \A c : Cdcl!Negs(c) = {Neg(l) : l \in c}
  BY <1>1 DEF Cdcl!Negs
<1>5. \A s : Cdcl!Elems(s) = {s[i] : i \in 1 .. Len(s)}
  BY DEF Cdcl!Elems
<1> QED
  BY <1>1, <1>2, <1>3, <1>4, <1>5

\* The clauses of the search machine are the stored ones.
LEMMA SeenClauses ==
  ASSUME TypeOK
  PROVE  \A c : c \in Cdcl!Clauses <=> \E r \in Stored : c = LitsOf(r)
<1>1. \A r \in Stored : clauses[r].learned \in BOOLEAN
  BY ClauseFields DEF Stored, Refs
<1> QED
  BY <1>1 DEF Cdcl!Clauses

-----------------------------------------------------------------------------
(***************************************************************************)
(* How a step changes that state.                                          *)
(***************************************************************************)

\* Clauses that stay where they are.
LEMMA ClausesSeenSame ==
  ASSUME TypeOK, ClausesKept, Stored' = Stored
  PROVE  Originals' = Originals /\ Derived' = Derived
<1>1. Stored \subseteq Refs
  BY DEF Stored, Refs
<1>2. \A q \in Stored : LitsOf(q)' = LitsOf(q) /\ clauses'[q].learned = clauses[q].learned
  BY <1>1 DEF ClausesKept
<1>3. Originals' = {LitsOf(r)' : r \in {q \in Stored : ~clauses'[q].learned}}
  BY DEF Originals
<1>4. Derived' = {LitsOf(r)' : r \in {q \in Stored : clauses'[q].learned}}
  BY DEF Derived
<1> QED
  BY <1>2, <1>3, <1>4 DEF Originals, Derived

\* The first n assignments stay, and perhaps one is added.
LEMMA ViewKept ==
  ASSUME TypeOK, ReasonsOK, ClausesKept, NEW n \in 0 .. Len(trail),
         \A i \in 1 .. n : trail'[i] = trail[i]
  PROVE  /\ Len(trail') = n => View' = SubSeq(View, 1, n)
         /\ \A l, k, r : Len(trail') = n + 1 /\ trail'[n + 1] = [lit |-> l, lev |-> k, rsn |-> r]
              => View' = Append(SubSeq(View, 1, n),
                                [lit |-> l, lev |-> k, rsn |-> IF r = 0 THEN {} ELSE LitsOf(r)'])
<1>1. View \in Seq(ViewEntry) /\ Len(View) = Len(trail) /\ Len(trail) \in Nat /\ n \in Nat
  BY ViewFacts
<1>2. PICK v : v = SubSeq(View, 1, n)
  OBVIOUS
<1>3. v \in Seq(ViewEntry) /\ Len(v) = n /\ \A i \in 1 .. n : v[i] = View[i]
  BY <1>1, <1>2
<1>4. ASSUME NEW i \in 1 .. Len(trail'), NEW r, r = trail'[i].rsn
      PROVE  View'[i] = [lit |-> trail'[i].lit, lev |-> trail'[i].lev,
                         rsn |-> IF r = 0 THEN {} ELSE LitsOf(r)']
  BY <1>4 DEF View, LitsOf
<1>5. ASSUME NEW i \in 1 .. n, i \in 1 .. Len(trail') PROVE View'[i] = v[i]
  <2>1. trail'[i] = trail[i] /\ i \in Positions /\ i \in 1 .. Len(trail)
    BY <1>1, <1>5 DEF Positions
  <2>2. PICK r : r = trail[i].rsn
    OBVIOUS
  <2>3. r # 0 => LitsOf(r)' = LitsOf(r)
    BY <2>1, <2>2, ReasonSets DEF ClausesKept
  <2>4. View'[i] = [lit |-> trail[i].lit, lev |-> trail[i].lev,
                    rsn |-> IF r = 0 THEN {} ELSE LitsOf(r)']
    BY <1>4, <1>5, <2>1, <2>2
  <2>5. View[i] = [lit |-> trail[i].lit, lev |-> trail[i].lev,
                   rsn |-> IF r = 0 THEN {} ELSE LitsOf(r)]
    BY <2>1, <2>2 DEF View
  <2> QED
    BY <1>3, <2>3, <2>4, <2>5
<1>6. ASSUME Len(trail') = n PROVE View' = v
  <2>1. DOMAIN View' = 1 .. n /\ View' = [i \in 1 .. n |-> View'[i]]
    BY <1>6 DEF View
  <2>2. DOMAIN v = 1 .. n /\ v = [i \in 1 .. n |-> v[i]]
    BY <1>3
  <2> QED
    BY <1>5, <1>6, <2>1, <2>2
<1>7. ASSUME NEW l, NEW k, NEW r, Len(trail') = n + 1,
             trail'[n + 1] = [lit |-> l, lev |-> k, rsn |-> r]
      PROVE  View' = Append(v, [lit |-> l, lev |-> k, rsn |-> IF r = 0 THEN {} ELSE LitsOf(r)'])
  <2>1. PICK e : e = [lit |-> l, lev |-> k, rsn |-> IF r = 0 THEN {} ELSE LitsOf(r)']
    OBVIOUS
  <2>2. View'[n + 1] = e
    <3>1. trail'[n + 1].lit = l /\ trail'[n + 1].lev = k /\ trail'[n + 1].rsn = r
      BY <1>7
    <3>2. PICK m : m = n + 1
      OBVIOUS
    <3>3. m \in 1 .. Len(trail') /\ r = trail'[m].rsn
      BY <1>1, <1>7, <3>1, <3>2
    <3>4. View'[m] = [lit |-> trail'[m].lit, lev |-> trail'[m].lev,
                      rsn |-> IF r = 0 THEN {} ELSE LitsOf(r)']
      BY <1>4, <3>3
    <3> QED
      BY <2>1, <3>1, <3>2, <3>4
  <2>3. DOMAIN View' = 1 .. n + 1 /\ View' = [i \in 1 .. n + 1 |-> View'[i]]
    BY <1>7 DEF View
  <2>4. PICK a : a = Append(v, e)
    OBVIOUS
  <2>5. /\ DOMAIN a = 1 .. n + 1 /\ a = [i \in 1 .. n + 1 |-> a[i]]
        /\ a[n + 1] = e /\ \A i \in 1 .. n : a[i] = v[i]
    <3>1. /\ Len(a) = Len(v) + 1 /\ DOMAIN a = 1 .. Len(v) + 1 /\ a[Len(v) + 1] = e
          /\ \A i \in 1 .. Len(v) : a[i] = v[i]
      BY <1>1, <1>3, <2>4
    <3>2. a = [i \in DOMAIN a |-> a[i]]
      <4>1. PICK T : T = ViewEntry \cup {e}
        OBVIOUS
      <4>2. v \in Seq(T) /\ e \in T
        BY <1>3, <4>1
      <4>3. a \in Seq(T)
        BY <2>4, <4>2
      <4> QED
        BY <4>3
    <3> QED
      BY <1>3, <3>1, <3>2
  <2>6. ASSUME NEW i \in 1 .. n + 1 PROVE View'[i] = a[i]
    <3>1. CASE i = n + 1
      BY <2>2, <2>5, <3>1
    <3>2. CASE i # n + 1
      <4>1. i \in 1 .. n /\ i \in 1 .. Len(trail')
        BY <1>1, <1>7, <3>2
      <4> QED
        BY <1>5, <2>5, <4>1
    <3> QED
      BY <3>1, <3>2
  <2>7. View' = a
    BY <2>3, <2>5, <2>6
  <2> QED
    BY <2>1, <2>4, <2>7
<1> QED
  BY <1>2, <1>6, <1>7

\* A trail that stays is seen the same.
LEMMA ViewStays ==
  ASSUME TypeOK, ReasonsOK, ClausesKept, trail' = trail
  PROVE  View' = View
<1>1. View \in Seq(ViewEntry) /\ Len(View) = Len(trail) /\ Len(trail) \in Nat
  BY ViewFacts
<1>2. PICK n : n = Len(trail)
  OBVIOUS
<1>3. n \in 0 .. Len(trail) /\ Len(trail') = n /\ \A i \in 1 .. n : trail'[i] = trail[i]
  BY <1>1, <1>2
<1>4. View' = SubSeq(View, 1, n)
  BY <1>3, ViewKept
<1>5. SubSeq(View, 1, n) = View
  BY <1>1, <1>2
<1> QED
  BY <1>4, <1>5

\* An assignment is added to the trail.
LEMMA ViewGrows ==
  ASSUME TypeOK, ReasonsOK, ClausesKept, NEW l, NEW k, NEW r,
         trail' = Append(trail, [lit |-> l, lev |-> k, rsn |-> r])
  PROVE  View' = Append(View, [lit |-> l, lev |-> k, rsn |-> IF r = 0 THEN {} ELSE LitsOf(r)'])
<1>1. View \in Seq(ViewEntry) /\ Len(View) = Len(trail) /\ Len(trail) \in Nat
  BY ViewFacts
<1>2. PICK n : n = Len(trail)
  OBVIOUS
<1>3. n \in 0 .. Len(trail) /\ SubSeq(View, 1, n) = View
  BY <1>1, <1>2
<1>4. /\ \A i \in 1 .. n : trail'[i] = trail[i]
      /\ Len(trail') = n + 1 /\ trail'[n + 1] = [lit |-> l, lev |-> k, rsn |-> r]
  <2>1. trail \in Seq(Assignment)
    BY DEF TypeOK, TrailType
  <2>2. PICK e : e = [lit |-> l, lev |-> k, rsn |-> r]
    OBVIOUS
  <2> QED
    BY <1>2, <2>1, <2>2
<1>5. View' = Append(SubSeq(View, 1, n), [lit |-> l, lev |-> k,
                                          rsn |-> IF r = 0 THEN {} ELSE LitsOf(r)'])
  BY <1>3, <1>4, ViewKept
<1> QED
  BY <1>3, <1>5

\* Backtracking cuts what is seen of the trail above a level.
LEMMA ViewCut ==
  ASSUME TypeOK, TrailOK, ReasonsOK, NEW k \in 0 .. Level
  PROVE  /\ Len(Kept(k)) \in 0 .. Len(View)
         /\ Cdcl!CutAt(Len(Kept(k)), k)
<1>1. Len(View) = Len(trail) /\ Len(trail) \in Nat
      /\ \A i \in Positions : View[i].lev = trail[i].lev
  BY ViewFacts
<1>2. PICK n : n = Len(Kept(k))
  OBVIOUS
<1>3. n \in 0 .. Len(trail) /\ \A i \in Positions : i <= n <=> trail[i].lev <= k
  BY <1>1, <1>2, KeptFacts
<1>4. ASSUME NEW i \in 1 .. n PROVE View[i].lev <= k
  <2>1. i \in Positions /\ i <= n
    BY <1>1, <1>3 DEF Positions
  <2> QED
    BY <1>1, <1>3, <2>1
<1>5. ASSUME NEW i \in n + 1 .. Len(View) PROVE View[i].lev > k
  <2>1. i \in Positions /\ ~(i <= n)
    BY <1>1, <1>3 DEF Positions
  <2>2. trail[i].lev \in Nat /\ k \in Nat /\ ~(trail[i].lev <= k)
    BY <1>3, <2>1, EntryFields
  <2> QED
    BY <1>1, <2>1, <2>2
<1>6. Cdcl!CutAt(n, k)
  BY <1>4, <1>5 DEF Cdcl!CutAt, View
<1> QED
  BY <1>1, <1>2, <1>3, <1>6

\* cancel_until(k) is the search machine's.
LEMMA SeenCancel ==
  ASSUME Inv, ClausesKept, NEW k \in 0 .. Level, CancelUntil(k)
  PROVE  Cdcl!CancelUntil(k) /\ Level' = k
<1>1. TypeOK /\ TrailOK /\ ReasonsOK
  BY DEF Inv
<1>2. Level' = k
  BY BacktrackTrail
<1>3. PICK n : n = Len(Kept(k))
  OBVIOUS
<1>4. /\ n \in 0 .. Len(trail) /\ Len(trail') = n
      /\ \A i \in 1 .. n : trail'[i] = trail[i]
  <2>1. trail' = Kept(k)
    BY DEF CancelUntil
  <2>2. Len(trail) \in Nat
    BY <1>1 DEF TypeOK, TrailType
  <2> QED
    BY <1>1, <1>3, <2>1, <2>2, KeptFacts
<1>5. View' = SubSeq(View, 1, n)
  BY <1>1, <1>4, ViewKept
<1>6. Cdcl!CutAt(n, k) /\ n \in 0 .. Len(View)
  BY <1>1, <1>3, ViewCut
<1> QED
  BY <1>2, <1>5, <1>6 DEF Cdcl!CancelUntil, View

\* What is no part of the arena, the trail or the phase.
SameQuestion == UNCHANGED <<inputs, count, hard, user, consistent>>
SameDatabase == Originals' = Originals /\ Derived' = Derived
SameAnswer == Mode' = Mode /\ Result' = Result /\ failed' = failed

\* Nothing the search machine knows of changes.
LEMMA SeenStutter ==
  ASSUME SameQuestion, SameDatabase, SameAnswer, View' = View, Level' = Level
  PROVE  UNCHANGED Cdcl!vars
BY DEF SameQuestion, SameDatabase, SameAnswer, Cdcl!vars, View, Originals, Derived, Mode, Result

-----------------------------------------------------------------------------
(***************************************************************************)
(* The steps the search machine does not see: watch visits that imply      *)
(* nothing, and the turns of a call from one phase to the next.            *)
(***************************************************************************)

\* The literals of a clause may be rearranged.
LEMMA StoreKeeps ==
  ASSUME TypeOK, NEW s, Store(s)
  PROVE  Stored' = Stored
<1>1. clauses \in Seq(ClauseRecord)
  BY DEF TypeOK, DatabaseType
<1>2. /\ Len(clauses') = Len(clauses)
      /\ \A r \in 1 .. Len(clauses) : clauses'[r].deleted = clauses[r].deleted
  <2> SUFFICES ASSUME NEW r \in 1 .. Len(clauses)
               PROVE  Len(clauses') = Len(clauses) /\ clauses'[r].deleted = clauses[r].deleted
    <3>1. Len(clauses') = Len(clauses)
      BY <1>1 DEF Store
    <3> QED
      BY <3>1
  <2>1. clauses[r] \in ClauseRecord
    BY <1>1
  <2> QED
    BY <1>1, <2>1 DEF Store, ClauseRecord
<1> QED
  BY <1>2 DEF Stored

Unseen == /\ Stored' = Stored
          /\ UNCHANGED <<trail, limits, inputs, count, hard, user, cached, consistent, failed>>
          /\ (phase' = phase \/ (Querying' /\ Querying) \/ (~Querying' /\ ~Querying))

\* Visiting watches is of no concern to it, apart from implications.
LEMMA VisitsUnseen ==
  ASSUME Inv, Dequeue \/ DropWatch \/ SkipWatch \/ KeepWatch \/ MoveWatch \/ Conflict
  PROVE  Unseen
<1>1. CASE Dequeue
  BY <1>1 DEF Dequeue, Unseen, Stored, client, query, answer
<1>2. CASE DropWatch
  BY <1>2 DEF DropWatch, Unmoved, Unseen, Stored, database, client, query, answer
<1>3. CASE SkipWatch
  BY <1>3 DEF SkipWatch, Unmoved, Unseen, Stored, client, query, answer
<1>4. CASE KeepWatch \/ Conflict
  <2>1. Store(Settled) /\ UNCHANGED <<trail, Unmoved>>
    BY <1>4 DEF KeepWatch, Conflict
  <2> QED
    BY <2>1, StoreKeeps DEF Inv, Unmoved, Unseen, client, query, answer
<1>5. CASE MoveWatch
  <2>1. (\E s : Store(s)) /\ UNCHANGED <<trail, Unmoved>>
    BY <1>5 DEF MoveWatch
  <2> QED
    BY <2>1, StoreKeeps DEF Inv, Unmoved, Unseen, client, query, answer
<1> QED
  BY <1>1, <1>2, <1>3, <1>4, <1>5

\* Nor are the turns a call takes between its phases.
LEMMA TurnsUnseen ==
  ASSUME NoRestart \/ BeginSearch \/ Propagated \/ Settle \/ Refused \/ SolveCached
         \/ Interrupt \/ UNCHANGED vars
  PROVE  Unseen
<1>1. CASE NoRestart \/ BeginSearch
  <2>1. /\ UNCHANGED <<database, assigned, client, query, answer, consistent>>
        /\ Querying /\ Querying'
    BY <1>1 DEF NoRestart, BeginSearch, Querying
  <2> QED
    BY <2>1 DEF Unseen, Stored, database, assigned, client, query, answer
<1>2. CASE Propagated \/ Settle
  <2>1. /\ UNCHANGED <<database, assigned, client, query, answer, consistent>>
        /\ ~Querying /\ ~Querying'
    BY <1>2 DEF Propagated, Settle, Querying
  <2> QED
    BY <2>1 DEF Unseen, Stored, database, assigned, client, query, answer
<1>3. CASE Refused \/ SolveCached
  BY <1>3 DEF Refused, SolveCached, Unseen, Stored, database, assigned, query, answer
<1>4. CASE Interrupt
  BY <1>4 DEF Interrupt, Unseen, Stored, database, assigned, client, query, answer
<1>5. CASE UNCHANGED vars
  BY <1>5 DEF vars, Unseen, Stored, database, assigned, client, query, answer
<1> QED
  BY <1>1, <1>2, <1>3, <1>4, <1>5

\* What it does not see leaves its state as it is.
LEMMA UnseenStutters ==
  ASSUME Inv, ClausesKept, Unseen
  PROVE  UNCHANGED Cdcl!vars
<1>1. View' = View
  BY ViewStays DEF Unseen, Inv
<1>2. SameDatabase
  BY ClausesSeenSame DEF Unseen, Inv, SameDatabase
<1>3. SameQuestion /\ Level' = Level
  BY DEF Unseen, SameQuestion, Level
<1>4. (Querying' <=> Querying) /\ cached' = cached /\ failed' = failed
  BY DEF Unseen, Querying
<1>5. SameAnswer
  BY <1>4 DEF SameAnswer, Mode, Result
<1> QED
  BY <1>1, <1>2, <1>3, <1>5, SeenStutter

-----------------------------------------------------------------------------
(***************************************************************************)
(* Propagation.                                                            *)
(***************************************************************************)

\* A stored clause implies its last literal.
LEMMA SeenPropagate ==
  ASSUME TypeOK, ReasonsOK, SameQuestion, SameDatabase, SameAnswer, Level' = Level,
         Mode = "search" \/ Result = "none",
         NEW r \in Stored, NEW l \in LitsOf(r), Free(l), \A k \in LitsOf(r) \ {l} : IsFalse(k),
         View' = Append(View, [lit |-> l, lev |-> Level, rsn |-> LitsOf(r)])
  PROVE  Cdcl!Propagate
<1>1. PICK c : c = LitsOf(r)
  OBVIOUS
<1>2. c \in Cdcl!Clauses
  BY <1>1, SeenClauses
<1>3. l \in c /\ Cdcl!Unassigned(l) /\ Cdcl!Falsified(c \ {l})
  BY <1>1, SeenTrail
<1>4. View' = Append(View, Cdcl!Assign(l, Level, c))
  BY <1>1 DEF Cdcl!Assign
<1>5. UNCHANGED <<Cdcl!db, Level, hard, user, Cdcl!answer>>
  BY DEF SameQuestion, SameDatabase, SameAnswer, Cdcl!db, Cdcl!answer, Originals, Derived,
         Mode, Result
<1> QED
  BY <1>2, <1>3, <1>4, <1>5 DEF Cdcl!Propagate, View, Mode, Result, Cdcl!db, Cdcl!answer

\* A watch visit that implies a literal is a propagation.
LEMMA ImplySeen ==
  ASSUME Inv, Imply, ClausesKept
  PROVE  Cdcl!Propagate
<1>1. /\ Visiting(FALSE) /\ Free(Other) /\ Exhausted /\ Store(Settled)
      /\ trail' = Append(trail, [lit |-> Other, lev |-> Level, rsn |-> Visited.ref])
      /\ UNCHANGED Unmoved
  BY DEF Imply, Examining, Enqueue
<1>2. PICK r, l : r = Visited.ref /\ l = Other
  OBVIOUS
<1>3. r \in Stored /\ l \in LitsOf(r) /\ r # 0
  BY <1>1, <1>2, VisitFacts DEF Stored
<1>4. \A k \in LitsOf(r) \ {l} : IsFalse(k)
  BY <1>1, <1>2, ExhaustedFacts
<1>5. Stored' = Stored
  BY <1>1, StoreKeeps DEF Inv
<1>6. LitsOf(r)' = LitsOf(r)
  BY <1>3 DEF ClausesKept, Stored, Refs
<1>7. TypeOK /\ ReasonsOK
  BY DEF Inv
<1>8. View' = Append(View, [lit |-> l, lev |-> Level, rsn |-> LitsOf(r)])
  BY <1>1, <1>2, <1>3, <1>6, <1>7, ViewGrows
<1>9. SameDatabase
  BY <1>5, <1>7, ClausesSeenSame DEF SameDatabase
<1>10. SameQuestion /\ SameAnswer /\ Level' = Level
  BY <1>1 DEF Unmoved, client, query, answer, SameQuestion, SameAnswer, Mode, Result,
              Querying, Level
<1>11. Mode = "search" \/ Result = "none"
  <2>1. AtHead
    BY <1>1 DEF Inv, ScanOK, Visiting
  <2> QED
    BY <2>1 DEF AtHead, Inv, AnswerOK, Mode, Result, Querying
<1> QED
  BY <1>1, <1>2, <1>3, <1>4, <1>7, <1>8, <1>9, <1>10, <1>11, SeenPropagate

-----------------------------------------------------------------------------
(***************************************************************************)
(* The search loop.                                                        *)
(***************************************************************************)

\* Clauses no step touches.
LEMMA SameSeen ==
  ASSUME Inv, ClausesKept, clauses' = clauses
  PROVE  SameDatabase
<1>1. Stored' = Stored
  BY SameClauses
<1> QED
  BY <1>1, ClausesSeenSame DEF Inv, SameDatabase

\* restart() backtracks, to whatever level it reuses.
LEMMA RestartSeen ==
  ASSUME Inv, Restart, ClausesKept
  PROVE  Cdcl!Restart
<1>1. PICK k \in 0 .. Level - 1 : CancelUntil(k)
  BY DEF Restart
<1>2. k \in 0 .. Level /\ Level \in Nat
  BY <1>1 DEF Inv, TypeOK, TrailType, Level
<1>3. Cdcl!CancelUntil(k)
  BY <1>1, <1>2, SeenCancel
<1>4. /\ UNCHANGED <<database, client, query, answer, consistent>>
      /\ Querying /\ Querying'
  BY DEF Restart, Querying
<1>5. SameDatabase
  BY <1>4, SameSeen DEF database
<1>6. SameQuestion /\ SameAnswer
  BY <1>4 DEF client, query, answer, SameQuestion, SameAnswer, Mode, Result
<1>7. UNCHANGED <<Cdcl!db, hard, user, Cdcl!answer>>
  BY <1>5, <1>6 DEF SameQuestion, SameDatabase, SameAnswer, Cdcl!db, Cdcl!answer, Originals,
                    Derived, Mode, Result
<1>8. Mode = "search"
  BY <1>4 DEF Mode
<1> QED
  BY <1>1, <1>3, <1>7, <1>8 DEF Cdcl!Restart, Mode

\* A query ends without an answer, at the root.
LEMMA GiveUpSeen ==
  ASSUME Inv, GiveUp, ClausesKept
  PROVE  Cdcl!GiveUp
<1>1. /\ UNCHANGED <<database, client, query, consistent>> /\ CancelUntil(0)
      /\ Querying /\ failed' = {} /\ phase' = "idle" /\ cached' = NoCache
  BY DEF GiveUp, Querying, Return
<1>2. 0 \in 0 .. Level
  BY DEF Inv, TypeOK, TrailType, Level
<1>3. Cdcl!CancelUntil(0)
  BY <1>1, <1>2, SeenCancel
<1>4. SameDatabase /\ SameQuestion
  BY <1>1, SameSeen DEF database, client, query, SameQuestion
<1>5. Mode = "search" /\ Mode' = "idle" /\ Result' = "none"
  BY <1>1 DEF Mode, Result, Querying, NoCache
<1>6. UNCHANGED <<Cdcl!db, hard, user>>
  BY <1>4 DEF SameQuestion, SameDatabase, Cdcl!db, Originals, Derived
<1> QED
  BY <1>1, <1>3, <1>5, <1>6 DEF Cdcl!GiveUp, Mode, Result

\* An answer is found.
LEMMA AnswerSeen ==
  ASSUME Inv, NEW r \in {"sat", "unsat"}, Return(r)
  PROVE  Mode' = "idle" /\ Result' = r
BY DEF Return, Mode, Result, Querying

\* A conflict at the root is found by all of propagation, in or out of a query.
LEMMA RootConflictSeen ==
  ASSUME Inv, RootConflict, ClausesKept
  PROVE  Cdcl!RootConflict
<1>1. /\ conflict # 0 /\ (phase = "search" => Level = 0) /\ consistent' = FALSE
      /\ UNCHANGED <<database, assigned, client, query, failed>>
  BY DEF RootConflict
<1>2. TypeOK /\ ReasonsOK
  BY DEF Inv
<1>3. AtHead /\ conflict \in Stored /\ \A l \in LitsOf(conflict) : IsFalse(l)
  BY <1>1 DEF Inv, ConflictOK
<1>4. Level = 0
  BY <1>1, <1>3 DEF Inv, PhaseOK, AtHead
<1>5. SameDatabase
  BY <1>1, SameSeen DEF database
<1>6. UNCHANGED <<inputs, Originals, Derived, count, View, Level, hard, user, failed>>
  BY <1>1, <1>2, <1>5, ViewStays DEF assigned, client, query, SameDatabase, Level
<1>7. Mode = "search" \/ Result = "none"
  BY <1>3 DEF AtHead, Inv, AnswerOK, Mode, Result, Querying
<1>8. Mode' = "idle" /\ Result' = IF Mode = "search" THEN "unsat" ELSE "none"
  <2>1. CASE Querying
    BY <2>1, AnswerSeen DEF RootConflict, Mode
  <2>2. CASE ~Querying
    BY <1>7, <2>2 DEF RootConflict, Mode, Result, Querying
  <2> QED
    BY <2>1, <2>2
<1>9. \E c \in Cdcl!Clauses : Cdcl!Falsified(c)
  <2>1. PICK c : c = LitsOf(conflict)
    OBVIOUS
  <2> QED
    BY <1>2, <1>3, <2>1, SeenClauses, SeenTrail
<1> QED
  BY <1>1, <1>4, <1>6, <1>7, <1>8, <1>9
     DEF Cdcl!RootConflict, Cdcl!search, View, Originals, Derived, Mode, Result

\* A query about an inconsistent formula.
LEMMA AnswerInconsistentSeen ==
  ASSUME Inv, AnswerInconsistent, ClausesKept
  PROVE  Cdcl!AnswerInconsistent
<1>1. /\ phase = "prepare" /\ ~consistent /\ Return("unsat")
      /\ UNCHANGED <<database, assigned, client, query, failed, consistent>>
  BY DEF AnswerInconsistent
<1>2. SameDatabase /\ View' = View
  BY <1>1, SameSeen, ViewStays DEF Inv, database, assigned
<1>3. Mode = "search" /\ Mode' = "idle" /\ Result' = "unsat"
  BY <1>1, AnswerSeen DEF Mode, Querying
<1>4. UNCHANGED <<inputs, Originals, Derived, count, consistent, View, Level, hard, user, failed>>
  BY <1>1, <1>2 DEF assigned, client, query, SameDatabase, Level
<1> QED
  BY <1>1, <1>3, <1>4 DEF Cdcl!AnswerInconsistent, Cdcl!search, Cdcl!db, View, Originals, Derived,
                          Mode, Result

\* A total assignment satisfies every clause, because no conflict was missed.
LEMMA AnswerSatSeen ==
  ASSUME Inv, NoMissedConflict, AnswerSat, ClausesKept
  PROVE  Cdcl!AnswerSat
<1>1. /\ phase = "search" /\ Fixpoint /\ Level >= Len(Assumptions)
      /\ \A v \in 1 .. count : ~Free(v)
      /\ UNCHANGED <<database, assigned, client, query, failed, consistent>>
  BY DEF AnswerSat, Searching
<1>2. SameDatabase /\ View' = View
  BY <1>1, SameSeen, ViewStays DEF Inv, database, assigned
<1>3. Return("sat")
  BY DEF AnswerSat
<1>4. Mode = "search" /\ Mode' = "idle" /\ Result' = "sat" /\ consistent
  BY <1>1, <1>3, AnswerSeen DEF Mode, Querying, Inv, PhaseOK
<1>5. UNCHANGED <<inputs, Originals, Derived, count, consistent, View, Level, hard, user, failed>>
  BY <1>1, <1>2 DEF assigned, client, query, SameDatabase, Level
<1>6. TypeOK /\ ReasonsOK
  BY DEF Inv
<1>7. \A v \in 1 .. count : v \in Cdcl!TrueLits \/ Cdcl!Neg(v) \in Cdcl!TrueLits
  BY <1>1, <1>6, SeenTrail DEF Cdcl!Unassigned
<1>8. \A c \in Cdcl!Clauses : ~Cdcl!Falsified(c)
  BY <1>1, <1>4, <1>6, SeenTrail, SeenClauses DEF NoMissedConflict
<1>9. Cdcl!query = Assumptions
  BY DEF Cdcl!query, Assumptions
<1> QED
  BY <1>1, <1>4, <1>5, <1>7, <1>8, <1>9
     DEF Cdcl!AnswerSat, Cdcl!search, Cdcl!db, View, Originals, Derived, Mode, Result

\* A new level is opened, perhaps with a decision.
LEMMA OpensSeen ==
  ASSUME Inv, Assume \/ Decide, ClausesKept
  PROVE  /\ SameQuestion /\ SameDatabase /\ SameAnswer /\ Level' = Level + 1
         /\ Mode = "search" /\ Cdcl!query = Assumptions
         /\ trail' = trail => View' = View
         /\ \A l : trail' = Append(trail, [lit |-> l, lev |-> Level + 1, rsn |-> 0])
              => View' = Append(View, Cdcl!Assign(l, Level + 1, {}))
<1>1. /\ phase = "search" /\ limits' = Append(limits, Len(trail))
      /\ UNCHANGED <<database, client, query, answer, consistent, phase>>
  BY DEF Assume, Decide, Searching, Open
<1>2. TypeOK /\ ReasonsOK
  BY DEF Inv
<1>3. Level' = Level + 1
  BY <1>1, <1>2 DEF Level, TypeOK, TrailType
<1>4. SameDatabase
  BY <1>1, SameSeen DEF database
<1>5. SameQuestion /\ SameAnswer /\ Mode = "search"
  BY <1>1 DEF client, query, answer, SameQuestion, SameAnswer, Mode, Result, Querying
<1>6. trail' = trail => View' = View
  BY <1>2, ViewStays
<1>7. ASSUME NEW l, NEW k, trail' = Append(trail, [lit |-> l, lev |-> k, rsn |-> 0])
      PROVE  View' = Append(View, Cdcl!Assign(l, k, {}))
  <2>1. PICK r : r = 0
    OBVIOUS
  <2>2. View' = Append(View, [lit |-> l, lev |-> k, rsn |-> IF r = 0 THEN {} ELSE LitsOf(r)'])
    BY <1>2, <1>7, <2>1, ViewGrows
  <2> QED
    BY <2>1, <2>2 DEF Cdcl!Assign
<1> QED
  BY <1>3, <1>4, <1>5, <1>6, <1>7 DEF Cdcl!query, Assumptions

\* The next assumption opens a level, whether or not it holds already.
LEMMA AssumeSeen ==
  ASSUME Inv, Assume, ClausesKept
  PROVE  Cdcl!Assume
<1>1. /\ SameQuestion /\ SameDatabase /\ SameAnswer /\ Level' = Level + 1
      /\ Mode = "search" /\ Cdcl!query = Assumptions
      /\ trail' = trail => View' = View
      /\ \A l : trail' = Append(trail, [lit |-> l, lev |-> Level + 1, rsn |-> 0])
           => View' = Append(View, Cdcl!Assign(l, Level + 1, {}))
  BY OpensSeen
<1>2. PICK p : p = NextAssumption
  OBVIOUS
<1>3. p = Cdcl!query[Level + 1] /\ Level < Len(Cdcl!query)
  BY <1>1, <1>2 DEF NextAssumption, Assume
<1>4. \/ p \in Cdcl!TrueLits /\ View' = View
      \/ Cdcl!Unassigned(p) /\ View' = Append(View, Cdcl!Assign(p, Level + 1, {}))
  <2>1. CASE IsTrue(p) /\ trail' = trail
    BY <1>1, <2>1, SeenTrail DEF Inv
  <2>2. CASE Free(p) /\ trail' = Append(trail, [lit |-> p, lev |-> Level + 1, rsn |-> 0])
    BY <1>1, <2>2, SeenTrail DEF Inv
  <2> QED
    BY <1>2, <2>1, <2>2 DEF Assume, Open
<1>5. UNCHANGED <<Cdcl!db, hard, user, Cdcl!answer>>
  BY <1>1 DEF SameQuestion, SameDatabase, SameAnswer, Cdcl!db, Cdcl!answer, Originals, Derived,
              Mode, Result
<1> QED
  BY <1>1, <1>3, <1>4, <1>5 DEF Cdcl!Assume, View, Mode

\* A decision.
LEMMA DecideSeen ==
  ASSUME Inv, Decide, ClausesKept
  PROVE  Cdcl!Decide
<1>1. /\ SameQuestion /\ SameDatabase /\ SameAnswer /\ Level' = Level + 1
      /\ Mode = "search" /\ Cdcl!query = Assumptions
      /\ \A l : trail' = Append(trail, [lit |-> l, lev |-> Level + 1, rsn |-> 0])
           => View' = Append(View, Cdcl!Assign(l, Level + 1, {}))
  BY OpensSeen
<1>2. PICK v \in 1 .. count : \E l \in {v, Neg(v)} :
        Free(l) /\ trail' = Append(trail, [lit |-> l, lev |-> Level + 1, rsn |-> 0])
  BY DEF Decide, Open
<1>3. PICK l \in {v, Neg(v)} :
        Free(l) /\ trail' = Append(trail, [lit |-> l, lev |-> Level + 1, rsn |-> 0])
  BY <1>2
<1>4. v \in Var
  BY DEF Inv, TypeOK, ControlType
<1>5. l \in Lit /\ VarOf(l) = v
  BY <1>3, <1>4, VarLit, NegLit
<1>6. l \in Cdcl!Lit /\ Cdcl!VarOf(l) \in 1 .. count /\ Cdcl!Unassigned(l)
  BY <1>3, <1>5, SameLiterals, SeenTrail DEF Inv
<1>7. View' = Append(View, Cdcl!Assign(l, Level + 1, {}))
  BY <1>1, <1>3
<1>8. Level >= Len(Cdcl!query)
  BY <1>1 DEF Decide
<1>9. UNCHANGED <<Cdcl!db, hard, user, Cdcl!answer>>
  BY <1>1 DEF SameQuestion, SameDatabase, SameAnswer, Cdcl!db, Cdcl!answer, Originals, Derived,
              Mode, Result
<1> QED
  BY <1>1, <1>6, <1>7, <1>8, <1>9 DEF Cdcl!Decide, View, Mode

\* Resolution along the trail is what the search machine calls explained.
LEMMA SeenResolvable ==
  ASSUME TypeOK, ReasonsOK, NEW x \in SUBSET Lit, NEW S \in SUBSET Positions, Resolvable(S, x)
  PROVE  /\ Cdcl!Explained(S, Cdcl!Negs(x))
         /\ \A l \in Lit : Accounted(l, x, S) =>
              Neg(l) \in Cdcl!Negs(x) \cup Cdcl!LitsAt(S) \cup Cdcl!RootLits
<1>1. ASSUME NEW l \in Lit, Accounted(l, x, S)
      PROVE  Neg(l) \in Cdcl!Negs(x) \cup Cdcl!LitsAt(S) \cup Cdcl!RootLits
  <2>1. CASE l \in x
    BY <2>1, SameLiterals
  <2>2. CASE \E i \in S : FalseAt(l, i)
    BY <2>2, SeenTrail DEF FalseAt
  <2>3. CASE \E i \in Positions : FalseAt(l, i) /\ trail[i].lev = 0
    BY <2>3, SeenTrail DEF FalseAt
  <2> QED
    BY <1>1, <2>1, <2>2, <2>3 DEF Accounted
<1>2. ASSUME NEW i \in S
      PROVE  /\ View[i].rsn # {}
             /\ Cdcl!Negs(View[i].rsn \ {View[i].lit})
                  \subseteq Cdcl!Negs(x) \cup Cdcl!LitsAt(S) \cup Cdcl!RootLits
  <2>1. i \in Positions /\ trail[i].rsn # 0
    BY <1>2 DEF Resolvable
  <2>2. View[i].lit = trail[i].lit /\ View[i].rsn = LitsOf(trail[i].rsn)
    BY <2>1, ViewFacts DEF ReasonSet
  <2>3. trail[i].rsn \in Refs
    BY <2>1, ReasonSets
  <2>4. LitsOf(trail[i].rsn) \in SUBSET Lit /\ LitsOf(trail[i].rsn) # {}
    <3>1. 1 \in 1 .. Len(clauses[trail[i].rsn].lits)
      BY <2>3, ClauseFields
    <3> QED
      BY <2>3, <3>1, ClauseFields
  <2>5. \A l \in LitsOf(trail[i].rsn) \ {trail[i].lit} : Accounted(l, x, S)
    BY <1>2 DEF Resolvable
  <2>6. Cdcl!Negs(View[i].rsn \ {View[i].lit}) = {Neg(l) : l \in LitsOf(trail[i].rsn) \ {trail[i].lit}}
    BY <2>2, SameLiterals
  <2> QED
    BY <1>1, <2>2, <2>4, <2>5, <2>6
<1>3. Cdcl!Explained(S, Cdcl!Negs(x))
  BY <1>2 DEF Cdcl!Explained, View
<1> QED
  BY <1>1, <1>3

\* The members of a sequence, in both modules.
LEMMA SameElems ==
  ASSUME NEW T, NEW s \in Seq(T)
  PROVE  Cdcl!Elems(s) = Range(s)
BY DEF Cdcl!Elems, Range

\* The decisions blamed for a failed assumption.
LEMMA BlameSeen ==
  ASSUME TypeOK, TrailOK, ReasonsOK, NEW p \in Lit, IsFalse(p),
         NEW core, core = {trail[i].lit : i \in BlamedFor(p)}
  PROVE  /\ core \subseteq Cdcl!LitsAt({i \in Cdcl!Positions : View[i].lev > 0 /\ View[i].rsn = {}})
         /\ Cdcl!Explained(ImpliedFor(p), core)
         /\ Neg(p) \in core \cup Cdcl!LitsAt(ImpliedFor(p)) \cup Cdcl!RootLits
         /\ ImpliedFor(p) \in SUBSET Cdcl!Positions
<1>1. PICK S, x : S = ImpliedFor(p) /\ x = {Neg(trail[i].lit) : i \in BlamedFor(p)}
  OBVIOUS
<1>2. \A i \in Positions : trail[i].lit \in Lit
  BY EntryFields
<1>3. BlamedFor(p) \subseteq Positions /\ S \in SUBSET Positions
  BY <1>1 DEF BlamedFor, ImpliedFor
<1>4. x \in SUBSET Lit /\ core \in SUBSET Lit
  BY <1>1, <1>2, <1>3, NegLit
<1>5. Cdcl!Negs(x) = core
  <2>1. Cdcl!Negs(x) = {Neg(l) : l \in x}
    BY SameLiterals
  <2>2. \A i \in BlamedFor(p) : Neg(Neg(trail[i].lit)) = trail[i].lit
    BY <1>2, <1>3, NegLit
  <2> QED
    BY <1>1, <2>1, <2>2
<1>6. Resolvable(S, x) /\ Accounted(p, x, S)
  BY <1>1, BlameResolved
<1>7. Cdcl!Explained(S, core) /\ Neg(p) \in core \cup Cdcl!LitsAt(S) \cup Cdcl!RootLits
  BY <1>3, <1>4, <1>5, <1>6, SeenResolvable
<1>8. Cdcl!Positions = Positions
  BY SeenTrail
<1>9. ASSUME NEW i \in BlamedFor(p)
      PROVE  i \in {j \in Positions : View[j].lev > 0 /\ View[j].rsn = {}}
  <2>1. i \in Positions /\ trail[i].lev > 0 /\ trail[i].rsn = 0
    BY DEF BlamedFor
  <2> QED
    BY <2>1, ViewFacts DEF ReasonSet
<1>10. core \subseteq Cdcl!LitsAt({i \in Positions : View[i].lev > 0 /\ View[i].rsn = {}})
  <2>1. PICK D : D = {i \in Positions : View[i].lev > 0 /\ View[i].rsn = {}}
    OBVIOUS
  <2>2. D \in SUBSET Positions /\ \A i \in BlamedFor(p) : i \in D
    BY <1>9, <2>1
  <2>3. \A i \in BlamedFor(p) : trail[i].lit \in Cdcl!LitsAt(D)
    BY <2>2, SeenTrail
  <2> QED
    BY <2>1, <2>3
<1> QED
  BY <1>1, <1>3, <1>7, <1>8, <1>10

\* analyze_failed_assumption: the core blamed explains the failure.
LEMMA FailAssumptionSeen ==
  ASSUME Inv, FailAssumption, ClausesKept
  PROVE  Cdcl!FailAssumption
<1>1. /\ phase = "search" /\ Level < Len(Assumptions) /\ IsFalse(NextAssumption)
      /\ Return("unsat") /\ CancelUntil(0)
      /\ UNCHANGED <<database, client, query, consistent>>
  BY DEF FailAssumption, Searching
<1>2. TypeOK /\ TrailOK /\ ReasonsOK
  BY DEF Inv
<1>3. Assumptions \in Seq(Lit) /\ user \in Seq(Lit) /\ Level \in Nat
  BY <1>2 DEF TypeOK, ControlType, TrailType, Assumptions, Level
<1>4. PICK p : p = NextAssumption
  OBVIOUS
<1>5. p \in Lit /\ IsFalse(p) /\ p = Cdcl!query[Level + 1] /\ Level < Len(Cdcl!query)
  <2>1. Level + 1 \in 1 .. Len(Assumptions)
    BY <1>1, <1>3
  <2>2. p \in Lit
    BY <1>3, <1>4, <2>1 DEF NextAssumption
  <2> QED
    BY <1>1, <1>4, <2>2 DEF NextAssumption, Assumptions, Cdcl!query
<1>6. PICK core : core = {trail[i].lit : i \in BlamedFor(p)}
  OBVIOUS
<1>7. failed' = (core \cup {p}) \cap Cdcl!Elems(user)
  <2>1. trail \in Seq(Assignment)
    BY <1>2 DEF TypeOK, TrailType
  <2>2. {e \in Range(trail) : e.lev > 0 /\ e.rsn = 0 /\ VarOf(e.lit) \in Involved(p)}
          = {trail[i] : i \in BlamedFor(p)}
    BY <2>1 DEF Range, BlamedFor, Positions
  <2>3. failed' = ({p} \cup {e.lit : e \in {trail[i] : i \in BlamedFor(p)}}) \cap Range(user)
    BY <1>4, <2>2 DEF FailAssumption
  <2>4. {e.lit : e \in {trail[i] : i \in BlamedFor(p)}} = core
    BY <1>6
  <2>5. Cdcl!Elems(user) = Range(user)
    BY <1>3, SameElems
  <2> QED
    BY <2>3, <2>4, <2>5
<1>8. /\ core \subseteq Cdcl!LitsAt({i \in Cdcl!Positions : View[i].lev > 0 /\ View[i].rsn = {}})
      /\ Cdcl!Explained(ImpliedFor(p), core)
      /\ Neg(p) \in core \cup Cdcl!LitsAt(ImpliedFor(p)) \cup Cdcl!RootLits
      /\ ImpliedFor(p) \in SUBSET Cdcl!Positions
  BY <1>2, <1>5, <1>6, BlameSeen
<1>9. 0 \in 0 .. Level
  BY <1>3
<1>10. Cdcl!CancelUntil(0)
  BY <1>1, <1>9, SeenCancel
<1>11. SameDatabase /\ SameQuestion
  BY <1>1, SameSeen DEF database, client, query, SameQuestion
<1>12. Mode = "search" /\ Mode' = "idle" /\ Result' = "unsat"
  BY <1>1, AnswerSeen DEF Mode, Querying
<1>13. UNCHANGED <<Cdcl!db, hard, user>>
  BY <1>11 DEF SameQuestion, SameDatabase, Cdcl!db, Originals, Derived
<1>14. Cdcl!Neg(p) = Neg(p)
  BY SameLiterals
<1>15. \E S \in SUBSET Cdcl!Positions :
         LET D == Cdcl!LitsAt({i \in Cdcl!Positions : View[i].lev > 0 /\ View[i].rsn = {}})
         IN \E cc \in SUBSET D :
              /\ Cdcl!Explained(S, cc)
              /\ Cdcl!Neg(p) \in cc \cup Cdcl!LitsAt(S) \cup Cdcl!RootLits
              /\ failed' = (cc \cup {p}) \cap Cdcl!Elems(user)
  BY <1>7, <1>8, <1>14
<1> QED
  BY <1>5, <1>10, <1>12, <1>13, <1>15 DEF Cdcl!FailAssumption, View, Mode, Result

\* Database reduction.
LEMMA ReduceSeen ==
  ASSUME Inv, Reduce, ClausesKept
  PROVE  Cdcl!Reduce
<1>1. /\ phase = "learned" /\ phase' = "reduced"
      /\ UNCHANGED <<assigned, client, query, answer, consistent>>
  BY DEF Reduce
<1>2. TypeOK /\ ReasonsOK
  BY DEF Inv
<1>3. PICK gone : /\ \A r \in gone : /\ r \in Stored /\ clauses[r].learned
                                     /\ \A i \in Positions : trail[i].rsn # r
                  /\ clauses' = [r \in 1 .. Len(clauses) |->
                        IF r \in gone THEN [clauses[r] EXCEPT !.deleted = TRUE] ELSE clauses[r]]
  BY DEF Reduce, Stored, Positions
<1>4. /\ Stored' = Stored \ gone
      /\ \A r \in Stored' : LitsOf(r)' = LitsOf(r) /\ clauses'[r].learned = clauses[r].learned
  <2>1. clauses \in Seq(ClauseRecord) /\ Len(clauses) \in Nat
    BY <1>2 DEF TypeOK, DatabaseType
  <2>2. Len(clauses') = Len(clauses)
    <3>1. DOMAIN clauses' = 1 .. Len(clauses)
      BY <1>3
    <3>2. clauses' \in Seq(ClauseRecord)
      <4>1. \A r \in 1 .. Len(clauses) : clauses[r] \in ClauseRecord
        BY <2>1
      <4>2. \A r \in 1 .. Len(clauses) : clauses'[r] \in ClauseRecord
        BY <1>3, <4>1 DEF ClauseRecord
      <4>3. clauses' = [r \in 1 .. Len(clauses) |-> clauses'[r]]
        BY <1>3
      <4>4. clauses' \in [1 .. Len(clauses) -> ClauseRecord]
        BY <4>2, <4>3
      <4> QED
        BY <2>1, <4>4
    <3> QED
      BY <2>1, <3>1, <3>2
  <2>3. \A r \in 1 .. Len(clauses) : clauses'[r].deleted <=> (r \in gone \/ clauses[r].deleted)
    <3>1. \A r \in 1 .. Len(clauses) : clauses[r] \in ClauseRecord
      BY <2>1
    <3> QED
      BY <1>3, <3>1 DEF ClauseRecord
  <2>4. Stored' = Stored \ gone
    BY <2>2, <2>3 DEF Stored
  <2>5. \A r \in Stored : r \in Refs
    BY DEF Stored, Refs
  <2> QED
    BY <2>4, <2>5 DEF ClausesKept
<1>5. Originals' = Originals
  <2>1. Originals' = {LitsOf(r)' : r \in {q \in Stored' : ~clauses'[q].learned}}
    BY DEF Originals
  <2>2. \A q \in gone : clauses[q].learned
    BY <1>3
  <2> QED
    BY <1>4, <2>1, <2>2 DEF Originals
<1>6. Derived' \subseteq Derived
  <2>1. Derived' = {LitsOf(r)' : r \in {q \in Stored' : clauses'[q].learned}}
    BY DEF Derived
  <2> QED
    BY <1>4, <2>1 DEF Derived
<1>7. PICK lost : lost = Derived \ Derived'
  OBVIOUS
<1>8. ASSUME NEW c \in lost PROVE c \notin Cdcl!Reasons \ Originals
  <2> SUFFICES ASSUME c \in Cdcl!Reasons PROVE c \in Originals
    OBVIOUS
  <2>1. PICK i \in Positions : c = View[i].rsn
    <3>1. Cdcl!Reasons = {View[i].rsn : i \in Cdcl!Positions}
      BY DEF Cdcl!Reasons, View
    <3> QED
      BY <1>2, <3>1, SeenTrail
  <2>2. PICK q \in Stored : c = LitsOf(q)
    BY <1>7 DEF Derived
  <2>3. c # {}
    <3>1. q \in Refs
      BY <2>2 DEF Stored, Refs
    <3>2. 1 \in 1 .. Len(clauses[q].lits)
      BY <1>2, <3>1, ClauseFields
    <3> QED
      BY <1>2, <2>2, <3>1, <3>2, ClauseFields
  <2>4. PICK r : r = trail[i].rsn
    OBVIOUS
  <2>5. r # 0 /\ c = LitsOf(r)
    BY <1>2, <2>1, <2>3, <2>4, ViewFacts DEF ReasonSet
  <2>6. r \in Stored /\ r \in Refs
    BY <1>2, <2>4, <2>5, ReasonSets
  <2>7. r \in Stored' /\ LitsOf(r)' = LitsOf(r) /\ clauses'[r].learned = clauses[r].learned
    BY <1>3, <1>4, <2>4, <2>6
  <2>8. CASE clauses[r].learned
    <3>1. LitsOf(r)' \in Derived'
      BY <2>7, <2>8 DEF Derived
    <3> QED
      BY <1>7, <2>5, <2>7, <3>1
  <2>9. CASE ~clauses[r].learned
    BY <2>5, <2>6, <2>9 DEF Originals
  <2> QED
    BY <2>8, <2>9
<1>9. lost \in SUBSET (Derived \ (Cdcl!Reasons \ Originals)) /\ Derived' = Derived \ lost
  BY <1>6, <1>7, <1>8
<1>10. View' = View /\ Level' = Level
  BY <1>1, <1>2, ViewStays DEF assigned, Level
<1>11. SameQuestion /\ SameAnswer /\ Mode = "search"
  BY <1>1 DEF client, query, answer, SameQuestion, SameAnswer, Mode, Result, Querying
<1> QED
  BY <1>5, <1>9, <1>10, <1>11
     DEF Cdcl!Reduce, Cdcl!search, Cdcl!answer, SameQuestion, SameAnswer, View, Originals,
         Derived,
         Mode, Result

\* A clause is allocated.
LEMMA AllocateSeen ==
  ASSUME Inv, ClausesKept, NEW s \in Disjunction, NEW isLearned \in BOOLEAN,
         Allocate(s, isLearned)
  PROVE  /\ Originals' = IF isLearned THEN Originals ELSE Originals \cup {Range(s)}
         /\ Derived' = IF isLearned THEN Derived \cup {Range(s)} ELSE Derived
<1>1. PICK n : n = Len(clauses) + 1
  OBVIOUS
<1>2. Stored' = Stored \cup {n} /\ LitsOf(n)' = Range(s)
  BY <1>1, AllocateSame
<1>3. clauses'[n].learned = isLearned
  <2>1. clauses \in Seq(ClauseRecord)
    BY DEF Inv, TypeOK, DatabaseType
  <2>2. PICK e : e = [lits |-> s, learned |-> isLearned, deleted |-> FALSE]
    OBVIOUS
  <2>3. clauses' = Append(clauses, e)
    BY <2>2 DEF Allocate
  <2>4. clauses'[n] = e
    BY <1>1, <2>1, <2>3
  <2> QED
    BY <2>2, <2>4
<1>4. \A r \in Stored : LitsOf(r)' = LitsOf(r) /\ clauses'[r].learned = clauses[r].learned
  BY DEF ClausesKept, Stored, Refs
<1>5. n \notin Stored
  <2>1. Len(clauses) \in Nat
    BY DEF Inv, TypeOK, DatabaseType
  <2> QED
    BY <1>1, <2>1 DEF Stored
<1>6. Originals' = {LitsOf(r)' : r \in {q \in Stored' : ~clauses'[q].learned}}
  BY DEF Originals
<1>7. Derived' = {LitsOf(r)' : r \in {q \in Stored' : clauses'[q].learned}}
  BY DEF Derived
<1>8. CASE isLearned
  <2>1. /\ {q \in Stored' : ~clauses'[q].learned} = {q \in Stored : ~clauses[q].learned}
        /\ {q \in Stored' : clauses'[q].learned} = {q \in Stored : clauses[q].learned} \cup {n}
    BY <1>2, <1>3, <1>4, <1>5, <1>8
  <2> QED
    BY <1>2, <1>4, <1>6, <1>7, <1>8, <2>1 DEF Originals, Derived
<1>9. CASE ~isLearned
  <2>1. /\ {q \in Stored' : ~clauses'[q].learned} = {q \in Stored : ~clauses[q].learned} \cup {n}
        /\ {q \in Stored' : clauses'[q].learned} = {q \in Stored : clauses[q].learned}
    BY <1>2, <1>3, <1>4, <1>5, <1>9
  <2> QED
    BY <1>2, <1>4, <1>6, <1>7, <1>9, <2>1 DEF Originals, Derived
<1> QED
  BY <1>8, <1>9

\* The learned clause follows from the conflict by resolution.
LEMMA LearnedDerives ==
  ASSUME Inv, conflict # 0, Level > 0, NEW c, c = Minimized(FirstUip)
  PROVE  Cdcl!Derives(c)
<1>1. TypeOK /\ TrailOK /\ ReasonsOK /\ ConflictOK
  BY DEF Inv
<1>2. PICK d : d = FirstUip
  OBVIOUS
<1>3. d \in SUBSET Blamed /\ Resolved(d)
  BY <1>1, <1>2, UipFacts, UipResolved
<1>4. Resolved(Minimized(d))
  BY <1>1, <1>3, MinimizedResolved
<1>5. PICK S : ResolvedBy(c, S)
  BY <1>2, <1>4 DEF Resolved
<1>6. c \in SUBSET Lit
  BY <1>2, <1>3, MinimizedFacts DEF Blamed
<1>7. S \in SUBSET Positions /\ Resolvable(S, c) /\ \A l \in LitsOf(conflict) : Accounted(l, c, S)
  BY <1>5 DEF ResolvedBy
<1>8. /\ Cdcl!Explained(S, Cdcl!Negs(c))
      /\ \A l \in Lit : Accounted(l, c, S) =>
           Neg(l) \in Cdcl!Negs(c) \cup Cdcl!LitsAt(S) \cup Cdcl!RootLits
  BY <1>1, <1>6, <1>7, SeenResolvable
<1>9. PICK k : k = LitsOf(conflict)
  OBVIOUS
<1>10. /\ k \in Cdcl!Clauses /\ Cdcl!Falsified(k) /\ k \in SUBSET Lit
       /\ S \in SUBSET Cdcl!Positions
  <2>1. conflict \in Stored /\ conflict \in Refs /\ \A l \in LitsOf(conflict) : IsFalse(l)
    BY <1>1 DEF ConflictOK, Stored, Refs
  <2> QED
    BY <1>1, <1>7, <1>9, <2>1, SeenClauses, SeenTrail, ClauseFields
<1>11. Cdcl!Negs(k) \subseteq Cdcl!Negs(c) \cup Cdcl!LitsAt(S) \cup Cdcl!RootLits
  <2>1. Cdcl!Negs(k) = {Neg(l) : l \in k}
    BY SameLiterals
  <2> QED
    BY <1>7, <1>8, <1>9, <1>10, <2>1
<1> QED
  BY <1>8, <1>10, <1>11 DEF Cdcl!Derives

\* A conflict: the learned clause is derived, and asserts its literal.
LEMMA LearnSeen ==
  ASSUME Inv, Learn, ClausesKept
  PROVE  Cdcl!Learn
<1>1. /\ phase = "search" /\ phase' = "learned" /\ conflict # 0 /\ Level > 0
      /\ UNCHANGED <<client, query, answer, consistent>>
  BY DEF Learn
<1>2. TypeOK /\ TrailOK /\ ReasonsOK
  BY DEF Inv
<1>3. PICK c, u, s :
        /\ c = Minimized(FirstUip) /\ c \subseteq Blamed /\ Current(c) = {u}
        /\ s \in SetToSeqs(c) /\ s[1] = u
        /\ limits' = KeptLimits(BacktrackLevel(c))
        /\ head' = Min({head, Len(Kept(BacktrackLevel(c)))})
        /\ \/ /\ c = {u}
              /\ trail' = Append(Kept(BacktrackLevel(c)),
                                [lit |-> u, lev |-> BacktrackLevel(c), rsn |-> 0])
              /\ UNCHANGED database
           \/ \E n : /\ n = Len(clauses) + 1 /\ n \in Nat \ {0} /\ n \in Stored'
                    /\ LitsOf(n)' = c /\ s \in Disjunction
                    /\ LevelOf(s[2]) = JumpLevel(c) /\ Allocate(s, TRUE)
                    /\ trail' = Append(Kept(BacktrackLevel(c)),
                                [lit |-> u, lev |-> BacktrackLevel(c), rsn |-> n])
  BY LearnAllocates
<1>4. PICK b : b = BacktrackLevel(c)
  OBVIOUS
<1>5. /\ b \in 0 .. Level - 1 /\ b \in 0 .. Level /\ Level \in Nat
      /\ u \in c /\ LevelOf(u) = Level
      /\ \A l \in c \ {u} : LevelOf(l) \in 1 .. b
      /\ c = {u} => b = 0
  <2>1. /\ JumpLevel(c) \in Nat /\ b \in Nat /\ JumpLevel(c) <= b /\ b < Level
        /\ \A l \in c \ {u} : LevelOf(l) \in 1 .. JumpLevel(c)
        /\ c = {u} => b = 0
        /\ u \in c /\ LevelOf(u) = Level
    BY <1>2, <1>3, <1>4, LearnedFacts
  <2>2. Level \in Nat
    BY <1>2 DEF TypeOK, TrailType, Level
  <2> QED
    BY <2>1, <2>2
<1>6. Level' = b
  <2>1. Len(KeptLimits(b)) = b
    BY <1>2, <1>5, KeptFacts
  <2> QED
    BY <1>3, <1>4, <2>1 DEF Level
<1>7. PICK r, n : /\ n = Len(Kept(b))
                  /\ trail' = Append(Kept(b), [lit |-> u, lev |-> b, rsn |-> r])
                  /\ (IF r = 0 THEN {} ELSE LitsOf(r)') = (IF c = {u} THEN {} ELSE c)
                  /\ Originals' = Originals
                  /\ Derived' = IF c = {u} THEN Derived ELSE Derived \cup {c}
  <2>1. CASE c = {u} /\ UNCHANGED database
             /\ trail' = Append(Kept(b), [lit |-> u, lev |-> b, rsn |-> 0])
    <3>1. SameDatabase
      BY <2>1, SameSeen DEF database
    <3> QED
      BY <2>1, <3>1 DEF SameDatabase
  <2>2. ASSUME NEW m, m \in Nat \ {0}, LitsOf(m)' = c, s \in Disjunction, Allocate(s, TRUE),
               trail' = Append(Kept(b), [lit |-> u, lev |-> b, rsn |-> m])
        PROVE  /\ (IF m = 0 THEN {} ELSE LitsOf(m)') = (IF c = {u} THEN {} ELSE c)
               /\ Originals' = Originals
               /\ Derived' = IF c = {u} THEN Derived ELSE Derived \cup {c}
    <3>1. /\ Range(s) = c /\ Len(s) > 1 /\ Len(s) \in Nat
          /\ \A i, j \in 1 .. Len(s) : s[i] = s[j] => i = j
          /\ \A i \in 1 .. Len(s) : s[i] \in c
      <4>1. c \in SUBSET Lit
        BY <1>3 DEF Blamed
      <4> QED
        BY <1>3, <2>2, <4>1, ListsSet DEF Disjunction
    <3>2. s[2] \in c /\ s[1] # s[2]
      BY <3>1
    <3>3. c # {u}
      BY <1>3, <3>2
    <3>4. Originals' = Originals /\ Derived' = Derived \cup {Range(s)}
      BY <2>2, AllocateSeen
    <3> QED
      BY <2>2, <3>1, <3>3, <3>4
  <2> QED
    BY <1>3, <1>4, <2>1, <2>2
<1>8. /\ n \in 0 .. Len(View) /\ n \in 0 .. Len(trail) /\ Cdcl!CutAt(n, b)
      /\ \A i \in 1 .. n : trail'[i] = trail[i]
      /\ Len(trail') = n + 1 /\ trail'[n + 1] = [lit |-> u, lev |-> b, rsn |-> r]
  <2>1. n \in 0 .. Len(View) /\ Cdcl!CutAt(n, b)
    BY <1>2, <1>5, <1>7, ViewCut
  <2>2. Len(View) = Len(trail)
    BY <1>2, ViewFacts
  <2>3. PICK e, kept : e = [lit |-> u, lev |-> b, rsn |-> r] /\ kept = Kept(b)
    OBVIOUS
  <2>4. kept \in Seq(Assignment) /\ Len(kept) = n /\ \A i \in 1 .. n : kept[i] = trail[i]
    BY <1>2, <1>5, <1>7, <2>3, KeptFacts
  <2>5. trail' = Append(kept, e)
    BY <1>7, <2>3
  <2>6. Len(trail') = n + 1 /\ trail'[n + 1] = e /\ \A i \in 1 .. n : trail'[i] = kept[i]
    BY <2>4, <2>5
  <2> QED
    BY <2>1, <2>2, <2>3, <2>4, <2>6
<1>9. View' = Append(SubSeq(View, 1, n), Cdcl!Assign(u, b, IF c = {u} THEN {} ELSE c))
  <2>1. View' = Append(SubSeq(View, 1, n), [lit |-> u, lev |-> b,
                                           rsn |-> IF r = 0 THEN {} ELSE LitsOf(r)'])
    BY <1>2, <1>8, ViewKept
  <2> QED
    BY <1>7, <2>1 DEF Cdcl!Assign
<1>10. Cdcl!Derives(c)
  BY <1>1, <1>3, LearnedDerives
<1>11. PICK F : F = {Neg(l) : l \in c}
  OBVIOUS
<1>12. \A l \in c : l \in Lit /\ IsFalse(l)
  BY <1>3 DEF Blamed
<1>13. F \in SUBSET Cdcl!TrueLits /\ Cdcl!Negs(F) = c
  <2>1. F \in SUBSET Cdcl!TrueLits
    BY <1>2, <1>11, <1>12, SeenTrail DEF IsFalse
  <2>2. Cdcl!Negs(F) = {Neg(m) : m \in F}
    BY SameLiterals
  <2>3. \A l \in c : Neg(Neg(l)) = l
    BY <1>12, NegLit
  <2> QED
    BY <1>11, <2>1, <2>2, <2>3
<1>14. ASSUME NEW i \in Positions, View[i].lit \in F
       PROVE  IF View[i].lit = Neg(u) THEN View[i].lev > b ELSE View[i].lev \in 1 .. b
  <2>1. View[i].lit = trail[i].lit /\ View[i].lev = trail[i].lev
    BY <1>2, ViewFacts
  <2>2. PICK l \in c : trail[i].lit = Neg(l)
    BY <1>11, <1>14, <2>1
  <2>3. LevelOf(l) = trail[i].lev
    BY <1>2, <1>12, <2>2, FalseFacts DEF FalseAt
  <2>4. CASE l = u
    BY <1>5, <2>1, <2>2, <2>3, <2>4
  <2>5. CASE l # u
    <3>1. Neg(l) # Neg(u)
      BY <1>5, <1>12, <2>5, NegLit
    <3> QED
      BY <1>5, <2>1, <2>2, <2>3, <2>5, <3>1
  <2> QED
    BY <2>4, <2>5
<1>15. \A i \in Cdcl!Positions :
         View[i].lit \in F =>
           IF View[i].lit = Cdcl!Neg(u) THEN View[i].lev > b ELSE View[i].lev \in 1 .. b
  BY <1>2, <1>14, SeenTrail, SameLiterals
<1>16. SameQuestion /\ SameAnswer /\ Mode = "search" /\ consistent
  BY <1>1 DEF client, query, answer, SameQuestion, SameAnswer, Mode, Result, Querying, Inv, PhaseOK
<1>17. \E a \in c :
         /\ \A i \in Cdcl!Positions :
              View[i].lit \in F =>
                IF View[i].lit = Cdcl!Neg(a) THEN View[i].lev > Level' ELSE View[i].lev \in 1 .. Level'
         /\ c = {a} => Level' = 0
         /\ Derived' = IF c = {a} THEN Derived ELSE Derived \cup {c}
         /\ \E m \in 0 .. Len(View) :
              /\ Cdcl!CutAt(m, Level')
              /\ View' = Append(SubSeq(View, 1, m),
                                Cdcl!Assign(a, Level', IF c = {a} THEN {} ELSE c))
         /\ Cdcl!Derives(c)
  BY <1>5, <1>6, <1>7, <1>8, <1>9, <1>10, <1>15
<1>18. UNCHANGED <<inputs, Originals, count, consistent, hard, user, Mode, Result, failed>>
  BY <1>7, <1>16 DEF SameQuestion, SameAnswer
<1>19. Level' \in 0 .. Level - 1
  BY <1>5, <1>6
<1> QED
  BY <1>13, <1>16, <1>17, <1>18, <1>19
     DEF Cdcl!Learn, Cdcl!answer, View, Originals, Derived, Mode, Result

-----------------------------------------------------------------------------
(***************************************************************************)
(* What the client is asked to keep: scopes have selectors of their own,   *)
(* and a clause is stored with its variables known.                        *)
(***************************************************************************)
SelectorsOK == /\ Len(selectors) <= count
               /\ \A i, j \in 1 .. Len(selectors) : i < j => selectors[i] < selectors[j]

PendingOK == phase \in {"add", "install"} =>
  pending \in Guarded /\ \A l \in pending : VarOf(l) \in 1 .. count

\* At first there are no scopes and no clause is on its way.
LEMMA ClientInit ==
  ASSUME Init
  PROVE  SelectorsOK /\ PendingOK
<1>1. selectors = << >> /\ count = 0 /\ phase = "idle"
  BY DEF Init
<1>2. Len(selectors) = 0
  BY <1>1
<1> QED
  BY <1>1, <1>2 DEF SelectorsOK, PendingOK

\* The selectors of open scopes are ordered; one more comes last.
LEMMA PushKeeps ==
  ASSUME Inv, SelectorsOK, Push
  PROVE  SelectorsOK' /\ PendingOK'
<1>1. /\ selectors' = Append(selectors, count + 1) /\ count' = count + 1 /\ phase' = "idle"
      /\ phase = "idle"
  BY DEF Push, Calls
<1>2. selectors \in Seq(1 .. count) /\ count \in Nat
  BY DEF Inv, TypeOK, ControlType
<1>3. PICK n : n = Len(selectors)
  OBVIOUS
<1>4. /\ Len(selectors') = n + 1 /\ n \in Nat /\ selectors'[n + 1] = count + 1
      /\ \A i \in 1 .. n : selectors'[i] = selectors[i] /\ selectors[i] \in 1 .. count
  BY <1>1, <1>2, <1>3
<1>5. ASSUME NEW i \in 1 .. n + 1, NEW j \in 1 .. n + 1, i < j
      PROVE  selectors'[i] < selectors'[j]
  <2>1. i \in 1 .. n
    BY <1>4, <1>5
  <2>2. CASE j = n + 1
    BY <1>2, <1>4, <2>1, <2>2
  <2>3. CASE j # n + 1
    <3>1. j \in 1 .. n
      BY <1>4, <2>3
    <3> QED
      BY <1>3, <1>4, <1>5, <2>1, <3>1 DEF SelectorsOK
  <2> QED
    BY <2>2, <2>3
<1>6. n + 1 <= count + 1
  BY <1>2, <1>3, <1>4 DEF SelectorsOK
<1>7. SelectorsOK'
  BY <1>1, <1>4, <1>5, <1>6 DEF SelectorsOK
<1> QED
  BY <1>1, <1>7 DEF PendingOK

\* A clause, guarded by the innermost scope's selector.
LEMMA AddKeeps ==
  ASSUME Inv, SelectorsOK, Add
  PROVE  SelectorsOK' /\ PendingOK' /\ count <= count'
<1>1. PICK c : /\ c = Head(program).clause
                       \cup IF selectors = << >> THEN {} ELSE {Neg(Last(selectors))}
               /\ Adding(c) /\ Calls("add") /\ selectors' = selectors
  BY DEF Add
<1>2. Head(program) \in Operations /\ Head(program).op = "add"
  BY <1>1, CallFacts
<1>3. Head(program).clause \in Given /\ Head(program).clause \in SUBSET Lit
  BY <1>2, ProgramAssumption DEF Given, Clause
<1>4. c \in SUBSET Lit
  BY <1>1, <1>3, SelectorFacts
<1>5. c \in Guarded
  <2>1. CASE selectors = << >>
    BY <1>1, <1>3, <2>1 DEF Guarded
  <2>2. CASE selectors # << >>
    <3>1. Last(selectors) \in Var
      BY <2>2, SelectorFacts
    <3> QED
      BY <1>1, <1>3, <2>2, <3>1 DEF Guarded
  <2> QED
    BY <2>1, <2>2
<1>6. count' \in Nat /\ count <= count' /\ \A l \in c : VarOf(l) \in 1 .. count'
  BY <1>1, <1>4, AddingFacts DEF Adding
<1>7. Len(selectors) \in Nat /\ count \in Nat
  BY DEF Inv, TypeOK, ControlType
<1>8. SelectorsOK'
  BY <1>1, <1>6, <1>7 DEF SelectorsOK
<1>9. PendingOK'
  BY <1>1, <1>5, <1>6 DEF PendingOK, Adding
<1> QED
  BY <1>6, <1>8, <1>9

\* The innermost scope's selector is made false for good.
LEMMA PopKeeps ==
  ASSUME Inv, SelectorsOK, Pop
  PROVE  SelectorsOK' /\ PendingOK' /\ count <= count'
<1>1. PICK c : /\ c = {Neg(Last(selectors))} /\ selectors # << >>
               /\ Adding(c) /\ selectors' = Front(selectors)
  BY DEF Pop
<1>2. Last(selectors) \in Var /\ c \in SUBSET Lit
  BY <1>1, SelectorFacts
<1>3. c \in Guarded
  <2>1. PICK e, v : e = {} /\ v = Last(selectors)
    OBVIOUS
  <2>2. e \in Given \cup {{}} /\ v \in Var /\ c = e \cup {Neg(v)}
    BY <1>1, <1>2, <2>1
  <2>3. c \in {d \cup {Neg(x)} : d \in Given \cup {{}}, x \in Var}
    BY <2>2
  <2> QED
    BY <2>3 DEF Guarded
<1>4. count' \in Nat /\ count <= count' /\ \A l \in c : VarOf(l) \in 1 .. count'
  BY <1>1, <1>2, AddingFacts DEF Adding
<1>5. selectors \in Seq(1 .. count) /\ count \in Nat
  BY DEF Inv, TypeOK, ControlType
<1>6. PICK n : n = Len(selectors)
  OBVIOUS
<1>7. n \in Nat \ {0}
  BY <1>1, <1>5, <1>6, EmptySeq
<1>8. selectors' = SubSeq(selectors, 1, n - 1)
  BY <1>1, <1>6 DEF Front
<1>9. Len(selectors') = n - 1 /\ \A i \in 1 .. n - 1 : selectors'[i] = selectors[i]
  BY <1>5, <1>6, <1>7, <1>8
<1>10. n - 1 <= count'
  BY <1>4, <1>5, <1>6, <1>7 DEF SelectorsOK
<1>11. \A i, j \in 1 .. n - 1 : i < j => selectors'[i] < selectors'[j]
  BY <1>6, <1>7, <1>9 DEF SelectorsOK
<1>12. SelectorsOK'
  BY <1>9, <1>10, <1>11 DEF SelectorsOK
<1>13. PendingOK'
  BY <1>1, <1>3, <1>4 DEF PendingOK, Adding
<1> QED
  BY <1>4, <1>12, <1>13

\* No other step brings up a clause or a scope.
LEMMA OthersKeep ==
  ASSUME SelectorsOK, PendingOK, SolverStep \/ Refused \/ SolveCached \/ Solve \/ Interrupt
                                  \/ UNCHANGED vars
  PROVE  SelectorsOK' /\ PendingOK'
<1> DEFINE Calm == /\ UNCHANGED <<selectors, count, pending>>
                   /\ phase' \in {"add", "install"} => phase \in {"add", "install"}
<1>1. ASSUME Dequeue \/ DropWatch \/ SkipWatch \/ KeepWatch \/ MoveWatch \/ Imply \/ Conflict
      PROVE  Calm
  BY <1>1 DEF Dequeue, DropWatch, SkipWatch, KeepWatch, MoveWatch, Imply, Conflict, Unmoved, client
<1>2. ASSUME Learn \/ Reduce \/ Restart \/ NoRestart \/ BeginSearch
      PROVE  Calm
  BY <1>2 DEF Learn, Reduce, Restart, NoRestart, BeginSearch, client
<1>3. ASSUME RootConflict
      PROVE  Calm
  BY <1>3 DEF RootConflict, Return, client
<1>4. ASSUME AnswerInconsistent \/ GiveUp \/ FailAssumption \/ AnswerSat
      PROVE  Calm
  BY <1>4 DEF AnswerInconsistent, GiveUp, FailAssumption, AnswerSat, Return, client
<1>5. ASSUME Assume \/ Decide
      PROVE  Calm
  BY <1>5 DEF Assume, Decide, client
<1>6. ASSUME Propagated \/ Settle
      PROVE  Calm
  BY <1>6 DEF Propagated, Settle, client
<1>7. ASSUME AddIgnored \/ AddFalsified \/ AddUnit \/ AddStored
      PROVE  Calm
  <2>1. UNCHANGED <<selectors, count, pending>> /\ phase' \notin {"add", "install"}
    BY <1>7 DEF AddIgnored, AddFalsified, AddUnit, AddStored, Installing
  <2> QED
    BY <2>1
<1>8. ASSUME Refused \/ SolveCached \/ Solve
      PROVE  Calm
  BY <1>8 DEF Refused, SolveCached, Solve
<1>9. ASSUME Interrupt \/ UNCHANGED vars
      PROVE  Calm
  BY <1>9 DEF Interrupt, vars, client
<1>10. Calm
  BY <1>1, <1>2, <1>3, <1>4, <1>5, <1>6, <1>7, <1>8, <1>9 DEF SolverStep
<1> QED
  BY <1>10 DEF SelectorsOK, PendingOK

\* Every step keeps what the client is asked for.
LEMMA ClientKept ==
  ASSUME Inv, SelectorsOK, PendingOK, [Next]_vars
  PROVE  SelectorsOK' /\ PendingOK'
BY AddKeeps, PushKeeps, PopKeeps, OthersKeep DEF Next, ClientStep

\* A call that changes the formula discards the answer and the search state.
LEMMA MutateSeen ==
  ASSUME Inv, ClausesKept, phase = "idle", ~Querying', CancelUntil(0), cached' = NoCache,
         failed' = {}, clauses' = clauses, UNCHANGED <<inputs, hard, user, consistent>>,
         count' \in Nat, count <= count', 1 .. count' \subseteq Var
  PROVE  \E n \in Var \cup {0} : Cdcl!Mutate(n)
<1>1. count' \in Var \cup {0}
  <2>1. count' = 0 \/ count' \in 1 .. count'
    OBVIOUS
  <2> QED
    BY <2>1
<1>2. 0 \in 0 .. Level /\ count \in Nat
  BY DEF Inv, TypeOK, TrailType, ControlType, Level
<1>3. Cdcl!CancelUntil(0)
  BY <1>2, SeenCancel
<1>4. (1 .. count)' = (1 .. count) \cup (Var \cap 1 .. count')
  BY <1>2
<1>5. Originals' = Originals /\ Derived' = Derived
  BY SameSeen DEF SameDatabase
<1>6. Mode = "idle" /\ Mode' = "idle" /\ Result' = "none"
  BY DEF Mode, Result, Querying, NoCache
<1>7. Cdcl!Mutate(count')
  BY <1>3, <1>4, <1>5, <1>6 DEF Cdcl!Mutate, Originals, Derived, Mode, Result
<1> QED
  BY <1>1, <1>7

\* The calls that do so: add_clause, push and pop.
LEMMA CallsMutate ==
  ASSUME Inv, Add \/ Push \/ Pop, ClausesKept
  PROVE  \E n \in Var \cup {0} : Cdcl!Mutate(n)
<1>1. /\ phase = "idle" /\ CancelUntil(0) /\ cached' = NoCache /\ failed' = {}
      /\ clauses' = clauses /\ UNCHANGED <<inputs, hard, user, consistent>>
  BY DEF Add, Push, Pop, Calls, Prepare, database, query
<1>2. /\ ~Querying' /\ count' \in Nat /\ count <= count' /\ 1 .. count' \subseteq Var
  <2>1. count \in Nat /\ 1 .. count \subseteq Var
    BY DEF Inv, TypeOK, ControlType
  <2>2. CASE Push
    <3>1. phase' = phase /\ phase = "idle" /\ count' = count + 1 /\ count + 1 \in Var
      BY <2>2 DEF Push, Calls
    <3>2. 1 .. count + 1 \subseteq Var
      BY <3>1, NumberingAssumption
    <3> QED
      BY <2>1, <3>1, <3>2 DEF Querying
  <2>3. CASE Add \/ Pop
    <3>1. PICK c \in SUBSET Lit : Adding(c)
      <4>1. CASE Add
        <5>1. PICK d : /\ d = Head(program).clause /\ Calls("add")
                       /\ Adding(d \cup IF selectors = << >> THEN {} ELSE {Neg(Last(selectors))})
          BY <4>1 DEF Add
        <5>2. d \in SUBSET Lit
          BY <5>1, CallFacts, ProgramAssumption DEF Clause
        <5> QED
          BY <5>1, <5>2, SelectorFacts
      <4>2. CASE Pop
        BY <4>2, SelectorFacts DEF Pop
      <4> QED
        BY <2>3, <4>1, <4>2
    <3>2. count' \in Nat /\ count <= count' /\ 1 .. count' \subseteq Var
      BY <3>1, AddingFacts DEF Adding
    <3> QED
      BY <3>1, <3>2 DEF Adding, Querying
  <2> QED
    BY <1>1, <2>2, <2>3
<1> QED
  BY <1>1, <1>2, MutateSeen

\* A query: its selectors are ordered, and its variables known.
LEMMA SolveSeen ==
  ASSUME Inv, SelectorsOK, Solve, ClausesKept
  PROVE  \E q \in Asked : Cdcl!Solve(q[1], q[2])
<1>1. PICK u : /\ u = Head(program).assume /\ Calls("solve")
               /\ \A l \in Range(u) : VarOf(l) <= count
               /\ hard' = selectors /\ user' = u /\ CancelUntil(0)
               /\ failed' = {} /\ phase' = "prepare"
               /\ UNCHANGED <<database, count, inputs, consistent>>
  BY DEF Solve
<1>2. /\ Head(program) \in {p \in Operations : p.op = "solve"} /\ u \in Seq(Lit)
      /\ phase = "idle"
  BY <1>1, CallFacts, ProgramAssumption
<1>3. selectors \in Seq(1 .. count) /\ count \in Nat /\ 1 .. count \subseteq Var
  BY DEF Inv, TypeOK, ControlType
<1>4. selectors \in Stacks
  <2>1. PICK n : n = Len(selectors)
    OBVIOUS
  <2>2. n \in 0 .. Cardinality(Var)
    BY <1>3, <2>1, CountBound DEF SelectorsOK
  <2>3. selectors \in [1 .. n -> Var] /\ DOMAIN selectors = 1 .. n
    BY <1>3, <2>1
  <2>4. selectors \in UNION {[1 .. m -> Var] : m \in 0 .. Cardinality(Var)}
    BY <2>2, <2>3
  <2>5. \A i, j \in DOMAIN selectors : i < j => selectors[i] < selectors[j]
    BY <2>1, <2>3 DEF SelectorsOK
  <2> QED
    BY <2>4, <2>5 DEF Stacks
<1>5. <<selectors, u>> \in Asked
  BY <1>1, <1>2, <1>4 DEF Asked
<1>6. Cdcl!VarsOf(Cdcl!Elems(selectors) \cup Cdcl!Elems(u)) \subseteq 1 .. count
  <2>1. PICK E : E = Cdcl!Elems(selectors) \cup Cdcl!Elems(u)
    OBVIOUS
  <2>2. Cdcl!VarsOf(E) = {VarOf(l) : l \in E}
    BY SameLiterals
  <2>3. ASSUME NEW l \in Cdcl!Elems(selectors) PROVE VarOf(l) \in 1 .. count
    <3>1. l \in 1 .. count
      BY <1>3, <2>3, SameLiterals
    <3> QED
      BY <1>3, <3>1, VarLit
  <2>4. ASSUME NEW l \in Cdcl!Elems(u) PROVE VarOf(l) \in 1 .. count
    <3>1. l \in Range(u)
      BY <1>2, <2>4, SameElems
    <3>2. l \in Lit
      BY <1>2, <2>4, SameLiterals
    <3>3. VarOf(l) \in Nat \ {0} /\ VarOf(l) <= count
      BY <1>1, <3>1, <3>2, NegLit, VarAssumption
    <3> QED
      BY <1>3, <3>3
  <2> QED
    BY <2>1, <2>2, <2>3, <2>4
<1>7. Cdcl!CancelUntil(0)
  <2>1. 0 \in 0 .. Level
    BY DEF Inv, TypeOK, TrailType, Level
  <2> QED
    BY <1>1, <2>1, SeenCancel
<1>8. Mode = "idle" /\ Mode' = "search" /\ Result' = "none"
  BY <1>1, <1>2 DEF Mode, Result, Querying
<1>9. Originals' = Originals /\ Derived' = Derived
  BY <1>1, SameSeen DEF SameDatabase, database
<1>10. Cdcl!Solve(selectors, u)
  BY <1>1, <1>6, <1>7, <1>8, <1>9 DEF Cdcl!Solve, Cdcl!db, Originals, Derived, Mode, Result
<1>11. PICK q : q = <<selectors, u>>
  OBVIOUS
<1>12. q \in Asked /\ q[1] = selectors /\ q[2] = u
  BY <1>5, <1>11
<1> QED
  BY <1>10, <1>12

\* What every way of installing a clause has in common.
LEMMA InstallSeen ==
  ASSUME Inv, PendingOK, Installing, phase' \in {"idle", "settle"}, Derived' = Derived,
         NEW c, c = pending
  PROVE  Cdcl!Adding(c) /\ Level = 0
<1>1. /\ phase = "install" /\ inputs' = inputs \cup {pending}
      /\ UNCHANGED <<count, limits, hard, user, cached, failed>>
  BY DEF Installing, query, answer
<1>2. Level = 0 /\ Level' = 0 /\ cached.result = "none"
  BY <1>1 DEF Inv, PhaseOK, AnswerOK, Level
<1>3. Mode = "idle" /\ Mode' = "idle" /\ Result = "none" /\ Result' = "none"
  BY <1>1, <1>2 DEF Mode, Result, Querying
<1>4. Cdcl!VarsOf(c) \subseteq 1 .. count
  BY <1>1, SameLiterals DEF PendingOK
<1>5. UNCHANGED <<Derived, count, Level, hard, user, Mode, Result, failed>>
  BY <1>1, <1>2, <1>3
<1> QED
  BY <1>1, <1>2, <1>3, <1>4, <1>5 DEF Cdcl!Adding, Derived, Mode, Result

\* The clause is not stored: the trail decides what becomes of it.
LEMMA UnstoredSeen ==
  ASSUME Inv, PendingOK, ClausesKept, AddIgnored \/ AddFalsified \/ AddUnit,
         NEW c, c = pending
  PROVE  Cdcl!AddClause(c)
<1>1. Installing /\ phase' \in {"idle", "settle"} /\ clauses' = clauses
  BY DEF AddIgnored, AddFalsified, AddUnit, database
<1>2. Originals' = Originals /\ Derived' = Derived
  BY <1>1, SameSeen DEF SameDatabase
<1>3. Cdcl!Adding(c) /\ Level = 0
  BY <1>1, <1>2, InstallSeen
<1>4. TypeOK /\ TrailOK /\ ReasonsOK
  BY DEF Inv
<1>5. CASE AddIgnored
  <2>1. Tautology(pending) \/ ~consistent \/ \E l \in c : IsTrue(l)
    BY <1>5 DEF AddIgnored
  <2>2. (\E l \in c : IsTrue(l)) => c \cap Cdcl!RootLits # {}
    <3> SUFFICES ASSUME NEW l \in c, IsTrue(l) PROVE l \in Cdcl!RootLits
      OBVIOUS
    <3>1. PICK i \in Positions : trail[i].lit = l
      BY DEF IsTrue, Positions
    <3>2. trail[i].lev = 0
      BY <1>3, <1>4, <3>1, EntryFields DEF TrailOK
    <3> QED
      BY <1>4, <3>1, <3>2, SeenTrail
  <2>3. Cdcl!Tautology(c) \/ ~consistent \/ c \cap Cdcl!RootLits # {}
    BY <2>1, <2>2, SameLiterals
  <2>4. trail' = trail /\ consistent' = consistent
    BY <1>5 DEF AddIgnored
  <2>5. View' = View
    BY <1>4, <2>4, ViewStays
  <2> QED
    BY <1>2, <1>3, <2>3, <2>4, <2>5 DEF Cdcl!AddClause, Cdcl!AddIgnored, View, Originals
<1>6. CASE AddFalsified
  <2>1. trail' = trail /\ consistent' = FALSE /\ \A l \in c : IsFalse(l)
    BY <1>6 DEF AddFalsified
  <2>2. View' = View
    BY <1>4, <2>1, ViewStays
  <2>3. Cdcl!Falsified(c)
    BY <1>4, <2>1, SeenTrail
  <2> QED
    BY <1>2, <1>3, <2>1, <2>2, <2>3 DEF Cdcl!AddClause, Cdcl!AddFalsified, View, Originals
<1>7. CASE AddUnit
  <2>1. PICK l : /\ l \in c /\ c = {l} /\ Free(l)
                 /\ trail' = Append(trail, [lit |-> l, lev |-> Level, rsn |-> 0])
                 /\ consistent' = consistent
    BY <1>7 DEF AddUnit, Enqueue
  <2>2. View' = Append(View, [lit |-> l, lev |-> 0, rsn |-> {}])
    BY <1>3, <1>4, <2>1, ViewGrows
  <2>3. Cdcl!Unassigned(l)
    BY <1>4, <2>1, SeenTrail
  <2>4. Cdcl!AddUnit(l)
    BY <1>2, <1>3, <2>1, <2>2, <2>3 DEF Cdcl!AddUnit, Cdcl!Assign, View, Originals
  <2> QED
    BY <2>1, <2>4 DEF Cdcl!AddClause
<1> QED
  BY <1>5, <1>6, <1>7

\* The clause is stored, and implies a literal if the others are false.
LEMMA StoredSeen ==
  ASSUME Inv, PendingOK, ClausesKept, AddStored, NEW c, c = pending
  PROVE  Cdcl!AddClause(c)
<1>1. /\ Installing /\ phase' \in {"idle", "settle"} /\ Cardinality(c) > 1
      /\ consistent' = consistent
  BY DEF AddStored
<1>2. TypeOK /\ TrailOK /\ ReasonsOK /\ c \in SUBSET Lit
  BY DEF Inv, TypeOK, ControlType
<1>3. PICK s : s \in SetToSeqs(c) /\ s \in Disjunction /\ Allocate(s, FALSE)
  BY AddAllocates
<1>4. Range(s) = c
  BY <1>2, <1>3, ListsSet
<1>5. Originals' = Originals \cup {c} /\ Derived' = Derived
  BY <1>3, <1>4, AllocateSeen
<1>6. Cdcl!Adding(c) /\ Level = 0
  BY <1>1, <1>5, InstallSeen
<1>7. c # {} /\ \A l \in c : c # {l}
  <2>1. \A k : \E l \in c : l # k
    BY <1>1, <1>2, Another
  <2> QED
    BY <2>1
<1>8. View' = View \/ \E l \in c : /\ Cdcl!Unassigned(l) /\ Cdcl!Falsified(c \ {l})
                                        /\ View' = Append(View, Cdcl!Assign(l, 0, c))
  <2>1. CASE trail' = trail
    BY <1>2, <2>1, ViewStays
  <2>2. CASE trail' # trail
    <3>1. PICK n, l : /\ n \in Nat \ {0} /\ LitsOf(n)' = c /\ l \in c /\ Free(l)
                      /\ trail' = Append(trail, [lit |-> l, lev |-> Level, rsn |-> n])
                      /\ \A m \in c \ {l} : IsFalse(m)
      BY <2>2, AddStoredImplies DEF Enqueue
    <3>2. n # 0
      BY <3>1
    <3>3. View' = Append(View, [lit |-> l, lev |-> 0, rsn |-> c])
      BY <1>2, <1>6, <3>1, <3>2, ViewGrows
    <3>4. Cdcl!Unassigned(l) /\ Cdcl!Falsified(c \ {l})
      BY <1>2, <3>1, SeenTrail
    <3> QED
      BY <3>1, <3>3, <3>4 DEF Cdcl!Assign
  <2> QED
    BY <2>1, <2>2
<1> QED
  BY <1>1, <1>5, <1>6, <1>7, <1>8 DEF Cdcl!AddClause, Cdcl!AddStored, View, Originals

-----------------------------------------------------------------------------
(***************************************************************************)
(* The refinement.                                                         *)
(***************************************************************************)

\* A new solver.
LEMMA InitSeen ==
  ASSUME Init
  PROVE  Cdcl!Init
<1>1. /\ clauses = << >> /\ trail = << >> /\ limits = << >> /\ count = 0 /\ consistent = TRUE
      /\ hard = << >> /\ user = << >> /\ cached = NoCache /\ failed = {} /\ phase = "idle"
      /\ inputs = {}
  BY DEF Init
<1>2. Stored = {}
  BY <1>1 DEF Stored
<1>3. Originals = {} /\ Derived = {} /\ 1 .. count = {}
  BY <1>1, <1>2 DEF Originals, Derived
<1>4. View = << >> /\ Level = 0
  BY <1>1 DEF View, Level
<1>5. Mode = "idle" /\ Result = "none"
  BY <1>1 DEF Mode, Result, Querying, NoCache
<1> QED
  BY <1>1, <1>3, <1>4, <1>5 DEF Cdcl!Init, Originals, Derived, View, Mode, Result

\* Every step of the solver is a step of the search machine, or none.
LEMMA StepSeen ==
  ASSUME Inv, NoMissedConflict, SelectorsOK, PendingOK, [Next]_vars
  PROVE  Cdcl!Next \/ UNCHANGED Cdcl!vars
<1>1. ClausesKept
  BY DatabaseStep DEF DatabaseKept
<1>2. CASE Dequeue \/ DropWatch \/ SkipWatch \/ KeepWatch \/ MoveWatch \/ Conflict
  BY <1>1, <1>2, VisitsUnseen, UnseenStutters
<1>3. CASE NoRestart \/ BeginSearch \/ Propagated \/ Settle \/ Refused \/ SolveCached
           \/ Interrupt \/ UNCHANGED vars
  BY <1>1, <1>3, TurnsUnseen, UnseenStutters
<1>4. CASE Imply
  BY <1>1, <1>4, ImplySeen DEF Cdcl!Next
<1>5. CASE Learn
  BY <1>1, <1>5, LearnSeen DEF Cdcl!Next
<1>6. CASE Reduce
  BY <1>1, <1>6, ReduceSeen DEF Cdcl!Next
<1>7. CASE Restart
  BY <1>1, <1>7, RestartSeen DEF Cdcl!Next
<1>8. CASE RootConflict
  BY <1>1, <1>8, RootConflictSeen DEF Cdcl!Next
<1>9. CASE AnswerInconsistent
  BY <1>1, <1>9, AnswerInconsistentSeen DEF Cdcl!Next
<1>10. CASE GiveUp
  BY <1>1, <1>10, GiveUpSeen DEF Cdcl!Next
<1>11. CASE Assume
  BY <1>1, <1>11, AssumeSeen DEF Cdcl!Next
<1>12. CASE FailAssumption
  BY <1>1, <1>12, FailAssumptionSeen DEF Cdcl!Next
<1>13. CASE Decide
  BY <1>1, <1>13, DecideSeen DEF Cdcl!Next
<1>14. CASE AnswerSat
  BY <1>1, <1>14, AnswerSatSeen DEF Cdcl!Next
<1>15. CASE AddIgnored \/ AddFalsified \/ AddUnit \/ AddStored
  <2>1. PICK c : c = pending
    OBVIOUS
  <2>2. c \in Guarded
    BY <1>15, <2>1 DEF AddIgnored, AddFalsified, AddUnit, AddStored, Installing, PendingOK
  <2>3. Cdcl!AddClause(c)
    BY <1>1, <1>15, <2>1, UnstoredSeen, StoredSeen
  <2> QED
    BY <2>2, <2>3 DEF Cdcl!Next
<1>16. CASE Add \/ Push \/ Pop
  BY <1>1, <1>16, CallsMutate DEF Cdcl!Next
<1>17. CASE Solve
  BY <1>1, <1>17, SolveSeen DEF Cdcl!Next
<1> QED
  BY <1>2, <1>3, <1>4, <1>5, <1>6, <1>7, <1>8, <1>9, <1>10, <1>11, <1>12, <1>13, <1>14, <1>15,
     <1>16, <1>17 DEF Next, SolverStep, ClientStep

(***************************************************************************)
(* The solver implements the search machine: whatever the order in which   *)
(* watches are visited, clauses reduced, searches restarted, interrupted   *)
(* and calls made, it takes only the steps Cdcl.tla allows.                *)
(***************************************************************************)
THEOREM KernelImplements == Spec => Implements
<1>1. Init => Cdcl!Init
  BY InitSeen
<1>2. Init => SelectorsOK /\ PendingOK
  BY ClientInit
<1>3. SelectorsOK /\ PendingOK /\ Inv /\ [Next]_vars => SelectorsOK' /\ PendingOK'
  BY ClientKept
<1>4. Inv /\ NoMissedConflict /\ SelectorsOK /\ PendingOK /\ [Next]_vars
        => [Cdcl!Next]_(Cdcl!vars)
  BY StepSeen
<1>5. Spec => []Inv /\ []NoMissedConflict
  BY KernelInvariance, ConflictsFound, PTL
<1> QED
  BY <1>1, <1>2, <1>3, <1>4, <1>5, PTL DEF Spec, Implements, Cdcl!Spec

-----------------------------------------------------------------------------
(***************************************************************************)
(* The answers.  What CdclProofs.tla proves of the search machine holds of *)
(* the solver.                                                             *)
(***************************************************************************)
Search == INSTANCE CdclProofs WITH
  InputClauses <- Guarded,
  Queries <- Asked,
  original <- {LitsOf(r) : r \in {q \in Stored : ~clauses[q].learned}},
  learned <- {LitsOf(r) : r \in {q \in Stored : clauses[q].learned}},
  known <- 1 .. count,
  trail <- [i \in 1 .. Len(trail) |->
              [lit |-> trail[i].lit, lev |-> trail[i].lev,
               rsn |-> IF trail[i].rsn = 0 THEN {} ELSE LitsOf(trail[i].rsn)]],
  level <- Level,
  mode <- IF Querying THEN "search" ELSE "idle",
  result <- IF Querying THEN "none" ELSE cached.result



\* Read twice, its definitions say the same.
LEMMA SameWords ==
  /\ \A l, k, r : Search!Assign(l, k, r) = Cdcl!Assign(l, k, r)
  /\ \A c : (Search!Tautology(c) <=> Cdcl!Tautology(c)) /\ Search!VarsOf(c) = Cdcl!VarsOf(c)
            /\ (Search!Falsified(c) <=> Cdcl!Falsified(c)) /\ Search!Negs(c) = Cdcl!Negs(c)
  /\ \A l : Search!Neg(l) = Cdcl!Neg(l) /\ Search!VarOf(l) = Cdcl!VarOf(l)
            /\ (Search!Unassigned(l) <=> Cdcl!Unassigned(l))
  /\ Search!Lit = Cdcl!Lit /\ Search!Positions = Cdcl!Positions
  /\ Search!TrueLits = Cdcl!TrueLits /\ Search!RootLits = Cdcl!RootLits
  /\ Search!Clauses = Cdcl!Clauses /\ Search!query = Cdcl!query
  /\ \A S : Search!LitsAt(S) = Cdcl!LitsAt(S)
  /\ \A S, c : Search!Explained(S, c) <=> Cdcl!Explained(S, c)
  /\ \A n, k : Search!CutAt(n, k) <=> Cdcl!CutAt(n, k)
  /\ \A s : Search!Elems(s) = Cdcl!Elems(s)
BY DEF Search!Assign, Cdcl!Assign, Search!Tautology, Cdcl!Tautology, Search!VarsOf, Cdcl!VarsOf,
       Search!Falsified, Cdcl!Falsified, Search!Negs, Cdcl!Negs, Search!Neg, Cdcl!Neg,
       Search!VarOf, Cdcl!VarOf, Search!Unassigned, Cdcl!Unassigned, Search!Lit, Cdcl!Lit,
       Search!Positions, Cdcl!Positions, Search!TrueLits, Cdcl!TrueLits,
       Search!RootLits, Cdcl!RootLits, Search!Clauses, Cdcl!Clauses, Search!query, Cdcl!query,
       Search!LitsAt, Cdcl!LitsAt, Search!Explained, Cdcl!Explained, Search!CutAt, Cdcl!CutAt,
       Search!Elems, Cdcl!Elems

\* So do its steps.
LEMMA SameActions ==
  /\ Search!Init <=> Cdcl!Init
  /\ Search!Next <=> Cdcl!Next
  /\ Search!vars = Cdcl!vars
<1>1. Search!vars = Cdcl!vars
  BY DEF Search!vars, Cdcl!vars
<1>2. Search!Init <=> Cdcl!Init
  BY DEF Search!Init, Cdcl!Init
<1>3. \A n : Search!Mutate(n) <=> Cdcl!Mutate(n)
  BY
    DEF Search!Mutate, Cdcl!Mutate, Search!CancelUntil, Cdcl!CancelUntil, Search!CutAt,
        Cdcl!CutAt
<1>4. ASSUME NEW c PROVE Search!AddClause(c) <=> Cdcl!AddClause(c)
  <2>1. \A d : Search!Adding(d) <=> Cdcl!Adding(d)
    BY SameWords DEF Search!Adding, Cdcl!Adding
  <2>2. Search!AddIgnored(c) <=> Cdcl!AddIgnored(c)
    BY <2>1, SameWords DEF Search!AddIgnored, Cdcl!AddIgnored
  <2>3. Search!AddFalsified(c) <=> Cdcl!AddFalsified(c)
    BY <2>1, SameWords DEF Search!AddFalsified, Cdcl!AddFalsified
  <2>4. \A l : Search!AddUnit(l) <=> Cdcl!AddUnit(l)
    BY <2>1, SameWords DEF Search!AddUnit, Cdcl!AddUnit
  <2>5. Search!AddStored(c) <=> Cdcl!AddStored(c)
    <3>1. \A l : Search!Assign(l, 0, c) = Cdcl!Assign(l, 0, c)
      BY SameWords
    <3>2. \A l : /\ Search!Unassigned(l) <=> Cdcl!Unassigned(l)
                 /\ Search!Falsified(c \ {l}) <=> Cdcl!Falsified(c \ {l})
      BY SameWords
    <3> QED
      BY <2>1, <3>1, <3>2 DEF Search!AddStored, Cdcl!AddStored
  <2> QED
    BY <2>2, <2>3, <2>4, <2>5 DEF Search!AddClause, Cdcl!AddClause
<1>5. \A h, u : Search!Solve(h, u) <=> Cdcl!Solve(h, u)
  BY SameWords
  DEF Search!Solve, Cdcl!Solve, Search!db, Cdcl!db, Search!CancelUntil, Cdcl!CancelUntil
<1>6. Search!Propagate <=> Cdcl!Propagate
  BY SameWords
    DEF Search!Propagate, Cdcl!Propagate, Search!db, Cdcl!db, Search!answer, Cdcl!answer
<1>7. Search!RootConflict <=> Cdcl!RootConflict
  BY SameWords DEF Search!RootConflict, Cdcl!RootConflict, Search!search, Cdcl!search
<1>8. Search!AnswerInconsistent <=> Cdcl!AnswerInconsistent
  BY
    DEF Search!AnswerInconsistent, Cdcl!AnswerInconsistent, Search!search, Cdcl!search,
        Search!db, Cdcl!db
<1>9. Search!Assume <=> Cdcl!Assume
  BY SameWords DEF Search!Assume, Cdcl!Assume, Search!db, Cdcl!db, Search!answer, Cdcl!answer
<1>10. Search!FailAssumption <=> Cdcl!FailAssumption
  BY SameWords
    DEF Search!FailAssumption, Cdcl!FailAssumption, Search!db, Cdcl!db, Search!CancelUntil,
        Cdcl!CancelUntil
<1>11. Search!Decide <=> Cdcl!Decide
  BY SameWords DEF Search!Decide, Cdcl!Decide, Search!db, Cdcl!db, Search!answer, Cdcl!answer
<1>12. Search!Learn <=> Cdcl!Learn
  <2>1. \A c : Search!Derives(c) <=> Cdcl!Derives(c)
    BY SameWords DEF Search!Derives, Cdcl!Derives
  <2> QED
    BY <2>1 DEF Search!Learn, Cdcl!Learn, Search!answer, Cdcl!answer, Search!Negs, Cdcl!Negs,
       Search!Neg, Cdcl!Neg, Search!CutAt, Cdcl!CutAt, Search!Assign, Cdcl!Assign,
       Search!Positions, Cdcl!Positions, Search!TrueLits, Cdcl!TrueLits, Search!LitsAt, Cdcl!LitsAt
<1>13. Search!Restart <=> Cdcl!Restart
  BY SameWords
    DEF Search!Restart, Cdcl!Restart, Search!db, Cdcl!db, Search!answer, Cdcl!answer,
        Search!CancelUntil, Cdcl!CancelUntil
<1>14. Search!Reduce <=> Cdcl!Reduce
  BY SameWords
    DEF Search!Reduce, Cdcl!Reduce, Search!Reasons, Cdcl!Reasons, Search!search,
        Cdcl!search, Search!answer, Cdcl!answer
<1>15. Search!AnswerSat <=> Cdcl!AnswerSat
  BY SameWords
    DEF Search!AnswerSat, Cdcl!AnswerSat, Search!db, Cdcl!db, Search!search, Cdcl!search
<1>16. Search!GiveUp <=> Cdcl!GiveUp
  BY SameWords
    DEF Search!GiveUp, Cdcl!GiveUp, Search!db, Cdcl!db, Search!CancelUntil, Cdcl!CancelUntil
<1>17. Search!Next <=> Cdcl!Next
  BY <1>3, <1>4, <1>5, <1>6, <1>7, <1>8, <1>9, <1>10, <1>11, <1>12, <1>13, <1>14, <1>15, <1>16
  DEF Search!Next, Cdcl!Next
<1> QED
  BY <1>1, <1>2, <1>17

\* The members of two sequences, one after the other.
LEMMA RangeJoined ==
  ASSUME NEW T, NEW a \in Seq(T), NEW b \in Seq(T)
  PROVE  Range(a) \subseteq Range(a \o b) /\ Range(b) \subseteq Range(a \o b)
<1>1. PICK m, n, c : m = Len(a) /\ n = Len(b) /\ c = a \o b
  OBVIOUS
<1>2. /\ c \in Seq(T) /\ Len(c) = m + n /\ m \in Nat /\ n \in Nat
      /\ \A i \in 1 .. m : c[i] = a[i]
      /\ \A i \in 1 .. n : c[m + i] = b[i]
  BY <1>1
<1>3. \A i \in 1 .. m : i \in DOMAIN c /\ c[i] = a[i]
  BY <1>2
<1>4. \A i \in 1 .. n : m + i \in DOMAIN c /\ c[m + i] = b[i]
  BY <1>2
<1>5. DOMAIN a = 1 .. m /\ DOMAIN b = 1 .. n
  BY <1>1
<1>6. Range(a) \subseteq Range(c) /\ Range(b) \subseteq Range(c)
  BY <1>3, <1>4, <1>5 DEF Range
<1> QED
  BY <1>1, <1>6

\* What the client may send is what the search machine may be asked.
LEMMA SearchInputs ==
  /\ Guarded \subseteq Search!Clause
  /\ Asked \subseteq Seq(Search!Lit) \X Seq(Search!Lit)
<1>1. Search!Lit = Lit /\ Search!Clause = SUBSET Lit
  BY DEF Search!Lit, Lit, Search!Clause
<1>2. ASSUME NEW c \in Given \cup {{}} PROVE c \in SUBSET Lit
  <2>1. CASE c = {}
    BY <2>1
  <2>2. CASE c \in Given
    BY <2>2, ProgramAssumption DEF Given, Clause
  <2> QED
    BY <2>1, <2>2
<1>3. ASSUME NEW c \in Guarded PROVE c \in SUBSET Lit
  <2>1. CASE c \in Given
    BY <1>2, <2>1
  <2>2. CASE \E d \in Given \cup {{}}, s \in Var : c = d \cup {Neg(s)}
    <3>1. PICK d \in Given \cup {{}}, s \in Var : c = d \cup {Neg(s)}
      BY <2>2
    <3> QED
      BY <1>2, <3>1, VarLit
  <2> QED
    BY <2>1, <2>2 DEF Guarded
<1>4. ASSUME NEW h \in Stacks PROVE h \in Seq(Lit)
  <2>1. PICK n \in 0 .. Cardinality(Var) : h \in [1 .. n -> Var]
    BY DEF Stacks
  <2>2. n \in Nat /\ Var \subseteq Lit
    BY VarLit
  <2>3. h \in [1 .. n -> Lit]
    BY <2>1, <2>2
  <2> QED
    BY <2>2, <2>3
<1>5. ASSUME NEW q \in Asked PROVE q \in Seq(Lit) \X Seq(Lit)
  <2>1. PICK h \in Stacks, o \in {p \in Operations : p.op = "solve"} : q = <<h, o.assume>>
    BY DEF Asked
  <2>2. o.assume \in Seq(Lit)
    BY ProgramAssumption
  <2> QED
    BY <1>4, <2>1, <2>2
<1> QED
  BY <1>1, <1>3, <1>5

\* So everything proved of the search machine holds of the solver.
LEMMA Searches == Spec => Search!Spec
<1>1. [Cdcl!Next]_(Cdcl!vars) => [Search!Next]_(Search!vars)
  <2>1. UNCHANGED Cdcl!vars => UNCHANGED Search!vars
    BY DEF Search!vars, Cdcl!vars
  <2> QED
    BY <2>1, SameActions
<1>2. Spec => Cdcl!Init /\ [][Cdcl!Next]_(Cdcl!vars)
  BY KernelImplements DEF Implements, Cdcl!Spec
<1>3. Cdcl!Init => Search!Init
  BY SameActions
<1> QED
  BY <1>1, <1>2, <1>3, PTL DEF Search!Spec

(***************************************************************************)
(* A "sat" answer: the trail satisfies every clause added and every         *)
(* assumption of the query, scope selectors included.                      *)
(***************************************************************************)
SatAnswerRight == ~Querying /\ cached.result = "sat" =>
  /\ \A c \in inputs : Tautology(c) \/ \E l \in c : IsTrue(l)
  /\ \A l \in Range(Assumptions) : IsTrue(l)

\* An "unsat" answer: the failed assumptions are assumptions, and with the open
\* scopes' selectors they contradict the clauses added.
UnsatAnswerRight == ~Querying /\ cached.result = "unsat" =>
  failed \subseteq Range(user) /\ Refutes(inputs, failed \cup Range(hard))

\* Every clause in the arena, and a formula found inconsistent.
DatabaseRight == /\ \A r \in Stored : Entails(inputs, LitsOf(r))
                 /\ ~consistent => Refutes(inputs, {})

\* The arena holds no clause, original or learned, that the clauses added do not
\* entail, and consistent is cleared only when they have no model.
THEOREM StoredFollows == Spec => []DatabaseRight
<1>1. Search!Spec => []Search!DatabaseOK
  BY SearchInputs, VarAssumption, Search!DatabaseCorrect
<1>2. Inv /\ Search!DatabaseOK => DatabaseRight
  <2> SUFFICES ASSUME Inv, Search!DatabaseOK PROVE DatabaseRight
    OBVIOUS
  <2>1. \A F, c : /\ Search!Entails(F, c) <=> Entails(F, c)
                  /\ Search!Refutes(F, c) <=> Refutes(F, c)
    BY DEF Search!Entails, Entails, Search!Refutes, Refutes, Search!Satisfies, Satisfies,
           Search!Model, Model, Search!Lit, Lit
  <2>2. \A r \in Stored : LitsOf(r) \in Search!Clauses
    BY SeenClauses, SameWords DEF Inv
  <2> QED
    BY <2>1, <2>2 DEF Search!DatabaseOK, DatabaseRight
<1> QED
  BY <1>1, <1>2, Searches, KernelInvariance, PTL

\* A "sat" that solve_assuming returns or keeps comes with a satisfying trail.
THEOREM SatAnswersRight == Spec => []SatAnswerRight
<1>1. Search!Spec => []Search!SatIsRight
  BY SearchInputs, VarAssumption, Search!SatCorrect
<1>2. Inv /\ Search!SatIsRight => SatAnswerRight
  <2> SUFFICES ASSUME Inv, Search!SatIsRight, ~Querying, cached.result = "sat"
               PROVE  /\ \A c \in inputs : Tautology(c) \/ \E l \in c : IsTrue(l)
                      /\ \A l \in Range(Assumptions) : IsTrue(l)
    BY DEF SatAnswerRight
  <2>1. \A l : l \in Search!TrueLits <=> IsTrue(l)
    BY SeenTrail, SameWords DEF Inv
  <2>2. /\ \A c \in inputs : Search!Tautology(c) \/ c \cap Search!TrueLits # {}
        /\ Search!Elems(Search!query) \subseteq Search!TrueLits
    BY DEF Search!SatIsRight
  <2>3. ASSUME NEW c \in inputs PROVE Tautology(c) \/ \E l \in c : IsTrue(l)
    BY <2>1, <2>2, SameWords, SameLiterals
  <2>4. Search!Elems(Search!query) = Range(Assumptions)
    <3>1. Assumptions \in Seq(Lit) /\ Search!query = Assumptions
      BY DEF Inv, TypeOK, ControlType, Assumptions, Search!query
    <3> QED
      BY <3>1, SameElems, SameWords
  <2> QED
    BY <2>1, <2>2, <2>3, <2>4
<1> QED
  BY <1>1, <1>2, Searches, KernelInvariance, PTL

\* An "unsat" comes with failed assumptions that suffice for it.
THEOREM UnsatAnswersRight == Spec => []UnsatAnswerRight
<1>1. Search!Spec => []Search!UnsatIsRight
  BY SearchInputs, VarAssumption, Search!UnsatCorrect
<1>2. Inv /\ Search!UnsatIsRight => UnsatAnswerRight
  <2> SUFFICES ASSUME Inv, Search!UnsatIsRight, ~Querying, cached.result = "unsat"
               PROVE  failed \subseteq Range(user) /\ Refutes(inputs, failed \cup Range(hard))
    BY DEF UnsatAnswerRight
  <2>1. /\ failed \subseteq Search!Elems(user)
        /\ Search!Refutes(inputs, failed \cup Search!Elems(hard))
    BY DEF Search!UnsatIsRight
  <2>2. Search!Elems(user) = Range(user) /\ Search!Elems(hard) = Range(hard)
    <3>1. user \in Seq(Lit) /\ hard \in Seq(Lit)
      BY DEF Inv, TypeOK, ControlType
    <3> QED
      BY <3>1, SameElems, SameWords
  <2>3. \A F, c : Search!Refutes(F, c) <=> Refutes(F, c)
    BY DEF Search!Refutes, Refutes, Search!Satisfies, Satisfies, Search!Model, Model,
           Search!Lit, Lit
  <2> QED
    BY <2>1, <2>2, <2>3
<1> QED
  BY <1>1, <1>2, Searches, KernelInvariance, PTL

(***************************************************************************)
(* An answer taken from the cache is right for the query it is given to:   *)
(* the literals asked about now, whatever happened since it was found.     *)
(***************************************************************************)
CachedAnswerRight == SolveCached =>
  \E q : /\ q = selectors \o Head(program).assume
         /\ cached.result = "sat" => \A l \in Range(q) : IsTrue(l)
         /\ cached.result = "unsat" => Refutes(inputs, Range(q))

\* The cache check of solve_assuming_with_limits never returns a wrong answer.
THEOREM CachedAnswersRight == Spec => [][CachedAnswerRight]_vars
<1>1. Inv /\ SatAnswerRight /\ UnsatAnswerRight => CachedAnswerRight
  <2> SUFFICES ASSUME Inv, SatAnswerRight, UnsatAnswerRight, SolveCached
               PROVE  CachedAnswerRight
    BY DEF CachedAnswerRight
  <2>1. PICK q : q = selectors \o Head(program).assume
    OBVIOUS
  <2>2. phase = "idle" /\ cached.result # "none" /\ cached.assumptions = q
    BY <2>1 DEF SolveCached, Calls
  <2>3. q = Assumptions
    BY <2>2 DEF Inv, AnswerOK, CacheOK, Assumptions
  <2>4. ~Querying
    BY <2>2 DEF Querying
  <2>5. cached.result = "sat" => \A l \in Range(q) : IsTrue(l)
    BY <2>3, <2>4 DEF SatAnswerRight
  <2>6. cached.result = "unsat" => Refutes(inputs, Range(q))
    <3> SUFFICES ASSUME cached.result = "unsat" PROVE Refutes(inputs, Range(q))
      OBVIOUS
    <3>1. failed \subseteq Range(user) /\ Refutes(inputs, failed \cup Range(hard))
      BY <2>4 DEF UnsatAnswerRight
    <3>2. failed \cup Range(hard) \subseteq Range(q)
      <4>1. user \in Seq(Lit) /\ hard \in Seq(Lit)
        BY DEF Inv, TypeOK, ControlType
      <4>2. Range(hard) \subseteq Range(hard \o user) /\ Range(user) \subseteq Range(hard \o user)
        BY <4>1, RangeJoined
      <4> QED
        BY <2>3, <3>1, <4>2 DEF Assumptions
    <3> QED
      BY <3>1, <3>2 DEF Refutes
  <2> QED
    BY <2>1, <2>5, <2>6 DEF CachedAnswerRight
<1> QED
  BY <1>1, SatAnswersRight, UnsatAnswersRight, KernelInvariance, PTL

=============================================================================
