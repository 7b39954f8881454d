---------------------------- MODULE KernelProofs ----------------------------
(***************************************************************************)
(* The solver's data structures are sound between any two steps, for every *)
(* set of variables, every client program and every configuration: Inv of  *)
(* KernelInvariant.tla is inductive.  The two-watched-literal scheme is    *)
(* complete: propagation misses no conflict, and without chronological     *)
(* backtracking no implication; SchemeOK and DroppedOK are inductive,      *)
(* relative to Inv.                                                        *)
(***************************************************************************)
EXTENDS KernelLemmas

-----------------------------------------------------------------------------
(***************************************************************************)
(* The clauses and their watches.                                          *)
(***************************************************************************)

\* Reduction may delete a clause that is no reason.
Deletable(q) == Reduce /\ \A i \in Positions : trail[i].rsn # q

\* A stored clause keeps its literals, and stays stored while it is a reason.
ClausesKept ==
  /\ Refs \subseteq Refs'
  /\ \A q \in Refs : LitsOf(q)' = LitsOf(q) /\ clauses'[q].learned = clauses[q].learned
  /\ \A q \in Stored : q \in Stored' \/ Deletable(q)

DatabaseKept == DatabaseType' /\ RefsOK' /\ WatchedOK' /\ ClausesKept

SameWatches == \A q \in Refs : /\ LitsOf(q)' = LitsOf(q) /\ Watched(q)' = Watched(q)
                               /\ clauses'[q].learned = clauses[q].learned

\* The lists keep their clauses: nothing of what they promise is lost.
LEMMA ListsKept ==
  ASSUME Inv, clauses' \in Seq(ClauseRecord), Refs' = Refs, Stored' \subseteq Stored,
         SameWatches, watches' \in [Lit -> Seq(Watch)], ScanType',
         \A q \in Stored : q \in Stored' \/ Deletable(q),
         \A l \in Lit : ListOf(l)' = ListOf(l)
  PROVE  DatabaseKept
<1>1. DatabaseType'
  BY DEF DatabaseType, ScanType
<1>2. RefsOK'
  <2>1. \A l \in Lit : \A i \in 1 .. Len(ListOf(l)) : ListOf(l)[i].ref \in Refs
    BY DEF Inv, RefsOK
  <2> QED
    BY <2>1 DEF RefsOK
<1>3. WatchedOK'
  <2>1. \A r \in Stored, l \in Lit :
          IF l \in Watched(r) THEN Once(ListOf(l), r, LitsOf(r) \ {l}) ELSE Absent(ListOf(l), r)
    BY WatchedAlt DEF Inv
  <2>2. Stored \subseteq Refs
    BY DEF Stored, Refs
  <2>3. \A r \in Stored', l \in Lit :
          IF l \in Watched(r)' THEN Once(ListOf(l)', r, LitsOf(r)' \ {l}) ELSE Absent(ListOf(l)', r)
    BY <2>1, <2>2 DEF SameWatches
  <2> QED
    BY <2>3, WatchedAltNext
<1>4. ClausesKept
  BY DEF ClausesKept, SameWatches
<1> QED
  BY <1>1, <1>2, <1>3, <1>4 DEF DatabaseKept

\* The visited watch is put back.
LEMMA RetainKeeps ==
  ASSUME Inv, Visiting(FALSE), clauses' \in Seq(ClauseRecord), Refs' = Refs,
         Stored' = Stored, SameWatches,
         NEW b \in LitsOf(Visited.ref) \ {scan.lit},
         \/ Retain(b) /\ NextWatch
         \/ /\ watches' = [watches EXCEPT ![scan.lit] =
                  Append(@, [ref |-> Visited.ref, blocker |-> b]) \o Tail(scan.rest)]
            /\ scan' = NoScan
  PROVE  DatabaseKept
<1> DEFINE f == scan.lit
           x == [ref |-> Visited.ref, blocker |-> b]
<1>1. f \in Lit /\ Visited.ref \in Stored /\ Visited.ref \in Refs /\ b \in Lit
  BY VisitFacts, ClauseFields DEF Inv
<1>2. PICK g : g = f
  OBVIOUS
<1>3. /\ watches' \in [Lit -> Seq(Watch)] /\ ScanType'
      /\ \A l \in Lit \ {g} : ListOf(l)' = ListOf(l)
      /\ \E p : Rewritten(ListOf(g), ListOf(g)', p, x)
  <2> HIDE DEF f
  <2>1. scan # NoScan
    BY DEF Visiting
  <2> QED
    BY <1>1, <1>2, <2>1, RetainStep DEF f
<1>4. PICK p : Rewritten(ListOf(g), ListOf(g)', p, x)
  BY <1>3
<1> HIDE DEF x
<1>5. x.ref = Visited.ref /\ x.blocker = b
  BY DEF x
<1>6. DatabaseType'
  BY <1>3 DEF DatabaseType, ScanType
<1>7. RefsOK'
  <2>1. \A l \in Lit : \A i \in 1 .. Len(ListOf(l)) : ListOf(l)[i].ref \in Refs
    BY DEF Inv, RefsOK
  <2>2. \A i \in 1 .. Len(ListOf(g)') : ListOf(g)'[i].ref \in Refs
    BY <1>1, <1>2, <1>4, <2>1, RewrittenPlaces
  <2>3. \A l \in Lit : \A i \in 1 .. Len(ListOf(l)') : ListOf(l)'[i].ref \in Refs'
    BY <1>3, <2>1, <2>2
  <2> QED
    BY <2>3 DEF RefsOK
<1>8. WatchedOK'
  <2>1. \A r \in Stored, l \in Lit :
          IF l \in Watched(r) THEN Once(ListOf(l), r, LitsOf(r) \ {l}) ELSE Absent(ListOf(l), r)
    BY WatchedAlt DEF Inv
  <2>2. Stored \subseteq Refs
    BY DEF Stored, Refs
  <2>3. ASSUME NEW r \in Stored
        PROVE  IF g \in Watched(r) THEN Once(ListOf(g)', r, LitsOf(r) \ {g})
                                   ELSE Absent(ListOf(g)', r)
    BY <1>1, <1>2, <1>4, <1>5, <2>1, RewrittenPlaces
  <2>4. \A r \in Stored', l \in Lit :
          IF l \in Watched(r)' THEN Once(ListOf(l)', r, LitsOf(r)' \ {l}) ELSE Absent(ListOf(l)', r)
    <3> SUFFICES ASSUME NEW r \in Stored, NEW l \in Lit
                 PROVE  IF l \in Watched(r) THEN Once(ListOf(l)', r, LitsOf(r) \ {l})
                                            ELSE Absent(ListOf(l)', r)
      BY <2>2 DEF SameWatches
    <3>1. CASE l = g
      BY <2>3, <3>1
    <3>2. CASE l # g
      <4>1. ListOf(l)' = ListOf(l)
        BY <1>3, <3>2
      <4>2. IF l \in Watched(r) THEN Once(ListOf(l), r, LitsOf(r) \ {l}) ELSE Absent(ListOf(l), r)
        BY <2>1
      <4> QED
        BY <4>1, <4>2
    <3> QED
      BY <3>1, <3>2
  <2> QED
    BY <2>4, WatchedAltNext
<1>9. ClausesKept
  BY DEF ClausesKept, SameWatches
<1> QED
  BY <1>6, <1>7, <1>8, <1>9 DEF DatabaseKept

\* The visited watch moves to another literal of the clause.
LEMMA MoveKeeps ==
  ASSUME Inv, MoveWatch
  PROVE  DatabaseKept
<1>1. PICK f, q : f = scan.lit /\ q = Visited.ref
  OBVIOUS
<1>2. /\ Visiting(FALSE) /\ scan # NoScan /\ NextWatch
      /\ \E k \in 3 .. Len(Settled) :
           /\ Store([Settled EXCEPT ![2] = Settled[k], ![k] = scan.lit])
           /\ watches' = [watches EXCEPT ![Settled[k]] =
                            Append(@, [ref |-> Visited.ref, blocker |-> Other])]
  BY DEF MoveWatch, Examining, Visiting
<1>3. PICK k \in 3 .. Len(Settled) :
           /\ Store([Settled EXCEPT ![2] = Settled[k], ![k] = scan.lit])
           /\ watches' = [watches EXCEPT ![Settled[k]] =
                            Append(@, [ref |-> Visited.ref, blocker |-> Other])]
  BY <1>2
<1>4. PICK n, m, x, o : /\ n = Settled[k] /\ m = [Settled EXCEPT ![2] = Settled[k], ![k] = scan.lit]
                        /\ o = Other /\ x = [ref |-> q, blocker |-> o]
  OBVIOUS
<1>5. /\ m \in Disjunction /\ Range(m) = LitsOf(q) /\ m[1] = o /\ m[2] = n
      /\ n \in LitsOf(q) \ {f, o} /\ n \in Lit
  BY <1>1, <1>2, <1>4, MovedFacts
<1>6. /\ f \in Lit /\ q \in Stored /\ q \in Refs /\ o \in LitsOf(q) \ {f}
      /\ Watched(q) = {f, o} /\ o \in Lit
  BY <1>1, <1>2, <1>4, VisitFacts
<1>7. x \in Watch /\ x.ref = q /\ x.blocker = o
  BY <1>4, <1>6 DEF Watch, Refs
<1>8. clauses' = [clauses EXCEPT ![q].lits = m] /\ watches' = [watches EXCEPT ![n] = Append(@, x)]
  BY <1>1, <1>3, <1>4 DEF Store
<1>9. /\ clauses' \in Seq(ClauseRecord) /\ Refs' = Refs /\ Stored' = Stored
      /\ Watched(q)' = {n, o}
      /\ \A r \in Refs : LitsOf(r)' = LitsOf(r) /\ clauses'[r].learned = clauses[r].learned
      /\ \A r \in Refs \ {q} : Watched(r)' = Watched(r)
  <2>1. TypeOK
    BY DEF Inv
  <2>2. Watched(q)' = {m[1], m[2]}
    BY <1>5, <1>6, <1>8, <2>1, StoreFacts
  <2> QED
    BY <1>5, <1>6, <1>8, <2>1, <2>2, StoreFacts
<1>10. /\ watches' \in [Lit -> Seq(Watch)] /\ ScanType'
       /\ \A l \in Lit \ {f, n} : ListOf(l)' = ListOf(l)
       /\ \E p : Removed(ListOf(f), ListOf(f)', p) /\ ListOf(f)[p] = Visited
       /\ Extended(ListOf(n), ListOf(n)', x)
  <2>1. /\ scan # NoScan /\ NextWatch /\ f = scan.lit /\ n # f /\ n \in Lit /\ x \in Watch
        /\ watches' = [watches EXCEPT ![n] = Append(@, x)]
    BY <1>1, <1>2, <1>5, <1>7, <1>8
  <2> QED
    BY ONLY <2>1, Inv, MoveStep
<1>11. PICK p : Removed(ListOf(f), ListOf(f)', p) /\ ListOf(f)[p].ref = q
  BY <1>1, <1>10
<1>12. DatabaseType'
  BY <1>9, <1>10 DEF DatabaseType, ScanType
<1>13. \A l \in Lit : \A i \in 1 .. Len(ListOf(l)) : ListOf(l)[i].ref \in Refs
  BY DEF Inv, RefsOK
<1>14. RefsOK'
  <2>1. \A i \in 1 .. Len(ListOf(f)') : ListOf(f)'[i].ref \in Refs
    BY <1>6, <1>11, <1>13, RemovedPlaces
  <2>2. \A i \in 1 .. Len(ListOf(n)') : ListOf(n)'[i].ref \in Refs
    BY <1>5, <1>6, <1>7, <1>10, <1>13, ExtendedPlaces
  <2>3. \A l \in Lit : \A i \in 1 .. Len(ListOf(l)') : ListOf(l)'[i].ref \in Refs'
    BY <1>9, <1>10, <1>13, <2>1, <2>2
  <2> QED
    BY <2>3 DEF RefsOK
<1>15. WatchedOK'
  <2>1. \A r \in Stored, l \in Lit :
          IF l \in Watched(r) THEN Once(ListOf(l), r, LitsOf(r) \ {l}) ELSE Absent(ListOf(l), r)
    BY WatchedAlt DEF Inv
  <2>2. Stored \subseteq Refs
    BY DEF Stored, Refs
  <2>3. ASSUME NEW r \in Stored, NEW l \in Lit
        PROVE  IF l \in Watched(r)' THEN Once(ListOf(l)', r, LitsOf(r) \ {l})
                                     ELSE Absent(ListOf(l)', r)
    <3>1. IF l \in Watched(r) THEN Once(ListOf(l), r, LitsOf(r) \ {l}) ELSE Absent(ListOf(l), r)
      BY <2>1
    <3>2. CASE r # q
      <4>1. Watched(r)' = Watched(r)
        BY <1>9, <2>2, <3>2
      <4>2. CASE l = f
        BY <1>11, <3>1, <3>2, <4>1, <4>2, RemovedPlaces
      <4>3. CASE l = n
        BY <1>7, <1>10, <3>1, <3>2, <4>1, <4>3, ExtendedPlaces
      <4>4. CASE l \notin {f, n}
        BY <1>10, <3>1, <4>1, <4>4
      <4> QED
        BY <4>2, <4>3, <4>4
    <3>3. CASE r = q
      <4>1. CASE l = f
        <5>1. Once(ListOf(f), q, LitsOf(q) \ {f})
          BY <1>6, <3>1, <3>3, <4>1
        <5>2. Absent(ListOf(f)', q)
          BY <1>11, <5>1, RemovedPlaces
        <5> QED
          BY <1>5, <1>6, <1>9, <3>3, <4>1, <5>2
      <4>2. CASE l = n
        <5>1. Absent(ListOf(n), q)
          BY <1>5, <1>6, <3>1, <3>3, <4>2
        <5>2. x.blocker \in LitsOf(q) \ {n}
          BY <1>5, <1>6, <1>7
        <5>3. Once(ListOf(n)', q, LitsOf(q) \ {n})
          BY <1>7, <1>10, <5>1, <5>2, ExtendedPlaces
        <5> QED
          BY <1>9, <3>3, <4>2, <5>3
      <4>3. CASE l \notin {f, n}
        <5>1. ListOf(l)' = ListOf(l)
          BY <1>10, <4>3
        <5> QED
          BY <1>5, <1>6, <1>9, <3>1, <3>3, <4>3, <5>1
      <4> QED
        BY <4>1, <4>2, <4>3
    <3> QED
      BY <3>2, <3>3
  <2>4. \A r \in Stored', l \in Lit :
          IF l \in Watched(r)' THEN Once(ListOf(l)', r, LitsOf(r)' \ {l}) ELSE Absent(ListOf(l)', r)
    BY <1>9, <2>2, <2>3
  <2> QED
    BY <2>4, WatchedAltNext
<1>16. ClausesKept
  BY <1>9 DEF ClausesKept
<1> QED
  BY <1>12, <1>14, <1>15, <1>16 DEF DatabaseKept

\* The watch of a deleted clause is dropped.
LEMMA DropKeeps ==
  ASSUME Inv, DropWatch
  PROVE  DatabaseKept
<1>1. PICK f, q : f = scan.lit /\ q = Visited.ref
  OBVIOUS
<1>2. scan # NoScan /\ NextWatch /\ clauses' = clauses /\ watches' = watches
      /\ clauses[q].deleted
  BY <1>1 DEF DropWatch, Visiting, database
<1>3. /\ watches' \in [Lit -> Seq(Watch)] /\ ScanType'
      /\ \A l \in Lit \ {f} : ListOf(l)' = ListOf(l)
      /\ \E p : Removed(ListOf(f), ListOf(f)', p) /\ ListOf(f)[p] = Visited
  BY ONLY <1>1, <1>2, Inv, DropStep
<1>4. PICK p : Removed(ListOf(f), ListOf(f)', p) /\ ListOf(f)[p].ref = q
  BY <1>1, <1>3
<1>5. f \in Lit /\ q \in Refs
  BY <1>1, <1>2, ScanFacts
<1>6. DatabaseType'
  <2>1. clauses \in Seq(ClauseRecord)
    BY DEF Inv, TypeOK, DatabaseType
  <2> QED
    BY <1>2, <1>3, <2>1 DEF DatabaseType, ScanType
<1>7. /\ Refs' = Refs /\ Stored' = Stored /\ SameWatches
  BY <1>2 DEF Refs, Stored, SameWatches, LitsOf, Watched
<1>8. RefsOK'
  <2>1. \A l \in Lit : \A i \in 1 .. Len(ListOf(l)) : ListOf(l)[i].ref \in Refs
    BY DEF Inv, RefsOK
  <2>2. \A i \in 1 .. Len(ListOf(f)') : ListOf(f)'[i].ref \in Refs
    BY <1>5, <1>4, <2>1, RemovedPlaces
  <2>3. \A l \in Lit : \A i \in 1 .. Len(ListOf(l)') : ListOf(l)'[i].ref \in Refs'
    BY <1>3, <1>7, <2>1, <2>2
  <2> QED
    BY <2>3 DEF RefsOK
<1>9. WatchedOK'
  <2>1. \A r \in Stored, l \in Lit :
          IF l \in Watched(r) THEN Once(ListOf(l), r, LitsOf(r) \ {l}) ELSE Absent(ListOf(l), r)
    BY WatchedAlt DEF Inv
  <2>2. Stored \subseteq Refs /\ q \notin Stored
    BY <1>2 DEF Stored, Refs
  <2>3. ASSUME NEW r \in Stored, NEW l \in Lit
        PROVE  IF l \in Watched(r)' THEN Once(ListOf(l)', r, LitsOf(r)' \ {l})
                                     ELSE Absent(ListOf(l)', r)
    <3>1. IF l \in Watched(r) THEN Once(ListOf(l), r, LitsOf(r) \ {l}) ELSE Absent(ListOf(l), r)
      BY <2>1
    <3>2. Watched(r)' = Watched(r) /\ LitsOf(r)' = LitsOf(r) /\ r # q
      BY <1>7, <2>2 DEF SameWatches
    <3>3. CASE l = f
      BY <1>4, <3>1, <3>2, <3>3, RemovedPlaces
    <3>4. CASE l # f
      BY <1>3, <3>1, <3>2, <3>4
    <3> QED
      BY <3>3, <3>4
  <2> QED
    BY <1>7, <2>3, WatchedAltNext
<1>10. ClausesKept
  BY <1>7 DEF ClausesKept, SameWatches
<1> QED
  BY <1>6, <1>8, <1>9, <1>10 DEF DatabaseKept

\* A new clause is watched by its first two literals.
LEMMA AllocateKeeps ==
  ASSUME Inv, scan = NoScan, scan' = NoScan, NEW s \in Disjunction, NEW b \in BOOLEAN,
         Allocate(s, b)
  PROVE  /\ DatabaseKept /\ Len(clauses) + 1 \in Stored' /\ Len(clauses) + 1 \in Nat \ {0}
         /\ \A n : n = Len(clauses) + 1 => LitsOf(n)' = Range(s)
<1>1. PICK n : n = Len(clauses) + 1
  OBVIOUS
<1>2. PICK d : d = [lits |-> s, learned |-> b, deleted |-> FALSE]
  OBVIOUS
<1>3. d \in ClauseRecord /\ ~d.deleted /\ d.lits = s
  BY <1>2 DEF ClauseRecord
<1>4. /\ clauses' \in Seq(ClauseRecord) /\ n \in Nat \ {0} /\ n \notin Refs
      /\ Refs' = Refs \cup {n} /\ Stored' = Stored \cup {n}
      /\ LitsOf(n)' = Range(s) /\ Watched(n)' = {s[1], s[2]}
      /\ \A q \in Refs : /\ LitsOf(q)' = LitsOf(q) /\ Watched(q)' = Watched(q)
                         /\ clauses'[q].learned = clauses[q].learned
  <2>1. TypeOK /\ clauses' = Append(clauses, d)
    BY <1>2 DEF Inv, Allocate
  <2>2. /\ clauses' \in Seq(ClauseRecord) /\ n \in Nat \ {0} /\ n \notin Refs
        /\ Refs' = Refs \cup {n} /\ Stored' = Stored \cup {n}
        /\ LitsOf(n)' = Range(d.lits) /\ Watched(n)' = {d.lits[1], d.lits[2]}
        /\ \A q \in Refs : /\ LitsOf(q)' = LitsOf(q) /\ Watched(q)' = Watched(q)
                           /\ clauses'[q].learned = clauses[q].learned
    BY ONLY <2>1, <1>1, <1>3, AllocateFacts
  <2> QED
    BY <1>3, <2>2
<1>5. PICK v, w, x, y : /\ v = s[1] /\ w = s[2]
                        /\ x = [ref |-> n, blocker |-> w] /\ y = [ref |-> n, blocker |-> v]
  OBVIOUS
<1>6. v \in Lit /\ w \in Lit /\ v # w /\ {v, w} \subseteq Range(s)
  <2>1. s \in Seq(Lit) /\ Len(s) > 1 /\ IsInjective(s) /\ DOMAIN s = 1 .. Len(s) /\ Len(s) \in Nat
    BY DEF Disjunction
  <2>2. 1 \in DOMAIN s /\ 2 \in DOMAIN s
    BY <2>1
  <2>3. s[1] # s[2]
    BY <2>1, <2>2 DEF IsInjective
  <2>4. s[1] \in Lit /\ s[2] \in Lit
    BY <2>1, <2>2
  <2> QED
    BY <1>5, <2>2, <2>3, <2>4 DEF Range
<1>7. /\ watches' \in [Lit -> Seq(Watch)] /\ ScanType'
      /\ \A l \in Lit \ {v, w} : ListOf(l)' = ListOf(l)
      /\ Extended(ListOf(v), ListOf(v)', x) /\ Extended(ListOf(w), ListOf(w)', y)
  <2>1. watches' = [watches EXCEPT ![v] = Append(@, x), ![w] = Append(@, y)]
    BY <1>1, <1>5 DEF Allocate, Attach
  <2>2. x \in Watch /\ y \in Watch /\ v \in Lit /\ w \in Lit /\ v # w
    BY <1>4, <1>5, <1>6 DEF Watch
  <2>3. Inv /\ scan = NoScan /\ scan' = NoScan
    OBVIOUS
  <2> QED
    BY ONLY <2>1, <2>2, <2>3, AttachStep
<1>8. x.ref = n /\ y.ref = n /\ x.blocker = w /\ y.blocker = v
  BY <1>5
<1>9. DatabaseType'
  BY <1>4, <1>7 DEF DatabaseType, ScanType
<1>10. \A l \in Lit : \A i \in 1 .. Len(ListOf(l)) : ListOf(l)[i].ref \in Refs
  BY DEF Inv, RefsOK
<1>11. RefsOK'
  <2>1. \A l \in Lit : \A i \in 1 .. Len(ListOf(l)) : ListOf(l)[i].ref \in Refs'
    BY <1>4, <1>10
  <2> DEFINE R == Refs'
  <2>2. n \in R
    BY <1>4
  <2> HIDE DEF R
  <2>3. \A i \in 1 .. Len(ListOf(v)') : ListOf(v)'[i].ref \in R
    <3>1. \A i \in 1 .. Len(ListOf(v)) : ListOf(v)[i].ref \in R
      BY <1>6, <2>1 DEF R
    <3>2. Extended(ListOf(v), ListOf(v)', x) /\ x.ref \in R
      BY <1>7, <1>8, <2>2
    <3> QED
      BY <3>1, <3>2 DEF Extended
  <2>5. \A i \in 1 .. Len(ListOf(w)') : ListOf(w)'[i].ref \in R
    <3>1. \A i \in 1 .. Len(ListOf(w)) : ListOf(w)[i].ref \in R
      BY <1>6, <2>1 DEF R
    <3>2. Extended(ListOf(w), ListOf(w)', y) /\ y.ref \in R
      BY <1>7, <1>8, <2>2
    <3> QED
      BY <3>1, <3>2 DEF Extended
  <2>4. \A l \in Lit : \A i \in 1 .. Len(ListOf(l)') : ListOf(l)'[i].ref \in Refs'
    BY <1>7, <2>1, <2>3, <2>5 DEF R
  <2> QED
    BY <2>4 DEF RefsOK
<1>12. \A l \in Lit : Absent(ListOf(l), n)
  BY <1>4, <1>10 DEF Absent
<1>13. WatchedOK'
  <2>1. \A r \in Stored, l \in Lit :
          IF l \in Watched(r) THEN Once(ListOf(l), r, LitsOf(r) \ {l}) ELSE Absent(ListOf(l), r)
    BY WatchedAlt DEF Inv
  <2>2. Stored \subseteq Refs
    BY DEF Stored, Refs
  <2>3. ASSUME NEW r \in Stored, NEW l \in Lit
        PROVE  IF l \in Watched(r)' THEN Once(ListOf(l)', r, LitsOf(r)' \ {l})
                                     ELSE Absent(ListOf(l)', r)
    <3>1. IF l \in Watched(r) THEN Once(ListOf(l), r, LitsOf(r) \ {l}) ELSE Absent(ListOf(l), r)
      BY <2>1
    <3>2. Watched(r)' = Watched(r) /\ LitsOf(r)' = LitsOf(r) /\ r # n
      BY <1>4, <2>2
    <3>3. CASE l = v
      <4>1. Extended(ListOf(l), ListOf(l)', x) /\ x.ref # r
        BY <1>7, <1>8, <3>2, <3>3
      <4> QED
        BY <3>1, <3>2, <4>1, ExtendedPlaces
    <3>4. CASE l = w
      <4>1. Extended(ListOf(l), ListOf(l)', y) /\ y.ref # r
        BY <1>7, <1>8, <3>2, <3>4
      <4> QED
        BY <3>1, <3>2, <4>1, ExtendedPlaces
    <3>5. CASE l \notin {v, w}
      BY <1>7, <3>1, <3>2, <3>5
    <3> QED
      BY <3>3, <3>4, <3>5
  <2>4. ASSUME NEW l \in Lit
        PROVE  IF l \in Watched(n)' THEN Once(ListOf(l)', n, LitsOf(n)' \ {l})
                                     ELSE Absent(ListOf(l)', n)
    <3>1. Watched(n)' = {v, w} /\ LitsOf(n)' = Range(s)
      BY <1>4, <1>5
    <3>2. CASE l = v
      <4>1. Once(ListOf(v)', n, Range(s) \ {v})
        BY <1>6, <1>7, <1>8, <1>12, ExtendedPlaces
      <4> QED
        BY <3>1, <3>2, <4>1
    <3>3. CASE l = w
      <4>1. Once(ListOf(w)', n, Range(s) \ {w})
        BY <1>6, <1>7, <1>8, <1>12, ExtendedPlaces
      <4> QED
        BY <3>1, <3>3, <4>1
    <3>4. CASE l \notin {v, w}
      BY <1>7, <1>12, <3>1, <3>4
    <3> QED
      BY <3>2, <3>3, <3>4
  <2> QED
    BY <1>4, <2>3, <2>4, WatchedAltNext
<1>14. ClausesKept
  BY <1>4 DEF ClausesKept
<1> QED
  BY <1>1, <1>4, <1>9, <1>11, <1>13, <1>14 DEF DatabaseKept

\* A visit that keeps its watch, whatever it stores.
LEMMA VisitKeeps ==
  ASSUME Inv, Visiting(FALSE), NEW b \in LitsOf(Visited.ref) \ {scan.lit},
         clauses' = clauses \/ Store(Settled),
         \/ Retain(b) /\ NextWatch
         \/ /\ watches' = [watches EXCEPT ![scan.lit] =
                  Append(@, [ref |-> Visited.ref, blocker |-> b]) \o Tail(scan.rest)]
            /\ scan' = NoScan
  PROVE  DatabaseKept
<1>1. /\ clauses' \in Seq(ClauseRecord) /\ Refs' = Refs /\ Stored' = Stored /\ SameWatches
  <2>1. CASE clauses' = clauses
    BY <2>1 DEF Inv, TypeOK, DatabaseType, Refs, Stored, SameWatches, LitsOf, Watched
  <2>2. CASE Store(Settled)
    <3>1. PICK q, s, f, o : q = Visited.ref /\ s = Settled /\ f = scan.lit /\ o = Other
      OBVIOUS
    <3>2. /\ clauses' = [clauses EXCEPT ![q].lits = s] /\ q \in Refs /\ s \in Disjunction
          /\ Range(s) = LitsOf(q) /\ TypeOK
      BY <2>2, <3>1, VisitFacts DEF Store, Inv
    <3>3. Watched(q) = {f, o} /\ {s[1], s[2]} = {f, o}
      BY <3>1, VisitFacts
    <3>4. /\ clauses' \in Seq(ClauseRecord) /\ Refs' = Refs /\ Stored' = Stored
          /\ Watched(q)' = {s[1], s[2]}
          /\ \A r \in Refs : /\ LitsOf(r)' = LitsOf(r)
                             /\ clauses'[r].learned = clauses[r].learned
          /\ \A r \in Refs \ {q} : Watched(r)' = Watched(r)
      BY ONLY <3>2, StoreFacts
    <3> QED
      BY <3>3, <3>4 DEF SameWatches
  <2> QED
    BY <2>1, <2>2
<1> QED
  BY <1>1, RetainKeeps

\* What Learn allocates.
LEMMA LearnAllocates ==
  ASSUME Inv, Learn
  PROVE  /\ DatabaseKept /\ scan = NoScan /\ scan' = NoScan
         /\ \E c, u, s :
              /\ c = Minimized(FirstUip) /\ c \subseteq Blamed /\ Current(c) = {u}
              /\ s \in SetToSeqs(c) /\ s[1] = u
              /\ limits' = KeptLimits(BacktrackLevel(c))
              /\ head' = Min({head, Len(Kept(BacktrackLevel(c)))})
              /\ \/ /\ c = {u}
                    /\ trail' = Append(Kept(BacktrackLevel(c)),
                                      [lit |-> u, lev |-> BacktrackLevel(c), rsn |-> 0])
                    /\ UNCHANGED database
                 \/ \E n : /\ n = Len(clauses) + 1 /\ n \in Nat \ {0} /\ n \in Stored'
                          /\ LitsOf(n)' = c /\ s \in Disjunction
                          /\ LevelOf(s[2]) = JumpLevel(c) /\ Allocate(s, TRUE)
                          /\ trail' = Append(Kept(BacktrackLevel(c)),
                                      [lit |-> u, lev |-> BacktrackLevel(c), rsn |-> n])
<1>1. PICK c, k : c = Minimized(FirstUip) /\ k = BacktrackLevel(c)
  OBVIOUS
<1>2. /\ conflict # 0 /\ Level > 0 /\ scan' = scan
      /\ limits' = KeptLimits(k) /\ head' = Min({head, Len(Kept(k))})
      /\ \E s \in SetToSeqs(c) :
             /\ s[1] \in Current(c)
             /\ IF Len(s) = 1
                THEN /\ trail' = Append(Kept(k), [lit |-> s[1], lev |-> k, rsn |-> 0])
                     /\ UNCHANGED database
                ELSE /\ LevelOf(s[2]) = JumpLevel(c)
                     /\ trail' = Append(Kept(k),
                                   [lit |-> s[1], lev |-> k, rsn |-> Len(clauses) + 1])
                     /\ Allocate(s, TRUE)
  BY <1>1 DEF Learn
<1>3. PICK s \in SetToSeqs(c) :
             /\ s[1] \in Current(c)
             /\ IF Len(s) = 1
                THEN /\ trail' = Append(Kept(k), [lit |-> s[1], lev |-> k, rsn |-> 0])
                     /\ UNCHANGED database
                ELSE /\ LevelOf(s[2]) = JumpLevel(c)
                     /\ trail' = Append(Kept(k),
                                   [lit |-> s[1], lev |-> k, rsn |-> Len(clauses) + 1])
                     /\ Allocate(s, TRUE)
  BY <1>2
<1>4. scan = NoScan
  BY <1>2 DEF Inv, ScanOK
<1>5. PICK u : c \subseteq Blamed /\ Current(c) = {u}
  <2>1. TypeOK /\ TrailOK /\ ReasonsOK /\ ConflictOK
    BY DEF Inv
  <2>2. FirstUip \subseteq Blamed /\ \E u : Current(FirstUip) = {u}
    BY <1>2, <2>1, UipFacts
  <2> QED
    BY <1>1, <2>2, MinimizedFacts
<1>6. s[1] = u /\ c \subseteq Lit /\ u \in c
  BY <1>3, <1>5 DEF Blamed, Current
<1>7. /\ s \in Seq(Lit) /\ Len(s) \in Nat /\ Len(s) = Cardinality(c) /\ Range(s) = c
      /\ \A i, j \in 1 .. Len(s) : s[i] = s[j] => i = j
      /\ \A l \in c : \E i \in 1 .. Len(s) : s[i] = l
  BY <1>6, ListsSet
<1>8. CASE Len(s) = 1
  <2>1. c = {u}
    <3>1. \A l \in c : l = s[1]
      BY <1>7, <1>8
    <3> QED
      BY <1>6, <3>1
  <2>2. DatabaseKept
    <3>1. clauses' = clauses /\ watches' = watches /\ scan' = scan
      BY <1>2, <1>3, <1>8 DEF database
    <3>2. \A l \in Lit : ListOf(l)' = ListOf(l)
      BY <3>1 DEF ListOf
    <3>3. /\ clauses' \in Seq(ClauseRecord) /\ Refs' = Refs /\ Stored' = Stored /\ SameWatches
          /\ watches' \in [Lit -> Seq(Watch)]
      BY <3>1 DEF Inv, TypeOK, DatabaseType, Refs, Stored, SameWatches, LitsOf, Watched
    <3>4. ScanType'
      BY <1>2, <1>4 DEF ScanType
    <3> QED
      BY <3>2, <3>3, <3>4, ListsKept
  <2>3. /\ trail' = Append(Kept(k), [lit |-> u, lev |-> k, rsn |-> 0]) /\ UNCHANGED database
    BY <1>3, <1>6, <1>8
  <2> QED
    BY <1>1, <1>2, <1>4, <1>5, <1>6, <2>1, <2>2, <2>3
<1>9. CASE Len(s) # 1
  <2>1. /\ LevelOf(s[2]) = JumpLevel(c) /\ Allocate(s, TRUE)
        /\ trail' = Append(Kept(k), [lit |-> u, lev |-> k, rsn |-> Len(clauses) + 1])
    BY <1>3, <1>6, <1>9
  <2>2. s \in Disjunction
    <3>1. Len(s) > 1
      BY <1>6, <1>7, <1>9
    <3> QED
      BY <1>7, <3>1 DEF Disjunction, IsInjective
  <2>3. /\ DatabaseKept /\ Len(clauses) + 1 \in Stored' /\ Len(clauses) + 1 \in Nat \ {0}
        /\ \A n : n = Len(clauses) + 1 => LitsOf(n)' = Range(s)
    BY <1>2, <1>4, <2>1, <2>2, AllocateKeeps
  <2>4. PICK n : n = Len(clauses) + 1
    OBVIOUS
  <2>5. /\ n \in Nat \ {0} /\ n \in Stored' /\ LitsOf(n)' = c
        /\ trail' = Append(Kept(k), [lit |-> u, lev |-> k, rsn |-> n])
    BY <1>7, <2>1, <2>3, <2>4
  <2> QED
    BY <1>1, <1>2, <1>4, <1>5, <1>6, <2>1, <2>2, <2>3, <2>4, <2>5
<1> QED
  BY <1>8, <1>9

\* What AddStored allocates.
LEMMA AddAllocates ==
  ASSUME Inv, AddStored
  PROVE  /\ DatabaseKept /\ scan = NoScan /\ scan' = NoScan
         /\ \E s, n :
              /\ s \in SetToSeqs(pending) /\ s \in Disjunction /\ Allocate(s, FALSE)
              /\ n = Len(clauses) + 1 /\ n \in Nat \ {0} /\ n \in Stored' /\ LitsOf(n)' = pending
              /\ IF started
                 THEN /\ \A l \in pending : ~IsTrue(l)
                      /\ Free(s[1])
                      /\ \A i \in 2 .. Len(s) : Free(s[i]) => Free(s[i - 1])
                      /\ trail' = IF Free(s[2]) THEN trail ELSE Enqueue(s[1], n)
                 ELSE trail' = trail
<1>1. PICK s \in SetToSeqs(pending) :
        /\ Allocate(s, FALSE)
        /\ IF started
           THEN /\ \A l \in pending : ~IsTrue(l)
                /\ Free(s[1])
                /\ \A i \in 2 .. Len(s) : Free(s[i]) => Free(s[i - 1])
                /\ trail' = IF Free(s[2]) THEN trail ELSE Enqueue(s[1], Len(clauses) + 1)
           ELSE trail' = trail
  BY DEF AddStored
<1>2. /\ phase = "install" /\ scan' = scan /\ Cardinality(pending) > 1
  BY DEF AddStored, Installing
<1>3. scan = NoScan
  BY <1>2 DEF Inv, ScanOK, AtHead
<1>4. pending \subseteq Lit
  BY DEF Inv, TypeOK, ControlType
<1>5. /\ s \in Seq(Lit) /\ Len(s) \in Nat /\ Len(s) > 1 /\ Range(s) = pending
      /\ \A i, j \in 1 .. Len(s) : s[i] = s[j] => i = j
  BY <1>2, <1>4, ListsSet
<1>6. s \in Disjunction
  BY <1>5 DEF Disjunction, IsInjective
<1>7. /\ DatabaseKept /\ Len(clauses) + 1 \in Stored' /\ Len(clauses) + 1 \in Nat \ {0}
      /\ \A n : n = Len(clauses) + 1 => LitsOf(n)' = Range(s)
  BY <1>1, <1>2, <1>3, <1>6, AllocateKeeps
<1>8. PICK n : n = Len(clauses) + 1
  OBVIOUS
<1>9. n \in Nat \ {0} /\ n \in Stored' /\ LitsOf(n)' = pending
  BY <1>5, <1>7, <1>8
<1> QED
  BY <1>1, <1>2, <1>3, <1>6, <1>7, <1>8, <1>9

\* Every step keeps the database in order.
LEMMA DatabaseStep ==
  ASSUME Inv, [Next]_vars
  PROVE  DatabaseKept
<1>1. CASE UNCHANGED <<clauses, watches, scan>>
  <2>1. \A l \in Lit : ListOf(l)' = ListOf(l)
    BY <1>1 DEF ListOf
  <2>2. /\ clauses' \in Seq(ClauseRecord) /\ Refs' = Refs /\ Stored' = Stored /\ SameWatches
        /\ watches' \in [Lit -> Seq(Watch)] /\ ScanType'
    BY <1>1 DEF Inv, TypeOK, DatabaseType, Refs, Stored, SameWatches, LitsOf, Watched, ScanType
  <2> QED
    BY <2>1, <2>2, ListsKept
<1>2. CASE Dequeue
  <2>1. clauses' = clauses
    BY <1>2 DEF Dequeue
  <2>2. /\ clauses' \in Seq(ClauseRecord) /\ Refs' = Refs /\ Stored' = Stored /\ SameWatches
    BY <2>1 DEF Inv, TypeOK, DatabaseType, Refs, Stored, SameWatches, LitsOf, Watched
  <2> QED
    BY <1>2, <2>2, DequeueStep, ListsKept
<1>3. CASE DropWatch
  BY <1>3, DropKeeps
<1>4. CASE SkipWatch
  <2>1. /\ Visiting(FALSE) /\ clauses' = clauses /\ Retain(Visited.blocker) /\ NextWatch
    BY <1>4 DEF SkipWatch
  <2>2. Visited.blocker \in LitsOf(Visited.ref) \ {scan.lit}
    BY <2>1, VisitFacts
  <2> QED
    BY <2>1, <2>2, VisitKeeps
<1>5. CASE KeepWatch \/ Imply \/ Conflict
  <2>1. /\ Visiting(FALSE) /\ Store(Settled)
        /\ \/ Retain(Other) /\ NextWatch
           \/ /\ watches' = [watches EXCEPT ![scan.lit] =
                  Append(@, [ref |-> Visited.ref, blocker |-> Other]) \o Tail(scan.rest)]
              /\ scan' = NoScan
    BY <1>5 DEF KeepWatch, Imply, Conflict, Examining
  <2>2. Other \in LitsOf(Visited.ref) \ {scan.lit}
    BY <2>1, VisitFacts
  <2> QED
    BY <2>1, <2>2, VisitKeeps
<1>6. CASE MoveWatch
  BY <1>6, MoveKeeps
<1>7. CASE Learn
  BY <1>7, LearnAllocates
<1>8. CASE Reduce
  <2>1. /\ watches' = watches /\ scan' = scan
    BY <1>8 DEF Reduce
  <2>2. \A l \in Lit : ListOf(l)' = ListOf(l)
    BY <2>1 DEF ListOf
  <2>3. /\ clauses' \in Seq(ClauseRecord) /\ Refs' = Refs /\ Stored' \subseteq Stored
        /\ \A q \in Refs : /\ LitsOf(q)' = LitsOf(q) /\ Watched(q)' = Watched(q)
                           /\ clauses'[q].learned = clauses[q].learned
        /\ \A q \in Stored, i \in Positions : trail[i].rsn = q => q \in Stored'
    BY <1>8, ReduceFacts DEF Inv
  <2>4. /\ SameWatches /\ \A q \in Stored : q \in Stored' \/ Deletable(q)
    BY <1>8, <2>3 DEF SameWatches, Deletable
  <2>5. watches' \in [Lit -> Seq(Watch)] /\ ScanType'
    BY <2>1 DEF Inv, TypeOK, DatabaseType, ScanType
  <2> QED
    BY <2>2, <2>3, <2>4, <2>5, ListsKept
<1>9. CASE AddStored
  BY <1>9, AddAllocates
<1> QED
  BY <1>1, <1>2, <1>3, <1>4, <1>5, <1>6, <1>7, <1>8, <1>9, DatabaseFrame

-----------------------------------------------------------------------------
(***************************************************************************)
(* The trail: every step backtracks, asserts a literal after backtracking, *)
(* opens a level, or takes a literal from the queue.                       *)
(***************************************************************************)
ReasonAt(i) == IF trail[i].rsn = 0 THEN trail[i].lev > 0 => i = limits[trail[i].lev] + 1
               ELSE Explained(i)

TrailKept == TrailType' /\ TrailOK' /\ ReasonsOK'

\* After backtracking to level k, l is asserted with the reason r.
Asserts(l, k, r) ==
  /\ trail' = Append(Kept(k), [lit |-> l, lev |-> k, rsn |-> r])
  /\ limits' = KeptLimits(k) /\ head' = Min({head, Len(Kept(k))})

Justified(l, k, r) ==
  /\ \A i \in 1 .. Len(Kept(k)) : VarOf(trail[i].lit) # VarOf(l)
  /\ IF r = 0 THEN k = 0
     ELSE /\ r \in Stored' /\ l \in LitsOf(r)'
          /\ \A m \in LitsOf(r)' \ {l} : \E h \in 1 .. Len(Kept(k)) : trail[h].lit = Neg(m)

\* A level is opened, with or without a decision.
Opens ==
  /\ head = Len(trail) /\ head' = head /\ limits' = Append(limits, Len(trail))
  /\ \/ trail' = trail
     \/ \E l \in Lit : /\ Free(l)
                      /\ trail' = Append(trail, [lit |-> l, lev |-> Level + 1, rsn |-> 0])

\* An assignment that stays keeps its reason.
LEMMA ReasonKept ==
  ASSUME Inv, ClausesKept, NEW i \in Positions, i \in Positions',
         \A j \in 1 .. i : trail'[j] = trail[j],
         trail[i].lev > 0 => limits'[trail[i].lev] = limits[trail[i].lev]
  PROVE  ReasonAt(i)'
<1>1. i \in 1 .. i /\ i \in Nat /\ trail'[i] = trail[i] /\ ReasonAt(i)
  BY EntryFields DEF Inv, ReasonsOK, ReasonAt
<1>2. CASE trail[i].rsn = 0
  BY <1>1, <1>2 DEF ReasonAt
<1>3. CASE trail[i].rsn # 0
  <2>1. PICK q : q = trail[i].rsn
    OBVIOUS
  <2>2. /\ q \in Stored /\ trail[i].lit \in LitsOf(q)
        /\ \A l \in LitsOf(q) \ {trail[i].lit} : \E h \in 1 .. i - 1 : FalseAt(l, h)
    BY <1>1, <1>3, <2>1 DEF ReasonAt, Explained
  <2>3. q \in Refs
    BY <2>2 DEF Stored, Refs
  <2>4. q \in Stored' /\ LitsOf(q)' = LitsOf(q)
    BY <2>1, <2>2, <2>3 DEF ClausesKept, Deletable
  <2>5. \A l, h : h \in 1 .. i - 1 /\ FalseAt(l, h) => FalseAt(l, h)'
    <3> SUFFICES ASSUME NEW l, NEW h \in 1 .. i - 1, FalseAt(l, h) PROVE FalseAt(l, h)'
      OBVIOUS
    <3>1. h \in 1 .. i /\ h \in Positions'
      BY <1>1 DEF Positions
    <3> QED
      BY <3>1 DEF FalseAt
  <2>6. trail'[i].rsn = q /\ trail'[i].lit = trail[i].lit
    BY <1>1, <2>1
  <2>7. Explained(i)'
    <3>1. \A l \in LitsOf(q)' \ {trail'[i].lit} : \E h \in 1 .. i - 1 : FalseAt(l, h)'
      BY <2>2, <2>4, <2>5, <2>6
    <3>2. LitsOf(trail[i].rsn)' = LitsOf(q)'
      BY <2>6 DEF LitsOf
    <3> QED
      BY <2>2, <2>4, <2>6, <3>1, <3>2 DEF Explained
  <2> QED
    BY <1>3, <2>1, <2>6, <2>7 DEF ReasonAt
<1> QED
  BY <1>2, <1>3

\* What backtracking to level k leaves is a trail.
LEMMA BacktrackTrail ==
  ASSUME Inv, ClausesKept, NEW k \in 0 .. Level, CancelUntil(k)
  PROVE  TrailKept /\ Level' = k
<1>1. TypeOK /\ TrailOK
  BY DEF Inv
<1>2. /\ Kept(k) \in Seq(Assignment) /\ KeptLimits(k) \in Seq(Nat)
      /\ Len(Kept(k)) \in Nat /\ Len(Kept(k)) <= Len(trail) /\ Len(KeptLimits(k)) = k
      /\ \A i \in 1 .. Len(Kept(k)) : Kept(k)[i] = trail[i]
      /\ \A i \in 1 .. k : KeptLimits(k)[i] = limits[i]
      /\ \A i \in Positions : i <= Len(Kept(k)) <=> trail[i].lev <= k
      /\ \A i \in 1 .. k : limits[i] <= Len(Kept(k))
  BY <1>1, KeptFacts
<1>3. trail' = Kept(k) /\ limits' = KeptLimits(k) /\ head' = Min({head, Len(Kept(k))})
  BY DEF CancelUntil
<1>4. head \in Nat /\ Level \in Nat /\ Len(trail) \in Nat
  BY <1>1 DEF TypeOK, TrailType, Level
<1>5. head' \in Nat /\ head' \in {head, Len(Kept(k))} /\ head' <= head /\ head' <= Len(Kept(k))
  BY <1>2, <1>3, <1>4, MinOfTwo
<1>6. Positions' = 1 .. Len(Kept(k)) /\ Positions' \subseteq Positions /\ Level' = k
  BY <1>2, <1>3, <1>4 DEF Positions, Level
<1>7. \A i \in Positions' : trail'[i] = trail[i] /\ trail[i].lev <= k /\ trail[i].lev \in Nat
  BY <1>1, <1>2, <1>3, <1>6, EntryFields
<1>8. TrailOK'
  <2>1. \A i, j \in Positions' : VarOf(trail'[i].lit) = VarOf(trail'[j].lit) => i = j
    BY <1>1, <1>6, <1>7 DEF TrailOK
  <2>2. \A j \in 1 .. Level' : limits'[j] <= head' /\ limits'[j] = limits[j] /\ j \in 1 .. Level
    BY <1>1, <1>2, <1>3, <1>4, <1>5, <1>6 DEF TrailOK
  <2>3. \A i \in Positions', j \in 1 .. Level' : limits'[j] < i <=> j <= trail'[i].lev
    BY <1>1, <1>6, <1>7, <2>2 DEF TrailOK
  <2>4. \A i \in Positions' : trail'[i].lev <= Level'
    BY <1>6, <1>7
  <2> QED
    BY <1>3, <1>5, <2>1, <2>2, <2>3, <2>4 DEF TrailOK
<1>9. ReasonsOK'
  <2>1. ASSUME NEW i \in Positions' PROVE ReasonAt(i)'
    <3>1. i \in Positions /\ \A j \in 1 .. i : trail'[j] = trail[j]
      BY <1>2, <1>3, <1>6
    <3>2. trail[i].lev > 0 => limits'[trail[i].lev] = limits[trail[i].lev]
      BY <1>2, <1>3, <1>7
    <3> QED
      BY <3>1, <3>2, ReasonKept
  <2> QED
    BY <2>1 DEF ReasonsOK, ReasonAt
<1> QED
  BY <1>2, <1>3, <1>5, <1>6, <1>8, <1>9 DEF TrailKept, TrailType

\* So is what asserting a literal leaves.
LEMMA AssertTrail ==
  ASSUME Inv, ClausesKept, NEW k \in 0 .. Level, NEW l \in Lit, NEW r \in Nat,
         Asserts(l, k, r), Justified(l, k, r)
  PROVE  /\ TrailKept /\ Level' = k /\ Len(trail') = Len(Kept(k)) + 1
         /\ \A i \in 1 .. Len(Kept(k)) : trail'[i] = trail[i]
         /\ trail'[Len(trail')] = [lit |-> l, lev |-> k, rsn |-> r]
<1> DEFINE n == Len(Kept(k))
           e == [lit |-> l, lev |-> k, rsn |-> r]
<1>1. TypeOK /\ TrailOK
  BY DEF Inv
<1>2. /\ Kept(k) \in Seq(Assignment) /\ KeptLimits(k) \in Seq(Nat)
      /\ n \in Nat /\ n <= Len(trail) /\ Len(KeptLimits(k)) = k
      /\ \A i \in 1 .. n : Kept(k)[i] = trail[i]
      /\ \A i \in 1 .. k : KeptLimits(k)[i] = limits[i]
      /\ \A i \in Positions : i <= n <=> trail[i].lev <= k
      /\ \A i \in 1 .. k : limits[i] <= n
  BY <1>1, KeptFacts
<1>3. trail' = Append(Kept(k), e) /\ limits' = KeptLimits(k) /\ head' = Min({head, n})
  BY DEF Asserts
<1>4. head \in Nat /\ Level \in Nat /\ Len(trail) \in Nat /\ k \in Nat /\ k <= Level
  BY <1>1 DEF TypeOK, TrailType, Level
<1>5. head' \in Nat /\ head' \in {head, n} /\ head' <= head /\ head' <= n
  BY <1>2, <1>3, <1>4, MinOfTwo
<1>6. e \in Assignment /\ e.lit = l /\ e.lev = k /\ e.rsn = r
  BY <1>4 DEF Assignment
<1>7. PICK p : p = n + 1
  OBVIOUS
<1> HIDE DEF e
<1>8. /\ trail' \in Seq(Assignment) /\ Len(trail') = p /\ trail'[p] = e /\ p \in Nat
      /\ \A i \in 1 .. n : trail'[i] = trail[i]
  BY <1>2, <1>3, <1>6, <1>7, AppendProperties
<1>9. /\ Positions' = 1 .. p /\ 1 .. n \subseteq Positions /\ Level' = k
  BY <1>2, <1>3, <1>4, <1>8 DEF Positions, Level
<1>10. \A i \in 1 .. n : /\ trail[i].lev <= k /\ trail[i].lev \in Nat
                         /\ VarOf(trail[i].lit) # VarOf(l)
  BY <1>1, <1>2, <1>9, EntryFields DEF Justified
<1>11. \A i \in Positions' : i = p \/ i \in 1 .. n
  BY <1>2, <1>7, <1>9
<1>12. TrailOK'
  <2>1. \A i, j \in Positions' : VarOf(trail'[i].lit) = VarOf(trail'[j].lit) => i = j
    <3> SUFFICES ASSUME NEW i \in Positions', NEW j \in Positions',
                        VarOf(trail'[i].lit) = VarOf(trail'[j].lit)
                 PROVE  i = j
      OBVIOUS
    <3>1. CASE i \in 1 .. n /\ j \in 1 .. n
      BY <1>1, <1>8, <1>9, <3>1 DEF TrailOK
    <3>2. CASE i = p \/ j = p
      BY <1>6, <1>8, <1>10, <1>11, <3>2
    <3> QED
      BY <1>11, <3>1, <3>2
  <2>2. \A j \in 1 .. Level' : limits'[j] <= head' /\ limits'[j] = limits[j] /\ j \in 1 .. Level
    BY <1>1, <1>2, <1>3, <1>4, <1>5, <1>9 DEF TrailOK
  <2>3. \A i \in Positions', j \in 1 .. Level' : limits'[j] < i <=> j <= trail'[i].lev
    <3> SUFFICES ASSUME NEW i \in Positions', NEW j \in 1 .. Level'
                 PROVE  limits'[j] < i <=> j <= trail'[i].lev
      OBVIOUS
    <3>1. CASE i \in 1 .. n
      BY <1>1, <1>8, <1>9, <2>2, <3>1 DEF TrailOK
    <3>2. CASE i = p
      <4>1. limits'[j] <= n /\ limits'[j] \in Nat /\ j <= k
        <5>1. j \in 1 .. k /\ j <= k
          BY <1>4, <1>9
        <5>2. limits'[j] = KeptLimits(k)[j]
          BY <1>3
        <5> HIDE DEF n
        <5>3. KeptLimits(k)[j] \in Nat /\ KeptLimits(k)[j] <= n
          BY <1>2, <5>1
        <5> QED
          BY <5>1, <5>2, <5>3
      <4> QED
        BY <1>2, <1>6, <1>7, <1>8, <3>2, <4>1
    <3> QED
      BY <1>11, <3>1, <3>2
  <2>4. \A i \in Positions' : trail'[i].lev <= Level'
    BY <1>4, <1>6, <1>8, <1>9, <1>10, <1>11
  <2>5. head' <= Len(trail')
    BY <1>2, <1>5, <1>7, <1>8
  <2> QED
    BY <2>1, <2>2, <2>3, <2>4, <2>5 DEF TrailOK
<1>13. ReasonsOK'
  <2>1. ASSUME NEW i \in 1 .. n PROVE ReasonAt(i)'
    <3>1. i \in Positions /\ i \in Positions' /\ \A j \in 1 .. i : trail'[j] = trail[j]
      <4>1. n \in Nat /\ p = n + 1
        BY <1>2, <1>7
      <4> HIDE DEF n
      <4>2. i \in Positions /\ i \in Positions'
        BY <1>9, <4>1
      <4>3. \A j \in 1 .. i : j \in 1 .. n
        BY <4>1
      <4> QED
        BY <1>8, <4>2, <4>3
    <3>2. trail[i].lev > 0 => limits'[trail[i].lev] = limits[trail[i].lev]
      BY <1>2, <1>3, <1>10
    <3> QED
      BY <3>1, <3>2, ReasonKept
  <2>2. ReasonAt(p)'
    <3>1. CASE r = 0
      BY <1>4, <1>6, <1>8, <3>1 DEF Justified, ReasonAt
    <3>2. CASE r # 0
      <4>1. /\ r \in Stored' /\ l \in LitsOf(r)'
            /\ \A m \in LitsOf(r)' \ {l} : \E h \in 1 .. n : trail[h].lit = Neg(m)
        BY <3>2 DEF Justified
      <4>2. \A m \in LitsOf(r)' \ {l} : \E h \in 1 .. p - 1 : FalseAt(m, h)'
        <5> SUFFICES ASSUME NEW m \in LitsOf(r)' \ {l} PROVE \E h \in 1 .. p - 1 : FalseAt(m, h)'
          OBVIOUS
        <5>1. PICK h \in 1 .. n : trail[h].lit = Neg(m)
          BY <4>1
        <5>2. h \in 1 .. p - 1 /\ h \in Positions' /\ trail'[h] = trail[h]
          BY <1>2, <1>7, <1>8, <1>9
        <5> QED
          BY <5>1, <5>2 DEF FalseAt
      <4>3. trail'[p].rsn = r /\ trail'[p].lit = l
        BY <1>6, <1>8
      <4>4. LitsOf(trail[p].rsn)' = LitsOf(r)'
        BY <4>3 DEF LitsOf
      <4>5. Explained(p)'
        BY <4>1, <4>2, <4>3, <4>4 DEF Explained
      <4> QED
        BY <3>2, <4>3, <4>5 DEF ReasonAt
    <3> QED
      BY <3>1, <3>2
  <2> QED
    BY <1>11, <2>1, <2>2 DEF ReasonsOK, ReasonAt
<1>14. TrailType'
  BY <1>2, <1>3, <1>5, <1>8 DEF TrailType
<1> QED
  BY <1>7, <1>8, <1>9, <1>12, <1>13, <1>14 DEF TrailKept, e

\* So is what opening a level leaves.
LEMMA OpenTrail ==
  ASSUME Inv, ClausesKept, Opens
  PROVE  /\ TrailKept /\ Level' = Level + 1
         /\ Len(trail) \in Nat /\ Len(trail') \in {Len(trail), Len(trail) + 1}
         /\ \A i \in Positions : i \in Positions' /\ trail'[i] = trail[i]
         /\ \A i \in Positions' \ Positions : trail'[i].lev = Level + 1
<1> DEFINE n == Len(trail)
           K == Level + 1
<1>1. TypeOK /\ TrailOK
  BY DEF Inv
<1>2. /\ trail \in Seq(Assignment) /\ limits \in Seq(Nat) /\ head \in Nat /\ n \in Nat
      /\ Level \in Nat /\ Level = Len(limits)
  BY <1>1 DEF TypeOK, TrailType, Level
<1>3. /\ limits' \in Seq(Nat) /\ Level' = K /\ limits'[K] = n
      /\ \A i \in 1 .. Level : limits'[i] = limits[i]
  <2>1. limits' = Append(limits, n)
    BY DEF Opens
  <2> QED
    BY <1>2, <2>1, AppendProperties DEF Level
<1>4. /\ trail' \in Seq(Assignment) /\ Len(trail') \in {n, n + 1}
      /\ \A i \in 1 .. n : trail'[i] = trail[i]
      /\ Len(trail') = n + 1 => /\ trail'[n + 1].lev = K /\ trail'[n + 1].rsn = 0
                               /\ \A i \in 1 .. n : VarOf(trail[i].lit) # VarOf(trail'[n + 1].lit)
  <2>1. CASE trail' = trail
    BY <1>2, <2>1
  <2>2. ASSUME NEW l \in Lit, Free(l), trail' = Append(trail, [lit |-> l, lev |-> K, rsn |-> 0])
        PROVE  /\ trail' \in Seq(Assignment) /\ Len(trail') = n + 1
               /\ \A i \in 1 .. n : trail'[i] = trail[i]
               /\ trail'[n + 1].lev = K /\ trail'[n + 1].rsn = 0
               /\ \A i \in 1 .. n : VarOf(trail[i].lit) # VarOf(trail'[n + 1].lit)
    <3> DEFINE e == [lit |-> l, lev |-> K, rsn |-> 0]
    <3>1. e \in Assignment /\ e.lev = K /\ e.rsn = 0 /\ e.lit = l
      BY <1>2 DEF Assignment
    <3>2. \A i \in 1 .. n : VarOf(trail[i].lit) # VarOf(l)
      <4> SUFFICES ASSUME NEW i \in 1 .. n, VarOf(trail[i].lit) = VarOf(l) PROVE FALSE
        OBVIOUS
      <4>1. trail[i].lit \in Lit
        BY <1>1, EntryFields DEF Positions
      <4>2. trail[i].lit = l \/ trail[i].lit = Neg(l)
        BY <4>1, SameVar
      <4> QED
        BY <2>2, <4>2 DEF Free, IsFalse, IsTrue
    <3> HIDE DEF e
    <3>3. trail' = Append(trail, e)
      BY <2>2 DEF e
    <3> QED
      BY <1>2, <3>1, <3>2, <3>3, AppendProperties
  <2> QED
    BY <1>2, <2>1, <2>2 DEF Opens
<1>5. /\ Positions = 1 .. n /\ Positions' = 1 .. Len(trail')
      /\ \A i \in Positions : i \in Positions' /\ trail'[i] = trail[i]
      /\ \A i \in Positions' : i \in Positions \/ (i = n + 1 /\ Len(trail') = n + 1)
      /\ n + 1 \notin Positions
  BY <1>2, <1>4 DEF Positions
<1>6. head = n /\ head' = head
  BY DEF Opens
<1> HIDE DEF n, K
<1>7. K = Level + 1
  BY DEF K
<1>8. \A i \in Positions : trail[i].lev <= Level /\ trail[i].lev \in Nat /\ i <= n /\ i \in Nat
  BY <1>1, EntryFields DEF TrailOK, n
<1>9. TrailOK'
  <2>1. \A i, j \in Positions' : VarOf(trail'[i].lit) = VarOf(trail'[j].lit) => i = j
    <3> SUFFICES ASSUME NEW i \in Positions', NEW j \in Positions',
                        VarOf(trail'[i].lit) = VarOf(trail'[j].lit)
                 PROVE  i = j
      OBVIOUS
    <3>1. CASE i \in Positions /\ j \in Positions
      BY <1>1, <1>5, <3>1 DEF TrailOK
    <3>2. CASE i \notin Positions \/ j \notin Positions
      BY <1>4, <1>5, <3>2
    <3> QED
      BY <3>1, <3>2
  <2>2. \A j \in 1 .. Level' : j = K \/ j \in 1 .. Level
    BY <1>2, <1>3, <1>7
  <2>3. \A j \in 1 .. Level' : limits'[j] <= head'
    <3>1. \A j \in 1 .. Level : limits[j] <= head
      BY <1>1 DEF TrailOK
    <3>2. \A j \in 1 .. Level : limits'[j] <= head'
      BY <1>3, <1>6, <3>1
    <3>3. limits'[K] <= head'
      BY <1>2, <1>3, <1>6
    <3> QED
      BY <2>2, <3>2, <3>3
  <2>4. \A i \in Positions', j \in 1 .. Level' : limits'[j] < i <=> j <= trail'[i].lev
    <3> SUFFICES ASSUME NEW i \in Positions', NEW j \in 1 .. Level'
                 PROVE  limits'[j] < i <=> j <= trail'[i].lev
      OBVIOUS
    <3>1. CASE i \in Positions /\ j \in 1 .. Level
      BY <1>1, <1>3, <1>5, <3>1 DEF TrailOK
    <3>2. CASE i \in Positions /\ j = K
      BY <1>2, <1>3, <1>5, <1>7, <1>8, <3>2
    <3>3. CASE i \notin Positions
      <4>1. i = n + 1 /\ trail'[i].lev = K
        BY <1>4, <1>5, <3>3
      <4>2. limits'[j] <= n /\ limits'[j] \in Nat /\ j <= K
        <5>1. limits'[j] <= n
          BY <1>6, <2>3
        <5>2. limits'[j] = n \/ (j \in 1 .. Level /\ limits'[j] = limits[j])
          BY <1>3, <2>2
        <5>3. \A m \in 1 .. Level : limits[m] \in Nat
          BY <1>2
        <5>4. j <= K
          BY <1>3
        <5> QED
          BY <1>2, <5>1, <5>2, <5>3, <5>4
      <4> QED
        BY <1>2, <1>7, <4>1, <4>2
    <3> QED
      BY <2>2, <3>1, <3>2, <3>3
  <2>5. \A i \in Positions' : trail'[i].lev <= Level'
    <3>1. \A i \in Positions : trail'[i].lev <= K
      BY <1>2, <1>5, <1>7, <1>8
    <3>2. \A i \in Positions' \ Positions : trail'[i].lev <= K
      BY <1>2, <1>4, <1>5, <1>7
    <3> QED
      BY <1>3, <3>1, <3>2
  <2>6. head' <= Len(trail')
    BY <1>2, <1>4, <1>6
  <2> QED
    BY <2>1, <2>3, <2>4, <2>5, <2>6 DEF TrailOK
<1>10. ReasonsOK'
  <2>1. ASSUME NEW i \in Positions PROVE ReasonAt(i)'
    <3>1. i \in Positions' /\ \A j \in 1 .. i : trail'[j] = trail[j]
      BY <1>2, <1>4, <1>5, <1>8
    <3>2. trail[i].lev > 0 => limits'[trail[i].lev] = limits[trail[i].lev]
      BY <1>2, <1>3, <1>8
    <3> QED
      BY <3>1, <3>2, ReasonKept
  <2>2. ASSUME NEW i \in Positions', i \notin Positions PROVE ReasonAt(i)'
    <3>1. i = n + 1 /\ trail'[i].lev = K /\ trail'[i].rsn = 0
      BY <1>4, <1>5, <2>2
    <3> QED
      BY <1>3, <3>1 DEF ReasonAt
  <2> QED
    BY <1>5, <2>1, <2>2 DEF ReasonsOK, ReasonAt
<1>11. TrailType'
  BY <1>2, <1>3, <1>4, <1>6 DEF TrailType
<1> QED
  BY <1>2, <1>3, <1>4, <1>5, <1>7, <1>9, <1>10, <1>11 DEF TrailKept, n

\* So is what a step leaves that only moves the head of the queue.
LEMMA QueueTrail ==
  ASSUME Inv, ClausesKept, UNCHANGED <<trail, limits>>, head' \in Nat, head <= head',
         head' <= Len(trail)
  PROVE  TrailKept
<1>1. /\ TypeOK /\ TrailOK /\ TrailType /\ head \in Nat /\ Level \in Nat
      /\ \A k \in 1 .. Level : limits[k] \in Nat
      /\ Positions' = Positions /\ Level' = Level
  BY DEF Inv, TypeOK, TrailType, Positions, Level
<1>2. TrailOK'
  BY <1>1 DEF TrailOK
<1>3. ReasonsOK'
  <2>1. ASSUME NEW i \in Positions PROVE ReasonAt(i)'
    BY <1>1, ReasonKept
  <2> QED
    BY <1>1, <2>1 DEF ReasonsOK, ReasonAt
<1> QED
  BY <1>1, <1>2, <1>3 DEF TrailKept, TrailType

\* The variable of a free literal is nowhere on the trail.
LEMMA FreeFacts ==
  ASSUME TypeOK, NEW l \in Lit, Free(l)
  PROVE  \A i \in Positions : VarOf(trail[i].lit) # VarOf(l)
<1> SUFFICES ASSUME NEW i \in Positions, VarOf(trail[i].lit) = VarOf(l) PROVE FALSE
  OBVIOUS
<1>1. trail[i].lit \in Lit
  BY EntryFields
<1>2. trail[i].lit = l \/ trail[i].lit = Neg(l)
  BY <1>1, SameVar
<1> QED
  BY <1>2 DEF Free, IsFalse, IsTrue, Positions

\* Asserting at the current level is enqueueing.
LEMMA EnqueueAsserts ==
  ASSUME TypeOK, TrailOK, NEW l, NEW r, trail' = Enqueue(l, r), UNCHANGED <<limits, head>>
  PROVE  /\ Level \in 0 .. Level /\ Kept(Level) = trail /\ Asserts(l, Level, r)
<1>1. /\ Level \in Nat /\ head \in Nat /\ Len(trail) \in Nat /\ head <= Len(trail)
  BY DEF TypeOK, TrailType, TrailOK, Level
<1>2. Kept(Level) = trail /\ KeptLimits(Level) = limits
  BY <1>1 DEF Kept, KeptLimits
<1>3. Min({head, Len(trail)}) = head
  BY <1>1, MinOfTwo
<1> QED
  BY <1>1, <1>2, <1>3 DEF Asserts, Enqueue

\* A visit that finds no other watch leaves at most the other literal unfalsified.
LEMMA ExhaustedFacts ==
  ASSUME Inv, Visiting(FALSE), Exhausted
  PROVE  \A m \in LitsOf(Visited.ref) \ {Other} : IsFalse(m)
<1>1. /\ Settled \in Disjunction /\ Range(Settled) = LitsOf(Visited.ref)
      /\ {Settled[1], Settled[2]} = {scan.lit, Other}
  BY VisitFacts
<1>2. IsFalse(scan.lit)
  <2>1. scan.lit = Neg(trail[head].lit) /\ head \in Positions /\ scan.lit \in Lit
    BY ScanFacts DEF Visiting
  <2>2. Neg(scan.lit) = trail[head].lit
    <3>1. trail[head].lit \in Lit
      BY <2>1, EntryFields DEF Inv
    <3> QED
      BY <2>1, <3>1, NegLit
  <2> QED
    BY <2>1, <2>2 DEF IsFalse, IsTrue, Positions
<1>3. ASSUME NEW m \in LitsOf(Visited.ref), m # Other PROVE IsFalse(m)
  <2>1. Settled \in Seq(Lit) /\ Len(Settled) \in Nat
    BY <1>1 DEF Disjunction
  <2>2. PICK i \in 1 .. Len(Settled) : Settled[i] = m
    BY <1>1, <2>1 DEF Range
  <2>3. i = 1 \/ i = 2 \/ i \in 3 .. Len(Settled)
    BY <2>1
  <2>4. CASE i \in 3 .. Len(Settled)
    BY <2>2, <2>4 DEF Exhausted
  <2>5. CASE i = 1 \/ i = 2
    BY <1>1, <1>2, <1>3, <2>2, <2>5
  <2> QED
    BY <2>3, <2>4, <2>5
<1> QED
  BY <1>3

\* Reduction happens between conflicts.
LEMMA ReduceQuiet ==
  ASSUME Inv, Reduce
  PROVE  phase = "learned" /\ scan = NoScan /\ conflict = 0
BY DEF Inv, ScanOK, ConflictOK, AtHead, Reduce

\* What asserts literals: an implication,
LEMMA ImplyAsserts ==
  ASSUME Inv, Imply, ClausesKept
  PROVE  \E l \in Lit, r \in Nat : /\ l = Other /\ Level \in 0 .. Level /\ Kept(Level) = trail
                                  /\ Asserts(l, Level, r) /\ Justified(l, Level, r)
<1>1. PICK l, r : l = Other /\ r = Visited.ref
  OBVIOUS
<1>2. /\ Visiting(FALSE) /\ Free(l) /\ Exhausted /\ trail' = Enqueue(l, r)
      /\ UNCHANGED <<limits, head>> /\ scan # NoScan
  BY <1>1 DEF Imply, Examining, Unmoved, Visiting
<1>3. /\ l \in Lit /\ l \in LitsOf(r) /\ r \in Refs /\ r \in Stored
  BY <1>1, <1>2, VisitFacts
<1>4. \A m \in LitsOf(r) \ {l} : IsFalse(m)
  BY <1>1, <1>2, ExhaustedFacts
<1>5. TypeOK /\ TrailOK
  BY DEF Inv
<1>6. Level \in 0 .. Level /\ Kept(Level) = trail /\ Asserts(l, Level, r)
  BY <1>2, <1>5, EnqueueAsserts
<1>7. r \in Nat /\ r # 0
  BY <1>3 DEF Refs
<1>8. r \in Stored' /\ LitsOf(r)' = LitsOf(r)
  BY <1>2, <1>3, ReduceQuiet DEF ClausesKept, Deletable
<1>9. Justified(l, Level, r)
  <2>1. \A i \in 1 .. Len(Kept(Level)) : VarOf(trail[i].lit) # VarOf(l)
    BY <1>2, <1>3, <1>5, <1>6, FreeFacts DEF Positions
  <2>2. \A m \in LitsOf(r)' \ {l} : \E h \in 1 .. Len(Kept(Level)) : trail[h].lit = Neg(m)
    BY <1>4, <1>6, <1>8 DEF IsFalse, IsTrue
  <2> QED
    BY <1>3, <1>7, <1>8, <2>1, <2>2 DEF Justified
<1> QED
  BY <1>1, <1>3, <1>6, <1>7, <1>9

\* a unit clause,
LEMMA AddUnitAsserts ==
  ASSUME Inv, AddUnit
  PROVE  \E l \in Lit, r \in Nat : /\ Level \in 0 .. Level /\ Kept(Level) = trail
                                  /\ Asserts(l, Level, r) /\ Justified(l, Level, r)
<1>1. PICK l \in pending : Free(l) /\ trail' = Enqueue(l, 0)
  BY DEF AddUnit
<1>2. phase = "install" /\ UNCHANGED <<limits, head>>
  BY DEF AddUnit, Installing
<1>3. l \in Lit /\ TypeOK /\ TrailOK /\ Level = 0
  BY <1>2 DEF Inv, TypeOK, ControlType, PhaseOK
<1>4. Level \in 0 .. Level /\ Kept(Level) = trail /\ Asserts(l, Level, 0)
  BY <1>1, <1>2, <1>3, EnqueueAsserts
<1>5. Justified(l, Level, 0)
  BY <1>1, <1>3, <1>4, FreeFacts DEF Positions, Justified
<1> QED
  BY <1>3, <1>4, <1>5

\* a clause stored whose other literals are all false implies the last one,
LEMMA AddStoredImplies ==
  ASSUME Inv, AddStored, trail' # trail
  PROVE  \E n, l : /\ n \in Nat \ {0} /\ n \in Stored' /\ LitsOf(n)' = pending
                   /\ l \in pending /\ l \in Lit /\ Free(l) /\ trail' = Enqueue(l, n)
                   /\ \A m \in pending \ {l} : IsFalse(m)
<1>1. PICK s, n :
              /\ s \in SetToSeqs(pending) /\ s \in Disjunction
              /\ n \in Nat \ {0} /\ n \in Stored' /\ LitsOf(n)' = pending
              /\ \A l \in pending : ~IsTrue(l)
              /\ Free(s[1]) /\ ~Free(s[2])
              /\ \A i \in 2 .. Len(s) : Free(s[i]) => Free(s[i - 1])
              /\ trail' = Enqueue(s[1], n)
  BY AddAllocates
<1>2. pending \subseteq Lit
  BY DEF Inv, TypeOK, ControlType
<1>3. /\ Len(s) \in Nat /\ Len(s) > 1 /\ \A i \in 1 .. Len(s) : s[i] \in pending
      /\ \A l \in pending : \E i \in 1 .. Len(s) : s[i] = l
  BY <1>1, <1>2, ListsSet DEF Disjunction
<1>4. \A i \in 2 .. Len(s) : ~Free(s[i])
  <2> DEFINE T == {i \in 2 .. Len(s) : Free(s[i])}
  <2> SUFFICES ASSUME T # {} PROVE FALSE
    OBVIOUS
  <2>1. PICK i \in T : \A j \in T : i <= j
    <3>1. T \in SUBSET Nat
      BY <1>3
    <3> HIDE DEF T
    <3> QED
      BY <3>1, LeastNat
  <2>2. i - 1 \in 2 .. Len(s) /\ Free(s[i - 1])
    BY <1>1, <1>3, <2>1
  <2>3. i - 1 \in T /\ i \in Nat
    BY <1>3, <2>1, <2>2
  <2> QED
    BY <2>1, <2>3
<1>5. s[1] \in pending /\ s[1] \in Lit
  BY <1>2, <1>3
<1>6. ASSUME NEW m \in pending \ {s[1]} PROVE IsFalse(m)
  <2>1. PICK i \in 1 .. Len(s) : s[i] = m
    BY <1>3
  <2>2. i \in 2 .. Len(s)
    BY <1>3, <1>6, <2>1
  <2> QED
    BY <1>1, <1>4, <2>1, <2>2 DEF Free
<1> QED
  BY <1>1, <1>5, <1>6

\* which justifies it,
LEMMA AddStoredAsserts ==
  ASSUME Inv, AddStored, trail' # trail
  PROVE  \E l \in Lit, r \in Nat : /\ Level \in 0 .. Level /\ Kept(Level) = trail
                                  /\ Asserts(l, Level, r) /\ Justified(l, Level, r)
<1>1. PICK n, l : /\ n \in Nat \ {0} /\ n \in Stored' /\ LitsOf(n)' = pending
                  /\ l \in pending /\ l \in Lit /\ Free(l) /\ trail' = Enqueue(l, n)
                  /\ \A m \in pending \ {l} : IsFalse(m)
  BY AddStoredImplies
<1>2. UNCHANGED <<limits, head>>
  BY DEF AddStored, Installing
<1>3. TypeOK /\ TrailOK
  BY DEF Inv
<1>4. Level \in 0 .. Level /\ Kept(Level) = trail /\ Asserts(l, Level, n)
  BY <1>1, <1>2, <1>3, EnqueueAsserts
<1>5. Justified(l, Level, n)
  <2>1. \A i \in 1 .. Len(Kept(Level)) : VarOf(trail[i].lit) # VarOf(l)
    BY <1>1, <1>3, <1>4, FreeFacts DEF Positions
  <2>2. \A m \in pending \ {l} : \E h \in 1 .. Len(Kept(Level)) : trail[h].lit = Neg(m)
    BY <1>1, <1>4 DEF IsFalse, IsTrue
  <2> QED
    BY <1>1, <2>1, <2>2 DEF Justified
<1> QED
  BY <1>1, <1>4, <1>5

\* and a learned clause, at the level backtracking stops at.
LEMMA LearnAsserts ==
  ASSUME Inv, Learn
  PROVE  \E l \in Lit, r \in Nat, k \in 0 .. Level : k < Level /\ Asserts(l, k, r) /\ Justified(l, k, r)
<1>1. PICK c, u, s :
              /\ c \subseteq Blamed /\ Current(c) = {u}
              /\ limits' = KeptLimits(BacktrackLevel(c))
              /\ head' = Min({head, Len(Kept(BacktrackLevel(c)))})
              /\ \/ /\ c = {u}
                    /\ trail' = Append(Kept(BacktrackLevel(c)),
                                      [lit |-> u, lev |-> BacktrackLevel(c), rsn |-> 0])
                 \/ \E n : /\ n \in Nat \ {0} /\ n \in Stored' /\ LitsOf(n)' = c
                          /\ trail' = Append(Kept(BacktrackLevel(c)),
                                      [lit |-> u, lev |-> BacktrackLevel(c), rsn |-> n])
  BY LearnAllocates
<1>2. TypeOK /\ TrailOK
  BY DEF Inv
<1>3. PICK k : k = BacktrackLevel(c)
  OBVIOUS
<1>4. /\ k \in Nat /\ k < Level /\ Level \in Nat
      /\ \A l \in c \ {u} : LevelOf(l) \in Nat /\ LevelOf(l) <= k
      /\ c = {u} => k = 0
      /\ u \in c /\ LevelOf(u) = Level
  <2>1. Level \in Nat
    BY <1>2 DEF TypeOK, TrailType, Level
  <2>2. /\ JumpLevel(c) \in Nat /\ k \in Nat /\ JumpLevel(c) <= k /\ k < Level
        /\ \A l \in c \ {u} : LevelOf(l) \in 1 .. JumpLevel(c)
        /\ c = {u} => k = 0
        /\ u \in c /\ LevelOf(u) = Level
    BY <1>1, <1>2, <1>3, LearnedFacts
  <2> QED
    BY <2>1, <2>2
<1>5. /\ k \in 0 .. Level /\ Len(Kept(k)) \in Nat /\ Len(Kept(k)) <= Len(trail)
      /\ \A i \in Positions : i <= Len(Kept(k)) <=> trail[i].lev <= k
  BY <1>2, <1>4, KeptFacts
<1>6. u \in Lit
  BY <1>1, <1>4 DEF Blamed
<1>7. \A i \in 1 .. Len(Kept(k)) : VarOf(trail[i].lit) # VarOf(u)
  <2> SUFFICES ASSUME NEW i \in 1 .. Len(Kept(k)), VarOf(trail[i].lit) = VarOf(u) PROVE FALSE
    OBVIOUS
  <2>1. i \in Positions /\ Len(trail) \in Nat
    BY <1>2, <1>5 DEF Positions, TypeOK, TrailType
  <2>2. trail[i].lev <= k /\ trail[i].lev \in Nat
    BY <1>2, <1>5, <2>1, EntryFields
  <2>3. LevelOf(u) = trail[i].lev
    BY <1>2, <2>1, EntryOf
  <2> QED
    BY <1>4, <2>2, <2>3
<1>8. \A m \in c \ {u} : \E h \in 1 .. Len(Kept(k)) : trail[h].lit = Neg(m)
  <2> SUFFICES ASSUME NEW m \in c \ {u} PROVE \E h \in 1 .. Len(Kept(k)) : trail[h].lit = Neg(m)
    OBVIOUS
  <2>1. Entry(m) \in Positions /\ FalseAt(m, Entry(m)) /\ LevelOf(m) = trail[Entry(m)].lev
    BY <1>1, <1>2, BlamedFacts
  <2>2. Entry(m) \in 1 .. Len(Kept(k))
    BY <1>4, <1>5, <2>1 DEF Positions
  <2> QED
    BY <2>1, <2>2 DEF FalseAt
<1>9. CASE /\ c = {u} /\ trail' = Append(Kept(k), [lit |-> u, lev |-> k, rsn |-> 0])
  <2>1. Asserts(u, k, 0) /\ Justified(u, k, 0)
    BY <1>1, <1>3, <1>4, <1>7, <1>9 DEF Asserts, Justified
  <2> QED
    BY <1>4, <1>5, <1>6, <2>1
<1>10. ASSUME NEW n \in Nat \ {0}, n \in Stored', LitsOf(n)' = c,
              trail' = Append(Kept(k), [lit |-> u, lev |-> k, rsn |-> n])
       PROVE  Asserts(u, k, n) /\ Justified(u, k, n)
  BY <1>1, <1>3, <1>4, <1>7, <1>8, <1>10 DEF Asserts, Justified
<1> QED
  BY <1>1, <1>3, <1>4, <1>5, <1>6, <1>9, <1>10

-----------------------------------------------------------------------------
(***************************************************************************)
(* The control: phases, calls, the scan and the conflict.                  *)
(***************************************************************************)
ControlKept == ControlType' /\ ScanOK' /\ ConflictOK' /\ PhaseOK' /\ AnswerOK'

\* What propagation leaves alone.
Undisturbed == UNCHANGED <<client, query, answer, budget, consistent, started, phase,
                           pending, interrupted>>

\* Propagation leaves the client, the query and the phase alone.
LEMMA UndisturbedKeeps ==
  ASSUME Inv, Undisturbed, limits' = limits, conflict' \in Nat, started \/ head' = head
  PROVE  ControlType' /\ PhaseOK' /\ AnswerOK'
<1> USE DEF Undisturbed, client, query, answer, budget
<1>1. ControlType'
  BY DEF Inv, TypeOK, ControlType
<1>2. PhaseOK'
  BY DEF Inv, PhaseOK, Level
<1>3. AnswerOK'
  BY DEF Inv, AnswerOK, CacheOK, Querying
<1> QED
  BY <1>1, <1>2, <1>3

\* A visit keeps the scan where it is.
LEMMA ScanStays ==
  ASSUME Inv, scan # NoScan, NextWatch, Undisturbed, UNCHANGED <<limits, head, conflict>>,
         \A i \in Positions : i \in Positions' /\ trail'[i] = trail[i]
  PROVE  ControlKept
<1>1. /\ head \in Positions /\ trail[head].lev = Level /\ scan.lit = Neg(trail[head].lit)
      /\ conflict = 0 /\ AtHead
  BY ScanFacts DEF Inv, ScanOK
<1>2. scan' # NoScan => scan'.lit = scan.lit
  BY RestAfter
<1>3. trail'[head'] = trail[head] /\ head' \in Positions' /\ Level' = Level
  BY <1>1 DEF Level
<1>4. AtHead'
  BY <1>1, <1>3 DEF AtHead, Undisturbed
<1>5. ScanOK' /\ ConflictOK'
  BY <1>1, <1>2, <1>3, <1>4 DEF ScanOK, ConflictOK
<1>6. conflict' \in Nat
  BY DEF Inv, TypeOK, ControlType
<1> QED
  BY <1>5, <1>6, UndisturbedKeeps DEF ControlKept

\* A visit that finds a conflict.
LEMMA ConflictFound ==
  ASSUME Inv, Conflict, ClausesKept
  PROVE  ControlKept
<1>1. PICK r : r = Visited.ref
  OBVIOUS
<1>2. /\ Visiting(FALSE) /\ IsFalse(Other) /\ Exhausted /\ scan' = NoScan /\ conflict' = r
      /\ UNCHANGED <<trail, limits, head>> /\ Undisturbed /\ scan # NoScan
  BY <1>1 DEF Conflict, Examining, Unmoved, Undisturbed, Visiting
<1>3. /\ r \in Stored /\ r \in Refs /\ scan.lit \in LitsOf(r)
  BY <1>1, <1>2, VisitFacts, WatchedFields DEF Inv
<1>4. \A m \in LitsOf(r) : IsFalse(m)
  BY <1>1, <1>2, ExhaustedFacts
<1>5. r \in Stored' /\ LitsOf(r)' = LitsOf(r)
  BY <1>2, <1>3, ReduceQuiet DEF ClausesKept, Deletable
<1>6. AtHead /\ scan.lit = Neg(trail[head].lit)
  BY <1>2 DEF Inv, ScanOK
<1>7. AtHead'
  BY <1>2, <1>6 DEF AtHead, Undisturbed, Positions, Level
<1>8. \A m : IsFalse(m) => IsFalse(m)'
  BY <1>2 DEF IsFalse, IsTrue
<1>9. ConflictOK'
  <2>1. LitsOf(conflict)' = LitsOf(r)'
    BY <1>2 DEF LitsOf
  <2>2. \A m \in LitsOf(conflict)' : IsFalse(m)'
    BY <1>4, <1>5, <1>8, <2>1
  <2>3. Neg(trail'[head'].lit) \in LitsOf(conflict)'
    BY <1>2, <1>3, <1>5, <1>6, <2>1
  <2> QED
    BY <1>2, <1>5, <1>7, <2>2, <2>3 DEF ConflictOK
<1>10. ScanOK'
  BY <1>2 DEF ScanOK
<1>11. conflict' \in Nat
  BY <1>2, <1>3 DEF Refs
<1> QED
  BY <1>2, <1>9, <1>10, <1>11, UndisturbedKeeps DEF ControlKept

\* The steps of propagation.
LEMMA PropagationControl ==
  ASSUME Inv, ClausesKept,
         Dequeue \/ DropWatch \/ SkipWatch \/ KeepWatch \/ MoveWatch \/ Imply \/ Conflict
  PROVE  ControlKept
<1>1. CASE Dequeue
  <2>1. /\ phase \in {"prepare", "search", "add", "settle"} /\ consistent /\ conflict = 0
        /\ head' = head + 1 /\ UNCHANGED <<trail, limits, conflict>> /\ Undisturbed
    BY <1>1 DEF Dequeue, Undisturbed, Quiet
  <2>2. head + 1 \in Positions /\ (scan' # NoScan => scan'.lit = Neg(trail[head + 1].lit))
    BY <1>1, DequeueStep
  <2>3. started
    BY <2>1 DEF Inv, PhaseOK
  <2>4. trail[head + 1].lev = Level
    <3>1. /\ trail[head + 1].lev <= Level /\ trail[head + 1].lev \in Nat /\ Level \in Nat
          /\ head \in Nat
      BY <2>2, EntryFields DEF Inv, TrailOK, TypeOK, TrailType, Level
    <3>2. CASE Level = 0
      BY <3>1, <3>2
    <3>3. CASE Level > 0
      <4>1. Level \in 1 .. Level /\ limits[Level] <= head /\ limits[Level] \in Nat
        BY <3>1, <3>3 DEF Inv, TrailOK, TypeOK, TrailType, Level
      <4>2. Level <= trail[head + 1].lev
        BY <2>2, <3>1, <4>1 DEF Inv, TrailOK
      <4> QED
        BY <3>1, <4>2
    <3> QED
      BY <3>1, <3>2, <3>3
  <2>5. AtHead'
    BY <2>1, <2>2, <2>4 DEF AtHead, Undisturbed, Positions, Level
  <2>6. ScanOK' /\ ConflictOK'
    BY <2>1, <2>2, <2>5 DEF ScanOK, ConflictOK
  <2>7. conflict' \in Nat
    BY <2>1
  <2> QED
    BY <2>1, <2>3, <2>6, <2>7, UndisturbedKeeps DEF ControlKept
<1>2. CASE DropWatch \/ SkipWatch \/ KeepWatch \/ MoveWatch
  <2>1. /\ scan # NoScan /\ NextWatch /\ UNCHANGED <<trail, limits, head, conflict>> /\ Undisturbed
    BY <1>2 DEF DropWatch, SkipWatch, KeepWatch, MoveWatch, Examining, Visiting, Unmoved, Undisturbed
  <2> QED
    BY <2>1, ScanStays DEF Positions
<1>3. CASE Imply
  <2>1. /\ scan # NoScan /\ NextWatch /\ UNCHANGED <<limits, head, conflict>> /\ Undisturbed
    BY <1>3 DEF Imply, Examining, Visiting, Unmoved, Undisturbed
  <2>2. PICK l \in Lit, r \in Nat :
          Level \in 0 .. Level /\ Kept(Level) = trail /\ Asserts(l, Level, r) /\ Justified(l, Level, r)
    BY <1>3, ImplyAsserts
  <2>3. Len(trail') = Len(trail) + 1 /\ \A i \in 1 .. Len(trail) : trail'[i] = trail[i]
    BY <2>2, AssertTrail
  <2>4. \A i \in Positions : i \in Positions' /\ trail'[i] = trail[i]
    BY <2>3, EntryFields DEF Positions, Inv
  <2> QED
    BY <2>1, <2>4, ScanStays
<1>4. CASE Conflict
  BY <1>4, ConflictFound
<1> QED
  BY <1>1, <1>2, <1>3, <1>4

\* Nothing is scanned, and no conflict waits.
LEMMA QuietKeeps ==
  ASSUME scan' = NoScan, conflict' = 0
  PROVE  ScanOK' /\ ConflictOK'
BY DEF ScanOK, ConflictOK

\* So it is outside propagation.
LEMMA IdleQuiet ==
  ASSUME Inv, phase \notin {"prepare", "search", "add", "settle"}
  PROVE  scan = NoScan /\ conflict = 0
BY DEF Inv, ScanOK, ConflictOK, AtHead

\* Nothing changes but the flag of the interrupter.
LEMMA NothingChanges ==
  ASSUME Inv, ClausesKept,
         UNCHANGED <<clauses, assigned, client, query, answer, budget, consistent, started,
                     phase, scan, conflict, pending>>, interrupted' \in BOOLEAN
  PROVE  ControlKept
<1> USE DEF assigned, client, query, answer, budget
<1>1. ControlType' /\ PhaseOK' /\ AnswerOK'
  BY DEF Inv, TypeOK, ControlType, PhaseOK, AnswerOK, CacheOK, Querying, Level
<1>2. ScanOK' /\ ConflictOK'
  BY DEF Inv, ScanOK, ConflictOK, AtHead, Positions, Level, Stored, LitsOf, IsFalse, IsTrue
<1> QED
  BY <1>1, <1>2 DEF ControlKept

\* The answers of a query are typed.
LEMMA AnswerTyped ==
  ASSUME Inv
  PROVE  /\ NoCache \in Answer /\ NoCache.result = "none"
         /\ \A r \in {"sat", "unsat"} : [assumptions |-> Assumptions, result |-> r] \in Answer
<1>1. hard \in Seq(Lit) /\ user \in Seq(Lit)
  BY DEF Inv, TypeOK, ControlType
<1>2. Assumptions \in Seq(Lit)
  BY <1>1, ConcatProperties DEF Assumptions
<1> QED
  BY <1>2 DEF Answer, NoCache

\* The steps of a search between propagations.
LEMMA SearchControl ==
  ASSUME Inv, Learn \/ Reduce \/ Restart \/ NoRestart \/ BeginSearch
  PROVE  ControlKept
<1> USE DEF assigned, client, query, answer, budget
<1>1. /\ ControlType' /\ started /\ consistent
  <2>1. /\ UNCHANGED <<client, query, answer, consistent, started, pending, interrupted>>
        /\ phase' \in {"search", "learned", "reduced"} /\ conflict' \in {0, conflict}
        /\ restarts' \in {restarts, restarts + 1} /\ reductions' \in {reductions, reductions + 1}
        /\ phase \in {"search", "learned", "reduced"} \/ (consistent /\ phase = "prepare")
    <3>1. CASE Learn
      BY <3>1 DEF Learn
    <3>2. CASE Reduce
      BY <3>2 DEF Reduce
    <3>3. CASE Restart \/ NoRestart \/ BeginSearch
      BY <3>3 DEF Restart, NoRestart, BeginSearch
    <3> QED
      BY <3>1, <3>2, <3>3
  <2> QED
    BY <2>1 DEF Inv, TypeOK, ControlType, PhaseOK, Phases
<1>2. scan' = NoScan /\ conflict' = 0
  <2>1. CASE Learn
    BY <2>1, LearnAllocates DEF Learn
  <2>2. CASE Reduce \/ Restart \/ NoRestart \/ BeginSearch
    BY <2>2, IdleQuiet DEF Reduce, Restart, NoRestart, BeginSearch, Fixpoint, Quiet
  <2> QED
    BY <2>1, <2>2
<1>3. /\ phase' \in {"search", "learned", "reduced"} /\ consistent' /\ started' /\ Querying
      /\ UNCHANGED <<selectors, hard, user, cached>>
  BY <1>1 DEF Learn, Reduce, Restart, NoRestart, BeginSearch, Querying
<1>4. PhaseOK'
  BY <1>3 DEF PhaseOK
<1>5. AnswerOK'
  BY <1>3 DEF Inv, AnswerOK, CacheOK, Querying
<1> QED
  BY <1>1, <1>2, <1>4, <1>5, QuietKeeps DEF ControlKept

\* The steps that open a level.
LEMMA OpensControl ==
  ASSUME Inv, Assume \/ Decide
  PROVE  Opens /\ ControlKept
<1> USE DEF client, query, answer, budget
<1>1. /\ Searching /\ scan = NoScan /\ conflict = 0 /\ head = Len(trail)
      /\ UNCHANGED <<head, client, query, answer, budget, consistent, started, phase, scan,
                     conflict, pending, interrupted>>
  BY DEF Assume, Decide, Searching, Fixpoint, Quiet
<1>2. Opens
  <2>1. CASE Assume
    <3>1. Assumptions \in Seq(Lit)
      BY ConcatProperties DEF Inv, TypeOK, ControlType, Assumptions
    <3>2. Level + 1 \in 1 .. Len(Assumptions)
      BY <2>1 DEF Assume, Inv, TypeOK, TrailType, Level
    <3>3. NextAssumption \in Lit
      BY <3>1, <3>2 DEF NextAssumption
    <3> QED
      BY <1>1, <2>1, <3>3 DEF Assume, Open, Opens
  <2>2. CASE Decide
    <3>1. PICK v \in 1 .. count : \E l \in {v, Neg(v)} :
            /\ Free(l)
            /\ Open(Append(trail, [lit |-> l, lev |-> Level + 1, rsn |-> 0]))
      BY <2>2 DEF Decide
    <3>2. \A l \in {v, Neg(v)} : l \in Lit
      BY <3>1, VarLit DEF Inv, TypeOK, ControlType
    <3> QED
      BY <1>1, <3>1, <3>2 DEF Open, Opens
  <2> QED
    BY <2>1, <2>2
<1>3. ControlType'
  BY <1>1 DEF Inv, TypeOK, ControlType
<1>4. phase = "search"
  BY <1>1 DEF Searching
<1>5. PhaseOK'
  BY <1>1, <1>4 DEF Inv, PhaseOK
<1>6. AnswerOK'
  BY <1>1, <1>4 DEF Inv, AnswerOK, CacheOK, Querying
<1> QED
  BY <1>1, <1>2, <1>3, <1>5, <1>6, QuietKeeps DEF ControlKept

\* The steps that end a query.
LEMMA AnswerControl ==
  ASSUME Inv, TrailKept,
         (CancelUntil(0) => Level' = 0),
         RootConflict \/ AnswerInconsistent \/ GiveUp \/ FailAssumption \/ AnswerSat
  PROVE  ControlKept
<1> USE DEF assigned, client, query, answer, budget
<1>1. /\ NoCache \in Answer /\ NoCache.result = "none"
      /\ \A r \in {"sat", "unsat"} : [assumptions |-> Assumptions, result |-> r] \in Answer
  BY AnswerTyped
<1>2. /\ Assumptions = hard \o user /\ UNCHANGED <<selectors, hard, user>> /\ started /\ started'
  BY DEF Assumptions, RootConflict, AnswerInconsistent, GiveUp, FailAssumption, AnswerSat,
         Searching, Inv, PhaseOK, ConflictOK, AtHead
<1>3. CASE RootConflict
  <2>1. /\ conflict # 0 /\ conflict' = 0 /\ consistent' = FALSE
        /\ UNCHANGED <<trail, limits, head, client, query, failed, budget, started, scan, pending,
                       interrupted>>
    BY <1>3 DEF RootConflict
  <2>2. scan' = NoScan /\ phase \in {"prepare", "search", "add", "settle"}
    BY <2>1 DEF Inv, ScanOK, ConflictOK, AtHead
  <2>3. CASE Querying
    <3>1. phase' = "idle" /\ cached' = [assumptions |-> Assumptions, result |-> "unsat"]
      BY <1>3, <2>3 DEF RootConflict, Return
    <3>2. ControlType'
      BY <1>1, <2>1, <3>1 DEF Inv, TypeOK, ControlType, Phases
    <3>3. PhaseOK'
      BY <1>2, <3>1 DEF PhaseOK
    <3>4. AnswerOK'
      BY <1>2, <2>3, <3>1 DEF Inv, AnswerOK, CacheOK, Querying
    <3> QED
      BY <2>1, <2>2, <3>2, <3>3, <3>4, QuietKeeps DEF ControlKept
  <2>4. CASE ~Querying
    <3>1. /\ phase' = (IF phase = "add" THEN "install" ELSE "idle") /\ cached' = cached
          /\ phase \in {"add", "settle"} /\ cached.result = "none"
      BY <1>3, <2>2, <2>4 DEF RootConflict, Querying, Inv, AnswerOK
    <3>2. Level' = 0
      BY <2>1, <3>1 DEF Inv, PhaseOK, Level
    <3>3. ControlType'
      BY <2>1, <3>1 DEF Inv, TypeOK, ControlType, Phases
    <3>4. PhaseOK'
      BY <1>2, <3>1, <3>2 DEF PhaseOK
    <3>5. AnswerOK'
      BY <3>1 DEF AnswerOK, CacheOK, Querying
    <3> QED
      BY <2>1, <2>2, <3>3, <3>4, <3>5, QuietKeeps DEF ControlKept
  <2> QED
    BY <2>3, <2>4
<1>4. CASE AnswerInconsistent \/ AnswerSat
  <2>1. /\ Querying /\ phase' = "idle"
        /\ \E r \in {"sat", "unsat"} : cached' = [assumptions |-> Assumptions, result |-> r]
        /\ UNCHANGED <<trail, limits, head, client, query, failed, budget, consistent, started, scan,
                       conflict, pending, interrupted>>
    BY <1>4 DEF AnswerInconsistent, AnswerSat, Return, Searching, Querying
  <2>2. scan' = NoScan /\ conflict' = 0
    BY <1>4 DEF AnswerInconsistent, AnswerSat, Searching, Fixpoint, Quiet, Inv, ScanOK, ConflictOK, AtHead
  <2>3. PICK r \in {"sat", "unsat"} : cached' = [assumptions |-> Assumptions, result |-> r]
    BY <2>1
  <2>4. ControlType'
    BY <1>1, <2>1, <2>3 DEF Inv, TypeOK, ControlType, Phases
  <2>5. PhaseOK'
    BY <1>2, <2>1, <2>3 DEF PhaseOK
  <2>6. AnswerOK'
    BY <1>2, <2>1, <2>3 DEF Inv, AnswerOK, CacheOK, Querying
  <2> QED
    BY <2>2, <2>4, <2>5, <2>6, QuietKeeps DEF ControlKept
<1>5. CASE GiveUp \/ FailAssumption
  <2>1. /\ Querying /\ phase' = "idle" /\ CancelUntil(0) /\ conflict' = 0 /\ scan' = NoScan
        /\ cached' = NoCache \/ cached' = [assumptions |-> Assumptions, result |-> "unsat"]
        /\ UNCHANGED <<client, query, budget, consistent, started, pending, interrupted>>
    BY <1>5 DEF GiveUp, FailAssumption, Return, Searching, Fixpoint, Quiet, Querying
  <2>2. failed' \subseteq Lit
    <3>1. Range(user) \subseteq Lit
      BY DEF Inv, TypeOK, ControlType, Range
    <3>2. failed' \subseteq Range(user)
      BY <1>5 DEF GiveUp, FailAssumption
    <3> QED
      BY <3>1, <3>2
  <2>3. ControlType'
    BY <1>1, <2>1, <2>2 DEF Inv, TypeOK, ControlType, Phases
  <2>4. PhaseOK'
    BY <1>2, <2>1 DEF PhaseOK
  <2>5. AnswerOK'
    BY <1>1, <1>2, <2>1 DEF Inv, AnswerOK, CacheOK, Querying
  <2> QED
    BY <2>1, <2>3, <2>4, <2>5, QuietKeeps DEF ControlKept
<1> QED
  BY <1>3, <1>4, <1>5

\* What the client asks for next.
LEMMA CallFacts ==
  ASSUME Inv, NEW name, Calls(name)
  PROVE  /\ phase = "idle" /\ scan = NoScan /\ conflict = 0 /\ program' \in Seq(Operations)
         /\ Head(program) \in Operations /\ Head(program).op = name
<1>1. program \in Seq(Operations) /\ program # << >> /\ Head(program).op = name /\ phase = "idle"
      /\ program' = Tail(program)
  BY DEF Calls, Inv, TypeOK, ControlType
<1>2. Head(program) \in Operations /\ Tail(program) \in Seq(Operations)
  BY <1>1, HeadTailProperties
<1> QED
  BY <1>1, <1>2, IdleQuiet

\* No more variables are known than there are.
LEMMA CountBound ==
  ASSUME Inv
  PROVE  Cardinality(Var) \in Nat /\ count \in Nat /\ count <= Cardinality(Var)
<1>1. count \in Nat /\ 1 .. count \subseteq Var
  BY DEF Inv, TypeOK, ControlType
<1>2. Cardinality(Var) \in Nat
  BY NumberingAssumption, FS_CardinalityType
<1>3. CASE count = 0
  BY <1>1, <1>2, <1>3
<1>4. CASE count > 0
  <2>1. count \in Var
    BY <1>1, <1>4
  <2> QED
    BY <1>1, <1>2, <2>1, VarBound
<1> QED
  BY <1>1, <1>3, <1>4

\* A clause makes its variables known.
LEMMA AddingFacts ==
  ASSUME Inv, NEW c \in SUBSET Lit, count' = Max({count} \cup {VarOf(l) : l \in c})
  PROVE  /\ count' \in Nat /\ count <= count' /\ 1 .. count' \subseteq Var
         /\ \A s \in Seq(1 .. count) : s \in Seq(1 .. count')
         /\ \A l \in c : VarOf(l) \in 1 .. count'
<1> DEFINE T == {count} \cup {VarOf(l) : l \in c}
           n == Cardinality(Var)
<1>1. count \in Nat /\ 1 .. count \subseteq Var
  BY DEF Inv, TypeOK, ControlType
<1>2. n \in Nat /\ count <= n
  BY CountBound
<1>3. \A l \in c : VarOf(l) \in Var /\ VarOf(l) \in Nat /\ VarOf(l) <= n
  BY NegLit, VarBound
<1>4. T \in SUBSET Nat /\ T # {} /\ \A x \in T : x <= n
  BY <1>1, <1>2, <1>3
<1>5. Max(T) \in T /\ \A y \in T : y <= Max(T)
  <2> HIDE DEF T, n
  <2> QED
    BY <1>2, <1>4, MaxIn
<1>6. count' \in Nat /\ count <= count'
  BY <1>4, <1>5
<1>7. 1 .. count' \subseteq Var
  <2>1. CASE count' = count
    BY <1>1, <2>1
  <2>2. CASE count' # count
    <3>1. count' \in Var
      BY <1>3, <1>5, <2>2
    <3> QED
      BY <3>1, NumberingAssumption
  <2> QED
    BY <2>1, <2>2
<1>8. ASSUME NEW s \in Seq(1 .. count) PROVE s \in Seq(1 .. count')
  BY <1>1, <1>6
<1>9. ASSUME NEW l \in c PROVE VarOf(l) \in 1 .. count'
  <2>1. VarOf(l) \in T /\ VarOf(l) > 0 /\ VarOf(l) \in Nat
    BY <1>3, VarLit
  <2> QED
    BY <1>5, <1>6, <2>1
<1> QED
  BY <1>6, <1>7, <1>8, <1>9

\* The selector of the innermost scope.
LEMMA SelectorFacts ==
  ASSUME Inv
  PROVE  /\ selectors \in Seq(Lit)
         /\ selectors # << >> => /\ Last(selectors) \in Var /\ Neg(Last(selectors)) \in Lit
                                /\ Front(selectors) \in Seq(1 .. count)
<1>1. selectors \in Seq(1 .. count) /\ 1 .. count \subseteq Var
  BY DEF Inv, TypeOK, ControlType
<1> DEFINE S == 1 .. count
           n == Len(selectors)
<1>2. n \in Nat /\ selectors \in [1 .. n -> S]
  <2>1. selectors \in Seq(S)
    BY <1>1
  <2> HIDE DEF S
  <2> QED
    BY <2>1
<1>3. selectors \in Seq(Lit)
  <2>1. S \subseteq Lit
    BY <1>1, VarLit
  <2> HIDE DEF S
  <2> QED
    BY <1>1, <1>2, <2>1
<1>4. ASSUME selectors # << >>
      PROVE  /\ Last(selectors) \in Var /\ Neg(Last(selectors)) \in Lit
             /\ Front(selectors) \in Seq(1 .. count)
  <2> HIDE DEF S
  <2>1. selectors \in Seq(S) /\ S \subseteq Var
    BY <1>1 DEF S
  <2>2. n \in Nat \ {0}
    BY <1>4, <2>1, EmptySeq
  <2>3. Last(selectors) \in Var
    BY <1>2, <2>1, <2>2 DEF Last
  <2>4. Front(selectors) \in Seq(S)
    <3>1. \A i \in 1 .. n - 1 : selectors[i] \in S
      BY <1>2, <2>2
    <3> QED
      BY <2>1, <2>2, <3>1, SubSeqProperties DEF Front
  <2> QED
    BY <2>3, <2>4, VarLit DEF S
<1> QED
  BY <1>3, <1>4

\* The calls of the client.
LEMMA ClientControl ==
  ASSUME Inv, TrailKept, ClausesKept, CancelUntil(0) => Level' = 0 /\ head' <= head, ClientStep
  PROVE  ControlKept
<1> USE DEF assigned, client, query, answer, budget
<1>1. NoCache \in Answer /\ NoCache.result = "none"
  BY AnswerTyped
<1>2. head \in Nat /\ head' \in Nat
  BY DEF Inv, TypeOK, TrailType, TrailKept
<1>3. ASSUME NEW c \in SUBSET Lit, phase = "idle", scan = NoScan, conflict = 0,
             program' \in Seq(Operations), Prepare, Adding(c),
             selectors' \in Seq(1 .. count),
             UNCHANGED <<inputs, query, budget, consistent, started, scan, conflict, interrupted>>
      PROVE  ControlKept
  <2>1. /\ pending' = c /\ count' = Max({count} \cup {VarOf(l) : l \in c})
        /\ phase' = IF started /\ consistent /\ ~Tautology(c) THEN "add" ELSE "install"
        /\ Level' = 0 /\ head' <= head /\ cached' = NoCache /\ failed' = {}
    BY <1>3 DEF Adding, Prepare
  <2>2. /\ count' \in Nat /\ 1 .. count' \subseteq Var /\ selectors' \in Seq(1 .. count')
    BY <1>3, <2>1, AddingFacts
  <2>3. ControlType'
    BY <1>1, <1>3, <2>1, <2>2 DEF Inv, TypeOK, ControlType, Phases
  <2>4. PhaseOK'
    BY <1>2, <1>3, <2>1 DEF Inv, PhaseOK
  <2>5. AnswerOK'
    BY <1>1, <2>1 DEF AnswerOK, CacheOK, Querying
  <2> QED
    BY <1>3, <2>3, <2>4, <2>5, QuietKeeps DEF ControlKept
<1>4. CASE Add
  <2>1. Calls("add") /\ Prepare
        /\ Adding(Head(program).clause
                     \cup IF selectors = << >> THEN {} ELSE {Neg(Last(selectors))})
        /\ UNCHANGED <<selectors, inputs, query, budget, consistent, started, scan, conflict,
                       interrupted>>
    BY <1>4 DEF Add
  <2>2. /\ phase = "idle" /\ scan = NoScan /\ conflict = 0 /\ program' \in Seq(Operations)
        /\ Head(program) \in Operations /\ Head(program).op = "add"
    BY <2>1, CallFacts
  <2>3. Head(program).clause \subseteq Lit
    BY <2>2, ProgramAssumption DEF Clause
  <2>4. Head(program).clause
          \cup (IF selectors = << >> THEN {} ELSE {Neg(Last(selectors))}) \in SUBSET Lit
    BY <2>3, SelectorFacts
  <2>5. selectors' \in Seq(1 .. count)
    BY <2>1 DEF Inv, TypeOK, ControlType
  <2> QED
    BY <1>3, <2>1, <2>2, <2>4, <2>5
<1>5. CASE Pop
  <2>1. /\ Calls("pop") /\ selectors # << >> /\ Prepare /\ selectors' = Front(selectors)
        /\ Adding({Neg(Last(selectors))})
        /\ UNCHANGED <<inputs, query, budget, consistent, started, scan, conflict, interrupted>>
    BY <1>5 DEF Pop
  <2>2. /\ phase = "idle" /\ scan = NoScan /\ conflict = 0 /\ program' \in Seq(Operations)
    BY <2>1, CallFacts
  <2>3. {Neg(Last(selectors))} \in SUBSET Lit /\ selectors' \in Seq(1 .. count)
    BY <2>1, SelectorFacts
  <2> QED
    BY <1>3, <2>1, <2>2, <2>3
<1>6. CASE Push
  <2>1. /\ Calls("push") /\ count + 1 \in Var /\ CancelUntil(0) /\ cached' = NoCache /\ failed' = {}
        /\ count' = count + 1 /\ selectors' = Append(selectors, count + 1)
        /\ UNCHANGED <<inputs, query, budget, consistent, started, phase, scan, conflict, pending,
                       interrupted>>
    BY <1>6 DEF Push, Prepare
  <2>2. /\ phase = "idle" /\ scan = NoScan /\ conflict = 0 /\ program' \in Seq(Operations)
    BY <2>1, CallFacts
  <2>3. count' \in Nat /\ 1 .. count' \subseteq Var
    BY <2>1 DEF Inv, TypeOK, ControlType
  <2>4. selectors' \in Seq(1 .. count')
    <3>1. selectors \in Seq(1 .. count) /\ count \in Nat
      BY DEF Inv, TypeOK, ControlType
    <3>2. selectors \in Seq(1 .. count') /\ count + 1 \in 1 .. count'
      BY <2>1, <3>1
    <3> QED
      BY <2>1, <3>2, AppendProperties
  <2>5. ControlType'
    BY <1>1, <2>1, <2>2, <2>3, <2>4 DEF Inv, TypeOK, ControlType, Phases
  <2>6. PhaseOK'
    BY <1>2, <2>1, <2>2 DEF Inv, PhaseOK
  <2>7. AnswerOK'
    BY <1>1, <2>1, <2>2 DEF AnswerOK, CacheOK, Querying
  <2> QED
    BY <2>1, <2>2, <2>5, <2>6, <2>7, QuietKeeps DEF ControlKept
<1>7. CASE Refused \/ SolveCached
  <2>1. /\ UNCHANGED <<trail, limits, head, selectors, count, inputs, query, answer, budget, consistent, started,
                       phase, scan, conflict, pending, interrupted>>
        /\ phase = "idle" /\ scan = NoScan /\ conflict = 0 /\ program' \in Seq(Operations)
    <3>1. CASE Refused
      <4>1. PICK name : Calls(name)
        BY <3>1 DEF Refused
      <4> QED
        BY <3>1, <4>1, CallFacts DEF Refused
    <3>2. CASE SolveCached
      BY <3>2, CallFacts DEF SolveCached
    <3> QED
      BY <1>7, <3>1, <3>2
  <2>2. ControlType'
    BY <2>1 DEF Inv, TypeOK, ControlType
  <2>3. PhaseOK' /\ AnswerOK'
    BY <2>1 DEF Inv, PhaseOK, AnswerOK, CacheOK, Querying, Level
  <2> QED
    BY <2>1, <2>2, <2>3, QuietKeeps DEF ControlKept
<1>8. CASE Solve
  <2>1. /\ Calls("solve") /\ hard' = selectors /\ user' = Head(program).assume
        /\ limited' = Head(program).limited
        /\ CancelUntil(0) /\ started' = TRUE /\ failed' = {} /\ restarts' = 0 /\ reductions' = 0
        /\ phase' = "prepare"
        /\ UNCHANGED <<selectors, count, inputs, cached, consistent, scan, conflict, pending,
                       interrupted>>
    BY <1>8 DEF Solve
  <2>2. /\ phase = "idle" /\ scan = NoScan /\ conflict = 0 /\ program' \in Seq(Operations)
        /\ Head(program) \in Operations /\ Head(program).op = "solve"
    BY <2>1, CallFacts
  <2>3. Head(program).assume \in Seq(Lit) /\ Head(program).limited \in BOOLEAN
    BY <2>2, ProgramAssumption
  <2>4. selectors \in Seq(Lit)
    BY SelectorFacts
  <2>5. ControlType'
    BY <2>1, <2>2, <2>3, <2>4 DEF Inv, TypeOK, ControlType, Phases
  <2>6. PhaseOK'
    BY <2>1 DEF PhaseOK
  <2>7. AnswerOK'
    BY <2>1 DEF AnswerOK, CacheOK, Querying
  <2> QED
    BY <2>1, <2>2, <2>5, <2>6, <2>7, QuietKeeps DEF ControlKept
<1> QED
  BY <1>4, <1>5, <1>6, <1>7, <1>8 DEF ClientStep

\* The steps of adding a clause.
LEMMA InstallControl ==
  ASSUME Inv, Propagated \/ AddIgnored \/ AddFalsified \/ AddUnit \/ AddStored \/ Settle
  PROVE  ControlKept
<1> USE DEF assigned, client, query, answer, budget
<1>1. CASE Propagated \/ Settle
  <2>1. /\ phase \in {"add", "settle"} /\ phase' \in {"install", "idle"}
        /\ scan = NoScan /\ conflict = 0
        /\ UNCHANGED <<trail, limits, head, client, query, answer, budget, consistent, started,
                       scan, conflict, pending, interrupted>>
    BY <1>1 DEF Propagated, Settle, Fixpoint, Quiet
  <2>2. ControlType'
    BY <2>1 DEF Inv, TypeOK, ControlType, Phases
  <2>3. PhaseOK'
    BY <2>1 DEF Inv, PhaseOK, Level
  <2>4. AnswerOK'
    BY <2>1 DEF Inv, AnswerOK, CacheOK, Querying
  <2> QED
    BY <2>1, <2>2, <2>3, <2>4, QuietKeeps DEF ControlKept
<1>2. CASE AddIgnored \/ AddFalsified \/ AddUnit \/ AddStored
  <2>1. /\ Installing
        /\ phase' = "idle" \/ (phase' = "settle" /\ started)
        /\ consistent' \in {FALSE, consistent}
        /\ phase' = "settle" => consistent' = consistent
    BY <1>2 DEF AddIgnored, AddFalsified, AddUnit, AddStored
  <2>2. /\ phase = "install" /\ inputs' = inputs \cup {pending} /\ scan = NoScan /\ conflict = 0
        /\ UNCHANGED <<program, selectors, count, limits, head, query, answer, budget,
                       started, scan, conflict, pending, interrupted>>
    BY <2>1, IdleQuiet DEF Installing
  <2>3. ControlType'
    BY <2>1, <2>2 DEF Inv, TypeOK, ControlType, Phases
  <2>4. PhaseOK'
    BY <2>1, <2>2 DEF Inv, PhaseOK, Level
  <2>5. AnswerOK'
    BY <2>1, <2>2 DEF Inv, AnswerOK, CacheOK, Querying
  <2> QED
    BY <2>2, <2>3, <2>4, <2>5, QuietKeeps DEF ControlKept
<1> QED
  BY <1>1, <1>2

-----------------------------------------------------------------------------
(***************************************************************************)
(* Inv is inductive.                                                       *)
(***************************************************************************)

\* The trail between two steps that do not touch it.
LEMMA TrailFrame ==
  ASSUME Inv, ClausesKept, UNCHANGED <<trail, limits, head>>
  PROVE  TrailKept
<1>1. head \in Nat /\ head <= Len(trail)
  BY DEF Inv, TypeOK, TrailType, TrailOK
<1> QED
  BY <1>1, QueueTrail

\* Backtracking to the root.
LEMMA RootTrail ==
  ASSUME Inv, ClausesKept, CancelUntil(0)
  PROVE  TrailKept /\ Level' = 0 /\ head' <= head
<1>1. 0 \in 0 .. Level /\ head \in Nat /\ TypeOK /\ TrailOK
  BY DEF Inv, TypeOK, TrailType, Level
<1>2. Len(Kept(0)) \in Nat
  BY <1>1, KeptFacts
<1> QED
  BY <1>1, <1>2, BacktrackTrail, MinOfTwo DEF CancelUntil

\* Every step leaves a trail and an orderly control.
LEMMA TrailStep ==
  ASSUME Inv, [Next]_vars, ClausesKept
  PROVE  TrailKept /\ ControlKept
<1>1. CASE Dequeue \/ DropWatch \/ SkipWatch \/ KeepWatch \/ MoveWatch \/ Imply \/ Conflict
  <2>1. ControlKept
    BY <1>1, PropagationControl
  <2>2. CASE Dequeue
    <3>1. UNCHANGED <<trail, limits>> /\ head' = head + 1 /\ head < Len(trail)
      BY <2>2 DEF Dequeue
    <3>2. head \in Nat /\ Len(trail) \in Nat
      BY DEF Inv, TypeOK, TrailType
    <3> QED
      BY <2>1, <3>1, <3>2, QueueTrail
  <2>3. CASE DropWatch \/ SkipWatch \/ KeepWatch \/ MoveWatch \/ Conflict
    <3>1. UNCHANGED <<trail, limits, head>>
      BY <2>3 DEF DropWatch, SkipWatch, KeepWatch, MoveWatch, Conflict, Unmoved
    <3> QED
      BY <2>1, <3>1, TrailFrame
  <2>4. CASE Imply
    <3>1. PICK l \in Lit, r \in Nat : Level \in 0 .. Level /\ Asserts(l, Level, r) /\ Justified(l, Level, r)
      BY <2>4, ImplyAsserts
    <3> QED
      BY <2>1, <3>1, AssertTrail
  <2> QED
    BY <1>1, <2>2, <2>3, <2>4
<1>2. CASE Learn
  <2>1. PICK l \in Lit, r \in Nat, k \in 0 .. Level : Asserts(l, k, r) /\ Justified(l, k, r)
    BY <1>2, LearnAsserts
  <2> QED
    BY <1>2, <2>1, AssertTrail, SearchControl
<1>3. CASE Reduce \/ NoRestart \/ BeginSearch
  <2>1. UNCHANGED <<trail, limits, head>>
    BY <1>3 DEF Reduce, NoRestart, BeginSearch, assigned
  <2> QED
    BY <1>3, <2>1, TrailFrame, SearchControl
<1>4. CASE Restart
  <2>1. PICK k \in 0 .. Level - 1 : CancelUntil(k)
    BY <1>4 DEF Restart
  <2>2. k \in 0 .. Level
    BY DEF Inv, TypeOK, TrailType, Level
  <2> QED
    BY <1>4, <2>1, <2>2, BacktrackTrail, SearchControl
<1>5. CASE RootConflict \/ AnswerInconsistent \/ AnswerSat \/ GiveUp \/ FailAssumption
  <2>1. CancelUntil(0) \/ UNCHANGED <<trail, limits, head>>
    BY <1>5 DEF RootConflict, AnswerInconsistent, AnswerSat, GiveUp, FailAssumption, assigned
  <2>2. TrailKept
    BY <2>1, RootTrail, TrailFrame
  <2>3. CancelUntil(0) => Level' = 0
    BY RootTrail
  <2> QED
    BY <1>5, <2>2, <2>3, AnswerControl
<1>6. CASE Assume \/ Decide
  BY <1>6, OpensControl, OpenTrail
<1>7. CASE Propagated \/ AddIgnored \/ AddFalsified \/ AddUnit \/ AddStored \/ Settle
  <2>1. CASE AddUnit
    <3>1. PICK l \in Lit, r \in Nat : Level \in 0 .. Level /\ Asserts(l, Level, r) /\ Justified(l, Level, r)
      BY <2>1, AddUnitAsserts
    <3> QED
      BY <1>7, <3>1, AssertTrail, InstallControl
  <2>2. CASE AddStored /\ trail' # trail
    <3>1. PICK l \in Lit, r \in Nat : Level \in 0 .. Level /\ Asserts(l, Level, r) /\ Justified(l, Level, r)
      BY <2>2, AddStoredAsserts
    <3> QED
      BY <1>7, <3>1, AssertTrail, InstallControl
  <2>3. CASE Propagated \/ AddIgnored \/ AddFalsified \/ Settle \/ (AddStored /\ trail' = trail)
    <3>1. UNCHANGED <<trail, limits, head>>
      BY <2>3 DEF Propagated, AddIgnored, AddFalsified, Settle, AddStored, Installing, assigned
    <3> QED
      BY <1>7, <3>1, TrailFrame, InstallControl
  <2> QED
    BY <1>7, <2>1, <2>2, <2>3
<1>8. CASE ClientStep
  <2>1. CancelUntil(0) \/ UNCHANGED <<trail, limits, head>>
    BY <1>8 DEF ClientStep, Add, Push, Pop, Refused, SolveCached, Solve, Prepare, assigned
  <2>2. TrailKept
    BY <2>1, RootTrail, TrailFrame
  <2>3. CancelUntil(0) => Level' = 0 /\ head' <= head
    BY RootTrail
  <2> QED
    BY <1>8, <2>2, <2>3, ClientControl
<1>9. CASE Interrupt \/ UNCHANGED vars
  <2>1. /\ UNCHANGED <<clauses, assigned, client, query, answer, budget, consistent, started,
                       phase, scan, conflict, pending>>
        /\ interrupted' \in BOOLEAN
    BY <1>9 DEF Interrupt, vars, database, Inv, TypeOK, ControlType
  <2>2. TrailKept
    BY <2>1, TrailFrame DEF assigned
  <2> QED
    BY <2>1, <2>2, NothingChanges
<1> QED
  BY <1>1, <1>2, <1>3, <1>4, <1>5, <1>6, <1>7, <1>8, <1>9 DEF Next, SolverStep

\* It holds of a new solver.
LEMMA KernelInit ==
  ASSUME Init
  PROVE  Inv
<1> USE DEF Init
<1>1. trail = << >> /\ limits = << >> /\ clauses = << >> /\ Level = 0 /\ Positions = {}
      /\ Refs = {} /\ Stored = {} /\ scan = NoScan
  BY DEF Level, Positions, Refs, Stored
<1>2. TypeOK
  <2>1. DatabaseType
    BY DEF DatabaseType
  <2>2. TrailType
    BY DEF TrailType
  <2>3. ControlType
    <3>1. program \in Seq(Operations) /\ NoCache \in Answer
      BY ProgramAssumption DEF NoCache, Answer
    <3>2. count = 0 /\ 1 .. count \subseteq Var
      OBVIOUS
    <3>3. selectors \in Seq(1 .. count) /\ hard \in Seq(Lit) /\ user \in Seq(Lit)
      OBVIOUS
    <3>4. phase \in Phases
      BY DEF Phases
    <3>5. cached \in Answer /\ failed \subseteq Lit /\ pending \subseteq Lit /\ inputs \subseteq SUBSET Lit
      BY <3>1
    <3>6. /\ consistent \in BOOLEAN /\ started \in BOOLEAN
          /\ limited \in BOOLEAN /\ interrupted \in BOOLEAN
      OBVIOUS
    <3>7. count \in Nat /\ conflict \in Nat /\ restarts \in Nat /\ reductions \in Nat
      OBVIOUS
    <3> HIDE DEF Init
    <3> QED
      BY <3>1, <3>2, <3>3, <3>4, <3>5, <3>6, <3>7 DEF ControlType
  <2> QED
    BY <2>1, <2>2, <2>3 DEF TypeOK
<1>3. TrailOK /\ ReasonsOK
  BY <1>1 DEF TrailOK, ReasonsOK
<1>4. ScanOK /\ ConflictOK /\ PhaseOK /\ AnswerOK
  BY <1>1 DEF ScanOK, ConflictOK, PhaseOK, AnswerOK, CacheOK, Querying, NoCache
<1>5. \A l \in Lit : ListOf(l) = << >>
  <2>1. 0 \notin Lit
    BY NegLit
  <2> QED
    BY <1>1, <2>1, ConcatEmptySeq DEF ListOf, NoScan
<1>6. RefsOK
  BY <1>5 DEF RefsOK
<1>7. WatchedOK
  BY <1>1 DEF WatchedOK
<1> QED
  BY <1>2, <1>3, <1>4, <1>6, <1>7 DEF Inv

\* Inv holds between any two steps of the solver: its clause arena, watch
\* lists, trail, reasons, scan, conflict, phases and result cache.
THEOREM KernelInvariance == Spec => []Inv
<1>1. Init => Inv
  BY KernelInit
<1>2. Inv /\ [Next]_vars => Inv'
  <2> SUFFICES ASSUME Inv, [Next]_vars PROVE Inv'
    OBVIOUS
  <2>1. DatabaseKept
    BY DatabaseStep
  <2>2. TrailKept /\ ControlKept
    BY <2>1, TrailStep DEF DatabaseKept
  <2> QED
    BY <2>1, <2>2 DEF DatabaseKept, TrailKept, ControlKept, Inv, TypeOK
<1> QED
  BY <1>1, <1>2, PTL DEF Spec

-----------------------------------------------------------------------------
(***************************************************************************)
(* What the runs check.                                                    *)
(***************************************************************************)

\* The state of the solver is always typed.
THEOREM Typed == Spec => []TypeOK
<1>1. Inv => TypeOK
  BY DEF Inv
<1> QED
  BY <1>1, KernelInvariance, PTL

\* Propagation, however its lists are rewritten while they are scanned, keeps
\* every stored clause watched by its first two literals, once each, with
\* one of its own literals as the blocker.
THEOREM WatchesRight == Spec => []WatchedOK
<1>1. Inv => WatchedOK
  BY DEF Inv
<1> QED
  BY <1>1, KernelInvariance, PTL

\* Backtracking, chronological or not, and reuse of the trail leave level
\* limits that cut the trail into its levels, with the queue's head on it.
THEOREM LevelsRight == Spec => []LevelsOK
<1>1. Inv => LevelsOK
  <2> SUFFICES ASSUME Inv PROVE LevelsOK
    OBVIOUS
  <2>1. /\ TypeOK /\ TrailOK /\ head \in Nat /\ Len(trail) \in Nat /\ head <= Len(trail)
        /\ Level \in Nat
    BY DEF Inv, TypeOK, TrailType, TrailOK, Level
  <2>2. ASSUME NEW i \in Positions
        PROVE  trail[i].lev = Cardinality({k \in 1 .. Level : limits[k] < i})
    <3>1. trail[i].lev \in Nat /\ trail[i].lev <= Level
      BY <2>1, EntryFields DEF TrailOK
    <3>2. {k \in 1 .. Level : limits[k] < i} = 1 .. trail[i].lev
      BY <2>1, <3>1 DEF TrailOK
    <3>3. Cardinality(1 .. trail[i].lev) = trail[i].lev
      BY <3>1, FS_Interval
    <3> QED
      BY <3>2, <3>3
  <2> QED
    BY <2>1, <2>2 DEF LevelsOK, Positions
<1> QED
  BY <1>1, KernelInvariance, PTL

\* A cached answer belongs to the selectors and assumptions it would be
\* returned for, through every mutation, failure and interruption.
THEOREM CacheRight == Spec => []CacheOK
<1>1. Inv => CacheOK
  BY DEF Inv, AnswerOK
<1> QED
  BY <1>1, KernelInvariance, PTL

\* analyze() always finds a literal of the current level in the conflict.
THEOREM ConflictCurrent == Spec => []ConflictIsCurrent
<1>1. Inv => ConflictIsCurrent
  <2> SUFFICES ASSUME Inv, conflict # 0 PROVE Current(LitsOf(conflict)) # {}
    BY DEF ConflictIsCurrent
  <2>1. /\ head \in Positions /\ trail[head].lev = Level
        /\ Neg(trail[head].lit) \in LitsOf(conflict)
    BY DEF Inv, ConflictOK, AtHead
  <2>2. trail[head].lit \in Lit /\ TypeOK /\ TrailOK
    BY <2>1, EntryFields DEF Inv
  <2>3. LevelOf(Neg(trail[head].lit)) = Level
    BY <2>1, <2>2, NegLit, EntryOf
  <2> QED
    BY <2>1, <2>3 DEF Current
<1> QED
  BY <1>1, KernelInvariance, PTL

\* First-UIP analysis of a conflict above the root learns a clause of false
\* literals with exactly one of the current level, the others at the level
\* it jumps to or below: after backtracking the clause is unit.
THEOREM AnalysisRight ==
  Spec => [](conflict # 0 /\ Level > 0 =>
               LET c == Minimized(FirstUip) IN
               /\ \A l \in c : IsFalse(l) /\ LevelOf(l) > 0
               /\ \E u \in c : /\ LevelOf(u) = Level
                              /\ \A l \in c \ {u} : LevelOf(l) <= JumpLevel(c)
               /\ JumpLevel(c) <= BacktrackLevel(c) /\ BacktrackLevel(c) < Level)
<1> DEFINE Right(c) == /\ \A l \in c : IsFalse(l) /\ LevelOf(l) > 0
                       /\ \E u \in c : /\ LevelOf(u) = Level
                                      /\ \A l \in c \ {u} : LevelOf(l) <= JumpLevel(c)
                       /\ JumpLevel(c) <= BacktrackLevel(c) /\ BacktrackLevel(c) < Level
<1>1. Inv => (conflict # 0 /\ Level > 0 => Right(Minimized(FirstUip)))
  <2> SUFFICES ASSUME Inv, conflict # 0, Level > 0 PROVE Right(Minimized(FirstUip))
    OBVIOUS
  <2>1. TypeOK /\ TrailOK /\ ReasonsOK /\ ConflictOK
    BY DEF Inv
  <2>2. PICK c : c = Minimized(FirstUip)
    OBVIOUS
  <2>3. c \subseteq Blamed /\ \E u : Current(c) = {u}
    BY <2>1, <2>2, UipFacts, MinimizedFacts
  <2>4. PICK u : Current(c) = {u}
    BY <2>3
  <2>5. /\ JumpLevel(c) \in Nat
        /\ JumpLevel(c) <= BacktrackLevel(c) /\ BacktrackLevel(c) < Level
        /\ \A l \in c \ {u} : LevelOf(l) \in 1 .. JumpLevel(c)
        /\ u \in c /\ LevelOf(u) = Level
    BY <2>1, <2>3, <2>4, LearnedFacts
  <2>6. \A l \in c : IsFalse(l) /\ LevelOf(l) > 0
    BY <2>3 DEF Blamed
  <2>7. \A l \in c \ {u} : LevelOf(l) <= JumpLevel(c)
    BY <2>5
  <2>8. Right(c)
    BY <2>5, <2>6, <2>7
  <2> QED
    BY <2>2, <2>8
<1> QED
  BY <1>1, KernelInvariance, PTL


-----------------------------------------------------------------------------
(***************************************************************************)
(* The scheme, one clause at a time.                                       *)
(***************************************************************************)
OneFor(r) == \A i \in Positions : \A w \in Watched(r) :
  Examined(r, w, i) /\ (Chrono => trail[i].lev = 0) => Supported(r, trail[i].lev)

TwoFor(r) == \A i, j \in Positions : \A v, w \in Watched(r) :
  v # w /\ Examined(r, v, i) /\ Examined(r, w, j)
    => Supported(r, trail[i].lev) \/ Supported(r, trail[j].lev)

SoundFor(r) == OneFor(r) /\ TwoFor(r)

\* The guarantees, for all stored clauses or for each of them.
LEMMA SchemeAlt == OneFalse /\ TwoFalse <=> \A r \in Stored : SoundFor(r)
BY DEF OneFalse, TwoFalse, SoundFor, OneFor, TwoFor

\* The same in the next state.
LEMMA SchemeAltNext == OneFalse' /\ TwoFalse' <=> \A r \in Stored' : SoundFor(r)'
BY DEF OneFalse, TwoFalse, SoundFor, OneFor, TwoFor

\* The watch w of r, false at i in the next state, was examined before at the
\* same level, and what supported r at that level still does.
Followed(r, w, i) ==
  /\ i \in Positions /\ w \in Watched(r) /\ Examined(r, w, i)
  /\ trail'[i].lev = trail[i].lev
  /\ \A k : k = trail[i].lev /\ Supported(r, k) => Supported(r, k)'

\* A watch is supported at the level it is false at.
SupportedAt(r, i) == \E k : k = trail'[i].lev /\ Supported(r, k)'

\* A clause stays sound when each of its watches is followed or supported.
LEMMA SoundKept ==
  ASSUME NEW r, SoundFor(r),
         \A i \in Positions' : \A w \in Watched(r)' :
           Examined(r, w, i)' => Followed(r, w, i) \/ SupportedAt(r, i)
  PROVE  SoundFor(r)'
<1>1. ASSUME NEW i \in Positions', SupportedAt(r, i) PROVE Supported(r, trail[i].lev)'
  BY <1>1 DEF SupportedAt, Supported
<1>2. ASSUME NEW i \in Positions', NEW w, Followed(r, w, i), Supported(r, trail[i].lev)
      PROVE  Supported(r, trail[i].lev)'
  <2>1. PICK k : k = trail[i].lev
    OBVIOUS
  <2>2. Supported(r, k)' /\ trail'[i].lev = k
    BY <1>2, <2>1 DEF Followed
  <2> QED
    BY <2>2 DEF Supported
<1>3. OneFor(r)'
  <2> SUFFICES ASSUME NEW i \in Positions', NEW w \in Watched(r)', Examined(r, w, i)',
                      Chrono => trail'[i].lev = 0
               PROVE  Supported(r, trail[i].lev)'
    BY DEF OneFor
  <2>1. CASE SupportedAt(r, i)
    BY <1>1, <2>1
  <2>2. CASE Followed(r, w, i)
    <3>1. i \in Positions /\ w \in Watched(r) /\ Examined(r, w, i) /\ trail'[i].lev = trail[i].lev
      BY <2>2 DEF Followed
    <3>2. Supported(r, trail[i].lev)
      BY <3>1 DEF SoundFor, OneFor
    <3> QED
      BY <1>2, <2>2, <3>2
  <2> QED
    BY <2>1, <2>2
<1>4. TwoFor(r)'
  <2> SUFFICES ASSUME NEW i \in Positions', NEW j \in Positions',
                      NEW v \in Watched(r)', NEW w \in Watched(r)', v # w,
                      Examined(r, v, i)', Examined(r, w, j)'
               PROVE  Supported(r, trail[i].lev)' \/ Supported(r, trail[j].lev)'
    BY DEF TwoFor
  <2>1. CASE SupportedAt(r, i) \/ SupportedAt(r, j)
    BY <1>1, <2>1
  <2>2. CASE Followed(r, v, i) /\ Followed(r, w, j)
    <3>1. /\ i \in Positions /\ v \in Watched(r) /\ Examined(r, v, i)
          /\ j \in Positions /\ w \in Watched(r) /\ Examined(r, w, j)
      BY <2>2 DEF Followed
    <3>2. Supported(r, trail[i].lev) \/ Supported(r, trail[j].lev)
      BY <3>1 DEF SoundFor, TwoFor
    <3> QED
      BY <1>2, <2>2, <3>2
  <2> QED
    BY <2>1, <2>2
<1> QED
  BY <1>3, <1>4 DEF SoundFor

\* The clause r has the same literals and the same watches.
Same(r) == LitsOf(r)' = LitsOf(r) /\ Watched(r)' = Watched(r)

\* The trail grows at its end.
Grows == \A i \in Positions : i \in Positions' /\ trail'[i] = trail[i]

\* What supports a clause stays on a longer trail.
LEMMA SupportGrows ==
  ASSUME Grows, NEW r, LitsOf(r)' = LitsOf(r), NEW k, Supported(r, k)
  PROVE  Supported(r, k)'
BY DEF Grows, Supported

\* Assignments before the head of the queue are the same on a longer trail.
LEMMA FalseBefore ==
  ASSUME Inv, Grows, NEW w, NEW i \in Positions', i <= head, FalseAt(w, i)'
  PROVE  i \in Positions /\ trail'[i] = trail[i] /\ FalseAt(w, i)
<1>1. i \in Positions
  BY DEF Positions, Inv, TypeOK, TrailType, TrailOK
<1> QED
  BY <1>1 DEF Grows, FalseAt

\* A step that leaves the queue and the scan alone.
LEMMA SoundGrows ==
  ASSUME Inv, NEW r, SoundFor(r), Same(r), Grows, scan' = scan, head' = head,
         conflict' = conflict, conflict = 0 \/ limits' = limits
  PROVE  SoundFor(r)'
<1> SUFFICES ASSUME NEW i \in Positions', NEW w \in Watched(r)', Examined(r, w, i)'
             PROVE  Followed(r, w, i)
  BY SoundKept
<1>1. i <= head /\ FalseAt(w, i)'
  BY DEF Examined
<1>2. i \in Positions /\ trail'[i] = trail[i] /\ FalseAt(w, i)
  BY <1>1, FalseBefore
<1>3. ~Unvisited(r, w)
  BY DEF Examined, Unvisited
<1>4. conflict # 0 => trail[i].lev < Level
  BY <1>2 DEF Examined, Level
<1>5. Examined(r, w, i)
  BY <1>1, <1>2, <1>3, <1>4 DEF Examined
<1> QED
  BY <1>2, <1>5, SupportGrows DEF Followed, Same

\* A step that backtracks to level k, and perhaps asserts.
LEMMA SoundBacktracks ==
  ASSUME Inv, NEW r, SoundFor(r), Same(r), scan = NoScan, scan' = NoScan, conflict' = 0,
         NEW k \in 0 .. Level, conflict # 0 => k < Level,
         \A i \in 1 .. Len(Kept(k)) : i \in Positions' /\ trail'[i] = trail[i],
         head' \in Nat, head' <= head, head' <= Len(Kept(k))
  PROVE  SoundFor(r)'
<1>1. TypeOK /\ TrailOK /\ head \in Nat
  BY DEF Inv, TypeOK, TrailType
<1>2. /\ Len(Kept(k)) \in Nat /\ Len(Kept(k)) <= Len(trail)
      /\ \A i \in Positions : i <= Len(Kept(k)) <=> trail[i].lev <= k
  BY <1>1, KeptFacts
<1> SUFFICES ASSUME NEW i \in Positions', NEW w \in Watched(r)', Examined(r, w, i)'
             PROVE  Followed(r, w, i)
  BY SoundKept
<1>3. i \in Nat /\ 1 <= i /\ i <= head' /\ FalseAt(w, i)'
  BY DEF Examined, Positions
<1>4. i \in 1 .. Len(Kept(k)) /\ i \in Positions /\ i <= head
  BY <1>1, <1>2, <1>3 DEF Positions
<1>5. trail'[i] = trail[i] /\ FalseAt(w, i) /\ trail[i].lev <= k /\ trail[i].lev \in Nat
  BY <1>1, <1>2, <1>3, <1>4, EntryFields DEF FalseAt
<1>6. ~Unvisited(r, w)
  BY DEF Unvisited, NoScan
<1>7. conflict # 0 => trail[i].lev < Level
  BY <1>1, <1>5 DEF TypeOK, TrailType, Level
<1>8. Examined(r, w, i)
  BY <1>4, <1>5, <1>6, <1>7 DEF Examined
<1>9. ASSUME NEW m, m = trail[i].lev, Supported(r, m) PROVE Supported(r, m)'
  <2>1. PICK h \in Positions : trail[h].lit \in LitsOf(r) /\ trail[h].lev <= m
    BY <1>9 DEF Supported
  <2>2. trail[h].lev <= k /\ h \in 1 .. Len(Kept(k))
    BY <1>1, <1>2, <1>5, <1>9, <2>1, EntryFields DEF Positions
  <2>3. h \in Positions' /\ trail'[h] = trail[h]
    BY <2>2
  <2> QED
    BY <2>1, <2>3 DEF Supported, Same
<1> QED
  BY <1>4, <1>5, <1>8, <1>9 DEF Followed, Same

-----------------------------------------------------------------------------
(***************************************************************************)
(* Steps that leave the clauses alone.                                     *)
(***************************************************************************)
Regular == OneFalse /\ TwoFalse

\* Clauses that do not change keep their literals and watches.
LEMMA SameClauses ==
  ASSUME clauses' = clauses
  PROVE  Stored' = Stored /\ \A r : Same(r)
BY DEF Same, Stored, LitsOf, Watched

\* Assignments are added, or nothing happens to clauses, queue and scan.
LEMMA GrowingStep ==
  ASSUME Inv, Regular, clauses' = clauses, UNCHANGED <<scan, head, conflict>>, Grows,
         conflict = 0 \/ limits' = limits
  PROVE  Regular'
<1>1. ASSUME NEW r \in Stored' PROVE SoundFor(r)'
  <2>1. r \in Stored /\ Same(r)
    BY SameClauses
  <2>2. SoundFor(r)
    BY <2>1, SchemeAlt DEF Regular
  <2> QED
    BY <2>1, <2>2, SoundGrows
<1> QED
  BY <1>1, SchemeAltNext DEF Regular

\* Backtracking.
LEMMA BacktrackStep ==
  ASSUME Inv, Regular, clauses' = clauses, scan = NoScan, scan' = NoScan, conflict' = 0,
         NEW k \in 0 .. Level, conflict # 0 => k < Level, CancelUntil(k)
  PROVE  Regular'
<1>1. TypeOK /\ TrailOK /\ head \in Nat
  BY DEF Inv, TypeOK, TrailType
<1>2. /\ Len(Kept(k)) \in Nat /\ Len(Kept(k)) <= Len(trail)
      /\ \A i \in 1 .. Len(Kept(k)) : Kept(k)[i] = trail[i]
  BY <1>1, KeptFacts
<1>3. /\ \A i \in 1 .. Len(Kept(k)) : i \in Positions' /\ trail'[i] = trail[i]
      /\ head' \in Nat /\ head' <= head /\ head' <= Len(Kept(k))
  BY <1>1, <1>2, MinOfTwo DEF CancelUntil, Positions
<1>4. ASSUME NEW r \in Stored' PROVE SoundFor(r)'
  <2>1. r \in Stored /\ Same(r)
    BY SameClauses
  <2>2. SoundFor(r)
    BY <2>1, SchemeAlt DEF Regular
  <2> QED
    BY <1>3, <2>1, <2>2, SoundBacktracks
<1> QED
  BY <1>4, SchemeAltNext DEF Regular

-----------------------------------------------------------------------------
(***************************************************************************)
(* Propagation.                                                            *)
(***************************************************************************)

\* The watches of the dequeued literal's complement are now to be visited.
LEMMA DequeueRegular ==
  ASSUME Inv, Regular, Dequeue
  PROVE  Regular'
<1>1. /\ TypeOK /\ scan = NoScan /\ conflict = 0 /\ conflict' = 0 /\ clauses' = clauses
      /\ UNCHANGED <<trail, limits>> /\ head' = head + 1 /\ head \in Nat
  BY DEF Inv, TypeOK, TrailType, Dequeue, Quiet
<1>2. PICK f : f = Neg(trail[head + 1].lit)
  OBVIOUS
<1>3. scan' = Unread(f, watches[f]) /\ head + 1 \in Positions /\ f \in Lit
  BY <1>2, DequeueStep DEF Dequeue
<1>4. ASSUME NEW r \in Stored' PROVE SoundFor(r)'
  <2>1. r \in Stored /\ Same(r) /\ SoundFor(r)
    BY <1>1, SameClauses, SchemeAlt DEF Regular
  <2> SUFFICES ASSUME NEW i \in Positions', NEW w \in Watched(r)', Examined(r, w, i)'
               PROVE  Followed(r, w, i)
    BY <2>1, SoundKept
  <2>2. /\ i \in Positions /\ trail'[i] = trail[i] /\ FalseAt(w, i) /\ i <= head + 1
        /\ w \in Watched(r)
    BY <1>1, <2>1 DEF Examined, FalseAt, Positions, Same
  <2>3. i # head + 1
    <3> SUFFICES ASSUME i = head + 1 PROVE FALSE
      OBVIOUS
    <3>1. w = f
      <4>1. w \in Lit /\ r \in Refs
        BY <1>1, <2>1, <2>2, WatchedFields DEF Stored, Refs
      <4> QED
        BY <1>2, <2>2, <4>1, NegLit DEF FalseAt
    <3>2. ListOf(f) = watches[f]
      BY <1>1, <1>3, NoScanLists
    <3>3. Once(watches[f], r, LitsOf(r) \ {f})
      BY <1>3, <2>1, <2>2, <3>1, <3>2, WatchedAlt DEF Inv
    <3>4. PICK j \in 1 .. Len(watches[f]) : watches[f][j].ref = r
      BY <3>3 DEF Once
    <3>5. watches[f] # << >>
      BY <3>4
    <3>6. scan'.lit = f /\ scan'.rest = watches[f]
      BY <1>3, <3>5 DEF Unread
    <3>7. Unvisited(r, w)'
      BY <3>1, <3>4, <3>6 DEF Unvisited
    <3> QED
      BY <3>7 DEF Examined
  <2>4. i <= head
    BY <1>1, <2>2, <2>3 DEF Positions
  <2>5. ~Unvisited(r, w)
    BY <1>1 DEF Unvisited, NoScan
  <2>6. Examined(r, w, i)
    BY <1>1, <2>2, <2>4, <2>5 DEF Examined
  <2>7. \A k : Supported(r, k) => Supported(r, k)'
    BY <1>1, <2>1 DEF Supported, Same, Positions
  <2> QED
    BY <2>2, <2>6, <2>7 DEF Followed
<1> QED
  BY <1>4, SchemeAltNext DEF Regular

\* What is still to be visited of another clause stays so.
LEMMA StillUnvisited ==
  ASSUME Inv, scan # NoScan, NextWatch, NEW r, r # Visited.ref, NEW w, Unvisited(r, w)
  PROVE  Unvisited(r, w)'
<1>1. scan.rest \in Seq(Watch) /\ scan.rest # << >>
  BY ScanFacts
<1>2. PICK j \in 1 .. Len(scan.rest) : scan.rest[j].ref = r
  BY DEF Unvisited
<1>3. j # 1
  BY <1>1, <1>2 DEF Visited
<1>4. PICK t, g : g = scan.rest /\ t = Tail(g)
  OBVIOUS
<1>5. j - 1 \in 1 .. Len(t) /\ t[j - 1] = scan.rest[j] /\ t # << >>
  <2>1. /\ g \in Seq(Watch) /\ g # << >> /\ t \in Seq(Watch) /\ Len(g) \in Nat
        /\ Len(t) = Len(g) - 1 /\ \A i \in 1 .. Len(t) : t[i] = g[i + 1]
    BY <1>1, <1>4
  <2>2. j \in 2 .. Len(g)
    BY <1>2, <1>3, <1>4, <2>1
  <2>3. j - 1 \in 1 .. Len(t) /\ (j - 1) + 1 = j
    BY <2>1, <2>2
  <2>4. t[j - 1] = g[j]
    BY <2>1, <2>3
  <2>5. t # << >>
    BY <2>1, <2>3
  <2> QED
    BY <1>4, <2>3, <2>4, <2>5
<1>6. scan'.lit = scan.lit /\ scan'.rest = t
  BY <1>4, <1>5 DEF NextWatch, Unread
<1> QED
  BY <1>2, <1>5, <1>6 DEF Unvisited

\* A visit leaves the other clauses sound.
LEMMA OtherClause ==
  ASSUME Inv, scan # NoScan, NextWatch, NEW r, r # Visited.ref, Same(r), SoundFor(r),
         Grows, UNCHANGED <<head, conflict>>
  PROVE  SoundFor(r)'
<1>1. conflict = 0
  BY ScanFacts
<1> SUFFICES ASSUME NEW i \in Positions', NEW w \in Watched(r)', Examined(r, w, i)'
             PROVE  Followed(r, w, i)
  BY SoundKept
<1>2. i <= head /\ FalseAt(w, i)' /\ ~Unvisited(r, w)'
  BY DEF Examined
<1>3. i \in Positions /\ trail'[i] = trail[i] /\ FalseAt(w, i)
  BY <1>2, FalseBefore
<1>4. ~Unvisited(r, w)
  BY <1>2, StillUnvisited
<1>5. Examined(r, w, i)
  BY <1>1, <1>2, <1>3, <1>4 DEF Examined
<1> QED
  BY <1>3, <1>5, SupportGrows DEF Followed, Same

\* The literal a visit is about is false at the head of the queue.
LEMMA ScannedAt ==
  ASSUME Inv, scan # NoScan, NEW i, FalseAt(scan.lit, i)
  PROVE  i = head /\ trail[i].lev = Level
<1>1. /\ TypeOK /\ TrailOK /\ scan.lit \in Lit /\ scan.lit = Neg(trail[head].lit)
      /\ head \in Positions /\ trail[head].lev = Level
  BY ScanFacts DEF Inv
<1>2. PICK f : f = scan.lit
  OBVIOUS
<1>3. FalseAt(f, head)
  BY <1>1, <1>2, EntryFields, NegLit DEF FalseAt
<1> QED
  BY <1>1, <1>2, <1>3, FalseFacts

\* A visit that finds or makes a literal true leaves its clause sound.
LEMMA TrueClause ==
  ASSUME Inv, Visiting(FALSE), NEW q, q = Visited.ref, Same(q), SoundFor(q),
         Grows, UNCHANGED <<limits, head, conflict>>,
         NEW t \in LitsOf(q), NEW p \in Positions', trail'[p].lit = t, trail'[p].lev <= Level
  PROVE  SoundFor(q)'
<1>1. scan # NoScan /\ conflict = 0
  BY ScanFacts DEF Visiting
<1>2. Watched(q) = {scan.lit, Other} /\ Other # scan.lit
  BY VisitFacts
<1> SUFFICES ASSUME NEW i \in Positions', NEW w \in Watched(q)', Examined(q, w, i)'
             PROVE  Followed(q, w, i) \/ SupportedAt(q, i)
  BY SoundKept
<1>3. i <= head /\ FalseAt(w, i)' /\ w \in Watched(q)
  BY DEF Examined, Same
<1>4. i \in Positions /\ trail'[i] = trail[i] /\ FalseAt(w, i)
  BY <1>3, FalseBefore
<1>5. CASE w = scan.lit
  <2>1. trail'[i].lev = Level
    BY <1>1, <1>4, <1>5, ScannedAt
  <2> QED
    BY <2>1 DEF SupportedAt, Supported, Same
<1>6. CASE w # scan.lit
  <2>1. ~Unvisited(q, w)
    BY <1>6 DEF Unvisited
  <2>2. Examined(q, w, i)
    BY <1>1, <1>3, <1>4, <2>1 DEF Examined
  <2> QED
    BY <1>3, <1>4, <2>2, SupportGrows DEF Followed, Same
<1> QED
  BY <1>5, <1>6

\* A visit that keeps its watch may swap the watched literals, no more.
LEMMA SettledSame ==
  ASSUME Inv, Visiting(FALSE), clauses' = clauses \/ Store(Settled)
  PROVE  Stored' = Stored /\ \A r \in Stored : Same(r)
<1>1. CASE clauses' = clauses
  BY <1>1, SameClauses
<1>2. CASE Store(Settled)
  <2>1. PICK q, s, f, o : q = Visited.ref /\ s = Settled /\ f = scan.lit /\ o = Other
    OBVIOUS
  <2>2. /\ TypeOK /\ q \in Refs /\ s \in Disjunction /\ Range(s) = LitsOf(q)
        /\ {s[1], s[2]} = {f, o} /\ Watched(q) = {f, o}
    BY <2>1, VisitFacts DEF Inv
  <2>3. clauses' = [clauses EXCEPT ![q].lits = s]
    BY <1>2, <2>1 DEF Store
  <2>4. /\ Stored' = Stored /\ Watched(q)' = {s[1], s[2]}
        /\ \A r \in Refs : LitsOf(r)' = LitsOf(r)
        /\ \A r \in Refs \ {q} : Watched(r)' = Watched(r)
    BY ONLY <2>2, <2>3, StoreFacts
  <2>5. Stored \subseteq Refs
    BY DEF Stored, Refs
  <2>6. ASSUME NEW r \in Stored PROVE Same(r)
    BY <2>2, <2>4, <2>5 DEF Same
  <2> QED
    BY <2>4, <2>6
<1> QED
  BY <1>1, <1>2

\* The blocker or the other watch is true, or made true.
LEMMA VisitRegular ==
  ASSUME Inv, Regular, Visiting(FALSE), NextWatch, clauses' = clauses \/ Store(Settled),
         Grows, UNCHANGED <<limits, head, conflict>>,
         NEW t \in LitsOf(Visited.ref),
         NEW p \in Positions', trail'[p].lit = t, trail'[p].lev <= Level
  PROVE  Regular'
<1>1. PICK q : q = Visited.ref
  OBVIOUS
<1>2. scan # NoScan
  BY DEF Visiting
<1>3. ASSUME NEW r \in Stored' PROVE SoundFor(r)'
  <2>1. r \in Stored /\ Same(r) /\ SoundFor(r)
    BY SettledSame, SchemeAlt DEF Regular
  <2>2. CASE r # q
    BY <1>1, <1>2, <2>1, <2>2, OtherClause
  <2>3. CASE r = q
    <3>1. t \in LitsOf(q)
      BY <1>1
    <3> QED
      BY <1>1, <2>1, <2>3, <3>1, TrueClause
  <2> QED
    BY <2>2, <2>3
<1> QED
  BY <1>3, SchemeAltNext DEF Regular

\* The three visits that keep the watch and go on.
LEMMA KeepingRegular ==
  ASSUME Inv, Regular, SkipWatch \/ KeepWatch \/ Imply
  PROVE  Regular'
<1>1. TypeOK /\ TrailOK
  BY DEF Inv
<1>2. CASE SkipWatch \/ KeepWatch
  <2>1. /\ Visiting(FALSE) /\ NextWatch /\ (clauses' = clauses \/ Store(Settled))
        /\ UNCHANGED <<trail, limits, head, conflict>>
        /\ IsTrue(Visited.blocker) \/ IsTrue(Other)
    BY <1>2 DEF SkipWatch, KeepWatch, Examining, Unmoved
  <2>2. PICK t \in LitsOf(Visited.ref) : IsTrue(t)
    BY <2>1, VisitFacts
  <2>3. PICK p \in Positions : trail[p].lit = t
    BY <2>2 DEF IsTrue, Positions
  <2>4. Grows
    BY <2>1 DEF Grows, Positions
  <2>5. p \in Positions' /\ trail'[p].lit = t /\ trail'[p].lev <= Level
    BY <1>1, <2>1, <2>3 DEF Positions, TrailOK
  <2> QED
    BY <2>1, <2>4, <2>5, VisitRegular
<1>3. CASE Imply
  <2>1. /\ Visiting(FALSE) /\ NextWatch /\ Store(Settled)
        /\ UNCHANGED <<limits, head, conflict>>
        /\ trail' = Enqueue(Other, Visited.ref)
    BY <1>3 DEF Imply, Examining, Unmoved
  <2>2. PICK t, p, e : /\ t = Other /\ p = Len(trail) + 1
                       /\ e = [lit |-> Other, lev |-> Level, rsn |-> Visited.ref]
    OBVIOUS
  <2>3. trail \in Seq(Assignment) /\ Len(trail) \in Nat /\ trail' = Append(trail, e)
    BY <1>1, <2>1, <2>2 DEF TypeOK, TrailType, Enqueue
  <2>4. Grows /\ p \in Positions' /\ trail'[p] = e
    BY <2>2, <2>3 DEF Grows, Positions
  <2>5. trail'[p].lit = t /\ trail'[p].lev <= Level /\ t \in LitsOf(Visited.ref)
    <3>1. e.lit = t /\ e.lev = Level /\ Level \in Nat
      BY <1>1, <2>2 DEF TypeOK, TrailType, Level
    <3> QED
      BY <2>1, <2>2, <2>4, <3>1, VisitFacts
  <2> QED
    BY <2>1, <2>4, <2>5, VisitRegular
<1> QED
  BY <1>2, <1>3

\* A watch moves to a literal that is not false.
LEMMA MoveRegular ==
  ASSUME Inv, Regular, MoveWatch
  PROVE  Regular'
<1>1. PICK f, q, o : f = scan.lit /\ q = Visited.ref /\ o = Other
  OBVIOUS
<1>2. /\ Visiting(FALSE) /\ scan # NoScan /\ NextWatch
      /\ UNCHANGED <<trail, limits, head, conflict>>
      /\ \E k \in 3 .. Len(Settled) :
           /\ ~IsFalse(Settled[k])
           /\ Store([Settled EXCEPT ![2] = Settled[k], ![k] = scan.lit])
  BY DEF MoveWatch, Examining, Visiting, Unmoved
<1>3. PICK k \in 3 .. Len(Settled) :
           /\ ~IsFalse(Settled[k])
           /\ Store([Settled EXCEPT ![2] = Settled[k], ![k] = scan.lit])
  BY <1>2
<1>4. PICK n, m : n = Settled[k] /\ m = [Settled EXCEPT ![2] = Settled[k], ![k] = scan.lit]
  OBVIOUS
<1>5. m \in Disjunction /\ Range(m) = LitsOf(q) /\ m[1] = o /\ m[2] = n /\ ~IsFalse(n)
  BY <1>1, <1>2, <1>3, <1>4, MovedFacts
<1>6. q \in Refs /\ Watched(q) = {f, o} /\ o # f
  BY <1>1, <1>2, VisitFacts
<1>7. clauses' = [clauses EXCEPT ![q].lits = m]
  BY <1>1, <1>3, <1>4 DEF Store
<1>8. /\ Stored' = Stored /\ Watched(q)' = {n, o}
      /\ \A r \in Refs : LitsOf(r)' = LitsOf(r)
      /\ \A r \in Refs \ {q} : Watched(r)' = Watched(r)
  <2>1. TypeOK
    BY DEF Inv
  <2>2. /\ Stored' = Stored /\ Watched(q)' = {m[1], m[2]}
        /\ \A r \in Refs : LitsOf(r)' = LitsOf(r)
        /\ \A r \in Refs \ {q} : Watched(r)' = Watched(r)
    BY ONLY <1>5, <1>6, <1>7, <2>1, StoreFacts
  <2> QED
    BY <1>5, <2>2
<1>9. Grows
  BY <1>2 DEF Grows, Positions
<1>10. ASSUME NEW r \in Stored' PROVE SoundFor(r)'
  <2>1. r \in Stored /\ r \in Refs /\ SoundFor(r)
    BY <1>8, SchemeAlt DEF Regular, Stored, Refs
  <2>2. CASE r # q
    <3>1. Same(r)
      BY <1>8, <2>1, <2>2 DEF Same
    <3> QED
      BY <1>1, <1>2, <1>9, <2>1, <2>2, <3>1, OtherClause
  <2>3. CASE r = q
    <3> SUFFICES ASSUME NEW i \in Positions', NEW w \in Watched(r)', Examined(r, w, i)'
                 PROVE  Followed(r, w, i)
      BY <2>1, SoundKept
    <3>1. /\ i \in Positions /\ trail'[i] = trail[i] /\ FalseAt(w, i) /\ i <= head
      BY <1>2 DEF Examined, FalseAt, Positions
    <3>2. w = o
      <4>1. w # n
        BY <1>5, <3>1 DEF IsFalse, IsTrue, FalseAt, Positions
      <4> QED
        BY <1>8, <2>3, <4>1
    <3>3. ~Unvisited(r, w)
      BY <1>1, <1>6, <3>2 DEF Unvisited
    <3>4. Examined(r, w, i)
      BY <1>2, <3>1, <3>3, ScanFacts DEF Examined
    <3>5. w \in Watched(r) /\ LitsOf(r)' = LitsOf(r)
      BY <1>6, <1>8, <2>1, <2>3, <3>2
    <3> QED
      BY <1>9, <3>1, <3>4, <3>5, SupportGrows DEF Followed
  <2> QED
    BY <2>2, <2>3
<1> QED
  BY <1>10, SchemeAltNext DEF Regular

\* The watch of a deleted clause is dropped.
LEMMA DropRegular ==
  ASSUME Inv, Regular, DropWatch
  PROVE  Regular'
<1>1. /\ scan # NoScan /\ NextWatch /\ clauses' = clauses /\ clauses[Visited.ref].deleted
      /\ UNCHANGED <<trail, limits, head, conflict>>
  BY DEF DropWatch, Visiting, database, Unmoved
<1>2. Grows
  BY <1>1 DEF Grows, Positions
<1>3. ASSUME NEW r \in Stored' PROVE SoundFor(r)'
  <2>1. r \in Stored /\ Same(r) /\ SoundFor(r)
    BY <1>1, SameClauses, SchemeAlt DEF Regular
  <2>2. r # Visited.ref
    BY <1>1, <2>1 DEF Stored
  <2> QED
    BY <1>1, <1>2, <2>1, <2>2, OtherClause
<1> QED
  BY <1>3, SchemeAltNext DEF Regular

\* A conflict above the root: nothing false at the current level counts as
\* examined, and the scan was at work on a literal of that level.
LEMMA ConflictRegular ==
  ASSUME Inv, Regular, Conflict, Level > 0
  PROVE  Regular'
<1>1. /\ Visiting(FALSE) /\ scan # NoScan /\ Store(Settled) /\ scan' = NoScan
      /\ UNCHANGED <<trail, limits, head>> /\ conflict' = Visited.ref
  BY DEF Conflict, Examining, Visiting, Unmoved
<1>2. conflict = 0 /\ conflict' # 0
  BY <1>1, ScanFacts DEF Refs
<1>3. Grows
  BY <1>1 DEF Grows, Positions
<1>4. ASSUME NEW r \in Stored' PROVE SoundFor(r)'
  <2>1. r \in Stored /\ Same(r) /\ SoundFor(r)
    BY <1>1, SettledSame, SchemeAlt DEF Regular
  <2> SUFFICES ASSUME NEW i \in Positions', NEW w \in Watched(r)', Examined(r, w, i)'
               PROVE  Followed(r, w, i)
    BY <2>1, SoundKept
  <2>2. /\ i \in Positions /\ trail'[i] = trail[i] /\ FalseAt(w, i) /\ i <= head
        /\ trail[i].lev < Level
    BY <1>1, <1>2 DEF Examined, FalseAt, Positions, Level
  <2>3. ~Unvisited(r, w)
    <3>1. trail[i].lev # Level
      BY <2>2 DEF Inv, TypeOK, TrailType, Level
    <3> QED
      BY <1>1, <2>2, <3>1, ScannedAt DEF Unvisited
  <2>4. Examined(r, w, i)
    BY <1>2, <2>2, <2>3 DEF Examined
  <2> QED
    BY <1>3, <2>1, <2>2, <2>4, SupportGrows DEF Followed, Same
<1> QED
  BY <1>4, SchemeAltNext DEF Regular

-----------------------------------------------------------------------------
(***************************************************************************)
(* New and deleted clauses.                                                *)
(***************************************************************************)

\* What allocation leaves as it was, and the watches of the new clause.
LEMMA AllocateSame ==
  ASSUME Inv, NEW s \in Disjunction, NEW b \in BOOLEAN, Allocate(s, b),
         NEW n, n = Len(clauses) + 1
  PROVE  /\ Stored' = Stored \cup {n} /\ LitsOf(n)' = Range(s) /\ Watched(n)' = {s[1], s[2]}
         /\ \A r \in Stored : Same(r)
<1>1. PICK d : d = [lits |-> s, learned |-> b, deleted |-> FALSE]
  OBVIOUS
<1>2. d \in ClauseRecord /\ ~d.deleted /\ d.lits = s
  BY <1>1 DEF ClauseRecord
<1>3. TypeOK /\ clauses' = Append(clauses, d)
  BY <1>1 DEF Inv, Allocate
<1>4. /\ Stored' = Stored \cup {n}
      /\ LitsOf(n)' = Range(d.lits) /\ Watched(n)' = {d.lits[1], d.lits[2]}
      /\ \A q \in Refs : LitsOf(q)' = LitsOf(q) /\ Watched(q)' = Watched(q)
  <2>1. n = Len(clauses) + 1
    OBVIOUS
  <2> QED
    BY ONLY <1>2, <1>3, <2>1, AllocateFacts
<1>5. Stored \subseteq Refs
  BY DEF Stored, Refs
<1> QED
  BY <1>2, <1>4, <1>5 DEF Same

\* The learned clause is true at the level search jumps to; its other watch
\* became false there, or above it when backtracking is chronological.
LEMMA LearnRegular ==
  ASSUME Inv, Regular, Learn
  PROVE  Regular'
<1>1. /\ TypeOK /\ TrailOK /\ ConflictOK /\ ReasonsOK /\ head \in Nat
      /\ conflict # 0 /\ Level > 0 /\ conflict' = 0
  BY DEF Inv, TypeOK, TrailType, Learn
<1>2. scan = NoScan /\ scan' = NoScan
  BY LearnAllocates
<1>3. PICK c, u, s :
        /\ c = Minimized(FirstUip) /\ c \subseteq Blamed /\ Current(c) = {u}
        /\ s \in SetToSeqs(c) /\ s[1] = u
        /\ limits' = KeptLimits(BacktrackLevel(c))
        /\ head' = Min({head, Len(Kept(BacktrackLevel(c)))})
        /\ \/ /\ c = {u}
              /\ trail' = Append(Kept(BacktrackLevel(c)),
                                [lit |-> u, lev |-> BacktrackLevel(c), rsn |-> 0])
              /\ UNCHANGED database
           \/ \E n : /\ n = Len(clauses) + 1 /\ n \in Nat \ {0} /\ n \in Stored'
                    /\ LitsOf(n)' = c /\ s \in Disjunction
                    /\ LevelOf(s[2]) = JumpLevel(c) /\ Allocate(s, TRUE)
                    /\ trail' = Append(Kept(BacktrackLevel(c)),
                                [lit |-> u, lev |-> BacktrackLevel(c), rsn |-> n])
  BY LearnAllocates
<1>4. PICK k : k = BacktrackLevel(c)
  OBVIOUS
<1>5. /\ k \in Nat /\ k < Level /\ k \in 0 .. Level /\ u \in c /\ LevelOf(u) = Level
      /\ ~Chrono => k = JumpLevel(c)
  <2>1. c \in SUBSET Blamed
    BY <1>3
  <2>2. /\ BacktrackLevel(c) \in Nat /\ BacktrackLevel(c) < Level
        /\ u \in c /\ LevelOf(u) = Level /\ (~Chrono => BacktrackLevel(c) = JumpLevel(c))
    BY <1>1, <1>3, <2>1, LearnedFacts
  <2> QED
    BY <1>1, <1>4, <2>2 DEF TypeOK, TrailType, Level
<1>6. /\ Len(Kept(k)) \in Nat /\ Len(Kept(k)) <= Len(trail) /\ Kept(k) \in Seq(Assignment)
      /\ \A i \in 1 .. Len(Kept(k)) : Kept(k)[i] = trail[i]
      /\ \A i \in Positions : i <= Len(Kept(k)) <=> trail[i].lev <= k
  BY <1>1, <1>5, KeptFacts
<1>7. head' \in Nat /\ head' <= head /\ head' <= Len(Kept(k))
  BY <1>1, <1>3, <1>4, <1>6, MinOfTwo
<1>8. PICK e, m : /\ trail' = Append(Kept(k), e) /\ e.lit = u /\ e.lev = k
                  /\ m = Len(Kept(k)) + 1
  <2>1. \E x : trail' = Append(Kept(k), [lit |-> u, lev |-> k, rsn |-> x])
    BY <1>3, <1>4
  <2>2. PICK x : trail' = Append(Kept(k), [lit |-> u, lev |-> k, rsn |-> x])
    BY <2>1
  <2>3. PICK e, m : e = [lit |-> u, lev |-> k, rsn |-> x] /\ m = Len(Kept(k)) + 1
    OBVIOUS
  <2>4. e.lit = u /\ e.lev = k
    BY <2>3
  <2> QED
    BY <2>2, <2>3, <2>4
<1>9. /\ \A i \in 1 .. Len(Kept(k)) : i \in Positions' /\ trail'[i] = trail[i]
      /\ m \in Positions' /\ trail'[m] = e
  BY <1>6, <1>8 DEF Positions
<1>10. ASSUME NEW r \in Stored, Same(r) PROVE SoundFor(r)'
  <2>1. SoundFor(r)
    BY SchemeAlt DEF Regular
  <2> QED
    BY <1>1, <1>2, <1>5, <1>7, <1>9, <1>10, <2>1, SoundBacktracks
<1>11. CASE UNCHANGED database
  BY <1>10, <1>11, SameClauses, SchemeAltNext DEF Regular, database
<1>12. CASE \E n : /\ n = Len(clauses) + 1 /\ LitsOf(n)' = c /\ s \in Disjunction
                   /\ LevelOf(s[2]) = JumpLevel(c) /\ Allocate(s, TRUE)
  <2>1. PICK n : /\ n = Len(clauses) + 1 /\ LitsOf(n)' = c /\ s \in Disjunction
                 /\ LevelOf(s[2]) = JumpLevel(c) /\ Allocate(s, TRUE)
    BY <1>12
  <2>2. /\ Stored' = Stored \cup {n} /\ Watched(n)' = {u, s[2]} /\ Range(s) = c
        /\ \A r \in Stored : Same(r)
    BY <1>3, <2>1, AllocateSame
  <2>3. s[2] \in c
    <3>1. DOMAIN s = 1 .. Len(s) /\ Len(s) > 1 /\ Len(s) \in Nat
      BY <2>1 DEF Disjunction
    <3>2. 2 \in DOMAIN s
      BY <3>1
    <3> QED
      BY <2>2, <3>2 DEF Range
  <2>4. ASSUME NEW i \in Positions', NEW w \in Watched(n)', Examined(n, w, i)'
        PROVE  w = s[2] /\ trail'[i].lev = JumpLevel(c) /\ trail'[i].lev > 0
    <3>1. i \in 1 .. Len(Kept(k)) /\ i \in Positions /\ trail'[i] = trail[i] /\ FalseAt(w, i)
      <4>1. i <= head' /\ FalseAt(w, i)'
        BY <2>4 DEF Examined
      <4>2. i \in 1 .. Len(Kept(k))
        <5>1. i \in Nat /\ 1 <= i
          BY DEF Positions
        <5> QED
          BY <1>6, <1>7, <4>1, <5>1
      <4>3. i \in Positions
        BY <1>6, <4>2 DEF Positions, Inv, TypeOK, TrailType
      <4> QED
        BY <1>9, <4>1, <4>2, <4>3 DEF FalseAt
    <3>2. w \in c /\ w \in Blamed /\ w \in Lit
      BY <1>3, <1>5, <2>2, <2>3 DEF Blamed
    <3>3. LevelOf(w) = trail[i].lev /\ LevelOf(w) > 0
      BY <1>1, <3>1, <3>2, FalseFacts DEF Blamed
    <3>4. w # u
      <4>1. trail[i].lev <= k
        BY <1>6, <3>1
      <4>2. trail[i].lev # Level
        BY <1>1, <1>5, <3>1, <4>1, EntryFields DEF TypeOK, TrailType, Level
      <4> QED
        BY <1>5, <3>3, <4>2
    <3> QED
      BY <2>1, <2>2, <3>1, <3>3, <3>4
  <2>5. SoundFor(n)'
    <3>1. OneFor(n)'
      <4> SUFFICES ASSUME NEW i \in Positions', NEW w \in Watched(n)', Examined(n, w, i)',
                          Chrono => trail'[i].lev = 0
                   PROVE  Supported(n, trail[i].lev)'
        BY DEF OneFor
      <4>1. trail'[i].lev = JumpLevel(c) /\ ~Chrono
        BY <2>4
      <4>2. trail'[m].lit = u /\ trail'[m].lev = trail'[i].lev /\ trail'[i].lev \in Nat
        BY <1>5, <1>8, <1>9, <4>1
      <4> QED
        BY <1>5, <1>9, <2>1, <4>2 DEF Supported
    <3>2. TwoFor(n)'
      BY <2>4 DEF TwoFor
    <3> QED
      BY <3>1, <3>2 DEF SoundFor
  <2> QED
    BY <1>10, <2>2, <2>5, SchemeAltNext DEF Regular
<1> QED
  BY <1>3, <1>11, <1>12

\* The client's clause: no watch of it is false, or it implies its first
\* literal at the root; before the first query nothing is examined.
LEMMA AddStoredRegular ==
  ASSUME Inv, Regular, AddStored
  PROVE  Regular'
<1>1. /\ TypeOK /\ TrailOK /\ PhaseOK /\ phase = "install" /\ Level = 0 /\ scan = NoScan
      /\ conflict = 0 /\ UNCHANGED <<limits, head, scan, conflict, started>>
  <2>1. phase = "install" /\ UNCHANGED <<limits, head, scan, conflict, started>>
    BY DEF AddStored, Installing
  <2> QED
    BY <2>1, IdleQuiet DEF Inv, PhaseOK
<1>2. PICK s, n :
        /\ s \in Disjunction /\ Allocate(s, FALSE)
        /\ n = Len(clauses) + 1 /\ LitsOf(n)' = pending
        /\ IF started
           THEN /\ \A l \in pending : ~IsTrue(l)
                /\ Free(s[1])
                /\ \A i \in 2 .. Len(s) : Free(s[i]) => Free(s[i - 1])
                /\ trail' = IF Free(s[2]) THEN trail ELSE Enqueue(s[1], n)
           ELSE trail' = trail
  BY AddAllocates
<1>3. /\ Stored' = Stored \cup {n} /\ Watched(n)' = {s[1], s[2]} /\ Range(s) = pending
      /\ \A r \in Stored : Same(r)
  BY <1>2, AllocateSame
<1>4. trail \in Seq(Assignment) /\ Len(trail) \in Nat
  BY <1>1 DEF TypeOK, TrailType
<1>5. Grows
  <2>1. CASE trail' = trail
    BY <2>1 DEF Grows, Positions
  <2>2. CASE trail' = Enqueue(s[1], n)
    BY <1>4, <2>2 DEF Grows, Positions, Enqueue
  <2> QED
    BY <1>2, <2>1, <2>2
<1>6. ASSUME NEW r \in Stored PROVE SoundFor(r)'
  <2>1. SoundFor(r) /\ Same(r)
    BY <1>3, SchemeAlt DEF Regular
  <2> QED
    BY <1>1, <1>5, <2>1, SoundGrows
<1>7. SoundFor(n)'
  <2>1. ASSUME NEW i \in Positions', NEW w \in Watched(n)', Examined(n, w, i)'
        PROVE  Supported(n, trail[i].lev)'
    <3>1. i <= head /\ FalseAt(w, i)' /\ i \in Nat /\ 1 <= i
      <4>1. i <= head' /\ FalseAt(w, i)'
        BY <2>1 DEF Examined
      <4>2. i \in Nat /\ 1 <= i
        BY DEF Positions
      <4> QED
        BY <1>1, <4>1, <4>2
    <3>2. i \in Positions /\ trail'[i] = trail[i] /\ FalseAt(w, i)
      BY <1>5, <3>1, FalseBefore
    <3>3. started
      BY <1>1, <3>1 DEF PhaseOK
    <3>4. Free(s[1]) /\ ~Free(s[2])
      <4>1. IsFalse(w)
        BY <3>2 DEF IsFalse, IsTrue, FalseAt, Positions
      <4>2. Free(s[1]) /\ w # s[1] /\ w = s[2]
        BY <1>2, <1>3, <3>3, <4>1 DEF Free
      <4> QED
        BY <4>1, <4>2 DEF Free
    <3>5. trail' = Enqueue(s[1], n)
      BY <1>2, <3>3, <3>4
    <3>6. PICK p, e : p = Len(trail) + 1 /\ e = [lit |-> s[1], lev |-> Level, rsn |-> n]
      OBVIOUS
    <3>7. p \in Positions' /\ trail'[p] = e
      BY <1>4, <3>5, <3>6 DEF Enqueue, Positions
    <3>8. e.lit = s[1] /\ e.lev = 0
      BY <1>1, <3>6
    <3>9. s[1] \in LitsOf(n)'
      <4>1. DOMAIN s = 1 .. Len(s) /\ Len(s) > 1 /\ Len(s) \in Nat
        BY <1>2 DEF Disjunction
      <4>2. 1 \in DOMAIN s
        BY <4>1
      <4> QED
        BY <1>2, <1>3, <4>2 DEF Range
    <3>10. trail'[i].lev \in Nat
      BY <1>1, <3>2, EntryFields
    <3> QED
      BY <3>7, <3>8, <3>9, <3>10 DEF Supported
  <2> QED
    BY <2>1 DEF SoundFor, OneFor, TwoFor
<1> QED
  BY <1>3, <1>6, <1>7, SchemeAltNext DEF Regular

\* Reduction only deletes.
LEMMA ReduceRegular ==
  ASSUME Inv, Regular, Reduce
  PROVE  Regular'
<1>1. /\ TypeOK /\ conflict = 0 /\ UNCHANGED <<trail, limits, head, scan, conflict>>
  BY ReduceQuiet DEF Inv, Reduce, assigned
<1>2. Stored' \subseteq Stored /\ Stored \subseteq Refs
  BY <1>1, ReduceFacts DEF Stored, Refs
<1>3. Grows
  BY <1>1 DEF Grows, Positions
<1>4. ASSUME NEW r \in Stored' PROVE SoundFor(r)'
  <2>1. r \in Stored /\ SoundFor(r)
    BY <1>2, SchemeAlt DEF Regular
  <2>2. Same(r)
    BY <1>1, <1>2, <2>1, ReduceFacts DEF Same
  <2> QED
    BY <1>1, <1>3, <2>1, <2>2, SoundGrows
<1> QED
  BY <1>4, SchemeAltNext DEF Regular

-----------------------------------------------------------------------------
(***************************************************************************)
(* The other steps.                                                        *)
(***************************************************************************)
Waits == UNCHANGED <<clauses, trail, limits, head, scan, conflict>>

\* The solver goes on to another phase, answers, or opens a level.
LEMMA WaitingSteps ==
  ASSUME NoRestart \/ BeginSearch \/ AnswerInconsistent \/ AnswerSat \/ Propagated \/ Settle
         \/ AddIgnored \/ Refused \/ SolveCached \/ Interrupt \/ UNCHANGED vars
  PROVE  Waits
<1> USE DEF Waits, database, assigned
<1>1. NoRestart \/ BeginSearch \/ AnswerInconsistent \/ AnswerSat => Waits
  BY DEF NoRestart, BeginSearch, AnswerInconsistent, AnswerSat
<1>2. Propagated \/ Settle \/ AddIgnored => Waits
  BY DEF Propagated, Settle, AddIgnored, Installing
<1>3. Refused \/ SolveCached \/ Interrupt \/ UNCHANGED vars => Waits
  BY DEF Refused, SolveCached, Interrupt, vars
<1> QED
  BY <1>1, <1>2, <1>3

\* An assignment is added behind the queue's head.
LEMMA AddingSteps ==
  ASSUME Inv, Assume \/ Decide \/ AddUnit
  PROVE  clauses' = clauses /\ UNCHANGED <<scan, head, conflict>> /\ Grows /\ conflict = 0
<1>1. trail \in Seq(Assignment) /\ Len(trail) \in Nat
  BY DEF Inv, TypeOK, TrailType
<1>2. /\ clauses' = clauses /\ UNCHANGED <<scan, head, conflict>> /\ conflict = 0
      /\ trail' = trail \/ \E e : trail' = Append(trail, e)
  <2>1. CASE Assume
    BY <2>1 DEF Assume, Open, Searching, Fixpoint, Quiet, database
  <2>2. CASE Decide
    BY <2>2 DEF Decide, Open, Searching, Fixpoint, Quiet, database
  <2>3. CASE AddUnit
    <3>1. phase = "install" /\ clauses' = clauses /\ UNCHANGED <<scan, head, conflict>>
          /\ \E l : trail' = Enqueue(l, 0)
      BY <2>3 DEF AddUnit, Installing, database
    <3>2. conflict = 0
      BY <3>1, IdleQuiet
    <3> QED
      BY <3>1, <3>2 DEF Enqueue
  <2> QED
    BY <2>1, <2>2, <2>3
<1>3. CASE trail' = trail
  BY <1>2, <1>3 DEF Grows, Positions
<1>4. CASE \E e : trail' = Append(trail, e)
  <2>1. PICK e : trail' = Append(trail, e)
    BY <1>4
  <2>2. Grows
    BY <1>1, <2>1 DEF Grows, Positions
  <2> QED
    BY <1>2, <2>2
<1> QED
  BY <1>2, <1>3, <1>4

\* Backtracking to the root: before a mutation or a query, or giving up.
LEMMA RootSteps ==
  ASSUME Inv, Add \/ Push \/ Pop \/ Solve \/ GiveUp \/ FailAssumption
  PROVE  /\ clauses' = clauses /\ scan = NoScan /\ scan' = NoScan /\ conflict' = 0
         /\ CancelUntil(0) /\ (conflict # 0 => GiveUp)
<1>1. CASE Add \/ Push \/ Pop
  <2>1. PICK name : Calls(name)
    BY <1>1 DEF Add, Push, Pop
  <2>2. clauses' = clauses /\ UNCHANGED <<scan, conflict>> /\ CancelUntil(0)
    BY <1>1 DEF Add, Push, Pop, Prepare, database
  <2> QED
    BY <2>1, <2>2, CallFacts
<1>2. CASE Solve
  <2>1. /\ Calls("solve") /\ clauses' = clauses /\ UNCHANGED <<scan, conflict>>
        /\ CancelUntil(0)
    BY <1>2 DEF Solve, database
  <2> QED
    BY <2>1, CallFacts
<1>3. CASE GiveUp
  BY <1>3 DEF GiveUp, Fixpoint, Quiet, database
<1>4. CASE FailAssumption
  BY <1>4 DEF FailAssumption, Searching, Fixpoint, Quiet, database
<1> QED
  BY <1>1, <1>2, <1>3, <1>4

\* The solver restarts only between conflicts.
LEMMA RestartQuiet ==
  ASSUME Inv, Restart
  PROVE  /\ clauses' = clauses /\ scan = NoScan /\ scan' = NoScan
         /\ conflict = 0 /\ conflict' = 0 /\ \E k \in 0 .. Level : CancelUntil(k)
<1>1. phase \in {"learned", "reduced"} /\ clauses' = clauses /\ UNCHANGED <<scan, conflict>>
      /\ \E k \in 0 .. Level - 1 : CancelUntil(k)
  BY DEF Restart, database
<1>2. Level \in Nat
  BY DEF Inv, TypeOK, TrailType, Level
<1> QED
  BY <1>1, <1>2, IdleQuiet

\* From a state in which the watches guarantee what they should to another,
\* unless a conflict at the root makes the clauses inconsistent.
LEMMA RegularStep ==
  ASSUME Inv, Regular, [Next]_vars, consistent', conflict # 0 => Level > 0
  PROVE  Regular' \/ (conflict' # 0 /\ Level' = 0)
<1>1. CASE Dequeue \/ DropWatch \/ SkipWatch \/ KeepWatch \/ MoveWatch \/ Imply
  BY <1>1, DequeueRegular, DropRegular, KeepingRegular, MoveRegular
<1>2. CASE Conflict
  <2>1. conflict' \in Refs /\ Level' = Level /\ Level \in Nat
    BY <1>2, VisitFacts DEF Conflict, Examining, Unmoved, Level, Inv, TypeOK, TrailType
  <2>2. conflict' # 0
    BY <2>1 DEF Refs
  <2> QED
    BY <1>2, <2>1, <2>2, ConflictRegular
<1>3. CASE Learn \/ AddStored \/ Reduce
  BY <1>3, LearnRegular, AddStoredRegular, ReduceRegular
<1>4. CASE NoRestart \/ BeginSearch \/ AnswerInconsistent \/ AnswerSat \/ Propagated \/ Settle
           \/ AddIgnored \/ Refused \/ SolveCached \/ Interrupt \/ UNCHANGED vars
  <2>1. Waits
    BY <1>4, WaitingSteps
  <2>2. Grows
    BY <2>1 DEF Waits, Grows, Positions
  <2> QED
    BY <2>1, <2>2, GrowingStep DEF Waits
<1>5. CASE Assume \/ Decide \/ AddUnit
  BY <1>5, AddingSteps, GrowingStep
<1>6. CASE Add \/ Push \/ Pop \/ Solve \/ GiveUp \/ FailAssumption
  <2>1. /\ clauses' = clauses /\ scan = NoScan /\ scan' = NoScan /\ conflict' = 0
        /\ CancelUntil(0)
    BY <1>6, RootSteps
  <2>2. 0 \in 0 .. Level
    BY DEF Inv, TypeOK, TrailType, Level
  <2> QED
    BY <2>1, <2>2, BacktrackStep
<1>7. CASE Restart
  <2>1. PICK k \in 0 .. Level : CancelUntil(k)
    BY <1>7, RestartQuiet
  <2> QED
    BY <1>7, <2>1, RestartQuiet, BacktrackStep
<1>8. CASE RootConflict \/ AddFalsified
  BY <1>8 DEF RootConflict, AddFalsified
<1> QED
  BY <1>1, <1>2, <1>3, <1>4, <1>5, <1>6, <1>7, <1>8 DEF Next, SolverStep, ClientStep

\* Nothing makes an inconsistent solver consistent.
LEMMA ConsistentBefore ==
  ASSUME Inv, [Next]_vars, consistent'
  PROVE  consistent
<1>1. CASE Dequeue \/ DropWatch \/ SkipWatch \/ KeepWatch \/ MoveWatch \/ Imply \/ Conflict
  BY <1>1 DEF Dequeue, DropWatch, SkipWatch, KeepWatch, MoveWatch, Imply, Conflict, Unmoved
<1>2. CASE Learn \/ Reduce \/ Restart \/ NoRestart \/ BeginSearch \/ GiveUp
  BY <1>2 DEF Learn, Reduce, Restart, NoRestart, BeginSearch, GiveUp
<1>3. CASE Assume \/ FailAssumption \/ Decide \/ AnswerSat \/ AnswerInconsistent
  BY <1>3 DEF Assume, FailAssumption, Decide, AnswerSat, AnswerInconsistent
<1>4. CASE Propagated \/ AddIgnored \/ AddUnit \/ AddStored \/ Settle
  BY <1>4 DEF Propagated, AddIgnored, AddUnit, AddStored, Settle
<1>5. CASE ClientStep
  BY <1>5 DEF ClientStep, Add, Push, Pop, Refused, SolveCached, Solve
<1>6. CASE Interrupt \/ UNCHANGED vars
  BY <1>6 DEF Interrupt, vars
<1>7. CASE RootConflict \/ AddFalsified
  BY <1>7 DEF RootConflict, AddFalsified
<1> QED
  BY <1>1, <1>2, <1>3, <1>4, <1>5, <1>6, <1>7 DEF Next, SolverStep

-----------------------------------------------------------------------------
(***************************************************************************)
(* A root conflict that an interrupt dropped is found again.               *)
(***************************************************************************)

\* The clause r is false, and its watch w, false at i, will be looked at.
DoomedBy(r, w, i) ==
  /\ r \in Stored /\ (\A l \in LitsOf(r) : IsFalse(l))
  /\ w \in Watched(r) /\ i \in Positions /\ FalseAt(w, i) /\ (i > head \/ Unvisited(r, w))

OutsideSearch == conflict = 0 /\ Level = 0 /\ phase \notin {"search", "learned", "reduced"}

\* Doomed, with the clause and its watch named.
LEMMA DoomedAlt == Doomed <=> OutsideSearch /\ \E r, w, i : DoomedBy(r, w, i)
BY DEF Doomed, OutsideSearch, DoomedBy, Waiting

\* The clause and the assignments stay, and the watch is still to be visited.
LEMMA DoomedStays ==
  ASSUME Grows, NEW r, NEW w, NEW i, DoomedBy(r, w, i), r \in Stored', Same(r),
         i > head' \/ Unvisited(r, w)', OutsideSearch'
  PROVE  Doomed'
<1>1. \A l \in LitsOf(r)' : IsFalse(l)'
  <2>1. \A l : IsFalse(l) => IsFalse(l)'
    BY DEF Grows, IsFalse, IsTrue, Positions
  <2> QED
    BY <2>1 DEF DoomedBy, Same
<1>2. /\ w \in Watched(r)' /\ i \in Positions' /\ FalseAt(w, i)'
      /\ (i > head' \/ Unvisited(r, w)')
  BY DEF DoomedBy, Same, Grows, FalseAt
<1> QED
  BY <1>1, <1>2 DEF Doomed, OutsideSearch, Waiting

\* No literal of a false clause is true or free.
LEMMA DoomedFalse ==
  ASSUME Inv, NEW r, NEW w, NEW i, DoomedBy(r, w, i), NEW l \in LitsOf(r)
  PROVE  IsFalse(l) /\ ~IsTrue(l) /\ ~Free(l)
<1>1. r \in Refs /\ TypeOK /\ TrailOK
  BY DEF DoomedBy, Stored, Refs, Inv
<1>2. IsFalse(l) /\ l \in Lit
  BY <1>1, ClauseFields DEF DoomedBy
<1>3. \E j : FalseAt(l, j)
  BY <1>2, FalseSomewhere
<1> QED
  BY <1>1, <1>2, <1>3, FalseFacts DEF Free

\* Dequeuing the watch's complement puts the watch on the list of the visits.
LEMMA DoomedDequeue ==
  ASSUME Inv, OutsideSearch, NEW r, NEW w, NEW i, DoomedBy(r, w, i), Dequeue
  PROVE  Doomed'
<1>1. /\ TypeOK /\ scan = NoScan /\ clauses' = clauses
      /\ UNCHANGED <<trail, limits, conflict, phase>> /\ head' = head + 1 /\ head \in Nat
  BY DEF Inv, TypeOK, TrailType, Dequeue, Quiet
<1>2. PICK f : f = Neg(trail[head + 1].lit)
  OBVIOUS
<1>3. scan' = Unread(f, watches[f]) /\ head + 1 \in Positions /\ f \in Lit
  BY <1>2, DequeueStep DEF Dequeue
<1>4. /\ i > head /\ i \in Positions /\ FalseAt(w, i) /\ w \in Watched(r) /\ r \in Stored
      /\ r \in Refs /\ w \in Lit
  <2>1. /\ i > head \/ Unvisited(r, w)
        /\ i \in Positions /\ FalseAt(w, i) /\ w \in Watched(r) /\ r \in Stored
    BY DEF DoomedBy
  <2>2. ~Unvisited(r, w)
    BY <1>1 DEF Unvisited, NoScan
  <2>3. r \in Refs
    BY <2>1 DEF Stored, Refs
  <2> QED
    BY <1>1, <2>1, <2>2, <2>3, WatchedFields
<1>5. CASE i # head + 1
  <2>1. i > head'
    BY <1>1, <1>4, <1>5 DEF Positions
  <2> QED
    BY <1>1, <1>4, <2>1, SameClauses, DoomedStays DEF Grows, Positions, OutsideSearch, Level
<1>6. CASE i = head + 1
  <2>1. w = f
    BY <1>2, <1>4, <1>6, NegLit DEF FalseAt
  <2>2. ListOf(f) = watches[f]
    BY <1>1, <1>3, NoScanLists
  <2>3. Once(watches[f], r, LitsOf(r) \ {f})
    BY <1>3, <1>4, <2>1, <2>2, WatchedAlt DEF Inv
  <2>4. PICK j \in 1 .. Len(watches[f]) : watches[f][j].ref = r
    BY <2>3 DEF Once
  <2>5. watches[f] # << >>
    BY <2>4
  <2>6. scan'.lit = f /\ scan'.rest = watches[f]
    BY <1>3, <2>5 DEF Unread
  <2>7. Unvisited(r, w)'
    BY <2>1, <2>4, <2>6 DEF Unvisited
  <2> QED
    BY <1>1, <1>4, <2>7, SameClauses, DoomedStays DEF Grows, Positions, OutsideSearch, Level
<1> QED
  BY <1>5, <1>6

\* A visit of another clause leaves it waiting; one of the clause itself can
\* only find the conflict.
LEMMA DoomedVisit ==
  ASSUME Inv, OutsideSearch, NEW r, NEW w, NEW i, DoomedBy(r, w, i),
         DropWatch \/ SkipWatch \/ KeepWatch \/ MoveWatch \/ Imply
  PROVE  Doomed'
<1>1. TypeOK /\ trail \in Seq(Assignment) /\ Len(trail) \in Nat
  BY DEF Inv, TypeOK, TrailType
<1>2. /\ scan # NoScan /\ NextWatch /\ UNCHANGED <<limits, head, phase, conflict>>
      /\ trail' = trail \/ \E e : trail' = Append(trail, e)
  <2>1. scan # NoScan /\ NextWatch /\ UNCHANGED <<limits, head, phase, conflict>>
    BY DEF DropWatch, SkipWatch, KeepWatch, MoveWatch, Imply, Examining, Visiting, Unmoved
  <2>2. trail' = trail \/ \E e : trail' = Append(trail, e)
    BY DEF DropWatch, SkipWatch, KeepWatch, MoveWatch, Imply, Unmoved, Enqueue
  <2> QED
    BY <2>1, <2>2
<1>3. Grows
  <2>1. CASE trail' = trail
    BY <2>1 DEF Grows, Positions
  <2>2. CASE \E e : trail' = Append(trail, e)
    <3>1. PICK e : trail' = Append(trail, e)
      BY <2>2
    <3> QED
      BY <1>1, <3>1 DEF Grows, Positions
  <2> QED
    BY <1>2, <2>1, <2>2
<1>4. r \in Stored /\ r \in Refs
  BY DEF DoomedBy, Stored, Refs
<1>5. r # Visited.ref
  <2>1. CASE DropWatch
    BY <1>4, <2>1 DEF DropWatch, Visiting, Stored
  <2>2. CASE SkipWatch \/ KeepWatch \/ MoveWatch \/ Imply
    <3>1. Visiting(FALSE)
      BY <2>2 DEF SkipWatch, KeepWatch, MoveWatch, Imply, Examining
    <3>2. Visited.blocker \in LitsOf(Visited.ref) /\ Other \in LitsOf(Visited.ref)
          /\ Range(Settled) = LitsOf(Visited.ref) /\ Settled \in Disjunction
      BY <3>1, VisitFacts
    <3>3. \/ IsTrue(Visited.blocker) \/ IsTrue(Other) \/ Free(Other)
          \/ \E k \in 3 .. Len(Settled) : ~IsFalse(Settled[k])
      BY <2>2 DEF SkipWatch, KeepWatch, MoveWatch, Imply, Examining
    <3>4. \E l \in LitsOf(Visited.ref) : IsTrue(l) \/ Free(l) \/ ~IsFalse(l)
      <4>1. CASE \E k \in 3 .. Len(Settled) : ~IsFalse(Settled[k])
        <5>1. PICK k \in 3 .. Len(Settled) : ~IsFalse(Settled[k])
          BY <4>1
        <5>2. DOMAIN Settled = 1 .. Len(Settled)
          BY <3>2 DEF Disjunction
        <5>3. Settled[k] \in Range(Settled)
          BY <5>1, <5>2 DEF Range
        <5> QED
          BY <3>2, <5>1, <5>3
      <4> QED
        BY <3>2, <3>3, <4>1
    <3>5. PICK l \in LitsOf(Visited.ref) : IsTrue(l) \/ Free(l) \/ ~IsFalse(l)
      BY <3>4
    <3> QED
      BY <3>5, DoomedFalse
  <2> QED
    BY <2>1, <2>2
<1>6. r \in Stored' /\ Same(r)
  <2>1. CASE DropWatch \/ SkipWatch
    BY <1>4, <2>1, SameClauses DEF DropWatch, SkipWatch, database
  <2>2. CASE KeepWatch \/ Imply
    BY <1>4, <2>2, SettledSame DEF KeepWatch, Imply, Examining
  <2>3. CASE MoveWatch
    <3>1. PICK q : q = Visited.ref
      OBVIOUS
    <3>2. \E k \in 3 .. Len(Settled) : Store([Settled EXCEPT ![2] = Settled[k], ![k] = scan.lit])
      BY <2>3 DEF MoveWatch
    <3>3. PICK k \in 3 .. Len(Settled) :
            Store([Settled EXCEPT ![2] = Settled[k], ![k] = scan.lit])
      BY <3>2
    <3>4. PICK m : m = [Settled EXCEPT ![2] = Settled[k], ![k] = scan.lit]
      OBVIOUS
    <3>5. m \in Disjunction /\ Range(m) = LitsOf(q) /\ q \in Refs
      BY <2>3, <3>1, <3>3, <3>4, MovedFacts, VisitFacts DEF MoveWatch, Examining
    <3>6. clauses' = [clauses EXCEPT ![q].lits = m]
      BY <3>1, <3>3, <3>4 DEF Store
    <3>7. /\ Stored' = Stored
          /\ \A p \in Refs : LitsOf(p)' = LitsOf(p)
          /\ \A p \in Refs \ {q} : Watched(p)' = Watched(p)
      BY ONLY <1>1, <3>5, <3>6, StoreFacts
    <3> QED
      BY <1>4, <1>5, <3>1, <3>7 DEF Same
  <2> QED
    BY <2>1, <2>2, <2>3
<1>7. i > head' \/ Unvisited(r, w)'
  <2>1. i > head \/ Unvisited(r, w)
    BY DEF DoomedBy
  <2> QED
    BY <1>2, <1>5, <2>1, StillUnvisited
<1>8. OutsideSearch'
  BY <1>2 DEF OutsideSearch, Level
<1> QED
  BY <1>3, <1>6, <1>7, <1>8, DoomedStays

\* At the root there is nothing to backtrack.
LEMMA RootStays ==
  ASSUME Inv, Level = 0, CancelUntil(0)
  PROVE  UNCHANGED <<trail, limits, head>>
<1>1. TypeOK /\ TrailOK /\ head \in Nat /\ Len(trail) \in Nat /\ head <= Len(trail)
  BY DEF Inv, TypeOK, TrailType, TrailOK
<1>2. Kept(0) = trail /\ KeptLimits(0) = limits
  BY <1>1, KeptFacts
<1>3. Min({head, Len(trail)}) \in {head, Len(trail)} /\ Min({head, Len(trail)}) <= head
  BY <1>1, MinOfTwo
<1>4. Min({head, Len(trail)}) = head
  BY <1>1, <1>3
<1> QED
  BY <1>2, <1>4 DEF CancelUntil

\* The waiting conflict stays, or is found, until the solver knows.
LEMMA DoomedStep ==
  ASSUME Inv, Doomed, [Next]_vars, consistent'
  PROVE  Doomed' \/ (conflict' # 0 /\ Level' = 0)
<1>1. OutsideSearch /\ consistent
  BY DoomedAlt, ConsistentBefore
<1>2. PICK r, w, i : DoomedBy(r, w, i)
  BY DoomedAlt
<1>3. /\ TypeOK /\ trail \in Seq(Assignment) /\ Len(trail) \in Nat /\ r \in Stored
      /\ conflict = 0 /\ Level = 0 /\ phase \notin {"search", "learned", "reduced"}
      /\ i > head \/ Unvisited(r, w)
  BY <1>1, <1>2 DEF Inv, TypeOK, TrailType, DoomedBy, OutsideSearch
<1>4. ~Fixpoint
  <2>1. scan = NoScan => ~Unvisited(r, w)
    BY DEF Unvisited, NoScan
  <2>2. i \in 1 .. Len(trail)
    BY <1>2 DEF DoomedBy, Positions
  <2> QED
    BY <1>3, <2>1, <2>2 DEF Fixpoint, Quiet
<1>5. CASE Dequeue \/ DropWatch \/ SkipWatch \/ KeepWatch \/ MoveWatch \/ Imply
  BY <1>1, <1>2, <1>5, DoomedDequeue, DoomedVisit
<1>6. CASE Conflict
  <2>1. conflict' \in Refs /\ Level' = Level
    BY <1>6, VisitFacts DEF Conflict, Examining, Unmoved, Level
  <2> QED
    BY <1>3, <2>1 DEF Refs
<1>7. CASE AddIgnored \/ Refused \/ SolveCached \/ Interrupt \/ UNCHANGED vars
  <2>1. Waits /\ phase' \in {phase, "idle"}
    BY <1>7, WaitingSteps DEF AddIgnored, Refused, SolveCached, Interrupt, vars
  <2>2. Grows /\ OutsideSearch' /\ Same(r) /\ r \in Stored'
    BY <1>3, <2>1, SameClauses DEF Waits, Grows, Positions, OutsideSearch, Level
  <2>3. i > head' \/ Unvisited(r, w)'
    BY <1>3, <2>1 DEF Waits, Unvisited
  <2> QED
    BY <1>2, <2>2, <2>3, DoomedStays
<1>8. CASE AddUnit \/ AddStored
  <2>1. phase = "install" /\ phase' \in {"settle", "idle"} /\ UNCHANGED <<limits, head, scan, conflict>>
    BY <1>8 DEF AddUnit, AddStored, Installing
  <2>2. OutsideSearch'
    BY <1>3, <2>1 DEF OutsideSearch, Level
  <2>3. i > head' \/ Unvisited(r, w)'
    BY <1>3, <2>1 DEF Unvisited
  <2>4. Grows /\ Same(r) /\ r \in Stored'
    <3>1. CASE AddUnit
      BY <1>3, <3>1, AddingSteps, SameClauses
    <3>2. CASE AddStored
      <4>1. PICK s, n :
              /\ s \in Disjunction /\ Allocate(s, FALSE) /\ n = Len(clauses) + 1
              /\ trail' = trail \/ trail' = Enqueue(s[1], n)
        <5>1. \E s, n :
              /\ s \in SetToSeqs(pending) /\ s \in Disjunction /\ Allocate(s, FALSE)
              /\ n = Len(clauses) + 1 /\ n \in Nat \ {0} /\ n \in Stored' /\ LitsOf(n)' = pending
              /\ IF started
                 THEN /\ \A l \in pending : ~IsTrue(l)
                      /\ Free(s[1])
                      /\ \A j \in 2 .. Len(s) : Free(s[j]) => Free(s[j - 1])
                      /\ trail' = IF Free(s[2]) THEN trail ELSE Enqueue(s[1], n)
                 ELSE trail' = trail
          BY <3>2, AddAllocates
        <5> QED
          BY <5>1
      <4>2. Same(r) /\ r \in Stored'
        BY <1>3, <4>1, AllocateSame
      <4>3. Grows
        BY <1>3, <4>1 DEF Grows, Positions, Enqueue
      <4> QED
        BY <4>2, <4>3
    <3> QED
      BY <1>8, <3>1, <3>2
  <2> QED
    BY <1>2, <2>2, <2>3, <2>4, DoomedStays
<1>9. CASE Add \/ Push \/ Pop \/ Solve
  <2>1. clauses' = clauses /\ scan = NoScan /\ scan' = NoScan /\ conflict' = 0 /\ CancelUntil(0)
    BY <1>9, RootSteps
  <2>2. phase' \in {"idle", "add", "install", "prepare"}
    <3>1. Push => Calls("push") /\ phase' = phase
      BY DEF Push
    <3>2. Add \/ Pop \/ Solve => phase' \in {"add", "install", "prepare"}
      BY DEF Add, Pop, Solve, Adding
    <3> QED
      BY <1>9, <3>1, <3>2 DEF Calls
  <2>3. UNCHANGED <<trail, limits, head>>
    BY <1>3, <2>1, RootStays
  <2>4. Grows /\ OutsideSearch' /\ Same(r) /\ r \in Stored'
    BY <1>3, <2>1, <2>2, <2>3, SameClauses DEF Grows, Positions, OutsideSearch, Level
  <2>5. i > head' \/ Unvisited(r, w)'
    BY <1>3, <2>1, <2>3 DEF Unvisited
  <2> QED
    BY <1>2, <2>4, <2>5, DoomedStays
<1>10. ~Learn /\ ~Reduce /\ ~Restart /\ ~NoRestart /\ ~Assume /\ ~FailAssumption /\ ~Decide
       /\ ~AnswerSat
  BY <1>3 DEF Learn, Reduce, Restart, NoRestart, Assume, FailAssumption, Decide, AnswerSat, Searching
<1>11. ~RootConflict /\ ~AnswerInconsistent /\ ~BeginSearch /\ ~GiveUp /\ ~Propagated /\ ~Settle
  BY <1>1, <1>3, <1>4 DEF RootConflict, AnswerInconsistent, BeginSearch, GiveUp, Propagated, Settle
<1>12. ~AddFalsified
  BY DEF AddFalsified
<1> QED
  BY <1>5, <1>6, <1>7, <1>8, <1>9, <1>10, <1>11, <1>12 DEF Next, SolverStep, ClientStep

\* A conflict at the root is answered, or dropped by an interrupt.
LEMMA RootConflictStep ==
  ASSUME Inv, DroppedOK, conflict # 0, Level = 0, [Next]_vars, consistent'
  PROVE  Doomed' \/ (conflict' # 0 /\ Level' = 0)
<1>1. /\ scan = NoScan /\ phase \in {"prepare", "search", "add", "settle"} /\ consistent
      /\ conflict \in Stored /\ \A l \in LitsOf(conflict) : IsFalse(l)
  BY DEF Inv, ScanOK, ConflictOK, AtHead
<1>2. CASE GiveUp
  <2>1. phase = "search" /\ phase' = "idle"
    BY <1>2 DEF GiveUp, Fixpoint, Quiet, Return
  <2>2. clauses' = clauses /\ conflict' = 0 /\ CancelUntil(0)
    BY <1>2, RootSteps
  <2>3. UNCHANGED <<trail, limits, head>>
    BY <2>2, RootStays
  <2>4. PICK w \in Watched(conflict), i \in Positions : FalseAt(w, i) /\ i > head
    BY <2>1 DEF DroppedOK
  <2>5. PICK r : r = conflict
    OBVIOUS
  <2>6. DoomedBy(r, w, i)
    BY <1>1, <2>4, <2>5 DEF DoomedBy
  <2>7. Grows /\ Same(r) /\ r \in Stored' /\ OutsideSearch' /\ i > head'
    BY <1>1, <2>1, <2>2, <2>3, <2>4, <2>5, SameClauses DEF Grows, Positions, OutsideSearch, Level
  <2> QED
    BY <2>6, <2>7, DoomedStays
<1>3. CASE Interrupt \/ UNCHANGED vars
  BY <1>3 DEF Interrupt, vars, assigned, Level
<1>4. ~RootConflict
  BY DEF RootConflict
<1>5. /\ ~Dequeue /\ ~DropWatch /\ ~SkipWatch /\ ~KeepWatch /\ ~MoveWatch /\ ~Imply /\ ~Conflict
      /\ ~Learn /\ ~Reduce /\ ~Restart /\ ~NoRestart
  BY <1>1 DEF Dequeue, DropWatch, SkipWatch, KeepWatch, MoveWatch, Imply, Conflict, Learn, Reduce,
              Restart, NoRestart, Examining, Visiting, Quiet
<1>6. /\ ~AnswerInconsistent /\ ~BeginSearch /\ ~Assume /\ ~FailAssumption /\ ~Decide /\ ~AnswerSat
      /\ ~Propagated /\ ~Settle
  BY <1>1 DEF AnswerInconsistent, BeginSearch, Assume, FailAssumption, Decide, AnswerSat, Searching,
              Propagated, Settle, Fixpoint, Quiet
<1>7. ~AddIgnored /\ ~AddFalsified /\ ~AddUnit /\ ~AddStored
  BY <1>1 DEF AddIgnored, AddFalsified, AddUnit, AddStored, Installing
<1>8. ~ClientStep
  BY <1>1 DEF ClientStep, Add, Push, Pop, Refused, SolveCached, Solve, Calls
<1> QED
  BY <1>2, <1>3, <1>4, <1>5, <1>6, <1>7, <1>8 DEF Next, SolverStep

-----------------------------------------------------------------------------
(***************************************************************************)
(* The scheme is inductive.                                                *)
(***************************************************************************)

\* A root conflict of the search is found through its first false watch: the
\* other one is false only further on in the queue.
LEMMA ConflictDropped ==
  ASSUME Inv, SchemeOK, Conflict, phase = "search", Level = 0
  PROVE  DroppedOK'
<1>1. /\ Visiting(FALSE) /\ scan # NoScan /\ Exhausted /\ IsFalse(Other) /\ Store(Settled)
      /\ UNCHANGED <<trail, limits, head>> /\ conflict' = Visited.ref
  BY DEF Conflict, Examining, Visiting, Unmoved
<1>2. PICK q, o : q = Visited.ref /\ o = Other
  OBVIOUS
<1>3. /\ TypeOK /\ TrailOK /\ q \in Stored /\ q \in Refs /\ Watched(q) = {scan.lit, o}
      /\ o # scan.lit /\ o \in Lit /\ IsFalse(o) /\ conflict = 0 /\ consistent
  BY <1>1, <1>2, VisitFacts, ScanFacts DEF Inv
<1>4. \A l \in LitsOf(q) : l \in Lit /\ IsFalse(l)
  <2>1. \A l \in LitsOf(q) : l \in Lit
    BY <1>3, ClauseFields
  <2> QED
    BY <1>1, <1>2, <1>3, <2>1, ExhaustedFacts
<1>5. OneFalse
  BY <1>3 DEF SchemeOK, Doomed
<1>6. PICK i \in Positions : FalseAt(o, i)
  BY <1>3, FalseSomewhere
<1>7. i > head
  <2> SUFFICES ASSUME i <= head PROVE FALSE
    BY <1>3, <1>6, EntryFields DEF Inv, TypeOK, TrailType
  <2>1. Examined(q, o, i)
    BY <1>3, <1>6 DEF Examined, Unvisited
  <2>2. trail[i].lev = 0
    BY <1>3, <1>6, EntryFields DEF TrailOK
  <2>3. Supported(q, 0)
    BY <1>3, <1>5, <1>6, <2>1, <2>2 DEF OneFalse
  <2>4. PICK h \in Positions : trail[h].lit \in LitsOf(q)
    BY <2>3 DEF Supported
  <2>5. PICK l : l = trail[h].lit
    OBVIOUS
  <2>6. l \in Lit /\ IsFalse(l) /\ IsTrue(l)
    BY <1>4, <2>4, <2>5 DEF IsTrue, Positions
  <2>7. \E j : FalseAt(l, j)
    BY <2>6, FalseSomewhere
  <2> QED
    BY <1>3, <2>6, <2>7, FalseFacts
<1>8. Watched(q)' = Watched(q)
  BY <1>1, <1>3, SettledSame DEF Same
<1>9. o \in Watched(q)' /\ i \in Positions' /\ FalseAt(o, i)' /\ i > head'
  BY <1>1, <1>3, <1>6, <1>7, <1>8 DEF Positions, FalseAt
<1>10. conflict' = q
  BY <1>1, <1>2
<1> QED
  BY <1>9, <1>10 DEF DroppedOK, Watched

\* Every step keeps what is known of a root conflict.
LEMMA DroppedStep ==
  ASSUME Inv, SchemeOK, DroppedOK, [Next]_vars
  PROVE  DroppedOK'
<1> SUFFICES ASSUME conflict' # 0, phase' = "search", Level' = 0
             PROVE  DroppedOK'
  BY DEF DroppedOK
<1>1. CASE Conflict
  <2>1. phase = "search" /\ Level = 0
    BY <1>1 DEF Conflict, Unmoved, Level
  <2> QED
    BY <1>1, <2>1, ConflictDropped
<1>2. CASE Interrupt \/ UNCHANGED vars
  <2>1. UNCHANGED <<clauses, trail, limits, head, phase, conflict>>
    BY <1>2 DEF Interrupt, vars, database, assigned
  <2> QED
    BY <2>1 DEF DroppedOK, Level, Watched, Positions, FalseAt
<1>3. ~DropWatch /\ ~SkipWatch /\ ~KeepWatch /\ ~MoveWatch /\ ~Imply
  <2>1. DropWatch \/ SkipWatch \/ KeepWatch \/ MoveWatch \/ Imply
          => scan # NoScan /\ conflict' = conflict
    BY DEF DropWatch, SkipWatch, KeepWatch, MoveWatch, Imply, Examining, Visiting
  <2> QED
    BY <2>1, ScanFacts
<1>4. ~Dequeue /\ ~Learn /\ ~Restart /\ ~NoRestart /\ ~BeginSearch /\ ~Assume /\ ~Decide
  <2>1. ~Dequeue /\ ~Learn /\ ~BeginSearch /\ ~Assume /\ ~Decide
    BY DEF Dequeue, Learn, BeginSearch, Assume, Decide, Searching, Fixpoint, Quiet
  <2>2. Restart \/ NoRestart => phase \in {"learned", "reduced"} /\ conflict' = conflict
    BY DEF Restart, NoRestart
  <2> QED
    BY <2>1, <2>2, IdleQuiet
<1>5. ~Reduce /\ ~RootConflict /\ ~AnswerInconsistent /\ ~GiveUp /\ ~FailAssumption /\ ~AnswerSat
  BY DEF Reduce, RootConflict, AnswerInconsistent, GiveUp, FailAssumption, AnswerSat, Return
<1>6. ~Propagated /\ ~AddIgnored /\ ~AddFalsified /\ ~AddUnit /\ ~AddStored /\ ~Settle
  BY DEF Propagated, AddIgnored, AddFalsified, AddUnit, AddStored, Settle
<1>7. ~Add /\ ~Pop /\ ~Solve /\ ~Push /\ ~Refused /\ ~SolveCached
  BY DEF Add, Pop, Solve, Push, Refused, SolveCached, Adding, Calls
<1> QED
  BY <1>1, <1>2, <1>3, <1>4, <1>5, <1>6, <1>7 DEF Next, SolverStep, ClientStep

\* Every step keeps what the watches guarantee.
LEMMA SchemeStep ==
  ASSUME Inv, SchemeOK, DroppedOK, [Next]_vars
  PROVE  SchemeOK'
<1> SUFFICES ASSUME consistent' PROVE Regular' \/ Doomed' \/ (conflict' # 0 /\ Level' = 0)
  BY DEF SchemeOK, Regular
<1>1. consistent
  BY ConsistentBefore
<1>2. CASE conflict # 0 /\ Level = 0
  BY <1>2, RootConflictStep
<1>3. CASE Doomed
  BY <1>3, DoomedStep
<1>4. CASE Regular /\ ~(conflict # 0 /\ Level = 0)
  <2>1. Level \in Nat
    BY DEF Inv, TypeOK, TrailType, Level
  <2> QED
    BY <1>4, <2>1, RegularStep
<1> QED
  BY <1>1, <1>2, <1>3, <1>4 DEF SchemeOK, Regular

\* The watched-literal scheme: when a watch is false and has been visited, a
\* true literal of the clause is at its level or below, unless a conflict is
\* on its way to being found.
THEOREM SchemeInvariance == Spec => [](SchemeOK /\ DroppedOK)
<1>1. Init => SchemeOK /\ DroppedOK
  <2> SUFFICES ASSUME Init PROVE SchemeOK /\ DroppedOK
    OBVIOUS
  <2>1. Positions = {} /\ Stored = {} /\ conflict = 0
    BY DEF Init, Positions, Stored
  <2> QED
    BY <2>1 DEF SchemeOK, DroppedOK, OneFalse, TwoFalse
<1>2. Inv /\ SchemeOK /\ DroppedOK /\ [Next]_vars => (SchemeOK /\ DroppedOK)'
  BY SchemeStep, DroppedStep
<1> QED
  BY <1>1, <1>2, KernelInvariance, PTL DEF Spec

-----------------------------------------------------------------------------
(***************************************************************************)
(* What the runs check.                                                    *)
(***************************************************************************)

\* When the queue is empty every false watch has been examined.
LEMMA FixpointScheme ==
  ASSUME Inv, SchemeOK, Fixpoint, consistent
  PROVE  /\ OneFalse /\ TwoFalse
         /\ \A r, w, i : FalseAt(w, i) => Examined(r, w, i)
<1>1. scan = NoScan /\ conflict = 0 /\ head = Len(trail)
  BY DEF Fixpoint, Quiet
<1>2. \A r, w : ~Unvisited(r, w)
  BY <1>1 DEF Unvisited, NoScan
<1>3. \A i \in Positions : i <= head /\ ~(i > head)
  BY <1>1 DEF Positions, Inv, TypeOK, TrailType
<1>4. ~Doomed
  BY <1>2, <1>3 DEF Doomed, Waiting
<1>5. \A r, w, i : FalseAt(w, i) => Examined(r, w, i)
  BY <1>1, <1>2, <1>3 DEF Examined, FalseAt
<1> QED
  BY <1>1, <1>4, <1>5 DEF SchemeOK

\* A literal is not both true and false.
LEMMA NotBoth ==
  ASSUME Inv, NEW l \in Lit, IsTrue(l)
  PROVE  ~IsFalse(l)
BY FalseSomewhere, FalseFacts DEF Inv

\* When propagate() returns without a conflict, no stored clause is false:
\* whatever was learned, deleted, backtracked over or interrupted before.
THEOREM ConflictsFound == Spec => []NoMissedConflict
<1>1. Inv /\ SchemeOK => NoMissedConflict
  <2> SUFFICES ASSUME Inv, SchemeOK, Fixpoint, consistent, NEW r \in Stored,
                      \A l \in LitsOf(r) : IsFalse(l)
               PROVE  FALSE
    BY DEF NoMissedConflict
  <2>1. TypeOK /\ r \in Refs
    BY DEF Inv, Stored, Refs
  <2>2. PICK a, b : a = clauses[r].lits[1] /\ b = clauses[r].lits[2]
    OBVIOUS
  <2>3. /\ Watched(r) = {a, b} /\ a # b /\ a \in LitsOf(r) /\ b \in LitsOf(r)
        /\ LitsOf(r) \subseteq Lit
    BY <2>1, <2>2, WatchedFields, ClauseFields DEF Watched
  <2>4. PICK i \in Positions : FalseAt(a, i)
    BY <2>3, FalseSomewhere
  <2>5. PICK j \in Positions : FalseAt(b, j)
    BY <2>3, FalseSomewhere
  <2>6. Examined(r, a, i) /\ Examined(r, b, j) /\ TwoFalse
    BY <2>4, <2>5, FixpointScheme
  <2>7. Supported(r, trail[i].lev) \/ Supported(r, trail[j].lev)
    BY <2>3, <2>6 DEF TwoFalse
  <2>8. PICK l \in LitsOf(r) : IsTrue(l)
    BY <2>7 DEF Supported, IsTrue, Positions
  <2> QED
    BY <2>3, <2>8, NotBoth
<1> QED
  BY <1>1, KernelInvariance, SchemeInvariance, PTL

\* Without chronological backtracking propagation is complete: then every
\* stored clause has a true literal or two free ones.
THEOREM UnitsFound == ASSUME ~Chrono PROVE Spec => []NoMissedUnit
<1>1. Inv /\ SchemeOK => NoMissedUnit
  <2> SUFFICES ASSUME Inv, SchemeOK, Fixpoint, consistent, NEW r \in Stored,
                      \A l \in LitsOf(r) : ~IsTrue(l)
               PROVE  \E k, l \in LitsOf(r) : k # l /\ Free(k) /\ Free(l)
    BY DEF NoMissedUnit
  <2>1. TypeOK /\ r \in Refs
    BY DEF Inv, Stored, Refs
  <2>2. PICK a, b : a = clauses[r].lits[1] /\ b = clauses[r].lits[2]
    OBVIOUS
  <2>3. /\ Watched(r) = {a, b} /\ a # b /\ a \in LitsOf(r) /\ b \in LitsOf(r)
        /\ LitsOf(r) \subseteq Lit
    BY <2>1, <2>2, WatchedFields, ClauseFields DEF Watched
  <2>4. ASSUME NEW w \in Watched(r) PROVE Free(w)
    <3> SUFFICES ASSUME IsFalse(w) PROVE FALSE
      BY <2>3 DEF Free
    <3>1. PICK i \in Positions : FalseAt(w, i)
      BY FalseSomewhere
    <3>2. Examined(r, w, i) /\ OneFalse
      BY <3>1, FixpointScheme
    <3>3. Supported(r, trail[i].lev)
      BY <3>2 DEF OneFalse
    <3> QED
      BY <3>3 DEF Supported, IsTrue, Positions
  <2> QED
    BY <2>3, <2>4
<1> QED
  BY <1>1, KernelInvariance, SchemeInvariance, PTL

=============================================================================
