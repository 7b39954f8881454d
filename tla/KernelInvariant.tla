--------------------------- MODULE KernelInvariant ---------------------------
(***************************************************************************)
(* The inductive invariant of module Kernel: what holds between any two    *)
(* steps of the solver, in named parts.  KernelProofs.tla proves that Inv  *)
(* is inductive, and SchemeOK relative to Inv.                             *)
(***************************************************************************)
EXTENDS Kernel

Refs == 1 .. Len(clauses)
Positions == 1 .. Len(trail)
Watched(r) == {clauses[r].lits[1], clauses[r].lits[2]}
FalseAt(l, i) == i \in Positions /\ trail[i].lit = Neg(l)

\* A stored clause has at least two literals, all different.
Disjunction == {s \in Seq(Lit) : Len(s) > 1 /\ IsInjective(s)}
ClauseRecord == [lits : Disjunction, learned : BOOLEAN, deleted : BOOLEAN]
Watch == [ref : Nat, blocker : Lit]
Assignment == [lit : Lit, lev : Nat, rsn : Nat]
Answer == [assumptions : Seq(Lit), result : {"none", "sat", "unsat"}]
Phases == {"idle", "prepare", "search", "learned", "reduced", "add", "install", "settle"}

DatabaseType ==
  /\ clauses \in Seq(ClauseRecord) /\ watches \in [Lit -> Seq(Watch)]
  /\ scan # NoScan => scan \in [lit : Lit, rest : Seq(Watch)] /\ scan.rest # << >>

TrailType == trail \in Seq(Assignment) /\ limits \in Seq(Nat) /\ head \in Nat

ControlType ==
  /\ program \in Seq(Operations)
  /\ count \in Nat /\ 1 .. count \subseteq Var /\ selectors \in Seq(1 .. count)
  /\ consistent \in BOOLEAN /\ started \in BOOLEAN
  /\ limited \in BOOLEAN /\ interrupted \in BOOLEAN
  /\ hard \in Seq(Lit) /\ user \in Seq(Lit)
  /\ cached \in Answer /\ failed \subseteq Lit
  /\ phase \in Phases
  /\ conflict \in Nat
  /\ pending \subseteq Lit /\ inputs \subseteq SUBSET Lit
  /\ restarts \in Nat /\ reductions \in Nat

TypeOK == DatabaseType /\ TrailType /\ ControlType

\* A variable is assigned once; the limits cut the trail by level, and what
\* waits in the queue belongs to the current level.
TrailOK ==
  /\ head <= Len(trail)
  /\ \A i, j \in Positions : VarOf(trail[i].lit) = VarOf(trail[j].lit) => i = j
  /\ \A k \in 1 .. Level : limits[k] <= head
  /\ \A i \in Positions : trail[i].lev <= Level
  /\ \A i \in Positions, k \in 1 .. Level : limits[k] < i <=> k <= trail[i].lev

\* An assignment without a reason is at the root or first of its level; a
\* reason is a stored clause whose other literals were false before.
Explained(i) ==
  /\ trail[i].rsn \in Stored
  /\ trail[i].lit \in LitsOf(trail[i].rsn)
  /\ \A l \in LitsOf(trail[i].rsn) \ {trail[i].lit} : \E h \in 1 .. i - 1 : FalseAt(l, h)

ReasonsOK == \A i \in Positions :
  IF trail[i].rsn = 0 THEN trail[i].lev > 0 => i = limits[trail[i].lev] + 1
  ELSE Explained(i)

\* The head of the queue is what propagation is at work on.
AtHead == /\ phase \in {"prepare", "search", "add", "settle"} /\ consistent
          /\ head \in Positions /\ trail[head].lev = Level

ScanOK == scan # NoScan =>
  AtHead /\ conflict = 0 /\ scan.lit = Neg(trail[head].lit)

ConflictOK == conflict # 0 =>
  /\ AtHead /\ conflict \in Stored
  /\ \A l \in LitsOf(conflict) : IsFalse(l)
  /\ Neg(trail[head].lit) \in LitsOf(conflict)

\* What each phase of a call relies on.
PhaseOK ==
  /\ phase \in {"prepare", "add", "install", "settle"} => Level = 0
  /\ phase \in {"search", "learned", "reduced"} => consistent
  /\ phase \in {"add", "settle"} => started
  /\ ~started => Level = 0 /\ head = 0 /\ phase \in {"idle", "install"}
  /\ phase = "idle" /\ cached.result = "none" => Level = 0
  /\ phase = "add" => consistent /\ ~Tautology(pending)

\* The cache is empty while the clauses change, and belongs to the last query.
AnswerOK ==
  /\ Querying => selectors = hard
  /\ phase \in {"add", "install", "settle"} => cached.result = "none"
  /\ CacheOK

\* The lists refer to clauses of the arena.
RefsOK == \A l \in Lit : \A i \in 1 .. Len(ListOf(l)) : ListOf(l)[i].ref \in Refs

Inv == /\ TypeOK /\ TrailOK /\ ReasonsOK /\ ScanOK /\ ConflictOK /\ PhaseOK
       /\ AnswerOK /\ RefsOK /\ WatchedOK
-----------------------------------------------------------------------------
(***************************************************************************)
(* What the watches of a clause guarantee.                                 *)
(***************************************************************************)
Unvisited(r, w) == scan.lit = w /\ \E j \in 1 .. Len(scan.rest) : scan.rest[j].ref = r

\* The watch w of r, false at i, has been looked at since.
Examined(r, w, i) ==
  /\ FalseAt(w, i) /\ i <= head /\ ~Unvisited(r, w)
  /\ conflict # 0 => trail[i].lev < Level

\* Some literal of r is true since level k or before.
Supported(r, k) == \E i \in Positions : trail[i].lit \in LitsOf(r) /\ trail[i].lev <= k

OneFalse == \A r \in Stored, i \in Positions : \A w \in Watched(r) :
  Examined(r, w, i) /\ (Chrono => trail[i].lev = 0) => Supported(r, trail[i].lev)

TwoFalse == \A r \in Stored, i, j \in Positions : \A v, w \in Watched(r) :
  v # w /\ Examined(r, v, i) /\ Examined(r, w, j)
    => Supported(r, trail[i].lev) \/ Supported(r, trail[j].lev)

\* A false clause with a watch that will be looked at.
Waiting(r) == \E w \in Watched(r), i \in Positions :
  FalseAt(w, i) /\ (i > head \/ Unvisited(r, w))

\* An interrupt dropped a root conflict: propagation will find it again.
Doomed ==
  /\ conflict = 0 /\ Level = 0 /\ phase \notin {"search", "learned", "reduced"}
  /\ \E r \in Stored : (\A l \in LitsOf(r) : IsFalse(l)) /\ Waiting(r)

SchemeOK == consistent => \/ conflict # 0 /\ Level = 0
                          \/ Doomed
                          \/ OneFalse /\ TwoFalse

DroppedOK == conflict # 0 /\ phase = "search" /\ Level = 0 =>
  \E w \in Watched(conflict), i \in Positions : FalseAt(w, i) /\ i > head
=============================================================================
