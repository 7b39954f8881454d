-------------------------------- MODULE Cdcl --------------------------------
(***************************************************************************)
(* The incremental conflict-driven search of src/solver.rs, seen without   *)
(* its data structures: which literals are on the trail and why, which     *)
(* clauses the database holds, which query is open and what was answered.  *)
(* Watch lists, heaps, heuristics, restart and reduction schedules decide  *)
(* WHICH of the steps below the program takes next; whether a step is      *)
(* allowed, and what an answer then means, is decided here.                *)
(*                                                                         *)
(* Kernel.tla is the same search with its watch lists, its propagation     *)
(* queue and its conflict analysis spelled out; it is checked to implement *)
(* this module.  CdclProofs.tla proves that every answer is right.         *)
(***************************************************************************)
EXTENDS Cnf, Sequences

CONSTANTS
  InputClauses,     \* the clauses a caller may add
  Queries           \* the queries: pairs <<scope selectors, user assumptions>>

ASSUME InputAssumption ==
  /\ InputClauses \subseteq Clause
  /\ Queries \subseteq Seq(Lit) \X Seq(Lit)

VARIABLES
  inputs,           \* every clause the caller has added so far
  original,         \* the stored input clauses (never deleted)
  learned,          \* the stored learned clauses
  known,            \* the variables the solver has tables for
  trail,            \* the assignments: literal, decision level, reason ({}: None)
  level,            \* decision_level()
  hard,             \* the scope selectors of the open or last query
  user,             \* the caller's assumptions of the open or last query
  mode,             \* "idle" or "search"
  consistent,       \* FALSE once the permanent clauses are known inconsistent
  result,           \* the answer of the last query, "none" when there is none
  failed            \* failed_assumptions

db    == <<inputs, original, learned, known, consistent>>
query == hard \o user
search == <<trail, level>>
answer == <<mode, result, failed>>
vars  == <<inputs, original, learned, known, trail, level, hard, user, mode,
           consistent, result, failed>>

Entry == [lit : Lit, lev : Nat, rsn : SUBSET Lit]

\* The members of a sequence.
Elems(s) == {s[i] : i \in 1 .. Len(s)}
VarsOf(c) == {VarOf(l) : l \in c}
Negs(c) == {Neg(l) : l \in c}

Positions == 1 .. Len(trail)
LitsAt(S) == {trail[i].lit : i \in S}
TrueLits == LitsAt(Positions)
RootLits == LitsAt({i \in Positions : trail[i].lev = 0})
Unassigned(l) == l \notin TrueLits /\ Neg(l) \notin TrueLits
Falsified(c) == Negs(c) \subseteq TrueLits
Clauses == original \cup learned

\* Mutant of Explained: the other literals of the reasons are forgotten.
ExplainedByAnyReason(S, cut) == \A i \in S : trail[i].rsn # {}

(***************************************************************************)
(* The assignments at the positions S are explained by the literals cut:   *)
(* each has a reason, whose other literals are falsified by the cut, by    *)
(* another member of S or by a root assignment.  Conflict analysis, clause *)
(* minimization and failed-assumption analysis all walk such a set.        *)
(***************************************************************************)
Explained(S, cut) ==
  \A i \in S : /\ trail[i].rsn # {}
               /\ Negs(trail[i].rsn \ {trail[i].lit})
                    \subseteq cut \cup LitsAt(S) \cup RootLits

\* Mutant of Assign: the level is counted from the decision below.
AssignOneLevelDown(l, k, r) == [lit |-> l, lev |-> k - 1, rsn |-> r]

Assign(l, k, r) == [lit |-> l, lev |-> k, rsn |-> r]

\* Mutant of CutAt: the cut is made below level k, not above it.
CutBelow(n, k) == /\ \A i \in 1 .. n : trail[i].lev < k
                  /\ \A i \in n + 1 .. Len(trail) : trail[i].lev >= k

\* The first n assignments are those of level k or less.
CutAt(n, k) == /\ \A i \in 1 .. n : trail[i].lev <= k
               /\ \A i \in n + 1 .. Len(trail) : trail[i].lev > k

\* cancel_until(k).
CancelUntil(k) ==
  /\ level' = k
  /\ \E n \in 0 .. Len(trail) : CutAt(n, k) /\ trail' = SubSeq(trail, 1, n)
-----------------------------------------------------------------------------
Init ==
  /\ inputs = {} /\ original = {} /\ learned = {} /\ known = {}
  /\ trail = << >> /\ level = 0
  /\ hard = << >> /\ user = << >>
  /\ mode = "idle" /\ consistent = TRUE
  /\ result = "none" /\ failed = {}

\* Every mutation between queries first discards the last answer and the
\* search state behind it; the variable table may grow at the same time, to
\* the variables up to n.
Mutate(n) ==
  /\ mode = "idle"
  /\ known' = known \cup (Var \cap 1 .. n)
  /\ CancelUntil(0)
  /\ result' = "none" /\ failed' = {}
  /\ UNCHANGED <<inputs, original, learned, hard, user, mode, consistent>>

Adding(c) ==
  /\ mode = "idle" /\ result = "none" /\ level = 0
  /\ VarsOf(c) \subseteq known
  /\ inputs' = inputs \cup {c}
  /\ UNCHANGED <<learned, known, level, hard, user, mode, result, failed>>

\* A clause that is a tautology, is satisfied at the root, or comes too late
\* to matter is not stored.
AddIgnored(c) ==
  /\ Adding(c)
  /\ Tautology(c) \/ ~consistent \/ c \cap RootLits # {}
  /\ UNCHANGED <<original, trail, consistent>>

AddFalsified(c) ==
  /\ Adding(c)
  /\ Falsified(c)
  /\ consistent' = FALSE
  /\ UNCHANGED <<original, trail>>

AddUnit(l) ==
  /\ Adding({l})
  /\ Unassigned(l)
  /\ trail' = Append(trail, Assign(l, 0, {}))
  /\ UNCHANGED <<original, consistent>>

\* A stored clause whose other literals are all false implies the last one.
AddStored(c) ==
  /\ Adding(c)
  /\ c # {} /\ \A l \in c : c # {l}
  /\ original' = original \cup {c}
  /\ \/ UNCHANGED trail
     \/ \E l \in c : /\ Unassigned(l)
                     /\ Falsified(c \ {l})
                     /\ trail' = Append(trail, Assign(l, 0, c))
  /\ UNCHANGED consistent

AddClause(c) == \/ AddIgnored(c)
                \/ AddFalsified(c)
                \/ \E l \in c : c = {l} /\ AddUnit(l)
                \/ AddStored(c)

Solve(h, u) ==
  /\ mode = "idle"
  /\ VarsOf(Elems(h) \cup Elems(u)) \subseteq known
  /\ mode' = "search" /\ hard' = h /\ user' = u
  /\ CancelUntil(0)
  /\ result' = "none" /\ failed' = {}
  /\ UNCHANGED db

Propagate ==
  /\ mode = "search" \/ result = "none"
  /\ UNCHANGED <<db, level, hard, user, answer>>
  /\ \E c \in Clauses : \E l \in c :
       /\ Unassigned(l)
       /\ Falsified(c \ {l})
       /\ trail' = Append(trail, Assign(l, level, c))

\* A clause falsified by root assignments ends the open query.
RootConflict ==
  /\ level = 0
  /\ mode = "search" \/ result = "none"
  /\ \E c \in Clauses : Falsified(c)
  /\ consistent' = FALSE
  /\ mode' = "idle"
  /\ result' = IF mode = "search" THEN "unsat" ELSE "none"
  /\ UNCHANGED <<inputs, original, learned, known, search, hard, user, failed>>

AnswerInconsistent ==
  /\ mode = "search" /\ ~consistent
  /\ mode' = "idle" /\ result' = "unsat"
  /\ UNCHANGED <<db, search, hard, user, failed>>

\* Mutant of Assume: an assumption that is assigned at all counts as holding.
AssumeAssigned ==
  /\ mode = "search" /\ level < Len(query)
  /\ level' = level + 1
  /\ LET p == query[level + 1] IN
       \/ ~Unassigned(p) /\ UNCHANGED trail
       \/ Unassigned(p) /\ trail' = Append(trail, Assign(p, level + 1, {}))
  /\ UNCHANGED <<db, hard, user, answer>>

\* Assumption i is decided at level i; one that already holds gets an empty
\* level, so that the levels stay aligned with the assumptions.
Assume ==
  /\ mode = "search" /\ level < Len(query)
  /\ level' = level + 1
  /\ LET p == query[level + 1] IN
       \/ p \in TrueLits /\ UNCHANGED trail
       \/ Unassigned(p) /\ trail' = Append(trail, Assign(p, level + 1, {}))
  /\ UNCHANGED <<db, hard, user, answer>>

\* The literals D, all decisions, and the failed assumption together
\* contradict the clauses; the caller sees the part it assumed.
FailAssumption ==
  /\ mode = "search" /\ level < Len(query)
  /\ mode' = "idle" /\ result' = "unsat"
  /\ LET p == query[level + 1] IN
       \E S \in SUBSET Positions :
         LET D == LitsAt({i \in Positions : trail[i].lev > 0 /\ trail[i].rsn = {}})
         IN \E core \in SUBSET D :
              /\ Explained(S, core)
              /\ Neg(p) \in core \cup LitsAt(S) \cup RootLits
              /\ failed' = (core \cup {p}) \cap Elems(user)
  /\ CancelUntil(0)
  /\ UNCHANGED <<db, hard, user>>

Decide ==
  /\ mode = "search" /\ level >= Len(query)
  /\ level' = level + 1
  /\ \E l \in Lit : /\ VarOf(l) \in known
                    /\ Unassigned(l)
                    /\ trail' = Append(trail, Assign(l, level + 1, {}))
  /\ UNCHANGED <<db, hard, user, answer>>

\* Mutant of Derives: literals are dropped without an explanation.
DerivesAnyPart(c) == \E k \in Clauses : Falsified(k) /\ c \subseteq k

\* A falsified clause and the explanation S of its literals leave the literals
\* of c; after backtracking to level b, c implies its literal a.
Derives(c) ==
  \E k \in Clauses, S \in SUBSET Positions :
    /\ Falsified(k)
    /\ Explained(S, Negs(c))
    /\ Negs(k) \subseteq Negs(c) \cup LitsAt(S) \cup RootLits

Learn ==
  /\ mode = "search" /\ consistent
  /\ UNCHANGED <<inputs, original, known, consistent, hard, user, answer>>
  /\ level' \in 0 .. level - 1
  /\ \E F \in SUBSET TrueLits :
       LET c == Negs(F) IN
       \E a \in c :
         /\ \A i \in Positions :
              trail[i].lit \in F =>
                IF trail[i].lit = Neg(a) THEN trail[i].lev > level'
                                         ELSE trail[i].lev \in 1 .. level'
         /\ c = {a} => level' = 0
         /\ learned' = IF c = {a} THEN learned ELSE learned \cup {c}
         /\ \E n \in 0 .. Len(trail) :
              /\ CutAt(n, level')
              /\ trail' = Append(SubSeq(trail, 1, n),
                                 Assign(a, level', IF c = {a} THEN {} ELSE c))
         /\ Derives(c)

Restart ==
  /\ mode = "search"
  /\ UNCHANGED <<db, hard, user, answer>>
  /\ \E k \in 0 .. level - 1 : CancelUntil(k)

\* Mutant of Reasons: database reduction deletes reasons, too.
NoReasons == {}

\* Database reduction spares the clauses that are reasons.
Reasons == {trail[i].rsn : i \in Positions}
Reduce ==
  /\ mode = "search"
  /\ UNCHANGED <<inputs, original, known, consistent, search, hard, user, answer>>
  /\ \E gone \in SUBSET (learned \ (Reasons \ original)) : learned' = learned \ gone

AnswerSat ==
  /\ mode = "search" /\ consistent /\ level >= Len(query)
  /\ \A v \in known : v \in TrueLits \/ Neg(v) \in TrueLits
  /\ \A c \in Clauses : ~Falsified(c)
  /\ mode' = "idle" /\ result' = "sat"
  /\ UNCHANGED <<db, search, hard, user, failed>>

\* An interrupt or an exhausted limit ends the query without an answer.
GiveUp ==
  /\ mode = "search"
  /\ mode' = "idle" /\ result' = "none" /\ failed' = {}
  /\ CancelUntil(0)
  /\ UNCHANGED <<db, hard, user>>

Next ==
  \/ \E n \in Var \cup {0} : Mutate(n)
  \/ \E c \in InputClauses : AddClause(c)
  \/ \E q \in Queries : Solve(q[1], q[2])
  \/ Propagate
  \/ RootConflict
  \/ AnswerInconsistent
  \/ Assume
  \/ FailAssumption
  \/ Decide
  \/ Learn
  \/ Restart
  \/ Reduce
  \/ AnswerSat
  \/ GiveUp

Spec == Init /\ [][Next]_vars
-----------------------------------------------------------------------------
TypeOK ==
  /\ inputs \in SUBSET Clause /\ original \in SUBSET Clause
  /\ learned \in SUBSET Clause /\ known \in SUBSET Var
  /\ trail \in Seq(Entry) /\ level \in Nat
  /\ hard \in Seq(Lit) /\ user \in Seq(Lit)
  /\ mode \in {"idle", "search"} /\ consistent \in BOOLEAN
  /\ result \in {"none", "sat", "unsat"}
  /\ failed \in SUBSET Lit

(***************************************************************************)
(* The trail is a consistent assignment, partitioned by decision level.    *)
(***************************************************************************)
TrailOK ==
  \A i \in Positions :
    /\ trail[i].lev <= level
    /\ VarOf(trail[i].lit) \in known
    /\ \A j \in 1 .. i - 1 : /\ trail[j].lev <= trail[i].lev
                             /\ trail[j].lit # trail[i].lit
                             /\ trail[j].lit # Neg(trail[i].lit)

(***************************************************************************)
(* An implied literal belongs to its reason, the reason is still stored,   *)
(* and its other literals were falsified before.                           *)
(***************************************************************************)
ReasonOK ==
  \A i \in Positions : trail[i].rsn # {} =>
    /\ trail[i].lit \in trail[i].rsn
    /\ trail[i].rsn \in Clauses
    /\ \A k \in trail[i].rsn \ {trail[i].lit} :
         \E j \in 1 .. i - 1 : trail[j].lit = Neg(k)

\* A root assignment without a reason is a consequence of the input.
RootOK == \A i \in Positions :
  trail[i].lev = 0 /\ trail[i].rsn = {} => Entails(inputs, {trail[i].lit})

\* During a search the first Len(query) decisions are the assumptions.
DecisionOK == mode = "search" => \A i \in Positions :
  trail[i].lev \in 1 .. Len(query) /\ trail[i].rsn = {}
    => trail[i].lit = query[trail[i].lev]

(***************************************************************************)
(* Backtracking never leaves an assumption behind: at every point of a     *)
(* search, the assumptions of the open levels hold, each since its own     *)
(* level at the latest.                                                    *)
(***************************************************************************)
AssumedOK == mode = "search" => \A i \in 1 .. Len(query) :
  i <= level => \E j \in Positions : trail[j].lit = query[i] /\ trail[j].lev <= i

(***************************************************************************)
(* No clause is ever stored that the input does not entail, and as long as *)
(* the formula is not known inconsistent no input clause is lost.          *)
(***************************************************************************)
DatabaseOK ==
  /\ \A c \in Clauses : Entails(inputs, c) /\ VarsOf(c) \subseteq known
  /\ consistent => \A c \in inputs :
       c \in original \/ Tautology(c) \/ c \cap RootLits # {}
  /\ ~consistent => Refutes(inputs, {})

\* An open query has no answer yet and ranges over known variables; a
\* discarded answer leaves no levels.
OpenOK == /\ mode = "search" =>
                /\ result = "none" /\ failed = {}
                /\ VarsOf(Elems(hard) \cup Elems(user)) \subseteq known
          /\ mode = "idle" /\ result = "none" => level = 0

(***************************************************************************)
(* A "sat" answer comes with an assignment that satisfies every clause     *)
(* ever added and every assumption of the query.                           *)
(***************************************************************************)
SatIsRight == result = "sat" =>
  /\ \A c \in inputs : Tautology(c) \/ c \cap TrueLits # {}
  /\ Elems(query) \subseteq TrueLits
  /\ \A l \in TrueLits : Neg(l) \notin TrueLits

(***************************************************************************)
(* An "unsat" answer comes with assumptions of the caller that, with the   *)
(* scope selectors, have no common model with the input clauses.           *)
(***************************************************************************)
UnsatIsRight == result = "unsat" =>
  /\ failed \subseteq Elems(user)
  /\ Refutes(inputs, failed \cup Elems(hard))
=============================================================================
