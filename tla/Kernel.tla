------------------------------- MODULE Kernel -------------------------------
(***************************************************************************)
(* struct Solver of src/solver.rs at work: the clause arena, the two-      *)
(* watched-literal lists with their blockers, the trail and its level      *)
(* limits, the propagation queue, first-UIP analysis with minimization,    *)
(* chronological backtracking, database reduction, restarts, activation    *)
(* literals for scopes, the result cache and interruption.                 *)
(*                                                                         *)
(* One action is what the code does between two points where the order of  *)
(* events can matter: a watch visit, a conflict analysis with its          *)
(* backjump, a decision, a client call.  The branching heuristic and the   *)
(* reduction and restart schedules are nondeterministic; preprocessing     *)
(* (off in the default configuration) is left out.                         *)
(***************************************************************************)
EXTENDS Cnf, SequencesExt

CONSTANTS
  Programs,         \* what the client may do: sequences of operations
  BinaryFastPath,   \* SolverConfig::binary_fast_path
  Minimize,         \* SolverConfig::minimize_learned_clauses
  Chrono,           \* SolverConfig::chronological_backtracking
  ChronoLimit,      \* CHRONO_LEVEL_LIMIT (100 in the code)
  Interruptible,    \* whether another thread holds the Interrupter
  MaxRestarts,      \* bounds on restarts and reductions in one query; the
  MaxReductions     \* code spaces them out over ever more conflicts

\* The client's operations.  A query may run under work limits; which poll a
\* limit expires at is left open.
Operations == UNION {Range(p) : p \in Programs}

ASSUME ProgramAssumption ==
  /\ \A p \in Programs : p \in Seq(Operations)
  /\ \A o \in Operations :
       \/ o.op \in {"push", "pop"}
       \/ o.op = "add" /\ o.clause \in Clause
       \/ o.op = "solve" /\ o.assume \in Seq(Lit) /\ o.limited \in BOOLEAN

\* Variables are numbered without gaps, and there are finitely many of them
\* (MAX_VARIABLES); a level limit is a count.
ASSUME NumberingAssumption ==
  /\ IsFiniteSet(Var) /\ \A v \in Var : 1 .. v \subseteq Var
  /\ ChronoLimit \in Nat

VARIABLES
  program,          \* the client's remaining operations
  clauses,          \* the arena: literals, learned, deleted
  watches,          \* for each literal, its list of clause and blocker
  trail,            \* trail, with levels[] and reasons[] of its variables
  limits,           \* trail_limits: the trail's length below each level
  head,             \* propagation_head
  count,            \* external_variable_count
  consistent, started,
  selectors,        \* scope_selectors
  hard, user,       \* the last query's selectors and assumptions
  cached,           \* cached_assumptions and cached_result
  failed,           \* failed_assumptions
  phase,            \* where the client call in progress has got to
  scan,             \* the watch list being scanned: literal and unread watches
  conflict,         \* the conflict clause propagate() returned, or 0
  pending,          \* the normalized clause being added
  interrupted,      \* the Interrupter's flag
  limited,          \* whether the query has work limits
  restarts, reductions,  \* in this query, against the bounds
  inputs            \* the clauses added so far (what the answers are about)

database  == <<clauses, watches>>
assigned  == <<trail, limits, head>>
client    == <<program, selectors, count, inputs>>
query     == <<hard, user, limited>>
answer    == <<cached, failed>>
budget    == <<restarts, reductions>>
vars == <<database, assigned, client, query, answer, budget, consistent,
          started, phase, scan, conflict, pending, interrupted>>

Level == Len(limits)                                \* decision_level()
IsTrue(l) == \E i \in 1 .. Len(trail) : trail[i].lit = l
IsFalse(l) == IsTrue(Neg(l))
Free(l) == ~IsTrue(l) /\ ~IsFalse(l)
Entry(l) == CHOOSE i \in 1 .. Len(trail) : VarOf(trail[i].lit) = VarOf(l)
LevelOf(l) == trail[Entry(l)].lev
LitsOf(ref) == Range(clauses[ref].lits)

NoScan == [lit |-> 0, rest |-> << >>]
NoCache == [assumptions |-> << >>, result |-> "none"]

Index(l) == IF l > 0 THEN 2 * l ELSE 2 * VarOf(l) + 1       \* Lit::index

\* enqueue: l must be unassigned.
Enqueue(l, ref) == Append(trail, [lit |-> l, lev |-> Level, rsn |-> ref])

\* Mutant of Kept: one assignment too many survives backtracking.
KeptOneMore(k) ==
  IF k < Level THEN SubSeq(trail, 1, Min({limits[k + 1] + 1, Len(trail)})) ELSE trail

\* cancel_until(k): what is left of the trail, and the step.
Kept(k) == IF k < Level THEN SubSeq(trail, 1, limits[k + 1]) ELSE trail
KeptLimits(k) == IF k < Level THEN SubSeq(limits, 1, k) ELSE limits

CancelUntil(k) ==
  trail' = Kept(k) /\ limits' = KeptLimits(k) /\ head' = Min({head, Len(Kept(k))})

\* attach_clause: each of the first two literals watches, the other blocks.
Attach(ref, s) ==
  [watches EXCEPT ![s[1]] = Append(@, [ref |-> ref, blocker |-> s[2]]),
                  ![s[2]] = Append(@, [ref |-> ref, blocker |-> s[1]])]

Allocate(s, isLearned) ==
  /\ clauses' = Append(clauses, [lits |-> s, learned |-> isLearned, deleted |-> FALSE])
  /\ watches' = Attach(Len(clauses) + 1, s)
-----------------------------------------------------------------------------
(***************************************************************************)
(* propagate(): the queue is the part of the trail beyond head.            *)
(***************************************************************************)
Querying == phase \in {"prepare", "search", "learned", "reduced"}
Quiet == scan = NoScan /\ conflict = 0
Fixpoint == Quiet /\ head = Len(trail)

\* Only the search polls for interruption.
Polled == phase = "search" => ~interrupted

\* Mutant of Unread: the last watch of a list is not visited.
UnreadButLast(f, rest) ==
  IF Len(rest) < 2 THEN NoScan ELSE [lit |-> f, rest |-> rest]

Unread(f, rest) == IF rest = << >> THEN NoScan ELSE [lit |-> f, rest |-> rest]

\* The list of the falsified literal is taken, to be rebuilt watch by watch.
Dequeue ==
  /\ phase \in {"prepare", "search", "add", "settle"}
  /\ Quiet /\ Polled /\ consistent
  /\ head < Len(trail)
  /\ head' = head + 1
  /\ LET f == Neg(trail[head + 1].lit) IN
       /\ scan' = Unread(f, watches[f])
       /\ watches' = [watches EXCEPT ![f] = << >>]
  /\ UNCHANGED <<clauses, trail, limits, client, query, answer, budget, consistent,
                 started, phase, conflict, pending, interrupted>>

Visited == Head(scan.rest)
Seen == clauses[Visited.ref].lits
Fast == BinaryFastPath /\ Len(Seen) = 2

\* The falsified literal goes to the second place; the fast path for binary
\* clauses reads the blocker instead of the clause.
Settled == IF Fast \/ Seen[1] # scan.lit THEN Seen
           ELSE <<Seen[2], Seen[1]>> \o SubSeq(Seen, 3, Len(Seen))
Other == IF Fast THEN Visited.blocker ELSE Settled[1]
Exhausted == \A i \in 3 .. Len(Settled) : IsFalse(Settled[i])

Visiting(b) == scan # NoScan /\ clauses[Visited.ref].deleted = b
NextWatch == scan' = Unread(scan.lit, Tail(scan.rest))
Store(s) == clauses' = [clauses EXCEPT ![Visited.ref].lits = s]
Retain(b) == watches' =
  [watches EXCEPT ![scan.lit] = Append(@, [ref |-> Visited.ref, blocker |-> b])]

Unmoved == <<limits, head, client, query, answer, budget, consistent, started,
             phase, pending, interrupted>>

\* Watches of deleted clauses are dropped when they are met.
DropWatch ==
  /\ Visiting(TRUE)
  /\ NextWatch
  /\ UNCHANGED <<database, trail, conflict, Unmoved>>

\* A true blocker settles the visit without looking at the clause.
SkipWatch ==
  /\ Visiting(FALSE) /\ IsTrue(Visited.blocker)
  /\ Retain(Visited.blocker) /\ NextWatch
  /\ UNCHANGED <<clauses, trail, conflict, Unmoved>>

Examining == Visiting(FALSE) /\ ~IsTrue(Visited.blocker)

KeepWatch ==
  /\ Examining /\ IsTrue(Other)
  /\ Store(Settled) /\ Retain(Other) /\ NextWatch
  /\ UNCHANGED <<trail, conflict, Unmoved>>

MoveWatch ==
  /\ Examining /\ ~IsTrue(Other)
  /\ \E k \in 3 .. Len(Settled) :
       /\ ~IsFalse(Settled[k])
       /\ \A j \in 3 .. k - 1 : IsFalse(Settled[j])
       /\ Store([Settled EXCEPT ![2] = Settled[k], ![k] = scan.lit])
       /\ watches' = [watches EXCEPT ![Settled[k]] =
                        Append(@, [ref |-> Visited.ref, blocker |-> Other])]
  /\ NextWatch
  /\ UNCHANGED <<trail, conflict, Unmoved>>

Imply ==
  /\ Examining /\ Free(Other) /\ Exhausted
  /\ Store(Settled) /\ Retain(Other) /\ NextWatch
  /\ trail' = Enqueue(Other, Visited.ref)
  /\ UNCHANGED <<conflict, Unmoved>>

\* Mutant of Conflict: the rest of the list is lost.
ConflictDropsRest ==
  /\ Examining /\ IsFalse(Other) /\ Exhausted
  /\ Store(Settled)
  /\ Retain(Other)
  /\ scan' = NoScan
  /\ conflict' = Visited.ref
  /\ UNCHANGED <<trail, Unmoved>>

\* The rest of the list is put back unread.
Conflict ==
  /\ Examining /\ IsFalse(Other) /\ Exhausted
  /\ Store(Settled)
  /\ watches' = [watches EXCEPT ![scan.lit] =
                   Append(@, [ref |-> Visited.ref, blocker |-> Other]) \o Tail(scan.rest)]
  /\ scan' = NoScan
  /\ conflict' = Visited.ref
  /\ UNCHANGED <<trail, Unmoved>>

-----------------------------------------------------------------------------
(***************************************************************************)
(* analyze(): the conflict clause is resolved backwards along the trail    *)
(* until one literal of the current level is left.  Literals that root     *)
(* assignments falsify are dropped.  (res[i] is the resolvent before       *)
(* position i is looked at; the function's value is the final one.)        *)
(***************************************************************************)
NonRoot(c) == {l \in c : LevelOf(l) > 0}
Current(c) == {l \in c : LevelOf(l) = Level}

FirstUip ==
  LET res[i \in 0 .. Len(trail)] ==
        IF i = Len(trail) THEN NonRoot(LitsOf(conflict))
        ELSE LET e == trail[i + 1] IN
             IF Neg(e.lit) \in res[i + 1] /\ Cardinality(Current(res[i + 1])) > 1
             THEN (res[i + 1] \ {Neg(e.lit)}) \cup NonRoot(LitsOf(e.rsn) \ {e.lit})
             ELSE res[i + 1]
  IN res[0]

\* abstract_level: the bit that stands for a level in a 32-bit mask.
LevelBit(level) == level % 32

\* minimize_learned_clause: a literal goes when reasons lead from it back to
\* the other literals and root assignments, through levels of their bits only.
Minimized(c) ==
  LET rest == c \ Current(c)
      covered[i \in 1 .. Len(trail)] ==
        \/ trail[i].lev = 0
        \/ Neg(trail[i].lit) \in rest
        \/ /\ trail[i].rsn # 0
           /\ \E l \in rest : LevelBit(LevelOf(l)) = LevelBit(trail[i].lev)
           /\ \A l \in LitsOf(trail[i].rsn) \ {trail[i].lit} : covered[Entry(l)]
      redundant == {l \in rest : LET e == trail[Entry(l)] IN
                      /\ e.rsn # 0
                      /\ \A k \in LitsOf(e.rsn) \ {e.lit} : covered[Entry(k)]}
  IN IF Minimize THEN c \ redundant ELSE c

\* Mutant of JumpLevel: the lowest of the levels is taken.
LowestLevel(c) == IF c = Current(c) THEN 0 ELSE Min({LevelOf(l) : l \in c \ Current(c)})

\* The highest level of the literals other than the asserting one.
JumpLevel(c) == Max({0} \cup {LevelOf(l) : l \in c \ Current(c)})

\* Mutant of BacktrackLevel: a unit clause backtracks chronologically, too.
ChronoForUnits(c) ==
  IF Chrono /\ Level - 1 - JumpLevel(c) > ChronoLimit THEN Level - 1 ELSE JumpLevel(c)

\* determine_backtrack_level
BacktrackLevel(c) ==
  IF Chrono /\ Cardinality(c) > 1 /\ Level - 1 - JumpLevel(c) > ChronoLimit
  THEN Level - 1 ELSE JumpLevel(c)

\* One conflict of search(): analysis, backtracking, learning, assertion.
Learn ==
  /\ phase = "search" /\ ~interrupted
  /\ conflict # 0 /\ Level > 0
  /\ LET c == Minimized(FirstUip)
         b == BacktrackLevel(c)
         assert(l, r) == trail' = Append(Kept(b), [lit |-> l, lev |-> b, rsn |-> r])
     IN /\ limits' = KeptLimits(b) /\ head' = Min({head, Len(Kept(b))})
        /\ \E s \in SetToSeqs(c) :
             /\ s[1] \in Current(c)
             /\ IF Len(s) = 1
                THEN assert(s[1], 0) /\ UNCHANGED database
                ELSE /\ LevelOf(s[2]) = JumpLevel(c)
                     /\ assert(s[1], Len(clauses) + 1) /\ Allocate(s, TRUE)
  /\ conflict' = 0 /\ phase' = "learned"
  /\ UNCHANGED <<client, query, answer, budget, consistent, started, scan, pending,
                 interrupted>>

\* reduce_database: any long learned clause may go unless it is a reason.
Reduce ==
  /\ phase = "learned" /\ reductions < MaxReductions
  /\ \E gone \in SUBSET {r \in 1 .. Len(clauses) :
                          /\ clauses[r].learned /\ ~clauses[r].deleted
                          /\ Len(clauses[r].lits) > 2
                          /\ \A i \in 1 .. Len(trail) : trail[i].rsn # r} :
       /\ gone # {}
       /\ clauses' = [r \in 1 .. Len(clauses) |->
                        IF r \in gone THEN [clauses[r] EXCEPT !.deleted = TRUE]
                        ELSE clauses[r]]
  /\ reductions' = reductions + 1 /\ phase' = "reduced"
  /\ UNCHANGED <<watches, assigned, client, query, answer, restarts, consistent,
                 started, scan, conflict, pending, interrupted>>

\* restart(): to the root, or to a level whose decisions are reused.
Restart ==
  /\ phase \in {"learned", "reduced"} /\ restarts < MaxRestarts
  /\ \E k \in 0 .. Level - 1 : CancelUntil(k)
  /\ restarts' = restarts + 1 /\ phase' = "search"
  /\ UNCHANGED <<database, client, query, answer, reductions, consistent, started,
                 scan, conflict, pending, interrupted>>

NoRestart ==
  /\ phase \in {"learned", "reduced"} /\ phase' = "search"
  /\ UNCHANGED <<database, assigned, client, query, answer, budget, consistent,
                 started, scan, conflict, pending, interrupted>>
-----------------------------------------------------------------------------
(***************************************************************************)
(* The rest of search() and solve_assuming_with_limits.                    *)
(***************************************************************************)
Assumptions == hard \o user

\* Mutant of Return: "unknown" is cached like an answer.
ReturnCached(r) ==
  /\ phase' = "idle"
  /\ cached' = [assumptions |-> Assumptions, result |-> r]

\* The query returns r; an answer is cached, "unknown" is not.
Return(r) ==
  /\ phase' = "idle"
  /\ cached' = IF r = "unknown" THEN NoCache
               ELSE [assumptions |-> Assumptions, result |-> r]

RootConflict ==
  /\ conflict # 0 /\ Polled /\ (phase = "search" => Level = 0)
  /\ conflict' = 0 /\ consistent' = FALSE
  /\ IF Querying THEN Return("unsat")
     ELSE /\ phase' = IF phase = "add" THEN "install" ELSE "idle"
          /\ UNCHANGED cached
  /\ UNCHANGED <<database, assigned, client, query, failed, budget, started, scan,
                 pending, interrupted>>

AnswerInconsistent ==
  /\ phase = "prepare" /\ ~consistent
  /\ Return("unsat")
  /\ UNCHANGED <<database, assigned, client, query, failed, budget, consistent,
                 started, scan, conflict, pending, interrupted>>

BeginSearch ==
  /\ phase = "prepare" /\ consistent /\ Fixpoint /\ ~interrupted
  /\ phase' = "search"
  /\ UNCHANGED <<database, assigned, client, query, answer, budget, consistent,
                 started, scan, conflict, pending, interrupted>>

\* Mutant of GiveUp: an interrupt is noticed only when propagation is done.
GiveUpLate ==
  /\ \/ phase = "search" /\ Fixpoint /\ (interrupted \/ limited)
     \/ phase = "prepare" /\ consistent /\ Fixpoint /\ interrupted
  /\ conflict' = 0 /\ failed' = {}
  /\ Return("unknown") /\ CancelUntil(0)
  /\ UNCHANGED <<database, client, query, budget, consistent, started, scan, pending,
                 interrupted>>

\* Between two dequeued literals, and after propagation whatever it found.
GiveUp ==
  /\ \/ phase = "search" /\ scan = NoScan /\ (interrupted \/ limited)
     \/ phase = "prepare" /\ consistent /\ Fixpoint /\ interrupted
  /\ conflict' = 0 /\ failed' = {}
  /\ Return("unknown") /\ CancelUntil(0)
  /\ UNCHANGED <<database, client, query, budget, consistent, started, scan, pending,
                 interrupted>>

\* Mutant of Searching: decisions are taken before the queue is empty.
SearchingEarly == phase = "search" /\ ~interrupted /\ Quiet
Searching == phase = "search" /\ ~interrupted /\ Fixpoint
NextAssumption == Assumptions[Level + 1]
Open(t) == trail' = t /\ limits' = Append(limits, Len(trail))

Assume ==
  /\ Searching /\ Level < Len(Assumptions)
  /\ \/ IsTrue(NextAssumption) /\ Open(trail)
     \/ /\ Free(NextAssumption)
        /\ Open(Append(trail, [lit |-> NextAssumption, lev |-> Level + 1, rsn |-> 0]))
  /\ UNCHANGED <<database, head, client, query, answer, budget, consistent, started,
                 phase, scan, conflict, pending, interrupted>>

\* Mutant of Involved: the reasons of the failure are not followed.
InvolvedDirectly(l) == {VarOf(l)}

\* analyze_failed_assumption: the variables the failure leads back to.
Involved(l) ==
  LET seen[i \in 0 .. Len(trail)] ==
        IF i = Len(trail) THEN {VarOf(l)}
        ELSE LET e == trail[i + 1] IN
             IF VarOf(e.lit) \in seen[i + 1] /\ e.lev > 0 /\ e.rsn # 0
             THEN seen[i + 1] \cup {VarOf(k) : k \in NonRoot(LitsOf(e.rsn))}
             ELSE seen[i + 1]
  IN seen[0]

FailAssumption ==
  /\ Searching /\ Level < Len(Assumptions) /\ IsFalse(NextAssumption)
  /\ LET blamed == {e \in Range(trail) :
                      /\ e.lev > 0 /\ e.rsn = 0
                      /\ VarOf(e.lit) \in Involved(NextAssumption)}
     IN failed' = ({NextAssumption} \cup {e.lit : e \in blamed}) \cap Range(user)
  /\ Return("unsat") /\ CancelUntil(0)
  /\ UNCHANGED <<database, client, query, budget, consistent, started, scan, conflict,
                 pending, interrupted>>

\* pick_branch_literal may return either polarity of any free variable.
Decide ==
  /\ Searching /\ Level >= Len(Assumptions)
  /\ \E v \in 1 .. count : \E l \in {v, Neg(v)} :
       /\ Free(l)
       /\ Open(Append(trail, [lit |-> l, lev |-> Level + 1, rsn |-> 0]))
  /\ UNCHANGED <<database, head, client, query, answer, budget, consistent, started,
                 phase, scan, conflict, pending, interrupted>>

AnswerSat ==
  /\ Searching /\ Level >= Len(Assumptions)
  /\ \A v \in 1 .. count : ~Free(v)
  /\ Return("sat")
  /\ UNCHANGED <<database, assigned, client, query, failed, budget, consistent,
                 started, scan, conflict, pending, interrupted>>
-----------------------------------------------------------------------------
(***************************************************************************)
(* The client's calls, one at a time, from its program.                    *)
(***************************************************************************)
Calls(name) ==
  /\ phase = "idle" /\ program # << >> /\ Head(program).op = name
  /\ program' = Tail(program)

\* Mutant of Prepare: the cached answer survives the mutation.
PrepareKeepsCache == CancelUntil(0) /\ cached' = cached /\ failed' = {}

\* prepare_incremental_mutation
Prepare == CancelUntil(0) /\ cached' = NoCache /\ failed' = {}

\* Tautologies are recognized, and clauses of an inconsistent or not yet
\* started solver stored, without root propagation.
Adding(c) ==
  /\ pending' = c
  /\ count' = Max({count} \cup {VarOf(l) : l \in c})
  /\ phase' = IF started /\ consistent /\ ~Tautology(c) THEN "add" ELSE "install"

\* add_clause: inside a scope the clause is guarded by the scope's selector.
Add ==
  /\ Calls("add") /\ Prepare
  /\ Adding(Head(program).clause
              \cup IF selectors = << >> THEN {} ELSE {Neg(Last(selectors))})
  /\ UNCHANGED <<database, selectors, inputs, query, budget, consistent, started, scan,
                 conflict, interrupted>>

\* push_levels(1): a fresh variable becomes the selector.
Push ==
  /\ Calls("push") /\ count + 1 \in Var /\ Prepare
  /\ count' = count + 1
  /\ selectors' = Append(selectors, count + 1)
  /\ UNCHANGED <<database, inputs, query, budget, consistent, started, phase, scan,
                 conflict, pending, interrupted>>

\* One round of pop: the selector is made false for good.
Pop ==
  /\ Calls("pop") /\ selectors # << >> /\ Prepare
  /\ selectors' = Front(selectors)
  /\ Adding({Neg(Last(selectors))})
  /\ UNCHANGED <<database, inputs, query, budget, consistent, started, scan, conflict,
                 interrupted>>

\* ScopeUnderflow and VariableLimit: nothing changes, the cache included.
Refused ==
  /\ \/ Calls("pop") /\ selectors = << >>
     \/ Calls("push") /\ count + 1 \notin Var
  /\ UNCHANGED <<database, assigned, selectors, count, inputs, query, answer, budget,
                 consistent, started, phase, scan, conflict, pending, interrupted>>

\* Root propagation is done: the clause is stored.
Propagated ==
  /\ phase = "add" /\ Fixpoint
  /\ phase' = "install"
  /\ UNCHANGED <<database, assigned, client, query, answer, budget, consistent,
                 started, scan, conflict, pending, interrupted>>

Installing ==
  /\ phase = "install"
  /\ inputs' = inputs \cup {pending}
  /\ UNCHANGED <<program, selectors, count, limits, head, query, answer, budget,
                 started, scan, conflict, pending, interrupted>>

AddIgnored ==
  /\ Installing
  /\ \/ Tautology(pending)
     \/ started /\ (~consistent \/ \E l \in pending : IsTrue(l))
     \/ ~started /\ \E l \in pending : pending = {l} /\ IsTrue(l)
  /\ phase' = "idle"
  /\ UNCHANGED <<database, trail, consistent>>

\* A started solver sees the clause after root propagation; before that only
\* empty and unit clauses are compared with the root assignments.
Live == ~Tautology(pending) /\ (started => consistent)

AddFalsified ==
  /\ Installing /\ Live
  /\ \A l \in pending : IsFalse(l)
  /\ started \/ Cardinality(pending) < 2
  /\ consistent' = FALSE /\ phase' = "idle"
  /\ UNCHANGED <<database, trail>>

AddUnit ==
  /\ Installing /\ Live
  /\ \E l \in pending : pending = {l} /\ Free(l) /\ trail' = Enqueue(l, 0)
  /\ phase' = IF started THEN "settle" ELSE "idle"
  /\ UNCHANGED <<database, consistent>>

\* Unassigned literals first once started, in the order of their indices
\* before; a clause with one unassigned literal implies it.
AddStored ==
  /\ Installing /\ Live /\ Cardinality(pending) > 1
  /\ \E s \in SetToSeqs(pending) :
       /\ Allocate(s, FALSE)
       /\ IF started
          THEN /\ \A l \in pending : ~IsTrue(l)
               /\ Free(s[1])
               /\ \A i \in 2 .. Len(s) : Free(s[i]) => Free(s[i - 1])
               /\ trail' = IF Free(s[2]) THEN trail ELSE Enqueue(s[1], Len(clauses) + 1)
          ELSE /\ \A i \in 2 .. Len(s) : Index(s[i - 1]) < Index(s[i])
               /\ UNCHANGED trail
  /\ phase' = IF started THEN "settle" ELSE "idle"
  /\ UNCHANGED consistent

\* The call returns when the clause's consequences are propagated.
Settle ==
  /\ phase = "settle" /\ Fixpoint
  /\ phase' = "idle"
  /\ UNCHANGED <<database, assigned, client, query, answer, budget, consistent,
                 started, scan, conflict, pending, interrupted>>

\* A cached answer is returned as it is; the query must be the same.
SolveCached ==
  /\ Calls("solve")
  /\ cached.result # "none"
  /\ cached.assumptions = selectors \o Head(program).assume
  /\ UNCHANGED <<database, assigned, selectors, count, inputs, query, answer, budget,
                 consistent, started, phase, scan, conflict, pending, interrupted>>

Solve ==
  /\ Calls("solve")
  /\ cached.result = "none" \/ cached.assumptions # selectors \o Head(program).assume
  /\ \A l \in Range(Head(program).assume) : VarOf(l) <= count
  /\ hard' = selectors /\ user' = Head(program).assume
  /\ limited' = Head(program).limited
  /\ CancelUntil(0)
  /\ started' = TRUE /\ failed' = {} /\ restarts' = 0 /\ reductions' = 0
  /\ phase' = "prepare"
  /\ UNCHANGED <<database, selectors, count, inputs, cached, consistent, scan, conflict,
                 pending, interrupted>>

\* Another thread raises or clears the flag whenever it likes.
Interrupt ==
  /\ Interruptible /\ interrupted' = ~interrupted
  /\ UNCHANGED <<database, assigned, client, query, answer, budget, consistent,
                 started, phase, scan, conflict, pending>>
-----------------------------------------------------------------------------
Init ==
  /\ program \in Programs
  /\ clauses = << >> /\ watches = [l \in Lit |-> << >>]
  /\ trail = << >> /\ limits = << >> /\ head = 0
  /\ count = 0 /\ consistent = TRUE /\ started = FALSE
  /\ selectors = << >> /\ hard = << >> /\ user = << >>
  /\ cached = NoCache /\ failed = {}
  /\ phase = "idle" /\ scan = NoScan /\ conflict = 0 /\ pending = {}
  /\ interrupted = FALSE /\ limited = FALSE
  /\ restarts = 0 /\ reductions = 0 /\ inputs = {}

\* What the thread inside a call does; ClientStep begins a call.
SolverStep ==
  \/ Dequeue \/ DropWatch \/ SkipWatch \/ KeepWatch \/ MoveWatch \/ Imply \/ Conflict
  \/ Learn \/ Reduce \/ Restart \/ NoRestart
  \/ RootConflict \/ AnswerInconsistent \/ BeginSearch \/ GiveUp
  \/ Assume \/ FailAssumption \/ Decide \/ AnswerSat
  \/ Propagated \/ AddIgnored \/ AddFalsified \/ AddUnit \/ AddStored \/ Settle

ClientStep == Add \/ Push \/ Pop \/ Refused \/ SolveCached \/ Solve

Next == SolverStep \/ ClientStep \/ Interrupt

\* A call in progress keeps running; nobody has to make another one.
Spec == Init /\ [][Next]_vars /\ WF_vars(SolverStep)
-----------------------------------------------------------------------------
(***************************************************************************)
(* The search machine the kernel implements.                               *)
(***************************************************************************)
Stored == {r \in 1 .. Len(clauses) : ~clauses[r].deleted}

\* What reaches the search machine: clauses with and without a guard, and
\* queries under any stack of selectors (they are allocated in order).
Given == {o.clause : o \in {p \in Operations : p.op = "add"}}
Guarded == Given \cup {c \cup {Neg(s)} : c \in Given \cup {{}}, s \in Var}
Stacks == {h \in UNION {[1 .. n -> Var] : n \in 0 .. Cardinality(Var)} :
             \A i, j \in DOMAIN h : i < j => h[i] < h[j]}
Asked == {<<h, o.assume>> : h \in Stacks, o \in {p \in Operations : p.op = "solve"}}

Cdcl == INSTANCE Cdcl WITH
  InputClauses <- Guarded,
  Queries <- Asked,
  original <- {LitsOf(r) : r \in {q \in Stored : ~clauses[q].learned}},
  learned <- {LitsOf(r) : r \in {q \in Stored : clauses[q].learned}},
  known <- 1 .. count,
  trail <- [i \in 1 .. Len(trail) |->
              [lit |-> trail[i].lit, lev |-> trail[i].lev,
               rsn |-> IF trail[i].rsn = 0 THEN {} ELSE LitsOf(trail[i].rsn)]],
  level <- Level,
  mode <- IF Querying THEN "search" ELSE "idle",
  result <- IF Querying THEN "none" ELSE cached.result

\* Every step of the kernel is a step of the search machine, or none.
Implements == Cdcl!Spec
-----------------------------------------------------------------------------
(***************************************************************************)
(* The two-watched-literal scheme: a stored clause is watched by its first *)
(* two literals, once each, with one of its own literals as the blocker    *)
(* (the other literal, if it has only two).                                *)
(***************************************************************************)
ListOf(l) == watches[l] \o IF scan.lit = l THEN scan.rest ELSE << >>
WatchedOK == \A r \in Stored : \A l \in Lit :
  LET places == {i \in 1 .. Len(ListOf(l)) : ListOf(l)[i].ref = r} IN
  IF l \in {clauses[r].lits[1], clauses[r].lits[2]}
  THEN \E i \in places : places = {i} /\ ListOf(l)[i].blocker \in LitsOf(r) \ {l}
  ELSE places = {}

\* Propagation misses no conflict: when its queue is empty no stored clause is
\* false, even after a conflict was dropped by an interrupt.
NoMissedConflict == Fixpoint /\ consistent =>
  \A r \in Stored : \E l \in LitsOf(r) : ~IsFalse(l)

\* Without chronological backtracking it misses no implication either.
NoMissedUnit == Fixpoint /\ consistent =>
  \A r \in Stored :
    \/ \E l \in LitsOf(r) : IsTrue(l)
    \/ \E k, l \in LitsOf(r) : k # l /\ Free(k) /\ Free(l)

\* Whatever backtracking preserved, a conflict above the root involves the
\* current level, so that analysis finds a unique implication point there.
ConflictIsCurrent == conflict # 0 /\ Level > 0 => Current(LitsOf(conflict)) # {}

\* trail_limits cut the trail into its levels, and propagation_head stays on it.
LevelsOK ==
  /\ head \in 0 .. Len(trail)
  /\ \A i \in 1 .. Len(trail) :
       trail[i].lev = Cardinality({k \in 1 .. Level : limits[k] < i})

\* A cached answer belongs to the query it would be returned for.
CacheOK == phase = "idle" /\ cached.result # "none" =>
  selectors = hard /\ cached.assumptions = hard \o user

\* The first assignment of each level is a decision (restart_reuse_candidate
\* asserts it of the levels it compares with the next decision).
LevelsStartWithDecisions == phase \in {"learned", "reduced"} =>
  \A k \in 1 .. Level : trail[limits[k] + 1].rsn = 0

\* Every call returns.
CallsReturn == (phase # "idle") ~> (phase = "idle")
=============================================================================
