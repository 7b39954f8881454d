----------------------------- MODULE Preprocess -----------------------------
(***************************************************************************)
(* What the first query of a Solver (src/solver.rs) does to its clauses    *)
(* before it searches: failed-literal probing, vivification, subsumption,  *)
(* bounded variable elimination and factorization, in that order, each     *)
(* only if SolverConfig asks for it; the reconstruction of a model after   *)
(* an elimination; and the DRAT proof of every change.  The search itself  *)
(* is taken to answer rightly about the clauses it is given (Cdcl, Kernel).*)
(*                                                                         *)
(* One action is one probe, one clause vivified, one pair of clauses       *)
(* subsumed, one variable eliminated, one factorization applied.  Every    *)
(* pass has a budget of propagations or literal touches: it may run out    *)
(* before any step, so a pass may always end early.                        *)
(***************************************************************************)
EXTENDS Cnf, SequencesExt, FiniteSetsExt

CONSTANTS
  External,           \* the client's variables; the others of Var are fresh
  Scenarios,          \* a SolverConfig's passes, and the calls of its client
  OccurrenceLimit,    \* ELIMINATION_OCCURRENCE_LIMIT
  ResolventLimit,     \* ELIMINATION_RESOLVENT_LENGTH_LIMIT
  FactorLength,       \* FACTORIZATION_MAX_CLAUSE_LENGTH
  MacroOnly           \* macro_bounded_variable_addition

ClientLit == {l \in Lit : VarOf(l) \in External}
Call == [op : {"add"}, clause : SUBSET ClientLit] \cup [op : {"solve"}, assume : SUBSET ClientLit]

ASSUME VariablesAssumption == IsFiniteSet(Var) /\ External \subseteq Var
ASSUME ScenarioAssumption ==
  \A s \in Scenarios : /\ s.config \subseteq {"probe", "vivify", "subsume", "eliminate", "factor"}
                       /\ s.calls \in Seq(Call)

VARIABLES
  config,             \* the passes of this solver
  client,             \* the calls still to come
  inputs,             \* the clauses the client has added
  db,                 \* the clause store: literals, deleted flag, blind flag
  root,               \* the literals assigned at level 0
  chosen,             \* the literals elimination gave its variables
  records,            \* elimination_records
  consistent, started,
  stage,              \* the pass that runs, by its place in Passes
  todo,               \* its schedule
  proof,              \* the clauses a DRAT checker holds, and its verdict
  assumed, answer     \* the query and its result

vars == <<config, client, inputs, db, root, chosen, records, consistent,
          started, stage, todo, proof, assumed, answer>>

Passes == <<"propagate", "probe", "vivify", "subsume", "eliminate", "factor", "search">>
Pass == IF stage \in DOMAIN Passes THEN Passes[stage] ELSE "idle"

Fresh == Var \ External
NoAnswer == [kind |-> "none"]

(***************************************************************************)
(* The clause store.  A blind clause was attached while one of its watched *)
(* literals was already false: propagation sees it only when all of it is  *)
(* false.                                                                  *)
(***************************************************************************)
Stored(c) == [lits |-> c, deleted |-> FALSE, blind |-> FALSE]
Live(d) == {r \in DOMAIN d : ~ d[r].deleted}
LiveClauses(d) == {d[r].lits : r \in Live(d)}
WithoutRefs(d, R) == [r \in DOMAIN d |-> IF r \in R THEN [d[r] EXCEPT !.deleted = TRUE] ELSE d[r]]
Known == root \cup chosen
Unassigned(l) == l \notin Known /\ Neg(l) \notin Known
Reduced(c) == {l \in c : Neg(l) \notin Known}
RootSatisfied(c) == c \cap Known # {}

\* Unit propagation from the literals A: units from F, to a fixed point.
Propagated(F, A) ==
  LET round[n \in 0 .. Cardinality(Var)] ==
        IF n = 0 THEN A
        ELSE LET p == round[n - 1]
             IN p \cup {l \in UNION F : \E c \in F : /\ l \in c
                                                     /\ \A k \in c \ {l} : Neg(k) \in p}
  IN round[Cardinality(Var)]

Conflicting(F, A) == \/ \E l \in A : Neg(l) \in A
                     \/ \E c \in F : \A l \in c : Neg(l) \in A

\* Propagation over the store D without the clause `ignored`, from A.
Trail(d, ignored, A) ==
  Propagated({d[r].lits : r \in {q \in Live(d) \ {ignored} : ~ d[q].blind}}, A)
ConflictIn(d, ignored, A) ==
  Conflicting({d[r].lits : r \in Live(d) \ {ignored}}, Trail(d, ignored, A))

(***************************************************************************)
(* The DRAT proof as its checker sees it: added clauses must have the RUP  *)
(* property, or RAT on their first literal; only held clauses are deleted. *)
(***************************************************************************)
Rup(F, c) == Conflicting(F, Propagated(F, {Neg(l) : l \in c}))
Rat(F, c, pivot) ==
  /\ pivot \in c
  /\ \A e \in F : Neg(pivot) \in e => Rup(F, c \cup (e \ {Neg(pivot)}))

One(c) == SetToBag({c})

\* Mutant of Added: the literals sorted, the new variable not written first.
AddedSorted(p, c, pivot) ==
  LET first == CHOOSE l \in c : \A k \in c : VarOf(l) <= VarOf(k)
  IN [held |-> p.held (+) One(c),
      ok |-> p.ok /\ (Rup(BagToSet(p.held), c)
                       \/ (pivot # 0 /\ Rat(BagToSet(p.held), c, first)))]

Added(p, c, pivot) ==
  [held |-> p.held (+) One(c),
   ok |-> p.ok /\ (Rup(BagToSet(p.held), c) \/ Rat(BagToSet(p.held), c, pivot))]
Dropped(p, c) == [held |-> p.held (-) One(c), ok |-> p.ok /\ c \in BagToSet(p.held)]
Lemma(p, c) == Added(p, c, 0)                       \* DratWriter::add_clause
DroppedRefs(p, R) == FoldSet(LAMBDA r, q : Dropped(q, db[r].lits), p, R)
AllLemmas(p, s) == FoldLeft(Lemma, p, s)
AllDefining(p, s, x) == FoldLeft(LAMBDA q, c : Added(q, c, x), p, s)

(***************************************************************************)
(* A unit found at level 0 is enqueued and propagated; FALSE is returned   *)
(* when that fails.                                                        *)
(***************************************************************************)
AssertUnits(d, U) ==
  LET t == Trail(d, 0, Known \cup U)
  IN /\ root' = t \ chosen
     /\ consistent' = ~ ConflictIn(d, 0, Known \cup U)

(***************************************************************************)
(* Failed-literal probing.                                                 *)
(***************************************************************************)
ProbeSchedule == {l \in ClientLit : Unassigned(l)}
\* The lowest variable first, its saved phase (true, as nothing was ever
\* unassigned before) before the other.
NextProbe == CHOOSE l \in todo :
  \A k \in todo : VarOf(l) < VarOf(k) \/ (VarOf(l) = VarOf(k) /\ l >= k)
Probe ==
  /\ Pass = "probe" /\ todo # {} /\ consistent
  /\ LET l == NextProbe
     IN /\ todo' = todo \ {l}
        /\ IF Unassigned(l) /\ ConflictIn(db, 0, Known \cup {l})
           THEN /\ proof' = Lemma(proof, {Neg(l)})
                /\ AssertUnits(db, {Neg(l)})
           ELSE UNCHANGED <<proof, root, consistent>>
  /\ UNCHANGED <<config, client, inputs, db, chosen, records, started, stage, assumed, answer>>

(***************************************************************************)
(* Vivification: the literals of a long clause are assumed false one after *)
(* the other, in the order they have in the arena, until a conflict or an  *)
(* implied literal shows that the ones kept are enough.                    *)
(***************************************************************************)
VivifySchedule == {r \in Live(db) : Cardinality(db[r].lits) >= 3}

ByLength(a, b) ==
  \/ Cardinality(db[a].lits) < Cardinality(db[b].lits)
  \/ (Cardinality(db[a].lits) = Cardinality(db[b].lits) /\ a <= b)
Shortest(R) == CHOOSE r \in R : \A q \in R : ByLength(r, q)

\* One more literal of the clause: once the kept ones lead to a conflict (a
\* kept one that was implied does), the rest is dropped.
Tried(r, kept, l) ==
  LET A == Known \cup {Neg(k) : k \in kept}
  IN IF ConflictIn(db, r, A) \/ Neg(l) \in Trail(db, r, A) THEN kept ELSE kept \cup {l}
Vivified(r, order) ==
  LET kept[k \in 0 .. Len(order)] ==
        IF k = 0 THEN {} ELSE Tried(r, kept[k - 1], order[k])
  IN kept[Len(order)]

Orders(S) == SetToSeqs(S)

Vivify ==
  /\ Pass = "vivify" /\ todo # {} /\ consistent
  /\ LET r == Shortest(todo)
         c == db[r].lits
     IN /\ todo' = todo \ {r}
        /\ \E order \in Orders(Reduced(c)) :
             LET kept == Vivified(r, order)
             IN IF RootSatisfied(c) \/ kept = c
                THEN UNCHANGED <<proof, db, root, consistent>>
                ELSE /\ proof' = Dropped(Lemma(proof, kept), c)
                     /\ IF Cardinality(kept) = 1
                        THEN /\ db' = WithoutRefs(db, {r})
                             /\ AssertUnits(db', kept)
                        ELSE /\ db' = Append(WithoutRefs(db, {r}), Stored(kept))
                             /\ UNCHANGED <<root, consistent>>
  /\ UNCHANGED <<config, client, inputs, chosen, records, started, stage, assumed, answer>>

(***************************************************************************)
(* Subsumption and self-subsuming resolution, over the clauses there were  *)
(* when the pass began.  A strengthened clause keeps the literals that are *)
(* already false, and they may end up watched.                             *)
(***************************************************************************)
\* Mutant of Pivots: the other missing literals are not counted.
AnyPivot(s, t) == {l \in s : Neg(l) \in t}
Pivots(s, t) == {l \in s : Neg(l) \in t /\ s \ {l} \subseteq t}
SubsumeSchedule ==
  {p \in Live(db) \X Live(db) :
     LET s == db[p[1]].lits   t == db[p[2]].lits
     IN /\ p[1] # p[2]
        /\ s \subseteq t \/ (s \cap t # {} /\ Pivots(s, t) # {})}

Subsume ==
  /\ Pass = "subsume" /\ todo # {} /\ consistent
  /\ \E p \in todo :
       LET s == db[p[1]].lits   t == db[p[2]].lits
       IN /\ p[1] = Shortest({q[1] : q \in todo})
          /\ todo' = todo \ {p}
          /\ CASE db[p[1]].deleted \/ db[p[2]].deleted ->
                    UNCHANGED <<proof, db, root, consistent>>
               [] ~ db[p[1]].deleted /\ ~ db[p[2]].deleted /\ s \subseteq t ->
                    /\ proof' = Dropped(proof, t)
                    /\ db' = WithoutRefs(db, {p[2]})
                    /\ UNCHANGED <<root, consistent>>
               [] OTHER ->
                    LET less == t \ {Neg(l) : l \in Pivots(s, t)}
                        rest == WithoutRefs(db, {p[2]})
                    IN /\ proof' = Dropped(Lemma(proof, less), t)
                       /\ IF Cardinality(less) = 1
                          THEN db' = rest /\ AssertUnits(rest, less)
                          ELSE /\ \E b \in {FALSE, Reduced(less) # less} :
                                    db' = Append(rest, [Stored(less) EXCEPT !.blind = b])
                               /\ UNCHANGED <<root, consistent>>
  /\ UNCHANGED <<config, client, inputs, chosen, records, started, stage, assumed, answer>>

(***************************************************************************)
(* Bounded variable elimination.                                           *)
(***************************************************************************)
Having(l) == {r \in Live(db) : l \in db[r].lits}
OccurrenceCount(v) == Cardinality(Having(v)) + Cardinality(Having(-v))
EliminationSchedule ==
  {<<OccurrenceCount(v), v>> : v \in {u \in Var : Unassigned(u) /\ OccurrenceCount(u) > 0}}
NextElimination == CHOOSE e \in todo : \A f \in todo : e[1] < f[1] \/ (e[1] = f[1] /\ e[2] <= f[2])

\* elimination_resolvent: the pairs that have one, and what it is.
Resolvent(p, v) == Reduced((db[p[1]].lits \cup db[p[2]].lits) \ {v, -v})
ResolvingPairs(v) ==
  {p \in Having(v) \X Having(-v) :
     LET c == (db[p[1]].lits \cup db[p[2]].lits) \ {v, -v}
     IN ~ RootSatisfied(c) /\ ~ Tautology(Resolvent(p, v))}

Eliminable(v) ==
  LET removed == OccurrenceCount(v)
  IN /\ removed > 0
     /\ (Having(v) # {} /\ Having(-v) # {}) => removed <= OccurrenceLimit
     /\ Cardinality(ResolvingPairs(v)) <= removed
     /\ \A p \in ResolvingPairs(v) : Cardinality(Resolvent(p, v)) <= ResolventLimit

\* The eliminated variable takes its saved phase: true.
Eliminate ==
  /\ Pass = "eliminate" /\ todo # {} /\ consistent
  /\ LET e == NextElimination
         v == e[2]
     IN /\ todo' = todo \ {e}
        /\ IF Unassigned(v) /\ Eliminable(v)
           THEN LET pairs == SetToSeq(ResolvingPairs(v))
                    resolvents == [i \in DOMAIN pairs |-> Resolvent(pairs[i], v)]
                    removed == Having(v) \cup Having(-v)
                    new == SetToSeq({p \in ResolvingPairs(v) : Cardinality(Resolvent(p, v)) >= 2})
                    units == UNION {c \in Range(resolvents) : Cardinality(c) = 1}
                IN /\ proof' = DroppedRefs(AllLemmas(proof, resolvents), removed)
                   /\ db' = WithoutRefs(db, removed) \o [i \in DOMAIN new |-> Stored(Resolvent(new[i], v))]
                   /\ records' = Append(records, [var |-> v, clauses |-> {db[r].lits : r \in removed}])
                   /\ chosen' = chosen \cup {v}
                   /\ LET t == Trail(db', 0, Known \cup {v} \cup units)
                      IN /\ root' = t \ chosen'
                         /\ consistent' = (/\ {} \notin Range(resolvents)
                                           /\ ~ ConflictIn(db', 0, Known \cup {v} \cup units))
           ELSE UNCHANGED <<proof, db, root, chosen, records, consistent>>
  /\ UNCHANGED <<config, client, inputs, started, stage, assumed, answer>>

\* extend_model: the records undone in reverse, each setting its variable as
\* the clauses its model leaves open require.
\* Mutant of Required: clauses the model leaves open are taken as satisfied.
RequiresNothing(m, rec) == {}

Required(m, rec) ==
  {l \in {rec.var, -rec.var} :
     \E c \in rec.clauses : l \in c /\ (c \ {l}) \cap m = {}}
Undo(m, rec) ==
  IF Required(m, rec) = {} THEN m
  ELSE (m \ {rec.var, -rec.var}) \cup Required(m, rec)
\* Mutant of Extended: the records in the order they were made.
ExtendedForwards(m, recs) ==
  LET undone[k \in 0 .. Len(recs)] == IF k = 0 THEN m ELSE Undo(undone[k - 1], recs[k])
  IN undone[Len(recs)]

Extended(m, recs) ==
  LET undone[k \in 0 .. Len(recs)] ==
        IF k = 0 THEN m ELSE Undo(undone[k - 1], recs[Len(recs) + 1 - k])
  IN undone[Len(recs)]

(***************************************************************************)
(* Factorization: literals with the same neighbourhood (the clauses they   *)
(* occur in, without them) share it through a fresh variable.              *)
(***************************************************************************)
Candidates ==
  {r \in Live(db) : /\ ~ RootSatisfied(db[r].lits)
                    /\ Cardinality(Reduced(db[r].lits)) \in 2 .. FactorLength}
\* factor_neighborhood: each quotient with the clauses it comes from.
Neighborhood(f) ==
  LET mine == {r \in Candidates : f \in Reduced(db[r].lits)}
  IN [q \in {Reduced(db[r].lits) \ {f} : r \in mine} |->
        {r \in mine : Reduced(db[r].lits) = q \cup {f}}]
Shape(n) == [q \in DOMAIN n |-> Cardinality(n[q])]

Factors == {f \in Lit : Cardinality(DOMAIN Neighborhood(f)) >= 2}
Group(f) == {g \in Factors : Shape(Neighborhood(g)) = Shape(Neighborhood(f))}
\* A plan for the factors G: the clauses of its grid, one for each pair.
PlanFor(G) ==
  LET Q == DOMAIN Neighborhood(CHOOSE f \in G : TRUE)
  IN [factors |-> G, quotients |-> Q, matrix |-> {Min(Neighborhood(f)[q]) : f \in G, q \in Q}]

FactorPlans ==
  LET Before(p) == Cardinality(p.factors) * Cardinality(p.quotients)
      After(p) == Cardinality(p.factors) + Cardinality(p.quotients)
  IN {p \in {PlanFor(Group(f)) : f \in Factors} :
        /\ Cardinality(p.factors) >= 2
        /\ p.factors \cap UNION p.quotients = {}
        /\ Before(p) > After(p)
        /\ MacroOnly => Before(p) >= 2 * After(p)
        /\ Cardinality(p.matrix) = Before(p)}

Reduction(p) == Cardinality(p.matrix) - Cardinality(p.factors) - Cardinality(p.quotients)
UnusedFresh == {v \in Fresh : \A r \in DOMAIN db : v \notin db[r].lits}

\* A plan made stale by an earlier one of its round is dropped.
Factor ==
  /\ Pass = "factor" /\ todo # {} /\ UnusedFresh # {}
  /\ \E p \in todo :
       /\ \A q \in todo : Reduction(q) <= Reduction(p)
       /\ todo' = todo \ {p}
       /\ IF p.matrix \subseteq Live(db)
          THEN LET x == Min(UnusedFresh)
                   left == SetToSeq({{x, f} : f \in p.factors})
                   right == SetToSeq({{-x} \cup q : q \in p.quotients})
               IN /\ db' = WithoutRefs(db, p.matrix) \o
                             [i \in 1 .. Len(left \o right) |-> Stored((left \o right)[i])]
                  /\ proof' = DroppedRefs(AllDefining(AllDefining(proof, left, x), right, -x), p.matrix)
          ELSE UNCHANGED <<db, proof>>
  /\ UNCHANGED <<config, client, inputs, root, chosen, records, consistent, started, stage,
                 assumed, answer>>

\* Another round over what the last one left.
FactorAgain ==
  /\ Pass = "factor" /\ todo = {} /\ FactorPlans # {} /\ UnusedFresh # {}
  /\ todo' = FactorPlans
  /\ UNCHANGED <<config, client, inputs, db, root, chosen, records, consistent, started, stage,
                 proof, assumed, answer>>

(***************************************************************************)
(* A query.                                                                *)
(***************************************************************************)
Schedule(k) ==
  IF Passes[k] \notin config THEN {}
  ELSE CASE Passes[k] = "probe" -> ProbeSchedule
         [] Passes[k] = "vivify" -> VivifySchedule
         [] Passes[k] = "subsume" -> SubsumeSchedule
         [] Passes[k] = "eliminate" -> EliminationSchedule
         [] Passes[k] = "factor" -> FactorPlans

Solve ==
  /\ stage = 0 /\ client # << >> /\ Head(client).op = "solve"
  /\ assumed' = Head(client).assume
  /\ started' = TRUE
  /\ IF consistent THEN AssertUnits(db, {}) ELSE UNCHANGED <<root, consistent>>
  /\ stage' = IF started THEN Len(Passes) ELSE 1
  /\ answer' = NoAnswer
  /\ UNCHANGED <<config, client, inputs, db, chosen, records, todo, proof>>

\* A pass ends: its schedule is empty, or its budget is spent.
NextPass ==
  /\ stage \in 1 .. Len(Passes) - 1 /\ consistent
  /\ stage' = stage + 1
  /\ todo' = IF stage + 1 = Len(Passes) THEN {} ELSE Schedule(stage + 1)
  /\ UNCHANGED <<config, client, inputs, db, root, chosen, records, consistent, started,
                 proof, assumed, answer>>

\* A conflict at level 0 ends the query: the empty clause closes the proof.
RootConflict ==
  /\ stage # 0 /\ ~ consistent
  /\ answer' = [kind |-> "unsat", core |-> {}]
  /\ proof' = Lemma(proof, {})
  /\ stage' = 0 /\ todo' = {} /\ client' = Tail(client)
  /\ UNCHANGED <<config, inputs, db, root, chosen, records, consistent, started, assumed>>

Complete == {m \in Model : Satisfies(m, LiveClauses(db)) /\ Known \subseteq m}
\* The search, with what it must answer about the clauses it has (Cdcl).
Search ==
  /\ Pass = "search" /\ consistent
  /\ \/ \E m \in Complete :
          assumed \subseteq m /\ answer' = [kind |-> "sat", model |-> Extended(m, records)]
     \/ /\ \A m \in Complete : ~ assumed \subseteq m
        /\ \E core \in SUBSET assumed :
             /\ \A m \in Complete : ~ core \subseteq m
             /\ answer' = [kind |-> "unsat", core |-> core]
  /\ stage' = 0 /\ client' = Tail(client)
  /\ UNCHANGED <<config, inputs, db, root, chosen, records, consistent, started, todo,
                 proof, assumed>>

(***************************************************************************)
(* A clause added later, on top of the root assignment; refused once       *)
(* variables have been eliminated or added (prepare_incremental_mutation). *)
(***************************************************************************)
AddClause ==
  /\ stage = 0 /\ client # << >> /\ Head(client).op = "add"
  /\ client' = Tail(client)
  /\ IF started /\ config \cap {"eliminate", "factor"} # {}
     THEN UNCHANGED <<inputs, proof, db, root, consistent, answer>>
     ELSE LET c == Head(client).clause
              kept == IF Tautology(c) \/ Cardinality(c) < 2
                         \/ (started /\ (RootSatisfied(c) \/ Reduced(c) = {}))
                      THEN db ELSE Append(db, Stored(c))
          IN /\ inputs' = inputs \cup {c}
             /\ proof' = [proof EXCEPT !.held = @ (+) One(c)]
             /\ db' = kept
             /\ answer' = NoAnswer
             /\ IF started /\ ~ RootSatisfied(c) /\ ~ Tautology(c)
                THEN LET unit == IF Cardinality(Reduced(c)) = 1 THEN Reduced(c) ELSE {}
                     IN /\ root' = Trail(kept, 0, Known \cup unit)
                        /\ consistent' = (/\ consistent /\ Reduced(c) # {}
                                          /\ ~ ConflictIn(kept, 0, Known \cup unit))
                ELSE /\ root' = IF Cardinality(c) = 1 THEN root \cup c ELSE root
                     /\ consistent' = (/\ consistent /\ c # {}
                                       /\ Cardinality(c) = 1 => Reduced(c) # {})
  /\ UNCHANGED <<config, chosen, records, started, stage, todo, assumed>>

(***************************************************************************)
(* The first clauses are stored as they come (add_clause before the first  *)
(* query): units go on the trail, the others to the store.                 *)
(***************************************************************************)
Init ==
  /\ \E s \in Scenarios : config = s.config /\ client = s.calls
  /\ inputs = {} /\ db = << >> /\ root = {} /\ chosen = {} /\ records = << >>
  /\ consistent = TRUE /\ started = FALSE
  /\ stage = 0 /\ todo = {}
  /\ proof = [held |-> EmptyBag, ok |-> TRUE]
  /\ assumed = {} /\ answer = NoAnswer

Next == \/ AddClause \/ Solve \/ NextPass \/ RootConflict \/ Search
        \/ Probe \/ Vivify \/ Subsume \/ Eliminate \/ Factor \/ FactorAgain

Spec == Init /\ [][Next]_vars

-----------------------------------------------------------------------------
Kept == {l \in Lit : VarOf(l) \in External /\ VarOf(l) \notin chosen}
ModelsOf(F) == {m \in Model : Satisfies(m, F)}

\* No pass loses a model: whatever satisfies the client's clauses satisfies
\* what is left of them, on the variables that are left.  A missed tautology,
\* a unit of the wrong polarity or a clause strengthened too far would.
NothingLost ==
  consistent => {m \cap Kept : m \in ModelsOf(inputs)} \subseteq
                  {m \cap Kept : m \in {n \in ModelsOf(LiveClauses(db)) : root \subseteq n}}

\* No pass lets a model in: undoing the records (extend_model) makes every
\* model of what is left one of the client's clauses, and never asks for both
\* values of a variable (the assert_eq of extend_model).
NothingGained ==
  (consistent /\ started) =>
     \A m \in Complete :
       /\ Satisfies(Extended(m, records), inputs)
       /\ \A i \in DOMAIN records :
            LET n == Extended(m, SubSeq(records, i + 1, Len(records)))
            IN Cardinality(Required(n, records[i])) <= 1

\* A DRAT checker accepts every line the passes write, in the order in which
\* they write additions and deletions.
ProofChecks == proof.ok

\* What the client is told is true of the clauses it has added: a model
\* satisfies them, a failed core refutes them (solve_assuming).
AnswersRight ==
  /\ answer.kind = "sat" => Satisfies(answer.model, inputs)
  /\ answer.kind = "unsat" => Refutes(inputs, answer.core)

\* A query under assumptions answers about them: a model makes them true, and
\* a failed core refutes the clauses (the documentation of solve_assuming).
AssumptionsHonoured ==
  /\ answer.kind = "sat" => assumed \subseteq answer.model
  /\ answer.kind = "unsat" => Refutes(inputs, answer.core)
=============================================================================
