# A verification development for satrap

satrap is a Rust crate with two programs on one core: a CDCL SAT solver
(`src/solver.rs`, DIMACS in, DRAT proofs out) and an SMT-LIB front end
(`src/smt/`) that reduces Boolean, uninterpreted-function, arithmetic, array and
bit-vector problems to that solver. This directory holds TLA+ models of it, the
TLC configurations that check them on small instances, and machine-checked
proofs of what matters most about them.

The development covers the SAT solver (its incremental interface, its search, the
heuristics that steer it, clause storage, preprocessing with its DRAT steps) and
the SMT front end (the session, the theory loop, the arithmetic solvers, the
bit-vector circuits, and the reduction that proofs are made from). What is left
out is listed at the end.

## The system

| Part | State | Operations | Interacts with |
|---|---|---|---|
| CDCL kernel, `solver.rs` | clause arena, watch lists, trail with levels and reasons, propagation head, learned-clause statistics | propagate, analyze, backtrack, learn, reduce, restart, decide | everything below; called by the interface |
| Incremental interface, `solver.rs` | scope selectors, cached answer, failed assumptions, `started`, `consistent` | `add_clause`, `push`, `pop`, `solve_assuming_with_limits` | CLI, SMT engine |
| Interruption and limits, `solver.rs` | an atomic flag shared with other threads, counters at the query's start | `interrupt`, `clear`, `poll_search_stop` | read by propagate and search |
| Branching, `solver.rs` | EVSIDS heap, VMTF queue, LRB and CHB scores, saved phases | bump, decay, pick, re-insert on unassignment | called by analyze and backtrack |
| Restarts and modes, `solver.rs` | Luby index, reluctant doubling, LBD averages, hybrid and transfer epochs | observe a conflict, should restart, reuse level | called by search |
| Preprocessing, `solver.rs` | elimination records, budgets | probe, vivify, subsume, eliminate, factor | once, before the first search; extends models |
| Clause storage, `solver.rs` | arena offsets, garbage bounds, usage scores, shadow states | allocate, delete, compact, reduce | kernel |
| DRAT writer, `proof.rs` | a sink and its first error | add, delete, finish | kernel |
| DIMACS reader, `dimacs.rs` | header and clause in progress | parse | CLI |
| CLI, `main.rs`, `bin/smt.rs` | options | run, print answer, exit code | solver, session |
| Term store, `smt/term.rs` | hash-consed terms, array axioms | build, checkpoint, rollback, evaluate | encoder, theories, session |
| Boolean encoder, `smt/encode.rs` | literal of each encoded term | encode | solver |
| Theory loop, `smt/engine.rs`, `theory.rs`, `validate.rs` | theory solvers, count of installed array axioms | prepare, solve, check the model, add a lemma, repeat | encoder, solver |
| Theories, `smt/uf.rs`, `arithmetic.rs`, `bitvec.rs` | congruence closure, bounds, circuits | assert, propagate, explain, backtrack | theory loop |
| SMT-LIB session, `smt/session.rs`, `sexpr.rs` | frames of assertions and names, options, last check | the SMT-LIB commands | term store, engine |
| Rust interface, `smt/api.rs` | frames, active labels, last check | assert, push, pop, check, value | term store, engine |
| SMT proofs, `smt/proof.rs` | | rebuild a refutation, render it | session |

One thread does all the work; the only concurrency is the `Interrupter`, which
another thread may raise or clear while a query runs. What makes the code hard is
elsewhere: state that outlives a call (trail, watches, learned clauses, the
cached answer) and must still be right for the next one, propagation that can be
cut off in the middle, lists rebuilt while they are read, and decision levels
that must stay aligned with assumptions, scopes and backtracking.

What makes each part correct:

- *Kernel*: every answer is right for the clauses added so far and the
  assumptions of the query; learned clauses are entailed; propagation misses
  nothing that the watch scheme promises; a reason is never deleted.
- *Interface*: the answer depends on the open scopes only; a cached answer is
  returned for the very same query; failed assumptions are a subset of the
  caller's and are contradictory with the open scopes.
- *Interruption*: an interrupted query says so, returns, and leaves a state from
  which later queries are still answered rightly.
- *Branching*: no variable is lost to the search, in whichever order it waits.
- *Restarts*: the schedules are the sequences they claim to be.
- *Storage*: a reference reads the clause it was made for, and no clause in use
  is deleted.
- *Preprocessing*: equisatisfiable, a model of the result extends to the original
  clauses, and a checker accepts every step.
- *Session*: scopes, names and activation literals agree; a cached literal means
  its term; a failed command changes nothing.
- *Theory loop*: every lemma is a consequence of the theories and excludes the
  model it was made for; sat and unsat are right, and the model is one structure.
- *Arithmetic, bit-vectors*: the algorithms compute what the mathematics says.
- *Proofs*: what is refuted has the models of the assertions, no more, no fewer.

`PROJECT.json` lists the components, the hazards with the lines where they bite
and the properties that would catch them, the runs, the mutants, and for every
definition the source lines it stands for.

## Modules

```
Cnf            literals, clauses, models, entailment
Cdcl           the search without its data structures      EXTENDS Cnf
CdclProofs     theorems about Cdcl, with their proofs      EXTENDS Cdcl, TLAPS
Kernel         the search with its data structures         EXTENDS Cnf, INSTANCE Cdcl
KernelInvariant  what holds between two steps of it        EXTENDS Kernel
KernelLemmas   literals, trail, clauses, analysis, lists   EXTENDS KernelInvariant, TLAPS
KernelProofs   the invariant is inductive, propagation     EXTENDS KernelLemmas
               misses nothing
KernelRefines  Kernel implements Cdcl; its answers         EXTENDS KernelProofs,
                                                           INSTANCE CdclProofs
Branching      heaps and queue that choose a decision
BranchingProofs  no variable is lost, heaps stay heaps     EXTENDS Branching, TLAPS
Schedule       when to restart and change mode
Storage        arena, compaction, reductions, samples
StorageProofs  clauses survive, samples are the least      EXTENDS Storage, TLAPS
Preprocess     the passes before the first search          EXTENDS Cnf
PreprocessProofs  they lose and gain no model              EXTENDS Preprocess, TLAPS
Session        commands of an SMT-LIB script
SessionProofs  scopes, errors, caches, the last result     EXTENDS Session, TLAPS
Terms          terms of the theories and their meaning
Theories       the theory loop                             EXTENDS Terms
Lowering       the replay that proofs are made from        EXTENDS Terms
Arithmetic     the exact arithmetic solvers
Bitvec         circuits of the bit-vector operations

MCCdcl, MCKernel, MCPreprocess, MCSession, MCTheories, MCLowering
               values of the constants for one module
MCSearchControl   Storage, Branching and Schedule          EXTENDS, INSTANCE
MCArithmetic      Arithmetic and Bitvec                    EXTENDS, INSTANCE
MCFrontEnd        Session, Theories, Lowering              EXTENDS, INSTANCE
MCScripts, MCTerms   scripts and formulas for these
```

The last three MC modules put systems side by side that share no state: an
initial state picks one, and the others stay where they began. That is a matter
of running them, not a claim about interaction. The parts do interact, and where
it matters each module holds both sides: `Session` has the term store, the
encoder's cache and the solver's selectors, `Theories` the term store, encoder,
solver, both theories and the validator, `Preprocess` the passes, the later calls
and the proof, `Kernel` the client, the search and the thread that interrupts.

### Cdcl: what the search promises

`Cdcl` is `struct Solver` with only the state that decides what an answer means:
the clauses (`inputs`, `original`, `learned`), the trail with the level and the
reason of each assignment, the query (`hard` are the scope selectors, `user` the
caller's assumptions), and the answer. A step is one of the things `search()` and
the public functions do: propagate a unit clause, decide, put an assumption in
place, learn from a conflict and backjump, restart, delete learned clauses,
answer, give up, add a clause. Conflict analysis is any explanation: a set of
assignments with reasons whose other literals are accounted for (`Explained`,
`Derives`), so the module does not depend on which resolution steps the code takes.

`DatabaseOK`, `SatIsRight` and `UnsatIsRight` say what the solver is for.
`inputs` is a history variable: it only remembers what was added.

### Kernel: how the code does it

| Kernel | `src/solver.rs` |
|---|---|
| `clauses`, `watches` | `clauses`, `clause_arena`, `binary_literals`, `watches` |
| `trail[i].lit`, `.lev`, `.rsn` | `trail`, `levels[]`, `reasons[]` |
| `limits`, `head` | `trail_limits`, `propagation_head` |
| `count`, `selectors` | `external_variable_count`, `scope_selectors` |
| `cached`, `failed` | `cached_assumptions` with `cached_result`, `failed_assumptions` |
| `phase` | where the call in progress is: in `add_clause_internal` (`add`, `install`, `settle`), in `solve_assuming_with_limits` before the search (`prepare`), in `search` (`search`, and `learned`, `reduced` between a conflict and the next iteration) |
| `scan`, `conflict` | the locals of `propagate_internal` and its result |
| `program` | the calls the client has still to make |

`propagate_internal` is spelled out watch by watch: `Dequeue` takes the list of a
falsified literal, and each watch is dropped (deleted clause), skipped (true
blocker), kept, moved, makes its clause imply a literal, or ends the scan with a
conflict, in the order of the code and with its in-place swaps. `Learn` is one
conflict: `FirstUip` is `analyze`, `Minimized` is `minimize_learned_clause`,
`BacktrackLevel` is `determine_backtrack_level`; then backtracking, the new
clause with its two watches, and the asserted literal. `Add`, `Push`, `Pop` and
`Solve` begin calls; the actions after them end those calls.

`Implements` states that `Kernel` implements `Cdcl`. The refinement mapping
forgets the watches, the queue and the order inside a clause, and maps a query in
progress to `mode = "search"` with no result, because the code keeps the previous
cached answer in place until the query ends.

What is abstracted, and why that is enough:

- Which variable is decided, with which polarity, when the solver restarts and
  to which level, and which unlocked long learned clauses are deleted is
  nondeterministic. Every heuristic of the code is one of the choices.
- A query with limits may give up at any poll: the counters decide when, not
  whether.
- The learned clause's literals beyond the two watched ones, and those of a late
  clause within its unassigned and its assigned part, come in any order. The code
  sorts the latter with an unstable sort.
- `pop(n)` and `push_levels(n)` are n single steps. Their guards are checked
  before the first of them changes anything, and preparing a mutation twice has
  the effect of once.
- The hash `abstract_level` is modelled (`LevelBit`). The runs have fewer than 32
  levels, where it tells all of them apart; the proofs hold for any number.
- Clients mention only variables that are not selectors, and assume only
  variables that exist, as the documentation asks; the variable limit is the
  largest member of `Var`.
- Binary-resolution minimization and the propagation of shadow clauses are off in
  the default configuration and left out.

### Branching, Schedule, Storage: what steers the search

`Branching` keeps the EVSIDS heap (`VarOrder`), the transfer strategy's second
heap and the VMTF queue (`VmtfOrder`) through everything that touches them:
`Solve` and `NewVariable` grow them, `Analyze` bumps, rescales and backtracks,
`Rephase`, `SwitchMode`, `FinishProbe` and `RestartSearch` unassign, and one action for
each way to decide takes a variable. Which clauses propagate is left open.
The bounded queue stamp wraps into the renumbering of the code. The loops of the
code (sifting, peeking, walking back, unassigning, bumping) are recursive functions
that take one turn after another, as often as a loop can turn at most; a turn
changes nothing once the loop is left.

`Schedule` is one conflict at a time: `Conflict` counts it, and one of `Rephase`,
`SwitchMode`, `FinishProbe`, `Restart`, `GoOn` follows. The Luby function is the
recursion of the code and is compared with a list built by the usual definition;
reluctant doubling has its two counters; the windows have ring buffers.

`Storage` has the literal arena with clauses as ranges, `MarkedDeleted` with its
bounds on garbage, `Compacted`, the reduction policies, the shadow clauses, the
counterfactual samples and the derivation sketches. A literal is a name that
tells its clause and place, so that reading another clause shows. `Deleting`,
`Compacted`, `Offering` and `Retained` are the loops of the code, as recursive
functions along the list they go through; a reduction picks a set, and the proofs
show that the order in which it is deleted and offered is immaterial.
`StorageAssumption` states what `Solver::with_config` refuses (an arena that is
compacted while clauses are observed or vote) and that long clauses have three
literals or more.

### Preprocess: before the first query

One action is one probe, one clause vivified, one pair subsumed, one variable
eliminated or one factorization; `NextPass` ends a pass at any time because a
budget may. `records` are the elimination records, `Extended` is `extend_model`.
`proof` is a DRAT checker: it holds the clauses written so far and its verdict,
by unit propagation and resolution on the first literal. Unit propagation,
vivification and `Extended` are recursive functions over rounds, literals and
records, so that theorems about them can be proved.

### Session: the commands

| Session | code |
|---|---|
| `nodes` | `TermStore::nodes`, with checkpoints as lengths |
| `encoder`, `solver` | `BoolEncoder` and the part of `Solver` the session sees |
| `bindings`, `frames` | the symbol tables and the scope stack |
| `last`, `out` | `last_check`, the answer |

An expression is a disjunction of named literals, enough for shared terms, for
complements and for labels that are used before and after they are given.
Parsing, encoding and the clauses come in the order of the code, and each step
may be the one that runs out of variables: a command carries the `room` it has.
Clauses and selectors added before the failure stay, as in the code.

### Terms, Theories, Lowering: deciding and refuting

`Terms` has terms as tuples, so that hash-consing is equality, the constructors
that simplify, and `Meaning` in an interpretation: the reference that answers are
measured against. `Satisfiable` searches all interpretations over a domain that
is large enough for the formulas at hand (a formula of equality with n terms has
a model with at most n values; each vocabulary states its bound).

`Theories` is `engine::solve`: `Check` prepares (relevance, shared equalities,
array axioms, arithmetic atoms), `Propose` is any Boolean model, `Refine` adds
the lemma of a theory conflict, `ReportModel`, `ReportUnsat` and `GiveUp` end the
loop. The congruence closure is run in the code's order of pending merges, and
`Explain` follows the proof forest's path. `AssertTerm`, `Build`, `Push`, `Pop`
and `ResetAssertions` are the `Context`'s.

`Lowering` is `prove_boolean_unsat`: `Convert`, `ReadPairs`, `ExpandReads` collect
terms and reads, `Install` lowers, `Label` is the fresh solver's search for class
labels, `Block` an arithmetic lemma, `FindModel` the failure to refute.

### Arithmetic, Bitvec: algorithms

`Arithmetic` translates the solvers of `smt/arithmetic.rs`, and its states are sets
of constraints asserted one after the other. `Bitvec` translates the circuits
gate by gate over values of bits; a state is one operation with its operands.

## Runs

| Run | cfg | Asks |
|---|---|---|
| `cdcl` | `MCCdcl` | Is every answer right, whatever the order of steps? |
| `kernel_search` | `MCKernelSearch` | Do the data structures carry the search, with chronological backtracking, reduction and restarts? |
| `kernel_clients` | `MCKernelClients` | Does any sequence of calls, interrupted at any poll, lead to a wrong or stale answer, to an incomplete propagation or to a call that hangs? |
| `kernel_reuse` | `MCKernelReuse` | Does every level start with its decision, as `restart_reuse_candidate` asserts? No. |
| `preprocess` | `MCPreprocess` | Do the passes, alone and together, keep models both ways, and does a checker accept their steps? |
| `preprocess_assume` | `MCPreprocessAssume` | Does a query honour assumptions about eliminated variables? No. |
| `search_control` | `MCSearchControl` | Are variables found, schedules Luby's, windows exact, clauses and samples what they stand for? |
| `front_end` | `MCFrontEnd` | Does the session stay in step, does the theory loop answer rightly and return, is the replay equisatisfiable? |
| `session_failure` | `MCSessionFailure` | Does a command that fails after encoding leave the session as it was? No. |
| `theories_branch` | `MCTheoriesBranch` | Is sat right if an application occurs only in a branch of an integer `ite`? No. |
| `replay_arrays` | `MCLoweringArrays` | Is the replay exact if an array equals a constant one? No. |
| `arithmetic` | `MCArithmetic` | Are models and refutations right, is everything decided, do circuits compute their operations? |

The properties of each run are in its cfg and, with what they would catch, in
`PROJECT.json`.

Bounds, and why they suffice:

- `cdcl`: three variables, four clauses, three queries with a scope selector and
  up to two assumptions. Two of the clauses collide after two decisions, so that
  a learned clause is possible that is not an input; assumptions fail through
  reasons and directly. Levels and trail are bounded by the variables.
- `kernel_*`: four variables (five in `kernel_reuse`) and clauses of up to four
  literals: enough for a watch to move, for a conflict on three levels, for a
  learned clause with two literals below the conflict level, for a backjump over
  a level and for a scope's selector in front of a query. `kernel_clients` runs
  programs of calls that mix clauses, scopes, assumptions and repeated queries,
  some with a clause that the root assignments falsify.
  `MaxRestarts` and `MaxReductions` bound a query to one of each: the code spaces
  them over ever more conflicts, and each resets nothing the other depends on.
  `ChronoLimit` is 0 instead of 100, so that chronological backtracking happens
  on few levels.
- `preprocess`: six formulas of up to nine clauses over five variables and one
  fresh one, for eight sets of passes: each formula is there for a pass (a pair
  to resolve, a literal that fails, a grid to factor, a clause padded with false
  literals), and one query, later clauses and assumptions follow.
- `search_control`: three variables (a heap with two children), two conflicts,
  stamps that run out; up to 24 conflicts of a schedule, so that Luby's sequence
  reaches 8 and each mode is left and entered again; windows of three and two
  instead of 50 and 5000; stores of four clauses with two reductions.
- `front_end`: scripts of seven commands from 27; vocabularies of at most three
  assertions with up to four calls, one for each way the theories meet; sixteen
  queries for the replay, with and without models. Integers range over 0..2,
  enough for the chains of comparisons that occur.
- `arithmetic`: five families of constraints over three variables with the
  coefficients that make tightening, scaling and splitting happen;
  `RelaxAt` is 3 instead of 5 so that branch and bound runs. Widths up to five
  bits, limits lowered to 8 and 16 so that they are met.
- Deadlock is not checked where a program, a script or a schedule ends; that no
  call hangs is what `CallsReturn` and `CheckReturns` say.

Fairness: `WF_vars(SolverStep)` in `Kernel` and its counterpart `LoopRuns` in
`Theories`. A thread inside a call keeps running; nobody has to make another
call, and the thread with the interrupter owes nothing. This is what an ordinary
scheduler gives and all that the two liveness properties need. `LoopRuns` is weak
fairness with its guard written out, because the guard is simply `phase # "idle"`.

Each property of a passing run has a mutant in `PROJECT.json`: an operator
(marked "Mutant of" in the modules) that stands for a plausible slip in the
code, such as a conflict that loses the unread watches, a class width that is
rounded down, or a congruence reason without the Boolean arguments. With it in
place TLC finds the property violated.

## What the runs found

**`kernel_reuse`.** `restart_reuse_candidate` takes the first trail literal of each
level for its decision and asserts that it has no reason (`src/solver.rs:3194`).
An assumption that already holds opens an empty level. After a conflict one level
above, chronological backtracking returns to that empty level and enqueues the
asserting literal there, with the learned clause as its reason. With both options
on, a restart then fails the assertion in a debug build, and in a release build
ranks a propagated variable as if it had been decided. Answers are not affected:
`Restart` may return to any level in the other runs.

The comment on `determine_backtrack_level` makes three more claims: recorded
levels never fall below true ones, every conflict has a literal of the current
level, the trail stays partitioned by its limits. `ConflictIsCurrent`, `LevelsOK`
and `Implements` hold in `kernel_search`, which has chronological backtracking on
at every opportunity. `NoMissedUnit` is checked without it, because the comment
says itself that such backtracking may forget an implication.

**`preprocess_assume`.** Elimination runs before a query with assumptions as well
and fixes an eliminated variable at its saved phase (`src/solver.rs:4520`). A
query that assumes the other polarity is then unsat, with a failed core that the
clauses do not contradict. Elimination is off by default.

**`session_failure`.** A labelled assertion that fails after its term was encoded
gives back its term identifier, while the encoder keeps a literal for it
(`src/smt/session.rs:214`, `src/smt/encode.rs:124`). The next new term takes both.
It needs the variable limit or an allocation failure.

**`theories_branch`.** `compute_uf_relevance` does not follow the branches of integer
`ite` terms (`src/smt/uf.rs:149`). An integer-valued application that occurs only
there takes part in no congruence, and sat is answered for a set of assertions
that has no model. The property that fails, `SatRight`, holds for all the
vocabularies of `front_end`.

**`replay_arrays`.** The closure of array reads in `src/smt/proof.rs:2527-2552`
follows the structure of each read and adds one witness index for each pair of
arrays, but it reads no array at an index at which an equal array is read. If `m`
is asserted equal to a constant array of `v`, and different from `v` at `i`, then
the reduction has a model, although `docs/PROOF_CHECKING.md:104` calls it
equisatisfiable: with proofs on, the check fails with an error instead of
answering unsat. It errs on one side only; nothing satisfiable is refuted.

## Proofs

### The search

`CdclProofs` proves about `Cdcl`, for every `Var`, `InputClauses` and `Queries`
that satisfy the two assumptions `VarAssumption` and `InputAssumption`:

| Theorem | States |
|---|---|
| `Invariance` | `Spec => []Inv`, the inductive invariant |
| `TypeCorrect` | `Spec => []TypeOK` |
| `DatabaseCorrect` | `Spec => []DatabaseOK`: whatever is learned is entailed by the input |
| `AssumptionsKept` | `Spec => []AssumedOK` |
| `SatCorrect` | `Spec => []SatIsRight` |
| `UnsatCorrect` | `Spec => []UnsatIsRight` |
| `ReasonsKept` | `Spec => []ReasonOK` |

`SatIsRight` and `UnsatIsRight` are not inductive. `Inv` adds what they rest on:
the trail is a consistent assignment ordered by level (`TrailOK`); a reason is
stored, contains the literal it implies and its other literals were false before
(`ReasonOK`); root assignments follow from the input (`RootOK`); decisions below
the assumption levels are assumptions (`DecisionOK`) and those assumptions hold
(`AssumedOK`); a discarded answer leaves no open level (`OpenOK`). TLC checks
the same formulas on the small instance.

The argument is semantic. A model of the input that agrees with the cut of an
explanation agrees with every literal explained, by strong induction along the
trail: each reason is entailed, and all its literals but one are false in that
model. Hence what `Learn` adds is entailed by the input, and what
`FailAssumption` returns cannot hold together with it. One lemma per action shows
that it preserves `Inv`; facts used by several actions (a cut keeps `TrailOK` and
`ReasonOK`, a root assignment stays justified) are lemmas of their own.

### The kernel, with its data structures

Three modules prove about `Kernel`, for every `Var`, every set of client programs
and every configuration (fast path, minimization, chronological backtracking and
its limit, interruption, bounds on restarts and reductions). The assumptions are
`VarAssumption`, `ProgramAssumption` (a program is a sequence of the four calls
with clauses and assumptions over `Var`) and `NumberingAssumption`: variables are
numbered without gaps, there are finitely many (`MAX_VARIABLES`), and
`ChronoLimit` is a natural number.

| Theorem | States |
|---|---|
| `KernelInvariance`, `Typed` | `Inv`, the inductive invariant, and the types in it |
| `WatchesRight` | `WatchedOK`: each stored clause sits once in the lists of its first two literals, and nowhere else, with one of its own literals as blocker, also while a list is being rebuilt |
| `LevelsRight` | `LevelsOK`: `trail_limits` cut the trail into its levels |
| `CacheRight` | `CacheOK`: a cached answer belongs to the query it would answer |
| `ConflictCurrent`, `AnalysisRight` | a conflict above the root has a literal of the current level, and analysis leaves false literals above the root, one of them of the current level, the rest at the jump level or below |
| `SchemeInvariance`, `ConflictsFound` | `NoMissedConflict`: an empty queue without a conflict means that no stored clause is false |
| `UnitsFound` | `NoMissedUnit`, without chronological backtracking |
| `KernelImplements` | `Implements`: `Kernel` refines `Cdcl` |
| `StoredFollows`, `SatAnswersRight`, `UnsatAnswersRight` | every clause in the arena is entailed by the clauses added; answers are right |
| `CachedAnswersRight` | an answer taken from the cache is right for the query it is given to |

`Inv` is written out in `KernelInvariant`. `WatchedOK` and `LevelsOK` are not
inductive; what they need besides the types is that

- a variable is on the trail once, the limits lie at or below `propagation_head`,
  and an assignment's level counts the limits before it (`TrailOK`). This is the
  partition that the comment on `determine_backtrack_level` claims for
  chronological backtracking as well;
- a reason is a stored clause whose other literals were false earlier, and an
  assignment without one is at the root or the first of its level (`ReasonsOK`).
  Reduction spares reasons for its sake, and the analysis rests on it;
- while a list is scanned, its literal is the negation of the head of the queue,
  which is of the current level (`ScanOK`); a conflict clause is false and
  contains that literal (`ConflictOK`). This gives `ConflictCurrent`;
- each phase of a call relies on a level, a flag, an empty cache (`PhaseOK`,
  `AnswerOK`), and the lists refer to clauses of the arena (`RefsOK`).

*Propagation.* What the watches guarantee is `SchemeOK`, inductive relative to
`Inv`. A watch that is false and has been looked at since (`Examined`) means that
some literal of its clause was true at that level or before (`OneFalse`); if both
watches are, this holds at the level of one of them (`TwoFalse`). With
chronological backtracking only `TwoFalse` survives above the root, which is
enough for conflicts and not for implications: the reason why `NoMissedUnit` is
claimed without it. Two states escape the guarantee, and the invariant names
both. A conflict at the root that has been found but not yet reported, and
`Doomed`: an interrupt dropped a root conflict, `propagation_head` was set back,
and some false clause still has a watch in the queue or unread, so that the next
propagation at the root ends in a conflict again. `DroppedOK` is what makes the
step from the first to the second possible.

*Conflict analysis.* The last part of `KernelLemmas` shows that first-UIP analysis, minimization
and failed-assumption analysis all produce a literal set from which the trail
explains the conflict: a set of positions whose reasons' other literals are
falsified by the set, by other positions or at the root (`Resolvable`). For
`FirstUip` the positions resolved on are collected backwards along the trail; for
`Minimized` the covered positions that are no literal of the clause; for
`Involved` the variables reached. The recursions run over trail positions, and
are unfolded by two lemmas that a chain of steps exists in either direction
(`BackwardRecursion`, `ForwardRecursion`).

*Refinement.* `View`, `Originals`, `Derived`, `Mode` and `Result` are the
refinement mapping in the kernel's words. Visiting watches, and the turns a call
takes between its phases, leave them alone; `Imply` is `Cdcl!Propagate`; `Learn`
is `Cdcl!Learn` with the explanation above; `AnswerSat` needs `NoMissedConflict`;
`Solve` needs that the selectors of open scopes are in order, and the
installation of a clause that its variables are known (`SelectorsOK`,
`PendingOK`, invariants of their own). The stacks of selectors that the abstract
query ranges over are the increasing sequences over `Var` (`Stacks`), because
`push` allocates a new variable each time. The abstract machine's theorems then
hold of the kernel by instantiation (`Search`), their assumptions on inputs and
queries being proved from `ProgramAssumption`.

### Preprocessing

`PreprocessProofs` proves about `Preprocess`, for every finite `Var` and every
division of it into the client's variables and fresh ones, every formula, list
of calls and choice of passes, and any values of the limits (they decide when a
pass stops or refrains, and nothing rests on them). The assumptions are
`VarAssumption`, `VariablesAssumption` and `ScenarioAssumption`: a call adds a
clause over the client's variables or solves under assumptions on them.

| Theorem | States |
|---|---|
| `Invariance` | `Spec => []Inv`, the inductive invariant |
| `ModelsKept` | `Spec => []NothingLost`: no pass and no later clause loses a model |
| `ModelsRecovered` | `Spec => []NothingGained`: `extend_model` turns every model of what is left into one of the client's clauses, and its `assert_eq` holds |
| `QueriesRight` | a sat answer is a total model of the client's clauses, whatever was eliminated; with no assumption on an eliminated variable, a sat answer has all the assumptions and the failed core of an unsat answer is refuted (`AnswersRight`, `AssumptionsHonoured`) |
| `AnswersAlwaysRight` | `Spec => []AnswersRight` for clients that ask for no elimination, or make no assumptions |

The last two say exactly how far `solve_assuming` keeps its promise: the run
`preprocess_assume` shows that it does not for an assumption on an eliminated
variable. The hypothesis of `AnswersAlwaysRight` is on the client only, and
`MCScenarios` satisfies it.

`NothingLost` and `NothingGained` are not inductive. `Inv` relates the models of
`inputs` to those of the store that contain the root assignment and the
eliminated variables' values (`Complete`):

- `Covered`: every model of the inputs agrees, on the client's variables that are
  left, with one in `Complete`; in particular a conflict at level 0 (`consistent`
  false) means that there is none. `NothingLost` says nothing once a conflict
  was found, `Covered` does.
- `Recovered`: undoing the records makes a total model of the inputs of each one
  in `Complete`, changes eliminated variables only, and never meets two clauses
  of one record that ask for opposite values.
- What the steps need for that: no stored clause is a tautology (`NoTautology`;
  else a self-subsuming resolvent could lose the literal it was resolved on), a
  variable that factorization may take occurs nowhere and has no value
  (`FreshOK`), the schedules hold what they were computed for, and a
  factorization plan whose clauses are all still there lists exactly the clauses
  of its grid (`ScheduleOK`, `PlanOK`), although earlier plans of the same round
  have rewritten others. Clauses are refused after a query that eliminated
  (`QueryOK`), so no later clause speaks of an eliminated variable.

TLC checks `Inv` on both instances before anything is proved of it.

Per pass: *Probing* and the units of every pass rest on `PropagatedSound` (a model
of the clauses and of the decisions has all that is propagated, and refutes a
conflict), proved over the rounds of propagation. *Vivification*: for each prefix
of the order, what was dropped is false or superfluous in any model of the other
clauses that falsifies what was kept (`VivifiedSound`). *Subsumption*: dropping a
clause, or replacing it by the resolvent, keeps `Complete` as it is
(`SelfSubsumption`, `Replacing`). *Elimination*, forwards: a model of the clauses
satisfies the resolvents, and may be moved to the saved phase of the variable
(`EliminatedForwards`); backwards: a model of the resolvents never falsifies,
apart from the pivot, both a clause with `v` and one with `-v`, so undoing the
record satisfies them all (`UndoSound`, `EliminatedBack`). *Factorization*: a
model gives the fresh variable a value by whether some factor is false, and the
two sides together imply each clause of the grid (`FactoredModels`). A later
clause narrows inputs and store alike (`AddClauseShape`).

### The session

`SessionProofs` proves about `Session`, for every set of `Commands` and every
length of script. The assumption, `CommandsTyped`, only says what a command
carries: names and labels are strings, a body is a sequence of signed names, and
`room` is a number of variables.

| Theorem | States |
|---|---|
| `NamesKept` | `Spec => []NamesInv`, the inductive invariant |
| `ScopesStandTogether` | `Spec => []ScopesAgree`: every scope has its activation literal, the visible names are those the frames bind, each once, and a label names the term it was given with |
| `ErrorsChangeNothing` | `Spec => RejectedChangesNothing`: a command answered by an error changes no name, scope, assertion, label, result or option, retires no activation literal and removes no term |
| `CachedLiteralsMean` | `Spec /\ NothingHalfDone => []CacheMeansTerm`: in every model of the solver's clauses a cached literal is true exactly if its term is |
| `LastResultRight` | `Spec /\ NothingHalfDone => []LastCheckRight`: the model of the preceding result makes all assertions true, its core and failed assumptions cannot all be true |

`ScopesAgree` is not inductive: that a label goes back to the term its name is
bound to takes that a label is bound in the frame that lists it, or `pop` could
remove the name and leave the label; and that commands end as they do takes that
the store is closed. `NamesInv` adds to it:

- the store is closed (`StoreOK`): true and false first, then atoms, complements
  and disjunctions of nodes that come before them;
- every visible name stands for a term of the store, which is no longer obvious
  once commands roll the store back (`Named`);
- the encoder and the solver have their types (`Encoders`, `Solvers`). Nothing is
  said of which terms the encoder knows: after `session_failure` it may know some
  that are gone.

A command is a chain of smaller steps: members of a term, labels, terms, nodes to
encode. For each chain a lemma says that it may be walked and what a walk
preserves: a parse only extends the store (`Extends`) and returns a term of it, an
encoding only adds variables and permanent clauses. From these follow, for
`AssertTerm`, `CheckSat` and `GetValue`, the three ways they may end: done, half
encoded or refused, and that a refusal takes back exactly the labels that the
command bound itself, since they were all new (`WithoutInlineFacts`). `NamesKept`
has one lemma per command; `ErrorsChangeNothing` needs only the invariant before
the step.

The last two theorems need a condition, and `session_failure` shows why: an
assertion or a check with labels that fails half encoded takes its terms back while
the encoder keeps their literals, and identifiers given anew then find the literal
of another term. `NothingHalfDone` excludes just that step: a labelled command
answered by an error with the encoder changed. Everything else may fail anywhere;
the scripts of `front_end` meet the condition, those of `session_failure` do not.

Under it `CachesInv` is inductive beside `NamesInv`. It says of the caches
(`Coherent`) that

- each cached literal is what `EncodeNode` makes of its node, and the clauses that
  define a disjunction are there (`EncoderOK`);
- each assertion has a clause that only its scope's selector and its label's can
  switch off (`EntriesOK`);
- every variable has one role (`Coloured`): truth, a symbol, a disjunction, the
  selector of a scope, the selector of a label in a scope, or dead, which the
  selectors of popped scopes become;
- every clause has a reason to be true whatever the symbols are (`ClauseOK`): it
  holds the truth literal, defines a disjunction, holds a dead selector negated,
  or belongs to an assertion in scope.

The first part gives the value of each literal in any model, by induction along
the store (`Meaning`, `ModelMeaning`), hence `CacheMeansTerm`, and with the second
a model of the query satisfies the assertions (`AssertionsHold`). The roles are for
the other answer: were there values of the symbols under which all that the core
names is true, giving each variable what its role asks for would be a model of the
query (`RoleModelFacts`, `RolesAnswer`). Both together are `AnsweredFacts`; what
follows a check either invalidates its result or leaves the assertions and the
meaning of their terms alone (`LastStays`, `TrueInExtends`).

### Clause storage

`StorageProofs` proves about `Storage`, for every set of configurations, lengths,
distances and pivots that satisfies `StorageAssumption` and for every capacity:

| Theorem | States |
|---|---|
| `StorageStands` | `Spec => []StorageInv`, the inductive invariant |
| `ClausesSurvive` | `Spec => []StoreExact`: live clauses read what was written for them, the gaps are those counted, no reason is deleted, the count of learned clauses is exact |
| `SamplesAreLeast` | `Spec => []SamplesExact`: the samples and sketches are the least of all that was offered, the shadow clauses are those listed |

`StoreExact` is not inductive, since `compact_clause_arena` starts at the bounds
that deletions have kept and trusts that nothing before them moves and that
writing never overtakes reading. `StorageInv` adds

- where each clause stands, literal by literal (`Stands`), and how long it was
  when it was written (`NamesOK`);
- that live clauses lie in the order of their numbers without overlap (`Ordered`);
- that the bounds fit: with garbage, the clause and the place recorded are before
  every gap, the live clauses of lower number end before the place, the others
  begin behind it (`FirstGap`). The mutant that records the clause deleted last
  breaks just this;
- that nothing is learned before the first conflict, so that a deletion by
  preprocessing leaves the count alone (`CountOK`), that only learned clauses are
  observed, and only under the shadow policy (`ShadowsOK`), and that an offer of an
  earlier reduction cannot be taken for a new one (`SamplesOK`).

TLC checks `StorageInv` on the instance of `search_control`. A loop is followed by
`Recursion` and `UpTo`: what holds at the start and passes on holds at the end. In
`DeletingFacts` the minimum kept of two bounds is right in any order; in
`SlidFacts` the clauses below the one reached stand behind the place of writing
and those above it, untouched, ahead, and every place passed is some live clause's,
hence no gap is left. For samples, `Low` is the set of the `n` first of
an order: that one more element displaces at most the last (`LowAdd`), and that
the first of the first of a union are the first of all (`LowLow`), give
`OfferingFacts` and `ResolvedFacts`, for the lexicographic order of samples and
for the ranks of pivots.

### Branching

`BranchingProofs` proves about `Branching`, for every number of variables, every
set of strategies and every bound on conflicts, from `BranchingAssumption`: the
bounds are natural numbers and stamps reach beyond the number of variables, so
that renumbering finds room, as `u64` stamps do for `MAX_VARIABLES` in the code.

| Theorem | States |
|---|---|
| `OrdersStand` | `BranchingSpec => []BranchInv`, the inductive invariant |
| `NoneOverlooked` | `BranchingSpec => []NoVariableLost`: every free variable is in the heaps and at or before the cursor of the queue, and the search ends only when none is free |
| `OrdersSound` | `BranchingSpec => []OrdersOK`: positions lead to the variables, no child is better than its parent (in the first heap until activities were scaled down), the list holds all variables and runs both ways with rising stamps |

`OrdersOK` alone is not inductive. `BranchInv` adds that the trail holds variables
once and the limits cut it in order (`TrailOK`); that the heaps have no other
variables than those created; that the queue is well linked for some sequence of
all variables (`Lists`, `Holding`), and that no free variable stands behind the
cursor in it (`Cursor`). `NoVariableLost` needs the last: it compares stamps, which
`MoveToFront` and renumbering change.

- *Heaps.* A loop of sifting keeps a heap but for one place (`UpTo1`, `DownTo1`),
  where a grandchild never outdoes the grandparent; each turn moves that place up
  or down, and it runs out of places before it runs out of turns. A score that grew
  is sifted up and one that fell down, which is what the mutant `UpdateUp` forgets.
  Scaling down may make unequal activities equal, and ties are then broken by
  number: from there on (`rescaled`) the order of the heap is not claimed, its
  positions and members still are.
- *The queue.* `Unlinked` and `Linked` are followed on the sequence (`Without`,
  `Append`); the cursor moves back over assigned variables only, and on to a
  variable that becomes free when its stamp is higher.
- *Loops.* `Folding` and `Turns` define what `n` turns come to and carry an
  invariant along them; one lemma per action (`NewVariableStep` to
  `AnswerSatStep`) puts them together.

TLC checks `NoVariableLost` and `OrdersOK`; `BranchInv` ranges over all sequences
of variables and is only proved.

### What stays with TLC

- Liveness under fairness (`CallsReturn`, `CheckReturns`), which the prover used
  here cannot treat.
- `LevelsStartWithDecisions`, which is false (`kernel_reuse`).
- `ProofChecks` of `Preprocess`, that a DRAT checker accepts every step: that
  propagation by rounds over all the clauses held finds the conflict which the
  pass found over its own clauses takes a comparison of two fixed points for
  each pass, and the deletions follow a fold over a set. `AssumptionsHonoured`
  in general is false (`preprocess_assume`).
- `SpacingIsLuby` and `WindowsExact` of `Schedule`: the Luby sequence is given by
  a recursion over data, and the sums of the windows are folds.
- `LastCheckRight` of `Session` in scripts that break `NothingHalfDone`, where it is
  false (`session_failure`).
- `Theories`, `Lowering`, `Arithmetic`, `Bitvec`: what their recursive
  definitions compute (closures, evaluation of terms, Cooper's elimination) takes
  induction over data, and modules with `RECURSIVE` operators are for TLC only.

Run `tlapm M.tla` to check the proofs of module `M`, `tlc -config X.cfg M` for a
run.

## Not modelled

- Text: s-expressions, DIMACS, printed answers, certificates and the bytes of a
  DRAT proof; arguments, statistics and help of the two programs; the Python
  tools and the fuzz harnesses.
- `dimacs.rs` is one pass from tokens to `add_clause` and keeps nothing.
- A shadow clause that conflicts at the root leaves its conflict in a field that
  the next `propagate()` empties (`src/solver.rs:3316`); shadow clauses do not
  take part in propagation in any module.
- `try_add_clause` discards the cached answer and counts a clause before it may
  fail with `VariableLimit`; the kernel's variables never run out.
- Floating-point activities, moving averages and the estimates of the transfer
  strategy: any value they may take is a choice in `Branching` and `Schedule`.
- Sorts in `Session`; bit-vectors inside `Theories` and `Lowering`; work limits of
  the arithmetic solvers; sharing of equal gates in circuits.
- The arithmetic refuters of `proof.rs` repeat the solvers that `Arithmetic`
  models; `Lowering` replaces them by a search over a small domain.

## Plan

Theorems to come, in modules without recursive operators: `ProofChecks` for the
passes whose steps are RUP with respect to the clauses held (propagation over the
clauses held has to reach what propagation over the store does, and the copies of
a clause held have to cover the live ones).
