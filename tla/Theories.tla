------------------------------ MODULE Theories ------------------------------
(***************************************************************************)
(* The lazy theory loop: src/smt/engine.rs over the term store (term.rs),  *)
(* the Boolean encoder (encode.rs), the theory manager (theory.rs), the    *)
(* congruence closure (uf.rs), the arithmetic theory (arithmetic.rs,       *)
(* ArithmeticTheory), the candidate validator (validate.rs) and the        *)
(* assertion commands of the Rust interface (api.rs, Context).             *)
(*                                                                         *)
(* The SAT solver is abstract: it returns any assignment of the encoded    *)
(* atoms that satisfies the clauses, or unsat with any sufficient set of   *)
(* failed assumptions.                                                     *)
(***************************************************************************)
EXTENDS Terms

CONSTANTS
  Families,     \* vocabularies of a client: [asserted, built] sets of Boolean terms,
                \* bounds [values] of the U domain and [commands] of its calls
  AssertionNames,  \* names for named assertions
  MaxFrames     \* bound: assertion frames

VARIABLES
  client,       \* the vocabulary in use: terms it asserts or assumes, terms it only builds
  store,        \* the term store: [nodes, axioms], both in creation order
  frames,       \* Context.frames: a sequence of sets of assertions
  encoded,      \* the atoms that have a solver variable
  lemmas,       \* permanent clauses: theory lemmas and installed axioms
  installed,    \* TheoryManager.installed_array_axioms
  plan,         \* what prepare computed for the running check
  phase,        \* "idle", or in the refinement loop: "solving", "checking"
  candidate,    \* the Boolean model being checked
  last,         \* Context.last_check
  commands

vars == <<client, store, frames, encoded, lemmas, installed, plan, phase, candidate, last,
          commands>>

-----------------------------------------------------------------------------
(* Interning, and the array axioms that come with a term.                  *)

Nodes(st) == Range(st.nodes)

ArrayEquality(t) == Kind(t) = "eq" /\ \E a \in t[2] : Sort(a) = "A"

\* theory_equality: two arrays are equal, or differ at a fresh witness index.
Extensionality(t) ==
  Or({t, Not(<<"eq", {Select(a, <<"witness", t[2]>>) : a \in t[2]}>>)})

\* select: what a read of a constant array, or of a written one, returns.
ReadAxioms(a, i) ==
  LET read == Select(a, i)
  IN  CASE Kind(a) = "constarr" -> {Equal(read, a[2])}
        [] Kind(a) = "store" -> {Equal(read, Ite(Equal(a[3], i), a[4], Select(a[2], i)))}
        [] OTHER -> {}

\* The permanent facts a new term brings.
ArrayAxioms(t) ==
  IF ArrayEquality(t) THEN {Extensionality(t)}
  ELSE IF Kind(t) = "app" /\ t[2] = "select" THEN ReadAxioms(t[3][1], t[3][2])
  ELSE {}

RECURSIVE Intern(_, _)
Intern(st, t) ==
  LET Axiom(s, x) == [Intern(s, x) EXCEPT !.axioms = Append(@, x)]
      Enter(s) == FoldLeft(Axiom, [s EXCEPT !.nodes = Append(@, t)], SetToSeq(ArrayAxioms(t)))
  IN  IF t \in Nodes(st) THEN st ELSE Enter(FoldLeft(Intern, st, Children(t)))

InternAll(st, T) == FoldLeft(Intern, st, SetToSeq(T))

\* Arrays that may become equal must be read at the same indices.
ArrayGroups(st) ==
  {t[2] : t \in {x \in Nodes(st) : ArrayEquality(x)}}
  \cup {{t, t[3], t[4]} : t \in {x \in Nodes(st) : Kind(x) = "ite" /\ Sort(x) = "A"}}
  \cup LET arrays == {x \in Nodes(st) : Kind(x) = "app" /\ Sort(x) = "A"}
       IN  {{y \in arrays : y[2] = x[2]} : x \in arrays}

MissingReads(st) ==
  LET reads == {t \in Nodes(st) : Kind(t) = "app" /\ t[2] = "select"}
      indices(G) == {t[3][2] : t \in {x \in reads : x[3][1] \in G}}
  IN  UNION {{Select(a, i) : a \in G, i \in indices(G)} : G \in ArrayGroups(st)}
      \ Nodes(st)

RECURSIVE PrepareArrays(_)
PrepareArrays(st) ==
  LET Share(missing) == IF missing = {} THEN st ELSE PrepareArrays(InternAll(st, missing))
  IN  Share(MissingReads(st))

-----------------------------------------------------------------------------
(* Relevance.                                                              *)

\* reachable_boolean_terms: through the connectives, not into the atoms.
RECURSIVE Reach(_)
Reach(T) ==
  LET more == UNION {IF Kind(t) = "not" THEN {t[2]}
                     ELSE IF Kind(t) \in {"and", "or"} THEN t[2] ELSE {} : t \in T}
  IN  IF more \subseteq T THEN T ELSE Reach(T \cup more)

MarkRelevant(t) == IF Sort(t) = "B" THEN Reach({t}) ELSE {t}

\* One round of compute_uf_relevance.  Branches and conditions are followed for
\* ites of sort U and A; an integer ite is a variable like any other here.
Followed(t) ==
  CASE Kind(t) = "le" -> {t[2], t[3]}
    [] Kind(t) = "eq" -> t[2]
    [] Kind(t) = "app" -> Range(t[3])
    [] Kind(t) \in {"store", "constarr"} -> Range(Tail(t))
    [] Kind(t) = "ite" /\ IsAbstract(t) -> {t[2], t[3], t[4]}
    [] OTHER -> {}

RECURSIVE UfRelevance(_)
UfRelevance(R) ==
  LET more == UNION {UNION {MarkRelevant(u) : u \in Followed(t)} : t \in R}
  IN  IF more \subseteq R THEN R ELSE UfRelevance(R \cup more)

\* The arithmetic theory's own closure does follow integer ites.
RECURSIVE ArithmeticRelevance(_)
ArithmeticRelevance(R) ==
  LET more == {t[i] : t \in {x \in R : Kind(x) = "le"}, i \in 2..3}
              \cup UNION {Reach({t[2]}) \cup {t[3], t[4]} :
                           t \in {x \in R : Kind(x) = "ite" /\ Sort(x) = "I"}}
  IN  IF more \subseteq R THEN R ELSE ArithmeticRelevance(R \cup more)

\* Positions at which two applications of one function carry sort s: the
\* arguments and the result, as pairs of distinct terms.
PairsOfSort(l, r, s) ==
  {{l[3][i], r[3][i]} : i \in {j \in DOMAIN l[3] : Domain(l[2])[j] = s
                                                  /\ l[3][j] # r[3][j]}}
  \cup (IF ResultSort(l[2]) = s /\ l # r THEN {{l, r}} ELSE {})

SharedPairs(apps, s) ==
  UNION {PairsOfSort(l, r, s) : <<l, r>> \in {p \in apps \X apps : p[1][2] = p[2][2]}}

EqualPair(P) == LET l == CHOOSE t \in P : TRUE
                IN  Equal(l, CHOOSE t \in P : t # l)

\* A user function must not distinguish extensionally equal arrays.
ArgumentEqualities(st, R) ==
  LET apps == {t \in Nodes(st) \cap R : Kind(t) = "app" /\ t[2] # "select"}
      arguments == UNION {PairsOfSort(l, r, "A") \ {{l, r}} :
                            <<l, r>> \in {p \in apps \X apps : p[1][2] = p[2][2]}}
  IN  {EqualPair(P) : P \in arguments} \ Nodes(st)

RECURSIVE PrepareUf(_, _)
PrepareUf(st, roots) ==
  LET Arranged(s, R, missing) == IF missing = {} THEN [store |-> s, relevant |-> R, roots |-> roots]
                                 ELSE PrepareUf(InternAll(s, missing), roots)
      Related(s, R) == Arranged(s, R, ArgumentEqualities(s, R))
      Read(s) == Related(s, UfRelevance(Reach(roots \cup Range(s.axioms))))
  IN  Read(PrepareArrays(st))

\* UfTheory.prepare, continued: the relevant applications, equalities and ites
\* in creation order, and the integer pairs shared with arithmetic.
Relevant(q) ==
  LET InOrder(Chosen(_)) == SelectSeq(q.store.nodes, LAMBDA t : t \in q.relevant /\ Chosen(t))
      IsApp(t) == Kind(t) = "app"
      IsEquality(t) == Kind(t) = "eq"
      IsIte(t) == Kind(t) = "ite" /\ IsAbstract(t)
  IN  [apps |-> InOrder(IsApp), equalities |-> InOrder(IsEquality), ites |-> InOrder(IsIte)] @@ q

Operands(T) == UNION {Range(t[3]) \cup {t} : t \in T}

\* Boolean arguments and results matter to functions applied at least twice.
Repeated(T) == {t \in T : \E u \in T : u # t /\ u[2] = t[2]}

WithShared(q) ==
  LET With(pairs) ==
        [q EXCEPT !.store = InternAll(@, {EqualPair(P) : P \in pairs})]
        @@ [shared |-> pairs,
            sharedTerms |-> {u \in Operands(Range(q.apps)) : Sort(u) = "I"},
            uf |-> {EqualPair(P) : P \in pairs}
                   \cup {u \in Operands(Repeated(Range(q.apps))) : Sort(u) = "B"}
                   \cup Range(q.equalities) \cup {t[2] : t \in Range(q.ites)}
                   \cup Range(q.store.axioms)]
  IN  With(SharedPairs(Range(q.apps), "I"))

\* Mutant of WithArithmetic: what the equality theory requires is not followed.
WithArithmeticOfRoots(q) ==
  LET T == ArithmeticRelevance(Reach(q.roots))
      ites == {t \in T : Kind(t) = "ite" /\ Sort(t) = "I"}
  IN  [predicates |-> {t \in T : Kind(t) = "le"}, aites |-> ites,
       variables |-> {t \in T : Sort(t) = "I"},
       required |-> q.uf \cup {t \in T : Kind(t) = "le"} \cup {t[2] : t \in ites}] @@ q

\* ArithmeticTheory.prepare, and the terms either theory requires a value for.
WithArithmetic(q) ==
  LET With(predicates, aites, variables) ==
        [predicates |-> predicates, aites |-> aites, variables |-> variables,
         required |-> q.uf \cup predicates \cup {t[2] : t \in aites}] @@ q
      Split(T) == With({t \in T : Kind(t) = "le"},
                       {t \in T : Kind(t) = "ite" /\ Sort(t) = "I"},
                       {t \in T : Sort(t) = "I"})
  IN  Split(ArithmeticRelevance(Reach(q.roots \cup q.uf)))

Prepare(st, roots) == WithArithmetic(WithShared(Relevant(PrepareUf(st, roots))))

NoPlan == [roots |-> {}]
NoModel == <<>>

-----------------------------------------------------------------------------
(* One Boolean model against the theories.                                 *)

RECURSIVE Evaluate(_, _)
Evaluate(t, model) ==
  CASE t = True -> TRUE
    [] t = False -> FALSE
    [] Kind(t) = "not" -> ~Evaluate(t[2], model)
    [] Kind(t) = "and" -> \A x \in t[2] : Evaluate(x, model)
    [] Kind(t) = "or" -> \E x \in t[2] : Evaluate(x, model)
    [] OTHER -> t \in DOMAIN model /\ model[t]   \* an unencoded atom is false

Signed(t, value) == [term |-> t, positive |-> value]
Negate(l) == [l EXCEPT !.positive = ~@]
ConflictLemma(reason, consequence) == {Negate(l) : l \in reason} \cup {consequence}

\* A closure is a partition and the forest of explained merges that made it.
NewClosure(T) == [classes |-> {{t} : t \in T}, edges |-> {}]
Class(c, t) == CHOOSE k \in c.classes : t \in k
Equivalent(c, l, r) == r \in Class(c, l)

Union(c, l, r, reason) ==
  IF Equivalent(c, l, r) THEN c
  ELSE [classes |-> (c.classes \ {Class(c, l), Class(c, r)})
                      \cup {Class(c, l) \cup Class(c, r)},
        edges |-> c.edges \cup {[ends |-> {l, r}, reason |-> reason]}]

RECURSIVE Linked(_, _)
Linked(edges, T) ==
  LET more == UNION {e.ends : e \in {x \in edges : x.ends \cap T # {}}}
  IN  IF more \subseteq T THEN T ELSE Linked(edges, T \cup more)

\* The reasons on the one path of the forest from l to r: the edges whose loss
\* separates them.
Explain(c, l, r) ==
  UNION {e.reason : e \in {x \in c.edges : r \notin Linked(c.edges \ {x}, {l})}}

\* The value a theory was told for a Boolean term: false if it was told none.
Told(q, model, t) == t \in q.required /\ Evaluate(t, model)

\* The unions of final_check before congruence: true equalities, selected branches.
Asserted(q, model) ==
  LET Merge(c, t) == LET l == CHOOSE x \in t[2] : TRUE
                     IN  Union(c, l, CHOOSE x \in t[2] : x # l, {Signed(t, TRUE)})
      Shared(c, P) == LET l == CHOOSE x \in P : TRUE
                          r == CHOOSE x \in P : x # l
                      IN  Union(c, l, r, {Signed(EqualPair(P), TRUE)})
      Branch(c, t) == LET value == Told(q, model, t[2])
                      IN  Union(c, t, IF value THEN t[3] ELSE t[4], {Signed(t[2], value)})
      terms == {t \in Nodes(q.store) : IsAbstract(t)} \cup q.sharedTerms
      equal == SelectSeq(q.equalities, LAMBDA t : Told(q, model, t))
      shared == SetToSeq({P \in q.shared : Told(q, model, EqualPair(P))})
  IN  FoldLeft(Branch, FoldLeft(Shared, FoldLeft(Merge, NewClosure(terms), equal), shared), q.ites)

SameArguments(q, model, c, l, r) ==
  l[2] = r[2] /\ \A i \in DOMAIN l[3] :
    IF Sort(l[3][i]) = "B" THEN Told(q, model, l[3][i]) = Told(q, model, r[3][i])
    ELSE Equivalent(c, l[3][i], r[3][i])

\* Mutant of CongruenceReason: Boolean arguments are left unexplained.
ReasonWithoutBooleans(q, model, c, l, r) ==
  UNION {Explain(c, l[3][i], r[3][i]) : i \in {j \in DOMAIN l[3] : Sort(l[3][j]) # "B"}}

CongruenceReason(q, model, c, l, r) ==
  UNION {IF Sort(l[3][i]) = "B"
         THEN {Signed(t, Told(q, model, t)) : t \in {l[3][i], r[3][i]}}
         ELSE Explain(c, l[3][i], r[3][i]) : i \in DOMAIN l[3]}

\* Mutant of LoweredConflict: the consequence is the value the result already has.
LoweredConflictKept(q, model, l, r, reason) ==
  IF Sort(r) = "I" \/ Told(q, model, l) = Told(q, model, r) THEN {}
  ELSE {ConflictLemma(reason, Signed(l, Told(q, model, l)))}

\* Mutant of LoweredConflict: integer results may differ.
LoweredConflictBooleanOnly(q, model, l, r, reason) ==
  IF Sort(r) = "I" \/ Told(q, model, l) = Told(q, model, r) THEN {}
  ELSE {ConflictLemma(reason \cup {Signed(r, Told(q, model, r))}, Signed(l, Told(q, model, r)))}

\* lowered_result_conflict: the clause that a congruence on a Boolean or integer
\* result violates, as a set of at most one clause.
LoweredConflict(q, model, l, r, reason) ==
  LET value == Told(q, model, r)
  IN  IF Sort(r) = "I"
      THEN (IF Told(q, model, Equal(l, r)) THEN {}
            ELSE {ConflictLemma(reason, Signed(Equal(l, r), TRUE))})
      ELSE (IF Told(q, model, l) = value THEN {}
            ELSE {ConflictLemma(reason \cup {Signed(r, value)}, Signed(l, value))})

\* The congruences still to be acted on: the later application and its
\* representative, the first relevant application with the same key.
Pending(q, model, c) ==
  {p \in {<<i, j>> \in (1..Len(q.apps)) \X (1..Len(q.apps)) : i < j} :
     LET l == q.apps[p[1]]  r == q.apps[p[2]]
     IN  /\ SameArguments(q, model, c, l, r)
         /\ \A k \in 1..(p[1] - 1) : ~SameArguments(q, model, c, q.apps[k], r)
         /\ IF IsAbstract(r) THEN ~Equivalent(c, l, r)
            ELSE LoweredConflict(q, model, l, r, {}) # {}}

\* Congruence closure: the closure when it completes, or the first lowered conflict.
RECURSIVE Congruence(_, _, _)
Congruence(q, model, c) ==
  LET Act(l, r, reason) ==
        IF IsAbstract(r) THEN Congruence(q, model, Union(c, l, r, reason))
        ELSE [closure |-> c, conflicts |-> LoweredConflict(q, model, l, r, reason)]
      On(l, r) == Act(l, r, CongruenceReason(q, model, c, l, r))
      First(p) == On(q.apps[p[1]], q.apps[p[2]])
      Step(pending) ==
        IF pending = {} THEN [closure |-> c, conflicts |-> {}]
        ELSE First(CHOOSE p \in pending : \A o \in pending : p[2] <= o[2])
  IN  Step(Pending(q, model, c))

\* Equalities the Boolean model denies although the closure derives them.
Denied(q, model, c) ==
  {[term |-> t, ends |-> t[2]] : t \in {x \in Range(q.equalities) : ~Told(q, model, x)}}
  \cup {[term |-> EqualPair(P), ends |-> P] :
          P \in {x \in q.shared : ~Told(q, model, EqualPair(x))}}

UfConflicts(q, model, c) ==
  {LET l == CHOOSE x \in d.ends : TRUE
       r == CHOOSE x \in d.ends : x # l
   IN  ConflictLemma(Explain(c, l, r), Signed(d.term, TRUE)) :
     d \in {x \in Denied(q, model, c) : \E k \in c.classes : x.ends \subseteq k}}

\* Mutant of UfCheck: axioms are trusted to be in the solver.
UfCheckTrusting(q, model) ==
  LET Denial(done) == IF done.conflicts # {} THEN done
                      ELSE [done EXCEPT !.conflicts = UfConflicts(q, model, done.closure)]
  IN  Denial(Congruence(q, model, Asserted(q, model)))

\* UfTheory.final_check: unmet axioms, then congruence, then denied equalities.
UfCheck(q, model) ==
  LET Unmet(axioms) == [closure |-> NewClosure({}), conflicts |-> {{Signed(axioms[1], TRUE)}}]
      Denial(done) == IF done.conflicts # {} THEN done
                      ELSE [done EXCEPT !.conflicts = UfConflicts(q, model, done.closure)]
      Check(unmet) == IF unmet # <<>> THEN Unmet(unmet)
                      ELSE Denial(Congruence(q, model, Asserted(q, model)))
  IN  Check(SelectSeq(q.store.axioms, LAMBDA t : ~Told(q, model, t)))

Selected(t, value) == IF value THEN t[3] ELSE t[4]

\* Integer models of the asserted predicates and selected branches.
Numbers(q, model) ==
  {n \in [q.variables -> 0..MaxInt] :
     /\ \A t \in q.predicates : (n[t[2]] <= n[t[3]]) = Told(q, model, t)
     /\ \A t \in q.aites : n[t] = n[Selected(t, Told(q, model, t[2]))]}

\* Mutant of ArithmeticConflict: the conditions of the selected branches are left out.
PredicatesConflict(q, model) == {Signed(t, ~Told(q, model, t)) : t \in q.predicates}

ArithmeticConflict(q, model) ==
  {Signed(t, ~Told(q, model, t)) : t \in q.predicates \cup {t[2] : t \in q.aites}}

\* validate_model: predicates, ites and roots against the candidate.
Validated(q, model, n) ==
  LET reached == ArithmeticRelevance(Reach(q.roots \cup q.required))
      Number(t) == IF t \in DOMAIN n THEN n[t] ELSE 0
  IN  /\ \A t \in {x \in reached : Kind(x) = "ite" /\ Sort(x) = "I"} :
           Number(t) = Number(Selected(t, Evaluate(t[2], model)))
      /\ \A t \in {x \in reached : Kind(x) = "le"} :
           Evaluate(t, model) = (Number(t[2]) <= Number(t[3]))
      /\ \A t \in q.roots : Evaluate(t, model)

\* TheoryManager.check_model and the validation of a consistent candidate.
CheckModel(q, model) ==
  LET Lemma(clauses) == [kind |-> "lemma", lemmas |-> clauses]
      Candidate(classes, n) == [kind |-> IF Validated(q, model, n) THEN "sat" ELSE "unknown",
                                classes |-> classes, numbers |-> n]
      Combine(uf, numbers) ==
        IF uf.conflicts # {} THEN Lemma(uf.conflicts)
        ELSE IF numbers = {} THEN Lemma({ArithmeticConflict(q, model)})
        ELSE Candidate(uf.closure.classes, CHOOSE n \in numbers : TRUE)
  IN  Combine(UfCheck(q, model), Numbers(q, model))

-----------------------------------------------------------------------------
(* The assertion commands and the refinement loop.                         *)

NoCheck == [kind |-> "none"]
Assertions == UNION Range(frames)
Named == {x \in Assertions : x.label # "none"}
Atoms(T) == {t \in Reach(T) : IsAtom(t)}

Satisfies(model, T) == \A t \in T : Evaluate(t, model)
Models(T, clauses) ==
  {m \in [encoded -> BOOLEAN] :
     /\ Satisfies(m, T)
     /\ \A c \in clauses : \E l \in c : Evaluate(l.term, m) = l.positive}

Init ==
  /\ client \in Families
  /\ store = [nodes |-> <<>>, axioms |-> <<>>]
  /\ frames = <<{}>>
  /\ encoded = {} /\ lemmas = {} /\ installed = 0
  /\ plan = NoPlan /\ phase = "idle" /\ candidate = NoModel
  /\ last = NoCheck /\ commands = 0

Command == /\ phase = "idle"
           /\ commands < client.commands /\ commands' = commands + 1
           /\ UNCHANGED <<client, candidate>>

\* Interning a user application discards the last check; the other builders do not.
Grown(T) ==
  LET st == InternAll(store, T)
      NewApplications == {t \in Nodes(st) \ Nodes(store) : Kind(t) = "app" /\ t[2] # "select"}
  IN  [store |-> st, last |-> IF NewApplications = {} THEN last ELSE NoCheck]

\* Context.apply, select, equal, ...: a term that is only built.
Build(t) ==
  /\ Command
  /\ t \notin Nodes(store)
  /\ \E g \in {Grown({t})} : store' = g.store /\ last' = g.last
  /\ UNCHANGED <<frames, encoded, lemmas, installed, plan, phase>>

\* Context.assert, and assert_named, which refuses a label in use.
AssertTerm(t, label) ==
  /\ Command
  /\ label = "none" \/ \A x \in Named : x.label # label
  /\ store' = InternAll(store, {t})
  /\ frames' = [frames EXCEPT ![Len(frames)] = @ \cup {[term |-> t, label |-> label]}]
  /\ encoded' = encoded \cup Atoms({t})
  /\ last' = NoCheck
  /\ UNCHANGED <<lemmas, installed, plan, phase>>

Push ==
  /\ Command
  /\ Len(frames) < MaxFrames
  /\ frames' = Append(frames, {})
  /\ last' = NoCheck
  /\ UNCHANGED <<store, encoded, lemmas, installed, plan, phase>>

Pop ==
  /\ Command
  /\ Len(frames) > 1
  /\ frames' = Front(frames)
  /\ last' = NoCheck
  /\ UNCHANGED <<store, encoded, lemmas, installed, plan, phase>>

\* A new solver and encoder; the term store and the theory manager stay.
ResetAssertions ==
  /\ Command
  /\ frames' = <<{}>>
  /\ encoded' = {} /\ lemmas' = {}
  /\ last' = NoCheck
  /\ UNCHANGED <<store, installed, plan, phase>>

\* check_assuming up to the loop: encode the assumptions, prepare, install the
\* axioms not yet installed, encode the required terms.
Check(users) ==
  /\ Command
  /\ \E st \in {InternAll(store, users)} :
     \E q \in {Prepare(st, users \cup {x.term : x \in Assertions})} :
     \E fresh \in {Range(SubSeq(q.store.axioms, installed + 1, Len(q.store.axioms)))} :
       /\ store' = q.store
       /\ plan' = q @@ [users |-> users]
       /\ lemmas' = lemmas \cup {{Signed(t, TRUE)} : t \in fresh}
       /\ installed' = Len(q.store.axioms)
       /\ encoded' = encoded \cup Atoms(users \cup q.required \cup fresh)
  /\ phase' = "solving"
  /\ UNCHANGED <<frames, last>>

Report(answer) ==
  /\ last' = answer @@ [roots |-> plan.roots]
  /\ phase' = "idle" /\ plan' = NoPlan /\ candidate' = NoModel
  /\ UNCHANGED <<client, store, frames, encoded, lemmas, installed, commands>>

\* The solver answers with a model of the clauses and the assumptions.
Propose ==
  /\ phase = "solving"
  /\ candidate' \in Models(plan.roots, lemmas)
  /\ phase' = "checking"
  /\ UNCHANGED <<client, store, frames, encoded, lemmas, installed, plan, last, commands>>

\* The solver answers unsat, with any failed assumptions that suffice: the core
\* keeps the labels among them.
ReportUnsat ==
  /\ phase = "solving"
  /\ Models(plan.roots, lemmas) = {}
  /\ \E core \in SUBSET {x.label : x \in Named}, users \in SUBSET plan.users :
       LET kept == {x.term : x \in {y \in Assertions : y.label \in core \cup {"none"}}} \cup users
       IN  Models(kept, lemmas) = {} /\ Report([kind |-> "unsat", kept |-> kept])

\* A work limit or an interruption ends the solver's call; what was learned stays.
GiveUp == phase = "solving" /\ Report([kind |-> "interrupted"])

\* The theories refute the candidate with a permanent lemma.
Refine ==
  /\ phase = "checking"
  /\ \E a \in {CheckModel(plan, candidate)} :
       /\ a.kind = "lemma"
       /\ \E c \in a.lemmas :
            /\ lemmas' = lemmas \cup {c}
            /\ encoded' = encoded \cup Atoms({l.term : l \in c})
  /\ phase' = "solving" /\ candidate' = NoModel
  /\ UNCHANGED <<client, store, frames, installed, plan, last, commands>>

\* The theories accept it, and validation decides between sat and unknown.
ReportModel ==
  /\ phase = "checking"
  /\ \E a \in {CheckModel(plan, candidate)} :
       /\ a.kind # "lemma"
       /\ Report([kind |-> a.kind, model |-> candidate, classes |-> a.classes,
                  numbers |-> a.numbers, apps |-> plan.apps])

Next ==
  \/ \E t \in client.built : Build(t)
  \/ \E t \in client.asserted, label \in AssertionNames \cup {"none"} : AssertTerm(t, label)
  \/ Push \/ Pop \/ ResetAssertions
  \/ \E users \in {{}} \cup {{t} : t \in client.asserted} : Check(users)
  \/ Propose \/ ReportUnsat \/ GiveUp \/ Refine \/ ReportModel

\* Weak fairness of the loop with its guard written out: some step of it is
\* possible whenever the phase is not "idle", and engine::solve takes it.
LoopRuns == []<>(phase = "idle") \/ []<><<phase # "idle">>_vars

Spec == Init /\ [][Next]_vars /\ LoopRuns

-----------------------------------------------------------------------------
(* Properties.                                                             *)

\* theory.rs:34, "A clause that is valid in a theory": every clause the loop adds
\* permanently, an installed axiom or a lemma with its explanation, holds in every
\* interpretation, so it may outlive the scope and the check that produced it.
LemmasValid ==
  [][\A c \in lemmas' \ lemmas :
       ~Satisfiable({IF l.positive THEN Not(l.term) ELSE l.term : l \in c}, client.values)]_vars

\* A check answers sat only if some interpretation of the sorts, functions and
\* arrays satisfies every active assertion and assumption.
SatRight == last.kind = "sat" => Satisfiable(last.roots, client.values)

\* A check answers unsat only if the unnamed assertions, the named ones in the
\* reported core and the reported failed assumptions have no common model.
UnsatRight == last.kind = "unsat" => ~Satisfiable(last.kept, client.values)

\* The model kept for get-value is one structure: relevant applications of one
\* function with equal arguments have equal results, and the classes of the
\* closure agree with the truth values of the equalities the solver decided.
ModelIsOneStructure ==
  last.kind = "sat" =>
    LET Valued(t) == IF Sort(t) = "B" THEN <<"b", Evaluate(t, last.model)>>
                     ELSE IF Sort(t) = "I" THEN <<"n", last.numbers[t]>>
                     ELSE <<"u", CHOOSE k \in last.classes : t \in k>>
        relevant == Range(last.apps)
    IN  /\ \A s, t \in relevant :
             (s[2] = t[2] /\ \A i \in DOMAIN s[3] : Valued(s[3][i]) = Valued(t[3][i]))
               => Valued(s) = Valued(t)
        /\ \A t \in {x \in Reach(last.roots) : Kind(x) = "eq"} :
             Evaluate(t, last.model) = (\E k \in last.classes : t[2] \subseteq k)

\* The validator never has to withdraw a candidate: the two theories constrain
\* every predicate and every selected branch that it inspects.
NeverWithdrawn == last.kind # "unknown"

\* Every check returns: each lemma excludes the Boolean model it was made from.
CheckReturns == (phase # "idle") ~> (phase = "idle")
=============================================================================
