------------------------------ MODULE Lowering ------------------------------
(***************************************************************************)
(* The proof side of the SMT front end: src/smt/proof.rs,                  *)
(* prove_boolean_unsat, which the session calls after an unsat answer to   *)
(* refute the assertions once more in a fresh solver.  Equality, functions *)
(* and arrays are reduced to class labels and finitely many axioms, and    *)
(* arithmetic to blocked assignments of its predicates.                    *)
(*                                                                         *)
(* The fresh solver is abstract: it labels one unknown after another, in   *)
(* every way that falsifies no formula, so its models are the complete     *)
(* labellings.  Labels of one sort are used in order: the formulas see     *)
(* only which of them are equal.  Bit-vector arguments behave as several   *)
(* Boolean ones and are left out, as are the solvers for linear arithmetic *)
(* (a search over 0..MaxInt here).                                         *)
(***************************************************************************)
EXTENDS Terms

CONSTANT Queries      \* records [roots, values]: assertions, and the top of the
                      \* U domain that decides them

VARIABLES
  query,              \* the assertions of the check that answered unsat
  terms,              \* Canonicalizer.abstract_terms: what gets a class label
  apps,               \* Canonicalizer.applications
  processed,          \* Canonicalizer.processed_array_selects
  formulas,           \* lowered roots and axioms
  labels,             \* the model the fresh solver is building
  phase

vars == <<query, terms, apps, processed, formulas, labels, phase>>

-----------------------------------------------------------------------------
(* What is reachable from the assertions.                                  *)

Source == UNION {Subterms(t) : t \in query.roots}

\* register_abstract: an ite denotes one of its branches and gets no label.
Registered(T) == {t \in T : IsAbstract(t) /\ Kind(t) # "ite"}
Applications(T) == {t \in T : Kind(t) = "app"}
Selects == {t \in apps : t[2] = "select"}
Arrays == {t \in terms : Sort(t) = "A"}

ArrayPairs == {P \in SUBSET Arrays : Cardinality(P) = 2}
Witness(P) == <<"witness", P>>
WitnessReads(P) == {Select(a, Witness(P)) : a \in P}

\* The reads that the value of one read depends on.
Expanded(r) ==
  LET a == r[3][1]
  IN  CASE Kind(a) = "store" -> {Select(a[2], r[3][2])}
        [] Kind(a) = "ite" -> {Select(a[3], r[3][2]), Select(a[4], r[3][2])}
        [] OTHER -> {}

-----------------------------------------------------------------------------
(* Lowering: axioms, class labels, and the value of a formula under them.  *)

\* A read of a written, constant or conditional array.
ArraySemantics(r) ==
  LET a == r[3][1]
      i == r[3][2]
  IN  CASE Kind(a) = "constarr" -> {Equal(r, a[2])}
        [] Kind(a) = "store" -> {Equal(r, Ite(Equal(a[3], i), a[4], Select(a[2], i)))}
        [] Kind(a) = "ite" -> {Equal(r, Ite(a[2], Select(a[3], i), Select(a[4], i)))}
        [] OTHER -> {}

Differ(P) == Not(<<"eq", WitnessReads(P)>>)
Extensionality(P) == Or({<<"eq", P>>, Differ(P)})

Congruence(l, r) ==
  Or({Not(And({Equal(l[3][i], r[3][i]) : i \in DOMAIN l[3]})), Equal(l, r)})

Axioms ==
  UNION {ArraySemantics(r) : r \in Selects}
  \cup {Extensionality(P) : P \in ArrayPairs}
  \cup {Congruence(x[1], x[2]) : x \in {y \in apps \X apps : y[1] # y[2] /\ y[1][2] = y[2][2]}}

\* Mutant of ClassWidth: rounded down.
ClassWidthDown(s) ==
  LET count == Cardinality({t \in terms : Sort(t) = s})
  IN  CHOOSE w \in 1..count + 1 : 2 ^ (w + 1) > count /\ (w = 1 \/ 2 ^ w <= count)

\* Enough bits for a class of its own for every registered term, and at least one.
ClassWidth(s) ==
  LET count == Cardinality({t \in terms : Sort(t) = s})
  IN  CHOOSE w \in 1..count + 1 : 2 ^ w >= count /\ (w = 1 \/ 2 ^ (w - 1) < count)

\* The class of a term and the truth of a formula, in a set: empty while a label
\* it depends on is missing.
RECURSIVE Value(_, _)
Value(t, m) ==
  LET Known(S) == {Value(x, m) : x \in S}
      Junction(S) == IF {FALSE} \in S THEN {FALSE} ELSE IF {} \in S THEN {} ELSE {TRUE}
      AllEqual(S) == IF {} \in S THEN {} ELSE {Cardinality(S) = 1}
  IN  CASE t = True -> {TRUE}
        [] t = False -> {FALSE}
        [] Kind(t) = "not" -> {~v : v \in Value(t[2], m)}
        [] Kind(t) = "and" -> Junction(Known(t[2]))
        [] Kind(t) = "eq" -> AllEqual(Known(t[2]))
        [] Kind(t) = "ite" -> UNION {Value(IF v THEN t[3] ELSE t[4], m) : v \in Value(t[2], m)}
        [] OTHER -> IF t \in DOMAIN m THEN {m[t]} ELSE {}

-----------------------------------------------------------------------------
(* Arithmetic: the predicates and the ites among integers, and whether the *)
(* values the solver gave to the predicates have a common solution.        *)

InFormulas == UNION {Subterms(f) : f \in formulas}
Predicates == {t \in InFormulas : Kind(t) = "le"}
Unknowns == terms \cup {t \in InFormulas : Kind(t) = "atom" \/ (Kind(t) = "app" /\ Sort(t) = "B")}
                  \cup Predicates
Numbers == {t \in InFormulas : Kind(t) = "num" \/ (Kind(t) = "app" /\ Sort(t) = "I")}

RECURSIVE Number(_, _)
Number(t, n) == IF Kind(t) = "ite" THEN Number(IF Value(t[2], labels) = {TRUE} THEN t[3] ELSE t[4], n)
                ELSE n[t]

\* arithmetic_constraints_unsat finds nothing.
Consistent ==
  \E n \in [Numbers -> 0..MaxInt] :
    \A p \in Predicates : labels[p] = (Number(p[2], n) <= Number(p[3], n))

-----------------------------------------------------------------------------
(* The replay.                                                             *)

Init ==
  /\ query \in Queries
  /\ terms = {} /\ apps = {} /\ processed = {} /\ formulas = {} /\ labels = << >>
  /\ phase = "convert"

\* Canonicalizer::convert, for every root.
Convert ==
  /\ phase = "convert" /\ phase' = "pairs"
  /\ terms' = Registered(Source)
  /\ apps' = Applications(Source)
  /\ UNCHANGED <<query, processed, formulas, labels>>

\* prepare_theory, first part: every pair of arrays is read where it may differ.
ReadPairs ==
  /\ phase = "pairs" /\ phase' = "expand"
  /\ \E reads \in {UNION {WitnessReads(P) : P \in ArrayPairs}} :
       /\ apps' = apps \cup reads
       /\ terms' = terms \cup reads \cup {Witness(P) : P \in ArrayPairs}
  /\ UNCHANGED <<query, processed, formulas, labels>>

\* prepare_theory, the loop.
ExpandReads ==
  /\ phase = "expand"
  /\ Selects \ processed # {}
  /\ \E new \in {UNION {Expanded(r) : r \in Selects \ processed}} :
       apps' = apps \cup new /\ terms' = terms \cup new
  /\ processed' = processed \cup Selects
  /\ UNCHANGED <<query, formulas, labels, phase>>

\* The roots and the axioms go to the fresh solver.
Install ==
  /\ phase = "expand" /\ phase' = "solving"
  /\ Selects \subseteq processed
  /\ formulas' = query.roots \cup Axioms
  /\ UNCHANGED <<query, terms, apps, processed, labels>>

\* The unknowns of the source come first, then reads of its indices.
Rank(t) == IF t \in Source THEN 0
           ELSE IF \E P \in ArrayPairs : Witness(P) \in Subterms(t) THEN 2 ELSE 1
Following(T) == CHOOSE t \in T : \A u \in T : Rank(t) <= Rank(u)

\* The labels of a sort that are in use, and the next one if the width has room.
LabelChoices(t) ==
  LET used == {labels[u] : u \in {x \in DOMAIN labels : Sort(x) = Sort(t)}}
  IN  IF Sort(t) = "B" THEN BOOLEAN
      ELSE {c \in 0..Cardinality(used) : c < 2 ^ ClassWidth(Sort(t))}

Label ==
  /\ phase = "solving"
  /\ Unknowns # DOMAIN labels
  /\ \E t \in {Following(Unknowns \ DOMAIN labels)} : \E c \in LabelChoices(t) :
       labels' = (t :> c) @@ labels
  /\ \A f \in formulas : Value(f, labels') # {FALSE}
  /\ UNCHANGED <<query, terms, apps, processed, formulas, phase>>

\* The model is blocked by a lemma over the values of all predicates, and the
\* solver goes on with its other models.
Block ==
  /\ phase = "solving" /\ phase' = "blocked"
  /\ Unknowns = DOMAIN labels
  /\ ~Consistent
  /\ UNCHANGED <<query, terms, apps, processed, formulas, labels>>

\* "fresh SMT proof replay unexpectedly found a model": there is no proof.
FindModel ==
  /\ phase = "solving" /\ phase' = "model"
  /\ Unknowns = DOMAIN labels
  /\ Consistent
  /\ UNCHANGED <<query, terms, apps, processed, formulas, labels>>

Next == Convert \/ ReadPairs \/ ExpandReads \/ Install \/ Label \/ Block \/ FindModel

Spec == Init /\ [][Next]_vars

-----------------------------------------------------------------------------
(* Properties.                                                             *)

\* An interpretation induces labels that fit and that satisfy every formula.
Represented(m) ==
  LET denoted(s) == {Meaning(t, m) : t \in {x \in terms : Sort(x) = s}}
      induced == [t \in Unknowns |-> Meaning(t, m)]
  IN  /\ \A s \in {"U", "A"} : Cardinality(denoted(s)) <= 2 ^ ClassWidth(s)
      /\ \A f \in formulas : Value(f, induced) = {TRUE}

\* docs/PROOF_CHECKING.md:104, "The resulting reduction is equisatisfiable": what is
\* installed keeps every model of the assertions, so that no proof refutes a
\* satisfiable query, and the solver finds no model when there is none, so that an
\* unsatisfiable query gets its proof.
ReductionExact ==
  /\ phase = "solving" /\ labels = << >> =>
       ~Modelled(query.roots, query.values, LAMBDA m : ~Represented(m))
  /\ phase = "model" => Satisfiable(query.roots, query.values)
=============================================================================
