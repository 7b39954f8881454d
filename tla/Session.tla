------------------------------ MODULE Session ------------------------------
(***************************************************************************)
(* struct Session of src/smt/session.rs: the commands of an SMT-LIB        *)
(* script over the scope stack, the hash-consed term store (TermStore,     *)
(* src/smt/term.rs), the cached encoding of terms as SAT literals          *)
(* (BoolEncoder, src/smt/encode.rs), the incremental solver with its       *)
(* activation literals, and the preceding check's result, which later      *)
(* commands inspect.  Sorts and theories are left out: terms are Boolean.  *)
(*                                                                         *)
(* A command either succeeds or is answered by an error and must then      *)
(* leave the session as it was.  An expression is a disjunction, given as  *)
(* the sequence of its members: a name and the sign it occurs with.        *)
(***************************************************************************)
EXTENDS Integers, SequencesExt, FiniteSetsExt

CONSTANTS
  Commands,           \* the commands a script is made of
  MaxCommands         \* the length of a script

VARIABLES
  nodes,              \* TermStore: the nodes, by term identifier
  encoder,            \* BoolEncoder: literals of terms and of symbols, truth
  solver,             \* variables, clauses, scope_selectors
  bindings,           \* the terms the visible names stand for
  frames,             \* the scope stack
  last,               \* last_check
  logic,              \* whether set-logic has been issued
  options,            \* the Boolean options that are on
  out, steps          \* the last response; commands executed

vars == <<nodes, encoder, solver, bindings, frames, last, logic, options, out, steps>>

NoLabel == "-"
None == [kind |-> "none"]
Answer(k) == [kind |-> k]
Unbound == [n \in {} |-> 0]                         \* the empty map
Put(f, k, x) == [n \in DOMAIN f \cup {k} |-> IF n = k THEN x ELSE f[n]]

\* What a command carries: names are strings, room is an amount of variables.
Members == [name : STRING, positive : BOOLEAN]
Items == [body : Seq(Members), label : STRING]
ASSUME CommandsTyped ==
  \A c \in Commands :
    /\ c.op \in {"declare", "define"} => c.name \in STRING
    /\ c.op = "define" => c.body \in Seq(Members)
    /\ c.op = "assert" => c.item \in Items
    /\ c.op \in {"check", "value"} => c.items \in Seq(Items)
    /\ c.op \in {"assert", "check", "push"} => c.room \in Nat
    /\ c.op = "set-option" => c.names \in SUBSET STRING

(***************************************************************************)
(* The term store.  Equal nodes get equal identifiers; complements and     *)
(* constants are simplified and nested disjunctions flattened on the way.  *)
(***************************************************************************)
TrueTerm == 1
FalseTerm == 2
EmptyStore == <<[op |-> "true"], [op |-> "false"]>>
NextSymbol(s) == Cardinality({i \in DOMAIN s : s[i].op = "atom"})

Interned(s, n) ==
  IF n \in Range(s) THEN [ok |-> TRUE, store |-> s, term |-> CHOOSE i \in DOMAIN s : s[i] = n]
  ELSE [ok |-> TRUE, store |-> Append(s, n), term |-> Len(s) + 1]

FreshAtom(s) == Interned(s, [op |-> "atom", symbol |-> NextSymbol(s)])

Negation(s, t) ==
  CASE t = TrueTerm -> [ok |-> TRUE, store |-> s, term |-> FalseTerm]
    [] t = FalseTerm -> [ok |-> TRUE, store |-> s, term |-> TrueTerm]
    [] s[t].op = "not" -> [ok |-> TRUE, store |-> s, term |-> s[t].arg]
    [] OTHER -> Interned(s, [op |-> "not", arg |-> t])

Junction(s, T) ==
  LET flat == UNION {IF s[t].op = "or" THEN s[t].args ELSE {t} : t \in T} \ {FalseTerm}
      complements == \E t \in flat : s[t].op = "not" /\ s[t].arg \in flat
  IN IF TrueTerm \in T \/ complements THEN [ok |-> TRUE, store |-> s, term |-> TrueTerm]
     ELSE IF flat = {} THEN [ok |-> TRUE, store |-> s, term |-> FalseTerm]
     ELSE IF Cardinality(flat) = 1
     THEN [ok |-> TRUE, store |-> s, term |-> CHOOSE t \in flat : TRUE]
     ELSE Interned(s, [op |-> "or", args |-> flat])

\* Mutant of RolledBack: back to the empty store.
RolledBackTooFar(checkpoint, s) == EmptyStore

\* checkpoint() and rollback(): the store as it was.
RolledBack(checkpoint, s) == checkpoint

\* parse_term: names are looked up from left to right; one unknown name is an
\* error, which leaves the terms built so far in the store.
Member(acc, b, m) ==
  IF ~ acc.ok \/ m.name \notin DOMAIN b
  THEN [ok |-> FALSE, store |-> acc.store, members |-> acc.members]
  ELSE LET n == IF m.positive THEN [store |-> acc.store, term |-> b[m.name]]
                ELSE Negation(acc.store, b[m.name])
       IN [ok |-> TRUE, store |-> n.store, members |-> acc.members \cup {n.term}]

Parsed(s, b, body) ==
  LET acc[k \in 0 .. Len(body)] ==
        IF k = 0 THEN [ok |-> TRUE, store |-> s, members |-> {}]
        ELSE Member(acc[k - 1], b, body[k])
      all == acc[Len(body)]
  IN IF all.ok THEN Junction(all.store, all.members)
     ELSE [ok |-> FALSE, store |-> all.store, term |-> 0]

Arguments(n) == CASE n.op = "not" -> {n.arg} [] n.op = "or" -> n.args [] OTHER -> {}
Within(s, t) ==
  LET below[i \in 0 .. Len(s)] == IF i = 0 THEN {} ELSE {i} \cup UNION {below[c] : c \in Arguments(s[i])}
  IN below[t]

(***************************************************************************)
(* The encoder.  Definitional clauses are permanent: no activation literal *)
(* guards them.  A variable may be refused at any point of the work.       *)
(***************************************************************************)
EmptyEncoder == [terms |-> Unbound, atoms |-> Unbound, truth |-> 0]
EmptySolver == [count |-> 0, clauses |-> {}, selectors |-> << >>]

\* Solver::new_variable (MAX_VARIABLES or memory leaves a command only so much
\* room for new variables) and add_encoding_clause.
NewVariable(w) ==
  IF ~ w.ok \/ w.room = 0 THEN [w EXCEPT !.ok = FALSE]
  ELSE [w EXCEPT !.solver.count = @ + 1, !.new = w.solver.count + 1, !.room = @ - 1]
Adding(w, C) == IF w.ok THEN [w EXCEPT !.solver.clauses = @ \cup C] ELSE w

TermIs(w, i, l) ==
  IF w.ok THEN [w EXCEPT !.encoder.terms = Put(@, i, l)] ELSE w

TruthIs(w, v) == [w EXCEPT !.encoder.truth = v]
AtomIs(w, symbol, v) == [w EXCEPT !.encoder.atoms = Put(@, symbol, v)]

\* True and false are the two literals of one variable, fixed by a unit clause.
EncodeTruth(w, i, sign) ==
  IF w.encoder.truth # 0 THEN TermIs(w, i, sign * w.encoder.truth)
  ELSE LET v == NewVariable(w)
       IN IF v.ok THEN TermIs(TruthIs(Adding(v, {{v.new}}), v.new), i, sign * v.new) ELSE v

EncodeAtom(w, i, symbol) ==
  IF symbol \in DOMAIN w.encoder.atoms THEN TermIs(w, i, w.encoder.atoms[symbol])
  ELSE LET a == NewVariable(w)
       IN IF a.ok THEN TermIs(AtomIs(a, symbol, a.new), i, a.new) ELSE a

\* Mutant of EncodeOr: the literal implies its members, not the other way round.
EncodeOrOneWay(w, i, L) ==
  LET o == NewVariable(w)
  IN TermIs(Adding(o, {{-o.new} \cup L}), i, o.new)

EncodeOr(w, i, L) ==
  LET o == NewVariable(w)
  IN TermIs(Adding(o, {{-l, o.new} : l \in L} \cup {{-o.new} \cup L}), i, o.new)

EncodeNode(s, w, i) ==
  IF ~ w.ok \/ i \in DOMAIN w.encoder.terms THEN w
  ELSE CASE s[i].op = "true" -> EncodeTruth(w, i, 1)
         [] s[i].op = "false" -> EncodeTruth(w, i, -1)
         [] s[i].op = "atom" -> EncodeAtom(w, i, s[i].symbol)
         [] s[i].op = "not" -> TermIs(w, i, -w.encoder.terms[s[i].arg])
         [] s[i].op = "or" -> EncodeOr(w, i, {w.encoder.terms[t] : t \in s[i].args})

\* BoolEncoder::encode: the subterms that have no literal yet, innermost first.
Encoded(s, w, t) ==
  LET inner == Within(s, t)
      acc[i \in 0 .. Len(s)] ==
        IF i = 0 THEN w
        ELSE IF i \in inner THEN EncodeNode(s, acc[i - 1], i) ELSE acc[i - 1]
  IN acc[Len(s)]

EncodedAll(s, w, terms) ==
  LET acc[k \in 0 .. Len(terms)] == IF k = 0 THEN w ELSE Encoded(s, acc[k - 1], terms[k])
  IN acc[Len(terms)]

Work(c) == [ok |-> TRUE, new |-> 0, room |-> c.room, encoder |-> encoder, solver |-> solver]

\* Mutant of Guarded: a clause belongs to every scope.
Unguarded(c) == c

\* try_add_clause: the innermost scope guards the clause.
Guarded(c) == c \cup (IF solver.selectors = << >> THEN {} ELSE {-Last(solver.selectors)})

(***************************************************************************)
(* Names.  A declaration belongs to the innermost scope, or to the base    *)
(* scope when declarations are global.                                     *)
(***************************************************************************)
EmptyFrame == [bound |-> {}, labels |-> {}, named |-> {}, asserted |-> {}]
DeclarationFrame == IF "global-declarations" \in options THEN 1 ELSE Len(frames)
IsFresh(name) == name \notin DOMAIN bindings
Bound(f, at, name) == [f EXCEPT ![at].bound = @ \cup {name}]

Labels(items) == {it.label : it \in Range(items)} \ {NoLabel}

\* prepare_inline_definitions: the labels of annotated terms, all new, are bound
\* one after the other before the command runs (a term may use the labels before
\* it); then the command parses its terms, without the annotations.
NewLabels(items) ==
  /\ Labels(items) \cap DOMAIN bindings = {}
  /\ \A i, j \in DOMAIN items : items[i].label = items[j].label => i = j \/ items[i].label = NoLabel

BindLabel(acc, it) ==
  LET p == Parsed(acc.store, acc.bindings, it.body)
      ok == acc.ok /\ p.ok
  IN IF it.label = NoLabel THEN acc
     ELSE [ok |-> ok, store |-> p.store,
           bindings |-> IF ok THEN Put(acc.bindings, it.label, p.term) ELSE acc.bindings]

Prepared(items) ==
  LET acc[k \in 0 .. Len(items)] ==
        IF k = 0 THEN [ok |-> NewLabels(items), store |-> nodes, bindings |-> bindings]
        ELSE BindLabel(acc[k - 1], items[k])
  IN acc[Len(items)]

ParseItem(acc, b, it) ==
  LET p == Parsed(acc.store, b, it.body)
  IN [ok |-> acc.ok /\ p.ok, store |-> p.store, terms |-> Append(acc.terms, p.term)]

ParsedAll(items) ==
  LET prep == Prepared(items)
      acc[k \in 0 .. Len(items)] ==
        IF k = 0 THEN [ok |-> prep.ok, store |-> prep.store, terms |-> << >>]
        ELSE ParseItem(acc[k - 1], prep.bindings, items[k])
      all == acc[Len(items)]
  IN [ok |-> all.ok, prepared |-> prep.store, store |-> all.store,
      bindings |-> prep.bindings, terms |-> all.terms]

\* commit_inline_definitions: every label belongs to a scope; it names a term.
Labelled(f, items, b) ==
  LET new == Labels(items)
  IN [f EXCEPT ![DeclarationFrame].bound = @ \cup new,
               ![DeclarationFrame].labels = @ \cup {[name |-> n, term |-> b[n]] : n \in new}]

\* Mutant of WithoutInline: the labels stay bound.
KeepsInline(b, items) == b

\* rollback_inline_definitions: only the labels this command bound.
WithoutInline(b, items) ==
  [n \in {k \in DOMAIN b : k \in DOMAIN bindings \/ k \notin Labels(items)} |-> b[n]]

\* A command that is refused undoes its labels and its terms.
Refused(t, items) ==
  /\ nodes' = RolledBack(nodes, t.store)
  /\ bindings' = WithoutInline(t.bindings, items)
\* A query or an assertion that cannot be encoded: what was encoded of it stays,
\* its terms go only if labels began a transaction.
HalfEncoded(t, w, items) ==
  /\ nodes' = IF Labels(items) = {} THEN t.store ELSE RolledBack(nodes, t.store)
  /\ bindings' = WithoutInline(t.bindings, items)
  /\ encoder' = w.encoder /\ solver' = w.solver
  /\ out' = Answer("error") /\ UNCHANGED <<frames, last>>
Rejected == out' = Answer("error") /\ UNCHANGED <<encoder, solver, frames, last>>
InvalidateCheck == last' = None

(***************************************************************************)
(* The commands.                                                           *)
(***************************************************************************)
Declare(c) ==
  /\ c.op = "declare"
  /\ LET a == FreshAtom(nodes)
     IN IF IsFresh(c.name)
        THEN /\ nodes' = a.store
             /\ bindings' = Put(bindings, c.name, a.term)
             /\ frames' = Bound(frames, DeclarationFrame, c.name)
             /\ InvalidateCheck /\ out' = Answer("success")
             /\ UNCHANGED <<encoder, solver>>
        ELSE nodes' = RolledBack(nodes, a.store) /\ Rejected /\ UNCHANGED bindings
  /\ UNCHANGED <<logic, options>>

DefineFun(c) ==
  /\ c.op = "define"
  /\ LET p == Parsed(nodes, bindings, c.body)
     IN IF p.ok /\ IsFresh(c.name)
        THEN /\ nodes' = p.store
             /\ bindings' = Put(bindings, c.name, p.term)
             /\ frames' = Bound(frames, DeclarationFrame, c.name)
             /\ InvalidateCheck /\ out' = Answer("success")
             /\ UNCHANGED <<encoder, solver>>
        ELSE nodes' = RolledBack(nodes, p.store) /\ Rejected /\ UNCHANGED bindings
  /\ UNCHANGED <<logic, options>>

\* A named assertion holds under a selector of its own.
IsNamed(c) == c.item.label # NoLabel
AssertWork(c, t) ==
  IF ~ t.ok THEN Work(c)
  ELSE IF IsNamed(c) THEN NewVariable(Encoded(t.store, Work(c), t.terms[1]))
  ELSE Encoded(t.store, Work(c), t.terms[1])
Clause(c, t, w) ==
  Guarded({w.encoder.terms[t.terms[1]]} \cup IF IsNamed(c) THEN {-w.new} ELSE {})
Entered(c, t, w) ==
  LET top == frames[Len(frames)]
      name == [name |-> c.item.label, selector |-> w.new]
  IN [frames EXCEPT ![Len(frames)] =
       [top EXCEPT !.asserted = @ \cup {[term |-> t.terms[1], label |-> c.item.label]},
                   !.named = @ \cup IF IsNamed(c) THEN {name} ELSE {}]]

Asserted(c, t, w) ==
  /\ nodes' = t.store /\ encoder' = w.encoder /\ bindings' = t.bindings
  /\ solver' = [w.solver EXCEPT !.clauses = @ \cup {Clause(c, t, w)}]
  /\ frames' = Labelled(Entered(c, t, w), <<c.item>>, t.bindings)
  /\ InvalidateCheck /\ out' = Answer("success")

AssertTerm(c) ==
  /\ c.op = "assert"
  /\ \E t \in {ParsedAll(<<c.item>>)} :
     \E w \in {AssertWork(c, t)} :
       \/ t.ok /\ w.ok /\ Asserted(c, t, w)
       \/ t.ok /\ ~ w.ok /\ HalfEncoded(t, w, <<c.item>>)
       \/ ~ t.ok /\ Refused(t, <<c.item>>) /\ Rejected
  /\ UNCHANGED <<logic, options>>

Push(c) ==
  /\ c.op = "push"
  /\ IF c.room > 0
     THEN /\ solver' = [solver EXCEPT !.count = @ + 1, !.selectors = Append(@, solver.count + 1)]
          /\ frames' = Append(frames, EmptyFrame)
          /\ InvalidateCheck /\ out' = Answer("success")
          /\ UNCHANGED encoder
     ELSE Rejected
  /\ UNCHANGED <<nodes, bindings, logic, options>>

Pop(c) ==
  /\ c.op = "pop"
  /\ IF Len(frames) > 1
     THEN /\ solver' = [solver EXCEPT !.clauses = @ \cup {{-Last(solver.selectors)}},
                                      !.selectors = Front(@)]
          /\ bindings' = [n \in DOMAIN bindings \ Last(frames).bound |-> bindings[n]]
          /\ frames' = Front(frames)
          /\ InvalidateCheck /\ out' = Answer("success")
          /\ UNCHANGED encoder
     ELSE Rejected /\ UNCHANGED bindings
  /\ UNCHANGED <<nodes, logic, options>>

\* What the solver is asked, and what it may answer (Cdcl, Kernel).
Holds(m, l) == IF l > 0 THEN l \in m ELSE -l \notin m
ModelsUnder(sv, A) ==
  {m \in SUBSET (1 .. sv.count) : /\ \A k \in sv.clauses : \E l \in k : Holds(m, l)
                                  /\ \A l \in A \cup Range(sv.selectors) : Holds(m, l)}

NamedAssertions == UNION {frames[i].named : i \in DOMAIN frames}

\* run_check assumes the selectors of the named assertions as well.
Answered(w, assumed) ==
  \E query \in {{n.selector : n \in NamedAssertions} \cup {w.encoder.terms[t] : t \in assumed}} :
    \/ \E m \in ModelsUnder(w.solver, query) :
         /\ last' = [kind |-> "sat", assumed |-> assumed,
                     model |-> {a \in DOMAIN w.encoder.atoms : Holds(m, w.encoder.atoms[a])}]
         /\ out' = Answer("sat")
    \/ /\ ModelsUnder(w.solver, query) = {}
       /\ \E failed \in SUBSET query :
            /\ ModelsUnder(w.solver, failed) = {}
            /\ last' = [kind |-> "unsat", assumed |-> {t \in assumed : w.encoder.terms[t] \in failed},
                        core |-> {n.name : n \in {k \in NamedAssertions : k.selector \in failed}}]
       /\ out' = Answer("unsat")
    \/ /\ "reproducible-resource-limit" \in options
       /\ last' = [kind |-> "unknown", model |-> {}]
       /\ out' = Answer("unknown")

\* check_sat_assuming parses all of its assumptions before it encodes one.
CheckSat(c) ==
  /\ c.op = "check"
  /\ \E t \in {ParsedAll(c.items)} :
     \E w \in {IF t.ok THEN EncodedAll(t.store, Work(c), t.terms)
               ELSE Work(c)} :
       \/ /\ t.ok /\ w.ok
          /\ nodes' = t.store /\ encoder' = w.encoder /\ solver' = w.solver
          /\ bindings' = t.bindings /\ frames' = Labelled(frames, c.items, t.bindings)
          /\ Answered(w, Range(t.terms))
       \/ t.ok /\ ~ w.ok /\ HalfEncoded(t, w, c.items)
       \/ ~ t.ok /\ Refused(t, c.items) /\ Rejected
  /\ UNCHANGED <<logic, options>>

TrueIn(s, t, symbols) ==
  LET value[i \in 0 .. Len(s)] ==
        CASE i = 0 \/ i = FalseTerm -> FALSE
          [] i = TrueTerm -> TRUE
          [] i > 2 /\ s[i].op = "atom" -> s[i].symbol \in symbols
          [] i > 2 /\ s[i].op = "not" -> ~ value[s[i].arg]
          [] i > 2 /\ s[i].op = "or" -> \E a \in s[i].args : value[a]
  IN value[t]

\* sat_model and the unsat result, and the options that let a script ask for them.
HasModel(option) == option \in options /\ last.kind \in {"sat", "unknown"}
Refuted(option) == option \in options /\ last.kind = "unsat"

\* get-value: the terms it parses do not outlive it, those of its labels do.
GetValue(c) ==
  /\ c.op = "value"
  /\ \E t \in {ParsedAll(c.items)} :
        IF t.ok /\ HasModel("produce-models")
        THEN /\ nodes' = RolledBack(t.prepared, t.store)
             /\ bindings' = t.bindings
             /\ frames' = Labelled(frames, c.items, t.bindings)
             /\ out' = [kind |-> "values", values |-> [i \in DOMAIN t.terms |-> TrueIn(t.store, t.terms[i], last.model)]]
             /\ UNCHANGED <<encoder, solver, last>>
        ELSE Refused(t, c.items) /\ Rejected
  /\ UNCHANGED <<logic, options>>

\* The commands that only read: each needs its option and its kind of result.
Inspect(c) ==
  /\ c.op \in {"get-assignment", "get-unsat-core", "get-unsat-assumptions"}
  /\ out' = CASE c.op = "get-assignment" /\ HasModel("produce-assignments") ->
                   [kind |-> "assignment",
                    pairs |-> {<<l.name, TrueIn(nodes, l.term, last.model)>> :
                                 l \in UNION {frames[i].labels : i \in DOMAIN frames}}]
              [] c.op = "get-unsat-core" /\ Refuted("produce-unsat-cores") ->
                    [kind |-> "core", core |-> last.core]
              [] c.op = "get-unsat-assumptions" /\ Refuted("produce-unsat-assumptions") ->
                   [kind |-> "assumptions", assumed |-> last.assumed]
              [] OTHER -> Answer("error")
  /\ UNCHANGED <<nodes, encoder, solver, bindings, frames, last, logic, options>>

\* reset-assertions: a new solver, with a new encoder, over the old terms or none.
ResetAssertions(c) ==
  /\ c.op = "reset-assertions"
  /\ IF "global-declarations" \in options
     THEN /\ frames' = <<[EmptyFrame EXCEPT !.bound = DOMAIN bindings,
                                            !.labels = UNION {frames[i].labels : i \in DOMAIN frames}]>>
          /\ UNCHANGED <<nodes, bindings>>
     ELSE frames' = <<EmptyFrame>> /\ nodes' = EmptyStore /\ bindings' = Unbound
  /\ solver' = EmptySolver /\ encoder' = EmptyEncoder
  /\ InvalidateCheck /\ out' = Answer("success")
  /\ UNCHANGED <<logic, options>>

\* What reset leaves is what Session::new begins with; options go back too.
Reset(c) ==
  /\ c.op = "reset"
  /\ nodes' = EmptyStore /\ encoder' = EmptyEncoder /\ solver' = EmptySolver
  /\ bindings' = Unbound /\ frames' = <<EmptyFrame>> /\ last' = None
  /\ logic' = FALSE /\ options' = {} /\ out' = Answer("success")

\* set-logic once; the options of the start mode only before it (a command
\* stands for setting several of them in a row).
Configure(c) ==
  /\ \/ /\ c.op = "set-logic"
        /\ logic' = TRUE /\ UNCHANGED options
        /\ out' = Answer(IF logic THEN "error" ELSE "success")
     \/ /\ c.op = "set-option"
        /\ IF logic /\ c.names # {"reproducible-resource-limit"}
           THEN out' = Answer("error") /\ UNCHANGED options
           ELSE options' = options \cup c.names /\ out' = Answer("success")
        /\ UNCHANGED logic
  /\ UNCHANGED <<nodes, encoder, solver, bindings, frames, last>>

Init ==
  /\ nodes = EmptyStore /\ encoder = EmptyEncoder /\ solver = EmptySolver
  /\ bindings = Unbound /\ frames = <<EmptyFrame>> /\ last = None
  /\ logic = FALSE /\ options = {} /\ out = Answer("none") /\ steps = 0

\* execute: without a logic only the configuration commands get anywhere.
NeedsLogic(c) == c.op \notin {"set-logic", "set-option", "reset", "reset-assertions"}
Execute(c) ==
  IF NeedsLogic(c) /\ ~ logic
  THEN Rejected /\ UNCHANGED <<nodes, bindings, logic, options>>
  ELSE \/ Configure(c) \/ Declare(c) \/ DefineFun(c) \/ AssertTerm(c) \/ Push(c) \/ Pop(c)
       \/ CheckSat(c) \/ GetValue(c) \/ Inspect(c) \/ ResetAssertions(c) \/ Reset(c)

Next == /\ steps < MaxCommands /\ steps' = steps + 1
        /\ \E c \in Commands : Execute(c)

Spec == Init /\ [][Next]_vars

-----------------------------------------------------------------------------
\* The three stacks stand together: every scope has its activation literal,
\* and the visible names are those the frames bind, each bound once.
ScopesAgree ==
  /\ Len(frames) = Len(solver.selectors) + 1
  /\ DOMAIN bindings = UNION {frames[i].bound : i \in DOMAIN frames}
  /\ \A i, j \in DOMAIN frames : i # j => frames[i].bound \cap frames[j].bound = {}
  /\ \A i \in DOMAIN frames : \A l \in frames[i].labels : bindings[l.name] = l.term

Permanent == ModelsUnder([solver EXCEPT !.selectors = << >>], {})
SymbolsIn(m) == {a \in DOMAIN encoder.atoms : Holds(m, encoder.atoms[a])}

\* A cached literal means its term: in every model of the solver's clauses it
\* is true exactly if the term is (the caches of BoolEncoder against the store
\* they outlive commands, scopes and rollbacks with).
CacheMeansTerm ==
  /\ DOMAIN encoder.terms \subseteq DOMAIN nodes
  /\ \A m \in Permanent : \A i \in DOMAIN encoder.terms :
       Holds(m, encoder.terms[i]) = TrueIn(nodes, i, SymbolsIn(m))

AssertedTerms == UNION {frames[i].asserted : i \in DOMAIN frames}
Symbols == {nodes[i].symbol : i \in {j \in DOMAIN nodes : nodes[j].op = "atom"}}
Unsatisfiable(T) == \A a \in SUBSET Symbols : \E t \in T : ~ TrueIn(nodes, t, a)

\* The preceding result is about the current assertion stack: its model makes
\* every assertion true, its core and failed assumptions refute the stack
\* (what get-value and get-unsat-core answer from, whatever came in between).
LastCheckRight ==
  /\ last.kind = "sat" =>
       \A t \in {a.term : a \in AssertedTerms} \cup last.assumed : TrueIn(nodes, t, last.model)
  /\ last.kind = "unsat" =>
       Unsatisfiable({a.term : a \in {k \in AssertedTerms : k.label \in last.core \cup {NoLabel}}}
                       \cup last.assumed)

\* A command answered by an error changes nothing a later command can see: no
\* name, scope, assertion, label, result or option, and no term that was there
\* (the transactional boundary of docs/SMT_LIB.md).
RejectedChangesNothing ==
  [][out'.kind = "error" =>
       /\ UNCHANGED <<bindings, frames, last, logic, options>>
       /\ solver'.selectors = solver.selectors
       /\ Len(nodes') >= Len(nodes) /\ SubSeq(nodes', 1, Len(nodes)) = nodes]_vars
=============================================================================
