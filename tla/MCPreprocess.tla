---------------------------- MODULE MCPreprocess ----------------------------
(***************************************************************************)
(* Formulas for the preprocessing passes, and what the client does next.   *)
(***************************************************************************)
EXTENDS Preprocess

MCVar == 1 .. 6
MCExternal == 1 .. 5

AddOp(c) == [op |-> "add", clause |-> c]
SolveOp(A) == [op |-> "solve", assume |-> A]
Load(s) == [i \in DOMAIN s |-> AddOp(s[i])]

\* Clauses to probe, vivify, subsume, resolve and strengthen into each other,
\* over a unit that comes last and so leaves false literals in the store.
Mixed == Load(<<{1, 2, 3, -4}, {-1, 2, 3}, {2, 3, 4}, {-2, 3}, {-3, 4}, {-3, 4}, {-5}>>)
Late == Load(<<{1, 2, 3, 5}, {1, -2, 5}, {-1, 2, 5}, {2, -3, 4, 5}, {-5}>>)
Contradiction == Load(<<{1, 2}, {1, -2}, {-1, 3, 4}, {-1, -3, 4}, {-1, 3, -4}, {-1, -3, -4}>>)
Pure == Load(<<{1, 2, 3}, {-1, 2}, {-2, 3, 4}, {-4, 1}, {-1, 2, -3}>>)
\* Two literals that share three neighbours, and one clause besides.
Grid == Load(<<{1, 3}, {1, 4}, {1, 5}, {2, 3}, {2, 4}, {2, 5}, {-1, -2}>>)
\* ... where a false literal pads a clause of the grid.
Padded == Load(<<{1, 3}, {1, 4}, {1, 5}, {2, 3}, {2, 4}, {2, 5}, {2, 5}, {-1, -2}, {-3, -4}>>)

Formulas == {Mixed, Late, Contradiction, Pure, Grid, Padded}
Inprocessing == {"probe", "vivify", "subsume"}
Configs == {{"probe"}, {"vivify"}, {"subsume"}, {"eliminate"}, {"factor"}, Inprocessing,
            {"subsume", "eliminate", "factor"}, Inprocessing \cup {"eliminate", "factor"}}

\* Later clauses and assumptions, after one query.
After(c) ==
  IF "eliminate" \in c
  THEN {<<SolveOp({}), AddOp({-1})>>}
  ELSE {<<SolveOp({-2, 1}), AddOp({-1, -3}), SolveOp({3})>>}

MCScenarios ==
  UNION {[config: {c}, calls: {f \o p : f \in Formulas, p \in After(c)}] : c \in Configs}

\* A variable in one clause only, eliminated before its assumption is looked at.
AssumeScenarios ==
  {[config |-> {"eliminate"}, calls |-> Load(<<{1, 2}, {-2, 3}, {-3, 4}>>) \o <<SolveOp(A)>>] :
     A \in SUBSET {-1, -2, 3}}
=============================================================================
