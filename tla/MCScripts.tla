----------------------------- MODULE MCScripts ------------------------------
(***************************************************************************)
(* Commands for the instances of Session: scripts over two declared names, *)
(* a defined one and a label.                                              *)
(***************************************************************************)
EXTENDS Integers, Sequences

Unlabelled == "-"    \* NoLabel of Session
Yes(n) == [name |-> n, positive |-> TRUE]
No(n) == [name |-> n, positive |-> FALSE]

DeclareOp(n) == [op |-> "declare", name |-> n]
DefineOp(n, b) == [op |-> "define", name |-> n, body |-> b]
Item(b, l) == [body |-> b, label |-> l]
AssertIn(room, b, l) == [op |-> "assert", item |-> Item(b, l), room |-> room]
AssertOp(b, l) == AssertIn(20, b, l)
CheckIn(room, items) == [op |-> "check", items |-> items, room |-> room]
CheckOp(items) == CheckIn(20, items)
PushIn(room) == [op |-> "push", room |-> room]
ValueOp(items) == [op |-> "value", items |-> items]
SetOp(names) == [op |-> "set-option", names |-> names]
Op(o) == [op |-> o]

\* Names unknown until they are declared, complements, a definition, labels that
\* are used after and before they are given, and given twice.
MCCommands ==
  {Op("set-logic"), SetOp({"global-declarations"}), SetOp({"reproducible-resource-limit"}),
   SetOp({"produce-models", "produce-assignments", "produce-unsat-cores",
          "produce-unsat-assumptions"}),
   DeclareOp("x"), DeclareOp("y"), DefineOp("d", <<No("x"), Yes("y")>>),
   AssertOp(<<Yes("x"), Yes("y")>>, "l"), AssertOp(<<No("x")>>, Unlabelled),
   AssertOp(<<No("d")>>, "l"), CheckOp(<< >>),
   CheckOp(<<Item(<<No("y")>>, Unlabelled), Item(<<Yes("d")>>, Unlabelled)>>),
   CheckOp(<<Item(<<No("x"), No("y")>>, Unlabelled), Item(<<Yes("unknown")>>, Unlabelled)>>),
   CheckOp(<<Item(<<No("y"), Yes("x")>>, "l"), Item(<<No("l"), Yes("y")>>, "m")>>),
   ValueOp(<<Item(<<Yes("x"), No("y")>>, "l"), Item(<<No("l"), Yes("m")>>, Unlabelled)>>),
   ValueOp(<<Item(<<Yes("x"), No("y")>>, "m"), Item(<<No("d"), Yes("y")>>, Unlabelled)>>),
   Op("get-assignment"), Op("get-unsat-core"), Op("get-unsat-assumptions"),
   AssertIn(1, <<No("y"), Yes("x")>>, Unlabelled), AssertIn(0, <<Yes("y")>>, "l"),
   CheckIn(1, <<Item(<<Yes("y")>>, Unlabelled), Item(<<No("y"), Yes("x")>>, Unlabelled)>>),
   PushIn(1), PushIn(0), Op("pop"), Op("reset-assertions"), Op("reset")}

\* Scripts in which a labelled assertion runs out of variables after its term
\* got a literal.
FailureCommands ==
  {Op("set-logic"), DeclareOp("x"), DeclareOp("y"),
   AssertOp(<<Yes("x"), Yes("y")>>, Unlabelled), AssertIn(0, <<No("x")>>, "l"),
   AssertIn(1, <<No("x"), Yes("y")>>, "l"), AssertIn(3, <<Yes("x"), Yes("y")>>, "l"),
   AssertOp(<<No("x")>>, Unlabelled), AssertOp(<<No("y"), Yes("x")>>, Unlabelled), CheckOp(<< >>)}
=============================================================================
