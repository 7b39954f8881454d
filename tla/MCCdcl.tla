------------------------------- MODULE MCCdcl -------------------------------
(***************************************************************************)
(* Cdcl on three variables.  Deciding against both literals of {1, 2}      *)
(* makes the two long clauses collide, so that {1, 2} can be learned; with *)
(* the unit clauses the formula becomes unsatisfiable, and before that     *)
(* some assumptions fail.                                                  *)
(***************************************************************************)
EXTENDS Cdcl

MCVar == 1 .. 3
MCInputClauses == {{1, 2, 3}, {1, 2, -3}, {-1}, {-2}}
MCQueries == {<< <<-2>>, <<3>> >>, << <<3>>, <<-1, -2>> >>, << << >>, << >> >>}
=============================================================================
