-------------------------------- MODULE Cnf --------------------------------
(***************************************************************************)
(* Propositional formulas in conjunctive normal form, as the solver sees   *)
(* them.  A literal is a nonzero integer in DIMACS form: v for the         *)
(* variable v, -v for its complement (Lit::to_dimacs, src/types.rs).  The  *)
(* packed 2v/2v+1 encoding of the code is only an index into tables, so a  *)
(* signed integer keeps everything the solver tells apart.  A clause is    *)
(* the set of its literals: order and duplicates are a matter of storage.  *)
(***************************************************************************)
EXTENDS Integers

CONSTANT Var            \* the variable identifiers, one-based as in DIMACS

ASSUME VarAssumption == Var \subseteq Nat \ {0}

Neg(l) == -l                                        \* impl Not for Lit
VarOf(l) == IF l > 0 THEN l ELSE -l                 \* Lit::var
Lit == Var \cup {-v : v \in Var}
Clause == SUBSET Lit

(***************************************************************************)
(* A model is the set of the literals it makes true: exactly one of each   *)
(* complementary pair (struct Model holds one Boolean per variable).       *)
(***************************************************************************)
Model == {m \in SUBSET Lit : \A v \in Var : (v \in m) # (-v \in m)}

Satisfies(m, F) == \A c \in F : c \cap m # {}

Entails(F, c) == \A m \in Model : Satisfies(m, F) => c \cap m # {}

\* The formula F together with the literals of the set A has no model.
Refutes(F, A) == \A m \in Model : ~ (Satisfies(m, F) /\ A \subseteq m)

Tautology(c) == \E l \in c : Neg(l) \in c
=============================================================================
