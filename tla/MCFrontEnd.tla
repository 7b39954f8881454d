---------------------------- MODULE MCFrontEnd -----------------------------
(***************************************************************************)
(* Instances of the SMT front end: Session, which executes a script,       *)
(* Theories, which decides what is asserted, and Lowering, which refutes   *)
(* it once more for a proof.  They are three systems, and an initial state *)
(* picks the one that runs; the others stay where they began.              *)
(***************************************************************************)
EXTENDS Session, MCScripts, MCTerms

CONSTANTS Families, AssertionNames, MaxFrames, Queries

VARIABLES
  system,
  client, store, stack, encoded, lemmas, installed, plan, phase, candidate, answer, commands,
  query, terms, apps, processed, formulas, labels, replay

T == INSTANCE Theories WITH frames <- stack, last <- answer
L == INSTANCE Lowering WITH phase <- replay

theories == <<client, store, stack, encoded, lemmas, installed, plan, phase, candidate,
              answer, commands>>
lowering == <<query, terms, apps, processed, formulas, labels, replay>>

FrontInit ==
  /\ Init /\ T!Init /\ L!Init
  /\ system \in {"session", "theories", "lowering"}
  /\ system # "theories" => client = CHOOSE f \in Families : TRUE
  /\ system # "lowering" => query = CHOOSE q \in Queries : TRUE
FrontNext ==
  \/ system = "session" /\ Next /\ UNCHANGED <<system, theories, lowering>>
  \/ system = "theories" /\ T!Next /\ UNCHANGED <<system, vars, lowering>>
  \/ system = "lowering" /\ L!Next /\ UNCHANGED <<system, vars, theories>>
FrontSpec == FrontInit /\ [][FrontNext]_<<system, vars, theories, lowering>> /\ T!LoopRuns
-----------------------------------------------------------------------------
\* Sat only if the assertions have a model of the theories (Theories).
SatRight == T!SatRight

\* Unsat only if what the core names has none (Theories).
UnsatRight == T!UnsatRight

\* The model answered is one structure (Theories).
ModelIsOneStructure == T!ModelIsOneStructure

\* No candidate is withdrawn by the validator (Theories).
NeverWithdrawn == T!NeverWithdrawn

\* Lemmas hold in every structure and exclude the model they come from (Theories).
LemmasValid == T!LemmasValid

\* Every check returns (Theories).
CheckReturns == T!CheckReturns

\* The proof's reduction is equisatisfiable with the assertions (Lowering).
ReductionExact == L!ReductionExact
=============================================================================
