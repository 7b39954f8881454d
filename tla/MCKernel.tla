------------------------------ MODULE MCKernel ------------------------------
(***************************************************************************)
(* Client programs for Kernel.                                             *)
(***************************************************************************)
EXTENDS Kernel

MCVar == 1 .. 4
MoreVar == 1 .. 5

AddOp(c) == [op |-> "add", clause |-> c]
PushOp == [op |-> "push"]
PopOp == [op |-> "pop"]
SolveOp(u) == [op |-> "solve", assume |-> u, limited |-> FALSE]
LimitedOp(u) == [op |-> "solve", assume |-> u, limited |-> TRUE]
Load(s) == [i \in 1 .. Len(s) |-> AddOp(s[i])]

\* Conflicts above level 2 with a jump to level 0 or 1, learned clauses over
\* three levels, and long clauses to delete, in satisfiable formulas.
SearchPrograms ==
  {Load(<<{1, 2, 3, 4}, {1, 2, 3, -4}>>) \o <<SolveOp(<< >>)>>,
   Load(<<{1, 2, 3}, {1, 2, -3}, {1, -2, 4}, {1, -2, -4}>>) \o <<SolveOp(<< >>)>>,
   Load(<<{1, 2, 3, 4}, {1, 2, 3, -4}, {1, -2, 3}, {-3, 2}, {-1, -3}, {-2, -3},
          {-1, 2, 4}>>) \o <<SolveOp(<< >>)>>}

\* Every program of four operations over a small formula, after a first clause
\* that claims the client's variables.
SmallOps == {AddOp({-1}), AddOp({1, 2}), AddOp({2, -2}), PushOp, PopOp,
             SolveOp(<< >>), SolveOp(<<-1, -2>>)}
AllPrograms == {<<AddOp({1, 2})>> \o p : p \in [1 .. 4 -> SmallOps]}

\* Queries that another thread or a work limit cuts short at any poll, over a
\* formula whose root conflict needs one decision to show, and what the client
\* may do next.
Stuck == Load(<<{1, 2}, {1, -2}, {-1, 3}, {-1, -3}>>)
InterruptPrograms ==
  {Stuck \o <<LimitedOp(<< >>)>> \o p :
     p \in [1 .. 3 -> {AddOp({2, 3}), PushOp, PopOp, SolveOp(<<3>>), LimitedOp(<<-2>>)}]}

\* Assumptions that fail only after conflicts, some of them implied by others;
\* and a conflict to learn from that lies between two other levels.
AssumingPrograms ==
  {Load(<<{1, 2, 3, 4}, {1, 2, 3, -4}>>) \o <<SolveOp(u)>> : u \in {<< >>, <<-3, 4, -2>>}} \cup
  {Load(<<{1, 2, 3}, {1, 2, -3}, {-1, 4}, {-2, -4, 3}>>) \o <<SolveOp(u), SolveOp(w)>> :
     u \in {<<1, 4>>, <<-1, -2>>, <<4, 1, 2, -3>>, <<-2, -4>>},
     w \in {<< >>, <<1, 4, -4>>, <<-3, -4, -2>>}}

\* Clauses that the root assignments falsify, before the first query and after.
FalsifiedPrograms ==
  {<<AddOp({1}), AddOp({-1}), SolveOp(<<2>>)>>,
   <<AddOp({-1}), SolveOp(<< >>), AddOp({1}), SolveOp(<<2>>), AddOp({2})>>,
   <<AddOp({1, 2}), SolveOp(<<-1>>), AddOp({-1}), AddOp({1, -2}), SolveOp(<< >>)>>}

ClientPrograms == FalsifiedPrograms \cup AllPrograms \cup InterruptPrograms \cup AssumingPrograms

\* An assumption that already holds opens an empty level, right below the level
\* of a conflict that does not need it.
EmptyLevelPrograms ==
  {Load(<<{-1, 2}, {3, 4, 5}, {3, 4, -5}>>) \o <<SolveOp(u)>> :
     u \in {<<1, 2>>, <<-3, 1, 2>>}}
=============================================================================
