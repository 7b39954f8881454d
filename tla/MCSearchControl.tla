-------------------------- MODULE MCSearchControl ---------------------------
(***************************************************************************)
(* Instances of the parts of the solver that steer its search: Branching,  *)
(* which says what is decided next, Schedule, which says when to restart,  *)
(* and Storage, which says what is kept.  They are three systems, each     *)
(* with its own conflicts; an initial state picks the one that runs, and   *)
(* the others stay where they began.                                       *)
(***************************************************************************)
EXTENDS Storage, Branching

CONSTANTS
  Policies, RestartBase, Window, TrailWindow, BlockFrom, ModeConflicts, Period, Ceiling,
  ProbeConflicts, Warmup, Probe, Exploit

VARIABLES
  system,
  policy, counted, propagations, restarts, since, index, limit, lbd, depth, hybrid,
  reluctant, probeOver, transfer, adaptive, pending, reloads, observed, depths

Analyses == [evsids |-> 2, vmtf |-> 2, lrb |-> 2, chb |-> 2, transfer |-> 1,
             focused_stable |-> 2, probe_evsids |-> 2]
Bound == [luby |-> 24, lbd |-> 7, blocking |-> 7, focused |-> 8, focused_stable |-> 12,
          probe |-> 12, transfer |-> 16, adaptive |-> 6]

\* Observed clauses and voting samples exclude compaction.
AllConfigs == [policy : {"usage", "classic", "tiered", "debt", "nonregular"}, compact : {TRUE}]
              \cup [policy : {"shadow", "voting"}, compact : {FALSE}]
Conflicts == [usage |-> 4, classic |-> 3, tiered |-> 3, debt |-> 3, nonregular |-> 3,
              shadow |-> 4, voting |-> 4]
Reductions == [usage |-> 2, classic |-> 1, tiered |-> 1, debt |-> 1, nonregular |-> 1,
               shadow |-> 2, voting |-> 2]
Sizes == [p \in DOMAIN Conflicts |-> IF p \in {"usage", "debt"} THEN {3, 4} ELSE {3}]

S == INSTANCE Schedule WITH conflicts <- counted, probed <- probeOver
schedule  == <<policy, counted, propagations, restarts, since, index, limit, lbd, depth, hybrid,
               reluctant, probeOver, transfer, adaptive, pending, reloads, observed, depths>>

MCInit ==
  /\ BranchingInit /\ S!Init /\ Init
  /\ \/ system = "branching" /\ policy = "luby" /\ config.policy = "usage" /\ clauses[1].len = 3
     \/ system = "schedule" /\ strategy = "vmtf" /\ config.policy = "usage" /\ clauses[1].len = 3
     \/ system = "storage" /\ policy = "luby" /\ strategy = "vmtf"
MCNext ==
  \/ system = "branching" /\ BranchingNext /\ UNCHANGED <<system, schedule, vars>>
  \/ system = "schedule" /\ S!Next /\ UNCHANGED <<system, branching, vars>>
  \/ system = "storage" /\ Next /\ UNCHANGED <<system, branching, schedule>>
MCSpec == MCInit /\ [][MCNext]_<<system, branching, schedule, vars>>
-----------------------------------------------------------------------------
\* Both restart schedules follow the Luby sequence (Schedule).
SpacingIsLuby == S!SpacingIsLuby

\* The running sums of the restart windows are exact (Schedule).
WindowsExact == S!WindowsExact
=============================================================================
