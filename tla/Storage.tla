------------------------------ MODULE Storage -------------------------------
(***************************************************************************)
(* Long clauses in memory (solver.rs): the arena of literals, the clauses  *)
(* that point into it, their accounts of use, the reductions that choose   *)
(* what to delete, the compaction that moves the rest, the clauses that    *)
(* are kept under observation, the sample of deleted clauses that votes on *)
(* phases, and the sketch of a derivation's pivots.                        *)
(*                                                                         *)
(* A literal of the arena is a name, 10 * clause + place, so that reading  *)
(* another clause shows.  Which clauses are used, scanned and locked as    *)
(* reasons is left open.  Binary clauses are in a store of their own that  *)
(* no reduction touches: left out.                                         *)
(***************************************************************************)
EXTENDS Integers, FiniteSets, SequencesExt

CONSTANTS
  Configs,         \* configurations: policy, and whether the arena is compacted,
                   \* which Solver::with_config refuses with "shadow" and "voting"
  Lengths,         \* for each policy, lengths of clauses
  Lbds,            \* literal block distances of learned clauses
  Pivot,           \* variables resolved on, by rank
  Sketch,          \* PIVOT_SAMPLE_CAPACITY
  Capacity,        \* SHADOW_CAPACITY and COUNTERFACTUAL_PHASE_CAPACITY
  Observation,     \* SHADOW_OBSERVATION_CONFLICTS
  MaxUse,          \* bound on accounts of use
  MaxLearned, MaxReductions   \* for each policy, bounds on conflicts and reductions

\* Long clauses have three literals or more; Solver::with_config refuses what
\* Configs excludes; variables have ranks.
ASSUME StorageAssumption ==
  /\ \A c \in Configs : /\ c.compact \in BOOLEAN
                        /\ c.policy \in {"shadow", "voting"} => ~c.compact
                        /\ Lengths[c.policy] \subseteq {n \in Nat : n >= 3}
  /\ Lbds \subseteq Nat /\ Pivot \subseteq Nat
  /\ Sketch \in Nat /\ Capacity \in Nat \ {0} /\ Observation \in Nat /\ MaxUse \in Nat

VARIABLES
  config,
  arena, clauses,        \* clause_arena and clauses
  garbage,               \* arena_garbage_literals, _clause and _start
  ancestry,              \* DerivationAncestry of every clause
  reasons,               \* clauses that are reasons
  shadows, samples,      \* shadow_clauses, counterfactual_phase_samples
  active,                \* active_learned_clauses
  conflicts, reductions, pc,
  written, pivots, offered   \* history: what was allocated, resolved on, offered

store == <<arena, clauses, garbage, active>>
vars == <<config, store, ancestry, reasons, shadows, samples, conflicts, reductions, pc,
          written, pivots, offered>>

Ref == 1 .. Len(clauses)
Policy == config.policy
ByUsage == Policy \notin {"classic", "tiered"}
Live(i) == ~clauses[i].deleted
Learned(i) == clauses[i].learned
Shadow(i) == clauses[i].watch # "active"
Place(i) == clauses[i].start .. clauses[i].start + clauses[i].len - 1
Read(i) == {arena[k] : k \in Place(i)}

\* The n first of a set of tuples of numbers, all of one length.
Before(a, b) == \E n \in 1 .. Len(a) : a[n] < b[n] /\ \A m \in 1 .. n - 1 : a[m] = b[m]
Least(S, n) == {x \in S : Cardinality({y \in S : Before(y, x)}) < n}
-----------------------------------------------------------------------------
(***************************************************************************)
(* Allocation and deletion.                                                *)
(***************************************************************************)
NoGarbage == [literals |-> 0, clause |-> 0, start |-> 0]   \* 0 for usize::MAX
Smaller(a, b) == IF a = 0 \/ b < a THEN b ELSE a

Literals(i, n) == [j \in 1 .. n |-> 10 * i + j]

Allocated(n, learned, lbd) ==
  Append(clauses, [start |-> Len(arena) + 1, len |-> n, learned |-> learned, deleted |-> FALSE,
                   lbd |-> lbd, used |-> IF learned THEN 3 ELSE 0,
                   score |-> IF learned /\ ByUsage THEN 1 ELSE 0, debt |-> 0,
                   watch |-> "active", since |-> 0])

\* Mutant of MarkedDeleted: compaction starts at the clause deleted last.
MarkedDeletedLast(s, i) ==
  [clauses |-> [s.clauses EXCEPT ![i].deleted = TRUE],
   garbage |-> IF ~config.compact THEN s.garbage
               ELSE [literals |-> s.garbage.literals + s.clauses[i].len,
                     clause |-> i, start |-> s.clauses[i].start]]

MarkedDeleted(s, i) ==
  [clauses |-> [s.clauses EXCEPT ![i].deleted = TRUE],
   garbage |-> IF ~config.compact THEN s.garbage
               ELSE [literals |-> s.garbage.literals + s.clauses[i].len,
                     clause |-> Smaller(s.garbage.clause, i),
                     start |-> Smaller(s.garbage.start, s.clauses[i].start)]]

\* The clauses of D deleted, one after another; in which order changes nothing.
Deleting(s, D) ==
  LET order == SetToSeq(D)
      after[k \in 0 .. Len(order)] == IF k = 0 THEN s ELSE MarkedDeleted(after[k - 1], order[k])
  IN after[Len(order)]

(***************************************************************************)
(* compact_clause_arena: live clauses slide down, in order, from the first *)
(* gap on.                                                                 *)
(***************************************************************************)
Slid(s, i) ==
  LET old == s.clauses[i].start
      len == s.clauses[i].len
  IN IF s.clauses[i].deleted THEN s
     ELSE [arena |-> [k \in DOMAIN s.arena |-> IF k \in s.write .. s.write + len - 1
                                               THEN s.arena[old + k - s.write] ELSE s.arena[k]],
           clauses |-> [s.clauses EXCEPT ![i].start = s.write],
           write |-> s.write + len]
Compacted(s) ==
  LET first == s.garbage.clause
      slid[i \in first - 1 .. Len(s.clauses)] ==
        IF i = first - 1
        THEN [arena |-> arena, clauses |-> s.clauses, write |-> s.garbage.start]
        ELSE Slid(slid[i - 1], i)
      t == slid[Len(s.clauses)]
  IN [arena |-> SubSeq(t.arena, 1, t.write - 1), clauses |-> t.clauses]

\* What a reduction leaves: the clauses with their gaps, or without.
Stored(s) ==
  IF ~config.compact \/ s.garbage.literals = 0
  THEN arena' = arena /\ clauses' = s.clauses /\ garbage' = s.garbage
  ELSE /\ arena' = Compacted(s).arena /\ clauses' = Compacted(s).clauses
       /\ garbage' = NoGarbage
-----------------------------------------------------------------------------
(***************************************************************************)
(* DerivationAncestry: the pivots of least rank, and whether one was seen  *)
(* to repeat.                                                              *)
(***************************************************************************)
NoAncestry == [sample |-> {}, repeated |-> FALSE]
Sampled(S) == {v \in S : Cardinality({w \in S : w < v}) < Sketch}

ResolvedWith(a, v, parent) ==
  [sample |-> Sampled(Sampled(a.sample \cup parent.sample) \cup {v}),
   repeated |-> a.repeated \/ parent.repeated \/ v \in a.sample \cup parent.sample]
-----------------------------------------------------------------------------
(***************************************************************************)
(* What a reduction deletes.  Every policy leaves the originals, what is   *)
(* already deleted or under observation, and the reasons.                  *)
(***************************************************************************)
Candidate == {i \in Ref : Learned(i) /\ Live(i) /\ ~Shadow(i) /\ i \notin reasons}
Unused == {i \in Candidate : clauses[i].score = 0}

\* lbd_free_deletion_fraction of n: half and a little, for the first reductions.
Share(n) == n \div 2

\* The first n of a set by the keys a policy sorts by.
FirstBy(S, Key(_), n) == {i \in S : Cardinality({k \in S : Before(Key(k), Key(i))}) < n}
ByLength(i) == <<-clauses[i].len, i>>
ByDebt(i) == <<-clauses[i].debt, clauses[i].score, -clauses[i].len, i>>
ByRegularity(i) == <<IF ancestry[i].repeated THEN 1 ELSE 0, -clauses[i].len, i>>

Doomed ==
  CASE Policy = "debt" -> FirstBy(Candidate, ByDebt, Share(Cardinality(Unused)))
    [] Policy = "nonregular" -> FirstBy(Unused, ByRegularity, Share(Cardinality(Unused)))
    [] OTHER -> FirstBy(Unused, ByLength, Share(Cardinality(Unused)))

\* The older policies keep the better half by distance and activity; ties fall
\* either way.  Tiers protect what was used lately.
Protected(i) == /\ Policy = "tiered"
                /\ \/ clauses[i].lbd <= 2 /\ clauses[i].used > 0
                   \/ clauses[i].lbd <= 6 /\ clauses[i].used >= 2
Better(i, k) == \/ clauses[i].lbd < clauses[k].lbd
                \/ clauses[i].lbd = clauses[k].lbd /\ clauses[i].score > clauses[k].score
Worse(D, C) == /\ Cardinality(D) = Cardinality(C) - (Cardinality(C) \div 2)
               /\ \A i \in D, k \in C \ D : ~Better(i, k)
Aged == [i \in Ref |-> IF Policy = "tiered" /\ i \in Candidate /\ clauses[i].used > 0
                       THEN [clauses[i] EXCEPT !.used = @ - 1] ELSE clauses[i]]

\* shadow_clause_rank: any fixed mixing of the clause and the reduction.
Mixed(i, reduction) == (5 * i + 3 * reduction) % 7

\* begin_shadow_observation for those of the lowest ranks, while there is room.
Observed(D) ==
  LET Rank(i) == <<Mixed(i, reductions + 1), i>>
  IN FirstBy(D, Rank, Capacity - Len(shadows))

\* Mutant of Offered: the last offer always gets in.
OfferedAlways(s, x) ==
  IF Cardinality(s) < Capacity THEN s \cup {x} ELSE Least(s, Capacity - 1) \cup {x}

\* offer_counterfactual_phase_sample
Offered(s, x) ==
  IF Cardinality(s) < Capacity THEN s \cup {x}
  ELSE LET worst == CHOOSE w \in s : \A y \in s : y = w \/ Before(y, w)
       IN IF Before(x, worst) THEN (s \ {worst}) \cup {x} ELSE s

\* Every clause of D offered, with its rank.
SampleOf(i) == <<Mixed(i, reductions + 1), reductions + 1, i>>
Offering(D) ==
  LET order == SetToSeq(D)
      sampled[k \in 0 .. Len(order)] ==
        IF k = 0 THEN samples ELSE Offered(sampled[k - 1], SampleOf(order[k]))
  IN sampled[Len(order)]
-----------------------------------------------------------------------------
Init ==
  /\ config \in Configs
  /\ \E n \in Lengths[Policy] :
       /\ arena = Literals(1, n) \o Literals(2, 3)
       /\ clauses = <<[start |-> 1, len |-> n, learned |-> FALSE, deleted |-> FALSE, lbd |-> 0,
                       used |-> 0, score |-> 0, debt |-> 0, watch |-> "active", since |-> 0],
                      [start |-> n + 1, len |-> 3, learned |-> FALSE, deleted |-> FALSE, lbd |-> 0,
                       used |-> 0, score |-> 0, debt |-> 0, watch |-> "active", since |-> 0]>>
       /\ written = <<Range(Literals(1, n)), Range(Literals(2, 3))>>
  /\ garbage = NoGarbage /\ active = 0
  /\ ancestry = <<NoAncestry, NoAncestry>> /\ pivots = <<{}, {}>>
  /\ reasons = {} /\ shadows = << >> /\ samples = {} /\ offered = {}
  /\ conflicts = 0 /\ reductions = 0 /\ pc = "search"

\* A preprocessing pass deletes a clause; nothing is compacted yet.
Simplify ==
  /\ conflicts = 0
  /\ \E i \in Ref \ reasons :
       /\ Live(i)
       /\ LET s == MarkedDeleted([clauses |-> clauses, garbage |-> garbage], i)
          IN clauses' = s.clauses /\ garbage' = s.garbage
  /\ UNCHANGED <<config, arena, active, ancestry, reasons, shadows, samples, conflicts,
                 reductions, pc, written, pivots, offered>>

\* A conflict: analysis resolves on one pivot after another, here one; the
\* learned clause is allocated and becomes the reason of its first literal.
Learn(n, lbd, from, v, with) ==
  /\ conflicts' = conflicts + 1 /\ active' = active + 1 /\ pc' = "learned"
  /\ clauses' = Allocated(n, TRUE, lbd)
  /\ arena' = arena \o Literals(Len(clauses) + 1, n)
  /\ written' = Append(written, Range(Literals(Len(clauses) + 1, n)))
  /\ ancestry' = Append(ancestry, IF Policy = "nonregular"
                                  THEN ResolvedWith(ancestry[from], v, ancestry[with])
                                  ELSE NoAncestry)
  /\ pivots' = Append(pivots, IF Policy = "nonregular"
                              THEN pivots[from] \cup pivots[with] \cup {v} ELSE {})
  /\ \E kept \in SUBSET reasons : reasons' = kept \cup {Len(clauses) + 1}
  /\ UNCHANGED <<config, garbage, shadows, samples, reductions, offered>>

Conflict ==
  /\ pc = "search" /\ conflicts < MaxLearned[Policy]
  /\ \E n \in Lengths[Policy], lbd \in IF ByUsage THEN {0} ELSE Lbds,
        v \in IF Policy = "nonregular" THEN Pivot ELSE {0},
        from, with \in IF Policy = "nonregular" THEN {i \in Ref : Live(i)} ELSE {1} :
       Learn(n, lbd, from, v, with)

\* Propagation from a clause, with what the accounts make of it.
BecomeReason ==
  /\ pc = "search"
  /\ \E i \in Ref \ reasons :
       /\ Live(i) /\ ~Shadow(i) /\ Learned(i)
       /\ reasons' = reasons \cup {i}
       /\ clauses' = [clauses EXCEPT ![i].debt = IF ByUsage THEN 0 ELSE @,
                                     ![i].score = IF ByUsage /\ @ < MaxUse THEN @ + 1 ELSE @]
  /\ UNCHANGED <<config, arena, garbage, active, ancestry, shadows, samples, conflicts,
                 reductions, pc, written, pivots, offered>>

\* The distances a clause may be promoted to.
Nearer(i) == IF Policy = "tiered" /\ clauses[i].lbd > 2 THEN {m \in Lbds : m < clauses[i].lbd}
             ELSE {}

\* bump_clause_activity of a clause that analysis meets; tiers measure its
\* distance again.
Bump ==
  /\ pc = "search"
  /\ \E i \in Ref : \E lbd \in {clauses[i].lbd} \cup Nearer(i) :
       /\ Live(i) /\ ~Shadow(i) /\ Learned(i) /\ clauses[i].score < MaxUse
       /\ clauses' = [clauses EXCEPT ![i].score = @ + 1, ![i].debt = IF ByUsage THEN 0 ELSE @,
                                     ![i].used = IF Policy = "tiered" THEN 3 ELSE @,
                                     ![i].lbd = lbd]
  /\ UNCHANGED <<config, arena, garbage, active, ancestry, reasons, shadows, samples,
                 conflicts, reductions, pc, written, pivots, offered>>

\* charge_clause_scan_debt
Scan ==
  /\ pc = "search" /\ Policy = "debt"
  /\ \E i \in Ref : /\ Live(i) /\ Learned(i) /\ clauses[i].debt < MaxUse
                    /\ clauses' = [clauses EXCEPT ![i].debt = @ + 1]
  /\ UNCHANGED <<config, arena, garbage, active, ancestry, reasons, shadows, samples,
                 conflicts, reductions, pc, written, pivots, offered>>

\* decay_clause_usage_scores
Decay ==
  /\ pc = "search" /\ ByUsage
  /\ clauses' = [i \in Ref |->
       IF Learned(i) /\ Live(i) /\ ~Shadow(i) /\ clauses[i].score > 0
       THEN [clauses[i] EXCEPT !.score = @ - 1] ELSE clauses[i]]
  /\ UNCHANGED <<config, arena, garbage, active, ancestry, reasons, shadows, samples,
                 conflicts, reductions, pc, written, pivots, offered>>

\* A shadow clause is seen to be unit or false.
Trigger ==
  /\ pc = "search"
  /\ \E i \in Ref : /\ Live(i) /\ clauses[i].watch = "observing"
                    /\ clauses' = [clauses EXCEPT ![i].watch = "triggered"]
  /\ UNCHANGED <<config, arena, garbage, active, ancestry, reasons, shadows, samples,
                 conflicts, reductions, pc, written, pivots, offered>>

\* reduce_database, for each policy.
ReduceByQuality ==
  /\ ~ByUsage
  /\ LET C == {i \in Candidate : ~Protected(i)}
     IN \E D \in SUBSET C :
          /\ Worse(D, C)
          /\ Stored(Deleting([clauses |-> Aged, garbage |-> garbage], D))
          /\ active' = active - Cardinality(D)
  /\ UNCHANGED <<shadows, samples, offered>>

ReduceByUsage ==
  /\ Policy \in {"usage", "debt", "nonregular", "voting"}
  /\ Stored(Deleting([clauses |-> clauses, garbage |-> garbage], Doomed))
  /\ active' = active - Cardinality(Doomed)
  /\ LET voting == IF Policy = "voting" THEN Doomed ELSE {}
     IN samples' = Offering(voting) /\ offered' = offered \cup {SampleOf(i) : i \in voting}
  /\ UNCHANGED shadows

ReduceToShadows ==
  /\ Policy = "shadow"
  /\ LET chosen == Observed(Doomed)
         s == Deleting([clauses |-> clauses, garbage |-> garbage], Doomed \ chosen)
     IN /\ Stored([s EXCEPT !.clauses = [i \in Ref |->
              IF i \in chosen THEN [@[i] EXCEPT !.watch = "observing", !.since = conflicts]
              ELSE @[i]]])
        /\ shadows' = shadows \o SetToSeq(chosen)
  /\ active' = active - Cardinality(Doomed)
  /\ UNCHANGED <<samples, offered>>

Reduce ==
  /\ pc = "learned" /\ pc' = "reduced" /\ reductions < MaxReductions[Policy]
  /\ reductions' = reductions + 1
  /\ ReduceByQuality \/ ReduceByUsage \/ ReduceToShadows
  /\ UNCHANGED <<config, ancestry, reasons, conflicts, written, pivots>>

\* finalize_shadow_clauses_at_root: what was observed for long enough is
\* active again if it would have been of use, and deleted if not.
Ripe(i) == conflicts - clauses[i].since >= Observation
Finalized(i) == Shadow(i) /\ Live(i) /\ Ripe(i)

\* The shadow clauses that go on being observed.
Retained ==
  LET kept[k \in 0 .. Len(shadows)] ==
        IF k = 0 THEN << >>
        ELSE IF Finalized(shadows[k]) THEN kept[k - 1] ELSE Append(kept[k - 1], shadows[k])
  IN kept[Len(shadows)]

\* A restart: reasons above the root are gone, the sample votes, and shadow
\* clauses are decided on; some of these are units at the root.
Restart ==
  /\ pc \in {"learned", "reduced"} /\ pc' = "search"
  /\ LET triggered == {i \in Ref : Finalized(i) /\ clauses[i].watch = "triggered"}
         expired == {i \in Ref : Finalized(i) /\ clauses[i].watch = "observing"}
     IN /\ clauses' = [i \in Ref |->
             IF i \in triggered
             THEN [clauses[i] EXCEPT !.watch = "active", !.since = 0, !.score = 1]
             ELSE IF i \in expired
             THEN [clauses[i] EXCEPT !.watch = "active", !.since = 0, !.deleted = TRUE]
             ELSE clauses[i]]
        /\ active' = active + Cardinality(triggered)
        /\ \E kept \in SUBSET reasons, units \in SUBSET triggered : reasons' = kept \cup units
  /\ shadows' = Retained
  /\ samples' = {} /\ offered' = {}
  /\ UNCHANGED <<config, arena, garbage, ancestry, conflicts, reductions, written, pivots>>

GoOn ==
  /\ pc \in {"learned", "reduced"} /\ pc' = "search"
  /\ UNCHANGED <<config, store, ancestry, reasons, shadows, samples, conflicts, reductions,
                 written, pivots, offered>>

Next == \/ Simplify \/ Conflict \/ BecomeReason \/ Bump \/ Scan \/ Decay \/ Trigger
        \/ Reduce \/ Restart \/ GoOn
Spec == Init /\ [][Next]_vars
-----------------------------------------------------------------------------
\* Every reference still reads the clause that was written for it, however
\* often the arena was compacted; what no live clause reads is accounted for; no
\* reason was deleted or put under observation; and the count of learned clauses
\* is exact.
Gaps == {k \in DOMAIN arena : \A i \in Ref : Live(i) => k \notin Place(i)}
StoreExact ==
  /\ \A i \in Ref : Live(i) \/ ~config.compact => Read(i) = written[i]
  /\ config.compact => Cardinality(Gaps) = garbage.literals
  /\ \A i \in reasons : Live(i) /\ ~Shadow(i)
  /\ active = Cardinality({i \in Ref : Learned(i) /\ Live(i) /\ ~Shadow(i)})

\* The bounded samples are the least of all they stand for: of the clauses
\* deleted since the last restart, and of all the pivots of a derivation; a
\* derivation called nonregular has a repeated pivot; and the observed clauses
\* are those listed, within capacity.
SamplesExact ==
  /\ samples = Least(offered, Capacity)
  /\ \A i \in Ref : Policy = "nonregular" => ancestry[i].sample = Sampled(pivots[i])
  /\ Len(shadows) <= Capacity
  /\ Range(shadows) = {i \in Ref : Shadow(i)} /\ \A i \in Range(shadows) : Live(i)
=============================================================================
