------------------------------ MODULE Schedule ------------------------------
(***************************************************************************)
(* When to restart, rephase and change mode (solver.rs): the Luby schedule,*)
(* restarts by recent clause quality with a window of trail lengths that   *)
(* blocks them, reluctant doubling in stable mode, the focused probe, the  *)
(* epochs of the transfer strategy and of adaptive trail reuse.            *)
(*                                                                         *)
(* One step is one conflict of the search loop, from its counters to what  *)
(* it leads to.  The moving averages of focused mode are left open: they   *)
(* call for a restart or they do not.  So are the estimates that choose    *)
(* the transfer strategy's winner.                                         *)
(***************************************************************************)
EXTENDS Integers, FiniteSets, SequencesExt

CONSTANTS
  Policies,         \* configurations to run
  Bound,            \* for each of them, a bound on conflicts
  RestartBase,      \* RESTART_BASE
  Window,           \* LBD_RESTART_WINDOW
  TrailWindow,      \* TRAIL_RESTART_WINDOW
  BlockFrom,        \* BLOCKING_RESTART_MIN_CONFLICTS
  ModeConflicts,    \* INITIAL_MODE_CONFLICTS
  Period, Ceiling,  \* STABLE_RESTART_PERIOD and _LIMIT
  ProbeConflicts,   \* FOCUSED_PROBE_CONFLICTS
  Warmup, Probe, Exploit   \* TRANSFER_*_EPOCHS

VARIABLES
  policy,
  conflicts, propagations, restarts,   \* SolverStats
  since, index, limit,     \* conflicts_since_restart, restart_index, restart_limit
  lbd,                     \* LbdRestartState
  depth,                   \* TrailRestartState
  hybrid, reluctant,       \* HybridSearchState and its ReluctantRestart
  probed,                  \* probe_finished
  transfer,                \* TransferSearchState: regime, epoch, winner
  adaptive,                \* AdaptiveTrailReuseState
  pending,                 \* a conflict has just been counted
  reloads, observed, depths   \* history: what the states stand for

luby      == <<since, index, limit>>
focused   == <<hybrid, reluctant, probed, reloads>>
windows   == <<lbd, depth, observed, depths>>
epochs    == <<transfer, adaptive>>
stats     == <<conflicts, propagations, restarts>>
vars == <<policy, stats, luby, focused, windows, epochs, pending>>

Larger(a, b) == IF a > b THEN a ELSE b
Sum(s) == FoldSeq(LAMBDA x, y : x + y, 0, s)
Focused == policy \in {"focused", "focused_stable"} \/ (policy = "probe" /\ ~probed)
ByLbd == policy \in {"lbd", "blocking"}
-----------------------------------------------------------------------------
(***************************************************************************)
(* luby(), as the code computes it: the smallest full subtree that holds   *)
(* the index, then down to the one whose last element it is.               *)
(***************************************************************************)
RECURSIVE Subtree(_, _, _), Descent(_, _, _)
Subtree(size, sequence, n) ==
  IF size < n + 1 THEN Subtree(2 * size + 1, sequence + 1, n) ELSE <<size, sequence>>
Descent(size, sequence, n) ==
  IF size - 1 = n THEN 2 ^ sequence
  ELSE LET half == (size - 1) \div 2 IN Descent(half, sequence - 1, n % half)
Luby(n) == LET tree == Subtree(1, 0, n) IN Descent(tree[1], tree[2], n)

\* The sequence by its definition: 1; and each prefix twice, then the next
\* power of two.
RECURSIVE LubyPrefix(_)
LubyPrefix(k) ==
  IF k = 1 THEN <<1>> ELSE LubyPrefix(k - 1) \o LubyPrefix(k - 1) \o <<2 ^ (k - 1)>>
LubySequence == LubyPrefix(5)
-----------------------------------------------------------------------------
(***************************************************************************)
(* LbdRestartState: a ring of the last qualities and their sum.            *)
(***************************************************************************)
NoLbd == [recent |-> [i \in 1 .. Window |-> 0], next |-> 1, len |-> 0, sum |-> 0, all |-> 0,
          n |-> 0]

\* Mutant of ObserveLbd: what leaves the ring is taken off before it is full.
ObserveLbdDropping(w, q) ==
  [recent |-> [w.recent EXCEPT ![w.next] = q],
   next |-> (w.next % Window) + 1,
   len |-> IF w.len = Window THEN Window ELSE w.len + 1,
   sum |-> w.sum + q - w.recent[w.next],
   all |-> w.all + q, n |-> w.n + 1]

ObserveLbd(w, q) ==
  [recent |-> [w.recent EXCEPT ![w.next] = q],
   next |-> (w.next % Window) + 1,
   len |-> IF w.len = Window THEN Window ELSE w.len + 1,
   sum |-> w.sum + q - (IF w.len = Window THEN w.recent[w.next] ELSE 0),
   all |-> w.all + q, n |-> w.n + 1]
ClearRecent(w) == [w EXCEPT !.next = 1, !.len = 0, !.sum = 0]
PoorLately(w) == w.len = Window /\ w.n # 0 /\ w.sum * 4 * w.n > w.all * 5 * Window

(***************************************************************************)
(* TrailRestartState                                                       *)
(***************************************************************************)
NoDepth == [recent |-> << >>, next |-> 1, sum |-> 0]
ObserveDepth(w, d) ==
  IF Len(w.recent) = TrailWindow
  THEN [recent |-> [w.recent EXCEPT ![w.next] = d], next |-> (w.next % TrailWindow) + 1,
        sum |-> w.sum - w.recent[w.next] + d]
  ELSE [w EXCEPT !.recent = Append(@, d), !.sum = @ + d]
UnusuallyDeep(w, d) == w.recent # << >> /\ d * 5 * Len(w.recent) > w.sum * 7

(***************************************************************************)
(* ReluctantRestart: doubling without computing the sequence.              *)
(***************************************************************************)
ResetReluctant == [wait |-> Period, u |-> 1, v |-> 1, triggered |-> FALSE]

\* u & -u
LowestBit(u) == CHOOSE b \in {2 ^ i : i \in 0 .. 10} : u % b = 0 /\ u % (2 * b) # 0

\* Mutant of Doubled: the next round starts without going back to 1.
DoubledOn(r) ==
  IF LowestBit(r.u) = r.v THEN [r EXCEPT !.u = @ + 1] ELSE [r EXCEPT !.v = 2 * @]

Doubled(r) ==
  IF LowestBit(r.u) = r.v THEN [r EXCEPT !.u = @ + 1, !.v = 1] ELSE [r EXCEPT !.v = 2 * @]

Tick(r) ==
  CASE r.triggered -> r
    [] ~r.triggered /\ r.wait > 1 -> [r EXCEPT !.wait = @ - 1]
    [] OTHER -> LET d == Doubled(r) IN
       IF d.v * Period > Ceiling THEN [ResetReluctant EXCEPT !.triggered = TRUE]
       ELSE [d EXCEPT !.wait = d.v * Period, !.triggered = TRUE]
\* How often the schedule went on since it began anew, after a tick of r.
ReloadsAfter(r, n) ==
  IF r.triggered \/ r.wait > 1 THEN n
  ELSE IF Doubled(r).v * Period > Ceiling THEN 0 ELSE n + 1

(***************************************************************************)
(* HybridSearchState                                                       *)
(***************************************************************************)
NewHybrid == [stable |-> FALSE, modes |-> 0, start |-> 0, conflictLimit |-> ModeConflicts,
              propagationLimit |-> 0, restartLimit |-> 1]

\* (count * log10(count + 9)^4) rounded down, for the counts a run reaches.
Growth(count) == <<1, 2, 4, 6, 8, 11>>[count]

SwitchDue(c, p) == IF hybrid.stable THEN p >= hybrid.propagationLimit
                   ELSE c >= hybrid.conflictLimit

ToFocused(h, c, p) ==
  [h EXCEPT !.stable = FALSE, !.modes = @ + 1, !.start = p, !.restartLimit = c + 1,
     !.conflictLimit = c + ModeConflicts * Growth(Larger((h.modes + 1) \div 2, 1))]
ToStable(h, p) ==
  [h EXCEPT !.stable = TRUE, !.modes = @ + 1, !.start = p,
     !.propagationLimit = p + Larger(p - h.start, 1)]

\* log10(restarts + 9), at least 1
Spacing(n) == IF n + 9 < 100 THEN 1 ELSE 2

(***************************************************************************)
(* TransferSearchState: which heap decides in each epoch.                  *)
(***************************************************************************)
NewTransfer == [active |-> "evsids", epoch |-> 1, winner |-> "evsids"]
Position(epoch) == (epoch - Warmup - 1) % (Probe + Exploit)
Regime(epoch, winner) ==
  CASE epoch <= Warmup -> IF epoch % 2 = 1 THEN "evsids" ELSE "lrb"
    [] epoch > Warmup /\ Position(epoch) = 0 -> "evsids"
    [] epoch > Warmup /\ Position(epoch) = 1 -> "lrb"
    [] OTHER -> winner
Winners(t) == IF t.epoch > Warmup /\ Position(t.epoch) = Probe - 1 THEN {"evsids", "lrb"}
              ELSE {t.winner}
NextEpoch(t, winner) ==
  [active |-> Regime(t.epoch + 1, winner), epoch |-> t.epoch + 1, winner |-> winner]

(***************************************************************************)
(* AdaptiveTrailReuseState: compare epochs that began with a full restart  *)
(* and epochs that kept levels.                                            *)
(***************************************************************************)
None == << >>
Some(x) == <<x>>
NewAdaptive == [action |-> "root", c |-> 0, p |-> 0, lbd |-> 0, root |-> None, reuse |-> None,
                events |-> 0]
Quality(c, p, sum) == [c |-> c, p |-> p, lbd |-> sum]
AtLeastAsGood(x, y) ==
  x.c * x.c * Larger(y.p, 1) * Larger(y.lbd, 1) >= y.c * y.c * Larger(x.p, 1) * Larger(x.lbd, 1)
FinishEpoch(a, c, p) ==
  LET quality == Some(Quality(c - a.c, p - a.p, a.lbd)) IN
  IF a.action = "root" THEN [a EXCEPT !.root = quality] ELSE [a EXCEPT !.reuse = quality]
\* Probe, or accept by quality, or reject.
Reuses(a) ==
  \/ a.reuse = None \/ a.root = None \/ a.events + 1 \in {2 ^ i : i \in 0 .. 10}
  \/ AtLeastAsGood(a.reuse[1], a.root[1])
BeginEpoch(a, action, c, p) == [a EXCEPT !.action = action, !.c = c, !.p = p, !.lbd = 0]
-----------------------------------------------------------------------------
Init ==
  /\ policy \in Policies
  /\ conflicts = 0 /\ propagations = 0 /\ restarts = 0
  /\ since = 0 /\ index = 0 /\ limit = RestartBase
  /\ lbd = NoLbd /\ depth = NoDepth
  /\ hybrid = NewHybrid /\ reluctant = ResetReluctant /\ probed = FALSE
  /\ transfer = NewTransfer /\ adaptive = NewAdaptive
  /\ reloads = 0 /\ observed = << >> /\ depths = << >> /\ pending = FALSE

\* The restart's own accounts, once it has chosen its level.
LubyRestart ==
  /\ index' = index + 1 /\ limit' = RestartBase * Luby(index + 1)
  /\ UNCHANGED <<hybrid, lbd, observed>>
LbdRestart == /\ lbd' = ClearRecent(lbd) /\ observed' = << >>
              /\ UNCHANGED <<hybrid, index, limit>>

\* counters, windows and averages of a conflict with quality q at trail
\* length d after p more propagations.
Count(q, d, p) ==
  /\ conflicts' = conflicts + 1 /\ propagations' = propagations + p
  /\ since' = since + 1
  /\ LET blocked == /\ policy = "blocking" /\ conflicts + 1 > BlockFrom
                    /\ lbd.len = Window /\ UnusuallyDeep(ObserveDepth(depth, d), d)
         cleared == IF blocked THEN ClearRecent(lbd) ELSE lbd
     IN /\ lbd' = IF ByLbd /\ ~Focused THEN ObserveLbd(cleared, q) ELSE lbd
        /\ observed' = IF ~ByLbd \/ Focused THEN observed
                       ELSE IF blocked THEN <<q>> ELSE Append(observed, q)
        /\ depth' = IF ByLbd /\ ~Focused THEN ObserveDepth(depth, d) ELSE depth
        /\ depths' = IF ByLbd /\ ~Focused THEN Append(depths, d) ELSE depths
  /\ reluctant' = IF Focused /\ hybrid.stable THEN Tick(reluctant) ELSE reluctant
  /\ reloads' = IF Focused /\ hybrid.stable THEN ReloadsAfter(reluctant, reloads) ELSE reloads
  /\ adaptive' = IF policy = "adaptive" THEN [adaptive EXCEPT !.lbd = @ + q] ELSE adaptive
  /\ pending' = TRUE
  /\ UNCHANGED <<policy, restarts, index, limit, hybrid, probed, transfer>>

Conflict ==
  /\ ~pending /\ conflicts < Bound[policy]
  /\ \E q \in IF ByLbd \/ policy = "adaptive" THEN {1, 3} ELSE {1},
        d \in IF policy = "blocking" THEN {2, 6} ELSE {2},
        p \in IF policy \in {"focused_stable", "adaptive"} THEN {1, 3} ELSE {1} :
       Count(q, d, p)

\* Then at most one of these, in this order.
Rephase == /\ policy = "luby" /\ pending /\ pending' = FALSE
           /\ UNCHANGED <<policy, stats, luby, focused, windows, transfer, adaptive>>

SwitchMode ==
  /\ policy = "focused_stable" /\ pending /\ pending' = FALSE
  /\ SwitchDue(conflicts, propagations)
  /\ hybrid' = IF hybrid.stable THEN ToFocused(hybrid, conflicts, propagations)
               ELSE ToStable(hybrid, propagations)
  /\ reluctant' = IF hybrid.stable THEN reluctant ELSE ResetReluctant
  /\ reloads' = IF hybrid.stable THEN reloads ELSE 0
  /\ UNCHANGED <<policy, stats, luby, probed, windows, transfer, adaptive>>

FinishProbe ==
  /\ policy = "probe" /\ ~probed /\ conflicts >= ProbeConflicts
  /\ pending /\ pending' = FALSE
  /\ probed' = TRUE
  /\ since' = 0 /\ index' = 0 /\ limit' = RestartBase
  /\ lbd' = NoLbd /\ depth' = NoDepth /\ observed' = << >> /\ depths' = << >>
  /\ UNCHANGED <<policy, stats, hybrid, reluctant, reloads, transfer, adaptive>>

Earlier == \/ policy = "focused_stable" /\ SwitchDue(conflicts, propagations)
           \/ policy = "probe" /\ ~probed /\ conflicts >= ProbeConflicts

\* should_restart; poor is what the averages of focused mode say.
ShouldRestart(poor) ==
  CASE Focused /\ hybrid.stable -> reluctant.triggered
    [] Focused /\ ~hybrid.stable -> conflicts >= hybrid.restartLimit /\ poor
    [] ~Focused /\ ByLbd -> PoorLately(lbd)
    [] OTHER -> since >= limit

\* The levels a restart of the adaptive policy keeps: none, or reusable ones.
Adapted(reusable) ==
  LET a == FinishEpoch(adaptive, conflicts, propagations)
      counted == [a EXCEPT !.events = @ + 1]
  IN IF ~reusable THEN BeginEpoch(a, "root", conflicts, propagations)
     ELSE BeginEpoch(counted, IF Reuses(a) THEN "reuse" ELSE "root", conflicts, propagations)

Restart ==
  /\ pending /\ pending' = FALSE /\ ~Earlier /\ \E poor \in BOOLEAN : ShouldRestart(poor)
  /\ restarts' = restarts + 1 /\ since' = 0
  /\ IF policy # "adaptive" THEN adaptive' = adaptive
     ELSE \E reusable \in BOOLEAN : adaptive' = Adapted(reusable)
  /\ IF policy # "transfer" THEN transfer' = transfer
     ELSE \E w \in Winners(transfer) : transfer' = NextEpoch(transfer, w)
  /\ CASE Focused /\ hybrid.stable ->
            /\ reluctant' = [reluctant EXCEPT !.triggered = FALSE]
            /\ UNCHANGED <<hybrid, lbd, observed, index, limit>>
       [] Focused /\ ~hybrid.stable ->
            /\ hybrid' = [hybrid EXCEPT !.restartLimit = conflicts + Spacing(restarts + 1)]
            /\ UNCHANGED <<reluctant, lbd, observed, index, limit>>
       [] ~Focused /\ ByLbd -> LbdRestart /\ UNCHANGED reluctant
       [] OTHER -> LubyRestart /\ UNCHANGED reluctant
  /\ UNCHANGED <<policy, conflicts, propagations, probed, reloads, depth, depths>>

\* Nothing is due, or the conflict went back to the root.
GoOn ==
  /\ pending /\ pending' = FALSE /\ ~Earlier
  /\ UNCHANGED <<policy, stats, luby, focused, windows, transfer, adaptive>>

Next == Conflict \/ Rephase \/ SwitchMode \/ FinishProbe \/ Restart \/ GoOn
Spec == Init /\ [][Next]_vars
-----------------------------------------------------------------------------
\* Both schedules follow the Luby sequence: the limit of the Luby policy, and
\* the waits of reluctant doubling since it last began anew, which computes
\* them from two counters.
SpacingIsLuby ==
  /\ limit = RestartBase * LubySequence[index + 1]
  /\ reluctant.v = LubySequence[reloads + 1]
  /\ reluctant.wait \in 1 .. Period * reluctant.v
  /\ Period * reluctant.v <= Ceiling

\* The running sums are the sums of what the windows stand for: the qualities
\* since the window was last cleared, and the last trail lengths.
LastOf(s, n) == SubSeq(s, Larger(Len(s) - n, 0) + 1, Len(s))
WindowsExact ==
  /\ lbd.sum = Sum(LastOf(observed, Window))
  /\ lbd.len = Len(LastOf(observed, Window))
  /\ depth.sum = Sum(LastOf(depths, TrailWindow))
=============================================================================
