----------------------------- MODULE Branching ------------------------------
(***************************************************************************)
(* Choosing the next decision (solver.rs): the activity heap of EVSIDS,    *)
(* LRB and CHB, the second heap of the transfer strategy, and the move-to- *)
(* front queue with its cursor.  All of them are kept while variables are  *)
(* assigned, bumped and unassigned, whichever one chooses.                 *)
(*                                                                         *)
(* Which clauses propagate and conflict is left open, and so is when a     *)
(* restart, a rephasing or a change of mode is due (module Schedule).      *)
(* Only the order of activities matters: they are small whole numbers, and *)
(* a reward may be any of them.  Saved phases are left out.                *)
(***************************************************************************)
EXTENDS Integers, FiniteSets, SequencesExt

CONSTANTS
  MaxVar,        \* variables the client may create
  MaxActivity,   \* activity at which all of them are scaled down
  MaxStamp,      \* largest queue stamp, above MaxVar (u64::MAX in the code)
  Strategies,    \* SearchStrategy values to run
  MaxConflicts   \* for each of them, a bound on conflicts in a behaviour

Var == 1 .. MaxVar

\* The queue can be numbered anew.
ASSUME BranchingAssumption ==
  MaxVar \in Nat /\ MaxActivity \in Nat /\ MaxStamp \in Nat /\ MaxStamp > MaxVar

VARIABLES
  strategy, reuse,   \* search_strategy, and whether restarts may keep levels
  count,             \* variables created so far
  trail, limits,     \* assigned variables, and where each level begins
  activity, order,   \* VarOrder: heap and positions
  lrbActivity, lrbOrder,  \* the transfer strategy's second heap
  vmtf,              \* VmtfOrder: links, ends, cursor and stamp
  stale, aged,       \* a conflict since lrb_canceled_at, since lrb_assigned_at
  plays,             \* chb_plays
  stable, probed, lrbActive,   \* hybrid.stable, probe_finished, transfer.active
  rescaled,          \* history: activities were scaled down
  stage, analyses

settings   == <<strategy, reuse>>
scores     == <<activity, lrbActivity>>
orders     == <<order, lrbOrder, vmtf>>
modes      == <<stable, probed, lrbActive>>
histories  == <<stale, aged, plays, rescaled>>
branching == <<settings, count, trail, limits, scores, orders, modes, histories, stage, analyses>>

Assigned == Range(trail)
Level == Len(limits)
AtRoot(x) == \E i \in 1 .. Len(trail) : trail[i] = x /\ (Level = 0 \/ i <= limits[1])
AtCurrent(x) == \E i \in 1 .. Len(trail) : trail[i] = x /\ Level > 0 /\ i > limits[Level]

UsesVmtf ==
  \/ strategy \in {"vmtf", "probe_vmtf"}
  \/ strategy = "probe_evsids" /\ ~probed
  \/ strategy = "focused_stable" /\ ~stable
UsesTransfer == strategy = "transfer"
MaintainsLrb == strategy \in {"lrb", "transfer"}
ProbeActive == strategy \in {"probe_evsids", "probe_vmtf"} /\ ~probed
-----------------------------------------------------------------------------
(***************************************************************************)
(* VarOrder: a binary heap with the position of every variable, 0 for none.*)
(***************************************************************************)
NoHeap == [heap |-> << >>, pos |-> [v \in Var |-> 0]]
Higher(x, y, act) == act[x] > act[y] \/ (act[x] = act[y] /\ x < y)

Swapped(h, i, j) ==
  [heap |-> [h.heap EXCEPT ![i] = h.heap[j], ![j] = h.heap[i]],
   pos |-> [h.pos EXCEPT ![h.heap[i]] = j, ![h.heap[j]] = i]]

\* One turn of each loop, at place s.at of the heap s.h; no turn changes anything
\* once the loop is left, which happens before the places run out.
Raised(s, act) ==
  IF s.at = 1 \/ ~Higher(s.h.heap[s.at], s.h.heap[s.at \div 2], act) THEN s
  ELSE [h |-> Swapped(s.h, s.at, s.at \div 2), at |-> s.at \div 2]
BestChild(s, act) ==
  IF 2 * s.at < Len(s.h.heap) /\ Higher(s.h.heap[2 * s.at + 1], s.h.heap[2 * s.at], act)
  THEN 2 * s.at + 1 ELSE 2 * s.at
Lowered(s, act) ==
  LET child == BestChild(s, act)
  IN IF 2 * s.at > Len(s.h.heap) \/ ~Higher(s.h.heap[child], s.h.heap[s.at], act) THEN s
     ELSE [h |-> Swapped(s.h, s.at, child), at |-> child]

SiftUp(h, i, act) ==
  LET up[n \in 0 .. Len(h.heap)] ==
        IF n = 0 THEN [h |-> h, at |-> i] ELSE Raised(up[n - 1], act)
  IN up[Len(h.heap)].h

SiftDown(h, i, act) ==
  LET down[n \in 0 .. Len(h.heap)] ==
        IF n = 0 THEN [h |-> h, at |-> i] ELSE Lowered(down[n - 1], act)
  IN down[Len(h.heap)].h

Insert(h, x, act) ==
  IF h.pos[x] # 0 THEN h
  ELSE SiftUp([heap |-> Append(h.heap, x), pos |-> [h.pos EXCEPT ![x] = Len(h.heap) + 1]],
              Len(h.heap) + 1, act)

Increase(h, x, act) == IF h.pos[x] = 0 THEN h ELSE SiftUp(h, h.pos[x], act)

\* Mutant of Update: a score that fell is sifted up as well.
UpdateUp(h, x, old, act) ==
  IF h.pos[x] = 0 THEN h ELSE SiftUp(h, h.pos[x], act)

Update(h, x, old, act) ==
  CASE h.pos[x] = 0 -> h
    [] h.pos[x] # 0 /\ act[x] > old -> SiftUp(h, h.pos[x], act)
    [] h.pos[x] # 0 /\ act[x] < old -> SiftDown(h, h.pos[x], act)
    [] OTHER -> h

PopMax(h, act) ==
  LET top == Head(h.heap)
      moved == Last(h.heap)
      rest == Front(h.heap)
      emptied == [heap |-> rest, pos |-> [h.pos EXCEPT ![top] = 0]]
  IN IF rest = << >> THEN emptied
     ELSE SiftDown([heap |-> [rest EXCEPT ![1] = moved],
                    pos |-> [emptied.pos EXCEPT ![moved] = 1]], 1, act)

\* peek_max: assigned variables above the best free one leave the heap.
Cleared(h, act, assigned) ==
  IF h.heap = << >> \/ Head(h.heap) \notin assigned THEN h ELSE PopMax(h, act)
Peeked(h, act, assigned) ==
  LET left[n \in 0 .. Len(h.heap)] ==
        IF n = 0 THEN h ELSE Cleared(left[n - 1], act, assigned)
  IN left[Len(h.heap)]
-----------------------------------------------------------------------------
(***************************************************************************)
(* VmtfOrder: a doubly linked list, oldest first; 0 is DISCONNECTED.       *)
(***************************************************************************)
NoQueue == [prev |-> [v \in Var |-> 0], next |-> [v \in Var |-> 0],
            stamp |-> [v \in Var |-> 0], first |-> 0, last |-> 0, search |-> 0, now |-> 0]

\* The list from x on; there are at most MaxVar variables in it.
Longer(q, x, s) ==
  LET y == IF s = << >> THEN x ELSE q.next[Last(s)]
  IN IF y = 0 THEN s ELSE Append(s, y)
ListFrom(q, x) ==
  LET list[n \in 0 .. MaxVar] == IF n = 0 THEN << >> ELSE Longer(q, x, list[n - 1])
  IN list[MaxVar]

\* advance_stamp: at the end of the range the list is numbered anew.
Advanced(q) ==
  IF q.now # MaxStamp THEN [q EXCEPT !.now = @ + 1]
  ELSE LET list == ListFrom(q, q.first)
       IN [q EXCEPT !.now = Len(list) + 1,
             !.stamp = [v \in Var |-> IF v \in Range(list)
                                      THEN CHOOSE i \in 1 .. Len(list) : list[i] = v
                                      ELSE q.stamp[v]]]

\* A variable at the young end of the list.
Linked(q, x) ==
  [prev |-> [q.prev EXCEPT ![x] = q.last],
   next |-> IF q.last = 0 THEN [q.next EXCEPT ![x] = 0]
            ELSE [q.next EXCEPT ![x] = 0, ![q.last] = x],
   stamp |-> [q.stamp EXCEPT ![x] = q.now],
   first |-> IF q.last = 0 THEN x ELSE q.first, last |-> x,
   search |-> q.search, now |-> q.now]

Unlinked(q, x) ==
  LET p == q.prev[x]
      n == q.next[x]
  IN [q EXCEPT !.first = IF p = 0 THEN n ELSE @,
               !.next = IF p = 0 THEN @ ELSE [@ EXCEPT ![p] = n],
               !.prev = IF n = 0 THEN @ ELSE [@ EXCEPT ![n] = p]]

Grown(q, x) == [Linked(Advanced(q), x) EXCEPT !.search = x]

MoveToFront(q, x, assigned) ==
  LET kept == IF q.search # x \/ x \notin assigned THEN q.search
              ELSE IF q.prev[x] # 0 THEN q.prev[x] ELSE q.next[x]
      moved == Linked(Advanced(Unlinked([q EXCEPT !.search = kept], x)), x)
  IN IF x = q.last THEN IF x \in assigned THEN q ELSE [q EXCEPT !.search = x]
     ELSE IF x \in assigned THEN moved ELSE [moved EXCEPT !.search = x]

\* bump_analyzed: in the order of their stamps.
Oldest(q, S) == CHOOSE x \in S : \A y \in S : q.stamp[x] <= q.stamp[y]
BumpedOldest(s, q, assigned) ==
  [queue |-> MoveToFront(s.queue, Oldest(q, s.left), assigned),
   left |-> s.left \ {Oldest(q, s.left)}]
BumpAnalyzed(q, S, assigned) ==
  LET bumped[n \in 0 .. Cardinality(S)] ==
        IF n = 0 THEN [queue |-> q, left |-> S] ELSE BumpedOldest(bumped[n - 1], q, assigned)
  IN bumped[Cardinality(S)].queue

QueueUnassign(q, x) ==
  IF q.search = 0 \/ q.stamp[x] > q.stamp[q.search] THEN [q EXCEPT !.search = x] ELSE q

Older(q, x, assigned) == IF x = 0 \/ x \notin assigned THEN x ELSE q.prev[x]
Walk(q, assigned) ==
  LET cursor[n \in 0 .. MaxVar] ==
        IF n = 0 THEN q.search ELSE Older(q, cursor[n - 1], assigned)
  IN [q EXCEPT !.search = cursor[MaxVar]]

ResetSearch(q, assigned) == Walk([q EXCEPT !.search = q.last], assigned)
-----------------------------------------------------------------------------
(***************************************************************************)
(* What assigning, bumping and unassigning do to the whole of it, as a     *)
(* record: activity and heap, those of LRB, queue, and LRB's two marks.    *)
(***************************************************************************)
State == [act |-> activity, ord |-> order, lact |-> lrbActivity, lord |-> lrbOrder,
          queue |-> vmtf, stale |-> stale, aged |-> aged, rescaled |-> rescaled]
Becomes(s) ==
  /\ activity' = s.act /\ order' = s.ord /\ lrbActivity' = s.lact /\ lrbOrder' = s.lord
  /\ vmtf' = s.queue /\ stale' = s.stale /\ aged' = s.aged /\ rescaled' = s.rescaled

\* A new activity for x in the heap that LRB scores live in.
Scored(s, x, value) ==
  IF UsesTransfer
  THEN LET act == [s.lact EXCEPT ![x] = value]
       IN [s EXCEPT !.lact = act, !.lord = Update(s.lord, x, s.lact[x], act)]
  ELSE LET act == [s.act EXCEPT ![x] = value]
       IN [s EXCEPT !.act = act, !.ord = Update(s.ord, x, s.act[x], act)]
LrbScore(s, x) == IF UsesTransfer THEN s.lact[x] ELSE s.act[x]

\* lrb_decay_stale_score
Decayed(s, x) ==
  IF ~s.stale[x] THEN s
  ELSE Scored([s EXCEPT !.stale[x] = FALSE], x,
              IF LrbScore(s, x) = 0 THEN 0 ELSE LrbScore(s, x) - 1)

Enqueued(s, x) == IF MaintainsLrb THEN [Decayed(s, x) EXCEPT !.aged[x] = FALSE] ELSE s

\* bump_variable_activity
Bumped(s, x) ==
  LET raised == [s.act EXCEPT ![x] = @ + 1]
      over == raised[x] > MaxActivity
      act == IF over THEN [v \in Var |-> raised[v] \div 2] ELSE raised
  IN [s EXCEPT !.act = act, !.ord = Increase(s.ord, x, act), !.rescaled = @ \/ over]

\* Mutant of Unassigned: only the heap that chooses decisions is refilled.
UnassignedActiveOnly(s, x, reward) ==
  LET scored == IF MaintainsLrb /\ s.aged[x] THEN Scored(s, x, reward[x]) ELSE s
      known == IF MaintainsLrb THEN [scored EXCEPT !.stale[x] = FALSE] ELSE scored
  IN IF UsesVmtf THEN [known EXCEPT !.queue = QueueUnassign(@, x)]
     ELSE [known EXCEPT !.ord = Insert(@, x, known.act),
                        !.lord = IF UsesTransfer THEN Insert(@, x, known.lact) ELSE @,
                        !.queue = QueueUnassign(@, x)]

\* One variable of cancel_until; reward is what LRB earns it.
Unassigned(s, x, reward) ==
  LET scored == IF MaintainsLrb /\ s.aged[x] THEN Scored(s, x, reward[x]) ELSE s
      known == IF MaintainsLrb THEN [scored EXCEPT !.stale[x] = FALSE] ELSE scored
  IN [known EXCEPT !.ord = Insert(@, x, known.act),
                   !.lord = IF UsesTransfer THEN Insert(@, x, known.lact) ELSE @,
                   !.queue = QueueUnassign(@, x)]

Kept(level) == IF Level <= level THEN Len(trail) ELSE limits[level + 1]
Cancelled(s, level, reward) ==
  LET undone[n \in 0 .. Len(trail) - Kept(level)] ==
        IF n = 0 THEN s ELSE Unassigned(undone[n - 1], trail[Len(trail) + 1 - n], reward)
  IN undone[Len(trail) - Kept(level)]

\* LRB rewards what has seen a conflict since it was assigned.
Rewards(s, level) ==
  [{trail[i] : i \in {k \in Kept(level) + 1 .. Len(trail) : MaintainsLrb /\ s.aged[trail[k]]}}
     -> 0 .. MaxActivity]
CancelTo(s, level) ==
  /\ \E reward \in Rewards(s, level) : Becomes(Cancelled(s, level, reward))
  /\ trail' = SubSeq(trail, 1, Kept(level))
  /\ limits' = SubSeq(limits, 1, level)

\* bump everything the analysis saw, as the strategy has it.
BumpedAll(s, seen) ==
  LET all == SetToSeq(seen)
      bumped[n \in 0 .. Len(all)] == IF n = 0 THEN s ELSE Bumped(bumped[n - 1], all[n])
  IN bumped[Len(all)]
Analyzed(s, seen) ==
  LET evsids == IF UsesVmtf THEN strategy = "probe_evsids"
                ELSE strategy \notin {"lrb", "chb"}
      bumped == IF evsids THEN BumpedAll(s, seen) ELSE s
  IN IF UsesVmtf THEN [bumped EXCEPT !.queue = BumpAnalyzed(@, seen, Assigned)] ELSE bumped
-----------------------------------------------------------------------------
BranchingInit ==
  /\ strategy \in Strategies
  /\ reuse \in IF strategy = "evsids" THEN BOOLEAN ELSE {FALSE}
  /\ count = 0 /\ trail = << >> /\ limits = << >>
  /\ activity = [v \in Var |-> 0] /\ lrbActivity = [v \in Var |-> 0]
  /\ order = NoHeap /\ lrbOrder = NoHeap /\ vmtf = NoQueue
  /\ stale = [v \in Var |-> FALSE] /\ aged = [v \in Var |-> FALSE]
  /\ plays = << >> /\ rescaled = FALSE
  /\ stable = FALSE /\ probed = FALSE /\ lrbActive = FALSE
  /\ stage = "idle" /\ analyses = 0

\* grow_variables, between two queries.
NewVariable ==
  /\ stage = "idle" /\ count < MaxVar
  /\ count' = count + 1
  /\ order' = Insert(order, count + 1, activity)
  /\ lrbOrder' = IF UsesTransfer THEN Insert(lrbOrder, count + 1, lrbActivity) ELSE lrbOrder
  /\ vmtf' = Grown(vmtf, count + 1)
  /\ stale' = [stale EXCEPT ![count + 1] = analyses > 0]
  /\ aged' = [aged EXCEPT ![count + 1] = analyses > 0]
  /\ UNCHANGED <<settings, trail, limits, scores, modes, plays, rescaled, stage, analyses>>

Solve ==
  /\ stage = "idle" /\ count > 0
  /\ stage' = "propagate" /\ plays' = << >>
  /\ UNCHANGED <<settings, count, trail, limits, scores, orders, modes, stale, aged,
                 rescaled, analyses>>

Take(x) ==
  /\ trail' = Append(trail, x)
  /\ plays' = IF strategy = "chb" THEN Append(plays, x) ELSE plays

\* Some clause implies a free variable.
Imply ==
  /\ stage = "propagate"
  /\ \E x \in 1 .. count \ Assigned : Take(x) /\ Becomes(Enqueued(State, x))
  /\ UNCHANGED <<settings, count, limits, modes, stage, analyses>>

\* chb_finish_propagation rewards what was assigned.
Rewarded(reward) ==
  LET rewarded[n \in 0 .. Len(plays)] ==
        IF n = 0 THEN State ELSE Scored(rewarded[n - 1], plays[n], reward[plays[n]])
  IN rewarded[Len(plays)]

\* propagate() returns.
Propagated ==
  /\ stage = "propagate"
  /\ stage' \in IF Level > 0 /\ analyses < MaxConflicts[strategy] THEN {"conflict", "decide"}
             ELSE {"decide"}
  /\ \E reward \in [Range(plays) -> 0 .. MaxActivity] : Becomes(Rewarded(reward))
  /\ plays' = << >>
  /\ UNCHANGED <<settings, count, trail, limits, modes, analyses>>

\* Analysis, backtracking and the asserting literal.
Analyze ==
  /\ stage = "conflict"
  /\ analyses' = analyses + 1 /\ stage' = "learned"
  /\ \E seen \in SUBSET {x \in Assigned : ~AtRoot(x)}, level \in 0 .. Level - 1 :
       \E uip \in {x \in seen : AtCurrent(x)} :
         LET all == [v \in Var |-> v <= count]
             s == Analyzed([State EXCEPT !.stale = all, !.aged = all], seen)
         IN /\ \E reward \in Rewards(s, level) :
                 Becomes(Enqueued(Cancelled(s, level, reward), uip))
            /\ trail' = Append(SubSeq(trail, 1, Kept(level)), uip)
            /\ limits' = SubSeq(limits, 1, level)
            /\ plays' = IF strategy = "chb" THEN Append(plays, uip) ELSE plays
  /\ UNCHANGED <<settings, count, modes>>

\* What may be due after a conflict; at most one of these.
Rephase ==
  /\ stage = "learned" /\ stage' = "propagate"
  /\ CancelTo(State, 0)
  /\ UNCHANGED <<settings, count, modes, plays, analyses>>

SwitchMode ==
  /\ stage = "learned" /\ stage' = "propagate"
  /\ strategy = "focused_stable"
  /\ stable' = ~stable
  /\ vmtf' = IF stable THEN ResetSearch(vmtf, Assigned) ELSE vmtf
  /\ UNCHANGED <<settings, count, trail, limits, scores, order, lrbOrder, histories, probed,
                 lrbActive, analyses>>

FinishProbe ==
  /\ stage = "learned" /\ stage' = "propagate"
  /\ ProbeActive
  /\ probed' = TRUE
  /\ UNCHANGED <<settings, count, trail, limits, scores, orders, histories, stable,
                 lrbActive, analyses>>

\* restart_reuse_candidate: levels whose decision still comes before the best
\* free variable.
ReuseLevel(h) ==
  IF h.heap = << >> THEN 0
  ELSE LET Worse(k) == Higher(Head(h.heap), trail[limits[k] + 1], activity)
       IN CHOOSE k \in 0 .. Level :
            /\ \A i \in 1 .. k : ~Worse(i)
            /\ k = Level \/ Worse(k + 1)

RestartSearch ==
  /\ stage = "learned" /\ stage' = "propagate" /\ Level > 0
  /\ LET h == Peeked(order, activity, Assigned)
         asked == strategy = "evsids" /\ reuse
     IN \E level \in IF asked THEN {0, ReuseLevel(h)} ELSE {0} :
          CancelTo([State EXCEPT !.ord = IF asked THEN h ELSE @], level)
  /\ lrbActive' \in IF UsesTransfer THEN BOOLEAN ELSE {lrbActive}
  /\ UNCHANGED <<settings, count, stable, probed, plays, analyses>>

NothingDue ==
  /\ stage = "learned" /\ stage' = "propagate"
  /\ UNCHANGED <<settings, count, trail, limits, scores, orders, modes, histories, analyses>>

\* An assumption opens a level without asking the heaps.
Assume ==
  /\ stage = "decide" /\ stage' = "propagate"
  /\ limits' = Append(limits, Len(trail))
  /\ \E x \in 1 .. count \ Assigned : Take(x) /\ Becomes(Enqueued(State, x))
  /\ UNCHANGED <<settings, count, modes, analyses>>

Decided(s, x) ==
  /\ limits' = Append(limits, Len(trail))
  /\ Take(x) /\ Becomes(Enqueued(s, x))
  /\ stage' = "propagate"
  /\ UNCHANGED <<settings, count, modes, analyses>>

DecideByQueue ==
  /\ stage = "decide" /\ UsesVmtf
  /\ LET q == Walk(vmtf, Assigned)
     IN q.search # 0 /\ Decided([State EXCEPT !.queue = q], q.search)

\* The heap LRB decides by; a stale score at its top is decayed first, which
\* may bring another variable up.
LrbDecides == strategy = "lrb" \/ (UsesTransfer /\ lrbActive)
LrbHeap == IF UsesTransfer THEN lrbOrder ELSE order
WithLrbHeap(h) == IF UsesTransfer THEN [State EXCEPT !.lord = h] ELSE [State EXCEPT !.ord = h]
LrbPeeked == Peeked(LrbHeap, IF UsesTransfer THEN lrbActivity ELSE activity, Assigned)

DecayTop ==
  /\ stage = "decide" /\ ~UsesVmtf /\ LrbDecides
  /\ LrbPeeked.heap # << >> /\ stale[Head(LrbPeeked.heap)]
  /\ Becomes(Decayed(WithLrbHeap(LrbPeeked), Head(LrbPeeked.heap)))
  /\ UNCHANGED <<settings, count, trail, limits, modes, plays, stage, analyses>>

DecideByLrb ==
  /\ stage = "decide" /\ ~UsesVmtf /\ LrbDecides
  /\ LrbPeeked.heap # << >> /\ ~stale[Head(LrbPeeked.heap)]
  /\ Decided(WithLrbHeap(PopMax(LrbPeeked, IF UsesTransfer THEN lrbActivity ELSE activity)),
             Head(LrbPeeked.heap))

DecideByActivity ==
  /\ stage = "decide" /\ ~UsesVmtf /\ ~LrbDecides
  /\ LET h == Peeked(order, activity, Assigned)
     IN h.heap # << >> /\ Decided([State EXCEPT !.ord = PopMax(h, activity)], Head(h.heap))

\* No decision left: the assignment is the model.
NoDecision ==
  \/ UsesVmtf /\ Walk(vmtf, Assigned).search = 0
  \/ ~UsesVmtf /\ LrbDecides /\ LrbPeeked.heap = << >>
  \/ ~UsesVmtf /\ ~LrbDecides /\ Peeked(order, activity, Assigned).heap = << >>

AnswerSat ==
  /\ stage = "decide" /\ NoDecision
  /\ stage' = "sat"
  /\ vmtf' = IF UsesVmtf THEN Walk(vmtf, Assigned) ELSE vmtf
  /\ order' = IF UsesVmtf \/ (UsesTransfer /\ lrbActive) THEN order
              ELSE Peeked(order, activity, Assigned)
  /\ lrbOrder' = IF LrbDecides /\ UsesTransfer THEN LrbPeeked ELSE lrbOrder
  /\ UNCHANGED <<settings, count, trail, limits, scores, modes, histories, analyses>>

\* The query ends, with an answer or without, at a poll after propagation; the
\* next one starts at the root.
Return ==
  /\ stage \in {"conflict", "decide", "sat"} /\ stage' = "idle"
  /\ CancelTo(State, 0)
  /\ UNCHANGED <<settings, count, modes, plays, analyses>>

BranchingNext ==
  \/ NewVariable \/ Solve \/ Imply \/ Propagated \/ Analyze
  \/ Rephase \/ SwitchMode \/ FinishProbe \/ RestartSearch \/ NothingDue
  \/ Assume \/ DecideByQueue \/ DecayTop \/ DecideByLrb \/ DecideByActivity
  \/ AnswerSat \/ Return
BranchingSpec == BranchingInit /\ [][BranchingNext]_branching
-----------------------------------------------------------------------------
\* Every order can still reach every free variable, also those the strategy
\* does not ask now: no variable is ever left undecided.
Holds(h) == \A x \in 1 .. count \ Assigned : h.pos[x] # 0
NoVariableLost ==
  /\ Holds(order) /\ (UsesTransfer => Holds(lrbOrder))
  /\ \A x \in 1 .. count \ Assigned :
       vmtf.search # 0 /\ vmtf.stamp[x] <= vmtf.stamp[vmtf.search]
  /\ stage = "sat" => 1 .. count \subseteq Assigned

\* The structures are what their operations rely on: positions lead to the
\* variables, children are no better than their parents (until scaling down
\* makes activities equal), and the list runs both ways with rising stamps.
Positioned(h) ==
  /\ \A i \in 1 .. Len(h.heap) : h.pos[h.heap[i]] = i
  /\ \A x \in Var : h.pos[x] # 0 => h.pos[x] <= Len(h.heap) /\ h.heap[h.pos[x]] = x
Ordered(h, act) == \A i \in 2 .. Len(h.heap) : ~Higher(h.heap[i], h.heap[i \div 2], act)
OrdersOK ==
  /\ Positioned(order) /\ Positioned(lrbOrder)
  /\ (~rescaled => Ordered(order, activity)) /\ Ordered(lrbOrder, lrbActivity)
  /\ LET list == ListFrom(vmtf, vmtf.first) IN
       /\ Range(list) = 1 .. count /\ Len(list) = count
       /\ vmtf.last = IF count = 0 THEN 0 ELSE Last(list)
       /\ \A i \in 2 .. count : /\ vmtf.prev[list[i]] = list[i - 1]
                                /\ vmtf.stamp[list[i - 1]] < vmtf.stamp[list[i]]
       /\ \A x \in 1 .. count : vmtf.stamp[x] <= vmtf.now
=============================================================================
