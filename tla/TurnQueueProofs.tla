---------------------------- MODULE TurnQueueProofs ----------------------------
(***************************************************************************)
(* What TurnQueue guarantees for every number of turns, prompts and        *)
(* groups, every queue bound and every set of operations.  The first part  *)
(* is what the queue operators preserve, for every queue.                  *)
(***************************************************************************)
EXTENDS TurnQueue, SequenceTheorems, WellFoundedInduction, TLAPS

(***************************************************************************)
(* Induction on the length of a queue, as the least element of a set of    *)
(* counterexamples.                                                        *)
(***************************************************************************)
Below == {pair \in Nat \X Nat : pair[1] < pair[2]}

(* The numbers are well founded by their order, given as a set of pairs.   *)
LEMMA BelowIsWellFounded == IsWellFoundedOn(Below, Nat)
  BY NatLessThanWellFounded, Zenon DEF Below, OpToRel

(* A set of numbers that holds each number whose predecessors it holds     *)
(* holds them all.                                                         *)
LEMMA NatSetInduction ==
  ASSUME NEW S, S \subseteq Nat, 0 \in S, \A n \in S : n + 1 \in S
  PROVE  S = Nat
<1>1. SUFFICES ASSUME Nat \ S # {} PROVE FALSE
  OBVIOUS
<1>2. PICK m \in Nat \ S : \A k \in Nat \ S : ~(<<k, m>> \in Below)
  BY <1>1, BelowIsWellFounded, WFMin
<1>3. m \in Nat /\ m # 0
  BY <1>2
<1>4. m - 1 \in Nat /\ <<m - 1, m>> \in Below
  BY <1>3 DEF Below
<1>5. m - 1 \in S
  BY <1>2, <1>4
<1>6. QED
  BY <1>2, <1>3, <1>5

(***************************************************************************)
(* DropContinues.  Keep is the body of its recursive function, so that     *)
(* Kept(q) is the function it evaluates.                                   *)
(***************************************************************************)
Keep(q, f, n) ==
  IF n = 0 THEN <<>>
  ELSE IF q[n].kind = "goal-continue" THEN f[n - 1] ELSE Append(f[n - 1], q[n])

Kept(q) == CHOOSE f : f = [n \in 0..Len(q) |-> Keep(q, f, n)]

(* The recursion defines a function: its equation has a solution.          *)
LEMMA KeptExists ==
  ASSUME NEW q \in Seq(Item)
  PROVE  \E f : f = [n \in 0..Len(q) |-> Keep(q, f, n)]
<1> DEFINE Solves(f, k) == \A n \in 0..k : f[n] = Keep(q, f, n)
           Solved == {k \in Nat : \E f : f = [n \in 0..k |-> f[n]] /\ Solves(f, k)}
<1>1. 0 \in Solved
  <2> DEFINE f == [n \in 0..0 |-> <<>>]
  <2>1. f = [n \in 0..0 |-> f[n]] /\ Solves(f, 0)
    BY DEF Keep
  <2>2. QED
    BY <2>1
<1>2. ASSUME NEW k \in Solved PROVE k + 1 \in Solved
  <2>1. PICK f : f = [n \in 0..k |-> f[n]] /\ Solves(f, k)
    BY <1>2
  <2> DEFINE g == [n \in 0..(k + 1) |-> IF n = k + 1 THEN Keep(q, f, n) ELSE f[n]]
  <2>2. g = [n \in 0..(k + 1) |-> g[n]]
    OBVIOUS
  <2>3. ASSUME NEW n \in 0..(k + 1) PROVE g[n] = Keep(q, g, n)
    <3>1. n # 0 => n - 1 \in 0..k /\ g[n - 1] = f[n - 1]
      OBVIOUS
    <3>2. Keep(q, g, n) = Keep(q, f, n)
      BY <3>1 DEF Keep
    <3>3. CASE n = k + 1
      BY <3>2, <3>3
    <3>4. CASE n \in 0..k
      BY <2>1, <3>2, <3>4
    <3>5. QED
      BY <3>3, <3>4
  <2> HIDE DEF g
  <2>4. k + 1 \in Nat /\ Solves(g, k + 1)
    BY <2>3
  <2>5. QED
    BY <2>2, <2>4
<1>3. Solved = Nat
  <2> HIDE DEF Solved
  <2>1. Solved \subseteq Nat
    BY DEF Solved
  <2>2. QED
    BY <1>1, <1>2, <2>1, NatSetInduction
<1>4. Len(q) \in Solved
  BY <1>3
<1>5. PICK f : f = [n \in 0..Len(q) |-> f[n]] /\ Solves(f, Len(q))
  BY <1>4
<1>6. f = [n \in 0..Len(q) |-> Keep(q, f, n)]
  BY <1>5
<1>7. QED
  BY <1>6

(* DropContinues(q) is the last value of that function.                    *)
LEMMA DropContinuesIsKept ==
  ASSUME NEW q \in Seq(Item)
  PROVE  /\ DropContinues(q) = Kept(q)[Len(q)]
         /\ \A n \in 0..Len(q) : Kept(q)[n] = Keep(q, Kept(q), n)
<1>1. DropContinues(q) = Kept(q)[Len(q)]
  BY DEF DropContinues, Kept, Keep
<1>2. Kept(q) = [n \in 0..Len(q) |-> Keep(q, Kept(q), n)]
  BY KeptExists DEF Kept
<1>3. QED
  BY <1>1, <1>2

(* Every prefix of the recursion has a property that holds of the empty    *)
(* queue and that Append preserves; stated for what the queue operators    *)
(* need: items stay items, continuations go, everything else stays.        *)
LEMMA DropContinuesFilters ==
  ASSUME NEW q \in Seq(Item)
  PROVE  /\ DropContinues(q) \in Seq(Item)
         /\ Len(DropContinues(q)) <= Len(q)
         /\ \A i \in DOMAIN DropContinues(q) :
              /\ DropContinues(q)[i].kind # "goal-continue"
              /\ \E j \in DOMAIN q : DropContinues(q)[i] = q[j]
         /\ \A j \in DOMAIN q : q[j].kind # "goal-continue"
              => \E i \in DOMAIN DropContinues(q) : DropContinues(q)[i] = q[j]
<1> DEFINE Filters(r, n) ==
             /\ r \in Seq(Item)
             /\ Len(r) <= n
             /\ \A i \in DOMAIN r : /\ r[i].kind # "goal-continue"
                                    /\ \E j \in DOMAIN q : r[i] = q[j]
             /\ \A j \in 1..n : q[j].kind # "goal-continue"
                  => \E i \in DOMAIN r : r[i] = q[j]
           Good == {n \in Nat : n <= Len(q) => Filters(Kept(q)[n], n)}
<1>1. 0 \in Good
  <2>1. 0 \in 0..Len(q)
    OBVIOUS
  <2>2. Kept(q)[0] = <<>>
    BY <2>1, DropContinuesIsKept DEF Keep
  <2>3. Filters(<<>>, 0)
    OBVIOUS
  <2>4. QED
    BY <2>2, <2>3
<1>2. ASSUME NEW n \in Good PROVE n + 1 \in Good
  <2> SUFFICES ASSUME n + 1 <= Len(q) PROVE Filters(Kept(q)[n + 1], n + 1)
    OBVIOUS
  <2> DEFINE r == Kept(q)[n]
             s == Kept(q)[n + 1]
             item == q[n + 1]
  <2>1. n \in Nat /\ Filters(r, n)
    OBVIOUS
  <2>2. s = IF item.kind = "goal-continue" THEN r ELSE Append(r, item)
    <3>1. n + 1 \in 0..Len(q) /\ n + 1 # 0 /\ (n + 1) - 1 = n
      BY <2>1
    <3>2. Kept(q)[n + 1] = Keep(q, Kept(q), n + 1)
      BY <3>1, DropContinuesIsKept
    <3>3. QED
      BY <3>1, <3>2 DEF Keep
  <2>3. item \in Item /\ n + 1 \in DOMAIN q
    BY <2>1
  <2> HIDE DEF r, s
  <2>4. ASSUME item.kind = "goal-continue" PROVE Filters(s, n + 1)
    <3>1. s = r /\ Len(r) <= n + 1
      BY <2>1, <2>2, <2>4
    <3>2. \A j \in 1..(n + 1) : q[j].kind # "goal-continue" => j \in 1..n
      BY <2>1, <2>4
    <3>3. QED
      BY <2>1, <3>1, <3>2
  <2>5. ASSUME item.kind # "goal-continue" PROVE Filters(s, n + 1)
    <3>1. s \in Seq(Item) /\ Len(s) = Len(r) + 1 /\ Len(s) <= n + 1
      BY <2>1, <2>2, <2>3, <2>5
    <3>2. s[Len(s)] = item /\ \A i \in DOMAIN r : i \in DOMAIN s /\ s[i] = r[i]
      BY <2>1, <2>2, <2>3, <2>5
    <3>3. ASSUME NEW i \in DOMAIN s
          PROVE  s[i].kind # "goal-continue" /\ \E j \in DOMAIN q : s[i] = q[j]
      <4>1. i \in DOMAIN r \/ i = Len(s)
        BY <2>1, <3>1
      <4>2. QED
        BY <2>1, <2>3, <2>5, <3>2, <4>1
    <3>4. ASSUME NEW j \in 1..(n + 1), q[j].kind # "goal-continue"
          PROVE  \E i \in DOMAIN s : s[i] = q[j]
      <4>1. CASE j = n + 1
        BY <3>1, <3>2, <4>1
      <4>2. CASE j \in 1..n
        BY <2>1, <3>2, <3>4, <4>2
      <4>3. QED
        BY <2>1, <4>1, <4>2
    <3>5. QED
      BY <3>1, <3>3, <3>4
  <2>6. QED
    BY <2>4, <2>5 DEF s
<1>3. Good = Nat
  <2> HIDE DEF Good
  <2>1. Good \subseteq Nat
    BY DEF Good
  <2>2. QED
    BY <1>1, <1>2, <2>1, NatSetInduction
<1>4. Len(q) \in Good /\ Len(q) <= Len(q) /\ DOMAIN q = 1..Len(q)
  BY <1>3
<1>5. Filters(Kept(q)[Len(q)], Len(q))
  BY <1>4
<1>6. QED
  BY <1>4, <1>5, DropContinuesIsKept

-----------------------------------------------------------------------------
(***************************************************************************)
(* The rules on items, queues and Goals keep their types.                  *)
(***************************************************************************)
(* Making, recording, elevating and revoking an item yields an item; only  *)
(* its permission changes.                                                 *)
LEMMA ItemRules ==
  ASSUME NEW item \in Item, NEW g \in Goal, NEW mode \in Modes
  PROVE  /\ Recorded(item, g, mode) \in Item
         /\ Recorded(item, g, mode).kind = item.kind
         /\ Elevated(item, g) \in Item
         /\ Elevated(item, g).kind = item.kind
         /\ Revoked(item, mode) \in Item
         /\ Revoked(item, mode).kind = item.kind
         /\ Revoked(item, mode).id = item.id
<1>1. Recorded(item, g, mode) \in Item /\ Recorded(item, g, mode).kind = item.kind
  BY ZenonT(30) DEF Recorded, Item, Modes
<1>2. Elevated(item, g) \in Item /\ Elevated(item, g).kind = item.kind
  BY ZenonT(30) DEF Elevated, Item, Modes
<1>3. /\ Revoked(item, mode) \in Item
      /\ Revoked(item, mode).kind = item.kind
      /\ Revoked(item, mode).id = item.id
  BY DEF Revoked, Item, Modes
<1>4. QED
  BY <1>1, <1>2, <1>3

(* A new item is an item.                                                  *)
LEMMA NewItemType ==
  ASSUME NEW id \in Prompts \cup {NoPrompt}, NEW kind \in Kinds, NEW mode \in Modes,
         NEW asked \in Modes \cup {"none"}
  PROVE  NewItem(id, kind, mode, asked) \in Item /\ NewItem(id, kind, mode, asked).kind = kind
BY DEF NewItem, Item

(* Revoking a queue changes no identity and no kind.                       *)
LEMMA RevokeAllKeeps ==
  ASSUME NEW q \in Seq(Item), NEW mode \in Modes
  PROVE  /\ RevokeAll(q, mode) \in Seq(Item)
         /\ Len(RevokeAll(q, mode)) = Len(q)
         /\ \A i \in DOMAIN q : /\ RevokeAll(q, mode)[i].kind = q[i].kind
                                /\ RevokeAll(q, mode)[i].id = q[i].id
<1>1. \A i \in DOMAIN q : /\ q[i] \in Item
                          /\ Revoked(q[i], mode) \in Item
                          /\ Revoked(q[i], mode).kind = q[i].kind
                          /\ Revoked(q[i], mode).id = q[i].id
  <2> TAKE i \in DOMAIN q
  <2>1. PICK g : g \in Goal
    <3>1. NoGoal \in Goal
      BY BoundsAssumption DEF NoGoal, Goal, GoalStatus, Modes
    <3>2. QED
      BY <3>1
  <2>2. q[i] \in Item
    OBVIOUS
  <2>3. QED
    BY <2>1, <2>2, ItemRules
<1>2. RevokeAll(q, mode) = [i \in 1..Len(q) |-> Revoked(q[i], mode)]
  BY DEF RevokeAll
<1>3. QED
  BY <1>1, <1>2

(* The queue takeNextQueueItem looks at is a queue; it is empty when the   *)
(* queue is, and brings in no host continuation.                           *)
LEMMA DrainableKeeps ==
  ASSUME NEW q \in Seq(Item), NEW g \in Goal
  PROVE  /\ Drainable(q, g) \in Seq(Item)
         /\ q = <<>> => Drainable(q, g) = <<>>
         /\ ~Has(q, {"goal-continue"}) => ~Has(Drainable(q, g), {"goal-continue"})
<1> DEFINE kept == IF g.on /\ ~Elevates(g) THEN RevokeAll(q, g.previous) ELSE q
<1>1. g.previous \in Modes
  BY DEF Goal
<1>2. /\ kept \in Seq(Item)
      /\ Len(kept) = Len(q)
      /\ \A i \in DOMAIN q : kept[i].kind = q[i].kind
  BY <1>1, RevokeAllKeeps
<1>3. ~Has(q, {"goal-continue"}) => ~Has(kept, {"goal-continue"})
  BY <1>2 DEF Has
<1>4. Drainable(q, g) = kept \/ Drainable(q, g) = DropContinues(kept)
  BY DEF Drainable
<1> HIDE DEF kept
<1>5. ~Has(DropContinues(kept), {"goal-continue"}) /\ DropContinues(kept) \in Seq(Item)
  BY <1>2, DropContinuesFilters DEF Has
<1>6. Len(DropContinues(kept)) <= Len(kept)
  BY <1>2, DropContinuesFilters
<1>7. q = <<>> => kept = <<>> /\ DropContinues(kept) = <<>>
  BY <1>2, <1>5, <1>6
<1>8. QED
  BY <1>2, <1>3, <1>4, <1>5, <1>7

(* Removing host continuations leaves none, and empties no user item.      *)
LEMMA DropContinuesLeavesNone ==
  ASSUME NEW q \in Seq(Item)
  PROVE  DropContinues(q) \in Seq(Item) /\ ~Has(DropContinues(q), {"goal-continue"})
BY DropContinuesFilters DEF Has

(* The empty queue has nothing to drop and nothing to revoke.              *)
LEMMA EmptyStaysEmpty ==
  ASSUME NEW mode \in Modes
  PROVE  DropContinues(<<>>) = <<>> /\ RevokeAll(<<>>, mode) = <<>>
<1> DEFINE none == <<>>
<1>1. none \in Seq(Item) /\ Len(none) = 0
  OBVIOUS
<1> HIDE DEF none
<1>2. DropContinues(none) \in Seq(Item) /\ Len(DropContinues(none)) <= Len(none)
  BY <1>1, DropContinuesFilters
<1>3. RevokeAll(none, mode) \in Seq(Item) /\ Len(RevokeAll(none, mode)) = Len(none)
  BY <1>1, RevokeAllKeeps
<1>4. DropContinues(none) = <<>>
  BY <1>1, <1>2
<1>5. RevokeAll(none, mode) = <<>>
  BY <1>1, <1>3
<1>6. QED
  BY <1>4, <1>5 DEF none

(* The Goal stays a Goal through every outcome and continuation, and only  *)
(* a stop turns it off.                                                    *)
LEMMA GoalRules ==
  ASSUME NEW g \in Goal, NEW outcome, NEW done \in BOOLEAN, NEW mode \in Modes
  PROVE  /\ AfterTurn(g, outcome, done) \in Goal
         /\ AfterTurn(g, outcome, done).on = g.on
         /\ ~OutOfBudget(g) => Continuing(g) \in Goal
         /\ Continuing(g).on = g.on
         /\ Exhausted(g) \in Goal
         /\ Exhausted(g).on = g.on
         /\ NewGoal(mode) \in Goal
         /\ NewGoal(mode).on
<1>1. AfterTurn(g, outcome, done) \in Goal /\ AfterTurn(g, outcome, done).on = g.on
  <2> DEFINE n == IF g.failures < 3 THEN g.failures + 1 ELSE 3
             ended == CASE done -> "complete"
                        [] ~done /\ g.status # "paused" -> "active"
                        [] OTHER -> g.status
  <2>1. n \in 0..3 /\ ended \in GoalStatus
    <3>1. g.failures \in 0..3 /\ g.status \in GoalStatus
      BY DEF Goal
    <3>2. QED
      BY <3>1 DEF GoalStatus
  <2> DEFINE paused == [g EXCEPT !.status = "paused"]
             failed == [g EXCEPT !.failures = n,
                                 !.status = IF n >= 3 THEN "failed" ELSE "paused"]
             completed == [g EXCEPT !.failures = 0, !.status = ended]
  <2>2. paused \in Goal /\ paused.on = g.on
    BY DEF Goal, GoalStatus
  <2>3. failed \in Goal /\ failed.on = g.on
    <3> HIDE DEF n
    <3>1. QED
      BY <2>1 DEF Goal, GoalStatus
  <2>4. completed \in Goal /\ completed.on = g.on
    <3>1. \A m \in 0..3, st \in GoalStatus :
             LET h == [g EXCEPT !.failures = m, !.status = st]
             IN  h \in Goal /\ h.on = g.on
      BY DEF Goal
    <3> HIDE DEF ended
    <3>2. 0 \in 0..3
      OBVIOUS
    <3>3. QED
      BY <2>1, <3>1, <3>2, Zenon
  <2>5. AfterTurn(g, outcome, done) \in {g, paused, failed, completed}
    BY DEF AfterTurn
  <2>6. QED
    BY <2>2, <2>3, <2>4, <2>5
<1>2. ~OutOfBudget(g) => Continuing(g) \in Goal
  <2>1. ~OutOfBudget(g) => g.continues + 1 \in 0..MaxContinues
    BY BoundsAssumption DEF OutOfBudget, Goal
  <2>2. QED
    BY <2>1 DEF Continuing, Goal, GoalStatus
<1>3. Continuing(g).on = g.on
  BY DEF Continuing, Goal
<1>4. Exhausted(g) \in Goal /\ Exhausted(g).on = g.on
  BY DEF Exhausted, Goal, GoalStatus
<1>5. NewGoal(mode) \in Goal /\ NewGoal(mode).on
  BY BoundsAssumption DEF NewGoal, Goal, GoalStatus
<1>6. QED
  BY <1>1, <1>2, <1>3, <1>4, <1>5

(***************************************************************************)
(* Type correctness.  Announced is what bounds the number of reports: a    *)
(* group is noted at most twice, and every note is injected at most once.  *)
(***************************************************************************)
Owed(g) == IF g \in handoffs THEN 1 ELSE 0

Notes(g) == IF group[g] = "working" THEN 0 ELSE IF group[g] = "noted" THEN 1 ELSE 2

Announced == \A g \in Groups : reports[g] + Owed(g) <= Notes(g)

TypeInv == TypeOK /\ Announced

(* Constant records and sequences the actions assign.                      *)
LEMMA ConstantTypes ==
  /\ NoGoal \in Goal /\ ~NoGoal.on
  /\ NoControl \in ControlState
  /\ IdleTurn \in TurnState
  /\ <<>> \in Seq(Item)
  /\ ContinueItem \in Item /\ ContinueItem.kind = "goal-continue"
<1>1. NoGoal \in Goal /\ ~NoGoal.on
  BY BoundsAssumption DEF NoGoal, Goal, GoalStatus, Modes
<1>2. NoControl \in ControlState
  BY <1>1 DEF NoControl, ControlState, Modes
<1>3. IdleTurn \in TurnState
  BY DEF IdleTurn, TurnState
<1>4. ContinueItem \in Item /\ ContinueItem.kind = "goal-continue"
  BY NewItemType DEF ContinueItem, Kinds, Modes
<1>5. QED
  BY <1>1, <1>2, <1>3, <1>4

(* The initial state is of the right type.                                 *)
LEMMA TypeInit == Init => TypeInv
<1> SUFFICES ASSUME Init PROVE TypeInv
  OBVIOUS
<1>1. TypeOK
  <2>1. "idle" \in Statuses /\ "plan" \in Modes
    BY DEF Statuses, Modes
  <2>2. NoTimer \in TimerState
    BY DEF NoTimer, TimerState
  <2>3. 0 \in 0..2 /\ 0 \in WakingCount
    BY DEF WakingCount
  <2>4. QED
    BY <2>1, <2>2, <2>3, ConstantTypes DEF Init, TypeOK
<1>2. Announced
  BY DEF Init, Announced, Owed, Notes
<1>3. QED
  BY <1>1, <1>2 DEF TypeInv

(* Announced depends on the wake-batch alone.                              *)
LEMMA AnnouncedKept ==
  ASSUME Announced, UNCHANGED wakeVars
  PROVE  Announced'
BY DEF Announced, Owed, Notes, wakeVars

(* What the host does with the Goal and the queue after a turn.            *)
LEMMA HostContinuesType ==
  ASSUME NEW t \in Turns, NEW g \in Goal, NEW q \in Seq(Item)
  PROVE  /\ HostContinues(t, g, q)[1] \in Goal
         /\ HostContinues(t, g, q)[1].on = g.on
         /\ HostContinues(t, g, q)[2] \in Seq(Item)
         /\ ~g.on /\ ~Has(q, {"goal-continue"})
              => ~Has(HostContinues(t, g, q)[2], {"goal-continue"})
<1> DEFINE h == HostContinues(t, g, q)
<1>1. CASE turn[t].wasQuarantined \/ disposed \/ gate
  BY <1>1 DEF HostContinues
<1>2. CASE ~(turn[t].wasQuarantined \/ disposed \/ gate) /\ SkipsContinue(g)
  <2>1. h = <<Exhausted(g), q>>
    BY <1>2 DEF HostContinues
  <2>2. Exhausted(g) \in Goal /\ Exhausted(g).on = g.on
    BY GoalRules DEF Modes
  <2>3. QED
    BY <2>1, <2>2
<1>3. CASE ~(turn[t].wasQuarantined \/ disposed \/ gate) /\ ~SkipsContinue(g)
  <2>1. g.on /\ ~OutOfBudget(g)
    BY <1>3 DEF SkipsContinue, Elevates
  <2>2. \/ h = <<g, DropContinues(q)>> \/ h = <<g, q>>
        \/ h = <<Continuing(g), Append(q, ContinueItem)>>
    BY <1>3 DEF HostContinues
  <2>3. Continuing(g) \in Goal /\ Continuing(g).on = g.on
    BY <2>1, GoalRules DEF Modes
  <2>4. DropContinues(q) \in Seq(Item) /\ Append(q, ContinueItem) \in Seq(Item)
    BY DropContinuesLeavesNone, ConstantTypes
  <2> HIDE DEF h
  <2>5. h[1] \in Goal /\ h[1].on = g.on /\ h[2] \in Seq(Item)
    <3>1. CASE h = <<g, DropContinues(q)>>
      BY <2>4, <3>1
    <3>2. CASE h = <<g, q>>
      BY <3>2
    <3>3. CASE h = <<Continuing(g), Append(q, ContinueItem)>>
      BY <2>3, <2>4, <3>3
    <3>4. QED
      BY <2>2, <3>1, <3>2, <3>3
  <2>6. QED
    BY <2>1, <2>5 DEF h
<1>4. QED
  BY <1>1, <1>2, <1>3

(* What beginPrompt assigns.                                               *)
LEMMA BeginType ==
  ASSUME NEW item \in Item, NEW g \in Goal, NEW new \in Turns,
         NEW others \in [Turns -> TurnState], warrant \in {"user", "schedule", "goal", "none"},
         Begin(item, g, new, others)
  PROVE  /\ running' \in BOOLEAN /\ interrupting' \in BOOLEAN /\ status' \in Statuses
         /\ currentTurnId' \in Turns /\ controller' \in Turns
         /\ currentMode' \in Modes /\ permission' \in Modes
         /\ warrant' \in {"user", "schedule", "goal", "none"}
         /\ idleTimer' \in BOOLEAN /\ turn' \in [Turns -> TurnState]
<1>1. TurnMode(item) \in Modes
  BY DEF TurnMode, Item, Modes
<1>2. [IdleTurn EXCEPT !.pc = "start"] \in TurnState
  BY DEF IdleTurn, TurnState
<1>3. WarrantOf(item, g) \in {"user", "schedule", "goal", "none"}
  BY DEF WarrantOf
<1>4. QED
  BY <1>1, <1>2, <1>3 DEF Begin, Statuses

(* What an abort assigns; it moves no turn.                                *)
LEMMA AbortedType ==
  ASSUME TypeOK, NEW reason \in {"user", "guided"}
  PROVE  /\ Aborted(reason) \in [Turns -> TurnState]
         /\ \A t \in Turns : Aborted(reason)[t].pc = turn[t].pc
<1>1. turn \in [Turns -> TurnState] /\ controller \in Turns \cup {NoTurn}
  BY DEF TypeOK
<1>2. QED
  BY <1>1 DEF Aborted, TurnState

(* What requestTurnInterrupt assigns.                                      *)
LEMMA RequestInterruptType ==
  ASSUME TypeOK, NEW reason \in {"user", "guided"}, RequestInterrupt(reason)
  PROVE  /\ interrupting' \in BOOLEAN /\ status' \in Statuses /\ asks' = {}
         /\ turn' \in [Turns -> TurnState]
         /\ forceSettle' \in TimerState
<1>1. currentTurnId \in Turns \cup {NoTurn}
  BY DEF TypeOK
<1>2. QED
  BY <1>1, AbortedType DEF RequestInterrupt, Statuses, NoTimer, TimerState, TypeOK

(* What the head of the finally block assigns.                             *)
LEMMA SettleType ==
  ASSUME TypeOK, NEW t \in Turns, NEW ended \in Statuses, Settle(t, ended)
  PROVE  /\ interrupting' \in BOOLEAN /\ status' \in Statuses
         /\ controller' \in Turns \cup {NoTurn} /\ quarantinedTurnId' \in Turns \cup {NoTurn}
         /\ forceSettle' \in TimerState
         /\ turn' \in [Turns -> TurnState]
<1>1. turn \in [Turns -> TurnState]
  BY DEF TypeOK
<1>2. CASE ~OwnsTurn(t)
  <2>1. turn' \in [Turns -> TurnState]
    BY <1>1, <1>2, ConstantTypes DEF Settle
  <2>2. QED
    BY <1>2, <2>1 DEF Settle, TypeOK
<1>3. CASE OwnsTurn(t)
  <2>1. turn' \in [Turns -> TurnState]
    BY <1>1, <1>3 DEF Settle, TurnState
  <2>2. /\ interrupting' = FALSE
        /\ status' = "interrupted" \/ status' = ended
        /\ controller' = NoTurn /\ quarantinedTurnId' = NoTurn /\ forceSettle' = NoTimer
    BY <1>3 DEF Settle
  <2>3. "interrupted" \in Statuses
    BY DEF Statuses, Outcomes
  <2>4. QED
    BY <2>1, <2>2, <2>3 DEF NoTimer, TimerState
<1>4. QED
  BY <1>2, <1>3

(* What the tail of the finally block assigns.                             *)
LEMMA FinishType ==
  ASSUME TypeOK, NEW t \in Turns, NEW may, NEW g \in Goal, NEW q \in Seq(Item), NEW bad,
         NEW waiting \in SUBSET Prompts, Finish(t, may, g, q, bad, waiting)
  PROVE  /\ goal' = g /\ queue' \in Seq(Item) /\ accepted' \in SUBSET Prompts
         /\ running' \in BOOLEAN /\ interrupting' \in BOOLEAN /\ status' \in Statuses
         /\ currentTurnId' \in Turns \cup {NoTurn} /\ controller' \in Turns \cup {NoTurn}
         /\ currentMode' \in Modes /\ permission' \in Modes
         /\ warrant' \in {"user", "schedule", "goal", "none"}
         /\ idleTimer' \in BOOLEAN /\ turn' \in [Turns -> TurnState]
<1> DEFINE left == IF may /\ ~gate THEN Drainable(q, g) ELSE q
           pops == (may /\ ~gate) /\ HeadReady(left)
           next == Elevated(Head(left), g)
           over == [IdleTurn EXCEPT !.pc = IF g.on THEN "save" ELSE "idle"]
           begun == [turn EXCEPT ![t] = [over EXCEPT !.startedNext = g.on]]
<1>1. left \in Seq(Item)
  BY DrainableKeeps
<1>2. pops => Head(left) \in Item /\ Tail(left) \in Seq(Item)
  <2> HIDE DEF left
  <2>1. pops => left # <<>>
    BY DEF HeadReady
  <2>2. QED
    BY <1>1, <2>1
<1>3. goal' = g /\ queue' = IF pops THEN Tail(left) ELSE left
  BY DEF Finish
<1>4. /\ turn \in [Turns -> TurnState] /\ g.on \in BOOLEAN
      /\ warrant \in {"user", "schedule", "goal", "none"}
  BY DEF TypeOK, Goal
<1>5. over \in TurnState /\ [over EXCEPT !.startedNext = g.on] \in TurnState
  BY <1>4 DEF TurnState, IdleTurn
<1>6. CASE pops /\ CanBegin(next, g, bad)
  <2>1. /\ \E new \in FreeTurns : Begin(next, g, new, begun)
        /\ accepted' = waiting \ {next.id}
    BY <1>6 DEF Finish
  <2>2. PICK new \in Turns : Begin(next, g, new, begun)
    BY <2>1 DEF FreeTurns
  <2> HIDE DEF over, left
  <2>3. begun \in [Turns -> TurnState]
    BY <1>4, <1>5
  <2>4. next \in Item
    BY <1>2, <1>6, ItemRules DEF Modes
  <2>5. /\ running' \in BOOLEAN /\ interrupting' \in BOOLEAN /\ status' \in Statuses
        /\ currentTurnId' \in Turns /\ controller' \in Turns
        /\ currentMode' \in Modes /\ permission' \in Modes
        /\ warrant' \in {"user", "schedule", "goal", "none"}
        /\ idleTimer' \in BOOLEAN /\ turn' \in [Turns -> TurnState]
    <3> HIDE DEF next, begun
    <3>1. QED
      BY <1>4, <2>2, <2>3, <2>4, BeginType
  <2>6. QED
    BY <1>1, <1>2, <1>3, <2>1, <2>5
<1>7. CASE ~(pops /\ CanBegin(next, g, bad))
  <2>1. /\ running' = FALSE
        /\ idleTimer' = (idleTimer \/ (~pops /\ SchedulesWake))
        /\ currentTurnId' = IF g.on \/ disposed THEN currentTurnId ELSE NoTurn
        /\ turn' = [turn EXCEPT ![t] = over]
        /\ accepted' = waiting
        /\ UNCHANGED <<interrupting, status, controller, currentMode, permission, warrant>>
    BY <1>7 DEF Finish
  <2>2. idleTimer' \in BOOLEAN
    BY <2>1
  <2> HIDE DEF over, left, pops
  <2>3. turn' \in [Turns -> TurnState]
    BY <1>4, <1>5, <2>1
  <2>4. queue' \in Seq(Item)
    BY <1>1, <1>2, <1>3
  <2>5. /\ currentTurnId \in Turns \cup {NoTurn} /\ interrupting \in BOOLEAN
        /\ status \in Statuses /\ controller \in Turns \cup {NoTurn}
        /\ currentMode \in Modes /\ permission \in Modes
    BY DEF TypeOK
  <2>6. QED
    BY <1>3, <1>4, <2>1, <2>2, <2>3, <2>4, <2>5
<1>8. QED
  BY <1>6, <1>7

(* Items that clients submit and steer with are items.                     *)
LEMMA SubmittedItemType ==
  ASSUME NEW p \in Prompts, NEW kind \in Kinds, NEW m \in RequestModes, NEW g \in Goal
  PROVE  SubmittedItem(p, kind, m, g) \in Item /\ SubmittedItem(p, kind, m, g).kind = kind
<1> DEFINE mode == IF Elevates(g) THEN "fullAccess" ELSE m
           asked == IF Elevates(g) /\ m = "fullAccess" THEN "none" ELSE m
<1>1. m \in Modes /\ mode \in Modes /\ asked \in Modes \cup {"none"}
  BY TurnAssumption DEF Modes
<1> HIDE DEF mode, asked
<1>2. NewItem(p, kind, mode, asked) \in Item /\ NewItem(p, kind, mode, asked).kind = kind
  BY <1>1, NewItemType
<1>3. QED
  BY <1>1, <1>2, ItemRules DEF SubmittedItem, mode, asked

(* Steering text becomes an item of kind guide.                            *)
LEMMA GuideItemType ==
  ASSUME TypeOK, NEW id \in Prompts \cup {NoPrompt}, NEW m \in RequestModes \cup {"inherit"}
  PROVE  GuideItem(id, m) \in Item /\ GuideItem(id, m).kind = "guide"
<1>1. currentMode \in Modes /\ "guide" \in Kinds
  BY DEF TypeOK, Kinds
<1>2. CASE m = "inherit"
  <2> DEFINE asked == IF warrant = "goal" THEN "none" ELSE currentMode
  <2>1. GuideItem(id, m) = NewItem(id, "guide", currentMode, asked)
    BY <1>2 DEF GuideItem
  <2>2. asked \in Modes \cup {"none"}
    BY <1>1
  <2> HIDE DEF asked
  <2>3. /\ NewItem(id, "guide", currentMode, asked) \in Item
        /\ NewItem(id, "guide", currentMode, asked).kind = "guide"
    BY <1>1, <2>2, NewItemType
  <2>4. QED
    BY <2>1, <2>3
<1>3. CASE m # "inherit"
  <2> DEFINE asked == IF Elevates(goal) /\ m = "fullAccess" THEN "none" ELSE m
  <2>1. GuideItem(id, m) = NewItem(id, "guide", m, asked)
    BY <1>3 DEF GuideItem
  <2>2. m \in Modes /\ asked \in Modes \cup {"none"}
    BY <1>3, TurnAssumption
  <2> HIDE DEF asked
  <2>3. /\ NewItem(id, "guide", m, asked) \in Item
        /\ NewItem(id, "guide", m, asked).kind = "guide"
    BY <1>1, <2>2, NewItemType
  <2>4. QED
    BY <2>1, <2>3
<1>4. QED
  BY <1>2, <1>3

(* A queue without one of its items.                                       *)
LEMMA WithoutType ==
  ASSUME NEW q \in Seq(Item), NEW i \in DOMAIN q
  PROVE  /\ Without(q, i) \in Seq(Item)
         /\ \A j \in DOMAIN Without(q, i) : \E k \in DOMAIN q : Without(q, i)[j] = q[k]
         /\ \A k \in DOMAIN q : k = i \/ \E j \in DOMAIN Without(q, i) : Without(q, i)[j] = q[k]
<1> DEFINE before == SubSeq(q, 1, i - 1)
           after == SubSeq(q, i + 1, Len(q))
<1>1. i \in 1..Len(q) /\ Len(q) \in Nat
  OBVIOUS
<1>2. /\ before \in Seq(Item) /\ Len(before) = i - 1
      /\ \A j \in 1..(i - 1) : before[j] = q[j]
  <2>1. \A j \in 1..(i - 1) : q[j] \in Item
    BY <1>1
  <2>2. /\ Len(before) = IF 1 <= i - 1 THEN (i - 1) - 1 + 1 ELSE 0
        /\ \A j \in 1..((i - 1) - 1 + 1) : before[j] = q[1 + j - 1]
        /\ before \in Seq(Item)
    BY <1>1, <2>1, SubSeqProperties
  <2> HIDE DEF before
  <2>3. QED
    BY <1>1, <2>2
<1>3. /\ after \in Seq(Item) /\ Len(after) = Len(q) - i
      /\ \A j \in 1..(Len(q) - i) : after[j] = q[i + j]
  <2>1. \A j \in (i + 1)..Len(q) : q[j] \in Item
    BY <1>1
  <2>2. /\ Len(after) = IF i + 1 <= Len(q) THEN Len(q) - (i + 1) + 1 ELSE 0
        /\ \A j \in 1..(Len(q) - (i + 1) + 1) : after[j] = q[(i + 1) + j - 1]
        /\ after \in Seq(Item)
    BY <1>1, <2>1, SubSeqProperties
  <2> HIDE DEF after
  <2>3. QED
    BY <1>1, <2>2
<1>4. Without(q, i) = before \o after
  BY DEF Without
<1> HIDE DEF before, after
<1>5. /\ Without(q, i) \in Seq(Item) /\ DOMAIN Without(q, i) = 1..(Len(q) - 1)
      /\ \A j \in 1..(Len(q) - 1) : Without(q, i)[j] = IF j < i THEN q[j] ELSE q[j + 1]
  <2>1. /\ before \o after \in Seq(Item)
        /\ Len(before \o after) = Len(before) + Len(after)
        /\ \A j \in 1..(Len(before) + Len(after)) :
             (before \o after)[j] = IF j <= Len(before) THEN before[j]
                                   ELSE after[j - Len(before)]
    BY <1>2, <1>3, ConcatProperties
  <2>2. Len(before) + Len(after) = Len(q) - 1
    BY <1>1, <1>2, <1>3
  <2>3. ASSUME NEW j \in 1..(Len(q) - 1)
        PROVE  Without(q, i)[j] = IF j < i THEN q[j] ELSE q[j + 1]
    <3>1. CASE j < i
      BY <1>1, <1>2, <1>4, <2>1, <2>2, <3>1
    <3>2. CASE ~(j < i)
      <4>1. j - (i - 1) \in 1..(Len(q) - i) /\ i + (j - (i - 1)) = j + 1
        BY <1>1, <3>2
      <4>2. Without(q, i)[j] = after[j - (i - 1)]
        BY SMTT(30), <1>1, <1>2, <1>4, <2>1, <2>2, <3>2
      <4>3. after[j - (i - 1)] = q[i + (j - (i - 1))]
        BY <1>3, <4>1
      <4>4. QED
        BY <3>2, <4>1, <4>2, <4>3
    <3>3. QED
      BY <3>1, <3>2
  <2>4. Without(q, i) \in Seq(Item) /\ DOMAIN Without(q, i) = 1..(Len(q) - 1)
    BY <1>4, <2>1, <2>2
  <2>5. QED
    BY <2>3, <2>4
<1>6. \A j \in DOMAIN Without(q, i) : \E k \in DOMAIN q : Without(q, i)[j] = q[k]
  BY SMTT(30), <1>1, <1>5
<1>7. ASSUME NEW k \in DOMAIN q, k # i
      PROVE  \E j \in DOMAIN Without(q, i) : Without(q, i)[j] = q[k]
  <2>1. k \in 1..Len(q)
    OBVIOUS
  <2>2. CASE k < i
    BY <1>1, <1>5, <2>1, <2>2
  <2>3. CASE k > i
    <3>1. k - 1 \in 1..(Len(q) - 1) /\ ~(k - 1 < i) /\ (k - 1) + 1 = k
      BY <1>1, <2>1, <2>3
    <3>2. QED
      BY <1>5, <3>1
  <2>4. QED
    BY <1>1, <1>7, <2>1, <2>2, <2>3
<1>8. QED
  BY <1>5, <1>6, <1>7

(* Submitting starts a turn or queues a prompt.                            *)
LEMMA StartTypes ==
  ASSUME TypeInv, NEW p \in Prompts, NEW kind \in Kinds, NEW m \in RequestModes,
         NEW withGoal \in BOOLEAN, Start(p, kind, m, withGoal)
  PROVE  TypeOK'
<1>1. ASSUME NEW prior \in Modes PROVE GoalOfRequest(withGoal, prior) \in Goal
  BY <1>1, GoalRules DEF GoalOfRequest, TypeInv, TypeOK
<1>2. IdleMode(m) \in Modes /\ permission \in Modes
  BY TurnAssumption DEF IdleMode, Modes, TypeInv, TypeOK
<1>3. ASSUME NEW new \in FreeTurns, StartIdle(p, kind, m, withGoal, new) PROVE TypeOK'
  <2> DEFINE g == GoalOfRequest(withGoal, IdleMode(m))
             item == SubmittedItem(p, kind, m, g)
  <2>1. g \in Goal /\ item \in Item
    BY <1>1, <1>2, SubmittedItemType
  <2>2. /\ goal' = g /\ Begin(item, g, new, turn) /\ new \in Turns
        /\ turn \in [Turns -> TurnState] /\ warrant \in {"user", "schedule", "goal", "none"}
    BY <1>3 DEF StartIdle, FreeTurns, TypeInv, TypeOK
  <2> HIDE DEF g, item
  <2>3. /\ running' \in BOOLEAN /\ interrupting' \in BOOLEAN /\ status' \in Statuses
        /\ currentTurnId' \in Turns /\ controller' \in Turns
        /\ currentMode' \in Modes /\ permission' \in Modes
        /\ warrant' \in {"user", "schedule", "goal", "none"}
        /\ idleTimer' \in BOOLEAN /\ turn' \in [Turns -> TurnState]
    BY <2>1, <2>2, BeginType
  <2>4. goal' \in Goal
    BY <2>1, <2>2
  <2>5. QED
    BY <1>3, <2>3, <2>4 DEF StartIdle, TypeInv, TypeOK, wakeVars
<1>4. ASSUME StartQueued(p, kind, m, withGoal) PROVE TypeOK'
  <2> DEFINE g == GoalOfRequest(withGoal, permission)
             item == SubmittedItem(p, kind, m, g)
  <2>1. g \in Goal /\ item \in Item
    BY <1>1, <1>2, SubmittedItemType
  <2>2. /\ goal' = g
        /\ queue' = queue \/ queue' = Append(queue, item)
        /\ accepted' = accepted \/ accepted' = accepted \cup {p}
    BY <1>4 DEF StartQueued
  <2> HIDE DEF g, item
  <2>3. goal' \in Goal /\ queue' \in Seq(Item) /\ accepted' \subseteq Prompts
    BY <2>1, <2>2 DEF TypeInv, TypeOK
  <2>4. QED
    BY <1>4, <2>3 DEF StartQueued, TypeInv, TypeOK, engineVars, wakeVars
<1>5. QED
  BY <1>3, <1>4 DEF Start

(* The requests of clients, users and the environment keep the types.      *)
LEMMA RequestTypes ==
  ASSUME TypeInv, Request
  PROVE  TypeOK'
<1>1. ASSUME StartTurn PROVE TypeOK'
  <2>1. PICK p \in FreePrompts, m \in RequestModes :
          \/ Start(p, "prompt", m, FALSE)
          \/ Start(p, "prompt", m, TRUE)
          \/ Start(p, "schedule", m, FALSE)
    BY <1>1 DEF StartTurn
  <2>2. p \in Prompts /\ "prompt" \in Kinds /\ "schedule" \in Kinds
    BY DEF FreePrompts, Kinds
  <2>3. QED
    BY <2>1, <2>2, StartTypes
<1>2. ASSUME RefuseIdleStart PROVE TypeOK'
  <2>1. PICK m \in RequestModes : StartIdleRefused(m)
    BY <1>2 DEF RefuseIdleStart
  <2>2. permission' \in Modes
    BY <2>1, TurnAssumption DEF StartIdleRefused, IdleMode, Modes
  <2>3. QED
    BY <2>1, <2>2 DEF TypeInv, StartIdleRefused, TypeOK, engineVars, wakeVars
<1>3. ASSUME InterruptTurn PROVE TypeOK'
  <2>1. /\ interrupting' \in BOOLEAN /\ status' \in Statuses /\ asks' = {}
        /\ turn' \in [Turns -> TurnState]
        /\ forceSettle' \in TimerState
    BY <1>3, RequestInterruptType DEF TypeInv, InterruptTurn
  <2>2. QED
    BY <1>3, <2>1 DEF TypeInv, InterruptTurn, TypeOK, wakeVars
<1>4. ASSUME CancelQueuedTurn PROVE TypeOK'
  <2>1. PICK i \in DOMAIN queue : /\ queue' = Without(queue, i)
                                  /\ accepted' = accepted \ {queue[i].id}
    BY <1>4 DEF CancelQueuedTurn
  <2>2. queue' \in Seq(Item) /\ accepted' \subseteq Prompts
    BY <2>1, WithoutType DEF TypeInv, TypeOK
  <2>3. QED
    BY <1>4, <2>2 DEF TypeInv, CancelQueuedTurn, TypeOK, engineVars, wakeVars
<1>5. ASSUME GuideTurn PROVE TypeOK'
  <2>1. PICK m \in RequestModes \cup {"inherit"} :
          \/ \E i \in {j \in DOMAIN queue : queue[j].kind # "guide"} :
               \/ GuideQueues(queue[i].id, m, Without(queue, i))
               \/ GuideStops({queue[i].id}, Without(queue, i))
          \/ \/ \E p \in FreePrompts : GuideQueues(p, m, queue)
             \/ GuideStops({}, queue)
    BY <1>5 DEF GuideTurn
  <2> DEFINE Result == /\ queue' \in Seq(Item) /\ accepted' \subseteq Prompts
                       /\ (RequestInterrupt("guided") \/ RequestInterrupt("user"))
  <2>2. ASSUME NEW id \in Prompts \cup {NoPrompt}, NEW rest \in Seq(Item),
               GuideQueues(id, m, rest)
        PROVE  Result
    <3>1. GuideItem(id, m) \in Item
      BY GuideItemType DEF TypeInv
    <3>2. queue' \in Seq(Item) /\ accepted' \subseteq Prompts
      BY <2>2, <3>1 DEF GuideQueues, TypeInv, TypeOK
    <3>3. QED
      BY <2>2, <3>2 DEF GuideQueues
  <2>3. ASSUME NEW ids, NEW rest \in Seq(Item), GuideStops(ids, rest)
        PROVE  Result
    BY <2>3 DEF GuideStops, TypeInv, TypeOK
  <2>4. /\ queue \in Seq(Item) /\ FreePrompts \subseteq Prompts
        /\ \A i \in DOMAIN queue : /\ queue[i].id \in Prompts \cup {NoPrompt}
                                   /\ Without(queue, i) \in Seq(Item)
    <3>1. queue \in Seq(Item) /\ FreePrompts \subseteq Prompts
      BY DEF TypeInv, TypeOK, FreePrompts
    <3>2. \A i \in DOMAIN queue : queue[i] \in Item
      BY <3>1
    <3>3. QED
      BY <3>1, <3>2, WithoutType DEF Item
  <2>5. Result
    <3> HIDE DEF Result
    <3>1. QED
      BY <2>1, <2>2, <2>3, <2>4
  <2>6. /\ interrupting' \in BOOLEAN /\ status' \in Statuses /\ asks' = {}
        /\ turn' \in [Turns -> TurnState]
        /\ forceSettle' \in TimerState
    BY <2>5, RequestInterruptType DEF TypeInv
  <2>7. QED
    BY <1>5, <2>5, <2>6 DEF TypeInv, GuideTurn, TypeOK, wakeVars
<1>6. ASSUME Ask PROVE TypeOK'
  <2>1. asks' \subseteq {"foreground", "background"}
    BY <1>6 DEF TypeInv, Ask, TypeOK
  <2>2. QED
    BY <1>6, <2>1 DEF TypeInv, Ask, TypeOK, engineVars, wakeVars
<1>7. ASSUME Answer PROVE TypeOK'
  BY <1>7 DEF TypeInv, Answer, TypeOK, engineVars, wakeVars
<1>8. ASSUME StopRead PROVE TypeOK'
  <2>1. control' \in ControlState
    BY <1>8, ConstantTypes DEF StopRead, ControlState
  <2>2. QED
    BY <1>8, <2>1 DEF TypeInv, StopRead, TypeOK, engineVars, wakeVars
<1>9. ASSUME EnableStage PROVE TypeOK'
  <2>1. goal.previous \in Modes /\ permission \in Modes
    BY DEF TypeInv, TypeOK, Goal
  <2>2. NewGoal(IF goal.on THEN goal.previous ELSE permission) \in Goal
    BY <2>1, GoalRules, ConstantTypes
  <2>3. control' \in ControlState /\ unresolved' \in BOOLEAN
    BY <1>9, <2>1, <2>2 DEF EnableStage, Hydrated, ControlState, Modes
  <2>4. QED
    BY <1>9, <2>3 DEF TypeInv, EnableStage, TypeOK, engineVars, wakeVars
<1>10. ASSUME ResumeStage PROVE TypeOK'
  <2>1. goal \in Goal
    BY DEF TypeInv, TypeOK
  <2>2. [goal EXCEPT !.status = "active", !.failures = 0] \in Goal
    <3>1. \A m \in 0..3, st \in GoalStatus : [goal EXCEPT !.status = st, !.failures = m] \in Goal
      BY <2>1 DEF Goal
    <3>2. 0 \in 0..3 /\ "active" \in GoalStatus
      BY DEF GoalStatus
    <3>3. QED
      BY <3>1, <3>2, Zenon
  <2>3. control' \in ControlState /\ unresolved' \in BOOLEAN
    BY <1>10, <2>2 DEF ResumeStage, Hydrated, ControlState, Modes
  <2>4. QED
    BY <1>10, <2>3 DEF TypeInv, ResumeStage, TypeOK, engineVars, wakeVars
<1>11. ASSUME NEW g \in Groups, GroupNotes(g) PROVE TypeOK'
  <2>1. group' \in [Groups -> {"working", "noted", "done"}] /\ handoffs' \subseteq Groups
    BY <1>11 DEF TypeInv, TypeOK, GroupNotes
  <2>2. QED
    BY <1>11, <2>1 DEF TypeInv, GroupNotes, TypeOK, engineVars
<1>12. ASSUME InvalidateModel PROVE TypeOK'
  <2>1. queue' \in Seq(Item) /\ accepted' \subseteq Prompts
    <3>1. \/ queue' = <<>> /\ accepted' = accepted \ Ids(queue)
          \/ queue' = queue /\ accepted' = accepted
      BY <1>12 DEF InvalidateModel
    <3>2. QED
      BY <3>1, ConstantTypes DEF TypeInv, TypeOK
  <2>2. QED
    BY <1>12, <2>1 DEF TypeInv, InvalidateModel, TypeOK, engineVars, wakeVars
<1>13. ASSUME RepairModel PROVE TypeOK'
  BY <1>13 DEF TypeInv, RepairModel, TypeOK, engineVars, wakeVars
<1>14. ASSUME ToggleGate PROVE TypeOK'
  BY <1>14 DEF TypeInv, ToggleGate, TypeOK, engineVars, wakeVars
<1>15. ASSUME CancelWork PROVE TypeOK'
  <2>1. /\ interrupting' \in BOOLEAN /\ status' \in Statuses /\ asks' = {}
        /\ turn' \in [Turns -> TurnState]
        /\ forceSettle' \in TimerState
    BY <1>15, RequestInterruptType DEF TypeInv, CancelWork, TypeOK
  <2>2. queue' \in Seq(Item) /\ accepted' \subseteq Prompts
    BY <1>15 DEF TypeInv, TypeOK, CancelWork
  <2>3. QED
    BY <1>15, <2>1, <2>2 DEF TypeInv, CancelWork, TypeOK, wakeVars
<1>16. ASSUME Dispose PROVE TypeOK'
  <2>1. turn' \in [Turns -> TurnState]
    BY <1>16, AbortedType DEF TypeInv, Dispose
  <2>2. goal' \in Goal
    BY <1>16 DEF TypeInv, TypeOK, Dispose, Goal, GoalStatus
  <2>3. /\ queue' = <<>> /\ queue' \in Seq(Item) /\ accepted' \subseteq Prompts
        /\ forceSettle' \in TimerState
    BY <1>16 DEF Dispose, NoTimer, TimerState
  <2>4. QED
    BY <1>16, <2>1, <2>2, <2>3 DEF TypeInv, Dispose, TypeOK, wakeVars
<1>17. QED
  BY <1>1, <1>2, <1>3, <1>4, <1>5, <1>6, <1>7, <1>8, <1>9, <1>10, <1>11, <1>12, <1>13,
     <1>14, <1>15, <1>16 DEF Request

(* A configuration that no longer resolves the model empties the queue.    *)
LEMMA ReloadCancelsTypes ==
  ASSUME TypeInv, ReloadCancelsQueue
  PROVE  queue' \in Seq(Item) /\ accepted' \subseteq Prompts /\ unresolved' \in BOOLEAN
BY ConstantTypes DEF ReloadCancelsQueue, ReloadFails, TypeInv, TypeOK

(* The steps of a Goal control keep the types.                             *)
LEMMA ControlTypes ==
  ASSUME TypeInv, ControlStep
  PROVE  TypeOK'
<1>1. ASSUME StopApply PROVE TypeOK'
  <2>1. goal \in Goal /\ queue \in Seq(Item) /\ control \in ControlState /\ goal.previous \in Modes
    BY DEF TypeInv, TypeOK, Goal
  <2>2. goal' \in Goal
    BY <1>1, <2>1 DEF StopApply, StoppedGoal, Goal, GoalStatus
  <2>3. queue' \in Seq(Item)
    <3>1. \/ queue' = RevokeAll(DropContinues(queue), goal.previous)
          \/ queue' = DropContinues(queue)
      BY <1>1 DEF StopApply
    <3>2. QED
      BY <2>1, <3>1, DropContinuesLeavesNone, RevokeAllKeeps
  <2>4. control' \in ControlState
    BY <1>1, <2>1 DEF StopApply, ControlState
  <2>5. /\ interrupting' \in BOOLEAN /\ status' \in Statuses
        /\ asks' \subseteq {"foreground", "background"}
        /\ turn' \in [Turns -> TurnState]
        /\ forceSettle' \in TimerState
    <3>1. CASE RequestInterrupt("user")
      BY <3>1, RequestInterruptType DEF TypeInv
    <3>2. CASE UNCHANGED <<interrupting, status, asks, turn, forceSettle>>
      BY <3>2 DEF TypeInv, TypeOK
    <3>3. QED
      BY <1>1, <3>1, <3>2 DEF StopApply
  <2>6. permission' \in Modes
    BY <1>1, <2>1 DEF StopApply
  <2>7. QED
    BY <1>1, <2>2, <2>3, <2>4, <2>5, <2>6 DEF StopApply, TypeInv, TypeOK, wakeVars
<1>2. ASSUME StopReturns PROVE TypeOK'
  BY <1>2, ConstantTypes DEF TypeInv, StopReturns, TypeOK, engineVars, wakeVars
<1>3. ASSUME GoalCommit PROVE TypeOK'
  <2>1. /\ control.goal \in Goal /\ control.mode \in Modes
        /\ [control EXCEPT !.stage = "published"] \in ControlState
    BY DEF TypeInv, TypeOK, ControlState
  <2>2. QED
    BY <1>3, <2>1 DEF TypeInv, GoalCommit, TypeOK, engineVars, wakeVars
<1>4. ASSUME GoalCommitFails PROVE TypeOK'
  BY <1>4, ConstantTypes DEF TypeInv, GoalCommitFails, TypeOK, engineVars, wakeVars
<1>5. ASSUME EnableStarts PROVE TypeOK'
  <2> DEFINE g == [goal EXCEPT !.status = "running"]
             item == NewItem(NoPrompt, "prompt", "fullAccess", "none")
  <2>1. goal \in Goal /\ g \in Goal
    BY DEF TypeInv, TypeOK, Goal, GoalStatus
  <2>2. item \in Item
    BY NewItemType DEF Kinds, Modes
  <2> HIDE DEF item
  <2>3. CASE UNCHANGED <<engineVars, permission, goal, turn, idleTimer>>
    BY <1>5, <2>3, ConstantTypes DEF EnableStarts, TypeInv, TypeOK, engineVars, wakeVars
  <2>4. CASE goal' = g /\ permission' = "fullAccess" /\ UNCHANGED <<engineVars, turn, idleTimer>>
    <3>1. goal' \in Goal /\ permission' \in Modes
      BY <2>1, <2>4 DEF Modes
    <3>2. QED
      BY <1>5, <2>4, <3>1, ConstantTypes
        DEF EnableStarts, TypeInv, TypeOK, engineVars, wakeVars
  <2>5. CASE goal' = g /\ \E new \in FreeTurns :
               /\ Begin(item, g, new, turn)
               /\ UNCHANGED <<disposed, quarantinedTurnId, forceSettle>>
    <3>1. PICK new \in Turns : Begin(item, g, new, turn)
      BY <2>5 DEF FreeTurns
    <3>2. /\ turn \in [Turns -> TurnState] /\ warrant \in {"user", "schedule", "goal", "none"}
      BY DEF TypeInv, TypeOK
    <3>3. goal' \in Goal
      BY <2>1, <2>5
    <3>4. UNCHANGED <<disposed, quarantinedTurnId, forceSettle>>
      BY <2>5
    <3> HIDE DEF g
    <3>5. /\ running' \in BOOLEAN /\ interrupting' \in BOOLEAN /\ status' \in Statuses
          /\ currentTurnId' \in Turns /\ controller' \in Turns
          /\ currentMode' \in Modes /\ permission' \in Modes
          /\ warrant' \in {"user", "schedule", "goal", "none"}
          /\ idleTimer' \in BOOLEAN /\ turn' \in [Turns -> TurnState]
      BY <2>1, <2>2, <3>1, <3>2, BeginType
    <3>6. QED
      BY <1>5, <3>3, <3>4, <3>5, ConstantTypes DEF EnableStarts, TypeInv, TypeOK, wakeVars
  <2>6. QED
    BY <1>5, <2>3, <2>4, <2>5 DEF EnableStarts, item
<1>6. ASSUME ResumeQueues PROVE TypeOK'
  <2>1. control' \in ControlState /\ queue' \in Seq(Item)
    <3>1. \/ control' = NoControl /\ queue' = queue
          \/ /\ control' = [control EXCEPT !.stage = "prepare"]
             /\ queue' = Append(queue, ContinueItem)
      BY <1>6 DEF ResumeQueues
    <3>2. [control EXCEPT !.stage = "prepare"] \in ControlState
      BY DEF TypeInv, TypeOK, ControlState
    <3>3. queue \in Seq(Item) /\ Append(queue, ContinueItem) \in Seq(Item)
      BY ConstantTypes DEF TypeInv, TypeOK
    <3>4. QED
      BY <3>1, <3>2, <3>3, ConstantTypes
  <2>2. QED
    BY <1>6, <2>1 DEF ResumeQueues, TypeInv, TypeOK, engineVars, wakeVars
<1>7. ASSUME ResumePrepared PROVE TypeOK'
  <2>1. CASE ResumeTakes
    <3> DEFINE left == Drainable(queue, goal)
               next == Elevated(Head(left), goal)
    <3>1. queue \in Seq(Item) /\ goal \in Goal /\ left \in Seq(Item)
      BY DrainableKeeps DEF TypeInv, TypeOK
    <3>2. HeadReady(left) => Head(left) \in Item /\ Tail(left) \in Seq(Item)
      <4> HIDE DEF left
      <4>1. QED
        BY <3>1 DEF HeadReady
    <3>3. /\ unresolved' = FALSE
          /\ queue' = IF HeadReady(left) THEN Tail(left) ELSE left
          /\ \/ /\ HeadReady(left)
                /\ \E new \in FreeTurns : Begin(next, goal, new, turn)
                /\ accepted' = accepted \ {next.id}
                /\ UNCHANGED <<disposed, quarantinedTurnId, forceSettle>>
             \/ UNCHANGED <<engineVars, permission, turn, idleTimer, accepted>>
      BY <2>1 DEF ResumeTakes
    <3> HIDE DEF left
    <3>4. queue' \in Seq(Item) /\ unresolved' \in BOOLEAN
      BY <3>1, <3>2, <3>3
    <3>5. CASE UNCHANGED <<engineVars, permission, turn, idleTimer, accepted>>
      BY <1>7, <3>4, <3>5, ConstantTypes
        DEF ResumePrepared, TypeInv, TypeOK, engineVars, wakeVars
    <3>6. CASE /\ HeadReady(left)
               /\ \E new \in FreeTurns : Begin(next, goal, new, turn)
               /\ accepted' = accepted \ {next.id}
               /\ UNCHANGED <<disposed, quarantinedTurnId, forceSettle>>
      <4>1. PICK new \in Turns : Begin(next, goal, new, turn)
        BY <3>6 DEF FreeTurns
      <4>2. next \in Item
        BY <3>1, <3>2, <3>6, ItemRules DEF Modes
      <4>3. /\ turn \in [Turns -> TurnState] /\ warrant \in {"user", "schedule", "goal", "none"}
        BY DEF TypeInv, TypeOK
      <4>4. accepted' \subseteq Prompts
        BY <3>6 DEF TypeInv, TypeOK
      <4>5. UNCHANGED <<disposed, quarantinedTurnId, forceSettle>>
        BY <3>6
      <4> HIDE DEF next
      <4>6. /\ running' \in BOOLEAN /\ interrupting' \in BOOLEAN /\ status' \in Statuses
            /\ currentTurnId' \in Turns /\ controller' \in Turns
            /\ currentMode' \in Modes /\ permission' \in Modes
            /\ warrant' \in {"user", "schedule", "goal", "none"}
            /\ idleTimer' \in BOOLEAN /\ turn' \in [Turns -> TurnState]
        BY <3>1, <4>1, <4>2, <4>3, BeginType
      <4>7. QED
        BY <1>7, <3>4, <4>4, <4>5, <4>6, ConstantTypes
          DEF ResumePrepared, TypeInv, TypeOK, wakeVars
    <3>7. QED
      BY <3>3, <3>5, <3>6
  <2>2. CASE ReloadCancelsQueue
    BY <1>7, <2>2, ReloadCancelsTypes, ConstantTypes
      DEF ResumePrepared, ReloadCancelsQueue, TypeInv, TypeOK, engineVars, wakeVars
  <2>3. QED
    BY <1>7, <2>1, <2>2 DEF ResumePrepared
<1>8. QED
  BY <1>1, <1>2, <1>3, <1>4, <1>5, <1>6, <1>7 DEF ControlStep

(* Only a group's first note changes the wake-batch among the requests.    *)
LEMMA RequestFramesWake ==
  ASSUME Request
  PROVE  UNCHANGED wakeVars \/ \E g \in Groups : GroupNotes(g)
BY DEF Request, StartTurn, Start, StartIdle, StartQueued, RefuseIdleStart, StartIdleRefused,
       InterruptTurn, CancelQueuedTurn, GuideTurn, Ask, Answer, StopRead, EnableStage,
       ResumeStage, InvalidateModel, RepairModel, ToggleGate, CancelWork, Dispose

(* The Goal and the queue that a finished turn leaves.                     *)
LEMMA GoalAfterType ==
  ASSUME TypeOK, NEW t \in Turns
  PROVE  GoalAndQueueAfter(t)[1] \in Goal /\ GoalAndQueueAfter(t)[2] \in Seq(Item)
<1>1. goal \in Goal /\ queue \in Seq(Item) /\ claimed \in BOOLEAN
  BY DEF TypeOK
<1>2. AfterTurn(goal, status, claimed) \in Goal
  BY <1>1, GoalRules DEF Modes
<1>3. (IF goal.on /\ status = "interrupted" THEN DropContinues(queue) ELSE queue) \in Seq(Item)
  BY <1>1, DropContinuesLeavesNone
<1>4. QED
  BY <1>2, <1>3, HostContinuesType DEF GoalAndQueueAfter

(* The steps of a turn's coroutine keep the types.                         *)
LEMMA TurnTypes ==
  ASSUME TypeInv, NEW t \in Turns, TurnStep(t)
  PROVE  TypeOK'
<1>1. /\ turn \in [Turns -> TurnState] /\ goal \in Goal /\ queue \in Seq(Item)
      /\ reports \in [Groups -> 0..2] /\ accepted \in SUBSET Prompts /\ claimed \in BOOLEAN
  BY DEF TypeInv, TypeOK
<1>2. ASSUME Inject PROVE /\ handoffs' \subseteq Groups /\ reports' \in [Groups -> 0..2]
                          /\ group' \in [Groups -> {"working", "noted", "done"}]
  <2>1. \A g \in Groups : reports[g] + Owed(g) \in 0..2
    <3> TAKE g \in Groups
    <3>1. reports[g] \in 0..2 /\ Owed(g) \in 0..1 /\ Notes(g) \in 0..2
      BY <1>1 DEF Owed, Notes
    <3>2. reports[g] + Owed(g) <= 2
      BY <3>1 DEF TypeInv, Announced
    <3>3. QED
      BY <3>1, <3>2
  <2>2. reports' = [g \in Groups |-> reports[g] + Owed(g)]
    BY <1>2 DEF Inject, Owed
  <2>3. QED
    BY <1>2, <2>1, <2>2 DEF Inject, TypeInv, TypeOK
<1>3. ASSUME FirstRound(t) PROVE TypeOK'
  <2>1. turn' \in [Turns -> TurnState]
    BY <1>1, <1>3 DEF FirstRound, TurnState
  <2>2. QED
    BY <1>2, <1>3, <2>1 DEF FirstRound, TypeInv, TypeOK, engineVars
<1>4. ASSUME NextRound(t) PROVE TypeOK'
  BY <1>2, <1>4 DEF NextRound, TypeInv, TypeOK, engineVars
<1>5. PossibleOutcomes(t) \subseteq Statuses
  BY DEF PossibleOutcomes, Statuses, Outcomes
<1>6. ASSUME NEW ended \in Statuses, Settle(t, ended)
      PROVE  /\ interrupting' \in BOOLEAN /\ status' \in Statuses
             /\ controller' \in Turns \cup {NoTurn} /\ quarantinedTurnId' \in Turns \cup {NoTurn}
             /\ forceSettle' \in TimerState
             /\ turn' \in [Turns -> TurnState]
  BY <1>6, SettleType DEF TypeInv
<1>7. ASSUME RunEnds(t) PROVE TypeOK'
  <2>1. CASE IsCurrentTurn(t)
    <3>1. turn' \in [Turns -> TurnState]
      <4>1. turn' = [turn EXCEPT ![t].pc = "record"]
        BY <1>7, <2>1 DEF RunEnds
      <4>2. QED
        BY <1>1, <4>1 DEF TurnState
    <3>2. claimed' \in BOOLEAN /\ status' \in Statuses
      BY <1>1, <1>5, <1>7, <2>1 DEF RunEnds
    <3>3. QED
      BY <1>7, <2>1, <3>1, <3>2 DEF RunEnds, TypeInv, TypeOK, wakeVars
  <2>2. CASE ~IsCurrentTurn(t)
    <3>1. Settle(t, status) /\ status \in Statuses /\ claimed' = claimed
      BY <1>7, <2>2 DEF RunEnds, TypeInv, TypeOK
    <3>2. QED
      BY <1>6, <1>7, <3>1 DEF RunEnds, TypeInv, TypeOK, wakeVars
  <2>3. QED
    BY <2>1, <2>2
<1>8. ASSUME RecordEnds(t) PROVE TypeOK'
  <2>1. "failed" \in Statuses /\ status \in Statuses
    BY DEF Statuses, Outcomes, TypeInv, TypeOK
  <2>2. PICK ended \in Statuses : Settle(t, ended)
    BY <1>8, <2>1 DEF RecordEnds
  <2>3. QED
    BY <1>6, <1>8, <2>2 DEF RecordEnds, TypeInv, TypeOK, wakeVars
<1>9. ASSUME NEW may, NEW g \in Goal, NEW q \in Seq(Item), NEW bad,
             NEW waiting \in SUBSET Prompts, Finish(t, may, g, q, bad, waiting),
             unresolved' \in BOOLEAN,
             UNCHANGED <<disposed, quarantinedTurnId, forceSettle, claimed, asks, wakeVars,
                         waking, gate, control>>
      PROVE  TypeOK'
  <2>1. /\ goal' = g /\ queue' \in Seq(Item) /\ accepted' \in SUBSET Prompts
        /\ running' \in BOOLEAN /\ interrupting' \in BOOLEAN /\ status' \in Statuses
        /\ currentTurnId' \in Turns \cup {NoTurn} /\ controller' \in Turns \cup {NoTurn}
        /\ currentMode' \in Modes /\ permission' \in Modes
        /\ warrant' \in {"user", "schedule", "goal", "none"}
        /\ idleTimer' \in BOOLEAN /\ turn' \in [Turns -> TurnState]
    BY <1>9, FinishType DEF TypeInv
  <2>2. QED
    BY <1>9, <2>1 DEF TypeInv, TypeOK, wakeVars
<1>10. ASSUME DraftEnds(t) PROVE TypeOK'
  <2> DEFINE after == GoalAndQueueAfter(t)
  <2>1. after[1] \in Goal /\ after[2] \in Seq(Item)
    BY GoalAfterType DEF TypeInv
  <2> HIDE DEF after
  <2>2. CASE /\ goal' = after[1]
             /\ queue' = after[2]
             /\ turn' = [turn EXCEPT ![t].pc = "prepare"]
             /\ UNCHANGED <<running, interrupting, status, currentTurnId, controller,
                            currentMode, warrant, permission, idleTimer, accepted>>
    <3>1. turn' \in [Turns -> TurnState]
      BY <1>1, <2>2 DEF TurnState
    <3>2. goal' \in Goal /\ queue' \in Seq(Item)
      BY <2>1, <2>2
    <3>3. QED
      BY <1>10, <2>2, <3>1, <3>2 DEF DraftEnds, TypeInv, TypeOK, wakeVars
  <2>3. CASE Finish(t, FALSE, after[1], after[2], unresolved, accepted)
    <3>1. unresolved' \in BOOLEAN
      BY <1>10 DEF DraftEnds, TypeInv, TypeOK
    <3>2. UNCHANGED <<disposed, quarantinedTurnId, forceSettle, claimed, asks, wakeVars,
                      waking, gate, control>>
      BY <1>10 DEF DraftEnds
    <3>3. QED
      BY <1>1, <1>9, <2>1, <2>3, <3>1, <3>2
  <2>4. QED
    BY <1>10, <2>2, <2>3 DEF DraftEnds, after
<1>11. ASSUME PrepareEnds(t) PROVE TypeOK'
  <2>1. UNCHANGED <<disposed, quarantinedTurnId, forceSettle, claimed, asks, wakeVars,
                    waking, gate, control>>
    BY <1>11 DEF PrepareEnds
  <2>2. CASE unresolved' = FALSE /\ Finish(t, TRUE, goal, queue, FALSE, accepted)
    BY <1>1, <1>9, <2>1, <2>2
  <2>3. CASE ReloadFails /\ Finish(t, FALSE, goal, <<>>, TRUE, accepted \ Ids(queue))
    <3>1. unresolved' \in BOOLEAN
      BY <2>3 DEF ReloadFails, TypeInv, TypeOK
    <3>2. accepted \ Ids(queue) \in SUBSET Prompts
      BY <1>1
    <3>3. QED
      BY <1>1, <1>9, <2>1, <2>3, <3>1, <3>2, ConstantTypes
  <2>4. QED
    BY <1>11, <2>2, <2>3 DEF PrepareEnds
<1>12. ASSUME SaveEnds(t) PROVE TypeOK'
  <2>1. turn' \in [Turns -> TurnState]
    BY <1>1, <1>12, ConstantTypes DEF SaveEnds
  <2>2. QED
    BY <1>12, <2>1 DEF SaveEnds, TypeInv, TypeOK, wakeVars
<1>13. QED
  BY <1>3, <1>4, <1>7, <1>8, <1>10, <1>11, <1>12 DEF TurnStep

(* The engine's timers and the wake-up steps keep the types.               *)
LEMMA TimerTypes ==
  ASSUME TypeInv,
         (\E g \in Groups : GroupWakes(g)) \/ ForceSettle \/ IdleTimerFires \/ WakePrepared
  PROVE  TypeOK'
<1>1. ASSUME NEW g \in Groups, GroupWakes(g) PROVE TypeOK'
  <2>1. /\ group' \in [Groups -> {"working", "noted", "done"}]
        /\ handoffs' \subseteq Groups /\ idleTimer' \in BOOLEAN
    BY <1>1 DEF TypeInv, TypeOK, GroupWakes
  <2>2. QED
    BY <1>1, <2>1 DEF TypeInv, GroupWakes, TypeOK, engineVars
<1>2. ASSUME ForceSettle PROVE TypeOK'
  <2>1. /\ forceSettle' \in TimerState
        /\ quarantinedTurnId' \in Turns \cup {NoTurn} /\ interrupting' \in BOOLEAN
        /\ status' \in Statuses /\ asks' \subseteq {"foreground", "background"}
    <3>1. \/ /\ forceSettle' = FiredTimer
             /\ UNCHANGED <<quarantinedTurnId, interrupting, status, turn, asks>>
          \/ /\ forceSettle' = NoTimer
             /\ quarantinedTurnId' = forceSettle.turn
             /\ interrupting' = FALSE
             /\ status' = "quarantined"
             /\ asks' = {}
      BY <1>2 DEF ForceSettle
    <3>2. forceSettle.turn \in Turns \cup {NoTurn}
      BY DEF TypeInv, TypeOK, TimerState
    <3>3. "quarantined" \in Statuses
      BY DEF Statuses
    <3>4. FiredTimer \in TimerState /\ NoTimer \in TimerState
      BY DEF FiredTimer, NoTimer, TimerState
    <3>5. QED
      BY <3>1, <3>2, <3>3, <3>4 DEF TypeInv, TypeOK
  <2>2. turn' \in [Turns -> TurnState]
    BY <1>2, AbortedType DEF ForceSettle, TypeInv, TypeOK
  <2>3. QED
    BY <1>2, <2>1, <2>2 DEF ForceSettle, TypeInv, TypeOK, wakeVars
<1>3. ASSUME IdleTimerFires PROVE TypeOK'
  <2>1. waking' \in WakingCount
    BY <1>3 DEF IdleTimerFires, TypeInv, TypeOK, WakingCount
  <2>2. /\ idleTimer' = FALSE
        /\ UNCHANGED <<engineVars, permission, queue, goal, claimed, turn, asks, wakeVars,
                       gate, unresolved, control, accepted>>
    BY <1>3 DEF IdleTimerFires
  <2>3. QED
    BY ZenonT(30), <2>1, <2>2 DEF TypeInv, TypeOK, engineVars, wakeVars
<1>4. ASSUME WakePrepared PROVE TypeOK'
  <2> DEFINE item == NewItem(NoPrompt, "wakeup", currentMode, "none")
  <2>1. /\ waking' \in WakingCount /\ turn \in [Turns -> TurnState] /\ goal \in Goal
        /\ warrant \in {"user", "schedule", "goal", "none"} /\ currentMode \in Modes
    BY <1>4 DEF WakePrepared, TypeInv, TypeOK, WakingCount
  <2>2. item \in Item
    BY <2>1, NewItemType DEF Kinds
  <2>3. CASE ReloadCancelsQueue
    BY <1>4, <2>1, <2>3, ReloadCancelsTypes
      DEF WakePrepared, ReloadCancelsQueue, TypeInv, TypeOK, engineVars, wakeVars
  <2>4. CASE /\ unresolved' = FALSE
             /\ UNCHANGED <<engineVars, permission, turn, idleTimer, queue, accepted>>
    <3>1. UNCHANGED <<goal, claimed, asks, wakeVars, gate, control>>
      BY <1>4 DEF WakePrepared
    <3>2. QED
      BY ZenonT(30), <2>1, <2>4, <3>1 DEF TypeInv, TypeOK, engineVars, wakeVars
  <2>5. CASE /\ unresolved' = FALSE
             /\ \E new \in FreeTurns : Begin(item, goal, new, turn)
             /\ UNCHANGED <<disposed, quarantinedTurnId, forceSettle, queue, accepted>>
    <3>1. PICK new \in Turns : Begin(item, goal, new, turn)
      BY <2>5 DEF FreeTurns
    <3>2. UNCHANGED <<disposed, quarantinedTurnId, forceSettle, queue, accepted>>
          /\ unresolved' \in BOOLEAN
      BY <2>5
    <3> HIDE DEF item
    <3>3. /\ running' \in BOOLEAN /\ interrupting' \in BOOLEAN /\ status' \in Statuses
          /\ currentTurnId' \in Turns /\ controller' \in Turns
          /\ currentMode' \in Modes /\ permission' \in Modes
          /\ warrant' \in {"user", "schedule", "goal", "none"}
          /\ idleTimer' \in BOOLEAN /\ turn' \in [Turns -> TurnState]
      BY <2>1, <2>2, <3>1, BeginType
    <3>4. QED
      BY <1>4, <2>1, <3>2, <3>3 DEF WakePrepared, TypeInv, TypeOK, wakeVars
  <2>6. QED
    BY <1>4, <2>3, <2>4, <2>5 DEF WakePrepared
<1>5. QED
  BY <1>1, <1>2, <1>3, <1>4

(* What was noted and injected so far stays bounded.                       *)
LEMMA AnnouncedStep ==
  ASSUME TypeInv, [Next]_vars
  PROVE  Announced'
<1>1. /\ reports \in [Groups -> 0..2] /\ handoffs \subseteq Groups
      /\ group \in [Groups -> {"working", "noted", "done"}] /\ Announced
  BY DEF TypeInv, TypeOK
<1>2. CASE UNCHANGED wakeVars
  BY <1>1, <1>2, AnnouncedKept
<1>3. ASSUME Inject PROVE Announced'
  <2> SUFFICES ASSUME NEW g \in Groups
               PROVE  reports'[g] + Owed(g)' <= Notes(g)'
    BY DEF Announced
  <2>1. Owed(g)' = 0 /\ reports'[g] = reports[g] + Owed(g) /\ group' = group
    BY <1>1, <1>3 DEF Inject, Owed
  <2>2. reports[g] \in 0..2 /\ Owed(g) \in 0..1
    BY <1>1 DEF Owed
  <2>3. Notes(g)' = Notes(g)
    BY <2>1 DEF Notes
  <2>4. QED
    BY <1>1, <2>1, <2>2, <2>3 DEF Announced
<1>4. ASSUME NEW n \in Groups, GroupNotes(n) \/ GroupWakes(n) PROVE Announced'
  <2> SUFFICES ASSUME NEW g \in Groups
               PROVE  reports'[g] + Owed(g)' <= Notes(g)'
    BY DEF Announced
  <2>1. reports' = reports /\ reports[g] \in 0..2 /\ Owed(g) \in 0..1 /\ Owed(g)' \in 0..1
    BY <1>1, <1>4 DEF GroupNotes, GroupWakes, Owed
  <2>2. CASE g # n
    <3>1. Notes(g)' = Notes(g) /\ Owed(g)' = Owed(g)
      BY <1>1, <1>4, <2>2 DEF GroupNotes, GroupWakes, Owed, Notes
    <3>2. QED
      BY <1>1, <2>1, <3>1 DEF Announced
  <2>3. CASE g = n
    <3>1. \/ group[g] = "working" /\ group'[g] = "noted"
          \/ group[g] = "noted" /\ group'[g] = "done"
      BY <1>1, <1>4, <2>3 DEF GroupNotes, GroupWakes
    <3>2. Notes(g)' = Notes(g) + 1 /\ Notes(g) \in 0..1
      BY <3>1 DEF Notes
    <3>3. reports[g] + Owed(g) <= Notes(g)
      BY <1>1 DEF Announced
    <3>4. CASE Owed(g) = 1
      BY <2>1, <3>2, <3>3, <3>4
    <3>5. CASE Owed(g) = 0
      BY <2>1, <3>2, <3>3, <3>5
    <3>6. QED
      BY <2>1, <3>4, <3>5
  <2>4. QED
    BY <2>2, <2>3
<1>5. \/ UNCHANGED wakeVars
      \/ Inject
      \/ \E n \in Groups : GroupNotes(n) \/ GroupWakes(n)
  <2>1. ASSUME NEW t \in Turns, TurnStep(t) PROVE Inject \/ UNCHANGED wakeVars
    BY <2>1 DEF TurnStep, FirstRound, NextRound, RunEnds, RecordEnds, DraftEnds, PrepareEnds,
                SaveEnds
  <2>2. ControlStep => UNCHANGED wakeVars
    BY DEF ControlStep, StopApply, StopReturns, GoalCommit, GoalCommitFails, EnableStarts,
           ResumeQueues, ResumePrepared
  <2>3. ForceSettle \/ IdleTimerFires \/ WakePrepared => UNCHANGED wakeVars
    BY DEF ForceSettle, IdleTimerFires, WakePrepared
  <2>4. UNCHANGED vars => UNCHANGED wakeVars
    BY DEF vars
  <2> QED  BY RequestFramesWake, <2>1, <2>2, <2>3, <2>4 DEF Next
<1>6. QED
  BY <1>2, <1>3, <1>4, <1>5

(* Every step keeps the inductive type invariant.                          *)
LEMMA TypeStep == TypeInv /\ [Next]_vars => TypeInv'
<1> SUFFICES ASSUME TypeInv, [Next]_vars PROVE TypeInv'
  OBVIOUS
<1>1. CASE UNCHANGED vars
  BY <1>1 DEF TypeInv, TypeOK, Announced, Owed, Notes, vars, engineVars, wakeVars
<1>2. CASE Next
  <2>1. TypeOK'
    BY <1>2, RequestTypes, ControlTypes, TurnTypes, TimerTypes DEF Next
  <2>2. QED
    BY <2>1, AnnouncedStep DEF TypeInv
<1>3. QED
  BY <1>1, <1>2

(* Type correctness: the engine's state, the queue, the Goal and the       *)
(* wake-batch stay what beginPrompt, the controls and the coroutine of     *)
(* turn-queue.ts assume of them, and no group is reported more than twice. *)
THEOREM TypeCorrect == Spec => []TypeOK
<1>1. TypeInv => TypeOK
  BY DEF TypeInv
<1>2. QED
  BY <1>1, TypeInit, TypeStep, PTL DEF Spec

(***************************************************************************)
(* At most one live turn.  OneLiveRun is not inductive: a second turn must *)
(* not begin while one is live, and what keeps it from beginning is that   *)
(* the engine says it is running as long as a live turn is not disposed.   *)
(***************************************************************************)
TurnsTyped == turn \in [Turns -> TurnState] /\ controller \in Turns \cup {NoTurn}

LiveIsRunning == \A t \in Turns : Live(t) => running \/ disposed

OneLiveInv == TurnsTyped /\ OneLiveRun /\ LiveIsRunning

(* A begun turn is the only live one when nothing else is live.            *)
LEMMA BeginKeepsOneLive ==
  ASSUME NEW item, NEW g, NEW new \in Turns, NEW others \in [Turns -> TurnState],
         \A t \in Turns : others[t].pc \in {"idle", "save"},
         Begin(item, g, new, others)
  PROVE  OneLiveInv'
<1>1. turn' = [others EXCEPT ![new] = [IdleTurn EXCEPT !.pc = "start"]]
  BY DEF Begin
<1>2. [IdleTurn EXCEPT !.pc = "start"] \in TurnState
  BY DEF IdleTurn, TurnState
<1>3. turn' \in [Turns -> TurnState] /\ controller' \in Turns /\ running'
  BY <1>1, <1>2 DEF Begin
<1>4. \A t \in Turns : t # new => turn'[t].pc \in {"idle", "save"}
  BY <1>1
<1>5. QED
  BY <1>3, <1>4 DEF OneLiveInv, TurnsTyped, OneLiveRun, LiveIsRunning, Live

(* An idle engine that was not disposed has no live turn.                  *)
LEMMA IdleHasNoLive ==
  ASSUME OneLiveInv, ~running, ~disposed
  PROVE  turn \in [Turns -> TurnState] /\ \A t \in Turns : turn[t].pc \in {"idle", "save"}
BY DEF OneLiveInv, TurnsTyped, LiveIsRunning, Live, TurnState

(* A step that makes no turn live keeps the invariant, if the engine keeps *)
(* saying it is running, is disposed, or leaves no live turn.              *)
LEMMA NoNewLive ==
  ASSUME OneLiveInv,
         turn' \in [Turns -> TurnState], controller' \in Turns \cup {NoTurn},
         \A t \in Turns : Live(t)' => Live(t),
         running' \/ disposed' \/ (\A t \in Turns : ~Live(t)')
           \/ (running' = running /\ disposed' = disposed)
  PROVE  OneLiveInv'
BY DEF OneLiveInv, TurnsTyped, OneLiveRun, LiveIsRunning

(* The end of a run makes no turn live.                                    *)
LEMMA SettleMakesNoneLive ==
  ASSUME OneLiveInv, NEW t \in Turns, NEW ended, Settle(t, ended), Live(t)
  PROVE  /\ turn' \in [Turns -> TurnState] /\ controller' \in Turns \cup {NoTurn}
         /\ \A u \in Turns : Live(u)' => Live(u)
<1>1. turn \in [Turns -> TurnState] /\ controller \in Turns \cup {NoTurn}
  BY DEF OneLiveInv, TurnsTyped
<1>2. CASE ~OwnsTurn(t)
  <2>1. IdleTurn \in TurnState /\ IdleTurn.pc = "idle"
    BY DEF IdleTurn, TurnState
  <2>2. turn' = [turn EXCEPT ![t] = IdleTurn] /\ controller' = controller
    BY <1>2 DEF Settle
  <2>3. QED
    BY <1>1, <2>1, <2>2 DEF Live
<1>3. CASE OwnsTurn(t)
  <2>1. /\ turn' = [turn EXCEPT ![t].pc = "draft",
                                ![t].wasQuarantined = quarantinedTurnId = t]
        /\ controller' = NoTurn
    BY <1>3 DEF Settle
  <2>2. turn' \in [Turns -> TurnState]
    <3>1. /\ (quarantinedTurnId = t) \in BOOLEAN
          /\ "draft" \in {"idle", "start", "run", "record", "draft", "prepare", "save"}
      OBVIOUS
    <3>2. [turn[t] EXCEPT !.pc = "draft", !.wasQuarantined = quarantinedTurnId = t] \in TurnState
      BY <1>1, <3>1 DEF TurnState
    <3>3. turn' = [turn EXCEPT ![t] =
                     [turn[t] EXCEPT !.pc = "draft", !.wasQuarantined = quarantinedTurnId = t]]
      BY <1>1, <2>1
    <3>4. QED
      BY <1>1, <3>2, <3>3
  <2>3. \A u \in Turns : u # t => turn'[u] = turn[u]
    BY <1>1, <2>1
  <2>4. QED
    BY <2>1, <2>2, <2>3 DEF Live
<1>4. QED
  BY <1>2, <1>3

(* The end of a turn leaves no live turn but the one it begins.            *)
LEMMA FinishKeepsOneLive ==
  ASSUME OneLiveInv, NEW t \in Turns, NEW may, NEW g \in Goal, NEW q, NEW bad, NEW waiting,
         Live(t), Finish(t, may, g, q, bad, waiting), UNCHANGED disposed
  PROVE  OneLiveInv'
<1> DEFINE over == [IdleTurn EXCEPT !.pc = IF g.on THEN "save" ELSE "idle"]
           ended == [turn EXCEPT ![t] = over]
           begun == [turn EXCEPT ![t] = [over EXCEPT !.startedNext = g.on]]
<1>1. turn \in [Turns -> TurnState] /\ controller \in Turns \cup {NoTurn} /\ g.on \in BOOLEAN
  BY DEF OneLiveInv, TurnsTyped, Goal
<1>2. /\ over \in TurnState /\ over.pc \in {"idle", "save"}
      /\ [over EXCEPT !.startedNext = g.on] \in TurnState
      /\ [over EXCEPT !.startedNext = g.on].pc \in {"idle", "save"}
  BY <1>1 DEF TurnState, IdleTurn
<1>3. \A u \in Turns : u # t => turn[u].pc \in {"idle", "save"}
  BY <1>1 DEF OneLiveInv, OneLiveRun, Live, TurnState
<1> HIDE DEF over
<1>4. /\ ended \in [Turns -> TurnState] /\ begun \in [Turns -> TurnState]
      /\ \A u \in Turns : ended[u].pc \in {"idle", "save"} /\ begun[u].pc \in {"idle", "save"}
  BY <1>1, <1>2, <1>3
<1>5. \/ \E item : \E new \in FreeTurns : Begin(item, g, new, begun)
      \/ turn' = ended /\ controller' = controller
  BY DEF Finish, over
<1> HIDE DEF ended, begun
<1>6. CASE \E item : \E new \in FreeTurns : Begin(item, g, new, begun)
  <2>1. PICK item : \E new \in FreeTurns : Begin(item, g, new, begun)
    BY <1>6
  <2>2. PICK new \in Turns : Begin(item, g, new, begun)
    BY <2>1 DEF FreeTurns
  <2>3. QED
    BY <1>4, <2>2, BeginKeepsOneLive
<1>7. CASE turn' = ended /\ controller' = controller
  <2>1. \A u \in Turns : ~Live(u)'
    BY <1>4, <1>7 DEF Live
  <2>2. QED
    BY <1>1, <1>4, <1>7, <2>1, NoNewLive
<1>8. QED
  BY <1>5, <1>6, <1>7

(* A step that moves no turn and leaves controller alone keeps the         *)
(* invariant as long as the engine's own flags are left alone too.         *)
LEMMA NothingMoves ==
  ASSUME OneLiveInv, turn' \in [Turns -> TurnState],
         \A t \in Turns : turn'[t].pc = turn[t].pc,
         UNCHANGED <<running, disposed, controller>>
  PROVE  OneLiveInv'
<1>1. \A t \in Turns : Live(t)' => Live(t)
  BY DEF Live
<1>2. controller' \in Turns \cup {NoTurn}
  BY DEF OneLiveInv, TurnsTyped
<1>3. QED
  BY <1>1, <1>2, NoNewLive

(* A turn that begins on an idle engine is the only live one.              *)
LEMMA IdleBegins ==
  ASSUME OneLiveInv, ~running, NEW item, NEW g, NEW bad, CanBegin(item, g, bad),
         \E new \in FreeTurns : Begin(item, g, new, turn)
  PROVE  OneLiveInv'
<1>1. ~disposed
  BY DEF CanBegin
<1>2. turn \in [Turns -> TurnState] /\ \A t \in Turns : turn[t].pc \in {"idle", "save"}
  BY <1>1, IdleHasNoLive
<1>3. PICK new \in Turns : Begin(item, g, new, turn)
  BY DEF FreeTurns
<1>4. QED
  BY <1>2, <1>3, BeginKeepsOneLive

(* Whatever starts, steers, settles or disposes of turns keeps at most one *)
(* of them live.                                                           *)
LEMMA OneLiveStep ==
  ASSUME TypeInv, OneLiveInv, [Next]_vars
  PROVE  OneLiveInv'
<1>1. turn \in [Turns -> TurnState] /\ goal \in Goal /\ controller \in Turns \cup {NoTurn}
  BY DEF TypeInv, TypeOK
<1>2. CASE UNCHANGED <<engineVars, turn>>
  BY <1>1, <1>2, NothingMoves DEF engineVars
<1>3. ASSUME NEW reason \in {"user", "guided"}, RequestInterrupt(reason),
             UNCHANGED <<running, disposed, controller>>
      PROVE  OneLiveInv'
  <2>1. turn' = Aborted(reason)
    BY <1>3 DEF RequestInterrupt
  <2>2. QED
    BY <1>3, <2>1, AbortedType, NothingMoves DEF TypeInv
<1>4. CASE Request
  <2>1. ASSUME NEW p, NEW kind, NEW m, NEW withGoal, Start(p, kind, m, withGoal)
        PROVE  OneLiveInv'
    <3>1. CASE StartQueued(p, kind, m, withGoal)
      BY <1>2, <3>1 DEF StartQueued
    <3>2. ASSUME NEW new \in FreeTurns, StartIdle(p, kind, m, withGoal, new)
          PROVE  OneLiveInv'
      <4> DEFINE g == GoalOfRequest(withGoal, IdleMode(m))
                 item == SubmittedItem(p, kind, m, g)
      <4>1. ~running /\ ~disposed /\ Begin(item, g, new, turn) /\ new \in Turns
        BY <3>2 DEF StartIdle, FreeTurns
      <4>2. \A t \in Turns : turn[t].pc \in {"idle", "save"}
        BY <4>1, IdleHasNoLive
      <4>3. QED
        BY <1>1, <4>1, <4>2, BeginKeepsOneLive
    <3>3. QED
      BY <2>1, <3>1, <3>2 DEF Start
  <2>2. CASE StartTurn
    BY <2>1, <2>2 DEF StartTurn
  <2>3. CASE InterruptTurn
    BY <1>3, <2>3 DEF InterruptTurn
  <2>4. CASE GuideTurn
    <3>1. \E reason \in {"user", "guided"} : RequestInterrupt(reason)
      BY <2>4 DEF GuideTurn, GuideQueues, GuideStops
    <3>2. UNCHANGED <<running, disposed, controller>>
      BY <2>4 DEF GuideTurn
    <3>3. QED
      BY <1>3, <3>1, <3>2
  <2>5. CASE CancelWork
    <3>1. UNCHANGED <<running, disposed, controller>>
      BY <2>5 DEF CancelWork
    <3>2. RequestInterrupt("user") \/ turn' = turn
      BY <2>5 DEF CancelWork
    <3>3. CASE RequestInterrupt("user")
      BY <1>3, <3>1, <3>3
    <3>4. CASE turn' = turn
      BY <1>1, <3>1, <3>4, NothingMoves
    <3>5. QED
      BY <3>2, <3>3, <3>4
  <2>6. CASE Dispose
    <3>1. disposed' /\ controller' = NoTurn /\ turn' = Aborted("user")
      BY <2>6 DEF Dispose
    <3>2. turn' \in [Turns -> TurnState] /\ \A t \in Turns : Live(t)' => Live(t)
      BY <3>1, AbortedType DEF TypeInv, Live
    <3>3. QED
      BY <3>1, <3>2, NoNewLive
  <2>7. CASE \/ RefuseIdleStart \/ CancelQueuedTurn \/ Ask \/ Answer \/ StopRead \/ EnableStage
             \/ ResumeStage \/ (\E g \in Groups : GroupNotes(g)) \/ InvalidateModel
             \/ RepairModel \/ ToggleGate
    BY <1>2, <2>7 DEF RefuseIdleStart, StartIdleRefused, CancelQueuedTurn, Ask, Answer, StopRead,
         EnableStage, ResumeStage, GroupNotes, InvalidateModel, RepairModel, ToggleGate
  <2>8. QED
    BY <1>4, <2>2, <2>3, <2>4, <2>5, <2>6, <2>7 DEF Request
<1>5. CASE ControlStep
  <2>1. CASE StopApply
    <3>1. UNCHANGED <<running, disposed, controller>>
      BY <2>1 DEF StopApply
    <3>2. RequestInterrupt("user") \/ turn' = turn
      BY <2>1 DEF StopApply
    <3>3. QED
      BY <1>1, <1>3, <3>1, <3>2, NothingMoves
  <2>2. CASE EnableStarts
    <3> DEFINE g == [goal EXCEPT !.status = "running"]
               item == NewItem(NoPrompt, "prompt", "fullAccess", "none")
    <3>1. \/ UNCHANGED <<engineVars, turn>>
          \/ /\ ~running /\ CanBegin(item, g, unresolved)
             /\ \E new \in FreeTurns : Begin(item, g, new, turn)
      BY <2>2 DEF EnableStarts
    <3> HIDE DEF g, item
    <3>2. QED
      BY <1>2, <3>1, IdleBegins
  <2>3. CASE ResumePrepared
    <3> DEFINE next == Elevated(Head(Drainable(queue, goal)), goal)
    <3>1. \/ UNCHANGED <<engineVars, turn>>
          \/ /\ ~running /\ CanBegin(next, goal, FALSE)
             /\ \E new \in FreeTurns : Begin(next, goal, new, turn)
      BY <2>3 DEF ResumePrepared, ResumeTakes, ReloadCancelsQueue
    <3> HIDE DEF next
    <3>2. QED
      BY <1>2, <3>1, IdleBegins
  <2>4. CASE StopReturns \/ GoalCommit \/ GoalCommitFails \/ ResumeQueues
    BY <1>2, <2>4 DEF StopReturns, GoalCommit, GoalCommitFails, ResumeQueues
  <2>5. QED
    BY <1>5, <2>1, <2>2, <2>3, <2>4 DEF ControlStep
<1>6. ASSUME NEW t \in Turns, TurnStep(t) PROVE OneLiveInv'
  <2>1. ASSUME NEW ended, Settle(t, ended), Live(t), UNCHANGED <<running, disposed>>
        PROVE  OneLiveInv'
    BY <2>1, SettleMakesNoneLive, NoNewLive
  <2>2. CASE FirstRound(t)
    <3>1. turn[t].pc = "start" /\ turn' = [turn EXCEPT ![t].pc = "run"] /\ UNCHANGED engineVars
      BY <2>2 DEF FirstRound
    <3>2. turn' \in [Turns -> TurnState] /\ \A u \in Turns : Live(u)' => Live(u)
      BY <1>1, <3>1 DEF Live, TurnState
    <3>3. QED
      BY <1>1, <3>1, <3>2, NoNewLive DEF engineVars
  <2>3. CASE NextRound(t)
    BY <1>2, <2>3 DEF NextRound
  <2>4. CASE RunEnds(t)
    <3>1. Live(t) /\ UNCHANGED <<running, disposed>>
      BY <2>4 DEF RunEnds, Live
    <3>2. CASE IsCurrentTurn(t)
      <4>1. turn' = [turn EXCEPT ![t].pc = "record"] /\ controller' = controller
        BY <2>4, <3>2 DEF RunEnds
      <4>2. turn' \in [Turns -> TurnState] /\ \A u \in Turns : Live(u)' => Live(u)
        BY <1>1, <3>1, <4>1 DEF Live, TurnState
      <4>3. QED
        BY <1>1, <3>1, <4>1, <4>2, NoNewLive
    <3>3. CASE ~IsCurrentTurn(t)
      BY <2>1, <2>4, <3>1, <3>3 DEF RunEnds
    <3>4. QED
      BY <3>2, <3>3
  <2>5. CASE RecordEnds(t)
    BY <2>1, <2>5 DEF RecordEnds, Live
  <2>6. CASE DraftEnds(t)
    <3> DEFINE after == GoalAndQueueAfter(t)
    <3>1. Live(t) /\ UNCHANGED disposed
      BY <2>6 DEF DraftEnds, Live
    <3>2. after[1] \in Goal
      BY GoalAfterType DEF TypeInv
    <3>3. \/ Finish(t, FALSE, after[1], after[2], unresolved, accepted)
          \/ /\ turn' = [turn EXCEPT ![t].pc = "prepare"]
             /\ UNCHANGED <<running, controller>>
      BY <2>6 DEF DraftEnds
    <3> HIDE DEF after
    <3>4. CASE turn' = [turn EXCEPT ![t].pc = "prepare"] /\ UNCHANGED <<running, controller>>
      <4>1. turn' \in [Turns -> TurnState] /\ \A u \in Turns : Live(u)' => Live(u)
        BY <1>1, <3>1, <3>4 DEF Live, TurnState
      <4>2. QED
        BY <1>1, <3>1, <3>4, <4>1, NoNewLive
    <3>5. QED
      BY <3>1, <3>2, <3>3, <3>4, FinishKeepsOneLive
  <2>7. CASE PrepareEnds(t)
    <3>1. Live(t) /\ UNCHANGED disposed
      BY <2>7 DEF PrepareEnds, Live
    <3>2. \/ Finish(t, TRUE, goal, queue, FALSE, accepted)
          \/ Finish(t, FALSE, goal, <<>>, TRUE, accepted \ Ids(queue))
      BY <2>7 DEF PrepareEnds
    <3>3. QED
      BY <1>1, <3>1, <3>2, FinishKeepsOneLive
  <2>8. CASE SaveEnds(t)
    <3>1. /\ turn' = [turn EXCEPT ![t] = IdleTurn] /\ IdleTurn.pc = "idle"
          /\ UNCHANGED <<running, disposed, controller>>
      BY <2>8 DEF SaveEnds, IdleTurn
    <3>2. turn' \in [Turns -> TurnState] /\ \A u \in Turns : Live(u)' => Live(u)
      BY <1>1, <3>1, ConstantTypes DEF Live
    <3>3. QED
      BY <1>1, <3>1, <3>2, NoNewLive
  <2>9. QED
    BY <1>6, <2>2, <2>3, <2>4, <2>5, <2>6, <2>7, <2>8 DEF TurnStep
<1>7. CASE (\E g \in Groups : GroupWakes(g)) \/ IdleTimerFires
  BY <1>2, <1>7 DEF GroupWakes, IdleTimerFires
<1>8. CASE ForceSettle
  <2>1. UNCHANGED <<running, disposed, controller>> /\ (turn' = turn \/ turn' = Aborted("user"))
    BY <1>8 DEF ForceSettle
  <2>2. QED
    BY <1>1, <2>1, AbortedType, NothingMoves DEF TypeInv
<1>9. CASE WakePrepared
  <2> DEFINE item == NewItem(NoPrompt, "wakeup", currentMode, "none")
  <2>1. \/ UNCHANGED <<engineVars, turn>>
        \/ /\ ~running /\ CanBegin(item, goal, FALSE)
           /\ \E new \in FreeTurns : Begin(item, goal, new, turn)
    BY <1>9 DEF WakePrepared, MayWake, ReloadCancelsQueue
  <2> HIDE DEF item
  <2>2. QED
    BY <1>2, <2>1, IdleBegins
<1>10. CASE UNCHANGED vars
  BY <1>2, <1>10 DEF vars
<1>11. QED
  BY <1>4, <1>5, <1>6, <1>7, <1>8, <1>9, <1>10 DEF Next

(* Two turns never run, settle or prepare at the same time, whatever       *)
(* begins them: startDashboardTurn, the queue, a Goal control or a wake-up *)
(* all go through beginPrompt, and its callers' running checks hold.       *)
THEOREM OneTurnAtATime == Spec => []OneLiveRun
<1>1. Init => OneLiveInv
  <2> SUFFICES ASSUME Init PROVE OneLiveInv
    OBVIOUS
  <2>1. \A t \in Turns : turn[t].pc = "idle"
    BY DEF Init, IdleTurn
  <2>2. TurnsTyped
    BY ConstantTypes DEF Init, TurnsTyped
  <2>3. QED
    BY <2>1, <2>2 DEF OneLiveInv, OneLiveRun, LiveIsRunning, Live
<1>2. TypeInv /\ OneLiveInv /\ [Next]_vars => TypeInv' /\ OneLiveInv'
  BY TypeStep, OneLiveStep
<1>3. OneLiveInv => OneLiveRun
  BY DEF OneLiveInv
<1>4. QED
  BY <1>1, <1>2, <1>3, TypeInit, PTL DEF Spec

-----------------------------------------------------------------------------
(***************************************************************************)
(* Disposal.  DisposedIsQuiet is inductive: every step that could make a   *)
(* disposed session run, queue or time anything tests disposed itself.     *)
(***************************************************************************)
(* Nothing is taken from, or added to, the empty queue of a disposed       *)
(* session by the end of a turn.                                           *)
LEMMA QuietFinish ==
  ASSUME TypeOK, disposed, NEW t \in Turns, NEW may, NEW g \in Goal, NEW bad, NEW waiting,
         Finish(t, may, g, <<>>, bad, waiting)
  PROVE  running' = FALSE /\ queue' = <<>>
<1> DEFINE left == IF may /\ ~gate THEN Drainable(<<>>, g) ELSE <<>>
<1>1. left = <<>>
  BY ConstantTypes, DrainableKeeps
<1>2. ~HeadReady(left)
  BY <1>1 DEF HeadReady
<1>3. queue' = left /\ running' = FALSE
  BY <1>2 DEF Finish
<1>4. QED
  BY <1>1, <1>3

(* A disposed session stays quiet.                                         *)
LEMMA DisposedStep ==
  ASSUME TypeInv, DisposedIsQuiet, [Next]_vars
  PROVE  DisposedIsQuiet'
<1>1. CASE Dispose
  BY <1>1 DEF Dispose, NoTimer, DisposedIsQuiet
<1>2. CASE UNCHANGED <<disposed, running, queue, forceSettle>>
  BY <1>2 DEF DisposedIsQuiet
<1>3. CASE ~disposed /\ UNCHANGED disposed
  BY <1>3 DEF DisposedIsQuiet
<1>4. ASSUME disposed PROVE ~running /\ queue = <<>> /\ forceSettle.timer # "armed"
  BY <1>4 DEF DisposedIsQuiet
<1>5. ASSUME Request, ~Dispose PROVE DisposedIsQuiet'
  <2>1. CASE StartTurn
    BY ZenonT(30), <1>3, <2>1 DEF StartTurn, Start, StartIdle, StartQueued, engineVars
  <2>2. CASE GuideTurn \/ InterruptTurn \/ CancelWork
    BY <1>3, <2>2 DEF GuideTurn, InterruptTurn, CancelWork
  <2>3. CASE CancelQueuedTurn
    BY <1>3, <2>3 DEF CancelQueuedTurn, engineVars
  <2>4. CASE InvalidateModel
    BY <1>3, <2>4 DEF InvalidateModel, engineVars
  <2>5. CASE \/ RefuseIdleStart \/ Ask \/ Answer \/ StopRead \/ EnableStage \/ ResumeStage
             \/ (\E g \in Groups : GroupNotes(g)) \/ RepairModel \/ ToggleGate
    BY <1>2, <2>5 DEF RefuseIdleStart, StartIdleRefused, Ask, Answer, StopRead, EnableStage,
         ResumeStage, GroupNotes, RepairModel, ToggleGate, engineVars
  <2>6. QED
    BY <1>5, <2>1, <2>2, <2>3, <2>4, <2>5 DEF Request
<1>6. CASE ControlStep
  <2>1. CASE StopApply
    <3>1. UNCHANGED <<disposed, running>>
      BY <2>1 DEF StopApply
    <3>2. ASSUME disposed PROVE queue' = <<>> /\ forceSettle' = forceSettle
      <4>1. DropContinues(queue) = <<>>
        BY <1>4, <3>2, EmptyStaysEmpty DEF Modes
      <4>2. RevokeAll(<<>>, goal.previous) = <<>>
        <5>1. goal.previous \in Modes
          BY DEF TypeInv, TypeOK, Goal
        <5>2. QED
          BY <5>1, EmptyStaysEmpty
      <4>3. QED
        BY <2>1, <3>2, <4>1, <4>2 DEF StopApply
    <3>3. QED
      BY <1>4, <3>1, <3>2 DEF DisposedIsQuiet
  <2>2. CASE EnableStarts
    BY <1>2, <1>3, <2>2 DEF EnableStarts, engineVars
  <2>3. CASE ResumeQueues
    BY <1>2, <1>3, <2>3 DEF ResumeQueues, engineVars
  <2>4. CASE ResumePrepared
    <3>1. CASE ReloadCancelsQueue
      BY <1>4, <2>4, <3>1 DEF ReloadCancelsQueue, engineVars, DisposedIsQuiet
    <3>2. CASE ResumeTakes
      <4>1. CASE disposed
        <5>1. Drainable(<<>>, goal) = <<>>
          BY ConstantTypes, DrainableKeeps DEF TypeInv, TypeOK
        <5>2. UNCHANGED engineVars /\ queue' = <<>>
          BY <1>4, <3>2, <4>1, <5>1 DEF ResumeTakes, HeadReady
        <5>3. QED
          BY <1>4, <4>1, <5>2 DEF engineVars, DisposedIsQuiet
      <4>2. CASE ~disposed
        BY <1>3, <3>2, <4>2 DEF ResumeTakes, engineVars
      <4>3. QED
        BY <4>1, <4>2
    <3>3. QED
      BY <2>4, <3>1, <3>2 DEF ResumePrepared
  <2>5. CASE StopReturns \/ GoalCommit \/ GoalCommitFails
    BY <1>2, <2>5 DEF StopReturns, GoalCommit, GoalCommitFails, engineVars
  <2>6. QED
    BY <1>6, <2>1, <2>2, <2>3, <2>4, <2>5 DEF ControlStep
<1>7. ASSUME NEW t \in Turns, TurnStep(t) PROVE DisposedIsQuiet'
  <2>1. CASE FirstRound(t) \/ NextRound(t) \/ SaveEnds(t)
    BY <1>2, <2>1 DEF FirstRound, NextRound, SaveEnds, engineVars
  <2>2. ASSUME NEW ended, Settle(t, ended), UNCHANGED <<disposed, running, queue>>
        PROVE  DisposedIsQuiet'
    <3>1. forceSettle' = forceSettle \/ forceSettle' = NoTimer
      BY <2>2 DEF Settle
    <3>2. QED
      BY <1>4, <2>2, <3>1 DEF DisposedIsQuiet, NoTimer
  <2>3. CASE RunEnds(t)
    BY <1>2, <2>2, <2>3 DEF RunEnds
  <2>4. CASE RecordEnds(t)
    BY <2>2, <2>4 DEF RecordEnds
  <2>5. CASE DraftEnds(t)
    <3>1. UNCHANGED <<disposed, forceSettle>>
      BY <2>5 DEF DraftEnds
    <3>2. ASSUME disposed PROVE running' = FALSE /\ queue' = <<>>
      <4> DEFINE after == GoalAndQueueAfter(t)
      <4>1. DropContinues(queue) = <<>>
        BY <1>4, <3>2, EmptyStaysEmpty DEF Modes
      <4>2. after[2] = <<>>
        BY <1>4, <3>2, <4>1 DEF GoalAndQueueAfter, HostContinues
      <4>3. after[1] \in Goal
        BY GoalAfterType DEF TypeInv
      <4>4. Finish(t, FALSE, after[1], <<>>, unresolved, accepted)
        BY <2>5, <3>2, <4>2 DEF DraftEnds, MayPrepare
      <4> HIDE DEF after
      <4>5. QED
        BY <3>2, <4>3, <4>4, QuietFinish DEF TypeInv
    <3>3. QED
      BY <1>3, <1>4, <3>1, <3>2 DEF DisposedIsQuiet
  <2>6. CASE PrepareEnds(t)
    <3>1. UNCHANGED <<disposed, forceSettle>> /\ goal \in Goal
      BY <2>6 DEF PrepareEnds, TypeInv, TypeOK
    <3>2. \/ Finish(t, TRUE, goal, queue, FALSE, accepted)
          \/ Finish(t, FALSE, goal, <<>>, TRUE, accepted \ Ids(queue))
      BY <2>6 DEF PrepareEnds
    <3>3. ASSUME disposed PROVE running' = FALSE /\ queue' = <<>>
      BY <1>4, <3>1, <3>2, <3>3, QuietFinish DEF TypeInv
    <3>4. QED
      BY <1>4, <3>1, <3>3 DEF DisposedIsQuiet
  <2>7. QED
    BY <1>7, <2>1, <2>3, <2>4, <2>5, <2>6 DEF TurnStep
<1>8. CASE (\E g \in Groups : GroupWakes(g)) \/ IdleTimerFires
  BY <1>2, <1>8 DEF GroupWakes, IdleTimerFires, engineVars
<1>9. CASE ForceSettle
  BY <1>3, <1>4, <1>9 DEF ForceSettle, DisposedIsQuiet
<1>10. CASE WakePrepared
  <2>1. CASE ReloadCancelsQueue
    BY <1>4, <1>10, <2>1 DEF ReloadCancelsQueue, engineVars, DisposedIsQuiet
  <2>2. CASE UNCHANGED <<engineVars, queue>>
    BY <1>2, <2>2 DEF engineVars
  <2>3. CASE MayWake /\ UNCHANGED disposed
    BY <1>3, <2>3 DEF MayWake
  <2>4. QED
    BY <1>10, <2>1, <2>2, <2>3 DEF WakePrepared
<1>11. CASE UNCHANGED vars
  BY <1>2, <1>11 DEF vars, engineVars
<1>12. QED
  BY <1>1, <1>5, <1>6, <1>7, <1>8, <1>9, <1>10, <1>11 DEF Next

(* Once disposeTurnState has run, no coroutine, control, timer or wake-up  *)
(* that was suspended at the time starts, queues or arms anything.         *)
THEOREM DisposalIsFinal == Spec => []DisposedIsQuiet
<1>1. Init => DisposedIsQuiet
  BY DEF Init, DisposedIsQuiet
<1>2. TypeInv /\ DisposedIsQuiet /\ [Next]_vars => TypeInv' /\ DisposedIsQuiet'
  BY TypeStep, DisposedStep
<1>3. QED
  BY <1>1, <1>2, TypeInit, PTL DEF Spec

-----------------------------------------------------------------------------
(***************************************************************************)
(* Maintenance.  A turn that begins has passed beginPrompt's own test of   *)
(* the gate, in the same synchronous stretch.                              *)
(***************************************************************************)
IdleStaysIdle == \A t \in Turns : turn[t].pc = "idle" => turn'[t].pc = "idle"

(* The coroutine of a turn begins no other turn while the gate is held.    *)
LEMMA GatedTurnStep ==
  ASSUME TypeOK, gate, NEW t \in Turns, TurnStep(t)
  PROVE  IdleStaysIdle
<1>1. turn \in [Turns -> TurnState]
  BY DEF TypeOK
<1>2. ASSUME NEW state, turn' = [turn EXCEPT ![t] = state], turn[t].pc # "idle"
      PROVE  IdleStaysIdle
  BY <1>1, <1>2 DEF IdleStaysIdle
<1>3. ASSUME NEW may, NEW g, NEW q, NEW bad, NEW waiting, Finish(t, may, g, q, bad, waiting),
             turn[t].pc # "idle"
      PROVE  IdleStaysIdle
  BY <1>2, <1>3 DEF Finish
<1>4. ASSUME NEW ended, Settle(t, ended), turn[t].pc # "idle" PROVE IdleStaysIdle
  <2>1. CASE ~OwnsTurn(t)
    BY <1>2, <1>4, <2>1 DEF Settle
  <2>2. CASE OwnsTurn(t)
    <3>1. turn' = [turn EXCEPT ![t].pc = "draft", ![t].wasQuarantined = quarantinedTurnId = t]
      BY <1>4, <2>2 DEF Settle
    <3>2. \A u \in Turns : u # t => turn'[u] = turn[u]
      BY <1>1, <3>1
    <3>3. QED
      BY <1>4, <3>2 DEF IdleStaysIdle
  <2>3. QED
    BY <2>1, <2>2
<1>5. ASSUME NEW pc, turn' = [turn EXCEPT ![t].pc = pc], turn[t].pc # "idle"
      PROVE  IdleStaysIdle
  BY <1>1, <1>5 DEF IdleStaysIdle
<1>6. CASE FirstRound(t)
  BY <1>5, <1>6 DEF FirstRound
<1>7. CASE NextRound(t)
  BY <1>7 DEF NextRound, IdleStaysIdle
<1>8. CASE RunEnds(t)
  BY <1>4, <1>5, <1>8 DEF RunEnds
<1>9. CASE RecordEnds(t)
  BY <1>4, <1>9 DEF RecordEnds
<1>10. CASE DraftEnds(t)
  BY <1>3, <1>5, <1>10 DEF DraftEnds
<1>11. CASE PrepareEnds(t)
  BY <1>3, <1>11 DEF PrepareEnds
<1>12. CASE SaveEnds(t)
  BY <1>2, <1>12 DEF SaveEnds
<1>13. QED
  BY <1>6, <1>7, <1>8, <1>9, <1>10, <1>11, <1>12 DEF TurnStep

(* No step begins a turn while the gate is held.                           *)
LEMMA GatedStep ==
  ASSUME TypeOK, gate, [Next]_vars
  PROVE  IdleStaysIdle
<1>1. CASE turn' = turn
  BY <1>1 DEF IdleStaysIdle
<1>2. ASSUME NEW reason \in {"user", "guided"}, turn' = Aborted(reason) PROVE IdleStaysIdle
  BY <1>2, AbortedType DEF IdleStaysIdle
<1>3. ~StartTurn
  BY DEF StartTurn, Start, StartIdle, StartQueued
<1>4. CASE InterruptTurn \/ GuideTurn \/ StopApply
  BY <1>1, <1>2, <1>4
    DEF InterruptTurn, GuideTurn, GuideQueues, GuideStops, StopApply, RequestInterrupt
<1>5. CASE CancelWork \/ Dispose \/ ForceSettle
  BY <1>1, <1>2, <1>5 DEF CancelWork, Dispose, ForceSettle, RequestInterrupt
<1>6. CASE EnableStarts \/ ResumePrepared \/ WakePrepared
  BY <1>1, <1>6
    DEF EnableStarts, ResumePrepared, ResumeTakes, ReloadCancelsQueue, WakePrepared, CanBegin
<1>7. CASE \/ RefuseIdleStart \/ CancelQueuedTurn \/ Ask \/ Answer \/ StopRead \/ EnableStage
           \/ ResumeStage \/ (\E g \in Groups : GroupNotes(g)) \/ InvalidateModel
           \/ RepairModel \/ ToggleGate
  BY <1>1, <1>7 DEF RefuseIdleStart, StartIdleRefused, CancelQueuedTurn, Ask, Answer, StopRead,
       EnableStage, ResumeStage, GroupNotes, InvalidateModel, RepairModel, ToggleGate
<1>8. CASE \/ StopReturns \/ GoalCommit \/ GoalCommitFails \/ ResumeQueues \/ IdleTimerFires
           \/ \E g \in Groups : GroupWakes(g)
  BY <1>1, <1>8 DEF StopReturns, GoalCommit, GoalCommitFails, ResumeQueues, IdleTimerFires,
       GroupWakes
<1>9. CASE \E t \in Turns : TurnStep(t)
  BY <1>9, GatedTurnStep
<1>10. CASE UNCHANGED vars
  BY <1>1, <1>10 DEF vars
<1>11. QED
  BY <1>3, <1>4, <1>5, <1>6, <1>7, <1>8, <1>9, <1>10 DEF Next, Request, ControlStep

(* While source-update maintenance is held, no turn starts, not even one   *)
(* that was admitted before and waited for its configuration, its Goal     *)
(* commit or its coalescing delay.                                         *)
THEOREM MaintenanceStartsNothing == Spec => GateBlocksStarts
<1>1. TypeInv /\ [Next]_vars
        => [gate => \A t \in Turns : turn[t].pc = "idle" => turn'[t].pc = "idle"]_vars
  BY GatedStep DEF TypeInv, IdleStaysIdle
<1>2. QED
  BY <1>1, TypeInit, TypeStep, PTL DEF Spec, GateBlocksStarts

-----------------------------------------------------------------------------
(***************************************************************************)
(* A stopped Goal.  What makes StoppedGoalLeavesNothing inductive is that  *)
(* a staged control carries a Goal that is on, and that the Goal it        *)
(* publishes stays on until the control returns: no stop gets in between.  *)
(***************************************************************************)
StagedIsOn == control.stage \in {"staged", "published", "prepare"} => control.goal.on

PublishedIsOn == control.stage \in {"published", "prepare"} => goal.on

StopInv == StoppedGoalLeavesNothing /\ StagedIsOn /\ PublishedIsOn

(* A queue that holds only items of another one, and items that continue   *)
(* nothing, holds no continuation the other did not hold.                  *)
LEMMA NoNewContinues ==
  ASSUME StopInv, queue' \in Seq(Item), goal'.on = goal.on, UNCHANGED control,
         \A i \in DOMAIN queue' : \/ queue'[i].kind # "goal-continue"
                                  \/ \E j \in DOMAIN queue : queue'[i].kind = queue[j].kind
  PROVE  StopInv'
<1>1. StoppedGoalLeavesNothing'
  BY DEF StopInv, StoppedGoalLeavesNothing, Has
<1>2. QED
  BY <1>1 DEF StopInv, StagedIsOn, PublishedIsOn

(* A step that leaves queue, Goal and control alone.                       *)
LEMMA StopFrame ==
  ASSUME StopInv, UNCHANGED <<queue, goal, control>>
  PROVE  StopInv'
BY DEF StopInv, StagedIsOn, PublishedIsOn, StoppedGoalLeavesNothing, Has

(* An emptied queue holds no continuation.                                 *)
LEMMA StopEmptied ==
  ASSUME StopInv, queue' = <<>>, goal'.on = goal.on, UNCHANGED control
  PROVE  StopInv'
<1>1. StoppedGoalLeavesNothing'
  BY DEF StoppedGoalLeavesNothing, Has
<1>2. QED
  BY <1>1 DEF StopInv, StagedIsOn, PublishedIsOn

(* The requests leave no continuation of a stopped Goal.                   *)
LEMMA StopRequest ==
  ASSUME TypeInv, StopInv, Request
  PROVE  StopInv'
<1>1. queue \in Seq(Item) /\ goal \in Goal /\ TypeOK'
  BY RequestTypes DEF TypeInv, TypeOK
<1>2. queue' \in Seq(Item)
  BY <1>1 DEF TypeOK
<1>3. ASSUME NEW p \in Prompts, NEW kind \in {"prompt", "schedule"}, NEW m \in RequestModes,
             NEW withGoal \in BOOLEAN, Start(p, kind, m, withGoal)
      PROVE  StopInv'
  <2>1. control.stage = "none" /\ control' = control
    BY <1>3 DEF Start, StartIdle, StartQueued, LockFree
  <2>2. ASSUME NEW prior PROVE GoalOfRequest(withGoal, prior) = goal
                               \/ GoalOfRequest(withGoal, prior).on
    BY DEF GoalOfRequest, NewGoal
  <2>3. goal' = goal \/ goal'.on
    BY <1>3, <2>2 DEF Start, StartIdle, StartQueued
  <2>4. \A i \in DOMAIN queue' : \/ queue'[i].kind # "goal-continue"
                                 \/ \E j \in DOMAIN queue : queue'[i].kind = queue[j].kind
    <3>1. CASE queue' = queue
      BY <3>1
    <3>2. ASSUME NEW g \in Goal, queue' = Append(queue, SubmittedItem(p, kind, m, g))
          PROVE  \A i \in DOMAIN queue' :
                   \/ queue'[i].kind # "goal-continue"
                   \/ \E j \in DOMAIN queue : queue'[i].kind = queue[j].kind
      <4>1. SubmittedItem(p, kind, m, g).kind = kind /\ SubmittedItem(p, kind, m, g) \in Item
        BY SubmittedItemType DEF Kinds
      <4>2. QED
        BY <1>1, <3>2, <4>1
    <3>3. GoalOfRequest(withGoal, permission) \in Goal
      BY <1>1, GoalRules DEF GoalOfRequest, TypeInv, TypeOK
    <3>4. QED
      BY <1>3, <3>1, <3>2, <3>3 DEF Start, StartIdle, StartQueued
  <2>5. CASE goal' = goal
    BY <1>2, <2>1, <2>4, <2>5, NoNewContinues
  <2>6. CASE goal'.on
    BY <2>1, <2>6 DEF StopInv, StagedIsOn, PublishedIsOn, StoppedGoalLeavesNothing
  <2>7. QED
    BY <2>3, <2>5, <2>6
<1>4. CASE StartTurn
  <2>1. PICK p \in Prompts, m \in RequestModes :
          Start(p, "prompt", m, FALSE) \/ Start(p, "prompt", m, TRUE)
          \/ Start(p, "schedule", m, FALSE)
    BY <1>4 DEF StartTurn, FreePrompts
  <2>2. QED
    BY <1>3, <2>1
<1>5. CASE CancelQueuedTurn
  <2>1. PICK i \in DOMAIN queue : queue' = Without(queue, i)
    BY <1>5 DEF CancelQueuedTurn
  <2>2. \A j \in DOMAIN queue' : \E k \in DOMAIN queue : queue'[j] = queue[k]
    BY <1>1, <2>1, WithoutType
  <2>3. goal' = goal /\ control' = control
    BY <1>5 DEF CancelQueuedTurn
  <2>4. QED
    BY <1>2, <2>2, <2>3, NoNewContinues
<1>6. CASE GuideTurn
  <2>1. goal' = goal /\ control' = control
    BY <1>6 DEF GuideTurn
  <2>2. PICK m \in RequestModes \cup {"inherit"} :
          \/ \E i \in {j \in DOMAIN queue : queue[j].kind # "guide"} :
               \/ GuideQueues(queue[i].id, m, Without(queue, i))
               \/ GuideStops({queue[i].id}, Without(queue, i))
          \/ \/ \E p \in FreePrompts : GuideQueues(p, m, queue)
             \/ GuideStops({}, queue)
    BY <1>6 DEF GuideTurn
  <2>3. PICK rest \in Seq(Item), id \in Prompts \cup {NoPrompt} :
          /\ rest = queue \/ \E i \in DOMAIN queue : rest = Without(queue, i)
          /\ queue' = rest \/ queue' = <<GuideItem(id, m)>> \o rest
    <3>1. \A i \in DOMAIN queue : Without(queue, i) \in Seq(Item)
                                  /\ queue[i].id \in Prompts \cup {NoPrompt}
      <4>1. \A i \in DOMAIN queue : queue[i] \in Item
        BY <1>1
      <4>2. QED
        BY <1>1, <4>1, WithoutType DEF Item
    <3>2. FreePrompts \subseteq Prompts
      BY DEF FreePrompts
    <3>3. QED
      BY <1>1, <2>2, <3>1, <3>2 DEF GuideQueues, GuideStops
  <2>4. \A j \in DOMAIN rest : \E k \in DOMAIN queue : rest[j] = queue[k]
    BY <1>1, <2>3, WithoutType
  <2>5. GuideItem(id, m) \in Item /\ GuideItem(id, m).kind = "guide"
    BY GuideItemType DEF TypeInv
  <2>6. \A i \in DOMAIN queue' : \/ queue'[i].kind # "goal-continue"
                                 \/ \E j \in DOMAIN queue : queue'[i].kind = queue[j].kind
    <3>1. CASE queue' = rest
      BY <2>4, <3>1
    <3>2. CASE queue' = <<GuideItem(id, m)>> \o rest
      <4>1. \A i \in DOMAIN queue' : \/ queue'[i] = GuideItem(id, m)
                                     \/ \E j \in DOMAIN rest : queue'[i] = rest[j]
        BY <2>5, <3>2
      <4>2. QED
        BY <2>4, <2>5, <4>1
    <3>3. QED
      BY <2>3, <3>1, <3>2
  <2>7. QED
    BY <1>2, <2>1, <2>6, NoNewContinues
<1>7. CASE StopRead
  BY <1>7 DEF StopRead, NoControl, StopInv, StagedIsOn, PublishedIsOn,
       StoppedGoalLeavesNothing, Has
<1>8. CASE EnableStage
  BY <1>8 DEF EnableStage, NewGoal, StopInv, StagedIsOn, PublishedIsOn,
       StoppedGoalLeavesNothing, Has
<1>9. CASE ResumeStage
  <2>1. control'.goal.on /\ control'.stage = "staged"
    BY <1>1, <1>9 DEF ResumeStage, Goal
  <2>2. queue' = queue /\ goal' = goal
    BY <1>9 DEF ResumeStage
  <2>3. QED
    BY <2>1, <2>2 DEF StopInv, StagedIsOn, PublishedIsOn, StoppedGoalLeavesNothing, Has
<1>10. CASE InvalidateModel
  BY <1>10, StopFrame, StopEmptied DEF InvalidateModel
<1>11. CASE CancelWork
  BY <1>11, StopEmptied DEF CancelWork
<1>12. CASE Dispose
  <2>1. goal'.on = goal.on /\ queue' = <<>> /\ control' = control
    BY <1>1, <1>12 DEF Dispose, Goal
  <2>2. QED
    BY <2>1, StopEmptied
<1>13. CASE \/ RefuseIdleStart \/ InterruptTurn \/ Ask \/ Answer
            \/ (\E g \in Groups : GroupNotes(g)) \/ RepairModel \/ ToggleGate
  BY <1>13, StopFrame DEF RefuseIdleStart, StartIdleRefused, InterruptTurn, Ask, Answer,
       GroupNotes, RepairModel, ToggleGate
<1>14. QED
  BY <1>4, <1>5, <1>6, <1>7, <1>8, <1>9, <1>10, <1>11, <1>12, <1>13 DEF Request

(* The Goal controls leave no continuation of a stopped Goal.              *)
LEMMA StopControl ==
  ASSUME TypeInv, StopInv, ControlStep
  PROVE  StopInv'
<1>1. queue \in Seq(Item) /\ goal \in Goal /\ goal.previous \in Modes /\ control \in ControlState
  BY DEF TypeInv, TypeOK, Goal
<1>2. CASE StopApply
  <2> DEFINE kept == DropContinues(queue)
  <2>1. kept \in Seq(Item) /\ ~Has(kept, {"goal-continue"})
    BY <1>1, DropContinuesLeavesNone
  <2>2. queue' = kept \/ queue' = RevokeAll(kept, goal.previous)
    BY <1>2 DEF StopApply
  <2>3. control'.stage = "stopWrite"
    BY <1>1, <1>2 DEF StopApply, ControlState
  <2> HIDE DEF kept
  <2>4. ~Has(RevokeAll(kept, goal.previous), {"goal-continue"})
    <3> DEFINE revoked == RevokeAll(kept, goal.previous)
    <3>1. /\ revoked \in Seq(Item) /\ Len(revoked) = Len(kept)
          /\ \A i \in DOMAIN kept : revoked[i].kind = kept[i].kind
      BY <1>1, <2>1, RevokeAllKeeps
    <3> HIDE DEF revoked
    <3>2. DOMAIN revoked = DOMAIN kept
      BY <2>1, <3>1
    <3>3. ~Has(revoked, {"goal-continue"})
      BY <2>1, <3>1, <3>2 DEF Has
    <3>4. QED
      BY <3>3 DEF revoked
  <2>5. ~Has(queue', {"goal-continue"})
    <3>1. CASE queue' = kept
      BY <2>1, <3>1 DEF Has
    <3>2. CASE queue' = RevokeAll(kept, goal.previous)
      BY <2>4, <3>2 DEF Has
    <3>3. QED
      BY <2>2, <3>1, <3>2
  <2>6. QED
    BY <2>3, <2>5 DEF StopInv, StagedIsOn, PublishedIsOn, StoppedGoalLeavesNothing, Has
<1>3. CASE StopReturns \/ GoalCommitFails
  BY <1>3 DEF StopReturns, GoalCommitFails, NoControl, StopInv, StagedIsOn, PublishedIsOn,
       StoppedGoalLeavesNothing, Has
<1>4. CASE GoalCommit
  <2>1. goal'.on /\ control'.goal = control.goal /\ control.goal.on
    BY <1>1, <1>4 DEF GoalCommit, StopInv, StagedIsOn, ControlState
  <2>2. QED
    BY <2>1 DEF StopInv, StagedIsOn, PublishedIsOn, StoppedGoalLeavesNothing
<1>5. CASE EnableStarts
  <2>1. goal'.on = goal.on /\ control' = NoControl /\ queue' = queue
    BY <1>1, <1>5 DEF EnableStarts, Goal
  <2>2. QED
    BY <2>1 DEF NoControl, StopInv, StagedIsOn, PublishedIsOn, StoppedGoalLeavesNothing, Has
<1>6. CASE ResumeQueues
  <2>1. goal' = goal /\ goal.on
    BY <1>6 DEF ResumeQueues, StopInv, PublishedIsOn
  <2>2. control' = NoControl \/ control'.goal = control.goal
    BY <1>1, <1>6 DEF ResumeQueues, ControlState
  <2>3. control.goal.on
    BY <1>6 DEF ResumeQueues, StopInv, StagedIsOn
  <2>4. QED
    BY <2>1, <2>2, <2>3
      DEF NoControl, StopInv, StagedIsOn, PublishedIsOn, StoppedGoalLeavesNothing
<1>7. CASE ResumePrepared
  <2>1. goal' = goal /\ goal.on /\ control' = NoControl
    BY <1>7 DEF ResumePrepared, StopInv, PublishedIsOn
  <2>2. QED
    BY <2>1 DEF NoControl, StopInv, StagedIsOn, PublishedIsOn, StoppedGoalLeavesNothing
<1>8. QED
  BY <1>2, <1>3, <1>4, <1>5, <1>6, <1>7 DEF ControlStep

(* The end of a turn leaves no continuation of a stopped Goal.             *)
LEMMA StopFinish ==
  ASSUME TypeInv, StopInv, NEW t \in Turns, NEW may, NEW g \in Goal, NEW q \in Seq(Item),
         NEW bad, NEW waiting, Finish(t, may, g, q, bad, waiting), UNCHANGED control,
         g.on = goal.on, ~g.on => ~Has(q, {"goal-continue"})
  PROVE  StopInv'
<1> DEFINE left == IF may /\ ~gate THEN Drainable(q, g) ELSE q
<1>1. left \in Seq(Item) /\ (~g.on => ~Has(left, {"goal-continue"}))
  BY DrainableKeeps
<1>2. /\ goal' = g
      /\ queue' = left \/ (HeadReady(left) /\ queue' = Tail(left))
  BY DEF Finish
<1> HIDE DEF left
<1>3. ~g.on => ~Has(queue', {"goal-continue"})
  <2>1. CASE queue' = left
    BY <1>1, <2>1
  <2>2. CASE HeadReady(left) /\ queue' = Tail(left)
    <3>1. /\ Tail(left) \in Seq(Item)
          /\ \A i \in DOMAIN Tail(left) : i + 1 \in DOMAIN left /\ Tail(left)[i] = left[i + 1]
      BY <1>1, <2>2 DEF HeadReady
    <3>2. QED
      BY <1>1, <2>2, <3>1 DEF Has
  <2>3. QED
    BY <1>2, <2>1, <2>2
<1>4. StoppedGoalLeavesNothing'
  BY <1>2, <1>3 DEF StoppedGoalLeavesNothing, Has
<1>5. QED
  BY <1>2, <1>4 DEF StopInv, StagedIsOn, PublishedIsOn

(* Every step leaves no continuation of a stopped Goal.                    *)
LEMMA StopStep ==
  ASSUME TypeInv, StopInv, [Next]_vars
  PROVE  StopInv'
<1>1. queue \in Seq(Item) /\ goal \in Goal /\ claimed \in BOOLEAN
  BY DEF TypeInv, TypeOK
<1>2. ~goal.on => ~Has(queue, {"goal-continue"})
  BY DEF StopInv, StoppedGoalLeavesNothing
<1>3. ASSUME NEW t \in Turns, DraftEnds(t) PROVE StopInv'
  <2> DEFINE after == GoalAndQueueAfter(t)
             g == AfterTurn(goal, status, claimed)
             q == IF goal.on /\ status = "interrupted" THEN DropContinues(queue) ELSE queue
  <2>1. g \in Goal /\ g.on = goal.on
    BY <1>1, GoalRules DEF Modes
  <2>2. q \in Seq(Item) /\ (~goal.on => ~Has(q, {"goal-continue"}))
    BY <1>1, <1>2, DropContinuesLeavesNone
  <2>3. after = HostContinues(t, g, q)
    BY DEF GoalAndQueueAfter
  <2> HIDE DEF after, g, q
  <2>4. /\ after[1] \in Goal /\ after[1].on = goal.on /\ after[2] \in Seq(Item)
        /\ ~goal.on => ~Has(after[2], {"goal-continue"})
    BY <2>1, <2>2, <2>3, HostContinuesType
  <2>5. control' = control
    BY <1>3 DEF DraftEnds
  <2>6. \/ goal' = after[1] /\ queue' = after[2]
        \/ Finish(t, FALSE, after[1], after[2], unresolved, accepted)
    BY <1>3 DEF DraftEnds, after
  <2>7. CASE goal' = after[1] /\ queue' = after[2]
    <3>1. StoppedGoalLeavesNothing'
      BY <2>4, <2>7 DEF StoppedGoalLeavesNothing, Has
    <3>2. QED
      BY <2>4, <2>5, <2>7, <3>1 DEF StopInv, StagedIsOn, PublishedIsOn
  <2>8. QED
    BY <2>4, <2>5, <2>6, <2>7, StopFinish
<1>4. ASSUME NEW t \in Turns, PrepareEnds(t) PROVE StopInv'
  <2>1. control' = control
    BY <1>4 DEF PrepareEnds
  <2>2. ~Has(<<>>, {"goal-continue"})
    BY DEF Has
  <2>3. \/ Finish(t, TRUE, goal, queue, FALSE, accepted)
        \/ Finish(t, FALSE, goal, <<>>, TRUE, accepted \ Ids(queue))
    BY <1>4 DEF PrepareEnds
  <2>4. QED
    BY <1>1, <1>2, <2>1, <2>2, <2>3, StopFinish, ConstantTypes
<1>5. ASSUME NEW t \in Turns, TurnStep(t), ~DraftEnds(t), ~PrepareEnds(t)
      PROVE  StopInv'
  BY <1>5, StopFrame DEF TurnStep, FirstRound, NextRound, RunEnds, RecordEnds, SaveEnds
<1>6. CASE (\E g \in Groups : GroupWakes(g)) \/ IdleTimerFires \/ ForceSettle
  BY <1>6, StopFrame DEF GroupWakes, IdleTimerFires, ForceSettle
<1>7. CASE WakePrepared
  BY <1>7, StopFrame, StopEmptied DEF WakePrepared, ReloadCancelsQueue
<1>8. CASE UNCHANGED vars
  BY <1>8, StopFrame DEF vars
<1>9. QED
  BY <1>3, <1>4, <1>5, <1>6, <1>7, <1>8, StopRequest, StopControl DEF Next

(* When a Goal is stopped, none of its continuations stays queued, whoever *)
(* was settling, preparing or staging a resume at the time.                *)
THEOREM StopIsComplete == Spec => []StoppedGoalLeavesNothing
<1>1. Init => StopInv
  BY DEF Init, StopInv, StoppedGoalLeavesNothing, Has, StagedIsOn, PublishedIsOn, NoControl
<1>2. TypeInv /\ StopInv /\ [Next]_vars => TypeInv' /\ StopInv'
  BY TypeStep, StopStep
<1>3. StopInv => StoppedGoalLeavesNothing
  BY DEF StopInv
<1>4. QED
  BY <1>1, <1>2, <1>3, TypeInit, PTL DEF Spec

-----------------------------------------------------------------------------
(***************************************************************************)
(* What the turn engine promises its clients under a condition on what its *)
(* environment does: that whatever a session says it is doing comes to an  *)
(* end, that an accepted prompt is accounted for, and that full access is  *)
(* vouched for.  Each condition is part of the theorem that needs it, for  *)
(* every number of turns, prompts and groups; outside of it the property   *)
(* is known not to hold.                                                   *)
(***************************************************************************)
(* Settling ends before the force-settle timer of an interrupt.            *)
SettlesInTime == SlowSettle = FALSE

-----------------------------------------------------------------------------
(***************************************************************************)
(* A session without a Goal.                                               *)
(***************************************************************************)
GoalFree == ~goal.on /\ control = NoControl /\ \A t \in Turns : turn[t].pc # "save"

(* A turn that ends without a Goal saves no snapshot.                      *)
LEMMA GoalFreeFinish ==
  ASSUME TypeInv, GoalFree, NEW t \in Turns, NEW may, NEW g \in Goal, ~g.on,
         NEW q, NEW bad, NEW waiting, Finish(t, may, g, q, bad, waiting), UNCHANGED control
  PROVE  GoalFree'
<1> DEFINE over == [IdleTurn EXCEPT !.pc = IF g.on THEN "save" ELSE "idle"]
           begun == [turn EXCEPT ![t] = [over EXCEPT !.startedNext = g.on]]
<1>1. turn \in [Turns -> TurnState]
  BY DEF TypeInv, TypeOK
<1>2. over.pc = "idle" /\ [over EXCEPT !.startedNext = g.on].pc = "idle"
  BY DEF IdleTurn
<1>3. goal' = g
  BY DEF Finish
<1>4. \/ turn' = [turn EXCEPT ![t] = over]
      \/ \E new \in Turns : turn' = [begun EXCEPT ![new] = [IdleTurn EXCEPT !.pc = "start"]]
  <2>1. \/ turn' = [turn EXCEPT ![t] = over]
        \/ \E item : \E new \in FreeTurns : Begin(item, g, new, begun)
    BY DEF Finish
  <2> HIDE DEF begun, over
  <2>2. QED
    BY <2>1 DEF Begin, FreeTurns
<1>5. \A u \in Turns : turn'[u].pc # "save"
  <2> HIDE DEF over
  <2>1. \A u \in Turns : begun[u].pc # "save" /\ begun \in [Turns -> {begun[v] : v \in Turns}]
    BY <1>1, <1>2 DEF GoalFree
  <2>2. [IdleTurn EXCEPT !.pc = "start"].pc = "start"
    BY DEF IdleTurn
  <2>3. CASE turn' = [turn EXCEPT ![t] = over]
    BY <1>1, <1>2, <2>3 DEF GoalFree
  <2>4. ASSUME NEW new \in Turns, turn' = [begun EXCEPT ![new] = [IdleTurn EXCEPT !.pc = "start"]]
        PROVE  \A u \in Turns : turn'[u].pc # "save"
    <3> HIDE DEF begun
    <3>1. QED
      BY <2>1, <2>2, <2>4
  <2>5. QED
    BY <1>4, <2>3, <2>4
<1>6. QED
  BY <1>3, <1>5 DEF GoalFree

(* A step that leaves Goal and control alone and moves no turn to "save".  *)
LEMMA GoalFreeFrame ==
  ASSUME GoalFree, goal'.on = goal.on, UNCHANGED control,
         \A t \in Turns : turn'[t].pc = "save" => turn[t].pc = "save"
  PROVE  GoalFree'
BY DEF GoalFree

(* A turn that begins is not saving.                                       *)
LEMMA GoalFreeBegins ==
  ASSUME TypeInv, GoalFree, goal'.on = goal.on, UNCHANGED control,
         NEW item, NEW g, NEW new \in FreeTurns, Begin(item, g, new, turn)
  PROVE  GoalFree'
<1>1. turn \in [Turns -> TurnState] /\ new \in Turns
  BY DEF TypeInv, TypeOK, FreeTurns
<1>2. turn' = [turn EXCEPT ![new] = [IdleTurn EXCEPT !.pc = "start"]]
  BY DEF Begin
<1>3. [IdleTurn EXCEPT !.pc = "start"].pc = "start"
  BY DEF IdleTurn
<1>4. QED
  BY <1>1, <1>2, <1>3, GoalFreeFrame

(* Without Goal requests there is no Goal.                                 *)
LEMMA GoalFreeStep ==
  ASSUME TypeInv, GoalFree, "goal" \notin Ops, [Next]_vars
  PROVE  GoalFree'
<1>1. turn \in [Turns -> TurnState] /\ goal \in Goal /\ queue \in Seq(Item) /\ claimed \in BOOLEAN
  BY DEF TypeInv, TypeOK
<1>2. control = NoControl /\ control.stage = "none" /\ ~goal.on
  BY DEF GoalFree, NoControl
<1>3. CASE UNCHANGED <<goal, control, turn>>
  BY <1>3, GoalFreeFrame
<1>4. ASSUME goal' = goal, control' = control, \E r \in {"user", "guided"} : turn' = Aborted(r)
      PROVE  GoalFree'
  <2>1. PICK r \in {"user", "guided"} : turn' = Aborted(r)
    BY <1>4
  <2>2. \A t \in Turns : turn'[t].pc = turn[t].pc
    BY <2>1, AbortedType DEF TypeInv
  <2>3. QED
    BY <1>4, <2>2, GoalFreeFrame
<1>5. CASE Request
  <2>1. ASSUME StartTurn PROVE GoalFree'
    <3>1. PICK p \in FreePrompts, m \in RequestModes, kind \in {"prompt", "schedule"} :
            Start(p, kind, m, FALSE)
      BY <2>1 DEF StartTurn
    <3>2. \A prior : GoalOfRequest(FALSE, prior) = goal
      BY DEF GoalOfRequest
    <3>3. CASE StartQueued(p, kind, m, FALSE)
      BY <1>3, <3>2, <3>3 DEF StartQueued
    <3>4. ASSUME NEW new \in FreeTurns, StartIdle(p, kind, m, FALSE, new) PROVE GoalFree'
      <4>1. /\ Begin(SubmittedItem(p, kind, m, goal), goal, new, turn)
            /\ goal' = goal /\ control' = control
        BY <3>2, <3>4 DEF StartIdle
      <4>2. QED
        BY <4>1, GoalFreeBegins
    <3>5. QED
      BY <3>1, <3>3, <3>4 DEF Start
  <2>2. CASE InterruptTurn \/ GuideTurn
    BY <1>4, <2>2 DEF InterruptTurn, GuideTurn, GuideQueues, GuideStops, RequestInterrupt
  <2>3. CASE CancelWork
    BY <1>3, <1>4, <2>3 DEF CancelWork, RequestInterrupt
  <2>4. CASE Dispose
    <3>1. goal'.on = goal.on /\ turn' = Aborted("user") /\ control' = control
      BY <1>1, <2>4 DEF Dispose, Goal
    <3>2. \A t \in Turns : turn'[t].pc = turn[t].pc
      BY <3>1, AbortedType DEF TypeInv
    <3>3. QED
      BY <3>1, <3>2, GoalFreeFrame
  <2>5. ~StopRead /\ ~EnableStage /\ ~ResumeStage
    BY DEF StopRead, EnableStage, ResumeStage, GoalRequest
  <2>6. CASE \/ RefuseIdleStart \/ CancelQueuedTurn \/ Ask \/ Answer
             \/ (\E g \in Groups : GroupNotes(g)) \/ InvalidateModel \/ RepairModel \/ ToggleGate
    BY <1>3, <2>6 DEF RefuseIdleStart, StartIdleRefused, CancelQueuedTurn, Ask, Answer,
         GroupNotes, InvalidateModel, RepairModel, ToggleGate
  <2>7. QED
    BY <1>5, <2>1, <2>2, <2>3, <2>4, <2>5, <2>6 DEF Request
<1>6. ~ControlStep
  BY <1>2 DEF ControlStep, StopApply, StopReturns, GoalCommit, GoalCommitFails, EnableStarts,
              ResumeQueues, ResumePrepared
<1>7. ASSUME NEW t \in Turns, TurnStep(t) PROVE GoalFree'
  <2>1. ASSUME NEW pc, pc # "save", turn' = [turn EXCEPT ![t].pc = pc], goal' = goal,
               control' = control
        PROVE  GoalFree'
    <3>1. \A u \in Turns : turn'[u].pc = "save" => turn[u].pc = "save"
      BY <1>1, <2>1 DEF TurnState
    <3>2. QED
      BY <2>1, <3>1, GoalFreeFrame
  <2>2. ASSUME NEW ended, Settle(t, ended), goal' = goal, control' = control PROVE GoalFree'
    <3>1. \/ turn' = [turn EXCEPT ![t] = IdleTurn]
          \/ turn' = [turn EXCEPT ![t].pc = "draft",
                                  ![t].wasQuarantined = quarantinedTurnId = t]
      BY <2>2 DEF Settle
    <3>2. \A u \in Turns : turn'[u].pc = "save" => turn[u].pc = "save"
      BY <1>1, <3>1 DEF TurnState, IdleTurn
    <3>3. QED
      BY <2>2, <3>2, GoalFreeFrame
  <2>3. CASE FirstRound(t) \/ NextRound(t)
    BY <1>3, <2>1, <2>3 DEF FirstRound, NextRound
  <2>4. CASE RunEnds(t)
    BY <2>1, <2>2, <2>4 DEF RunEnds
  <2>5. CASE RecordEnds(t)
    BY <2>2, <2>5 DEF RecordEnds
  <2>6. CASE DraftEnds(t)
    <3> DEFINE after == GoalAndQueueAfter(t)
               g == AfterTurn(goal, status, claimed)
               q == IF goal.on /\ status = "interrupted" THEN DropContinues(queue) ELSE queue
    <3>1. g \in Goal /\ g.on = goal.on /\ q = queue
      BY <1>1, <1>2, GoalRules DEF Modes
    <3>2. after = HostContinues(t, g, q)
      BY DEF GoalAndQueueAfter
    <3> HIDE DEF after, g, q
    <3>3. after[1] \in Goal /\ after[1].on = goal.on
      BY <1>1, <3>1, <3>2, HostContinuesType
    <3>4. control' = control
      BY <2>6 DEF DraftEnds
    <3>5. \/ Finish(t, FALSE, after[1], after[2], unresolved, accepted)
          \/ turn' = [turn EXCEPT ![t].pc = "prepare"] /\ goal' = after[1]
      BY <2>6 DEF DraftEnds, after
    <3>6. CASE turn' = [turn EXCEPT ![t].pc = "prepare"] /\ goal' = after[1]
      <4>1. \A u \in Turns : turn'[u].pc = "save" => turn[u].pc = "save"
        BY <1>1, <3>6 DEF TurnState
      <4>2. QED
        BY <3>3, <3>4, <3>6, <4>1, GoalFreeFrame
    <3>7. QED
      BY <1>2, <3>3, <3>4, <3>5, <3>6, GoalFreeFinish
  <2>7. CASE PrepareEnds(t)
    <3>1. control' = control
      BY <2>7 DEF PrepareEnds
    <3>2. \/ Finish(t, TRUE, goal, queue, FALSE, accepted)
          \/ Finish(t, FALSE, goal, <<>>, TRUE, accepted \ Ids(queue))
      BY <2>7 DEF PrepareEnds
    <3>3. QED
      BY <1>1, <1>2, <3>1, <3>2, GoalFreeFinish
  <2>8. CASE SaveEnds(t)
    BY <2>8 DEF SaveEnds, GoalFree
  <2>9. QED
    BY <1>7, <2>3, <2>4, <2>5, <2>6, <2>7, <2>8 DEF TurnStep
<1>8. CASE (\E g \in Groups : GroupWakes(g)) \/ IdleTimerFires
  BY <1>3, <1>8 DEF GroupWakes, IdleTimerFires
<1>9. CASE ForceSettle
  BY <1>3, <1>4, <1>9 DEF ForceSettle
<1>10. CASE WakePrepared
  <2>1. goal' = goal /\ control' = control
    BY <1>10 DEF WakePrepared
  <2>2. \/ turn' = turn
        \/ \E item : \E new \in FreeTurns : Begin(item, goal, new, turn)
    BY <1>10 DEF WakePrepared, ReloadCancelsQueue
  <2>3. QED
    BY <1>3, <2>1, <2>2, GoalFreeBegins
<1>11. CASE UNCHANGED vars
  BY <1>3, <1>11 DEF vars
<1>12. QED
  BY <1>5, <1>6, <1>7, <1>8, <1>9, <1>10, <1>11 DEF Next
-----------------------------------------------------------------------------
(***************************************************************************)
(* The end is under way.  The session's turn is the one that owns the      *)
(* controller as long as it runs, so that the head of its finally block    *)
(* finds itself current; and a quarantine is always that of this turn.     *)
(***************************************************************************)
Working(t) == turn[t].pc \in {"start", "run", "record"}

Attended ==
  /\ running => currentTurnId \in Turns /\ Live(currentTurnId)
  /\ running /\ Working(currentTurnId) => controller = currentTurnId
  /\ running /\ interrupting => forceSettle = [turn |-> currentTurnId, timer |-> "armed"]
  /\ quarantinedTurnId # NoTurn => /\ running
                                   /\ currentTurnId = quarantinedTurnId
                                   /\ Working(currentTurnId)

(* A step that leaves the engine's own record of its turn alone.           *)
LEMMA AttendedFrame ==
  ASSUME Attended,
         UNCHANGED <<running, interrupting, currentTurnId, controller, quarantinedTurnId,
                     forceSettle>>,
         \A t \in Turns : Live(t) /\ t = currentTurnId
                            => Live(t)' /\ (Working(t)' <=> Working(t))
  PROVE  Attended'
<1>1. running => currentTurnId \in Turns /\ Live(currentTurnId)' /\ running'
                 /\ (Working(currentTurnId)' <=> Working(currentTurnId))
  BY DEF Attended
<1>2. running' = running /\ currentTurnId' = currentTurnId
  OBVIOUS
<1>3. QED
  BY <1>1, <1>2 DEF Attended, Working, Live

(* beginPrompt records the turn it begins.                                 *)
LEMMA AttendedBegin ==
  ASSUME NEW item, NEW g, NEW new \in Turns, NEW others \in [Turns -> TurnState],
         Begin(item, g, new, others), quarantinedTurnId' = NoTurn
  PROVE  Attended'
<1>1. turn'[new].pc = "start"
  BY DEF Begin, IdleTurn
<1>2. running' /\ ~interrupting' /\ currentTurnId' = new /\ controller' = new
  BY DEF Begin
<1>3. QED
  BY <1>1, <1>2 DEF Attended, Live, Working

(* An interrupt of a running session sets the timer of its turn.           *)
LEMMA AttendedInterrupt ==
  ASSUME TypeOK, Attended, running, NEW reason \in {"user", "guided"}, RequestInterrupt(reason),
         UNCHANGED <<running, currentTurnId, controller, quarantinedTurnId>>
  PROVE  Attended'
<1>1. currentTurnId \in Turns /\ currentTurnId # NoTurn
  BY TurnAssumption DEF Attended
<1>2. \A t \in Turns : turn'[t].pc = turn[t].pc
  BY AbortedType DEF RequestInterrupt
<1>3. forceSettle' = [turn |-> currentTurnId, timer |-> "armed"]
  BY <1>1 DEF RequestInterrupt
<1>4. QED
  BY <1>1, <1>2, <1>3 DEF Attended, Live, Working

(* The end of a run leaves its own session to its settling, and another's  *)
(* session alone.                                                          *)
LEMMA AttendedSettle ==
  ASSUME TypeOK, Attended, NEW t \in Turns, NEW ended, Settle(t, ended), Working(t),
         UNCHANGED <<running, currentTurnId>>
  PROVE  Attended'
<1>1. turn \in [Turns -> TurnState]
  BY DEF TypeOK
<1>2. CASE OwnsTurn(t)
  <2>1. /\ turn'[t].pc = "draft" /\ currentTurnId = t
        /\ interrupting' = FALSE /\ quarantinedTurnId' = NoTurn
    BY <1>1, <1>2 DEF Settle, OwnsTurn, TurnState
  <2>2. QED
    BY <2>1 DEF Attended, Live, Working
<1>3. CASE ~OwnsTurn(t)
  <2>1. /\ \A u \in Turns : u # t => turn'[u] = turn[u]
        /\ UNCHANGED <<interrupting, controller, quarantinedTurnId, forceSettle>>
    BY <1>1, <1>3 DEF Settle
  <2>2. running => currentTurnId # t
    BY <1>3 DEF Attended, OwnsTurn
  <2>3. running => currentTurnId \in Turns /\ turn'[currentTurnId] = turn[currentTurnId]
    BY <2>1, <2>2 DEF Attended
  <2>4. QED
    BY <2>1, <2>3 DEF Attended, Live, Working
<1>4. QED
  BY <1>2, <1>3

(* The end of a turn leaves an idle session or begins the next turn.       *)
LEMMA AttendedFinish ==
  ASSUME TypeInv, Attended, OneLiveRun, NEW t \in Turns, Live(t), ~Working(t),
         NEW may, NEW g \in Goal, NEW q, NEW bad, NEW waiting,
         Finish(t, may, g, q, bad, waiting), UNCHANGED <<quarantinedTurnId, forceSettle>>
  PROVE  Attended'
<1> DEFINE over == [IdleTurn EXCEPT !.pc = IF g.on THEN "save" ELSE "idle"]
           begun == [turn EXCEPT ![t] = [over EXCEPT !.startedNext = g.on]]
<1>1. quarantinedTurnId = NoTurn
  BY DEF Attended, OneLiveRun
<1>2. begun \in [Turns -> TurnState]
  <2>1. turn \in [Turns -> TurnState] /\ g.on \in BOOLEAN
    BY DEF TypeInv, TypeOK, Goal
  <2>2. [over EXCEPT !.startedNext = g.on] \in TurnState
    BY <2>1 DEF IdleTurn, TurnState
  <2>3. QED
    BY <2>1, <2>2
<1>3. \/ running' = FALSE
      \/ \E item : \E new \in FreeTurns : Begin(item, g, new, begun)
  BY DEF Finish
<1>4. CASE running' = FALSE
  BY <1>1, <1>4 DEF Attended
<1>5. CASE \E item : \E new \in FreeTurns : Begin(item, g, new, begun)
  <2> HIDE DEF begun
  <2>1. PICK item : \E new \in FreeTurns : Begin(item, g, new, begun)
    BY <1>5
  <2>2. PICK new \in Turns : Begin(item, g, new, begun)
    BY <2>1 DEF FreeTurns
  <2>3. QED
    BY <1>1, <1>2, <2>2, AttendedBegin
<1>6. QED
  BY <1>3, <1>4, <1>5

(* Whatever happens in a session without a Goal whose settling is quick,   *)
(* its turn, its timer and its quarantine stay accounted for.              *)
LEMMA AttendedStep ==
  ASSUME TypeInv, OneLiveInv, GoalFree, Attended, "goal" \notin Ops, SettlesInTime, [Next]_vars
  PROVE  Attended'
<1>1. /\ turn \in [Turns -> TurnState] /\ goal \in Goal /\ TypeOK /\ OneLiveRun
      /\ claimed \in BOOLEAN /\ queue \in Seq(Item)
  BY DEF TypeInv, TypeOK, OneLiveInv
<1>2. CASE UNCHANGED <<running, interrupting, currentTurnId, controller, quarantinedTurnId,
                       forceSettle, turn>>
  BY <1>2, AttendedFrame DEF Live, Working
<1>3. ASSUME NEW item, NEW g, NEW new \in FreeTurns, Begin(item, g, new, turn),
             quarantinedTurnId = NoTurn, UNCHANGED quarantinedTurnId
      PROVE  Attended'
  BY <1>1, <1>3, AttendedBegin DEF FreeTurns
<1>4. CASE Request
  <2>1. ASSUME NEW p, NEW kind, NEW m, NEW withGoal, Start(p, kind, m, withGoal)
        PROVE  Attended'
    BY <1>2, <1>3, <2>1 DEF Start, StartIdle, StartQueued, engineVars
  <2>2. CASE StartTurn
    BY <2>1, <2>2 DEF StartTurn
  <2>3. CASE InterruptTurn \/ GuideTurn
    <3>1. running /\ UNCHANGED <<running, currentTurnId, controller, quarantinedTurnId>>
      BY <2>3 DEF InterruptTurn, GuideTurn
    <3>2. \E reason \in {"user", "guided"} : RequestInterrupt(reason)
      BY <2>3 DEF InterruptTurn, GuideTurn, GuideQueues, GuideStops
    <3>3. QED
      BY <1>1, <3>1, <3>2, AttendedInterrupt
  <2>4. CASE CancelWork
    <3>1. UNCHANGED <<running, currentTurnId, controller, quarantinedTurnId>>
      BY <2>4 DEF CancelWork
    <3>2. \/ running /\ RequestInterrupt("user")
          \/ UNCHANGED <<interrupting, forceSettle, turn>>
      BY <2>4 DEF CancelWork
    <3>3. QED
      BY <1>1, <1>2, <3>1, <3>2, AttendedInterrupt
  <2>5. CASE Dispose
    BY <2>5 DEF Dispose, Attended
  <2>6. CASE \/ RefuseIdleStart \/ CancelQueuedTurn \/ Ask \/ Answer \/ StopRead \/ EnableStage
             \/ ResumeStage \/ (\E g \in Groups : GroupNotes(g)) \/ InvalidateModel
             \/ RepairModel \/ ToggleGate
    BY <1>2, <2>6 DEF RefuseIdleStart, StartIdleRefused, CancelQueuedTurn, Ask, Answer, StopRead,
         EnableStage, ResumeStage, GroupNotes, InvalidateModel, RepairModel, ToggleGate, engineVars
  <2>7. QED
    BY <1>4, <2>2, <2>3, <2>4, <2>5, <2>6 DEF Request
<1>5. ~ControlStep
  BY DEF GoalFree, NoControl, ControlStep, StopApply, StopReturns, GoalCommit, GoalCommitFails,
         EnableStarts, ResumeQueues, ResumePrepared
<1>6. ASSUME NEW t \in Turns, TurnStep(t) PROVE Attended'
  <2>1. ASSUME NEW from, NEW to, turn[t].pc = from, turn' = [turn EXCEPT ![t].pc = to],
               <<from, to>> \in {<<"start", "run">>, <<"start", "record">>, <<"run", "record">>,
                                 <<"draft", "prepare">>},
               UNCHANGED <<running, interrupting, currentTurnId, controller, quarantinedTurnId,
                           forceSettle>>
        PROVE  Attended'
    <3>1. /\ \A u \in Turns : u # t => turn'[u] = turn[u]
          /\ turn'[t].pc = to
      BY <1>1, <2>1 DEF TurnState
    <3>2. \A u \in Turns : Live(u) => Live(u)' /\ (Working(u)' <=> Working(u))
      BY <2>1, <3>1 DEF Live, Working
    <3>3. QED
      BY <2>1, <3>2, AttendedFrame
  <2>2. CASE FirstRound(t)
    BY <2>1, <2>2 DEF FirstRound, engineVars
  <2>3. CASE NextRound(t)
    BY <1>2, <2>3 DEF NextRound, engineVars
  <2>4. CASE RunEnds(t)
    <3>1. Working(t) /\ UNCHANGED <<running, currentTurnId>>
      BY <2>4 DEF RunEnds, Working
    <3>2. CASE IsCurrentTurn(t)
      BY <2>1, <2>4, <3>2 DEF RunEnds
    <3>3. CASE ~IsCurrentTurn(t)
      BY <1>1, <2>4, <3>1, <3>3, AttendedSettle DEF RunEnds
    <3>4. QED
      BY <3>2, <3>3
  <2>5. CASE RecordEnds(t)
    BY <1>1, <2>5, AttendedSettle DEF RecordEnds, Working
  <2>6. CASE DraftEnds(t)
    <3> DEFINE after == GoalAndQueueAfter(t)
    <3>1. Live(t) /\ ~Working(t) /\ UNCHANGED <<quarantinedTurnId, forceSettle>>
          /\ turn[t].pc = "draft"
      BY <2>6 DEF DraftEnds, Live, Working
    <3>2. after[1] \in Goal
      BY GoalAfterType DEF TypeInv
    <3>3. \/ Finish(t, FALSE, after[1], after[2], unresolved, accepted)
          \/ /\ turn' = [turn EXCEPT ![t].pc = "prepare"]
             /\ UNCHANGED <<running, interrupting, currentTurnId, controller>>
      BY <2>6 DEF DraftEnds
    <3> HIDE DEF after
    <3>4. QED
      BY <1>1, <2>1, <3>1, <3>2, <3>3, AttendedFinish
  <2>7. CASE PrepareEnds(t)
    <3>1. Live(t) /\ ~Working(t) /\ UNCHANGED <<quarantinedTurnId, forceSettle>>
      BY <2>7 DEF PrepareEnds, Live, Working
    <3>2. \/ Finish(t, TRUE, goal, queue, FALSE, accepted)
          \/ Finish(t, FALSE, goal, <<>>, TRUE, accepted \ Ids(queue))
      BY <2>7 DEF PrepareEnds
    <3>3. QED
      BY <1>1, <3>1, <3>2, AttendedFinish
  <2>8. CASE SaveEnds(t)
    BY <2>8 DEF SaveEnds, GoalFree
  <2>9. QED
    BY <1>6, <2>2, <2>3, <2>4, <2>5, <2>6, <2>7, <2>8 DEF TurnStep
<1>7. CASE (\E g \in Groups : GroupWakes(g)) \/ IdleTimerFires
  BY <1>2, <1>7 DEF GroupWakes, IdleTimerFires, engineVars
<1>8. CASE ForceSettle
  <2>1. UNCHANGED <<running, currentTurnId, controller>>
        /\ turn[forceSettle.turn].pc \notin {"draft", "prepare"}
    BY <1>8 DEF ForceSettle, SettlesInTime
  <2>2. CASE ~running \/ currentTurnId # forceSettle.turn
    <3>1. UNCHANGED <<quarantinedTurnId, interrupting, turn>>
      BY <1>8, <2>2 DEF ForceSettle
    <3>2. running => ~interrupting
      BY <2>2 DEF Attended
    <3>3. QED
      BY <2>1, <3>1, <3>2 DEF Attended, Live, Working
  <2>3. CASE running /\ currentTurnId = forceSettle.turn
    <3>1. /\ quarantinedTurnId' = currentTurnId /\ ~interrupting'
          /\ turn' = Aborted("user")
      BY <1>8, <2>3 DEF ForceSettle
    <3>2. \A u \in Turns : turn'[u].pc = turn[u].pc
      BY <1>1, <3>1, AbortedType
    <3>3. currentTurnId \in Turns /\ Live(currentTurnId) /\ Working(currentTurnId)
      BY <2>1, <2>3 DEF Attended, Live, Working
    <3>4. controller = currentTurnId
      BY <2>3, <3>3 DEF Attended
    <3>5. QED
      BY <2>1, <2>3, <3>1, <3>2, <3>3, <3>4 DEF Attended, Live, Working
  <2>4. QED
    BY <2>2, <2>3
<1>9. CASE WakePrepared
  <2>1. \/ UNCHANGED <<engineVars, turn>>
        \/ /\ quarantinedTurnId = NoTurn /\ UNCHANGED <<quarantinedTurnId, forceSettle>>
           /\ \E item : \E new \in FreeTurns : Begin(item, goal, new, turn)
    BY <1>9 DEF WakePrepared, MayWake, ReloadCancelsQueue
  <2>2. CASE UNCHANGED <<engineVars, turn>>
    BY <1>2, <2>2 DEF engineVars
  <2>3. QED
    BY <1>3, <2>1, <2>2
<1>10. CASE UNCHANGED vars
  BY <1>2, <1>10 DEF vars, engineVars
<1>11. QED
  BY <1>4, <1>5, <1>6, <1>7, <1>8, <1>9, <1>10 DEF Next

(* Without a Goal, and when settling is quicker than the force-settle      *)
(* timer of approvals.ts: a session that is running has a turn whose       *)
(* coroutine will find itself current and clear state.running; an accepted *)
(* interrupt has its timer until the session is quarantined; and a         *)
(* quarantine has the run that releases it.                                *)
THEOREM EndsAreUnderWay ==
  "goal" \notin Ops /\ SettlesInTime /\ Spec => []EndIsUnderWay
<1> SUFFICES ASSUME "goal" \notin Ops, SettlesInTime PROVE Spec => []EndIsUnderWay
  OBVIOUS
<1>1. Init => GoalFree /\ Attended /\ OneLiveInv
  <2> SUFFICES ASSUME Init PROVE GoalFree /\ Attended /\ OneLiveInv
    OBVIOUS
  <2>1. \A t \in Turns : turn[t].pc = "idle"
    BY DEF Init, IdleTurn
  <2>2. GoalFree
    BY <2>1, ConstantTypes DEF Init, GoalFree
  <2>3. Attended
    BY DEF Init, Attended
  <2>4. OneLiveInv
    BY <2>1, ConstantTypes DEF Init, OneLiveInv, TurnsTyped, OneLiveRun, LiveIsRunning, Live
  <2>5. QED
    BY <2>2, <2>3, <2>4
<1>2. TypeInv /\ OneLiveInv /\ GoalFree /\ Attended /\ [Next]_vars
        => TypeInv' /\ OneLiveInv' /\ GoalFree' /\ Attended'
  BY TypeStep, OneLiveStep, GoalFreeStep, AttendedStep
<1>3. Attended => EndIsUnderWay
  BY DEF Attended, EndIsUnderWay, Working
<1>4. QED
  BY <1>1, <1>2, <1>3, TypeInit, PTL DEF Spec
-----------------------------------------------------------------------------
(***************************************************************************)
(* A session that background work does not wake.                           *)
(***************************************************************************)
WakeFree == waking = 0 /\ handoffs = {} /\ \A g \in Groups : group[g] = "working"

(* Without groups that finish there is nothing to wake a session for.      *)
LEMMA WakeFreeStep ==
  ASSUME TypeOK, WakeFree, "wake" \notin Ops, [Next]_vars
  PROVE  WakeFree'
<1>1. CASE UNCHANGED <<waking, wakeVars>>
  BY <1>1 DEF WakeFree, wakeVars
<1>2. ASSUME Inject, UNCHANGED waking PROVE WakeFree'
  BY <1>2 DEF Inject, WakeFree
<1>3. CASE Request
  <2>1. ~\E g \in Groups : GroupNotes(g)
    BY DEF GroupNotes
  <2>2. UNCHANGED waking
    <3>1. CASE StartTurn
      BY ZenonT(30), <3>1 DEF StartTurn, Start, StartIdle, StartQueued
    <3>2. CASE \/ RefuseIdleStart \/ InterruptTurn \/ CancelQueuedTurn \/ GuideTurn \/ Ask \/ Answer
               \/ StopRead \/ EnableStage \/ ResumeStage \/ InvalidateModel \/ RepairModel
               \/ ToggleGate \/ CancelWork \/ Dispose
      BY <3>2 DEF RefuseIdleStart, StartIdleRefused, InterruptTurn, CancelQueuedTurn, GuideTurn,
           Ask, Answer, StopRead, EnableStage, ResumeStage, InvalidateModel, RepairModel,
           ToggleGate, CancelWork, Dispose
    <3>3. QED
      BY <1>3, <2>1, <3>1, <3>2 DEF Request
  <2>3. UNCHANGED wakeVars
    BY <1>3, <2>1, RequestFramesWake
  <2>4. QED
    BY <1>1, <2>2, <2>3
<1>4. ASSUME NEW t \in Turns, TurnStep(t) PROVE WakeFree'
  BY <1>1, <1>2, <1>4 DEF TurnStep, FirstRound, NextRound, RunEnds, RecordEnds, DraftEnds,
       PrepareEnds, SaveEnds
<1>5. CASE ControlStep
  BY <1>1, <1>5 DEF ControlStep, StopApply, StopReturns, GoalCommit, GoalCommitFails,
       EnableStarts, ResumeQueues, ResumePrepared
<1>6. CASE ForceSettle
  BY <1>1, <1>6 DEF ForceSettle
<1>7. CASE IdleTimerFires
  BY <1>1, <1>7 DEF IdleTimerFires, MayWake, WakeFree
<1>8. ~WakePrepared /\ ~\E g \in Groups : GroupWakes(g)
  BY DEF WakeFree, WakePrepared, GroupWakes
<1>9. CASE UNCHANGED vars
  BY <1>1, <1>9 DEF vars
<1>10. QED
  BY <1>3, <1>4, <1>5, <1>6, <1>7, <1>8, <1>9 DEF Next
-----------------------------------------------------------------------------
(***************************************************************************)
(* Full access.  What is queued is vouched for: an item that would run     *)
(* with full access was asked to by its client, belongs to a schedule or   *)
(* continues the Goal, waits for a confirmation, or has the access of a    *)
(* Goal that is still on and that knows what to give back.                 *)
(***************************************************************************)
GoalStandsAlone == "goal" \in Ops => "guide" \notin Ops /\ "wake" \notin Ops

Sound(item) == \/ item.mode # "fullAccess"
               \/ item.kind \in {"schedule", "goal-continue"}
               \/ item.asked = "fullAccess"
               \/ item.confirm

Vouched(item, g) ==
  /\ item.kind # "wakeup"
  /\ item.source = "goal" => item.requested # "fullAccess"
  /\ Sound(item) \/ (g.on /\ item.source = "goal")

AllVouched(q, g) == \A i \in DOMAIN q : Vouched(q[i], g)

(* What a Goal vouches for, every Goal that is on vouches for.             *)
LEMMA VouchedByAnother ==
  ASSUME NEW q, NEW g, NEW h, AllVouched(q, g), g.on => h.on
  PROVE  AllVouched(q, h)
BY DEF AllVouched, Vouched

(* An item that gave its elevation back stands by itself.                  *)
LEMMA RevokedIsSound ==
  ASSUME NEW item \in Item, NEW g, NEW h, NEW mode \in Modes, Vouched(item, g)
  PROVE  Sound(Revoked(item, mode)) /\ Vouched(Revoked(item, mode), h)
<1>1. CASE item.kind = "schedule" \/ item.source = "request"
  <2>1. Revoked(item, mode) = item
    BY <1>1 DEF Revoked
  <2>2. QED
    BY <1>1, <2>1 DEF Vouched, Sound
<1>2. CASE item.kind # "schedule" /\ item.source = "goal" /\ item.requested # "none"
  <2>1. Revoked(item, mode) = [item EXCEPT !.mode = item.requested, !.source = "request"]
    BY <1>2 DEF Revoked
  <2>2. /\ Revoked(item, mode).mode = item.requested /\ Revoked(item, mode).source = "request"
        /\ Revoked(item, mode).kind = item.kind
    BY <2>1 DEF Item
  <2>3. QED
    BY <1>2, <2>2 DEF Vouched, Sound
<1>3. CASE /\ item.kind # "schedule" /\ item.source # "request"
           /\ item.source = "goal" => item.requested = "none"
  <2>1. CASE item.mode # "fullAccess"
    <3>1. Revoked(item, mode) = item
      BY <1>3, <2>1 DEF Revoked
    <3>2. QED
      BY <2>1, <3>1 DEF Vouched, Sound
  <2>2. CASE item.mode = "fullAccess"
    <3>1. Revoked(item, mode) = [item EXCEPT !.mode = mode, !.confirm = TRUE]
      BY <1>3, <2>2 DEF Revoked
    <3>2. /\ Revoked(item, mode).confirm /\ Revoked(item, mode).kind = item.kind
          /\ Revoked(item, mode).source = item.source
          /\ Revoked(item, mode).requested = item.requested
      BY <3>1 DEF Item
    <3>3. QED
      BY <1>3, <3>2 DEF Vouched, Sound
  <2>3. QED
    BY <2>1, <2>2
<1>4. QED
  BY <1>1, <1>2, <1>3

(* So does a queue that gave its elevation back.                           *)
LEMMA RevokeAllIsSound ==
  ASSUME NEW q \in Seq(Item), NEW g, NEW h, NEW mode \in Modes, AllVouched(q, g)
  PROVE  /\ AllVouched(RevokeAll(q, mode), h)
         /\ \A i \in DOMAIN RevokeAll(q, mode) : Sound(RevokeAll(q, mode)[i])
<1>1. DOMAIN RevokeAll(q, mode) = DOMAIN q
  BY DEF RevokeAll
<1>2. \A i \in DOMAIN q : q[i] \in Item /\ RevokeAll(q, mode)[i] = Revoked(q[i], mode)
  BY DEF RevokeAll
<1>3. \A i \in DOMAIN q : Sound(Revoked(q[i], mode)) /\ Vouched(Revoked(q[i], mode), h)
  BY <1>2, RevokedIsSound DEF AllVouched
<1>4. QED
  BY <1>1, <1>2, <1>3 DEF AllVouched

(* Every item of a part of a queue is an item of the queue.                *)
PartOf(r, q) == \A i \in DOMAIN r : \E j \in DOMAIN q : r[i] = q[j]

(* Dropping continuations leaves part of a queue.                          *)
LEMMA DropContinuesIsPart ==
  ASSUME NEW q \in Seq(Item)
  PROVE  PartOf(DropContinues(q), q)
BY DropContinuesFilters DEF PartOf

(* What an idle engine takes from the queue stands by itself, unless a     *)
(* Goal is at work that vouches for everything.                            *)
LEMMA DrainableIsVouched ==
  ASSUME NEW q \in Seq(Item), NEW g \in Goal, AllVouched(q, g)
  PROVE  /\ AllVouched(Drainable(q, g), g)
         /\ \A i \in DOMAIN Drainable(q, g) : Elevates(g) \/ Sound(Drainable(q, g)[i])
<1> DEFINE kept == IF g.on /\ ~Elevates(g) THEN RevokeAll(q, g.previous) ELSE q
           Safe(r) == /\ AllVouched(r, g)
                      /\ \A i \in DOMAIN r : Elevates(g) \/ Sound(r[i])
<1>1. kept \in Seq(Item) /\ g.previous \in Modes
  <2>1. g.previous \in Modes
    BY DEF Goal
  <2>2. QED
    BY <2>1, RevokeAllKeeps
<1>2. Safe(kept)
  <2>1. CASE g.on /\ ~Elevates(g)
    BY <1>1, <2>1, RevokeAllIsSound
  <2>2. CASE ~g.on \/ Elevates(g)
    BY <2>2 DEF AllVouched, Vouched, Elevates
  <2>3. QED
    BY <2>1, <2>2
<1>3. Drainable(q, g) = kept \/ Drainable(q, g) = DropContinues(kept)
  BY DEF Drainable
<1> HIDE DEF kept
<1>4. Safe(DropContinues(kept))
  BY <1>1, <1>2, DropContinuesIsPart DEF PartOf, AllVouched
<1>5. QED
  BY <1>2, <1>3, <1>4

(* A turn that begins with a sound item, or under a Goal at work, has a    *)
(* warrant.                                                                *)
LEMMA WarrantGiven ==
  ASSUME NEW item \in Item, NEW g \in Goal, NEW bad, item.kind # "wakeup",
         Elevates(g) \/ Sound(item), CanBegin(Elevated(item, g), g, bad)
  PROVE  /\ WarrantOf(Elevated(item, g), g) # "none"
         /\ WarrantOf(Elevated(item, g), g) = "goal" => g.on
<1> DEFINE next == Elevated(item, g)
<1>1. /\ next.kind = item.kind /\ next.asked = item.asked /\ next.confirm = item.confirm
      /\ ~Elevates(g) => next = item
  BY DEF Elevated, Item
<1>2. ~next.confirm /\ (next.kind = "goal-continue" => Elevates(g))
  BY DEF CanBegin
<1> HIDE DEF next
<1>3. CASE Elevates(g)
  BY <1>1, <1>3 DEF WarrantOf, Elevates, next
<1>4. CASE ~Elevates(g)
  <2>1. next.kind = "schedule" \/ next.mode # "fullAccess" \/ next.asked = "fullAccess"
    BY <1>1, <1>2, <1>4 DEF Sound
  <2>2. WarrantOf(next, g) \in {"user", "schedule"}
    BY <1>1, <1>4, <2>1 DEF WarrantOf, TurnMode
  <2>3. QED
    BY <2>2 DEF next
<1>5. QED
  BY <1>3, <1>4
(* The end of a turn, and the turn that begins with it.                    *)
LEMMA FinishWarrants ==
  ASSUME TypeInv, warrant # "none", NEW t \in Turns, NEW may, NEW g \in Goal, NEW q \in Seq(Item),
         NEW bad, NEW waiting, AllVouched(q, g), Finish(t, may, g, q, bad, waiting)
  PROVE  /\ warrant' # "none" /\ AllVouched(queue', goal')
         /\ ~g.on /\ warrant # "goal" => warrant' # "goal"
<1> DEFINE left == IF may /\ ~gate THEN Drainable(q, g) ELSE q
           pops == (may /\ ~gate) /\ HeadReady(left)
           next == Elevated(Head(left), g)
           begun == [turn EXCEPT ![t] = [[IdleTurn EXCEPT !.pc = IF g.on THEN "save" ELSE "idle"]
                                          EXCEPT !.startedNext = g.on]]
<1>1. left \in Seq(Item) /\ AllVouched(left, g)
  BY DrainableKeeps, DrainableIsVouched
<1>2. goal' = g /\ queue' = IF pops THEN Tail(left) ELSE left
  BY DEF Finish
<1>3. \/ pops /\ CanBegin(next, g, bad) /\ \E new \in FreeTurns : Begin(next, g, new, begun)
      \/ warrant' = warrant
  BY DEF Finish
<1>4. pops => \A i \in DOMAIN left : Elevates(g) \/ Sound(left[i])
  BY DrainableIsVouched
<1>5. pops => left # <<>>
  BY DEF HeadReady
<1> HIDE DEF left, pops, begun
<1>6. AllVouched(queue', goal')
  <2>1. CASE ~pops
    BY <1>1, <1>2, <2>1
  <2>2. CASE pops
    <3>1. queue' = Tail(left) /\ \A i \in DOMAIN Tail(left) : /\ i + 1 \in DOMAIN left
                                                             /\ Tail(left)[i] = left[i + 1]
      BY <1>1, <1>2, <1>5, <2>2
    <3>2. QED
      BY <1>1, <1>2, <3>1 DEF AllVouched
  <2>3. QED
    BY <2>1, <2>2
<1>7. CASE pops /\ CanBegin(next, g, bad) /\ \E new \in FreeTurns : Begin(next, g, new, begun)
  <2>1. Head(left) \in Item /\ Vouched(Head(left), g) /\ (Elevates(g) \/ Sound(Head(left)))
    <3>1. 1 \in DOMAIN left /\ Head(left) = left[1] /\ left[1] \in Item
      BY <1>1, <1>5, <1>7
    <3>2. QED
      BY <1>1, <1>4, <1>7, <3>1 DEF AllVouched
  <2>2. WarrantOf(next, g) # "none" /\ (WarrantOf(next, g) = "goal" => g.on)
    BY <1>7, <2>1, WarrantGiven DEF Vouched
  <2>3. warrant' = WarrantOf(next, g)
    BY <1>7 DEF Begin
  <2>4. QED
    BY <1>6, <2>2, <2>3
<1>8. QED
  BY <1>3, <1>6, <1>7

(* What a client submits is vouched for by the Goal it is submitted under, *)
(* or stands by itself.                                                    *)
LEMMA SubmittedIsVouched ==
  ASSUME NEW p \in Prompts, NEW kind \in {"prompt", "schedule"}, NEW m \in RequestModes,
         NEW g \in Goal
  PROVE  /\ Vouched(SubmittedItem(p, kind, m, g), g)
         /\ WarrantOf(SubmittedItem(p, kind, m, g), g) # "none"
         /\ WarrantOf(SubmittedItem(p, kind, m, g), g) = "goal" => g.on
<1> DEFINE mode == IF Elevates(g) THEN "fullAccess" ELSE m
           asked == IF Elevates(g) /\ m = "fullAccess" THEN "none" ELSE m
           new == NewItem(p, kind, mode, asked)
           item == SubmittedItem(p, kind, m, g)
<1>1. item = Recorded(new, g, m)
  BY DEF SubmittedItem
<1>2. CASE kind = "schedule"
  <2>1. item = new
    BY <1>1, <1>2 DEF Recorded, NewItem
  <2>2. item.kind = "schedule" /\ item.source = "none"
    BY <1>2, <2>1 DEF NewItem
  <2>3. Vouched(item, g)
    BY <2>2 DEF Vouched, Sound
  <2>4. WarrantOf(item, g) = "schedule" \/ WarrantOf(item, g) = "user"
    BY <2>2 DEF WarrantOf, TurnMode
  <2>5. QED
    BY <2>3, <2>4
<1>3. CASE kind = "prompt" /\ Elevates(g)
  <2>1. /\ item.kind = "prompt" /\ item.source = "goal" /\ item.mode = "fullAccess"
        /\ item.requested = IF m # "fullAccess" THEN m ELSE "none"
        /\ item.asked = asked
    BY <1>1, <1>3 DEF Recorded, NewItem
  <2>2. g.on
    BY <1>3 DEF Elevates
  <2>3. Vouched(item, g)
    BY <2>1, <2>2 DEF Vouched
  <2>4. WarrantOf(item, g) \in {"user", "goal"}
    BY <1>3, <2>1 DEF WarrantOf, TurnMode
  <2>5. QED
    BY <2>2, <2>3, <2>4
<1>4. CASE kind = "prompt" /\ ~Elevates(g)
  <2>1. /\ item.kind = "prompt" /\ item.source = "request" /\ item.mode = m /\ item.asked = m
    BY <1>1, <1>4 DEF Recorded, NewItem
  <2>2. Vouched(item, g)
    BY <2>1 DEF Vouched, Sound
  <2>3. WarrantOf(item, g) = "user"
    BY <1>4, <2>1 DEF WarrantOf, TurnMode
  <2>4. QED
    BY <2>2, <2>3
<1>5. QED
  BY <1>2, <1>3, <1>4

WarrantInv == /\ warrant # "none"
              /\ AllVouched(queue, goal)
              /\ "goal" \notin Ops => GoalFree /\ warrant # "goal"
              /\ "wake" \notin Ops => WakeFree

(* What a client submits, queued or begun.                                 *)
LEMMA StartWarrants ==
  ASSUME TypeInv, warrant # "none", AllVouched(queue, goal), NEW p \in Prompts,
         NEW kind \in {"prompt", "schedule"}, NEW m \in RequestModes, NEW withGoal \in BOOLEAN,
         Start(p, kind, m, withGoal)
  PROVE  /\ warrant' # "none" /\ AllVouched(queue', goal')
         /\ ~withGoal /\ ~goal.on /\ warrant # "goal" => warrant' # "goal"
<1>1. queue \in Seq(Item) /\ goal \in Goal /\ permission \in Modes /\ IdleMode(m) \in Modes
  BY TurnAssumption DEF TypeInv, TypeOK, IdleMode, Modes
<1>2. ASSUME NEW prior \in Modes
      PROVE  /\ GoalOfRequest(withGoal, prior) \in Goal
             /\ goal.on => GoalOfRequest(withGoal, prior).on
             /\ ~withGoal => GoalOfRequest(withGoal, prior) = goal
  BY <1>1, GoalRules DEF GoalOfRequest
<1>3. ASSUME NEW new \in FreeTurns, StartIdle(p, kind, m, withGoal, new)
      PROVE  /\ warrant' # "none" /\ AllVouched(queue', goal')
             /\ ~withGoal /\ ~goal.on /\ warrant # "goal" => warrant' # "goal"
  <2> DEFINE g == GoalOfRequest(withGoal, IdleMode(m))
             item == SubmittedItem(p, kind, m, g)
  <2>1. g \in Goal /\ (goal.on => g.on) /\ (~withGoal => g = goal)
    BY <1>1, <1>2
  <2>2. goal' = g /\ queue' = queue /\ warrant' = WarrantOf(item, g)
    BY <1>3 DEF StartIdle, Begin
  <2> HIDE DEF g
  <2>3. WarrantOf(item, g) # "none" /\ (WarrantOf(item, g) = "goal" => g.on)
    BY <2>1, SubmittedIsVouched
  <2>4. AllVouched(queue, g)
    BY <2>1, VouchedByAnother
  <2>5. QED
    BY <2>1, <2>2, <2>3, <2>4
<1>4. ASSUME StartQueued(p, kind, m, withGoal)
      PROVE  warrant' = warrant /\ AllVouched(queue', goal')
  <2> DEFINE g == GoalOfRequest(withGoal, permission)
             item == SubmittedItem(p, kind, m, g)
  <2>1. g \in Goal /\ (goal.on => g.on)
    BY <1>1, <1>2
  <2>2. /\ goal' = g /\ warrant' = warrant
        /\ queue' = queue \/ queue' = Append(queue, item)
    BY <1>4 DEF StartQueued, engineVars
  <2> HIDE DEF g
  <2>3. Vouched(item, g) /\ item \in Item
    BY <2>1, SubmittedIsVouched, SubmittedItemType DEF Kinds
  <2>4. AllVouched(queue, g)
    BY <2>1, VouchedByAnother
  <2> HIDE DEF item
  <2>5. AllVouched(Append(queue, item), g)
    BY <1>1, <2>3, <2>4 DEF AllVouched
  <2>6. QED
    BY <2>2, <2>4, <2>5
<1>5. QED
  BY <1>3, <1>4 DEF Start
(* Full access stays vouched for by requests, controls, guidance and the   *)
(* queue, as long as a session with a Goal is neither guided nor woken.    *)
LEMMA WarrantStep ==
  ASSUME TypeInv, StopInv, WarrantInv, GoalStandsAlone, [Next]_vars
  PROVE  WarrantInv'
<1> DEFINE Covered == /\ warrant' # "none" /\ AllVouched(queue', goal')
                      /\ "goal" \notin Ops => warrant' # "goal"
<1>1. /\ goal \in Goal /\ queue \in Seq(Item) /\ control \in ControlState /\ claimed \in BOOLEAN
      /\ TypeOK
  BY DEF TypeInv, TypeOK
<1>2. /\ warrant # "none" /\ AllVouched(queue, goal)
      /\ "goal" \notin Ops => ~goal.on /\ warrant # "goal" /\ GoalFree
  BY DEF WarrantInv, GoalFree
<1>3. ASSUME UNCHANGED <<warrant, queue>>, goal.on => goal'.on PROVE Covered
  <2>1. AllVouched(queue', goal')
    BY <1>2, <1>3, VouchedByAnother
  <2>2. QED
    BY <1>2, <1>3, <2>1
<1>4. ASSUME UNCHANGED warrant, queue' = <<>> PROVE Covered
  <2>1. AllVouched(queue', goal')
    BY <1>4 DEF AllVouched
  <2>2. QED
    BY <1>2, <1>4, <2>1
<1>5. ASSUME Request PROVE Covered
  <2>1. CASE StartTurn
    <3>1. PICK p \in Prompts, m \in RequestModes :
            \/ Start(p, "prompt", m, FALSE)
            \/ "goal" \in Ops /\ Start(p, "prompt", m, TRUE)
            \/ Start(p, "schedule", m, FALSE)
      BY <2>1 DEF StartTurn, FreePrompts
    <3>2. QED
      BY <1>2, <3>1, StartWarrants
  <2>2. CASE CancelQueuedTurn
    <3>1. PICK i \in DOMAIN queue : queue' = Without(queue, i)
      BY <2>2 DEF CancelQueuedTurn
    <3>2. \A j \in DOMAIN queue' : \E k \in DOMAIN queue : queue'[j] = queue[k]
      BY <1>1, <3>1, WithoutType
    <3>3. AllVouched(queue', goal)
      BY <1>2, <3>2 DEF AllVouched
    <3>4. goal' = goal /\ warrant' = warrant
      BY <2>2 DEF CancelQueuedTurn, engineVars
    <3>5. QED
      BY <1>2, <3>3, <3>4
  <2>3. CASE GuideTurn
    <3>1. goal' = goal /\ warrant' = warrant /\ "guide" \in Ops
      BY <2>3 DEF GuideTurn
    <3>2. "goal" \notin Ops /\ ~goal.on /\ warrant # "goal"
      BY <1>2, <3>1 DEF GoalStandsAlone
    <3>3. PICK m \in RequestModes \cup {"inherit"} :
            \/ \E i \in {j \in DOMAIN queue : queue[j].kind # "guide"} :
                 \/ GuideQueues(queue[i].id, m, Without(queue, i))
                 \/ GuideStops({queue[i].id}, Without(queue, i))
            \/ \/ \E p \in FreePrompts : GuideQueues(p, m, queue)
               \/ GuideStops({}, queue)
      BY <2>3 DEF GuideTurn
    <3>4. PICK rest \in Seq(Item), id \in Prompts \cup {NoPrompt} :
            /\ rest = queue \/ \E i \in DOMAIN queue : rest = Without(queue, i)
            /\ queue' = rest \/ queue' = <<GuideItem(id, m)>> \o rest
      <4>1. \A i \in DOMAIN queue : Without(queue, i) \in Seq(Item)
                                    /\ queue[i].id \in Prompts \cup {NoPrompt}
        <5>1. \A i \in DOMAIN queue : queue[i] \in Item
          BY <1>1
        <5>2. QED
          BY <1>1, <5>1, WithoutType DEF Item
      <4>2. FreePrompts \subseteq Prompts
        BY DEF FreePrompts
      <4>3. QED
        BY <1>1, <3>3, <4>1, <4>2 DEF GuideQueues, GuideStops
    <3>5. \A j \in DOMAIN rest : \E k \in DOMAIN queue : rest[j] = queue[k]
      BY <1>1, <3>4, WithoutType
    <3>6. GuideItem(id, m) \in Item /\ GuideItem(id, m).kind = "guide"
      BY <1>1, GuideItemType
    <3>7. Vouched(GuideItem(id, m), goal)
      <4>1. /\ GuideItem(id, m).mode = GuideItem(id, m).asked
            /\ GuideItem(id, m).source = "none"
        BY <3>2 DEF GuideItem, NewItem, Elevates
      <4>2. QED
        BY <3>6, <4>1 DEF Vouched, Sound
    <3>8. AllVouched(rest, goal)
      BY <1>2, <3>5 DEF AllVouched
    <3>9. CASE queue' = <<GuideItem(id, m)>> \o rest
      <4>1. \A i \in DOMAIN queue' : \/ queue'[i] = GuideItem(id, m)
                                     \/ \E j \in DOMAIN rest : queue'[i] = rest[j]
        BY <3>6, <3>9
      <4>2. AllVouched(queue', goal)
        BY <3>7, <3>8, <4>1 DEF AllVouched
      <4>3. QED
        BY <1>2, <3>1, <4>2
    <3>10. QED
      BY <1>2, <3>1, <3>4, <3>8, <3>9
  <2>4. CASE Dispose \/ CancelWork
    BY <1>4, <2>4 DEF Dispose, CancelWork
  <2>5. CASE InvalidateModel
    BY <1>3, <1>4, <2>5 DEF InvalidateModel, engineVars
  <2>6. CASE \/ RefuseIdleStart \/ InterruptTurn \/ Ask \/ Answer \/ StopRead \/ EnableStage
             \/ ResumeStage \/ (\E g \in Groups : GroupNotes(g)) \/ RepairModel \/ ToggleGate
    BY <1>3, <2>6 DEF RefuseIdleStart, StartIdleRefused, InterruptTurn, Ask, Answer, StopRead,
         EnableStage, ResumeStage, GroupNotes, RepairModel, ToggleGate, engineVars
  <2>7. QED
    BY <1>5, <2>1, <2>2, <2>3, <2>4, <2>5, <2>6 DEF Request
<1>6. ASSUME ControlStep PROVE Covered
  <2>1. CASE StopApply
    <3> DEFINE kept == DropContinues(queue)
    <3>1. kept \in Seq(Item) /\ AllVouched(kept, goal) /\ goal.previous \in Modes
      <4>1. PartOf(kept, queue) /\ kept \in Seq(Item)
        BY <1>1, DropContinuesIsPart, DropContinuesLeavesNone
      <4>2. goal.previous \in Modes
        BY <1>1 DEF Goal
      <4>3. QED
        BY <1>2, <4>1, <4>2 DEF PartOf, AllVouched
    <3>2. queue' = IF goal.on THEN RevokeAll(kept, goal.previous) ELSE kept
      BY <2>1 DEF StopApply
    <3>3. warrant' = warrant
      BY <2>1 DEF StopApply
    <3> HIDE DEF kept
    <3>4. CASE goal.on
      BY <1>2, <3>1, <3>2, <3>3, <3>4, RevokeAllIsSound
    <3>5. CASE ~goal.on
      <4>1. AllVouched(queue', goal')
        BY <3>1, <3>2, <3>5, VouchedByAnother
      <4>2. QED
        BY <1>2, <3>3, <4>1
    <3>6. QED
      BY <3>4, <3>5
  <2>2. CASE GoalCommit
    <3>1. control.goal.on
      BY <2>2 DEF GoalCommit, StopInv, StagedIsOn
    <3>2. QED
      BY <1>3, <2>2, <3>1 DEF GoalCommit, engineVars
  <2>3. CASE StopReturns \/ GoalCommitFails
    BY <1>3, <2>3 DEF StopReturns, GoalCommitFails, engineVars
  <2>4. CASE EnableStarts
    <3> DEFINE g == [goal EXCEPT !.status = "running"]
               item == NewItem(NoPrompt, "prompt", "fullAccess", "none")
    <3>1. queue' = queue /\ "goal" \in Ops
      BY <1>2, <2>4 DEF EnableStarts, GoalFree, NoControl
    <3>2. \/ goal' = goal /\ warrant' = warrant
          \/ /\ goal.on /\ goal' = g
             /\ warrant' = warrant \/ warrant' = WarrantOf(item, g)
      BY <2>4 DEF EnableStarts, Begin, engineVars
    <3>3. g.on = goal.on
      BY <1>1 DEF Goal
    <3>4. goal.on => WarrantOf(item, g) = "goal"
      <4>1. goal.on => Elevates(g)
        BY <1>1 DEF Elevates, Goal
      <4>2. item.kind = "prompt" /\ item.mode = "fullAccess" /\ item.asked = "none"
        BY DEF NewItem
      <4>3. QED
        BY <4>1, <4>2 DEF WarrantOf, TurnMode
    <3> HIDE DEF g, item
    <3>5. AllVouched(queue', goal')
      BY <1>2, <3>1, <3>2, <3>3, VouchedByAnother
    <3>6. QED
      BY <1>2, <3>1, <3>2, <3>4, <3>5
  <2>5. CASE ResumeQueues
    <3>1. goal' = goal /\ warrant' = warrant
          /\ (queue' = queue \/ queue' = Append(queue, ContinueItem))
      BY <2>5 DEF ResumeQueues, engineVars
    <3>2. Vouched(ContinueItem, goal) /\ ContinueItem \in Item
      BY ConstantTypes DEF ContinueItem, NewItem, Vouched, Sound
    <3>3. AllVouched(Append(queue, ContinueItem), goal)
      BY <1>1, <1>2, <3>2 DEF AllVouched
    <3>4. QED
      BY <1>2, <3>1, <3>3
  <2>6. CASE ResumePrepared
    <3>1. goal' = goal /\ "goal" \in Ops
      BY <1>2, <2>6 DEF ResumePrepared, GoalFree, NoControl
    <3>2. CASE ReloadCancelsQueue
      BY <1>4, <3>2 DEF ReloadCancelsQueue, engineVars
    <3>3. CASE ResumeTakes
      <4> DEFINE left == Drainable(queue, goal)
                 next == Elevated(Head(left), goal)
      <4>1. left \in Seq(Item) /\ AllVouched(left, goal)
            /\ \A i \in DOMAIN left : Elevates(goal) \/ Sound(left[i])
        BY <1>1, <1>2, DrainableKeeps, DrainableIsVouched
      <4>2. queue' = IF HeadReady(left) THEN Tail(left) ELSE left
        BY <3>3 DEF ResumeTakes
      <4>3. \/ warrant' = warrant
            \/ /\ HeadReady(left) /\ CanBegin(next, goal, FALSE)
               /\ warrant' = WarrantOf(next, goal)
        BY <3>3 DEF ResumeTakes, Begin, engineVars
      <4>4. HeadReady(left) => left # <<>>
        BY DEF HeadReady
      <4> HIDE DEF left
      <4>5. AllVouched(queue', goal)
        <5>1. CASE ~HeadReady(left)
          BY <4>1, <4>2, <5>1
        <5>2. CASE HeadReady(left)
          <6>1. queue' = Tail(left) /\ \A i \in DOMAIN Tail(left) : /\ i + 1 \in DOMAIN left
                                                                   /\ Tail(left)[i] = left[i + 1]
            BY <4>1, <4>2, <4>4, <5>2
          <6>2. QED
            BY <4>1, <6>1 DEF AllVouched
        <5>3. QED
          BY <5>1, <5>2
      <4>6. CASE HeadReady(left) /\ CanBegin(next, goal, FALSE)
        <5>1. 1 \in DOMAIN left /\ Head(left) = left[1] /\ left[1] \in Item
          BY <4>1, <4>4, <4>6
        <5>2. /\ Head(left) \in Item /\ Head(left).kind # "wakeup"
              /\ Elevates(goal) \/ Sound(Head(left))
          BY <4>1, <5>1 DEF AllVouched, Vouched
        <5>3. WarrantOf(next, goal) # "none"
          BY <1>1, <4>6, <5>2, WarrantGiven
        <5>4. QED
          BY <1>2, <3>1, <4>3, <4>5, <5>3
      <4>7. QED
        BY <1>2, <3>1, <4>3, <4>5, <4>6
    <3>4. QED
      BY <2>6, <3>2, <3>3 DEF ResumePrepared
  <2>7. QED
    BY <1>6, <2>1, <2>2, <2>3, <2>4, <2>5, <2>6 DEF ControlStep
<1>7. ASSUME NEW t \in Turns, TurnStep(t) PROVE Covered
  <2>1. CASE DraftEnds(t)
    <3> DEFINE after == GoalAndQueueAfter(t)
               g == AfterTurn(goal, status, claimed)
               q == IF goal.on /\ status = "interrupted" THEN DropContinues(queue) ELSE queue
    <3>1. g \in Goal /\ g.on = goal.on
      BY <1>1, GoalRules DEF Modes
    <3>2. q \in Seq(Item) /\ PartOf(q, queue)
      BY <1>1, DropContinuesIsPart, DropContinuesLeavesNone DEF PartOf
    <3>3. after = HostContinues(t, g, q)
      BY DEF GoalAndQueueAfter
    <3>4. \/ goal' = after[1] /\ queue' = after[2] /\ warrant' = warrant
          \/ Finish(t, FALSE, after[1], after[2], unresolved, accepted)
      BY <2>1 DEF DraftEnds
    <3> HIDE DEF after, g, q
    <3>5. after[1] \in Goal /\ after[1].on = goal.on /\ after[2] \in Seq(Item)
      BY <3>1, <3>2, <3>3, HostContinuesType
    <3>6. \/ after[2] = q \/ after[2] = DropContinues(q) \/ after[2] = Append(q, ContinueItem)
      BY <3>3 DEF HostContinues
    <3>7. AllVouched(after[2], after[1])
      <4>1. AllVouched(q, goal)
        BY <1>2, <3>2 DEF PartOf, AllVouched
      <4>2. AllVouched(q, after[1])
        BY <3>5, <4>1, VouchedByAnother
      <4>3. AllVouched(DropContinues(q), after[1])
        BY <3>2, <4>2, DropContinuesIsPart DEF PartOf, AllVouched
      <4>4. Vouched(ContinueItem, after[1]) /\ ContinueItem \in Item
        BY ConstantTypes DEF ContinueItem, NewItem, Vouched, Sound
      <4>5. AllVouched(Append(q, ContinueItem), after[1])
        BY <3>2, <4>2, <4>4 DEF AllVouched
      <4>6. QED
        BY <3>6, <4>2, <4>3, <4>5
    <3>8. QED
      BY <1>2, <3>4, <3>5, <3>7, FinishWarrants
  <2>2. CASE PrepareEnds(t)
    <3>1. \/ Finish(t, TRUE, goal, queue, FALSE, accepted)
          \/ Finish(t, FALSE, goal, <<>>, TRUE, accepted \ Ids(queue))
      BY <2>2 DEF PrepareEnds
    <3>2. AllVouched(<<>>, goal)
      BY DEF AllVouched
    <3>3. QED
      BY <1>1, <1>2, <3>1, <3>2, ConstantTypes, FinishWarrants
  <2>3. CASE \/ FirstRound(t) \/ NextRound(t) \/ RunEnds(t) \/ RecordEnds(t) \/ SaveEnds(t)
    BY <1>3, <2>3 DEF FirstRound, NextRound, RunEnds, RecordEnds, SaveEnds, engineVars
  <2>4. QED
    BY <1>7, <2>1, <2>2, <2>3 DEF TurnStep
<1>8. ASSUME (\E g \in Groups : GroupWakes(g)) \/ IdleTimerFires \/ ForceSettle PROVE Covered
  BY <1>3, <1>8 DEF GroupWakes, IdleTimerFires, ForceSettle, engineVars
<1>9. ASSUME WakePrepared PROVE Covered
  <2> DEFINE item == NewItem(NoPrompt, "wakeup", currentMode, "none")
  <2>1. goal' = goal
    BY <1>9 DEF WakePrepared
  <2>2. "goal" \notin Ops /\ ~goal.on /\ warrant \in {"user", "schedule"}
    <3>1. "wake" \in Ops
      BY <1>9 DEF WarrantInv, WakeFree, WakePrepared
    <3>2. warrant \in {"user", "schedule", "goal", "none"}
      BY <1>1 DEF TypeOK
    <3>3. QED
      BY <1>2, <3>1, <3>2 DEF GoalStandsAlone
  <2>3. CASE ReloadCancelsQueue
    BY <1>4, <2>3 DEF ReloadCancelsQueue, engineVars
  <2>4. CASE queue' = queue /\ (warrant' = warrant \/ warrant' = WarrantOf(item, goal))
    <3>1. WarrantOf(item, goal) \in {"user", "schedule"}
      BY <2>2 DEF WarrantOf, NewItem, TurnMode, Elevates
    <3>2. QED
      BY <1>2, <2>1, <2>2, <2>4, <3>1
  <2>5. QED
    BY <1>9, <2>3, <2>4 DEF WakePrepared, Begin, engineVars
<1>10. ASSUME UNCHANGED vars PROVE Covered
  BY <1>3, <1>10 DEF vars, engineVars
<1>11. Covered
  BY <1>3, <1>5, <1>6, <1>7, <1>8, <1>9, <1>10 DEF Next
<1>12. /\ "goal" \notin Ops => GoalFree'
       /\ "wake" \notin Ops => WakeFree'
  BY <1>1, GoalFreeStep, WakeFreeStep DEF WarrantInv
<1>13. QED
  BY <1>11, <1>12 DEF WarrantInv

(* Full access is only ever given to a turn by a Goal at work, a schedule  *)
(* or a client that asked for it (queueItemPermissionMode and the          *)
(* revocations of turn-queue.ts), as long as a session with a Goal is not  *)
(* guided and not woken: guidance and wake-ups inherit the mode of the     *)
(* last turn, whose Goal may be over.                                      *)
THEOREM FullAccessIsVouchedFor ==
  GoalStandsAlone /\ Spec => []FullAccessIsWarranted
<1> SUFFICES ASSUME GoalStandsAlone PROVE Spec => []FullAccessIsWarranted
  OBVIOUS
<1>1. Init => StopInv /\ WarrantInv
  <2> SUFFICES ASSUME Init PROVE StopInv /\ WarrantInv
    OBVIOUS
  <2>1. StopInv
    BY DEF Init, StopInv, StoppedGoalLeavesNothing, Has, StagedIsOn, PublishedIsOn, NoControl
  <2>2. GoalFree
    BY ConstantTypes DEF Init, GoalFree, IdleTurn
  <2>3. AllVouched(queue, goal)
    BY DEF Init, AllVouched
  <2>4. QED
    BY <2>1, <2>2, <2>3 DEF Init, WarrantInv, WakeFree
<1>2. TypeInv /\ StopInv /\ WarrantInv /\ [Next]_vars => TypeInv' /\ StopInv' /\ WarrantInv'
  BY TypeStep, StopStep, WarrantStep
<1>3. WarrantInv => FullAccessIsWarranted
  BY DEF WarrantInv, FullAccessIsWarranted
<1>4. QED
  BY <1>1, <1>2, <1>3, TypeInit, PTL DEF Spec
-----------------------------------------------------------------------------
(***************************************************************************)
(* Accepted prompts.  An item leaves the queue only together with its      *)
(* promise: when its turn begins, or when it is withdrawn.  What is taken  *)
(* from the queue begins, because the takers wait for nothing that could   *)
(* stop it: the settling turn is never itself quarantined, and while a     *)
(* resumed Goal reloads its configuration no other turn begins.            *)
(***************************************************************************)
ResumesAlone == "goal" \in Ops => "wake" \notin Ops /\ "gate" \notin Ops

(* Host continuations carry no client's prompt.                            *)
Anonymous(q) == \A i \in DOMAIN q : q[i].kind = "goal-continue" => q[i].id = NoPrompt

SettlesFreely ==
  /\ \A t \in Turns : turn[t].pc \in {"draft", "prepare"} => quarantinedTurnId = NoTurn
  /\ \A t \in Turns : running /\ Live(t) => currentTurnId \in {t, NoTurn}

ResumesFreely ==
  control.stage = "prepare" => disposed \/ (~running /\ quarantinedTurnId = NoTurn)

(* Every identity a client waits for is that of an item in the queue.      *)
LEMMA IdsOfPart ==
  ASSUME NEW q \in Seq(Item), NEW r \in Seq(Item), NEW gone,
         \A i \in DOMAIN q : \/ q[i].id \in gone
                             \/ \E j \in DOMAIN r : r[j].id = q[i].id
  PROVE  Ids(q) \subseteq Ids(r) \cup gone
BY DEF Ids

(* Dropping the host's continuations drops no client's prompt.             *)
LEMMA DropContinuesKeepsPrompts ==
  ASSUME NEW q \in Seq(Item), Anonymous(q)
  PROVE  /\ Anonymous(DropContinues(q))
         /\ Ids(q) \subseteq Ids(DropContinues(q)) \cup {NoPrompt}
<1>1. DropContinues(q) \in Seq(Item)
  BY DropContinuesLeavesNone
<1>2. \A i \in DOMAIN q : \/ q[i].id \in {NoPrompt}
                          \/ \E j \in DOMAIN DropContinues(q) : DropContinues(q)[j].id = q[i].id
  <2> TAKE i \in DOMAIN q
  <2>1. CASE q[i].kind = "goal-continue"
    BY <2>1 DEF Anonymous
  <2>2. CASE q[i].kind # "goal-continue"
    <3>1. PICK j \in DOMAIN DropContinues(q) : DropContinues(q)[j] = q[i]
      BY <2>2, DropContinuesFilters
    <3>2. QED
      BY <3>1
  <2>3. QED
    BY <2>1, <2>2
<1>3. Anonymous(DropContinues(q))
  BY DropContinuesFilters DEF Anonymous
<1>4. QED
  BY <1>1, <1>2, <1>3, IdsOfPart

(* Nor does taking back an elevation.                                      *)
LEMMA DrainableKeepsPrompts ==
  ASSUME NEW q \in Seq(Item), NEW g \in Goal, Anonymous(q)
  PROVE  /\ Anonymous(Drainable(q, g))
         /\ Ids(q) \subseteq Ids(Drainable(q, g)) \cup {NoPrompt}
<1> DEFINE kept == IF g.on /\ ~Elevates(g) THEN RevokeAll(q, g.previous) ELSE q
<1>1. kept \in Seq(Item) /\ Anonymous(kept) /\ Ids(kept) = Ids(q)
  <2>1. g.previous \in Modes
    BY DEF Goal
  <2>2. /\ RevokeAll(q, g.previous) \in Seq(Item)
        /\ DOMAIN RevokeAll(q, g.previous) = DOMAIN q
        /\ \A i \in DOMAIN q : /\ RevokeAll(q, g.previous)[i].kind = q[i].kind
                               /\ RevokeAll(q, g.previous)[i].id = q[i].id
    BY <2>1, RevokeAllKeeps DEF RevokeAll
  <2>3. QED
    BY <2>2 DEF Anonymous, Ids
<1>2. Drainable(q, g) = kept \/ Drainable(q, g) = DropContinues(kept)
  BY DEF Drainable
<1> HIDE DEF kept
<1>3. QED
  BY <1>1, <1>2, DropContinuesKeepsPrompts

(* The head and the rest of a queue hold all its identities.               *)
LEMMA TailKeepsPrompts ==
  ASSUME NEW q \in Seq(Item), q # <<>>, Anonymous(q)
  PROVE  /\ Tail(q) \in Seq(Item) /\ Anonymous(Tail(q))
         /\ Head(q) \in Item
         /\ Ids(q) \subseteq Ids(Tail(q)) \cup {Head(q).id}
         /\ Head(q).kind = "goal-continue" => Head(q).id = NoPrompt
<1>1. /\ Tail(q) \in Seq(Item) /\ Len(Tail(q)) = Len(q) - 1 /\ Len(q) \in Nat \ {0}
      /\ \A i \in 1..(Len(q) - 1) : Tail(q)[i] = q[i + 1]
      /\ Head(q) = q[1] /\ q[1] \in Item
  OBVIOUS
<1>2. \A i \in DOMAIN q : q[i].id \in {Head(q).id} \/ \E j \in DOMAIN Tail(q) : Tail(q)[j].id = q[i].id
  <2> TAKE i \in DOMAIN q
  <2>1. CASE i = 1
    BY <1>1, <2>1
  <2>2. CASE i # 1
    <3>1. i - 1 \in DOMAIN Tail(q) /\ Tail(q)[i - 1] = q[i]
      BY <1>1, <2>2
    <3>2. QED
      BY <3>1
  <2>3. QED
    BY <2>1, <2>2
<1>3. Ids(q) \subseteq Ids(Tail(q)) \cup {Head(q).id}
  BY <1>1, <1>2, IdsOfPart
<1>4. Anonymous(Tail(q)) /\ (Head(q).kind = "goal-continue" => Head(q).id = NoPrompt)
  <2>1. 1 \in DOMAIN q /\ \A i \in DOMAIN Tail(q) : i + 1 \in DOMAIN q /\ Tail(q)[i] = q[i + 1]
    BY <1>1
  <2>2. QED
    BY <1>1, <2>1 DEF Anonymous
<1>5. QED
  BY <1>1, <1>3, <1>4

(* A queue without one of its items holds the identities of the others.    *)
LEMMA WithoutKeepsPrompts ==
  ASSUME NEW q \in Seq(Item), NEW i \in DOMAIN q, Anonymous(q)
  PROVE  /\ Without(q, i) \in Seq(Item) /\ Anonymous(Without(q, i))
         /\ Ids(q) \subseteq Ids(Without(q, i)) \cup {q[i].id}
<1>1. /\ Without(q, i) \in Seq(Item)
      /\ \A j \in DOMAIN Without(q, i) : \E k \in DOMAIN q : Without(q, i)[j] = q[k]
      /\ \A k \in DOMAIN q : k = i \/ \E j \in DOMAIN Without(q, i) : Without(q, i)[j] = q[k]
  BY WithoutType
<1>2. Anonymous(Without(q, i))
  BY <1>1 DEF Anonymous
<1>3. Ids(q) \subseteq Ids(Without(q, i)) \cup {q[i].id}
  BY <1>1 DEF Ids
<1>4. QED
  BY <1>1, <1>2, <1>3
(* Elevation leaves identity, kind and confirmation alone.                 *)
LEMMA ElevatedKeeps ==
  ASSUME NEW item \in Item, NEW g
  PROVE  /\ Elevated(item, g).id = item.id /\ Elevated(item, g).kind = item.kind
         /\ Elevated(item, g).confirm = item.confirm
BY DEF Elevated, Item

(* The end of a turn keeps every promise: what it takes from the queue     *)
(* begins, or is a continuation of the host.                               *)
LEMMA FinishKeepsPrompts ==
  ASSUME TypeInv, NEW t \in Turns, NEW may \in BOOLEAN, NEW g \in Goal, NEW q \in Seq(Item),
         NEW bad \in BOOLEAN, NEW waiting \in SUBSET Prompts,
         Finish(t, may, g, q, bad, waiting), waiting \subseteq Ids(q), Anonymous(q),
         may => ~bad /\ quarantinedTurnId = NoTurn /\ (disposed => q = <<>>)
  PROVE  accepted' \subseteq Ids(queue') /\ Anonymous(queue')
<1> DEFINE left == IF may /\ ~gate THEN Drainable(q, g) ELSE q
           pops == (may /\ ~gate) /\ HeadReady(left)
           next == Elevated(Head(left), g)
<1>1. /\ left \in Seq(Item) /\ Anonymous(left) /\ Ids(q) \subseteq Ids(left) \cup {NoPrompt}
      /\ q = <<>> => left = <<>>
  BY DrainableKeeps, DrainableKeepsPrompts
<1>2. queue' = IF pops THEN Tail(left) ELSE left
  BY DEF Finish
<1>3. \/ pops /\ CanBegin(next, g, bad) /\ accepted' = waiting \ {next.id}
      \/ ~(pops /\ CanBegin(next, g, bad)) /\ accepted' = waiting
  BY DEF Finish
<1>4. pops => may /\ ~gate /\ left # <<>> /\ ~Head(left).confirm
  BY DEF HeadReady
<1>5. waiting \subseteq Ids(left)
  BY <1>1, BoundsAssumption
<1> HIDE DEF left, pops
<1>6. CASE ~pops
  BY <1>1, <1>2, <1>3, <1>5, <1>6
<1>7. CASE pops
  <2>1. /\ Tail(left) \in Seq(Item) /\ Anonymous(Tail(left)) /\ Head(left) \in Item
        /\ Ids(left) \subseteq Ids(Tail(left)) \cup {Head(left).id}
        /\ Head(left).kind = "goal-continue" => Head(left).id = NoPrompt
    BY <1>1, <1>4, <1>7, TailKeepsPrompts
  <2>2. /\ next.id = Head(left).id /\ next.kind = Head(left).kind
        /\ next.confirm = Head(left).confirm
    BY <2>1, ElevatedKeeps
  <2>3. CASE CanBegin(next, g, bad)
    BY <1>2, <1>3, <1>5, <1>7, <2>1, <2>2, <2>3
  <2>4. CASE ~CanBegin(next, g, bad)
    <3>1. next.kind = "goal-continue"
      BY <1>1, <1>4, <1>7, <2>2, <2>4 DEF CanBegin
    <3>2. Head(left).id = NoPrompt
      BY <2>1, <2>2, <3>1
    <3>3. QED
      BY <1>2, <1>3, <1>5, <1>7, <2>1, <2>4, <3>2, BoundsAssumption
  <2>5. QED
    BY <2>3, <2>4
<1>8. QED
  BY <1>6, <1>7

-----------------------------------------------------------------------------
Armed == forceSettle.timer = "armed" => forceSettle.turn # NoTurn

(* A step that begins no turn and quarantines nothing.                     *)
LEMMA SettlesFreelyFrame ==
  ASSUME SettlesFreely, UNCHANGED quarantinedTurnId \/ quarantinedTurnId' = NoTurn,
         running' => running, currentTurnId' \in {currentTurnId, NoTurn},
         \A t \in Turns : Live(t)' => Live(t),
         \A t \in Turns : turn'[t].pc \in {"draft", "prepare"}
                            => turn[t].pc \in {"draft", "prepare"} \/ quarantinedTurnId' = NoTurn
  PROVE  SettlesFreely'
BY DEF SettlesFreely

(* A turn begins in a session that is not quarantined.                     *)
LEMMA SettlesFreelyBegin ==
  ASSUME OneLiveInv', NEW item, NEW g, NEW new \in Turns, NEW others \in [Turns -> TurnState],
         Begin(item, g, new, others), quarantinedTurnId' = NoTurn
  PROVE  SettlesFreely'
<1>1. currentTurnId' = new /\ turn'[new].pc = "start"
  BY DEF Begin, IdleTurn
<1>2. Live(new)'
  BY <1>1 DEF Live
<1>3. \A t \in Turns : Live(t)' => t = new
  BY <1>2 DEF OneLiveInv, OneLiveRun
<1>4. QED
  BY <1>1, <1>3 DEF SettlesFreely

(* An abort moves no turn.                                                 *)
LEMMA SettlesFreelyInterrupt ==
  ASSUME TypeOK, SettlesFreely, NEW reason \in {"user", "guided"}, RequestInterrupt(reason),
         UNCHANGED <<quarantinedTurnId, running, currentTurnId>>
  PROVE  SettlesFreely' /\ Armed'
<1>1. \A t \in Turns : turn'[t].pc = turn[t].pc
  BY AbortedType DEF RequestInterrupt
<1>2. SettlesFreely'
  BY <1>1, SettlesFreelyFrame DEF Live
<1>3. Armed'
  BY DEF RequestInterrupt, Armed, NoTimer
<1>4. QED
  BY <1>2, <1>3

(* The end of a run: its own quarantine is over with it.                   *)
LEMMA SettlesFreelySettle ==
  ASSUME OneLiveInv, SettlesFreely, Armed, NEW t \in Turns, NEW ended, Settle(t, ended), Live(t),
         UNCHANGED <<running, currentTurnId>>
  PROVE  SettlesFreely' /\ Armed'
<1>1. /\ turn' \in [Turns -> TurnState] /\ \A u \in Turns : Live(u)' => Live(u)
      /\ turn \in [Turns -> TurnState]
  BY SettleMakesNoneLive DEF OneLiveInv, TurnsTyped
<1>2. CASE ~OwnsTurn(t)
  <2>1. turn' = [turn EXCEPT ![t] = IdleTurn]
        /\ UNCHANGED <<quarantinedTurnId, forceSettle>>
    BY <1>2 DEF Settle
  <2>2. \A u \in Turns : turn'[u].pc \in {"draft", "prepare"} => turn[u].pc \in {"draft", "prepare"}
    BY <1>1, <2>1 DEF IdleTurn
  <2>3. QED
    BY <1>1, <2>1, <2>2, SettlesFreelyFrame DEF Armed
<1>3. CASE OwnsTurn(t)
  <2>1. quarantinedTurnId' = NoTurn /\ forceSettle' = NoTimer
    BY <1>3 DEF Settle
  <2>2. QED
    BY <1>1, <2>1, SettlesFreelyFrame DEF Armed, NoTimer
<1>4. QED
  BY <1>2, <1>3

(* The end of a turn.                                                      *)
LEMMA SettlesFreelyFinish ==
  ASSUME TypeInv, OneLiveInv, OneLiveInv', SettlesFreely, NEW t \in Turns, Live(t),
         turn[t].pc \in {"draft", "prepare"},
         NEW may, NEW g \in Goal, NEW q, NEW bad, NEW waiting,
         Finish(t, may, g, q, bad, waiting), UNCHANGED quarantinedTurnId
  PROVE  SettlesFreely'
<1> DEFINE over == [IdleTurn EXCEPT !.pc = IF g.on THEN "save" ELSE "idle"]
           begun == [turn EXCEPT ![t] = [over EXCEPT !.startedNext = g.on]]
<1>1. quarantinedTurnId' = NoTurn
  BY DEF SettlesFreely
<1>2. begun \in [Turns -> TurnState]
  <2>1. turn \in [Turns -> TurnState] /\ g.on \in BOOLEAN
    BY DEF TypeInv, TypeOK, Goal
  <2>2. [over EXCEPT !.startedNext = g.on] \in TurnState
    BY <2>1 DEF IdleTurn, TurnState
  <2>3. QED
    BY <2>1, <2>2
<1>3. \/ running' = FALSE
      \/ \E item : \E new \in FreeTurns : Begin(item, g, new, begun)
  BY DEF Finish
<1>4. CASE running' = FALSE
  BY <1>1, <1>4 DEF SettlesFreely
<1>5. CASE \E item : \E new \in FreeTurns : Begin(item, g, new, begun)
  <2> HIDE DEF begun
  <2>1. PICK item : \E new \in FreeTurns : Begin(item, g, new, begun)
    BY <1>5
  <2>2. PICK new \in Turns : Begin(item, g, new, begun)
    BY <2>1 DEF FreeTurns
  <2>3. QED
    BY <1>1, <1>2, <2>2, SettlesFreelyBegin
<1>6. QED
  BY <1>3, <1>4, <1>5

(* When settling is quick, no settling turn finds its session quarantined. *)
LEMMA SettlesFreelyStep ==
  ASSUME TypeInv, OneLiveInv, OneLiveInv', SettlesFreely, Armed, SettlesInTime, [Next]_vars
  PROVE  SettlesFreely' /\ Armed'
<1>1. /\ turn \in [Turns -> TurnState] /\ goal \in Goal /\ TypeOK
  BY DEF TypeInv, TypeOK
<1>2. ASSUME UNCHANGED <<running, currentTurnId, quarantinedTurnId, forceSettle, turn>>
      PROVE  SettlesFreely' /\ Armed'
  BY <1>2, SettlesFreelyFrame DEF Live, Armed
<1>3. ASSUME NEW item, NEW g, NEW new \in FreeTurns, Begin(item, g, new, turn),
             quarantinedTurnId = NoTurn, UNCHANGED <<quarantinedTurnId, forceSettle>>
      PROVE  SettlesFreely' /\ Armed'
  BY <1>1, <1>3, SettlesFreelyBegin DEF FreeTurns, Armed
<1>4. ASSUME \E r \in {"user", "guided"} : RequestInterrupt(r),
             UNCHANGED <<running, currentTurnId, quarantinedTurnId>>
      PROVE  SettlesFreely' /\ Armed'
  BY <1>1, <1>4, SettlesFreelyInterrupt
<1>5. CASE Request
  <2>1. ASSUME NEW p, NEW kind, NEW m, NEW withGoal, Start(p, kind, m, withGoal)
        PROVE  SettlesFreely' /\ Armed'
    BY <1>2, <1>3, <2>1 DEF Start, StartIdle, StartQueued, engineVars
  <2>2. CASE StartTurn
    BY <2>1, <2>2 DEF StartTurn
  <2>3. CASE InterruptTurn \/ GuideTurn
    BY <1>4, <2>3 DEF InterruptTurn, GuideTurn, GuideQueues, GuideStops
  <2>4. CASE CancelWork
    BY <1>2, <1>4, <2>4 DEF CancelWork
  <2>5. CASE Dispose
    <3>1. running' = FALSE /\ quarantinedTurnId' = NoTurn /\ forceSettle' = NoTimer
      BY <2>5 DEF Dispose
    <3>2. QED
      BY <3>1 DEF SettlesFreely, Armed, NoTimer
  <2>6. CASE \/ RefuseIdleStart \/ CancelQueuedTurn \/ Ask \/ Answer \/ StopRead \/ EnableStage
             \/ ResumeStage \/ (\E g \in Groups : GroupNotes(g)) \/ InvalidateModel
             \/ RepairModel \/ ToggleGate
    BY <1>2, <2>6 DEF RefuseIdleStart, StartIdleRefused, CancelQueuedTurn, Ask, Answer, StopRead,
         EnableStage, ResumeStage, GroupNotes, InvalidateModel, RepairModel, ToggleGate, engineVars
  <2>7. QED
    BY <1>5, <2>2, <2>3, <2>4, <2>5, <2>6 DEF Request
<1>6. CASE ControlStep
  <2>1. CASE StopApply
    BY <1>2, <1>4, <2>1 DEF StopApply
  <2>2. CASE EnableStarts
    <3>1. \/ UNCHANGED <<engineVars, turn>>
          \/ /\ quarantinedTurnId = NoTurn /\ UNCHANGED <<quarantinedTurnId, forceSettle>>
             /\ \E item, g : \E new \in FreeTurns : Begin(item, g, new, turn)
      BY <2>2 DEF EnableStarts
    <3>2. QED
      BY <1>2, <1>3, <3>1 DEF engineVars
  <2>3. CASE ResumePrepared
    <3>1. \/ UNCHANGED <<engineVars, turn>>
          \/ /\ quarantinedTurnId = NoTurn /\ UNCHANGED <<quarantinedTurnId, forceSettle>>
             /\ \E item, g : \E new \in FreeTurns : Begin(item, g, new, turn)
      BY <2>3 DEF ResumePrepared, ResumeTakes, ReloadCancelsQueue, CanBegin
    <3>2. QED
      BY <1>2, <1>3, <3>1 DEF engineVars
  <2>4. CASE StopReturns \/ GoalCommit \/ GoalCommitFails \/ ResumeQueues
    BY <1>2, <2>4 DEF StopReturns, GoalCommit, GoalCommitFails, ResumeQueues, engineVars
  <2>5. QED
    BY <1>6, <2>1, <2>2, <2>3, <2>4 DEF ControlStep
<1>7. ASSUME NEW t \in Turns, TurnStep(t) PROVE SettlesFreely' /\ Armed'
  <2>1. ASSUME NEW from, NEW to, turn[t].pc = from, turn' = [turn EXCEPT ![t].pc = to],
               <<from, to>> \in {<<"start", "run">>, <<"start", "record">>, <<"run", "record">>,
                                 <<"draft", "prepare">>},
               UNCHANGED <<running, currentTurnId, quarantinedTurnId, forceSettle>>
        PROVE  SettlesFreely' /\ Armed'
    <3>1. /\ \A u \in Turns : u # t => turn'[u] = turn[u]
          /\ turn'[t].pc = to
      BY <1>1, <2>1 DEF TurnState
    <3>2. \A u \in Turns : /\ Live(u)' => Live(u)
                           /\ turn'[u].pc \in {"draft", "prepare"}
                                => turn[u].pc \in {"draft", "prepare"}
      BY <2>1, <3>1 DEF Live
    <3>3. QED
      BY <2>1, <3>2, SettlesFreelyFrame DEF Armed
  <2>2. CASE FirstRound(t)
    BY <2>1, <2>2 DEF FirstRound, engineVars
  <2>3. CASE NextRound(t)
    BY <1>2, <2>3 DEF NextRound, engineVars
  <2>4. CASE RunEnds(t)
    <3>1. Live(t) /\ UNCHANGED <<running, currentTurnId>>
      BY <2>4 DEF RunEnds, Live
    <3>2. CASE IsCurrentTurn(t)
      BY <2>1, <2>4, <3>2 DEF RunEnds
    <3>3. CASE ~IsCurrentTurn(t)
      BY <1>1, <2>4, <3>1, <3>3, SettlesFreelySettle DEF RunEnds
    <3>4. QED
      BY <3>2, <3>3
  <2>5. CASE RecordEnds(t)
    BY <1>1, <2>5, SettlesFreelySettle DEF RecordEnds, Live
  <2>6. CASE DraftEnds(t)
    <3> DEFINE after == GoalAndQueueAfter(t)
    <3>1. Live(t) /\ UNCHANGED <<quarantinedTurnId, forceSettle>>
          /\ turn[t].pc = "draft"
      BY <2>6 DEF DraftEnds, Live
    <3>2. after[1] \in Goal
      BY GoalAfterType DEF TypeInv
    <3>3. \/ Finish(t, FALSE, after[1], after[2], unresolved, accepted)
          \/ /\ turn' = [turn EXCEPT ![t].pc = "prepare"]
             /\ UNCHANGED <<running, currentTurnId>>
      BY <2>6 DEF DraftEnds
    <3> HIDE DEF after
    <3>4. QED
      BY <1>1, <2>1, <3>1, <3>2, <3>3, SettlesFreelyFinish DEF Armed
  <2>7. CASE PrepareEnds(t)
    <3>1. Live(t) /\ turn[t].pc = "prepare" /\ UNCHANGED <<quarantinedTurnId, forceSettle>>
      BY <2>7 DEF PrepareEnds, Live
    <3>2. \/ Finish(t, TRUE, goal, queue, FALSE, accepted)
          \/ Finish(t, FALSE, goal, <<>>, TRUE, accepted \ Ids(queue))
      BY <2>7 DEF PrepareEnds
    <3>3. QED
      BY <1>1, <3>1, <3>2, SettlesFreelyFinish DEF Armed
  <2>8. CASE SaveEnds(t)
    <3>1. /\ currentTurnId' \in {currentTurnId, NoTurn}
          /\ turn' = [turn EXCEPT ![t] = IdleTurn]
          /\ UNCHANGED <<running, quarantinedTurnId, forceSettle>>
      BY <2>8 DEF SaveEnds
    <3>2. \A u \in Turns : /\ Live(u)' => Live(u)
                           /\ turn'[u].pc \in {"draft", "prepare"}
                                => turn[u].pc \in {"draft", "prepare"}
      BY <1>1, <3>1 DEF Live, IdleTurn
    <3>3. QED
      BY <3>1, <3>2, SettlesFreelyFrame DEF Armed
  <2>9. QED
    BY <1>7, <2>2, <2>3, <2>4, <2>5, <2>6, <2>7, <2>8 DEF TurnStep
<1>8. CASE (\E g \in Groups : GroupWakes(g)) \/ IdleTimerFires
  BY <1>2, <1>8 DEF GroupWakes, IdleTimerFires, engineVars
<1>9. CASE ForceSettle
  <2>1. /\ UNCHANGED <<running, currentTurnId>>
        /\ turn[forceSettle.turn].pc \notin {"draft", "prepare"}
        /\ forceSettle.turn # NoTurn /\ forceSettle.timer' # "armed"
        /\ turn' = turn \/ turn' = Aborted("user")
    BY <1>9 DEF ForceSettle, SettlesInTime, Armed, NoTimer, FiredTimer
  <2>2. \A u \in Turns : turn'[u].pc = turn[u].pc
    BY <1>1, <2>1, AbortedType
  <2>3. CASE ~running \/ currentTurnId # forceSettle.turn
    <3>1. UNCHANGED quarantinedTurnId
      BY <1>9, <2>3 DEF ForceSettle
    <3>2. QED
      BY <2>1, <2>2, <3>1, SettlesFreelyFrame DEF Live, Armed
  <2>4. CASE running /\ currentTurnId = forceSettle.turn
    <3>1. \A u \in Turns : turn[u].pc \notin {"draft", "prepare"}
      BY <2>1, <2>4 DEF SettlesFreely, Live
    <3>2. QED
      BY <2>1, <2>2, <3>1 DEF SettlesFreely, Live, Armed
  <2>5. QED
    BY <2>3, <2>4
<1>10. CASE WakePrepared
  <2>1. \/ UNCHANGED <<engineVars, turn>>
        \/ /\ quarantinedTurnId = NoTurn /\ UNCHANGED <<quarantinedTurnId, forceSettle>>
           /\ \E item : \E new \in FreeTurns : Begin(item, goal, new, turn)
    BY <1>10 DEF WakePrepared, MayWake, ReloadCancelsQueue
  <2>2. CASE UNCHANGED <<engineVars, turn>>
    BY <1>2, <2>2 DEF engineVars
  <2>3. QED
    BY <1>3, <2>1, <2>2
<1>11. CASE UNCHANGED vars
  BY <1>2, <1>11 DEF vars, engineVars
<1>12. QED
  BY <1>5, <1>6, <1>7, <1>8, <1>9, <1>10, <1>11 DEF Next
GateFree == ~gate

(* Maintenance is only held where the environment asks for it.             *)
LEMMA GateFreeStep ==
  ASSUME GateFree, "gate" \notin Ops, [Next]_vars
  PROVE  GateFree'
<1>1. CASE UNCHANGED gate
  BY <1>1 DEF GateFree
<1>2. CASE Request
  <2>1. CASE StartTurn
    BY ZenonT(30), <1>1, <2>1 DEF StartTurn, Start, StartIdle, StartQueued
  <2>2. ~ToggleGate
    BY DEF ToggleGate
  <2>3. CASE \/ RefuseIdleStart \/ InterruptTurn \/ CancelQueuedTurn \/ GuideTurn \/ Ask \/ Answer
             \/ StopRead \/ EnableStage \/ ResumeStage \/ (\E g \in Groups : GroupNotes(g))
             \/ InvalidateModel \/ RepairModel \/ CancelWork \/ Dispose
    BY <1>1, <2>3 DEF RefuseIdleStart, StartIdleRefused, InterruptTurn, CancelQueuedTurn,
         GuideTurn, Ask, Answer, StopRead, EnableStage, ResumeStage, GroupNotes,
         InvalidateModel, RepairModel, CancelWork, Dispose
  <2>4. QED
    BY <1>2, <2>1, <2>2, <2>3 DEF Request
<1>3. ASSUME NEW t \in Turns, TurnStep(t) PROVE GateFree'
  BY <1>1, <1>3 DEF TurnStep, FirstRound, NextRound, RunEnds, RecordEnds, DraftEnds,
       PrepareEnds, SaveEnds
<1>4. CASE ControlStep
  BY <1>1, <1>4 DEF ControlStep, StopApply, StopReturns, GoalCommit, GoalCommitFails,
       EnableStarts, ResumeQueues, ResumePrepared
<1>5. CASE ForceSettle \/ IdleTimerFires \/ WakePrepared \/ \E g \in Groups : GroupWakes(g)
  BY <1>1, <1>5 DEF ForceSettle, IdleTimerFires, WakePrepared, GroupWakes
<1>6. CASE UNCHANGED vars
  BY <1>1, <1>6 DEF vars
<1>7. QED
  BY <1>2, <1>3, <1>4, <1>5, <1>6 DEF Next

Freedoms == /\ "goal" \notin Ops => GoalFree
            /\ "wake" \notin Ops => WakeFree
            /\ "gate" \notin Ops => GateFree

(* While a resume reloads the configuration, only it can begin a turn.     *)
LEMMA ResumesFreelyStep ==
  ASSUME TypeInv, OneLiveInv, ResumesFreely, Freedoms, ResumesAlone, [Next]_vars
  PROVE  ResumesFreely'
<1>1. turn \in [Turns -> TurnState] /\ control \in ControlState
  BY DEF TypeInv, TypeOK
<1>2. CASE UNCHANGED control /\ control.stage # "prepare"
  BY <1>2 DEF ResumesFreely
<1>3. CASE UNCHANGED <<control, disposed, running, quarantinedTurnId>>
  BY <1>3 DEF ResumesFreely
<1>4. CASE control' = NoControl
  BY <1>4 DEF ResumesFreely, NoControl
<1>5. CASE UNCHANGED control /\ disposed'
  BY <1>5 DEF ResumesFreely
<1>6. CASE UNCHANGED <<control, disposed, quarantinedTurnId>> /\ (running' => running)
  BY <1>6 DEF ResumesFreely
<1>7. CASE Request
  <2>1. CASE StartTurn
    BY <1>2, <2>1 DEF StartTurn, Start, StartIdle, StartQueued, LockFree
  <2>2. CASE InterruptTurn \/ GuideTurn \/ CancelWork
    BY <1>3, <2>2 DEF InterruptTurn, GuideTurn, CancelWork
  <2>3. CASE Dispose
    BY <1>5, <2>3 DEF Dispose
  <2>4. CASE StopRead \/ EnableStage \/ ResumeStage
    <3>1. CASE StopRead
      <4>1. PICK op : control' = [NoControl EXCEPT !.stage = "stopRead", !.op = op]
        BY <3>1 DEF StopRead
      <4>2. control'.stage = "stopRead"
        BY <4>1 DEF NoControl
      <4>3. QED
        BY <4>2 DEF ResumesFreely
    <3>2. CASE EnableStage \/ ResumeStage
      <4>1. control'.stage = "staged"
        BY <3>2 DEF EnableStage, ResumeStage
      <4>2. QED
        BY <4>1 DEF ResumesFreely
    <3>3. QED
      BY <2>4, <3>1, <3>2
  <2>5. CASE \/ RefuseIdleStart \/ CancelQueuedTurn \/ Ask \/ Answer
             \/ (\E g \in Groups : GroupNotes(g)) \/ InvalidateModel \/ RepairModel \/ ToggleGate
    BY <1>3, <2>5 DEF RefuseIdleStart, StartIdleRefused, CancelQueuedTurn, Ask, Answer,
         GroupNotes, InvalidateModel, RepairModel, ToggleGate, engineVars
  <2>6. QED
    BY <1>7, <2>1, <2>2, <2>3, <2>4, <2>5 DEF Request
<1>8. CASE ControlStep
  <2>1. CASE StopApply \/ GoalCommit
    <3>1. control'.stage \in {"stopWrite", "published"}
      BY <1>1, <2>1 DEF StopApply, GoalCommit, ControlState
    <3>2. QED
      BY <3>1 DEF ResumesFreely
  <2>2. CASE ResumeQueues
    <3>1. control' = NoControl \/ (~running /\ quarantinedTurnId = NoTurn)
      BY <2>2 DEF ResumeQueues
    <3>2. UNCHANGED <<running, quarantinedTurnId>>
      BY <2>2 DEF ResumeQueues, engineVars
    <3>3. QED
      BY <1>4, <3>1, <3>2 DEF ResumesFreely
  <2>3. CASE StopReturns \/ GoalCommitFails \/ EnableStarts \/ ResumePrepared
    BY <1>4, <2>3 DEF StopReturns, GoalCommitFails, EnableStarts, ResumePrepared
  <2>4. QED
    BY <1>8, <2>1, <2>2, <2>3 DEF ControlStep
<1>9. ASSUME NEW t \in Turns, TurnStep(t) PROVE ResumesFreely'
  <2>1. CASE FirstRound(t) \/ NextRound(t) \/ SaveEnds(t)
    BY <1>3, <2>1 DEF FirstRound, NextRound, SaveEnds, engineVars
  <2>2. ASSUME NEW ended, Settle(t, ended), UNCHANGED <<control, disposed, running>>
        PROVE  ResumesFreely'
    <3>1. quarantinedTurnId' \in {quarantinedTurnId, NoTurn}
      BY <2>2 DEF Settle
    <3>2. QED
      BY <2>2, <3>1 DEF ResumesFreely
  <2>3. CASE RunEnds(t)
    BY <1>3, <2>2, <2>3 DEF RunEnds
  <2>4. CASE RecordEnds(t)
    BY <2>2, <2>4 DEF RecordEnds
  <2>5. CASE DraftEnds(t) \/ PrepareEnds(t)
    <3>1. Live(t) /\ UNCHANGED <<control, disposed, quarantinedTurnId>>
      BY <2>5 DEF DraftEnds, PrepareEnds, Live
    <3>2. running \/ disposed
      BY <3>1 DEF OneLiveInv, LiveIsRunning
    <3>3. QED
      BY <1>5, <1>6, <3>1, <3>2
  <2>6. QED
    BY <1>9, <2>1, <2>3, <2>4, <2>5 DEF TurnStep
<1>10. CASE (\E g \in Groups : GroupWakes(g)) \/ IdleTimerFires
  BY <1>3, <1>10 DEF GroupWakes, IdleTimerFires, engineVars
<1>11. CASE ForceSettle
  <2>1. UNCHANGED <<control, disposed, running>>
        /\ (UNCHANGED quarantinedTurnId \/ running)
    BY <1>11 DEF ForceSettle
  <2>2. QED
    BY <2>1 DEF ResumesFreely
<1>12. CASE WakePrepared
  <2>1. "wake" \in Ops
    BY <1>12 DEF Freedoms, WakeFree, WakePrepared
  <2>2. GoalFree
    BY <2>1 DEF ResumesAlone, Freedoms
  <2>3. UNCHANGED control /\ control.stage # "prepare"
    BY <1>12, <2>2 DEF WakePrepared, GoalFree, NoControl
  <2>4. QED
    BY <1>2, <2>3
<1>13. CASE UNCHANGED vars
  BY <1>3, <1>13 DEF vars, engineVars
<1>14. QED
  BY <1>7, <1>8, <1>9, <1>10, <1>11, <1>12, <1>13 DEF Next

-----------------------------------------------------------------------------
PromptInv == NoPromptLost /\ Anonymous(queue) /\ accepted \subseteq Prompts

(* What is appended to a queue joins its identities.                       *)
LEMMA AppendKeepsPrompts ==
  ASSUME NEW q \in Seq(Item), NEW item \in Item, Anonymous(q),
         item.kind = "goal-continue" => item.id = NoPrompt
  PROVE  /\ Append(q, item) \in Seq(Item) /\ Anonymous(Append(q, item))
         /\ Ids(q) \cup {item.id} \subseteq Ids(Append(q, item))
<1>1. /\ Append(q, item) \in Seq(Item) /\ Len(q) \in Nat
      /\ DOMAIN Append(q, item) = 1..(Len(q) + 1) /\ DOMAIN q = 1..Len(q)
      /\ Append(q, item)[Len(q) + 1] = item
      /\ \A i \in 1..Len(q) : Append(q, item)[i] = q[i]
  OBVIOUS
<1>2. /\ Len(q) + 1 \in DOMAIN Append(q, item)
      /\ \A i \in DOMAIN q : i \in DOMAIN Append(q, item)
      /\ \A i \in DOMAIN Append(q, item) : i \in DOMAIN q \/ i = Len(q) + 1
  BY <1>1
<1>3. Anonymous(Append(q, item))
  BY <1>1, <1>2 DEF Anonymous
<1>4. Ids(q) \cup {item.id} \subseteq Ids(Append(q, item))
  <2>1. \A i \in DOMAIN q : q[i].id \in Ids(Append(q, item))
    BY <1>1, <1>2 DEF Ids
  <2>2. item.id \in Ids(Append(q, item))
    BY <1>1, <1>2 DEF Ids
  <2>3. QED
    BY <2>1, <2>2 DEF Ids
<1>5. QED
  BY <1>1, <1>3, <1>4

(* What is put before a queue joins its identities.                        *)
LEMMA PrependKeepsPrompts ==
  ASSUME NEW q \in Seq(Item), NEW item \in Item, Anonymous(q), item.kind # "goal-continue"
  PROVE  /\ Anonymous(<<item>> \o q)
         /\ Ids(q) \cup {item.id} \subseteq Ids(<<item>> \o q)
<1>1. /\ <<item>> \o q \in Seq(Item) /\ Len(q) \in Nat
      /\ DOMAIN (<<item>> \o q) = 1..(Len(q) + 1) /\ DOMAIN q = 1..Len(q)
      /\ (<<item>> \o q)[1] = item
      /\ \A i \in 1..Len(q) : (<<item>> \o q)[i + 1] = q[i]
  OBVIOUS
<1>2. /\ 1 \in DOMAIN (<<item>> \o q)
      /\ \A i \in DOMAIN q : i + 1 \in DOMAIN (<<item>> \o q)
      /\ \A i \in DOMAIN (<<item>> \o q) :
            i = 1 \/ (i - 1 \in DOMAIN q /\ (<<item>> \o q)[i] = q[i - 1])
  <2>1. \A i \in 1..(Len(q) + 1) : i = 1 \/ (i - 1 \in 1..Len(q) /\ (i - 1) + 1 = i)
    BY <1>1
  <2>2. QED
    BY <1>1, <2>1
<1>3. Anonymous(<<item>> \o q)
  BY <1>1, <1>2 DEF Anonymous
<1>4. Ids(q) \cup {item.id} \subseteq Ids(<<item>> \o q)
  <2>1. \A i \in DOMAIN q : q[i].id \in Ids(<<item>> \o q)
    <3> TAKE i \in DOMAIN q
    <3>1. i + 1 \in DOMAIN (<<item>> \o q) /\ (<<item>> \o q)[i + 1] = q[i]
      BY <1>1, <1>2
    <3>2. QED
      BY <3>1 DEF Ids
  <2>2. item.id \in Ids(<<item>> \o q)
    BY <1>1, <1>2 DEF Ids
  <2>3. QED
    BY <2>1, <2>2 DEF Ids
<1>5. QED
  BY <1>3, <1>4

(* A withdrawn queue withdraws its promises.                               *)
LEMMA WithdrawnPrompts ==
  ASSUME NoPromptLost, accepted \subseteq Prompts, queue' = <<>>, accepted' = accepted \ Ids(queue)
  PROVE  PromptInv'
<1>1. accepted' = {}
  BY DEF NoPromptLost
<1>2. QED
  BY <1>1 DEF PromptInv, NoPromptLost, Anonymous

(* Requests keep every promise made before, and make theirs good.          *)
LEMMA PromptRequest ==
  ASSUME TypeInv, PromptInv, Request
  PROVE  PromptInv'
<1>1. /\ goal \in Goal /\ queue \in Seq(Item) /\ accepted \subseteq Prompts
      /\ TypeOK /\ accepted \subseteq Ids(queue) /\ Anonymous(queue) /\ NoPromptLost
  BY DEF TypeInv, TypeOK, PromptInv, NoPromptLost
<1>2. CASE UNCHANGED <<queue, accepted>>
  BY <1>2 DEF PromptInv, NoPromptLost, Anonymous, Ids
<1>3. ASSUME accepted' \subseteq Ids(queue'), accepted' \subseteq Prompts, Anonymous(queue')
      PROVE  PromptInv'
  BY <1>3 DEF PromptInv, NoPromptLost, Anonymous, Ids
<1>4. ASSUME NEW p \in Prompts, NEW kind \in {"prompt", "schedule"}, NEW m \in RequestModes,
             NEW withGoal \in BOOLEAN, Start(p, kind, m, withGoal)
      PROVE  PromptInv'
  <2>1. CASE \E new \in FreeTurns : StartIdle(p, kind, m, withGoal, new)
    BY <1>2, <2>1 DEF StartIdle
  <2>2. ASSUME StartQueued(p, kind, m, withGoal) PROVE PromptInv'
    <3> DEFINE g == GoalOfRequest(withGoal, permission)
               item == SubmittedItem(p, kind, m, g)
    <3>1. \/ UNCHANGED <<queue, accepted>>
          \/ queue' = Append(queue, item) /\ accepted' = accepted \cup {p}
      BY <2>2 DEF StartQueued
    <3>2. g \in Goal
      BY <1>1, GoalRules DEF GoalOfRequest, TypeOK
    <3>3. item \in Item /\ item.kind = kind
      BY <3>2, SubmittedItemType DEF Kinds
    <3>4. item.id = p
      BY DEF SubmittedItem, Recorded, NewItem
    <3> HIDE DEF item
    <3>5. /\ Anonymous(Append(queue, item))
          /\ Ids(queue) \cup {p} \subseteq Ids(Append(queue, item))
      BY <1>1, <1>4, <3>3, <3>4, AppendKeepsPrompts
    <3>6. CASE queue' = Append(queue, item) /\ accepted' = accepted \cup {p}
      BY <1>1, <1>3, <3>5, <3>6
    <3>7. QED
      BY <1>2, <3>1, <3>6
  <2>3. QED
    BY <1>4, <2>1, <2>2 DEF Start
<1>5. CASE StartTurn
  <2>1. PICK p \in Prompts, m \in RequestModes :
          Start(p, "prompt", m, FALSE) \/ Start(p, "prompt", m, TRUE)
          \/ Start(p, "schedule", m, FALSE)
    BY <1>5 DEF StartTurn, FreePrompts
  <2>2. QED
    BY <1>4, <2>1
<1>6. CASE CancelQueuedTurn
  <2>1. PICK i \in DOMAIN queue : queue' = Without(queue, i) /\ accepted' = accepted \ {queue[i].id}
    BY <1>6 DEF CancelQueuedTurn
  <2>2. QED
    BY <1>1, <1>3, <2>1, WithoutKeepsPrompts
<1>7. ASSUME NEW id \in Prompts \cup {NoPrompt}, NEW m \in RequestModes \cup {"inherit"},
             NEW rest \in Seq(Item), Anonymous(rest), accepted \subseteq Ids(rest) \cup {id},
             GuideQueues(id, m, rest)
      PROVE  PromptInv'
  <2> DEFINE item == GuideItem(id, m)
  <2>1. queue' = <<item>> \o rest /\ accepted' = accepted \cup ({id} \cap Prompts)
    BY <1>7 DEF GuideQueues
  <2>2. item \in Item /\ item.kind = "guide" /\ item.id = id
    BY <1>1, GuideItemType DEF GuideItem, NewItem
  <2> HIDE DEF item
  <2>3. /\ Anonymous(<<item>> \o rest)
        /\ Ids(rest) \cup {id} \subseteq Ids(<<item>> \o rest)
    BY <1>7, <2>2, PrependKeepsPrompts
  <2>4. accepted' \subseteq Prompts /\ accepted' \subseteq Ids(queue')
    BY <1>1, <1>7, <2>1, <2>3
  <2>5. QED
    BY <1>3, <2>1, <2>3, <2>4
<1>8. CASE GuideTurn
  <2>1. PICK m \in RequestModes \cup {"inherit"} :
          \/ \E i \in {j \in DOMAIN queue : queue[j].kind # "guide"} :
               \/ GuideQueues(queue[i].id, m, Without(queue, i))
               \/ GuideStops({queue[i].id}, Without(queue, i))
          \/ \/ \E p \in FreePrompts : GuideQueues(p, m, queue)
             \/ GuideStops({}, queue)
    BY <1>8 DEF GuideTurn
  <2>2. \A i \in DOMAIN queue : queue[i].id \in Prompts \cup {NoPrompt}
    <3>1. \A i \in DOMAIN queue : queue[i] \in Item
      BY <1>1
    <3>2. QED
      BY <3>1 DEF Item
  <2>3. FreePrompts \subseteq Prompts
    BY DEF FreePrompts
  <2>4. ASSUME NEW i \in DOMAIN queue
        PROVE  /\ Without(queue, i) \in Seq(Item) /\ Anonymous(Without(queue, i))
               /\ accepted \subseteq Ids(Without(queue, i)) \cup {queue[i].id}
    BY <1>1, WithoutKeepsPrompts
  <2>5. ASSUME NEW i \in DOMAIN queue, GuideStops({queue[i].id}, Without(queue, i))
        PROVE  PromptInv'
    BY <1>1, <1>3, <2>4, <2>5 DEF GuideStops
  <2>6. CASE GuideStops({}, queue)
    BY <1>2, <2>6 DEF GuideStops
  <2>7. ASSUME NEW i \in DOMAIN queue, GuideQueues(queue[i].id, m, Without(queue, i))
        PROVE  PromptInv'
    BY <1>7, <2>2, <2>4, <2>7
  <2>8. ASSUME NEW p \in FreePrompts, GuideQueues(p, m, queue)
        PROVE  PromptInv'
    BY <1>1, <1>7, <2>3, <2>8
  <2>9. QED
    BY <2>1, <2>5, <2>6, <2>7, <2>8
<1>9. CASE InvalidateModel \/ CancelWork
  BY <1>1, <1>2, <1>9, WithdrawnPrompts DEF InvalidateModel, CancelWork
<1>10. CASE Dispose
  BY <1>3, <1>10 DEF Dispose, Anonymous
<1>11. CASE \/ RefuseIdleStart \/ InterruptTurn \/ Ask \/ Answer \/ StopRead \/ EnableStage
            \/ ResumeStage \/ (\E g \in Groups : GroupNotes(g)) \/ RepairModel \/ ToggleGate
  BY <1>2, <1>11 DEF RefuseIdleStart, StartIdleRefused, InterruptTurn, Ask, Answer, StopRead,
       EnableStage, ResumeStage, GroupNotes, RepairModel, ToggleGate
<1>12. QED
  BY <1>5, <1>6, <1>8, <1>9, <1>10, <1>11 DEF Request

(* Revoking a queue keeps its identities.                                  *)
LEMMA RevokeAllKeepsPrompts ==
  ASSUME NEW q \in Seq(Item), NEW mode \in Modes, Anonymous(q)
  PROVE  Anonymous(RevokeAll(q, mode)) /\ Ids(RevokeAll(q, mode)) = Ids(q)
<1>1. /\ DOMAIN RevokeAll(q, mode) = DOMAIN q
      /\ \A i \in DOMAIN q : /\ RevokeAll(q, mode)[i].kind = q[i].kind
                             /\ RevokeAll(q, mode)[i].id = q[i].id
  BY RevokeAllKeeps DEF RevokeAll
<1>2. QED
  BY <1>1 DEF Anonymous, Ids

(* A host continuation carries no client's prompt.                         *)
LEMMA ContinueItemKeepsPrompts ==
  ASSUME NEW q \in Seq(Item), Anonymous(q)
  PROVE  Anonymous(Append(q, ContinueItem)) /\ Ids(q) \subseteq Ids(Append(q, ContinueItem))
<1>1. ContinueItem \in Item /\ ContinueItem.id = NoPrompt
  <2>1. NoPrompt \in Prompts \cup {NoPrompt} /\ "goal-continue" \in Kinds /\ "fullAccess" \in Modes
    BY DEF Kinds, Modes
  <2>2. QED
    BY <2>1, NewItemType DEF ContinueItem, NewItem
<1>2. QED
  BY <1>1, AppendKeepsPrompts

(* What a resume takes from the queue after its reload begins, or is a     *)
(* continuation of the host.                                               *)
LEMMA ResumeTakesKeepsPrompts ==
  ASSUME TypeInv, DisposedIsQuiet, PromptInv, ResumesFreely, GateFree,
         control.stage = "prepare", ResumeTakes
  PROVE  PromptInv'
<1> DEFINE left == Drainable(queue, goal)
           next == Elevated(Head(left), goal)
<1>1. /\ goal \in Goal /\ queue \in Seq(Item) /\ accepted \subseteq Prompts
      /\ accepted \subseteq Ids(queue) /\ Anonymous(queue)
  BY DEF TypeInv, TypeOK, PromptInv, NoPromptLost
<1>2. /\ left \in Seq(Item) /\ Anonymous(left) /\ Ids(queue) \subseteq Ids(left) \cup {NoPrompt}
      /\ queue = <<>> => left = <<>>
  BY <1>1, DrainableKeeps, DrainableKeepsPrompts
<1>3. accepted \subseteq Ids(left)
  BY <1>1, <1>2, BoundsAssumption
<1>4. queue' = IF HeadReady(left) THEN Tail(left) ELSE left
  BY DEF ResumeTakes
<1>5. \/ /\ HeadReady(left) /\ ~running /\ CanBegin(next, goal, FALSE)
         /\ accepted' = accepted \ {next.id}
      \/ /\ ~(HeadReady(left) /\ ~running /\ CanBegin(next, goal, FALSE))
         /\ accepted' = accepted
  BY DEF ResumeTakes
<1>6. HeadReady(left) => left # <<>> /\ ~Head(left).confirm
  BY DEF HeadReady
<1> HIDE DEF left
<1>7. ASSUME accepted' \subseteq Ids(queue'), Anonymous(queue') PROVE PromptInv'
  BY <1>1, <1>5, <1>7 DEF PromptInv, NoPromptLost, Anonymous, Ids
<1>8. CASE ~HeadReady(left)
  BY <1>2, <1>3, <1>4, <1>5, <1>7, <1>8
<1>9. CASE HeadReady(left)
  <2>1. /\ Tail(left) \in Seq(Item) /\ Anonymous(Tail(left)) /\ Head(left) \in Item
        /\ Ids(left) \subseteq Ids(Tail(left)) \cup {Head(left).id}
        /\ Head(left).kind = "goal-continue" => Head(left).id = NoPrompt
    BY <1>2, <1>6, <1>9, TailKeepsPrompts
  <2>2. /\ next.id = Head(left).id /\ next.kind = Head(left).kind
        /\ next.confirm = Head(left).confirm
    BY <2>1, ElevatedKeeps
  <2>3. ~disposed
    BY <1>2, <1>6, <1>9 DEF DisposedIsQuiet
  <2>4. ~running /\ quarantinedTurnId = NoTurn /\ ~gate
    BY <2>3 DEF ResumesFreely, GateFree
  <2>5. CASE CanBegin(next, goal, FALSE)
    BY <1>3, <1>4, <1>5, <1>7, <1>9, <2>1, <2>2, <2>4, <2>5
  <2>6. CASE ~CanBegin(next, goal, FALSE)
    <3>1. next.kind = "goal-continue"
      BY <1>6, <1>9, <2>2, <2>3, <2>4, <2>6 DEF CanBegin
    <3>2. NoPrompt \notin accepted /\ accepted' = accepted
      BY <1>1, <1>5, <2>6, BoundsAssumption
    <3>3. QED
      BY <1>3, <1>4, <1>7, <1>9, <2>1, <2>2, <3>1, <3>2
  <2>7. QED
    BY <2>5, <2>6
<1>10. QED
  BY <1>8, <1>9

(* The Goal controls keep every promise.                                   *)
LEMMA PromptControl ==
  ASSUME TypeInv, DisposedIsQuiet, PromptInv, ResumesFreely, Freedoms, ResumesAlone, ControlStep
  PROVE  PromptInv'
<1>1. /\ goal \in Goal /\ queue \in Seq(Item) /\ accepted \subseteq Prompts
      /\ accepted \subseteq Ids(queue) /\ Anonymous(queue) /\ NoPromptLost
  BY DEF TypeInv, TypeOK, PromptInv, NoPromptLost
<1>2. CASE UNCHANGED <<queue, accepted>>
  BY <1>2 DEF PromptInv, NoPromptLost, Anonymous, Ids
<1>3. ASSUME UNCHANGED accepted, Anonymous(queue'), Ids(queue) \subseteq Ids(queue') \cup {NoPrompt}
      PROVE  PromptInv'
  <2>1. accepted' \subseteq Prompts /\ accepted' \subseteq Ids(queue')
    BY <1>1, <1>3, BoundsAssumption
  <2>2. QED
    BY <1>3, <2>1 DEF PromptInv, NoPromptLost, Anonymous, Ids
<1>4. CASE StopApply
  <2> DEFINE kept == DropContinues(queue)
  <2>1. kept \in Seq(Item) /\ Anonymous(kept) /\ Ids(queue) \subseteq Ids(kept) \cup {NoPrompt}
    BY <1>1, DropContinuesLeavesNone, DropContinuesKeepsPrompts
  <2>2. UNCHANGED accepted /\ queue' = IF goal.on THEN RevokeAll(kept, goal.previous) ELSE kept
    BY <1>4 DEF StopApply
  <2>3. goal.previous \in Modes
    BY <1>1 DEF Goal
  <2> HIDE DEF kept
  <2>4. Anonymous(RevokeAll(kept, goal.previous)) /\ Ids(RevokeAll(kept, goal.previous)) = Ids(kept)
    BY <2>1, <2>3, RevokeAllKeepsPrompts
  <2>5. QED
    BY <1>3, <2>1, <2>2, <2>4
<1>5. CASE ResumeQueues
  BY <1>1, <1>2, <1>3, <1>5, ContinueItemKeepsPrompts DEF ResumeQueues
<1>6. CASE ResumePrepared
  <2>1. GateFree /\ control.stage = "prepare"
    BY <1>6 DEF ResumePrepared, Freedoms, ResumesAlone, GoalFree, NoControl
  <2>2. CASE ReloadCancelsQueue
    BY <1>1, <2>2, WithdrawnPrompts DEF ReloadCancelsQueue
  <2>3. CASE ResumeTakes
    BY <2>1, <2>3, ResumeTakesKeepsPrompts
  <2>4. QED
    BY <1>6, <2>2, <2>3 DEF ResumePrepared
<1>7. CASE StopReturns \/ GoalCommit \/ GoalCommitFails \/ EnableStarts
  BY <1>2, <1>7 DEF StopReturns, GoalCommit, GoalCommitFails, EnableStarts
<1>8. QED
  BY <1>4, <1>5, <1>6, <1>7 DEF ControlStep

(* The queue that a finished turn leaves holds every client's prompt.      *)
LEMMA GoalAfterKeepsPrompts ==
  ASSUME TypeOK, NEW t \in Turns, Anonymous(queue)
  PROVE  /\ Anonymous(GoalAndQueueAfter(t)[2])
         /\ Ids(queue) \subseteq Ids(GoalAndQueueAfter(t)[2]) \cup {NoPrompt}
<1> DEFINE g == AfterTurn(goal, status, claimed)
           q == IF goal.on /\ status = "interrupted" THEN DropContinues(queue) ELSE queue
<1>1. queue \in Seq(Item)
  BY DEF TypeOK
<1>2. q \in Seq(Item) /\ Anonymous(q) /\ Ids(queue) \subseteq Ids(q) \cup {NoPrompt}
  BY <1>1, DropContinuesLeavesNone, DropContinuesKeepsPrompts
<1>3. GoalAndQueueAfter(t)[2] = HostContinues(t, g, q)[2]
  BY DEF GoalAndQueueAfter
<1> HIDE DEF q, g
<1>4. \/ HostContinues(t, g, q)[2] = q
      \/ HostContinues(t, g, q)[2] = DropContinues(q)
      \/ HostContinues(t, g, q)[2] = Append(q, ContinueItem)
  BY DEF HostContinues
<1>5. QED
  BY <1>2, <1>3, <1>4, DropContinuesKeepsPrompts, ContinueItemKeepsPrompts

(* A turn's own steps keep every promise.                                  *)
LEMMA PromptTurn ==
  ASSUME TypeInv, DisposedIsQuiet, PromptInv, SettlesFreely, NEW t \in Turns, TurnStep(t)
  PROVE  PromptInv'
<1>1. /\ goal \in Goal /\ queue \in Seq(Item) /\ accepted \subseteq Prompts /\ TypeOK
      /\ accepted \subseteq Ids(queue) /\ Anonymous(queue) /\ unresolved \in BOOLEAN
  BY DEF TypeInv, TypeOK, PromptInv, NoPromptLost
<1>2. CASE UNCHANGED <<queue, accepted>>
  BY <1>2 DEF PromptInv, NoPromptLost, Anonymous, Ids
<1>3. ASSUME accepted' \subseteq Ids(queue'), accepted' \subseteq accepted, Anonymous(queue')
      PROVE  PromptInv'
  BY <1>1, <1>3 DEF PromptInv, NoPromptLost, Anonymous, Ids
<1>4. ASSUME NEW may, NEW g, NEW q, NEW bad, NEW waiting, Finish(t, may, g, q, bad, waiting)
      PROVE  accepted' \subseteq waiting
  BY <1>4 DEF Finish
<1>5. CASE DraftEnds(t)
  <2> DEFINE after == GoalAndQueueAfter(t)
  <2>1. after[1] \in Goal /\ after[2] \in Seq(Item)
    BY <1>1, GoalAfterType
  <2>2. Anonymous(after[2]) /\ Ids(queue) \subseteq Ids(after[2]) \cup {NoPrompt}
    BY <1>1, GoalAfterKeepsPrompts
  <2>3. \/ Finish(t, FALSE, after[1], after[2], unresolved, accepted)
        \/ queue' = after[2] /\ UNCHANGED accepted
    BY <1>5 DEF DraftEnds
  <2> HIDE DEF after
  <2>4. accepted \subseteq Ids(after[2])
    BY <1>1, <2>2, BoundsAssumption
  <2>5. CASE Finish(t, FALSE, after[1], after[2], unresolved, accepted)
    <3>1. accepted' \subseteq Ids(queue') /\ Anonymous(queue')
      BY <1>1, <2>1, <2>2, <2>4, <2>5, FinishKeepsPrompts
    <3>2. QED
      BY <1>3, <1>4, <2>5, <3>1
  <2>6. QED
    BY <1>3, <2>2, <2>3, <2>4, <2>5
<1>6. CASE PrepareEnds(t)
  <2>1. quarantinedTurnId = NoTurn /\ (disposed => queue = <<>>)
    BY <1>6 DEF PrepareEnds, SettlesFreely, DisposedIsQuiet
  <2>2. CASE Finish(t, TRUE, goal, queue, FALSE, accepted)
    <3>1. accepted' \subseteq Ids(queue') /\ Anonymous(queue')
      BY <1>1, <2>1, <2>2, FinishKeepsPrompts
    <3>2. QED
      BY <1>3, <1>4, <2>2, <3>1
  <2>3. CASE Finish(t, FALSE, goal, <<>>, TRUE, accepted \ Ids(queue))
    <3>1. accepted' = {} /\ queue' = <<>>
      BY <1>1, <1>4, <2>3 DEF Finish
    <3>2. QED
      BY <1>3, <3>1 DEF Anonymous
  <2>4. QED
    BY <1>6, <2>2, <2>3 DEF PrepareEnds
<1>7. CASE \/ FirstRound(t) \/ NextRound(t) \/ RunEnds(t) \/ RecordEnds(t) \/ SaveEnds(t)
  BY <1>2, <1>7 DEF FirstRound, NextRound, RunEnds, RecordEnds, SaveEnds
<1>8. QED
  BY <1>5, <1>6, <1>7 DEF TurnStep

(* Every step keeps every promise.                                         *)
LEMMA PromptStep ==
  ASSUME TypeInv, DisposedIsQuiet, PromptInv, SettlesFreely, ResumesFreely, Freedoms,
         ResumesAlone, [Next]_vars
  PROVE  PromptInv'
<1>1. NoPromptLost /\ accepted \subseteq Prompts
  BY DEF PromptInv
<1>2. CASE UNCHANGED <<queue, accepted>>
  BY <1>2 DEF PromptInv, NoPromptLost, Anonymous, Ids
<1>3. CASE Request
  BY <1>3, PromptRequest
<1>4. CASE ControlStep
  BY <1>4, PromptControl
<1>5. ASSUME NEW t \in Turns, TurnStep(t) PROVE PromptInv'
  BY <1>5, PromptTurn
<1>6. CASE (\E g \in Groups : GroupWakes(g)) \/ ForceSettle \/ IdleTimerFires
  BY <1>2, <1>6 DEF GroupWakes, ForceSettle, IdleTimerFires
<1>7. CASE WakePrepared
  <2>1. UNCHANGED <<queue, accepted>> \/ ReloadCancelsQueue
    BY <1>7 DEF WakePrepared
  <2>2. CASE ReloadCancelsQueue
    BY <1>1, <2>2, WithdrawnPrompts DEF ReloadCancelsQueue
  <2>3. QED
    BY <1>2, <2>1, <2>2
<1>8. CASE UNCHANGED vars
  BY <1>2, <1>8 DEF vars
<1>9. QED
  BY <1>3, <1>4, <1>5, <1>6, <1>7, <1>8 DEF Next

(* Each exclusion about what the environment does not do holds on.         *)
LEMMA FreedomsStep ==
  ASSUME TypeInv, Freedoms, [Next]_vars
  PROVE  Freedoms'
<1>1. TypeOK
  BY DEF TypeInv
<1>2. /\ "goal" \notin Ops => GoalFree'
      /\ "wake" \notin Ops => WakeFree'
      /\ "gate" \notin Ops => GateFree'
  BY <1>1, GoalFreeStep, WakeFreeStep, GateFreeStep DEF Freedoms
<1>3. QED
  BY <1>2 DEF Freedoms

(* No prompt a client was told is queued disappears: runTurnInBackground's *)
(* tail and resumeGoal take an item from the queue only when it can begin, *)
(* and every other removal withdraws it with an event.  A resume's reload  *)
(* must not be overtaken by a wake-up or by maintenance, and a turn must   *)
(* not be quarantined while it settles.                                    *)
THEOREM PromptsAreKept == ResumesAlone /\ SettlesInTime /\ Spec => []NoPromptLost
<1> SUFFICES ASSUME ResumesAlone, SettlesInTime PROVE Spec => []NoPromptLost
  OBVIOUS
<1> DEFINE Promises == /\ TypeInv /\ OneLiveInv /\ DisposedIsQuiet
                       /\ SettlesFreely /\ Armed /\ ResumesFreely /\ Freedoms /\ PromptInv
<1>1. Init => Promises
  <2> SUFFICES ASSUME Init PROVE Promises
    OBVIOUS
  <2>1. \A t \in Turns : turn[t].pc = "idle"
    BY DEF Init, IdleTurn
  <2>2. OneLiveInv
    BY <2>1, ConstantTypes DEF Init, OneLiveInv, TurnsTyped, OneLiveRun, LiveIsRunning, Live
  <2>3. Freedoms
    BY <2>1 DEF Init, Freedoms, GoalFree, WakeFree, GateFree, NoGoal
  <2>4. DisposedIsQuiet /\ SettlesFreely /\ Armed /\ ResumesFreely
    BY DEF Init, DisposedIsQuiet, SettlesFreely, Armed, ResumesFreely, NoTimer, NoControl
  <2>5. PromptInv
    BY DEF Init, PromptInv, NoPromptLost, Anonymous
  <2>6. QED
    BY <2>2, <2>3, <2>4, <2>5, TypeInit
<1>2. Promises /\ [Next]_vars => Promises'
  <2> SUFFICES ASSUME Promises, [Next]_vars PROVE Promises'
    OBVIOUS
  <2>1. TypeInv' /\ DisposedIsQuiet' /\ Freedoms'
    BY TypeStep, DisposedStep, FreedomsStep
  <2>2. OneLiveInv'
    BY OneLiveStep
  <2>3. SettlesFreely' /\ Armed'
    BY <2>2, SettlesFreelyStep
  <2>4. ResumesFreely'
    BY ResumesFreelyStep
  <2>5. PromptInv'
    BY PromptStep
  <2> QED
    BY <2>1, <2>2, <2>3, <2>4, <2>5
<1>3. Promises => NoPromptLost
  BY DEF PromptInv
<1> HIDE DEF Promises
<1>4. QED
  BY <1>1, <1>2, <1>3, PTL DEF Spec
===============================================================================
