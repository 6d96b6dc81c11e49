------------------------------ MODULE QueueItems ------------------------------
(***************************************************************************)
(* The queued-prompt records of one dashboard session and the Goal record, *)
(* with the pure rules that read and rewrite them: who may run with full   *)
(* access, what a stopped Goal takes back from the queue, which item is    *)
(* taken next, and what a finished turn does to the Goal.                  *)
(*                                                                         *)
(* Nothing here is state; TurnQueue applies these operators to its         *)
(* variables.                                                              *)
(***************************************************************************)
EXTENDS Naturals, Sequences

CONSTANTS Prompts,       \* identities of the prompts clients submit
          NoPrompt,      \* the identity of an item no client submitted
          MaxQueue,      \* MAX_QUEUE: user-visible items a session may hold
          MaxContinues   \* the session's auto-continue budget

ASSUME BoundsAssumption == /\ NoPrompt \notin Prompts
                           /\ MaxQueue \in Nat
                           /\ MaxContinues \in Nat \ {0}

Modes == {"plan", "workspace", "fullAccess"}

Kinds == {"prompt", "guide", "schedule", "wakeup", "goal-continue"}

(***************************************************************************)
(* mode, source, requested and confirm are the item's permissionMode,      *)
(* permissionSource, requestedPermissionMode and                           *)
(* requiresPermissionConfirmation.  asked is not in the code: it remembers *)
(* the mode the client itself asked for, and no rule below reads it.       *)
(***************************************************************************)
Item == [id : Prompts \cup {NoPrompt}, kind : Kinds, mode : Modes,
         source : {"none", "request", "goal"},
         requested : Modes \cup {"none"}, confirm : BOOLEAN,
         asked : Modes \cup {"none"}]

NewItem(id, kind, mode, asked) ==
  [id |-> id, kind |-> kind, mode |-> mode, source |-> "none",
   requested |-> "none", confirm |-> FALSE, asked |-> asked]

GoalStatus == {"off", "active", "running", "paused", "complete", "failed"}

Goal == [on : BOOLEAN, status : GoalStatus, continues : 0..MaxContinues,
         failures : 0..3, previous : Modes]

NoGoal == [on |-> FALSE, status |-> "off", continues |-> 0, failures |-> 0,
           previous |-> "plan"]

NewGoal(previous) == [on |-> TRUE, status |-> "active", continues |-> 0,
                      failures |-> 0, previous |-> previous]

Elevates(g) == g.on /\ g.status \in {"active", "running"}

(***************************************************************************)
(* Permission bookkeeping.                                                 *)
(***************************************************************************)
Recorded(item, g, mode) ==
  LET source == IF Elevates(g) THEN "goal" ELSE "request"
  IN  IF item.kind = "schedule" THEN item
      ELSE [item EXCEPT !.source = source,
                        !.requested = IF source = "request" \/ mode # "fullAccess"
                                        THEN mode ELSE @]

Elevated(item, g) ==
  IF \/ ~Elevates(g)
     \/ item.kind = "schedule"
     \/ item.source = "request" /\ item.mode = "fullAccess"
    THEN item
    ELSE [item EXCEPT !.requested = IF item.source # "goal" /\ item.mode # "fullAccess"
                                      THEN item.mode ELSE @,
                      !.source = "goal", !.mode = "fullAccess"]

Revoked(item, fallback) ==
  CASE item.kind = "schedule" \/ item.source = "request" -> item
    [] item.kind # "schedule" /\ item.source = "goal" /\ item.requested # "none" ->
         [item EXCEPT !.mode = item.requested, !.source = "request"]
    [] OTHER -> IF item.mode # "fullAccess" THEN item
                ELSE [item EXCEPT !.mode = fallback, !.confirm = TRUE]

RevokeAll(q, fallback) == [i \in DOMAIN q |-> Revoked(q[i], fallback)]

(***************************************************************************)
(* Queue discipline.                                                       *)
(***************************************************************************)
Has(q, kinds) == \E i \in DOMAIN q : q[i].kind \in kinds

Ids(q) == {q[i].id : i \in DOMAIN q}

(* The queue without its host continuations: kept[n] is what is left of    *)
(* the first n items.                                                      *)
DropContinues(q) ==
  LET kept[n \in 0..Len(q)] ==
        IF n = 0 THEN <<>>
        ELSE IF q[n].kind = "goal-continue" THEN kept[n - 1]
        ELSE Append(kept[n - 1], q[n])
  IN  kept[Len(q)]

UserVisible(q) == Len(DropContinues(q))

HasCapacity(q) == UserVisible(q) < MaxQueue

(* A variant: a paused Goal leaves its elevation.                          *)
DrainableElevated(q, g) ==
  IF Has(q, {"guide", "prompt", "wakeup", "schedule"}) THEN DropContinues(q) ELSE q

(* The queue takeNextQueueItem looks at: elevation a paused Goal no longer *)
(* gives is taken back, and user work displaces host continuations.        *)
Drainable(q, g) ==
  LET kept == IF g.on /\ ~Elevates(g) THEN RevokeAll(q, g.previous) ELSE q
  IN  IF Has(kept, {"guide", "prompt", "wakeup", "schedule"})
        THEN DropContinues(kept) ELSE kept

HeadReady(q) == q # <<>> /\ ~Head(q).confirm

ContinueItem == NewItem(NoPrompt, "goal-continue", "fullAccess", "none")

(***************************************************************************)
(* What a finished turn does to the Goal, and whether the host continues.  *)
(***************************************************************************)
AfterTurn(g, outcome, claimed) ==
  CASE ~g.on -> g
    [] g.on /\ outcome \in {"interrupted", "blocked", "cancelled"} ->
         [g EXCEPT !.status = "paused"]
    [] g.on /\ outcome = "failed" ->
         LET n == IF g.failures < 3 THEN g.failures + 1 ELSE 3
         IN  [g EXCEPT !.failures = n,
                       !.status = IF n >= 3 THEN "failed" ELSE "paused"]
    [] g.on /\ outcome = "completed" ->
         [g EXCEPT !.failures = 0,
                   !.status = CASE claimed -> "complete"
                                [] ~claimed /\ g.status # "paused" -> "active"
                                [] OTHER -> @]
    [] OTHER -> g

(* A variant: one continuation too many.                                   *)
OutOfBudgetLate(g) == g.continues > MaxContinues

OutOfBudget(g) == g.continues >= MaxContinues

Continuing(g) == [g EXCEPT !.continues = @ + 1, !.status = "running"]

Exhausted(g) == IF g.on /\ OutOfBudget(g) THEN [g EXCEPT !.status = "paused"] ELSE g

===============================================================================
