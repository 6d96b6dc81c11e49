------------------------------- MODULE TurnQueue -------------------------------
(***************************************************************************)
(* The turn engine of one dashboard session: submitting, queueing,         *)
(* interrupting, guiding and settling turns, the Goal loop, the wake-up of *)
(* an idle session by background work, the model-selection guard, the      *)
(* source-update gate and the disposal of the session.                     *)
(*                                                                         *)
(* The engine is single-threaded JavaScript: an action is one stretch of   *)
(* code between two awaits (or one timer callback, or one synchronous      *)
(* request handler), and the awaits are where everything else interleaves. *)
(* A turn walks through                                                    *)
(*     start -> run -> record -> draft -> prepare -> save -> idle          *)
(* which are the awaits of runTurnInBackground: runTurn up to its first    *)
(* model call and after it, the schedule record,                           *)
(* persistVisibleInterruptedDraft, the configuration reload, and           *)
(* persistGoalSnapshot.                                                    *)
(***************************************************************************)
EXTENDS QueueItems

CONSTANTS Turns,         \* turn identities; one is free again once its turn is over
          NoTurn,        \* the empty turn id, and the null controller
          Groups,        \* background task groups that may wake the session
          RequestModes,  \* permission modes clients ask for
          Ops,           \* the operations the environment of this instance performs
          SlowSettle,    \* may settling outlast the force-settle timer?
          MaxContinuations  \* bound: host continuations a resume may find queued

ASSUME TurnAssumption == /\ NoTurn \notin Turns
                         /\ RequestModes \subseteq Modes
                         /\ SlowSettle \in BOOLEAN
                         /\ MaxContinuations \in Nat

VARIABLES
  disposed,           \* the session left the active map
  running,            \* state.running
  interrupting,       \* state.interrupting
  status,             \* state.status
  currentTurnId,      \* state.currentTurnId
  controller,         \* the turn whose AbortController state.controller is
  quarantinedTurnId,  \* state.quarantinedTurnId
  forceSettle,        \* state.forceSettleTimer: its turn, and whether it is set or has fired
  currentMode,        \* state.currentPermissionMode
  permission,         \* state.session.permissionMode
  queue,              \* state.queuedPrompts
  goal,               \* state.session.goal
  claimed,            \* the last output carries an accepted completion claim
  turn,               \* per turn: where its coroutine is, why it was aborted, ...
  asks,               \* pendingApprovals and pendingQuestions, by who asked
  handoffs,           \* wake-batch: groups whose hand-off the session has not consumed
  group,              \* per background group: how far its completion has been announced
  reports,            \* history: how often a group's report was injected
  idleTimer,          \* wake-batch: the coalescing timer of an idle session
  waking,             \* wake continuations suspended in their configuration reload
  gate,               \* workAdmissionBlocked(): source-update maintenance is held
  unresolved,         \* modelSelectionInvalidation.status = "unresolved"
  control,            \* the Goal control request holding the session lock
  accepted,           \* history: submitted prompts a client was told are queued
  warrant             \* history: what justifies full access in currentMode

engineVars == <<disposed, running, interrupting, status, currentTurnId, controller,
                quarantinedTurnId, forceSettle, currentMode, warrant>>
wakeVars == <<handoffs, group, reports>>
vars == <<engineVars, permission, queue, goal, claimed, turn, asks, wakeVars,
          idleTimer, waking, gate, unresolved, control, accepted>>

Outcomes == {"completed", "failed", "blocked", "cancelled", "guided", "interrupted"}

Statuses == Outcomes \cup {"idle", "running", "interrupting", "quarantined"}

TurnState == [pc : {"idle", "start", "run", "record", "draft", "prepare", "save"},
              abort : {"none", "user", "guided"},
              wasQuarantined : BOOLEAN, startedNext : BOOLEAN]

ControlState == [stage : {"none", "stopRead", "stopWrite", "staged", "published", "prepare"},
                 op : {"none", "enable", "resume", "pause", "disable"},
                 goal : Goal, mode : Modes]

TimerState == [turn : Turns \cup {NoTurn}, timer : {"none", "armed", "fired"}]

(* At most two wake continuations are suspended at a time in this model.   *)
WakingCount == 0..2

IdleTurn == [pc |-> "idle", abort |-> "none", wasQuarantined |-> FALSE,
             startedNext |-> FALSE]

NoTimer == [turn |-> NoTurn, timer |-> "none"]

FiredTimer == [turn |-> NoTurn, timer |-> "fired"]

NoControl == [stage |-> "none", op |-> "none", goal |-> NoGoal, mode |-> "plan"]

TypeOK ==
  /\ disposed \in BOOLEAN
  /\ running \in BOOLEAN
  /\ interrupting \in BOOLEAN
  /\ status \in Statuses
  /\ currentTurnId \in Turns \cup {NoTurn}
  /\ controller \in Turns \cup {NoTurn}
  /\ quarantinedTurnId \in Turns \cup {NoTurn}
  /\ forceSettle \in TimerState
  /\ currentMode \in Modes
  /\ permission \in Modes
  /\ queue \in Seq(Item)
  /\ goal \in Goal
  /\ claimed \in BOOLEAN
  /\ turn \in [Turns -> TurnState]
  /\ asks \subseteq {"foreground", "background"}
  /\ handoffs \subseteq Groups
  /\ group \in [Groups -> {"working", "noted", "done"}]
  /\ reports \in [Groups -> 0..2]
  /\ idleTimer \in BOOLEAN
  /\ waking \in WakingCount
  /\ gate \in BOOLEAN
  /\ unresolved \in BOOLEAN
  /\ control \in ControlState
  /\ accepted \subseteq Prompts
  /\ warrant \in {"user", "schedule", "goal", "none"}

Init ==
  /\ disposed = FALSE
  /\ running = FALSE
  /\ interrupting = FALSE
  /\ status = "idle"
  /\ currentTurnId = NoTurn
  /\ controller = NoTurn
  /\ quarantinedTurnId = NoTurn
  /\ forceSettle = NoTimer
  /\ currentMode = "plan"
  /\ permission = "plan"
  /\ queue = <<>>
  /\ goal = NoGoal
  /\ claimed = FALSE
  /\ turn = [t \in Turns |-> IdleTurn]
  /\ asks = {}
  /\ handoffs = {}
  /\ group = [g \in Groups |-> "working"]
  /\ reports = [g \in Groups |-> 0]
  /\ idleTimer = FALSE
  /\ waking = 0
  /\ gate = FALSE
  /\ unresolved = FALSE
  /\ control = NoControl
  /\ accepted = {}
  /\ warrant = "user"

LockFree == control.stage = "none"

FreeTurns == {t \in Turns : /\ turn[t].pc = "idle"
                            /\ t \notin {currentTurnId, quarantinedTurnId, forceSettle.turn}}

FreePrompts == Prompts \ (accepted \cup Ids(queue))

(* A variant: a turn loses its session with the quarantine.                *)
OwnsTurnUnlessQuarantined(t) ==
  controller = t /\ currentTurnId = t /\ quarantinedTurnId # t

OwnsTurn(t) == controller = t /\ currentTurnId = t

IsCurrentTurn(t) == OwnsTurn(t) /\ quarantinedTurnId # t /\ ~disposed

(***************************************************************************)
(* beginPrompt.  CanBegin is its guard apart from "a turn is running",     *)
(* which every caller knows; g and bad are the Goal and the model          *)
(* invalidation as the caller leaves them.  Begin starts item on the turn  *)
(* id new; others is the turn function with the caller's own changes.      *)
(***************************************************************************)
(* A variant: the gate is not looked at again.                             *)
CanBeginInMaintenance(item, g, bad) ==
  /\ ~disposed /\ ~item.confirm
  /\ item.kind = "goal-continue" => Elevates(g)
  /\ quarantinedTurnId = NoTurn /\ ~bad

CanBegin(item, g, bad) ==
  /\ ~disposed
  /\ ~item.confirm
  /\ item.kind = "goal-continue" => Elevates(g)
  /\ ~gate
  /\ quarantinedTurnId = NoTurn
  /\ ~bad

TurnMode(item) == IF item.kind = "schedule" THEN "fullAccess" ELSE item.mode

(* Who vouches for the mode a turn begins with.                            *)
WarrantOf(item, g) ==
  CASE TurnMode(item) # "fullAccess" -> "user"
    [] item.kind = "schedule" -> "schedule"
    [] item.asked = "fullAccess" -> "user"
    [] item.kind # "schedule" /\ item.asked # "fullAccess" /\ Elevates(g) -> "goal"
    [] item.kind = "wakeup" /\ ~Elevates(g) -> IF warrant = "goal" THEN "none" ELSE warrant
    [] OTHER -> "none"

Begin(item, g, new, others) ==
  /\ running' = TRUE
  /\ interrupting' = FALSE
  /\ status' = "running"
  /\ currentTurnId' = new
  /\ controller' = new
  /\ currentMode' = TurnMode(item)
  /\ permission' = TurnMode(item)
  /\ warrant' = WarrantOf(item, g)
  /\ idleTimer' = FALSE
  /\ turn' = [others EXCEPT ![new] = [IdleTurn EXCEPT !.pc = "start"]]

(***************************************************************************)
(* requestTurnInterrupt and the force-settle timer.                        *)
(***************************************************************************)
Aborted(reason) ==
  IF controller # NoTurn /\ turn[controller].abort = "none"
    THEN [turn EXCEPT ![controller].abort = reason] ELSE turn

(* A variant: guidance sets no timer.                                      *)
RequestInterruptUntimed(reason) ==
  /\ interrupting' = TRUE
  /\ status' = "interrupting"
  /\ asks' = {}
  /\ turn' = Aborted(reason)
  /\ forceSettle' = IF reason = "guided" THEN forceSettle
                    ELSE [turn |-> currentTurnId, timer |-> "armed"]

RequestInterrupt(reason) ==
  /\ interrupting' = TRUE
  /\ status' = "interrupting"
  /\ asks' = {}
  /\ turn' = Aborted(reason)
  /\ forceSettle' = IF currentTurnId = NoTurn THEN NoTimer
                    ELSE [turn |-> currentTurnId, timer |-> "armed"]

(* A variant: the timer gives the session back at once.                    *)
ForceSettleReleases ==
  /\ forceSettle.timer = "armed"
  /\ running' = FALSE
  /\ forceSettle' = NoTimer
  /\ UNCHANGED <<disposed, interrupting, status, currentTurnId, controller,
                 quarantinedTurnId, currentMode, warrant, permission, queue, goal, claimed,
                 turn, asks, wakeVars, idleTimer, waking, gate, unresolved, control,
                 accepted>>

(* Without SlowSettle the settling steps are assumed to finish before the  *)
(* timer of an interrupt that arrives during them.                         *)
ForceSettle ==
  /\ forceSettle.timer = "armed"
  /\ SlowSettle \/ turn[forceSettle.turn].pc \notin {"draft", "prepare"}
  /\ IF ~running \/ currentTurnId # forceSettle.turn
       THEN /\ forceSettle' = FiredTimer
            /\ UNCHANGED <<quarantinedTurnId, interrupting, status, turn, asks>>
       ELSE /\ forceSettle' = NoTimer
            /\ quarantinedTurnId' = forceSettle.turn
            /\ interrupting' = FALSE
            /\ status' = "quarantined"
            /\ turn' = Aborted("user")
            /\ asks' = {}
  /\ UNCHANGED <<disposed, running, currentTurnId, controller, currentMode, warrant,
                 permission, queue, goal, claimed, wakeVars, idleTimer, waking, gate,
                 unresolved, control, accepted>>

(***************************************************************************)
(* startDashboardTurn, once its awaits are over: the session lock is free, *)
(* the session is live and its configuration loaded.  An idle session gets *)
(* the requested permission mode and a fresh configuration before the      *)
(* request is admitted or refused.                                         *)
(***************************************************************************)
GoalOfRequest(withGoal, prior) ==
  IF ~Elevates(goal) /\ withGoal THEN NewGoal(prior) ELSE goal

SubmittedItem(p, kind, m, g) ==
  LET mode == IF Elevates(g) THEN "fullAccess" ELSE m
      asked == IF Elevates(g) /\ m = "fullAccess" THEN "none" ELSE m
  IN  Recorded(NewItem(p, kind, mode, asked), g, m)

IdleMode(m) == IF Elevates(goal) THEN "fullAccess" ELSE m

StartIdle(p, kind, m, withGoal, new) ==
  LET g == GoalOfRequest(withGoal, IdleMode(m))
  IN  /\ LockFree /\ ~disposed /\ ~running
      /\ ~gate /\ quarantinedTurnId = NoTurn /\ queue = <<>>
      /\ unresolved' = FALSE
      /\ goal' = g
      /\ Begin(SubmittedItem(p, kind, m, g), g, new, turn)
      /\ UNCHANGED <<disposed, quarantinedTurnId, forceSettle, queue, claimed, asks,
                     wakeVars, waking, gate, control, accepted>>

StartIdleRefused(m) ==
  /\ LockFree /\ ~disposed /\ ~running
  /\ gate \/ quarantinedTurnId # NoTurn \/ queue # <<>>
  /\ permission' = IdleMode(m)
  /\ unresolved' = FALSE
  /\ UNCHANGED <<engineVars, queue, goal, claimed, turn, asks, wakeVars, idleTimer,
                 waking, gate, control, accepted>>

StartQueued(p, kind, m, withGoal) ==
  LET g == GoalOfRequest(withGoal, permission)
  IN  /\ LockFree /\ ~disposed /\ running /\ ~gate /\ quarantinedTurnId = NoTurn
      /\ goal' = g
      /\ unresolved' = FALSE
      /\ IF HasCapacity(queue)
           THEN /\ queue' = Append(queue, SubmittedItem(p, kind, m, g))
                /\ accepted' = accepted \cup {p}
           ELSE UNCHANGED <<queue, accepted>>
      /\ UNCHANGED <<engineVars, permission, claimed, turn, asks, wakeVars, idleTimer,
                     waking, gate, control>>

Start(p, kind, m, withGoal) ==
  \/ \E new \in FreeTurns : StartIdle(p, kind, m, withGoal, new)
  \/ StartQueued(p, kind, m, withGoal)

StartTurn ==
  \E p \in FreePrompts, m \in RequestModes :
    \/ Start(p, "prompt", m, FALSE)
    \/ "goal" \in Ops /\ Start(p, "prompt", m, TRUE)
    \/ "schedule" \in Ops /\ Start(p, "schedule", m, FALSE)

RefuseIdleStart == \E m \in RequestModes : StartIdleRefused(m)

(***************************************************************************)
(* The synchronous controls: interruptTurn, cancelQueuedTurn, guideTurn.   *)
(* They are refused while the session lock is held or maintenance is on.   *)
(* Interrupts and steering are accepted as long as the engine says it is   *)
(* running, which includes the settling of a turn that is already over.    *)
(***************************************************************************)
InterruptTurn ==
  /\ "interrupt" \in Ops
  /\ LockFree /\ ~gate /\ ~disposed /\ running /\ quarantinedTurnId = NoTurn
  /\ RequestInterrupt("user")
  /\ UNCHANGED <<disposed, running, currentTurnId, controller, quarantinedTurnId,
                 currentMode, warrant, permission, queue, goal, claimed, wakeVars,
                 idleTimer, waking, gate, unresolved, control, accepted>>

(* A variant: what stands behind the cancelled prompt goes too.            *)
WithoutRest(q, i) == SubSeq(q, 1, i - 1)

Without(q, i) == SubSeq(q, 1, i - 1) \o SubSeq(q, i + 1, Len(q))

CancelQueuedTurn ==
  /\ "cancel" \in Ops
  /\ LockFree /\ ~gate /\ ~disposed
  /\ \E i \in DOMAIN queue :
       /\ queue' = Without(queue, i)
       /\ accepted' = accepted \ {queue[i].id}
  /\ UNCHANGED <<engineVars, permission, goal, claimed, turn, asks, wakeVars, idleTimer,
                 waking, gate, unresolved, control>>

(* A guide takes over a queued item or brings new text.  Its default mode  *)
(* is the running turn's; asked records what the client itself vouched for.*)
GuideItem(id, m) ==
  IF m = "inherit"
    THEN NewItem(id, "guide", currentMode,
                 IF warrant = "goal" THEN "none" ELSE currentMode)
    ELSE NewItem(id, "guide", m, IF Elevates(goal) /\ m = "fullAccess" THEN "none" ELSE m)

GuideQueues(id, m, rest) ==
  /\ queue' = <<GuideItem(id, m)>> \o rest
  /\ accepted' = accepted \cup ({id} \cap Prompts)
  /\ RequestInterrupt("guided")

GuideStops(taken, rest) ==
  /\ queue' = rest
  /\ accepted' = accepted \ taken
  /\ RequestInterrupt("user")

GuideTurn ==
  /\ "guide" \in Ops
  /\ LockFree /\ ~gate /\ ~disposed /\ running /\ quarantinedTurnId = NoTurn
  /\ \E m \in RequestModes \cup {"inherit"} :
       \/ \E i \in {j \in DOMAIN queue : queue[j].kind # "guide"} :
            \/ GuideQueues(queue[i].id, m, Without(queue, i))
            \/ GuideStops({queue[i].id}, Without(queue, i))
       \/ /\ HasCapacity(queue)
          /\ \/ \E p \in FreePrompts : GuideQueues(p, m, queue)
             \/ GuideStops({}, queue)
  /\ UNCHANGED <<disposed, running, currentTurnId, controller, quarantinedTurnId,
                 currentMode, warrant, permission, goal, claimed, wakeVars, idleTimer,
                 waking, gate, unresolved, control>>

(***************************************************************************)
(* Approvals and questions.  A turn's own request suspends its run; a      *)
(* background task asks through the same maps and may outlive the turn.    *)
(***************************************************************************)
Ask ==
  /\ "ask" \in Ops
  /\ \/ (\E t \in Turns : turn[t].pc = "run") /\ asks' = asks \cup {"foreground"}
     \/ ~disposed /\ asks' = asks \cup {"background"}
  /\ UNCHANGED <<engineVars, permission, queue, goal, claimed, turn, wakeVars, idleTimer,
                 waking, gate, unresolved, control, accepted>>

Answer ==
  /\ ~gate
  /\ \E a \in asks : asks' = asks \ {a}
  /\ UNCHANGED <<engineVars, permission, queue, goal, claimed, turn, wakeVars, idleTimer,
                 waking, gate, unresolved, control, accepted>>

(***************************************************************************)
(* The turn's coroutine.  Settle is the synchronous head of the finally    *)
(* block; it does nothing when another turn, or none, is current.          *)
(***************************************************************************)
Settle(t, ended) ==
  IF ~OwnsTurn(t)
    THEN /\ turn' = [turn EXCEPT ![t] = IdleTurn]
         /\ UNCHANGED <<interrupting, status, controller, quarantinedTurnId, forceSettle>>
    ELSE /\ turn' = [turn EXCEPT ![t].pc = "draft",
                                 ![t].wasQuarantined = quarantinedTurnId = t]
         /\ interrupting' = FALSE
         /\ status' = IF quarantinedTurnId = t THEN "interrupted" ELSE ended
         /\ controller' = NoTurn
         /\ quarantinedTurnId' = NoTurn
         /\ forceSettle' = NoTimer

(* injectPendingWakeHandoffs, when the run starts and again before every   *)
(* further model call.                                                     *)
Inject == /\ handoffs' = {}
          /\ reports' = [g \in Groups |-> reports[g] + IF g \in handoffs THEN 1 ELSE 0]
          /\ UNCHANGED group

FirstRound(t) ==
  /\ turn[t].pc = "start"
  /\ turn' = [turn EXCEPT ![t].pc = "run"]
  /\ Inject
  /\ UNCHANGED <<engineVars, permission, queue, goal, claimed, asks, idleTimer, waking,
                 gate, unresolved, control, accepted>>

NextRound(t) ==
  /\ turn[t].pc = "run" /\ "foreground" \notin asks
  /\ handoffs # {}
  /\ Inject
  /\ UNCHANGED <<engineVars, permission, queue, goal, claimed, turn, asks, idleTimer,
                 waking, gate, unresolved, control, accepted>>

(* What runTurn may report: completion needs every hand-off injected,      *)
(* interruption and steering need an abort, and before the first round     *)
(* only a missing gateway or an abort end it.                              *)
PossibleOutcomes(t) ==
  (CASE turn[t].pc = "run" -> {"failed", "blocked", "cancelled"}
                                \cup (IF handoffs = {} THEN {"completed"} ELSE {})
     [] turn[t].pc = "start" /\ "config" \in Ops -> {"failed", "blocked"}
     [] OTHER -> {})
    \cup (CASE turn[t].abort = "user" -> {"interrupted"}
            [] turn[t].abort = "guided" -> {"guided"}
            [] OTHER -> {})

RunEnds(t) ==
  /\ turn[t].pc \in {"start", "run"}
  /\ "foreground" \in asks => turn[t].pc # "run"
  /\ IF IsCurrentTurn(t)
       THEN /\ \E out \in PossibleOutcomes(t) :
                 /\ status' = out
                 /\ claimed' \in IF out = "completed" THEN BOOLEAN ELSE {claimed}
            /\ turn' = [turn EXCEPT ![t].pc = "record"]
            /\ UNCHANGED <<interrupting, controller, quarantinedTurnId, forceSettle>>
       ELSE Settle(t, status) /\ UNCHANGED claimed
  /\ UNCHANGED <<disposed, running, currentTurnId, currentMode, warrant, permission,
                 queue, goal, asks, wakeVars, idleTimer, waking, gate, unresolved,
                 control, accepted>>

(* rememberScheduleRun may fail to write; the catch block then reports the *)
(* turn as failed.                                                         *)
RecordEnds(t) ==
  /\ turn[t].pc = "record"
  /\ \E ended \in {status} \cup (IF IsCurrentTurn(t) /\ "schedule" \in Ops
                                   THEN {"failed"} ELSE {}) : Settle(t, ended)
  /\ UNCHANGED <<disposed, running, currentTurnId, currentMode, warrant, permission,
                 queue, goal, claimed, asks, wakeVars, idleTimer, waking, gate,
                 unresolved, control, accepted>>

(* updateGoalAfterTurn and maybeEnqueueGoalContinue.                       *)
(* A variant: the Goal is not looked at again.                             *)
SkipsOnlyExhausted(g) ==
  asks # {} \/ OutOfBudget(g) \/ disposed \/ quarantinedTurnId # NoTurn

SkipsContinue(g) ==
  \/ ~Elevates(g) \/ asks # {} \/ OutOfBudget(g)
  \/ disposed \/ quarantinedTurnId # NoTurn

HostContinues(t, g, q) ==
  IF turn[t].wasQuarantined \/ disposed \/ gate THEN <<g, q>>
  ELSE IF SkipsContinue(g) THEN <<Exhausted(g), q>>
  ELSE IF Has(q, {"guide", "prompt", "wakeup"}) THEN <<g, DropContinues(q)>>
  ELSE IF Has(q, {"goal-continue"}) THEN <<g, q>>
  ELSE <<Continuing(g), Append(q, ContinueItem)>>

GoalAndQueueAfter(t) ==
  HostContinues(t, AfterTurn(goal, status, claimed),
                IF goal.on /\ status = "interrupted" THEN DropContinues(queue) ELSE queue)

(* scheduleDashboardIdleWake at the end of a turn that no other follows.   *)
SchedulesWake == ~disposed /\ handoffs # {}

(* The tail of the finally block: the session is idle unless the next item *)
(* begins in the same breath.  may is canStartNext; g, q, bad and waiting  *)
(* are the Goal, the queue, the invalidation and the accepted prompts that *)
(* the caller leaves.                                                      *)
Finish(t, may, g, q, bad, waiting) ==
  LET takes == may /\ ~gate
      left == IF takes THEN Drainable(q, g) ELSE q
      pops == takes /\ HeadReady(left)
      next == Elevated(Head(left), g)
      over == [IdleTurn EXCEPT !.pc = IF g.on THEN "save" ELSE "idle"]
  IN  /\ goal' = g
      /\ queue' = IF pops THEN Tail(left) ELSE left
      /\ IF pops /\ CanBegin(next, g, bad)
           THEN /\ \E new \in FreeTurns :
                     Begin(next, g, new, [turn EXCEPT ![t] = [over EXCEPT !.startedNext = g.on]])
                /\ accepted' = waiting \ {next.id}
           ELSE /\ running' = FALSE
                /\ idleTimer' = (idleTimer \/ (~pops /\ SchedulesWake))
                /\ currentTurnId' = IF g.on \/ disposed THEN currentTurnId ELSE NoTurn
                /\ turn' = [turn EXCEPT ![t] = over]
                /\ accepted' = waiting
                /\ UNCHANGED <<interrupting, status, controller, currentMode, permission,
                               warrant>>

(* A variant: an interrupted turn does not go on with the queue.           *)
MayPrepareUninterrupted(t, q) ==
  /\ ~turn[t].wasQuarantined /\ ~disposed /\ ~gate /\ HeadReady(q)
  /\ turn[t].abort # "user"

MayPrepare(t, q) == ~turn[t].wasQuarantined /\ ~disposed /\ ~gate /\ HeadReady(q)

DraftEnds(t) ==
  /\ turn[t].pc = "draft"
  /\ LET after == GoalAndQueueAfter(t)
     IN  IF MayPrepare(t, after[2])
           THEN /\ goal' = after[1]
                /\ queue' = after[2]
                /\ turn' = [turn EXCEPT ![t].pc = "prepare"]
                /\ UNCHANGED <<running, interrupting, status, currentTurnId, controller,
                               currentMode, warrant, permission, idleTimer, accepted>>
           ELSE Finish(t, FALSE, after[1], after[2], unresolved, accepted)
  /\ UNCHANGED <<disposed, quarantinedTurnId, forceSettle, claimed, asks, wakeVars,
                 waking, gate, unresolved, control>>

(* prepareDashboardSessionForQueuedTurn: the reloaded configuration        *)
(* resolves the session's model, or the queue is cancelled.                *)
ReloadFails ==
  /\ "config" \in Ops
  /\ unresolved' \in {unresolved, TRUE}

PrepareEnds(t) ==
  /\ turn[t].pc = "prepare"
  /\ \/ unresolved' = FALSE /\ Finish(t, TRUE, goal, queue, FALSE, accepted)
     \/ ReloadFails /\ Finish(t, FALSE, goal, <<>>, TRUE, accepted \ Ids(queue))
  /\ UNCHANGED <<disposed, quarantinedTurnId, forceSettle, claimed, asks, wakeVars,
                 waking, gate, control>>

(* persistGoalSnapshot is over: an idle engine forgets its turn id.        *)
SaveEnds(t) ==
  /\ turn[t].pc = "save"
  /\ currentTurnId' = IF turn[t].startedNext \/ disposed THEN currentTurnId ELSE NoTurn
  /\ turn' = [turn EXCEPT ![t] = IdleTurn]
  /\ UNCHANGED <<disposed, running, interrupting, status, controller, quarantinedTurnId,
                 forceSettle, currentMode, warrant, permission, queue, goal, claimed, asks,
                 wakeVars, idleTimer, waking, gate, unresolved, control, accepted>>

(***************************************************************************)
(* Goal controls.  All hold the session lock from Read to their last step. *)
(* Pause and disable change the live session before their disk write, and  *)
(* a failed write takes nothing back; enable and resume stage their change *)
(* and publish it in the commit.                                           *)
(***************************************************************************)
GoalRequest ==
  /\ "goal" \in Ops
  /\ LockFree /\ ~gate /\ ~disposed

StopRead ==
  /\ GoalRequest
  /\ \E op \in {"pause", "disable"} :
       control' = [NoControl EXCEPT !.stage = "stopRead", !.op = op]
  /\ UNCHANGED <<engineVars, permission, queue, goal, claimed, turn, asks, wakeVars,
                 idleTimer, waking, gate, unresolved, accepted>>

StoppedGoal ==
  IF control.op = "pause" THEN [goal EXCEPT !.status = "paused"]
                          ELSE [goal EXCEPT !.on = FALSE, !.status = "off"]

StopApply ==
  /\ control.stage = "stopRead"
  /\ control.op = "pause" => goal.on
  /\ control' = [control EXCEPT !.stage = "stopWrite"]
  /\ goal' = StoppedGoal
  /\ permission' = goal.previous
  /\ LET kept == DropContinues(queue)
     IN  queue' = IF goal.on THEN RevokeAll(kept, goal.previous) ELSE kept
  /\ IF running /\ ~disposed THEN RequestInterrupt("user")
                ELSE UNCHANGED <<interrupting, status, asks, turn, forceSettle>>
  /\ UNCHANGED <<disposed, running, currentTurnId, controller, quarantinedTurnId,
                 currentMode, warrant, claimed, wakeVars, idleTimer, waking, gate,
                 unresolved, accepted>>

(* The read fails or refuses, or the write is over, successful or not.     *)
StopReturns ==
  /\ control.stage \in {"stopRead", "stopWrite"}
  /\ control' = NoControl
  /\ UNCHANGED <<engineVars, permission, queue, goal, claimed, turn, asks, wakeVars,
                 idleTimer, waking, gate, unresolved, accepted>>

(* ensureTurnState gives an idle session a fresh configuration.            *)
Hydrated == unresolved' = (running /\ unresolved)

EnableStage ==
  /\ GoalRequest
  /\ control' = [stage |-> "staged", op |-> "enable",
                 goal |-> NewGoal(IF goal.on THEN goal.previous ELSE permission),
                 mode |-> IF running THEN permission ELSE "fullAccess"]
  /\ Hydrated
  /\ UNCHANGED <<engineVars, permission, queue, goal, claimed, turn, asks, wakeVars,
                 idleTimer, waking, gate, accepted>>

(* Continuations resumed onto a blocked queue pile up, beyond MAX_QUEUE;   *)
(* this model stops asking for more at MaxContinuations of them.           *)
ResumeStage ==
  /\ GoalRequest
  /\ Len(queue) - UserVisible(queue) < MaxContinuations
  /\ goal.on /\ goal.status \in {"paused", "failed"}
  /\ control' = [stage |-> "staged", op |-> "resume", mode |-> "fullAccess",
                 goal |-> [goal EXCEPT !.status = "active", !.failures = 0]]
  /\ Hydrated
  /\ UNCHANGED <<engineVars, permission, queue, goal, claimed, turn, asks, wakeVars,
                 idleTimer, waking, gate, accepted>>

(* persistGoalControlSnapshot publishes what was staged, whatever the live *)
(* session has become since.                                               *)
GoalCommit ==
  /\ control.stage = "staged"
  /\ goal' = control.goal
  /\ permission' = control.mode
  /\ control' = [control EXCEPT !.stage = "published"]
  /\ UNCHANGED <<engineVars, queue, claimed, turn, asks, wakeVars, idleTimer, waking,
                 gate, unresolved, accepted>>

GoalCommitFails ==
  /\ control.stage = "staged"
  /\ control' = NoControl
  /\ UNCHANGED <<engineVars, permission, queue, goal, claimed, turn, asks, wakeVars,
                 idleTimer, waking, gate, unresolved, accepted>>

(* startIdleGoalTurn.                                                      *)
EnableStarts ==
  /\ control.stage = "published" /\ control.op = "enable"
  /\ control' = NoControl
  /\ IF running \/ disposed \/ quarantinedTurnId # NoTurn \/ ~goal.on
       THEN UNCHANGED <<engineVars, permission, goal, turn, idleTimer>>
       ELSE LET g == [goal EXCEPT !.status = "running"]
                item == NewItem(NoPrompt, "prompt", "fullAccess", "none")
            IN  /\ goal' = g
                /\ IF CanBegin(item, g, unresolved)
                     THEN \E new \in FreeTurns :
                            /\ Begin(item, g, new, turn)
                            /\ UNCHANGED <<disposed, quarantinedTurnId, forceSettle>>
                     ELSE /\ permission' = "fullAccess"
                          /\ UNCHANGED <<engineVars, turn, idleTimer>>
  /\ UNCHANGED <<queue, claimed, asks, wakeVars, waking, gate, unresolved, accepted>>

(* A variant: a resume goes on in a disposed session.                      *)
ResumeQueuesDisposed ==
  /\ control.stage = "published" /\ control.op = "resume"
  /\ IF running \/ quarantinedTurnId # NoTurn
       THEN control' = NoControl /\ UNCHANGED queue
       ELSE /\ control' = [control EXCEPT !.stage = "prepare"]
            /\ queue' = Append(queue, ContinueItem)
  /\ UNCHANGED <<engineVars, permission, goal, claimed, turn, asks, wakeVars, idleTimer,
                 waking, gate, unresolved, accepted>>

ResumeQueues ==
  /\ control.stage = "published" /\ control.op = "resume"
  /\ IF running \/ disposed \/ quarantinedTurnId # NoTurn
       THEN control' = NoControl /\ UNCHANGED queue
       ELSE /\ control' = [control EXCEPT !.stage = "prepare"]
            /\ queue' = Append(queue, ContinueItem)
  /\ UNCHANGED <<engineVars, permission, goal, claimed, turn, asks, wakeVars, idleTimer,
                 waking, gate, unresolved, accepted>>

(* The item taken after the reload is gone if a turn began meanwhile.      *)
ResumeTakes ==
  LET left == Drainable(queue, goal)
      next == Elevated(Head(left), goal)
  IN  /\ unresolved' = FALSE
      /\ queue' = IF HeadReady(left) THEN Tail(left) ELSE left
      /\ IF HeadReady(left) /\ ~running /\ CanBegin(next, goal, FALSE)
           THEN /\ \E new \in FreeTurns : Begin(next, goal, new, turn)
                /\ accepted' = accepted \ {next.id}
                /\ UNCHANGED <<disposed, quarantinedTurnId, forceSettle>>
           ELSE UNCHANGED <<engineVars, permission, turn, idleTimer, accepted>>

ReloadCancelsQueue ==
  /\ ReloadFails
  /\ queue' = <<>>
  /\ accepted' = accepted \ Ids(queue)
  /\ UNCHANGED <<engineVars, permission, turn, idleTimer>>

ResumePrepared ==
  /\ control.stage = "prepare"
  /\ control' = NoControl
  /\ ResumeTakes \/ ReloadCancelsQueue
  /\ UNCHANGED <<goal, claimed, asks, wakeVars, waking, gate>>

(***************************************************************************)
(* Background groups wake the session.  A finished group is noted, and     *)
(* some disk writes and hooks later its wake-up event reaches the engine   *)
(* and notes it again: a running turn picks it up at its next model call,  *)
(* an idle session starts a continuation after a short coalescing delay.   *)
(***************************************************************************)
GroupNotes(g) ==
  /\ "wake" \in Ops
  /\ group[g] = "working"
  /\ group' = [group EXCEPT ![g] = "noted"]
  /\ handoffs' = handoffs \cup {g}
  /\ UNCHANGED <<engineVars, permission, queue, goal, claimed, turn, asks, reports,
                 idleTimer, waking, gate, unresolved, control, accepted>>

(* A variant: a hand-off that was noted before sets no timer.              *)
GroupWakesOnce(g) ==
  /\ group[g] = "noted"
  /\ group' = [group EXCEPT ![g] = "done"]
  /\ IF disposed \/ quarantinedTurnId # NoTurn \/ gate
       THEN UNCHANGED <<handoffs, idleTimer>>
       ELSE /\ handoffs' = handoffs \cup {g}
            /\ idleTimer' = (idleTimer \/ (~running /\ g \notin handoffs))
  /\ UNCHANGED <<engineVars, permission, queue, goal, claimed, turn, asks, reports,
                 waking, gate, unresolved, control, accepted>>

GroupWakes(g) ==
  /\ group[g] = "noted"
  /\ group' = [group EXCEPT ![g] = "done"]
  /\ IF disposed \/ quarantinedTurnId # NoTurn \/ gate
       THEN UNCHANGED <<handoffs, idleTimer>>
       ELSE /\ handoffs' = handoffs \cup {g}
            /\ idleTimer' = (idleTimer \/ ~running)
  /\ UNCHANGED <<engineVars, permission, queue, goal, claimed, turn, asks, reports,
                 waking, gate, unresolved, control, accepted>>

MayWake == /\ ~disposed /\ ~running /\ quarantinedTurnId = NoTurn /\ ~gate
           /\ handoffs # {}

IdleTimerFires ==
  /\ idleTimer
  /\ MayWake => waking + 1 \in WakingCount
  /\ idleTimer' = FALSE
  /\ waking' = IF MayWake THEN waking + 1 ELSE waking
  /\ UNCHANGED <<engineVars, permission, queue, goal, claimed, turn, asks, wakeVars,
                 gate, unresolved, control, accepted>>

WakePrepared ==
  /\ waking > 0
  /\ waking' = waking - 1
  /\ \/ LET item == NewItem(NoPrompt, "wakeup", currentMode, "none")
        IN  /\ unresolved' = FALSE
            /\ IF MayWake /\ CanBegin(item, goal, FALSE)
                 THEN /\ \E new \in FreeTurns : Begin(item, goal, new, turn)
                      /\ UNCHANGED <<disposed, quarantinedTurnId, forceSettle>>
                 ELSE UNCHANGED <<engineVars, permission, turn, idleTimer>>
            /\ UNCHANGED <<queue, accepted>>
     \/ ReloadCancelsQueue
  /\ UNCHANGED <<goal, claimed, asks, wakeVars, gate, control>>

(***************************************************************************)
(* Model selection, source-update maintenance, deletion and shutdown.      *)
(***************************************************************************)
InvalidateModel ==
  /\ "config" \in Ops
  /\ ~disposed /\ ~unresolved
  /\ unresolved' = TRUE
  /\ IF running THEN queue' = <<>> /\ accepted' = accepted \ Ids(queue)
                ELSE UNCHANGED <<queue, accepted>>
  /\ UNCHANGED <<engineVars, permission, goal, claimed, turn, asks, wakeVars, idleTimer,
                 waking, gate, control>>

RepairModel ==
  /\ "config" \in Ops
  /\ ~disposed /\ ~running /\ unresolved
  /\ unresolved' = FALSE
  /\ UNCHANGED <<engineVars, permission, queue, goal, claimed, turn, asks, wakeVars,
                 idleTimer, waking, gate, control, accepted>>

ToggleGate ==
  /\ "gate" \in Ops
  /\ gate' = ~gate
  /\ UNCHANGED <<engineVars, permission, queue, goal, claimed, turn, asks, wakeVars,
                 idleTimer, waking, unresolved, control, accepted>>

CancelWork ==
  /\ "dispose" \in Ops
  /\ ~disposed
  /\ queue' = <<>>
  /\ accepted' = accepted \ Ids(queue)
  /\ IF running THEN RequestInterrupt("user")
                ELSE asks' = {} /\ UNCHANGED <<interrupting, status, turn, forceSettle>>
  /\ UNCHANGED <<disposed, running, currentTurnId, controller, quarantinedTurnId,
                 currentMode, warrant, permission, goal, claimed, wakeVars, idleTimer,
                 waking, gate, unresolved, control>>

(* disposeTurnState, by a deletion or a shutdown: both looked for work      *)
(* before their last await, a forced shutdown does not look at all, and    *)
(* none of them holds the session against a wake-up.  A shutdown has       *)
(* paused the Goal first.                                                  *)
Dispose ==
  /\ "dispose" \in Ops
  /\ ~disposed
  /\ disposed' = TRUE
  /\ running' = FALSE
  /\ interrupting' = FALSE
  /\ currentTurnId' = NoTurn
  /\ controller' = NoTurn
  /\ quarantinedTurnId' = NoTurn
  /\ forceSettle' = NoTimer
  /\ queue' = <<>>
  /\ accepted' = {}
  /\ asks' = {}
  /\ turn' = Aborted("user")
  /\ goal' \in {goal} \cup (IF goal.on THEN {[goal EXCEPT !.status = "paused"]} ELSE {})
  /\ UNCHANGED <<status, currentMode, warrant, permission, claimed, wakeVars, idleTimer,
                 waking, gate, unresolved, control>>

(***************************************************************************)
(* The specification.  The engine's own steps are fair: promises settle    *)
(* and timers fire.  Clients, background groups and users owe nothing.     *)
(***************************************************************************)
TurnStep(t) == \/ FirstRound(t) \/ NextRound(t)
               \/ RunEnds(t) \/ RecordEnds(t)
               \/ DraftEnds(t) \/ PrepareEnds(t) \/ SaveEnds(t)

ControlStep == \/ StopApply \/ StopReturns \/ GoalCommit \/ GoalCommitFails
               \/ EnableStarts \/ ResumeQueues \/ ResumePrepared

Request == \/ StartTurn \/ RefuseIdleStart
           \/ InterruptTurn \/ CancelQueuedTurn \/ GuideTurn
           \/ Ask \/ Answer
           \/ StopRead \/ EnableStage \/ ResumeStage
           \/ (\E g \in Groups : GroupNotes(g)) \/ InvalidateModel \/ RepairModel
           \/ ToggleGate \/ CancelWork \/ Dispose

Next == \/ Request
        \/ \E t \in Turns : TurnStep(t)
        \/ ControlStep
        \/ \E g \in Groups : GroupWakes(g)
        \/ ForceSettle \/ IdleTimerFires \/ WakePrepared

Fairness == /\ \A t \in Turns : WF_vars(TurnStep(t))
            /\ WF_vars(ControlStep)
            /\ \A g \in Groups : WF_vars(GroupWakes(g))
            /\ WF_vars(ForceSettle)
            /\ WF_vars(IdleTimerFires)
            /\ WF_vars(WakePrepared)

Spec == Init /\ [][Next]_vars /\ Fairness

-----------------------------------------------------------------------------
(***************************************************************************)
(* Safety.                                                                 *)
(***************************************************************************)
Live(t) == turn[t].pc \in {"start", "run", "record", "draft", "prepare"}

(* At most one turn is between beginPrompt and the end of its settling,    *)
(* whatever starts turns: clients, the queue, Goal controls, wake-ups.     *)
OneLiveRun == \A t, u \in Turns : Live(t) /\ Live(u) => t = u

(* Every prompt a client was told is queued is in the queue, was begun, or *)
(* was withdrawn with an event.                                            *)
NoPromptLost == accepted \subseteq Ids(queue)

(* A turn has full access only through an active Goal, a schedule, or a    *)
(* client that asked for it outside a Goal.                                *)
FullAccessIsWarranted == warrant # "none"

(* Once a Goal is stopped, no continuation of it is left to run, whatever  *)
(* was settling or preparing at the time.                                  *)
StoppedGoalLeavesNothing == ~goal.on => ~Has(queue, {"goal-continue"})

(* Whatever was suspended when a session was disposed, nothing runs, waits *)
(* or is timed in it afterwards.                                           *)
DisposedIsQuiet ==
  disposed => ~running /\ queue = <<>> /\ forceSettle.timer # "armed"

(* Whatever a session says it is doing, what ends it is under way: a        *)
(* running session has a turn that will settle it, since only the coroutine *)
(* that owns currentTurnId clears state.running; an accepted interrupt has  *)
(* the force-settle timer, or has already led to quarantine; a quarantine   *)
(* has the run of its own turn, whose end releases it.                      *)
EndIsUnderWay ==
  /\ running => \E t \in Turns : Live(t) /\ currentTurnId = t
  /\ running /\ interrupting => forceSettle.timer = "armed"
  /\ quarantinedTurnId # NoTurn => turn[quarantinedTurnId].pc \in {"start", "run", "record"}

(* A group's report enters the conversation once.  The code does not keep  *)
(* this: the finalizer notes a hand-off, awaits a hook and a write, and its *)
(* wake-up notes it again after a turn has injected it.                    *)
ReportedOnce == \A g \in Groups : reports[g] <= 1

(***************************************************************************)
(* What a step may never do.                                               *)
(***************************************************************************)
(* While maintenance is held no turn starts, not even one that was admitted *)
(* before and was waiting for its configuration or its Goal commit.        *)
GateBlocksStarts ==
  [][gate => \A t \in Turns : turn[t].pc = "idle" => turn'[t].pc = "idle"]_vars

(* A finished Goal is not taken up again by the settling of a turn.  The   *)
(* code does not keep this: a queued user turn that completes sets it      *)
(* active (updateGoalAfterTurn exempts a paused Goal only).                *)
EndedGoalStaysEnded ==
  [][(\E t \in Turns : DraftEnds(t)) /\ goal.status \in {"complete", "failed"}
       => ~Elevates(goal')]_vars

(***************************************************************************)
(* Liveness.                                                               *)
(***************************************************************************)
(* A prompt that waits behind a running turn is eventually begun or        *)
(* withdrawn, whatever ends the turn, unless that turn was quarantined: on *)
(* its late end it leaves the queue to the client.  Maintenance, a stopped *)
(* Goal or a failing reload may leave it waiting, too.                     *)
QueuedPromptsMove ==
  \A p \in Prompts :
    p \in accepted /\ running ~> p \notin accepted \/ \E t \in Turns : turn[t].wasQuarantined

(* A quarantined session eventually becomes usable again.                  *)
QuarantineEnds == quarantinedTurnId # NoTurn ~> quarantinedTurnId = NoTurn

(* A background group's hand-off is eventually injected into a turn, also   *)
(* when several groups finish at once, unless the session is disposed or    *)
(* its turns keep being interrupted before they reach a model call.         *)
HandoffsAreConsumed == handoffs # {} ~> handoffs = {} \/ disposed \/ interrupting

===============================================================================
