------------------------------ MODULE TaskGroups ------------------------------
(***************************************************************************)
(* Background agents: a turn launches agents that join groups; an agent    *)
(* that ends settles its task, sums up its group and, when the group has   *)
(* reached what it waits for, hands the group's report to the session.     *)
(* Tasks and groups are files, each mutated under its lock (FileLock, so   *)
(* one mutation is one step here); the reports, the controllers and the    *)
(* turn are in memory, and a crash forgets them.                           *)
(*                                                                         *)
(* Each action ends where the code awaits, so the others act in between.   *)
(***************************************************************************)
EXTENDS Naturals, FiniteSets

CONSTANTS
  Tasks,
  Groups,
  GroupOf,        \* the group that the model names for an agent
  Policies,       \* the waits and wake-ups that the model asks for
  Operations,     \* what else happens: cancellations, failures
  MaxHappenings,  \* bounds how many of them strike, each kind once
  MaxDeliveries   \* bounds the reports of one group that are counted

ASSUME GroupOfAssumption == GroupOf \in [Tasks -> Groups]
ASSUME PoliciesAssumption == Policies \subseteq ({"all", "any", "none"} \X BOOLEAN)
ASSUME OperationsAssumption ==
  Operations \subseteq {"recycle", "command", "session", "byHand", "interrupt",
                        "store", "crash"}
ASSUME BoundsAssumption == MaxDeliveries \in Nat \ {0} /\ MaxHappenings \in Nat

VARIABLES
  task,       \* the status in the task's file
  group,      \* the group's file
  beat,       \* the status that a heartbeat has read and will write back
  pc,         \* where each agent is
  tally,      \* the agents that found their group completed
  retried,    \* the agents whose ending has failed once
  aborted,    \* the agents whose controller was aborted
  running,    \* a turn of the session runs
  timer,      \* the timer that starts a turn for the reports
  pending,    \* the groups whose report waits for the session
  injected,   \* those in the model's request, not yet marked as consumed
  cancel,     \* the cancellation under way
  happened,   \* history: the disturbances so far
  delivered,  \* history: how often a group's report reached the model
  recycled    \* history: the tasks that were running when they were recycled

agents == <<pc, tally, retried, aborted>>
session == <<running, timer, pending, injected>>
history == <<happened, delivered, recycled>>
vars == <<task, group, beat, agents, session, cancel, history>>

Waits == {"all", "any", "none"}
Statuses == {"none", "running", "finished", "cancelled"}
Terminal == {"finished", "cancelled"}
Places == {"idle", "starting", "create", "running", "settle", "persist", "read",
           "update", "note", "mark", "tell", "end"}

Group == [members : SUBSET Tasks, waitFor : Waits, wakeParent : BOOLEAN,
          done : BOOLEAN, queued : BOOLEAN, consumed : BOOLEAN]
NoGroup == [members |-> {}, waitFor |-> "none", wakeParent |-> FALSE,
            done |-> FALSE, queued |-> FALSE, consumed |-> FALSE]
Snapshots == [Groups -> Group]

Idle == [at |-> "idle", kind |-> "none", left |-> {}, groups |-> {},
         snap |-> [g \in Groups |-> NoGroup]]

(* The records, the controllers and the reports have their shape.          *)
TypeOK ==
  /\ task \in [Tasks -> Statuses]
  /\ group \in [Groups -> Group]
  /\ beat \in [Tasks -> Statuses]
  /\ pc \in [Tasks -> Places]
  /\ tally \subseteq Tasks /\ retried \subseteq Tasks /\ aborted \subseteq Tasks
  /\ running \in BOOLEAN /\ timer \in BOOLEAN
  /\ pending \subseteq Groups /\ injected \subseteq Groups
  /\ cancel \in [at : {"idle", "abort", "list", "mark", "snap", "write"},
                 kind : {"none", "recycle", "command", "session"},
                 left : SUBSET Tasks, groups : SUBSET Groups, snap : Snapshots]
  /\ happened \subseteq Operations /\ recycled \subseteq Tasks
  /\ delivered \in [Groups -> 0..MaxDeliveries]

Init ==
  /\ task = [t \in Tasks |-> "none"]
  /\ group = [g \in Groups |-> NoGroup]
  /\ beat = [t \in Tasks |-> "none"]
  /\ pc = [t \in Tasks |-> "idle"]
  /\ tally = {} /\ retried = {} /\ aborted = {}
  /\ running = FALSE /\ timer = FALSE
  /\ pending = {} /\ injected = {}
  /\ cancel = Idle
  /\ happened = {} /\ recycled = {}
  /\ delivered = [g \in Groups |-> 0]

Happens(operation) ==
  /\ Cardinality(happened) < MaxHappenings
  /\ operation \in Operations \ happened
  /\ happened' = happened \cup {operation}

Goto(t, place) == pc' = [pc EXCEPT ![t] = place]
Exists(g) == group[g].members # {}
Unlocked(t) == beat[t] = "none"

(* A variant: the parent's turn takes its agents off the registry.         *)
RegisteredInTurn(t) == running /\ pc[t] \notin {"idle", "starting", "end"}

Registered(t) == pc[t] \notin {"idle", "starting", "end"}

(***************************************************************************)
(* ensureGroup: who joins may strengthen the contract, never weaken it.    *)
(***************************************************************************)
Stronger(w, v) == IF "all" \in {w, v} THEN "all"
                  ELSE IF "any" \in {w, v} THEN "any" ELSE "none"

(* A variant: the record is written as it was given, without the defaults. *)
JoinRaw(g, t, w, wake) ==
  group' = [group EXCEPT ![g] = [members |-> {t}, waitFor |-> w, wakeParent |-> wake]]

Join(g, t, w, wake) ==
  LET read == group[g] IN
  group' = [group EXCEPT ![g] =
    IF Exists(g) THEN [read EXCEPT !.members = read.members \cup {t},
                                   !.waitFor = Stronger(read.waitFor, w),
                                   !.wakeParent = read.wakeParent \/ wake]
    ELSE [read EXCEPT !.members = {t}, !.waitFor = w, !.wakeParent = wake]]

(* startBackgroundAgentTool, up to the hooks that it awaits.               *)
Launch(t) ==
  /\ running /\ injected = {} /\ pc[t] = "idle"
  /\ \E policy \in Policies : Join(GroupOf[t], t, policy[1], policy[2])
  /\ Goto(t, "starting")
  /\ UNCHANGED <<task, beat, tally, retried, aborted, session, cancel, history>>

(* The tool call returns; runSubagent has begun.                           *)
Register(t) ==
  /\ pc[t] = "starting"
  /\ Goto(t, "create")
  /\ UNCHANGED <<task, group, beat, tally, retried, aborted, session, cancel, history>>

Create(t) ==
  /\ pc[t] = "create"
  /\ task' = [task EXCEPT ![t] = "running"]
  /\ Goto(t, "running")
  /\ UNCHANGED <<group, beat, tally, retried, aborted, session, cancel, history>>

(***************************************************************************)
(* The heartbeat reads the task's record and writes it back, under the     *)
(* lock of the file.  The interval ends with the agent's run, a beat that  *)
(* is under way does not.                                                  *)
(***************************************************************************)
Beat(t) ==
  /\ pc[t] = "running" /\ Unlocked(t)
  /\ beat' = [beat EXCEPT ![t] = task[t]]
  /\ UNCHANGED <<task, group, agents, session, cancel, history>>

BeatWritten(t) ==
  /\ ~Unlocked(t)
  /\ task' = [task EXCEPT ![t] = beat[t]]
  /\ beat' = [beat EXCEPT ![t] = "none"]
  /\ UNCHANGED <<group, agents, session, cancel, history>>

(***************************************************************************)
(* The agent ends: runSubagent writes its last status whatever the record  *)
(* says by then, and finalizeBackgroundAgentTool sees to the group.        *)
(***************************************************************************)
Finish(t) ==
  /\ pc[t] = "running"
  /\ Goto(t, "settle")
  /\ UNCHANGED <<task, group, beat, tally, retried, aborted, session, cancel, history>>

(* A variant: it does not wait for a heartbeat that is under way.          *)
SettleUnlocked(t) ==
  /\ pc[t] = "settle"
  /\ task' = [task EXCEPT ![t] = "finished"]
  /\ Goto(t, "persist")
  /\ UNCHANGED <<group, beat, tally, retried, aborted, session, cancel, history>>

Settle(t) ==
  /\ pc[t] = "settle" /\ Unlocked(t)
  /\ task' = [task EXCEPT ![t] = "finished"]
  /\ Goto(t, "persist")
  /\ UNCHANGED <<group, beat, tally, retried, aborted, session, cancel, history>>

(* persistBackgroundAgentResultIfNeeded.                                   *)
Persist(t) ==
  /\ pc[t] = "persist" /\ Unlocked(t)
  /\ task' = [task EXCEPT ![t] = IF @ = "running" THEN "finished" ELSE @]
  /\ Goto(t, "read")
  /\ UNCHANGED <<group, beat, tally, retried, aborted, session, cancel, history>>

(* summarizeGroupStatus, of the members that have a record.                *)
Readable(members) == {m \in members : task[m] # "none"}

Completed(waitFor, seen) ==
  /\ seen # {}
  /\ IF waitFor = "any" THEN \E m \in seen : task[m] \in Terminal
                        ELSE \A m \in seen : task[m] \in Terminal

ReadTasks(t) ==
  LET g == group[GroupOf[t]] IN
  /\ pc[t] = "read"
  /\ tally' = IF Completed(g.waitFor, Readable(g.members)) THEN tally \cup {t}
                                                           ELSE tally \ {t}
  /\ Goto(t, "update")
  /\ UNCHANGED <<task, group, beat, retried, aborted, session, cancel, history>>

(* The update writes what was found, and shouldQueueWakePrompt looks at    *)
(* the record it wrote; hooks and a progress event come before the rest.   *)
UpdateGroup(t) ==
  LET g == GroupOf[t] IN
  /\ pc[t] = "update"
  /\ group' = [group EXCEPT ![g].done = t \in tally]
  /\ Goto(t, IF /\ t \in tally /\ group[g].wakeParent
                /\ group[g].waitFor # "none" /\ ~group[g].queued
               THEN "note" ELSE "end")
  /\ UNCHANGED <<task, beat, tally, retried, aborted, session, cancel, history>>

NoteHandoff(g) == pending' = pending \cup {g}

Note(t) ==
  /\ pc[t] = "note"
  /\ NoteHandoff(GroupOf[t])
  /\ Goto(t, "mark")
  /\ UNCHANGED <<task, group, beat, tally, retried, aborted, running, timer, injected,
                 cancel, history>>

(* A variant: the group counts as consumed when its report is queued.      *)
MarkConsumed(t) ==
  /\ pc[t] = "mark"
  /\ group' = [group EXCEPT ![GroupOf[t]].queued = TRUE, ![GroupOf[t]].consumed = TRUE]
  /\ Goto(t, "tell")
  /\ UNCHANGED <<task, beat, tally, retried, aborted, session, cancel, history>>

MarkQueued(t) ==
  /\ pc[t] = "mark"
  /\ group' = [group EXCEPT ![GroupOf[t]].queued = TRUE]
  /\ Goto(t, "tell")
  /\ UNCHANGED <<task, beat, tally, retried, aborted, session, cancel, history>>

(* queueBackgroundWakePrompt, on the event: it notes the report again,     *)
(* and an idle session gets its timer.                                     *)
Tell(t) ==
  /\ pc[t] = "tell"
  /\ NoteHandoff(GroupOf[t])
  /\ timer' = (timer \/ ~running)
  /\ Goto(t, "end")
  /\ UNCHANGED <<task, group, beat, tally, retried, aborted, running, injected,
                 cancel, history>>

(* A mutation of a file is rejected.  The ending is tried once more.       *)
StoreFails(t) ==
  /\ Happens("store")
  /\ \/ pc[t] \in {"create", "settle"} /\ Goto(t, "persist") /\ UNCHANGED retried
     \/ /\ pc[t] \in {"persist", "update", "mark"}
        /\ Goto(t, IF t \in retried THEN "end" ELSE "persist")
        /\ retried' = retried \cup {t}
  /\ UNCHANGED <<task, group, beat, tally, aborted, session, cancel, delivered, recycled>>

(***************************************************************************)
(* The session's turns: the user's, and those for the reports.  A turn     *)
(* takes the reports before each request and ends when none is left; an    *)
(* interrupted one leaves them to the timer.                               *)
(***************************************************************************)
Begin ==
  /\ ~running
  /\ running' = TRUE /\ timer' = FALSE
  /\ UNCHANGED <<task, group, beat, agents, pending, injected, cancel, history>>

Fire ==
  /\ timer
  /\ timer' = FALSE
  /\ running' = (running \/ pending # {})
  /\ UNCHANGED <<task, group, beat, agents, pending, injected, cancel, history>>

Inject ==
  /\ running /\ injected = {} /\ pending # {}
  /\ injected' = pending /\ pending' = {}
  /\ delivered' = [g \in Groups |-> IF g \in pending /\ delivered[g] < MaxDeliveries
                                     THEN delivered[g] + 1 ELSE delivered[g]]
  /\ UNCHANGED <<task, group, beat, agents, running, timer, cancel, happened, recycled>>

Consume(g) ==
  /\ g \in injected
  /\ group' = [group EXCEPT ![g].consumed = TRUE]
  /\ injected' = injected \ {g}
  /\ UNCHANGED <<task, beat, agents, running, timer, pending, cancel, history>>

(* A variant: the turn ends although reports have come.                    *)
EndEarly ==
  /\ running /\ injected = {}
  /\ \A t \in Tasks : pc[t] # "starting"
  /\ running' = FALSE
  /\ UNCHANGED <<task, group, beat, agents, timer, pending, injected, cancel, history>>

End ==
  /\ running /\ injected = {} /\ pending = {}
  /\ \A t \in Tasks : pc[t] # "starting"
  /\ running' = FALSE
  /\ UNCHANGED <<task, group, beat, agents, timer, pending, injected, cancel, history>>

Interrupt ==
  /\ Happens("interrupt")
  /\ running /\ injected = {}
  /\ running' = FALSE
  /\ timer' = (pending # {})
  /\ UNCHANGED <<task, group, beat, agents, pending, injected, cancel, delivered, recycled>>

(***************************************************************************)
(* Cancellations.  runtimeCancelBackgroundSubagent (recycle) reads its     *)
(* tasks, aborts the controllers and marks the tasks it read as running,   *)
(* whatever they are by then; /agents cancel-group (command) marks them    *)
(* all; cancelSessionBackgroundWork (session) aborts first.  One is under  *)
(* way at a time.                                                          *)
(***************************************************************************)
AbortOf(groups) ==
  aborted' = aborted \cup {t \in Tasks : GroupOf[t] \in groups /\ Registered(t)}

Recycle(g) ==
  /\ Happens("recycle")
  /\ cancel = Idle /\ Exists(g)
  /\ \A t \in group[g].members : task[t] # "none"
  /\ cancel' = [at |-> "abort", kind |-> "recycle", groups |-> {g},
                left |-> {t \in group[g].members : task[t] = "running"},
                snap |-> [h \in Groups |-> group[h]]]
  /\ UNCHANGED <<task, group, beat, agents, session, delivered, recycled>>

CancelGroup(g) ==
  /\ Happens("command")
  /\ cancel = Idle /\ Exists(g)
  /\ cancel' = [at |-> "abort", kind |-> "command", groups |-> {g},
                left |-> group[g].members, snap |-> [h \in Groups |-> group[h]]]
  /\ UNCHANGED <<task, group, beat, agents, session, delivered, recycled>>

Abort ==
  /\ cancel.at = "abort"
  /\ AbortOf(cancel.groups)
  /\ cancel' = [cancel EXCEPT !.at = "mark"]
  /\ UNCHANGED <<task, group, beat, pc, tally, retried, session, history>>

CancelSession ==
  /\ Happens("session")
  /\ cancel = Idle
  /\ AbortOf(Groups)
  /\ cancel' = [Idle EXCEPT !.at = "list", !.kind = "session"]
  /\ UNCHANGED <<task, group, beat, pc, tally, retried, session, delivered, recycled>>

ListTasks ==
  /\ cancel.at = "list"
  /\ cancel' = [cancel EXCEPT !.at = "mark",
                              !.left = {t \in Tasks : task[t] = "running"}]
  /\ UNCHANGED <<task, group, beat, agents, session, history>>

MarkCancelled(t) ==
  /\ cancel.at = "mark" /\ t \in cancel.left /\ Unlocked(t)
  /\ task' = [task EXCEPT ![t] = IF @ = "none" THEN @ ELSE "cancelled"]
  /\ cancel' = [cancel EXCEPT !.left = @ \ {t}]
  /\ recycled' = IF cancel.kind = "recycle" THEN recycled \cup {t} ELSE recycled
  /\ UNCHANGED <<group, beat, agents, session, happened, delivered>>

ListGroups ==
  /\ cancel.at = "mark" /\ cancel.left = {}
  /\ cancel' = IF cancel.kind = "session"
               THEN [cancel EXCEPT !.at = "write", !.snap = [g \in Groups |-> group[g]],
                                   !.groups = {g \in Groups : Exists(g)}]
               ELSE [cancel EXCEPT !.at = "write"]
  /\ UNCHANGED <<task, group, beat, agents, session, history>>

(* The group's record gets what the cancellation makes of the one it read. *)
WriteGroup(g) ==
  LET read == cancel.snap[g]
      completed == Completed(read.waitFor, Readable(read.members))
  IN
  /\ cancel.at = "write" /\ g \in cancel.groups
  /\ group' = [group EXCEPT
       ![g].done = CASE cancel.kind = "recycle" -> completed
                     [] cancel.kind = "command" -> TRUE
                     [] OTHER -> completed \/ read.done,
       ![g].consumed = IF cancel.kind = "session" THEN read.queued \/ read.consumed
                                                  ELSE @]
  /\ cancel' = [cancel EXCEPT !.groups = @ \ {g}]
  /\ UNCHANGED <<task, beat, agents, session, history>>

Cancelled ==
  /\ cancel.at = "write" /\ cancel.groups = {}
  /\ cancel' = Idle
  /\ UNCHANGED <<task, group, beat, agents, session, history>>

(* /agents wake shows the report to the user and marks the group.          *)
WakeByHand(g) ==
  /\ Happens("byHand")
  /\ Exists(g)
  /\ group' = [group EXCEPT ![g].queued = TRUE]
  /\ UNCHANGED <<task, beat, agents, session, cancel, delivered, recycled>>

(* The process dies: the files stay.                                       *)
Crash ==
  /\ Happens("crash")
  /\ pc' = [t \in Tasks |-> IF pc[t] = "idle" THEN "idle" ELSE "end"]
  /\ beat' = [t \in Tasks |-> "none"]
  /\ tally' = {} /\ aborted' = {}
  /\ running' = FALSE /\ timer' = FALSE /\ pending' = {} /\ injected' = {}
  /\ cancel' = Idle
  /\ UNCHANGED <<task, group, retried, delivered, recycled>>

Agent(t) ==
  \/ Launch(t) \/ Register(t) \/ Create(t) \/ Beat(t) \/ BeatWritten(t) \/ Finish(t)
  \/ Settle(t) \/ Persist(t) \/ ReadTasks(t) \/ UpdateGroup(t) \/ Note(t)
  \/ MarkQueued(t) \/ Tell(t) \/ StoreFails(t)

Session == Begin \/ Fire \/ Inject \/ (\E g \in Groups : Consume(g)) \/ End \/ Interrupt

Cancellation ==
  \/ \E g \in Groups : Recycle(g) \/ CancelGroup(g) \/ WriteGroup(g) \/ WakeByHand(g)
  \/ CancelSession \/ Abort \/ ListTasks \/ ListGroups \/ Cancelled
  \/ \E t \in Tasks : MarkCancelled(t)

Next == (\E t \in Tasks : Agent(t)) \/ Session \/ Cancellation \/ Crash

Spec == Init /\ [][Next]_vars

(* What has begun goes on: promises resolve and timers fire.  That a user  *)
(* begins a turn, launches agents or cancels them, and that an agent's own *)
(* run ends, is left open.                                                 *)
Fairness ==
  /\ \A t \in Tasks :
       /\ WF_vars(Register(t)) /\ WF_vars(Create(t)) /\ WF_vars(BeatWritten(t))
       /\ WF_vars(Settle(t)) /\ WF_vars(Persist(t)) /\ WF_vars(ReadTasks(t))
       /\ WF_vars(UpdateGroup(t)) /\ WF_vars(Note(t)) /\ WF_vars(MarkQueued(t))
       /\ WF_vars(Tell(t))
  /\ WF_vars(Inject) /\ WF_vars(Fire) /\ \A g \in Groups : WF_vars(Consume(g))

FairSpec == Spec /\ Fairness

-------------------------------------------------------------------------------
(* A task that was running when the user recycled it is stopped: its       *)
(* record has ended for good, and an agent that still runs under it has    *)
(* had its controller aborted.                                             *)
RecycledAreStopped == \A t \in recycled :
  /\ task[t] \in Terminal
  /\ pc[t] = "running" => t \in aborted

(* A group whose report is marked as consumed was reported to the model,   *)
(* unless the session's work was cancelled.                                *)
ConsumedIsDelivered == \A g \in Groups :
  group[g].consumed => delivered[g] > 0 \/ "session" \in happened

(* Whatever heartbeats, late endings, cancellations and later members      *)
(* write to the records, a task that has ended does not run again, and     *)
(* nothing that was promised to a group is weakened: nobody leaves it, a   *)
(* wake-up that was asked for stays, and the wait only becomes stricter.   *)
RecordsOnlyAdvance ==
  [][/\ \A t \in Tasks : task[t] \in Terminal => task'[t] \in Terminal
     /\ \A g \in Groups :
          /\ group[g].members \subseteq group'[g].members
          /\ group[g].wakeParent => group'[g].wakeParent
          /\ Exists(g) => group'[g].waitFor = Stronger(group[g].waitFor, group'[g].waitFor)
          /\ group[g].queued => group'[g].queued]_vars

(* When all agents of a group that is to wake its parent have ended, its   *)
(* report reaches the model, unless a crash, a failure of the store or the *)
(* user's own wake-up came between.                                        *)
LastFinisherWakes == \A g \in Groups :
  (/\ Exists(g) /\ group[g].wakeParent /\ group[g].waitFor # "none"
   /\ \A t \in group[g].members : pc[t] = "end")
    ~> (delivered[g] > 0 \/ happened \cap {"crash", "store", "byHand"} # {})

(* A group that waits for all its members counts as completed only when    *)
(* every task in it has ended.  The code does not keep this: a member that *)
(* has joined but has no record yet is not counted.                        *)
AllMeansAll ==
  [][\A t \in Tasks :
       (ReadTasks(t) /\ t \in tally' /\ group[GroupOf[t]].waitFor = "all")
         => \A m \in group[GroupOf[t]].members : task[m] \in Terminal]_vars

===============================================================================
