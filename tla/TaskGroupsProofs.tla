---------------------------- MODULE TaskGroupsProofs ----------------------------
(***************************************************************************)
(* What TaskGroups guarantees for any tasks, groups and policies, and any  *)
(* disturbances in any number.                                             *)
(***************************************************************************)
EXTENDS TaskGroups, TLAPS

(***************************************************************************)
(* The inductive invariant.                                                *)
(***************************************************************************)
(* A heartbeat under way holds what the record says: whoever else would    *)
(* write the record waits for it.  And a record is there only after the    *)
(* agent has made it.                                                      *)
Recorded(t) ==
  /\ ~Unlocked(t) => beat[t] = task[t]
  /\ pc[t] \in {"idle", "starting", "create"} => task[t] = "none"

(* A recycling has its tasks from the records of its group, and aborts     *)
(* their agents before it marks them.                                      *)
Recycling(t) ==
  cancel.kind = "recycle" /\ t \in cancel.left =>
    /\ task[t] # "none" /\ GroupOf[t] \in cancel.groups
    /\ cancel.at \in {"abort", "mark"}
    /\ cancel.at = "mark" /\ pc[t] = "running" => t \in aborted

Stopped(t) ==
  t \in recycled => /\ task[t] \in Terminal
                    /\ pc[t] = "running" => t \in aborted

(* Only agents of a group are its members, one without members promises    *)
(* nothing, and what is consumed was injected, or the session was          *)
(* cancelled.                                                              *)
Grouped(g) ==
  /\ \A t \in group[g].members : GroupOf[t] = g
  /\ ~Exists(g) => ~group[g].wakeParent
  /\ g \in injected => delivered[g] > 0
  /\ group[g].consumed => delivered[g] > 0 \/ "session" \in happened

Inv ==
  /\ TypeOK
  /\ \A t \in Tasks : Recorded(t) /\ Recycling(t) /\ Stopped(t)
  /\ \A g \in Groups : Grouped(g)
  /\ cancel.kind = "session" => "session" \in happened
  /\ cancel.at = "list" => cancel.kind = "session"
-------------------------------------------------------------------------------
(***************************************************************************)
(* Facts about a single step.                                              *)
(***************************************************************************)
LEMMA GotoPlace ==
  ASSUME pc \in [Tasks -> Places], NEW t \in Tasks, NEW place \in Places, Goto(t, place)
  PROVE  /\ pc' \in [Tasks -> Places] /\ pc'[t] = place
         /\ \A s \in Tasks \ {t} : pc'[s] = pc[s]
  BY DEF Goto

LEMMA HappensOnce ==
  ASSUME NEW operation, Happens(operation), happened \subseteq Operations
  PROVE  happened' \subseteq Operations /\ operation \in happened' /\ happened \subseteq happened'
  BY DEF Happens

(* Joining a group strengthens what it waits for.                          *)
LEMMA StrongerWait ==
  ASSUME NEW w \in Waits, NEW v \in Waits
  PROVE  /\ Stronger(w, v) \in Waits
         /\ Stronger(w, Stronger(w, v)) = Stronger(w, v)
         /\ Stronger(w, w) = w
  BY DEF Stronger, Waits

LEMMA PoliciesType ==
  ASSUME NEW policy \in Policies
  PROVE  policy[1] \in Waits /\ policy[2] \in BOOLEAN
  BY PoliciesAssumption DEF Waits

LEMMA Replaced ==
  ASSUME group \in [Groups -> Group], NEW g \in Groups, NEW r \in Group,
         group' = [group EXCEPT ![g] = r]
  PROVE  /\ group' \in [Groups -> Group] /\ group'[g] = r
         /\ \A h \in Groups \ {g} : group'[h] = group[h]
<1>1. \A h \in Groups : group'[h] = IF h = g THEN r ELSE group[h]
  OBVIOUS
<1>2. \A h \in Groups : group'[h] \in Group
  BY <1>1
<1> QED  BY <1>1, <1>2

LEMMA Marked ==
  ASSUME NEW record \in Group, NEW value \in BOOLEAN
  PROVE  /\ [record EXCEPT !.done = value] \in Group
         /\ [record EXCEPT !.queued = value] \in Group
         /\ [record EXCEPT !.consumed = value] \in Group
  BY DEF Group

LEMMA Joined ==
  ASSUME group \in [Groups -> Group], NEW g \in Groups, NEW t \in Tasks, NEW w \in Waits,
         NEW wake \in BOOLEAN, Join(g, t, w, wake)
  PROVE  /\ group' \in [Groups -> Group]
         /\ \A h \in Groups \ {g} : group'[h] = group[h]
         /\ group'[g].members = group[g].members \cup {t}
         /\ Exists(g) => /\ group'[g].waitFor = Stronger(group[g].waitFor, w)
                         /\ group'[g].wakeParent = (group[g].wakeParent \/ wake)
         /\ group'[g].queued = group[g].queued
         /\ group'[g].consumed = group[g].consumed
<1> DEFINE more == [group[g] EXCEPT !.members = group[g].members \cup {t},
                                    !.waitFor = Stronger(group[g].waitFor, w),
                                    !.wakeParent = group[g].wakeParent \/ wake]
           first == [group[g] EXCEPT !.members = {t}, !.waitFor = w, !.wakeParent = wake]
           r == IF Exists(g) THEN more ELSE first
<1>1. group' = [group EXCEPT ![g] = r]
  BY DEF Join
<1>2. /\ more \in Group /\ more.members = group[g].members \cup {t}
      /\ more.waitFor = Stronger(group[g].waitFor, w)
      /\ more.wakeParent = (group[g].wakeParent \/ wake)
      /\ more.queued = group[g].queued /\ more.consumed = group[g].consumed
  BY StrongerWait DEF Group
<1>3. /\ first \in Group /\ first.members = {t}
      /\ first.queued = group[g].queued /\ first.consumed = group[g].consumed
  BY DEF Group
<1> HIDE DEF more, first
<1>4. r \in Group
  BY <1>2, <1>3
<1>5. /\ group' \in [Groups -> Group] /\ group'[g] = r
      /\ \A h \in Groups \ {g} : group'[h] = group[h]
  BY <1>1, <1>4, Replaced
<1> QED  BY <1>2, <1>3, <1>5 DEF Exists

LEMMA InitInv == Init => Inv
<1> SUFFICES ASSUME Init PROVE Inv
  OBVIOUS
<1>1. TypeOK
  <2>1. NoGroup \in Group
    BY DEF NoGroup, Group, Waits
  <2>2. group \in [Groups -> Group] /\ Idle.snap \in Snapshots
    BY <2>1 DEF Init, Idle, Snapshots
  <2>3. cancel \in [at : {"idle", "abort", "list", "mark", "snap", "write"},
                   kind : {"none", "recycle", "command", "session"},
                   left : SUBSET Tasks, groups : SUBSET Groups, snap : Snapshots]
    BY <2>2 DEF Init, Idle
  <2>4. delivered \in [Groups -> 0..MaxDeliveries]
    BY BoundsAssumption DEF Init
  <2> QED  BY <2>2, <2>3, <2>4 DEF Init, TypeOK, Statuses, Places
<1>2. \A t \in Tasks : Recorded(t) /\ Recycling(t) /\ Stopped(t)
  BY DEF Init, Recorded, Recycling, Stopped, Idle, Unlocked
<1>3. \A g \in Groups : Grouped(g)
  BY DEF Init, Grouped, NoGroup, Exists
<1> QED  BY <1>1, <1>2, <1>3 DEF Inv, Init, Idle

(***************************************************************************)
(* Every step preserves the type.                                          *)
(***************************************************************************)
(* The steps that only move an agent on, or only touch the session.        *)
LEMMA TypeStep ==
  ASSUME TypeOK, [Next]_vars
  PROVE  TypeOK'
<1> USE DEF TypeOK
<1>1. CASE UNCHANGED vars
  BY <1>1 DEF vars, agents, session, history
<1>2. ASSUME NEW t \in Tasks, Launch(t) PROVE TypeOK'
  <2>1. Goto(t, "starting") /\ "starting" \in Places
    BY <1>2 DEF Launch, Places
  <2>2. PICK policy \in Policies : Join(GroupOf[t], t, policy[1], policy[2])
    BY <1>2 DEF Launch
  <2>3. GroupOf[t] \in Groups
    BY GroupOfAssumption
  <2> QED  BY <1>2, <2>1, <2>2, <2>3, GotoPlace, PoliciesType, Joined
           DEF Launch, session, history
<1>3. ASSUME NEW t \in Tasks, Register(t) \/ Finish(t) PROVE TypeOK'
  <2>1. PICK place \in {"create", "settle"} : Goto(t, place)
    BY <1>3 DEF Register, Finish
  <2> QED  BY <1>3, <2>1, GotoPlace DEF Register, Finish, session, history, Places
<1>4. ASSUME NEW t \in Tasks, Create(t) \/ Settle(t) \/ Persist(t) PROVE TypeOK'
  <2>1. PICK place \in {"running", "persist", "read"} : Goto(t, place)
    BY <1>4 DEF Create, Settle, Persist
  <2>2. task' \in [Tasks -> Statuses]
    BY <1>4 DEF Create, Settle, Persist, Statuses
  <2> QED  BY <1>4, <2>1, <2>2, GotoPlace DEF Create, Settle, Persist, session, history, Places
<1>5. ASSUME NEW t \in Tasks, Beat(t) \/ BeatWritten(t) PROVE TypeOK'
  BY <1>5 DEF Beat, BeatWritten, agents, session, history, Statuses
<1>6. ASSUME NEW t \in Tasks, ReadTasks(t) PROVE TypeOK'
  <2>1. Goto(t, "update") /\ "update" \in Places /\ tally' \subseteq Tasks
    BY <1>6 DEF ReadTasks, Places
  <2> QED  BY <1>6, <2>1, GotoPlace DEF ReadTasks, session, history
<1>7. ASSUME NEW t \in Tasks, UpdateGroup(t) PROVE TypeOK'
  <2>1. PICK place \in {"note", "end"} : Goto(t, place)
    BY <1>7 DEF UpdateGroup
  <2> DEFINE r == [group[GroupOf[t]] EXCEPT !.done = t \in tally]
  <2>2. group' = [group EXCEPT ![GroupOf[t]] = r]
    BY <1>7 DEF UpdateGroup
  <2>3. GroupOf[t] \in Groups
    BY GroupOfAssumption
  <2>4. r \in Group
    <3>1. group[GroupOf[t]] \in Group
      BY <2>3
    <3>2. (t \in tally) \in BOOLEAN
      OBVIOUS
    <3> QED  BY <3>1, <3>2, Marked
  <2>5. group' \in [Groups -> Group]
    BY <2>2, <2>3, <2>4, Replaced
  <2> QED  BY <1>7, <2>1, <2>5, GotoPlace DEF UpdateGroup, session, history, Places
<1>8. ASSUME NEW t \in Tasks, Note(t) \/ Tell(t) PROVE TypeOK'
  <2>1. PICK place \in {"mark", "end"} : Goto(t, place)
    BY <1>8 DEF Note, Tell
  <2>2. pending' \subseteq Groups /\ timer' \in BOOLEAN
    BY <1>8, GroupOfAssumption DEF Note, Tell, NoteHandoff
  <2> QED  BY <1>8, <2>1, <2>2, GotoPlace DEF Note, Tell, history, Places
<1>9. ASSUME NEW t \in Tasks, MarkQueued(t) PROVE TypeOK'
  <2>1. Goto(t, "tell") /\ "tell" \in Places
    BY <1>9 DEF MarkQueued, Places
  <2> DEFINE r == [group[GroupOf[t]] EXCEPT !.queued = TRUE]
  <2>2. group' = [group EXCEPT ![GroupOf[t]] = r]
    BY <1>9 DEF MarkQueued
  <2>3. GroupOf[t] \in Groups
    BY GroupOfAssumption
  <2>4. r \in Group
    BY <2>3, Marked
  <2>5. group' \in [Groups -> Group]
    BY <2>2, <2>3, <2>4, Replaced
  <2> QED  BY <1>9, <2>1, <2>5, GotoPlace DEF MarkQueued, session, history
<1>10. ASSUME NEW t \in Tasks, StoreFails(t) PROVE TypeOK'
  <2>1. PICK place \in {"persist", "end"} : Goto(t, place)
    BY <1>10 DEF StoreFails
  <2>2. happened' \subseteq Operations /\ retried' \subseteq Tasks
    BY <1>10, HappensOnce DEF StoreFails
  <2> QED  BY <1>10, <2>1, <2>2, GotoPlace DEF StoreFails, session, Places
<1>11. CASE Begin \/ Fire \/ End
  BY <1>11 DEF Begin, Fire, End, agents, history
<1>12. CASE Inject
  <2>1. delivered' \in [Groups -> 0..MaxDeliveries]
    BY <1>12, BoundsAssumption DEF Inject
  <2> QED  BY <1>12, <2>1 DEF Inject, agents
<1>13. ASSUME NEW g \in Groups, Consume(g) PROVE TypeOK'
  <2>1. group' \in [Groups -> Group]
    BY <1>13 DEF Consume, Group
  <2> QED  BY <1>13, <2>1 DEF Consume, agents, history
<1>14. CASE Interrupt
  <2>1. happened' \subseteq Operations
    BY <1>14, HappensOnce DEF Interrupt
  <2> QED  BY <1>14, <2>1 DEF Interrupt, agents
<1>15. ASSUME NEW g \in Groups, Recycle(g) \/ CancelGroup(g) PROVE TypeOK'
  <2>1. happened' \subseteq Operations
    BY <1>15, HappensOnce DEF Recycle, CancelGroup
  <2>2. PICK kind \in {"recycle", "command"}, left \in SUBSET Tasks :
          cancel' = [at |-> "abort", kind |-> kind, groups |-> {g}, left |-> left,
                     snap |-> [h \in Groups |-> group[h]]]
    BY <1>15 DEF Recycle, CancelGroup, Group
  <2>3. [h \in Groups |-> group[h]] \in Snapshots
    BY DEF Snapshots
  <2> QED  BY <1>15, <2>1, <2>2, <2>3 DEF Recycle, CancelGroup, agents, session
<1>16. CASE Abort \/ CancelSession
  <2>1. happened' \subseteq Operations
    BY <1>16, HappensOnce DEF Abort, CancelSession, history
  <2>2. aborted' \subseteq Tasks
    BY <1>16 DEF Abort, CancelSession, AbortOf
  <2>3. CASE Abort
    BY <2>1, <2>2, <2>3 DEF Abort, session, history
  <2>4. CASE CancelSession
    BY <2>1, <2>2, <2>4 DEF CancelSession, session, Idle, Snapshots, NoGroup, Group, Waits
  <2> QED  BY <1>16, <2>3, <2>4
<1>17. CASE ListTasks \/ ListGroups
  <2>1. [g \in Groups |-> group[g]] \in Snapshots
    BY DEF Snapshots
  <2>2. CASE ListTasks
    BY <2>2 DEF ListTasks, agents, session, history
  <2>3. CASE ListGroups
    BY <2>1, <2>3 DEF ListGroups, agents, session, history
  <2> QED  BY <1>17, <2>2, <2>3
<1>18. ASSUME NEW t \in Tasks, MarkCancelled(t) PROVE TypeOK'
  <2>1. task' \in [Tasks -> Statuses] /\ recycled' \subseteq Tasks
    BY <1>18 DEF MarkCancelled, Statuses
  <2> QED  BY <1>18, <2>1 DEF MarkCancelled, agents, session
<1>19. ASSUME NEW g \in Groups, WriteGroup(g) PROVE TypeOK'
  <2>1. cancel.snap[g] \in Group
    BY DEF Snapshots
  <2>2. PICK done \in BOOLEAN, consumed \in BOOLEAN :
          group' = [group EXCEPT ![g].done = done, ![g].consumed = consumed]
    BY <1>19, <2>1 DEF WriteGroup, Completed, Group
  <2>3. group' = [group EXCEPT ![g] = [@ EXCEPT !.done = done, !.consumed = consumed]]
    BY <2>2
  <2>4. [group[g] EXCEPT !.done = done, !.consumed = consumed] \in Group
    BY DEF Group
  <2>5. group' \in [Groups -> Group]
    BY <2>3, <2>4
  <2> QED  BY <1>19, <2>5 DEF WriteGroup, agents, session, history
<1>20. CASE Cancelled
  BY <1>20 DEF Cancelled, agents, session, history, Idle, Snapshots, NoGroup, Group, Waits
<1>21. ASSUME NEW g \in Groups, WakeByHand(g) PROVE TypeOK'
  <2>1. group' \in [Groups -> Group]
    BY <1>21 DEF WakeByHand, Group
  <2> QED  BY <1>21, <2>1, HappensOnce DEF WakeByHand, agents, session
<1>22. CASE Crash
  <2>1. pc' \in [Tasks -> Places] /\ beat' \in [Tasks -> Statuses]
    BY <1>22 DEF Crash, Places, Statuses
  <2>2. happened' \subseteq Operations
    BY <1>22, HappensOnce DEF Crash
  <2> QED  BY <1>22, <2>1, <2>2 DEF Crash, Idle, Snapshots, NoGroup, Group, Waits
<1> QED
  BY <1>1, <1>2, <1>3, <1>4, <1>5, <1>6, <1>7, <1>8, <1>9, <1>10, <1>11, <1>12, <1>13, <1>14,
     <1>15, <1>16, <1>17, <1>18, <1>19, <1>20, <1>21, <1>22
  DEF Next, Agent, Session, Cancellation

(* Whether a step lets an agent join its group or not, the groups' files   *)
(* only advance; and a group is marked as consumed only after its          *)
(* injection or by the cancellation of the session's work.                 *)
LEMMA Rewritten ==
  ASSUME TypeOK, NEW g \in Groups, NEW r \in Group, group' = [group EXCEPT ![g] = r],
         r.members = group[g].members, r.waitFor = group[g].waitFor,
         r.wakeParent = group[g].wakeParent, group[g].queued => r.queued
  PROVE  \A h \in Groups :
           /\ group'[h].members = group[h].members
           /\ group'[h].waitFor = group[h].waitFor
           /\ group'[h].wakeParent = group[h].wakeParent
           /\ group[h].queued => group'[h].queued
           /\ group'[h].consumed => group[h].consumed \/ (h = g /\ r.consumed)
<1>1. /\ group'[g] = r /\ \A h \in Groups \ {g} : group'[h] = group[h]
  BY Replaced DEF TypeOK
<1> QED  BY <1>1

LEMMA GroupStep ==
  ASSUME TypeOK, [Next]_vars
  PROVE  \/ \E t \in Tasks : Launch(t)
         \/ \A g \in Groups :
              /\ group'[g].members = group[g].members
              /\ group'[g].waitFor = group[g].waitFor
              /\ group'[g].wakeParent = group[g].wakeParent
              /\ group[g].queued => group'[g].queued
              /\ group'[g].consumed => \/ group[g].consumed
                                       \/ g \in injected
                                       \/ cancel.kind = "session"
<1> DEFINE Advanced == \A g \in Groups :
             /\ group'[g].members = group[g].members
             /\ group'[g].waitFor = group[g].waitFor
             /\ group'[g].wakeParent = group[g].wakeParent
             /\ group[g].queued => group'[g].queued
             /\ group'[g].consumed => \/ group[g].consumed
                                      \/ g \in injected
                                      \/ cancel.kind = "session"
<1> SUFFICES ASSUME ~\E t \in Tasks : Launch(t) PROVE Advanced
  OBVIOUS
<1>0. group \in [Groups -> Group] /\ cancel.snap \in Snapshots
  BY DEF TypeOK
<1>1. ASSUME NEW t \in Tasks, UpdateGroup(t) PROVE Advanced
  <2> DEFINE r == [group[GroupOf[t]] EXCEPT !.done = t \in tally]
  <2>1. group' = [group EXCEPT ![GroupOf[t]] = r]
    BY <1>1 DEF UpdateGroup
  <2>2. GroupOf[t] \in Groups /\ group[GroupOf[t]] \in Group
    BY <1>0, GroupOfAssumption
  <2>3. (t \in tally) \in BOOLEAN
    OBVIOUS
  <2>4. r \in Group
    BY <2>2, <2>3, Marked
  <2>5. /\ r.members = group[GroupOf[t]].members /\ r.waitFor = group[GroupOf[t]].waitFor
        /\ r.wakeParent = group[GroupOf[t]].wakeParent
        /\ r.queued = group[GroupOf[t]].queued /\ r.consumed = group[GroupOf[t]].consumed
    BY <2>2 DEF Group
  <2> HIDE DEF r
  <2> QED  BY <2>1, <2>2, <2>4, <2>5, Rewritten
<1>2. ASSUME NEW t \in Tasks, MarkQueued(t) PROVE Advanced
  <2> DEFINE r == [group[GroupOf[t]] EXCEPT !.queued = TRUE]
  <2>1. group' = [group EXCEPT ![GroupOf[t]] = r]
    BY <1>2 DEF MarkQueued
  <2>2. GroupOf[t] \in Groups /\ group[GroupOf[t]] \in Group
    BY <1>0, GroupOfAssumption
  <2>3. r \in Group
    BY <2>2, Marked
  <2>4. /\ r.members = group[GroupOf[t]].members /\ r.waitFor = group[GroupOf[t]].waitFor
        /\ r.wakeParent = group[GroupOf[t]].wakeParent
        /\ r.queued /\ r.consumed = group[GroupOf[t]].consumed
    BY <2>2 DEF Group
  <2> HIDE DEF r
  <2> QED  BY <2>1, <2>2, <2>3, <2>4, Rewritten
<1>3. ASSUME NEW g \in Groups, WakeByHand(g) PROVE Advanced
  <2> DEFINE r == [group[g] EXCEPT !.queued = TRUE]
  <2>1. group' = [group EXCEPT ![g] = r]
    BY <1>3 DEF WakeByHand
  <2>2. r \in Group
    BY <1>0, Marked
  <2>3. /\ r.members = group[g].members /\ r.waitFor = group[g].waitFor
        /\ r.wakeParent = group[g].wakeParent
        /\ r.queued /\ r.consumed = group[g].consumed
    BY <1>0 DEF Group
  <2> HIDE DEF r
  <2> QED  BY <2>1, <2>2, <2>3, Rewritten
<1>4. ASSUME NEW g \in Groups, Consume(g) PROVE Advanced
  <2> DEFINE r == [group[g] EXCEPT !.consumed = TRUE]
  <2>1. group' = [group EXCEPT ![g] = r] /\ g \in injected
    BY <1>4 DEF Consume
  <2>2. r \in Group
    BY <1>0, Marked
  <2>3. /\ r.members = group[g].members /\ r.waitFor = group[g].waitFor
        /\ r.wakeParent = group[g].wakeParent /\ r.queued = group[g].queued
    BY <1>0 DEF Group
  <2> HIDE DEF r
  <2> QED  BY <2>1, <2>2, <2>3, Rewritten
<1>5. ASSUME NEW g \in Groups, WriteGroup(g) PROVE Advanced
  <2>1. cancel.snap[g] \in Group
    BY <1>0 DEF Snapshots
  <2>2. PICK done \in BOOLEAN, consumed \in BOOLEAN :
          /\ group' = [group EXCEPT ![g].done = done, ![g].consumed = consumed]
          /\ consumed => group[g].consumed \/ cancel.kind = "session"
    BY <1>0, <1>5, <2>1 DEF WriteGroup, Completed, Group
  <2> DEFINE r == [group[g] EXCEPT !.done = done, !.consumed = consumed]
  <2>3. group' = [group EXCEPT ![g] = [@ EXCEPT !.done = done, !.consumed = consumed]]
    BY <2>2
  <2>4. group' = [group EXCEPT ![g] = r]
    BY <2>3
  <2>5. r \in Group
    BY <1>0 DEF Group
  <2>6. /\ r.members = group[g].members /\ r.waitFor = group[g].waitFor
        /\ r.wakeParent = group[g].wakeParent
        /\ r.queued = group[g].queued
        /\ r.consumed => consumed
    BY <1>0 DEF Group
  <2> HIDE DEF r
  <2>7. \A h \in Groups :
          /\ group'[h].members = group[h].members
          /\ group'[h].waitFor = group[h].waitFor
          /\ group'[h].wakeParent = group[h].wakeParent
          /\ group[h].queued => group'[h].queued
          /\ group'[h].consumed => group[h].consumed \/ (h = g /\ r.consumed)
    BY <2>4, <2>5, <2>6, Rewritten
  <2> QED  BY <2>2, <2>6, <2>7
<1>6. ASSUME group' = group PROVE Advanced
  BY <1>6
<1>7. ASSUME NEW t \in Tasks, Agent(t) PROVE UpdateGroup(t) \/ MarkQueued(t) \/ group' = group
  BY <1>7 DEF Agent, Register, Create, Beat, BeatWritten, Finish, Settle, Persist, ReadTasks,
              Note, Tell, StoreFails
<1>8. ASSUME Session PROVE (\E g \in Groups : Consume(g)) \/ group' = group
  BY <1>8 DEF Session, Begin, Fire, Inject, End, Interrupt
<1>9. ASSUME Cancellation
      PROVE (\E g \in Groups : WriteGroup(g) \/ WakeByHand(g)) \/ group' = group
  BY <1>9 DEF Cancellation, Recycle, CancelGroup, CancelSession, Abort, ListTasks, ListGroups,
              Cancelled, MarkCancelled
<1>10. Crash \/ UNCHANGED vars => group' = group
  BY DEF Crash, vars
<1> HIDE DEF Advanced
<1> QED
  BY <1>1, <1>2, <1>3, <1>4, <1>5, <1>6, <1>7, <1>8, <1>9, <1>10 DEF Next

(* A report that the model's request holds was counted when it was put     *)
(* there; what has happened stays so; only CancelSession cancels it all.   *)
LEMMA ReportStep ==
  ASSUME TypeOK, [Next]_vars
  PROVE  /\ \A g \in Groups : g \in injected' => g \in injected \/ delivered'[g] > 0
         /\ \A g \in Groups : delivered[g] > 0 => delivered'[g] > 0
         /\ happened \subseteq happened'
         /\ cancel'.kind = "session" => cancel.kind = "session" \/ "session" \in happened'
         /\ cancel'.at = "list" => cancel'.kind = "session" \/ cancel' = cancel
<1> DEFINE Reported == /\ \A g \in Groups : g \in injected' => g \in injected \/ delivered'[g] > 0
                       /\ \A g \in Groups : delivered[g] > 0 => delivered'[g] > 0
           Remembered == /\ happened \subseteq happened'
                         /\ cancel'.kind = "session" =>
                              cancel.kind = "session" \/ "session" \in happened'
                         /\ cancel'.at = "list" => cancel'.kind = "session" \/ cancel' = cancel
<1>1. CASE Inject
  <2>1. \A g \in Groups : delivered'[g] = IF g \in pending /\ delivered[g] < MaxDeliveries
                                          THEN delivered[g] + 1 ELSE delivered[g]
    BY <1>1 DEF Inject
  <2>2. \A g \in Groups : delivered[g] \in Nat
    BY BoundsAssumption DEF TypeOK
  <2> QED  BY <1>1, <2>1, <2>2, BoundsAssumption DEF Inject
<1>2. Inject \/ (injected' \subseteq injected /\ delivered' = delivered)
  <2>1. ASSUME NEW t \in Tasks, Agent(t) PROVE injected' = injected /\ delivered' = delivered
    BY <2>1 DEF Agent, Launch, Register, Create, Beat, BeatWritten, Finish, Settle, Persist,
                ReadTasks, UpdateGroup, Note, MarkQueued, Tell, StoreFails, session, history
  <2>2. ASSUME Session
        PROVE Inject \/ (injected' \subseteq injected /\ delivered' = delivered)
    BY <2>2 DEF Session, Begin, Fire, Consume, End, Interrupt, history
  <2>3. ASSUME Cancellation PROVE injected' = injected /\ delivered' = delivered
    BY <2>3 DEF Cancellation, Recycle, CancelGroup, CancelSession, Abort, ListTasks, ListGroups,
                Cancelled, MarkCancelled, WriteGroup, WakeByHand, session, history
  <2> QED  BY <2>1, <2>2, <2>3 DEF Next, Crash, vars, session, history
<1>3. Reported
  BY <1>1, <1>2
<1>4. Remembered
  <2>1. ASSUME NEW t \in Tasks, Agent(t) PROVE happened \subseteq happened' /\ cancel' = cancel
    BY <2>1, HappensOnce
       DEF Agent, Launch, Register, Create, Beat, BeatWritten, Finish, Settle, Persist,
           ReadTasks, UpdateGroup, Note, MarkQueued, Tell, StoreFails, history, TypeOK
  <2>2. ASSUME Session PROVE happened \subseteq happened' /\ cancel' = cancel
    BY <2>2, HappensOnce
       DEF Session, Begin, Fire, Inject, Consume, End, Interrupt, history, TypeOK
  <2>3. ASSUME NEW g \in Groups, Recycle(g) \/ CancelGroup(g) \/ WakeByHand(g) PROVE Remembered
    BY <2>3, HappensOnce DEF Recycle, CancelGroup, WakeByHand, TypeOK
  <2>4. CASE CancelSession
    BY <2>4, HappensOnce DEF CancelSession, TypeOK
  <2>5. ASSUME NEW g \in Groups, WriteGroup(g) PROVE Remembered
    BY <2>5 DEF WriteGroup, history, TypeOK
  <2>6. CASE Abort \/ ListTasks \/ ListGroups \/ Cancelled
    <3>1. (cancel'.at # "list" /\ cancel'.kind = cancel.kind) \/ cancel' = Idle
      BY <2>6 DEF Abort, ListTasks, ListGroups, Cancelled, TypeOK
    <3>2. UNCHANGED happened
      BY <2>6 DEF Abort, ListTasks, ListGroups, Cancelled, history
    <3> QED  BY <3>1, <3>2 DEF Idle
  <2>7. ASSUME NEW t \in Tasks, MarkCancelled(t) PROVE Remembered
    BY <2>7 DEF MarkCancelled, TypeOK
  <2>8. CASE Crash
    BY <2>8, HappensOnce DEF Crash, TypeOK, Idle
  <2>9. CASE UNCHANGED vars
    BY <2>9 DEF vars, history
  <2> HIDE DEF Remembered
  <2>10. Cancellation => Remembered
    BY <2>3, <2>4, <2>5, <2>6, <2>7 DEF Cancellation
  <2>11. (\E t \in Tasks : Agent(t)) \/ Session => Remembered
    BY <2>1, <2>2 DEF Remembered
  <2> QED  BY <2>8, <2>9, <2>10, <2>11 DEF Next
<1> QED  BY <1>3, <1>4

(* The groups' part of the invariant.                                      *)
LEMMA GroupedStep ==
  ASSUME Inv, [Next]_vars
  PROVE  \A g \in Groups : Grouped(g)'
<1> SUFFICES ASSUME NEW g \in Groups PROVE Grouped(g)'
  OBVIOUS
<1>1. g \in injected' => delivered'[g] > 0
  BY ReportStep DEF Inv, Grouped
<1>2. ASSUME NEW t \in Tasks, Launch(t) PROVE Grouped(g)'
  <2>1. PICK policy \in Policies : Join(GroupOf[t], t, policy[1], policy[2])
    BY <1>2 DEF Launch
  <2>2. GroupOf[t] \in Groups
    BY GroupOfAssumption
  <2>3. /\ \A h \in Groups \ {GroupOf[t]} : group'[h] = group[h]
        /\ group'[GroupOf[t]].members = group[GroupOf[t]].members \cup {t}
        /\ group'[GroupOf[t]].consumed = group[GroupOf[t]].consumed
    BY <2>1, <2>2, PoliciesType, Joined DEF Inv, TypeOK
  <2>4. UNCHANGED <<delivered, happened>>
    BY <1>2 DEF Launch, history
  <2>5. CASE g = GroupOf[t]
    BY <1>1, <2>2, <2>3, <2>4, <2>5 DEF Inv, Grouped, Exists
  <2>6. CASE g # GroupOf[t]
    BY <1>1, <2>3, <2>4, <2>6 DEF Inv, Grouped, Exists
  <2> QED  BY <2>5, <2>6
<1>3. CASE /\ group'[g].members = group[g].members
           /\ group'[g].wakeParent = group[g].wakeParent
           /\ group'[g].consumed => \/ group[g].consumed
                                    \/ g \in injected
                                    \/ cancel.kind = "session"
  <2>1. group'[g].consumed => delivered'[g] > 0 \/ "session" \in happened'
    BY <1>3, ReportStep DEF Inv, Grouped
  <2> QED  BY <1>1, <1>3, <2>1 DEF Inv, Grouped, Exists
<1> QED  BY <1>2, <1>3, GroupStep DEF Inv

(***************************************************************************)
(* The tasks' part of the invariant, one action after the other.           *)
(***************************************************************************)
(* A step that leaves the record, the agent, the heartbeat, the controller *)
(* and the cancellation of a task alone.                                   *)
Untouched(t) ==
  /\ task'[t] = task[t] /\ beat'[t] = beat[t] /\ pc'[t] = pc[t]
  /\ t \in aborted => t \in aborted'
  /\ cancel' = cancel
  /\ t \in recycled' <=> t \in recycled

Kept(t) == Recorded(t) /\ Recycling(t) /\ Stopped(t)

LEMMA UntouchedStep ==
  ASSUME NEW t \in Tasks, Kept(t), Untouched(t)
  PROVE  Kept(t)'
  BY DEF Kept, Untouched, Recorded, Recycling, Stopped, Unlocked

LEMMA AgentStep ==
  ASSUME Inv, NEW t \in Tasks, NEW s \in Tasks, Agent(s)
  PROVE  Kept(t)'
<1>0. /\ TypeOK /\ Kept(t)
  BY DEF Inv, Kept
<1>1. CASE t # s
  <2>1. ASSUME NEW place, Goto(s, place) PROVE pc'[t] = pc[t]
    BY <1>1, <2>1 DEF Goto
  <2>2. pc'[t] = pc[t]
    BY <2>1 DEF Agent, Launch, Register, Create, Beat, BeatWritten, Finish, Settle, Persist,
                ReadTasks, UpdateGroup, Note, MarkQueued, Tell, StoreFails, agents
  <2>3. task'[t] = task[t] /\ beat'[t] = beat[t]
    BY <1>0, <1>1
       DEF Agent, Launch, Register, Create, Beat, BeatWritten, Finish, Settle, Persist,
           ReadTasks, UpdateGroup, Note, MarkQueued, Tell, StoreFails, TypeOK
  <2>4. UNCHANGED <<aborted, cancel, recycled>>
    BY DEF Agent, Launch, Register, Create, Beat, BeatWritten, Finish, Settle, Persist,
           ReadTasks, UpdateGroup, Note, MarkQueued, Tell, StoreFails, agents, history
  <2> QED  BY <1>0, <2>2, <2>3, <2>4, UntouchedStep DEF Untouched
<1>2. CASE t = s
  <2> USE <1>2
  <2>0. ASSUME NEW place, Goto(t, place) PROVE pc'[t] = place
    BY <1>0, <2>0 DEF Goto, TypeOK
  <2>1. ASSUME Launch(t) \/ Register(t) PROVE Kept(t)'
    <3>1. pc[t] \in {"idle", "starting"} /\ pc'[t] \in {"starting", "create"}
      BY <2>0, <2>1 DEF Launch, Register
    <3> QED  BY <1>0, <2>1, <3>1
             DEF Launch, Register, Kept, Recorded, Recycling, Stopped, Unlocked, history
  <2>2. ASSUME Create(t) PROVE Kept(t)'
    <3>1. pc[t] = "create" /\ task[t] = "none" /\ pc'[t] = "running" /\ task'[t] = "running"
      BY <1>0, <2>0, <2>2 DEF Create, Kept, Recorded, TypeOK
    <3>2. beat[t] = "none" /\ t \notin recycled
      BY <1>0, <3>1 DEF Kept, Recorded, Stopped, Unlocked, Terminal
    <3> QED  BY <1>0, <2>2, <3>1, <3>2
             DEF Create, Kept, Recorded, Recycling, Stopped, Unlocked, history
  <2>3. ASSUME Beat(t) PROVE Kept(t)'
    <3>1. beat'[t] = task[t] /\ pc[t] = "running"
      BY <1>0, <2>3 DEF Beat, TypeOK
    <3> QED  BY <1>0, <2>3, <3>1
             DEF Beat, Kept, Recorded, Recycling, Stopped, Unlocked, agents, history
  <2>4. ASSUME BeatWritten(t) PROVE Kept(t)'
    <3>1. beat'[t] = "none" /\ task'[t] = task[t]
      BY <1>0, <2>4 DEF BeatWritten, TypeOK, Kept, Recorded
    <3> QED  BY <1>0, <2>4, <3>1
             DEF BeatWritten, Kept, Recorded, Recycling, Stopped, Unlocked, agents, history
  <2>5. ASSUME Settle(t) \/ Persist(t) PROVE Kept(t)'
    <3>1. pc'[t] \in {"persist", "read"} /\ beat'[t] = "none"
      BY <2>0, <2>5 DEF Settle, Persist, Unlocked
    <3>2. task'[t] = task[t] \/ task'[t] = "finished"
      BY <1>0, <2>5 DEF Settle, Persist, TypeOK
    <3> QED  BY <1>0, <2>5, <3>1, <3>2
             DEF Settle, Persist, Kept, Recorded, Recycling, Stopped, Unlocked, Terminal, history
  <2>6. ASSUME \/ Finish(t) \/ ReadTasks(t) \/ UpdateGroup(t) \/ Note(t) \/ MarkQueued(t)
               \/ Tell(t) \/ StoreFails(t)
        PROVE  Kept(t)'
    <3>1. pc'[t] \notin {"idle", "starting", "create", "running"}
      BY <2>0, <2>6 DEF Finish, ReadTasks, UpdateGroup, Note, MarkQueued, Tell, StoreFails
    <3>2. UNCHANGED <<task, beat, aborted, cancel, recycled>>
      BY <2>6 DEF Finish, ReadTasks, UpdateGroup, Note, MarkQueued, Tell, StoreFails, history
    <3> QED  BY <1>0, <3>1, <3>2 DEF Kept, Recorded, Recycling, Stopped, Unlocked
  <2> QED  BY <2>1, <2>2, <2>3, <2>4, <2>5, <2>6 DEF Agent
<1> QED  BY <1>1, <1>2

LEMMA CancellationStep ==
  ASSUME Inv, NEW t \in Tasks, Cancellation
  PROVE  Kept(t)'
<1>0. /\ TypeOK /\ Kept(t) /\ \A g \in Groups : Grouped(g)
  BY DEF Inv, Kept
<1>1. ASSUME NEW g \in Groups, Recycle(g) PROVE Kept(t)'
  <2>1. \A m \in group[g].members : GroupOf[m] = g /\ task[m] # "none"
    BY <1>0, <1>1 DEF Recycle, Grouped
  <2>2. /\ cancel'.at = "abort" /\ cancel'.kind = "recycle" /\ cancel'.groups = {g}
        /\ cancel'.left \subseteq group[g].members
    BY <1>1 DEF Recycle
  <2>3. UNCHANGED <<task, beat, pc, aborted, recycled>>
    BY <1>1 DEF Recycle, agents
  <2> QED  BY <1>0, <2>1, <2>2, <2>3 DEF Kept, Recorded, Recycling, Stopped, Unlocked
<1>2. ASSUME \/ \E g \in Groups : CancelGroup(g) \/ WriteGroup(g) \/ WakeByHand(g)
             \/ ListTasks \/ ListGroups \/ Cancelled
      PROVE  Kept(t)'
  <2>1. UNCHANGED <<task, beat, pc, aborted, recycled>>
    BY <1>2 DEF CancelGroup, WriteGroup, WakeByHand, ListTasks, ListGroups, Cancelled,
                agents, history
  <2>2. ~(cancel'.kind = "recycle" /\ t \in cancel'.left) \/ cancel' = cancel
    <3>1. ASSUME NEW g \in Groups, CancelGroup(g) \/ WakeByHand(g)
          PROVE  cancel'.kind = "command" \/ cancel' = cancel
      BY <3>1 DEF CancelGroup, WakeByHand
    <3>2. ASSUME NEW g \in Groups, WriteGroup(g)
          PROVE  cancel'.kind = cancel.kind /\ cancel'.left = cancel.left /\ cancel.at = "write"
      BY <1>0, <3>2 DEF WriteGroup, TypeOK
    <3>3. CASE ListTasks
      BY <1>0, <3>3 DEF ListTasks, TypeOK, Inv
    <3>4. CASE ListGroups
      BY <1>0, <3>4 DEF ListGroups, TypeOK
    <3>5. CASE Cancelled
      BY <3>5 DEF Cancelled, Idle
    <3> QED  BY <1>0, <1>2, <3>1, <3>2, <3>3, <3>4, <3>5 DEF Kept, Recycling
  <2> QED  BY <1>0, <2>1, <2>2 DEF Kept, Recorded, Recycling, Stopped, Unlocked
<1>3. CASE CancelSession
  <2>1. UNCHANGED <<task, beat, pc, recycled>> /\ aborted \subseteq aborted'
    BY <1>3 DEF CancelSession, AbortOf
  <2>2. cancel'.kind = "session"
    BY <1>3 DEF CancelSession, Idle
  <2> QED  BY <1>0, <2>1, <2>2 DEF Kept, Recorded, Recycling, Stopped, Unlocked
<1>4. CASE Abort
  <2>1. UNCHANGED <<task, beat, pc, recycled>>
    BY <1>4 DEF Abort, history
  <2>2. /\ aborted \subseteq aborted'
        /\ pc[t] = "running" /\ GroupOf[t] \in cancel.groups => t \in aborted'
    BY <1>4 DEF Abort, AbortOf, Registered
  <2>3. /\ cancel'.at = "mark" /\ cancel'.kind = cancel.kind
        /\ cancel'.groups = cancel.groups /\ cancel'.left = cancel.left
    BY <1>0, <1>4 DEF Abort, TypeOK
  <2> QED  BY <1>0, <2>1, <2>2, <2>3 DEF Kept, Recorded, Recycling, Stopped, Unlocked
<1>5. ASSUME NEW s \in Tasks, MarkCancelled(s) PROVE Kept(t)'
  <2>1. UNCHANGED <<beat, pc, aborted>>
    BY <1>5 DEF MarkCancelled, agents
  <2>2. /\ cancel'.at = "mark" /\ cancel'.kind = cancel.kind /\ cancel.at = "mark"
        /\ cancel'.groups = cancel.groups /\ cancel'.left = cancel.left \ {s} /\ s \in cancel.left
    BY <1>0, <1>5 DEF MarkCancelled, TypeOK
  <2>3. /\ t # s => task'[t] = task[t]
        /\ t = s => task'[t] = (IF task[t] = "none" THEN "none" ELSE "cancelled")
    BY <1>0, <1>5 DEF MarkCancelled, TypeOK
  <2>4. /\ t # s => (t \in recycled' <=> t \in recycled)
        /\ t \in recycled' => t \in recycled \/ cancel.kind = "recycle"
    BY <1>5 DEF MarkCancelled
  <2>5. t = s => Unlocked(t)
    BY <1>5 DEF MarkCancelled
  <2> QED  BY <1>0, <2>1, <2>2, <2>3, <2>4, <2>5
           DEF Kept, Recorded, Recycling, Stopped, Unlocked, Terminal
<1> QED  BY <1>1, <1>2, <1>3, <1>4, <1>5 DEF Cancellation

LEMMA CrashStep ==
  ASSUME Inv, NEW t \in Tasks, Crash
  PROVE  Kept(t)'
<1>0. /\ TypeOK /\ Kept(t)
  BY DEF Inv, Kept
<1>1. /\ UNCHANGED <<task, recycled>> /\ beat'[t] = "none" /\ cancel'.kind = "none"
      /\ pc'[t] = (IF pc[t] = "idle" THEN "idle" ELSE "end")
  BY DEF Crash, Idle
<1> QED  BY <1>0, <1>1 DEF Kept, Recorded, Recycling, Stopped, Unlocked

LEMMA InvStep ==
  ASSUME Inv, [Next]_vars
  PROVE  Inv'
<1>1. TypeOK'
  BY TypeStep DEF Inv
<1>2. \A g \in Groups : Grouped(g)'
  BY GroupedStep
<1>3. \A t \in Tasks : Kept(t)'
  <2> SUFFICES ASSUME NEW t \in Tasks PROVE Kept(t)'
    OBVIOUS
  <2>1. CASE Session \/ UNCHANGED vars
    <3>1. UNCHANGED <<task, beat, pc, aborted, cancel, recycled>>
      BY <2>1 DEF Session, Begin, Fire, Inject, Consume, End, Interrupt, agents, history, vars
    <3> QED  BY <3>1, UntouchedStep DEF Untouched, Inv, Kept
  <2> QED  BY <2>1, AgentStep, CancellationStep, CrashStep DEF Next
<1>4. /\ cancel'.kind = "session" => "session" \in happened'
      /\ cancel'.at = "list" => cancel'.kind = "session"
  BY ReportStep DEF Inv
<1> QED  BY <1>1, <1>2, <1>3, <1>4 DEF Inv, Kept

(* The inductive invariant holds in every reachable state.                 *)
THEOREM Invariance == Spec => []Inv
<1>1. Init => Inv
  BY InitInv
<1>2. Inv /\ [Next]_vars => Inv'
  BY InvStep
<1> QED  BY <1>1, <1>2, PTL DEF Spec

(***************************************************************************)
(* What follows.                                                           *)
(***************************************************************************)
(* The records, the controllers and the reports have their shape, whatever *)
(* the agents, the session and the cancellations do to them.               *)
THEOREM TypeCorrect == Spec => []TypeOK
<1>1. Inv => TypeOK
  BY DEF Inv
<1> QED  BY <1>1, Invariance, PTL

(* runtimeCancelBackgroundSubagent stops what it found running: the record *)
(* has ended for good, late heartbeat or not, and an agent that runs on    *)
(* under it has had its controller aborted.                                *)
THEOREM RecyclingStops == Spec => []RecycledAreStopped
<1>1. Inv => RecycledAreStopped
  <2> SUFFICES ASSUME Inv, NEW t \in recycled
               PROVE  task[t] \in Terminal /\ (pc[t] = "running" => t \in aborted)
    BY DEF RecycledAreStopped
  <2>1. t \in Tasks
    BY DEF Inv, TypeOK
  <2> QED  BY <2>1 DEF Inv, Stopped
<1> QED  BY <1>1, Invariance, PTL

(* markInjectedBackgroundWakeGroups marks only what a request of the model *)
(* held; the one other way to be consumed is the cancellation of all work. *)
THEOREM ConsumptionIsDelivery == Spec => []ConsumedIsDelivered
<1>1. Inv => ConsumedIsDelivered
  BY DEF Inv, Grouped, ConsumedIsDelivered
<1> QED  BY <1>1, Invariance, PTL

(* Every writer of a record has read it under the lock it writes under, or *)
(* writes only what advances it: an ended task stays ended, members stay,  *)
(* a promised wake-up stays and the wait only becomes stricter.            *)
LEMMA TaskAdvances ==
  ASSUME Inv, [Next]_vars, NEW t \in Tasks, task[t] \in Terminal
  PROVE  task'[t] \in Terminal
<1>0. TypeOK /\ Recorded(t)
  BY DEF Inv
<1>1. ASSUME NEW s \in Tasks, Agent(s) PROVE task'[t] \in Terminal
  <2>1. CASE Create(s)
    BY <1>0, <2>1 DEF Create, TypeOK, Recorded, Terminal
  <2>2. CASE BeatWritten(s)
    BY <1>0, <2>2 DEF BeatWritten, TypeOK, Recorded
  <2>3. CASE Settle(s) \/ Persist(s)
    BY <1>0, <2>3 DEF Settle, Persist, TypeOK, Terminal
  <2>4. CASE UNCHANGED task
    BY <2>4
  <2> QED
    BY <1>1, <2>1, <2>2, <2>3, <2>4
    DEF Agent, Launch, Register, Beat, Finish, ReadTasks, UpdateGroup, Note, MarkQueued, Tell,
        StoreFails
<1>2. ASSUME NEW s \in Tasks, MarkCancelled(s) PROVE task'[t] \in Terminal
  BY <1>0, <1>2 DEF MarkCancelled, TypeOK, Terminal
<1>3. CASE UNCHANGED task
  BY <1>3
<1>4. Session \/ Crash \/ UNCHANGED vars => UNCHANGED task
  BY DEF Session, Begin, Fire, Inject, Consume, End, Interrupt, Crash, vars
<1>5. Cancellation => (\E s \in Tasks : MarkCancelled(s)) \/ UNCHANGED task
  BY DEF Cancellation, Recycle, CancelGroup, WriteGroup, WakeByHand, CancelSession, Abort,
         ListTasks, ListGroups, Cancelled
<1> QED  BY <1>1, <1>2, <1>3, <1>4, <1>5 DEF Next

LEMMA GroupAdvances ==
  ASSUME Inv, [Next]_vars, NEW g \in Groups
  PROVE  /\ group[g].members \subseteq group'[g].members
         /\ group[g].wakeParent => group'[g].wakeParent
         /\ Exists(g) => group'[g].waitFor = Stronger(group[g].waitFor, group'[g].waitFor)
         /\ group[g].queued => group'[g].queued
<1>1. group[g] \in Group /\ group[g].waitFor \in Waits /\ (~Exists(g) => ~group[g].wakeParent)
  BY DEF Inv, TypeOK, Grouped, Group
<1>2. ASSUME NEW t \in Tasks, Launch(t), GroupOf[t] = g
      PROVE  /\ group[g].members \subseteq group'[g].members
             /\ group[g].wakeParent => group'[g].wakeParent
             /\ Exists(g) => group'[g].waitFor = Stronger(group[g].waitFor, group'[g].waitFor)
             /\ group[g].queued => group'[g].queued
  <2>1. PICK policy \in Policies : Join(g, t, policy[1], policy[2])
    BY <1>2 DEF Launch
  <2>2. policy[1] \in Waits /\ policy[2] \in BOOLEAN
    BY PoliciesType
  <2>3. /\ group'[g].members = group[g].members \cup {t}
        /\ Exists(g) => /\ group'[g].waitFor = Stronger(group[g].waitFor, policy[1])
                        /\ group'[g].wakeParent = (group[g].wakeParent \/ policy[2])
        /\ group'[g].queued = group[g].queued
    BY <2>1, <2>2, Joined DEF Inv, TypeOK
  <2> QED  BY <1>1, <2>2, <2>3, StrongerWait
<1>3. ASSUME NEW t \in Tasks, Launch(t), GroupOf[t] # g PROVE group'[g] = group[g]
  BY <1>3 DEF Launch, Join, Inv, TypeOK
<1>4. Stronger(group[g].waitFor, group[g].waitFor) = group[g].waitFor
  BY <1>1, StrongerWait
<1> QED  BY <1>2, <1>3, <1>4, GroupStep DEF Inv

THEOREM RecordsAdvance == Spec => RecordsOnlyAdvance
<1>1. Inv /\ [Next]_vars =>
        [/\ \A t \in Tasks : task[t] \in Terminal => task'[t] \in Terminal
         /\ \A g \in Groups :
              /\ group[g].members \subseteq group'[g].members
              /\ group[g].wakeParent => group'[g].wakeParent
              /\ Exists(g) => group'[g].waitFor = Stronger(group[g].waitFor, group'[g].waitFor)
              /\ group[g].queued => group'[g].queued]_vars
  BY TaskAdvances, GroupAdvances
<1> QED  BY <1>1, Invariance, PTL DEF Spec, RecordsOnlyAdvance
=================================================================================
