-------------------------- MODULE ActiveSessionsProofs --------------------------
(***************************************************************************)
(* What ActiveSessions guarantees for every set of sessions and requests,  *)
(* every capacity and every set of operations.                             *)
(***************************************************************************)
EXTENDS ActiveSessions, FiniteSetTheorems, SequenceTheorems, TLAPS

(***************************************************************************)
(* The inductive invariant.                                                *)
(***************************************************************************)
(* An eviction that examines a session holds its lock.                     *)
Examining(p) ==
  /\ pc[p] \in {"evict", "check"} => scan[p].at \in Sessions
  /\ pc[p] = "check" => Holds(p, scan[p].at)

(* A request that is past a lock holds it, and a request for a session     *)
(* never examines that session in order to evict it.                       *)
Asking(p) ==
  /\ pc[p] = "lock" => op[p] \in {"open", "delete"}
  /\ pc[p] \in {"drain", "erase"} => op[p] = "delete"
  /\ pc[p] \in {"capacity", "scan", "evict", "check", "hydrate", "begin"}
       => op[p] \in {"open", "create"}
  /\ op[p] \in {"open", "delete"} /\ pc[p] # "idle" => session[p] \in Sessions
  /\ op[p] \in {"open", "delete"} /\ pc[p] \notin {"idle", "lock"}
       => Holds(p, session[p])
  /\ pc[p] \in {"scan", "evict", "check", "hydrate"} => HasCapacity(p)
  /\ op[p] = "open" /\ pc[p] \in {"scan", "evict", "check"}
       => session[p] \notin scan[p].left
  /\ op[p] = "open" /\ pc[p] \in {"evict", "check"} => session[p] # scan[p].at

Discipline == /\ \A p \in Procs : Examining(p)
              /\ \A p \in Requests : Asking(p)

(* A session that a request is loading is not in the map.                  *)
Absent == \A p \in Requests :
  op[p] = "open" /\ pc[p] \in {"capacity", "scan", "evict", "check", "hydrate"}
    => session[p] \notin live

(* Nobody but its creator can reach a new session, and nothing in it makes *)
(* it a candidate for eviction.                                            *)
Fresh(p) ==
  /\ session[p] \in Sessions
  /\ session[p] \notin busy \cup persisted \cup stored \cup tasks \cup owed
  /\ \A q \in Requests \ {p} : session[q] # session[p]
  /\ \A q \in Procs : pc[q] = "check" => scan[q].at # session[p]

NewIsFresh == \A p \in Requests : op[p] = "create" /\ pc[p] = "begin" => Fresh(p)

LockInv == TypeOK /\ Discipline

Inv == LockInv /\ Absent /\ NewIsFresh /\ FoundIsLive

(***************************************************************************)
(* Frames: what a step of one process leaves to the others.  A is the set  *)
(* of those that act, empty or a singleton.                                *)
(***************************************************************************)
OthersKept(A) ==
  /\ \A p \in Procs \ A :
       /\ pc'[p] = pc[p] /\ session'[p] = session[p]
       /\ scan'[p].left = scan[p].left /\ scan'[p].at = scan[p].at
       /\ \A s \in Sessions : Holds(p, s) => Holds(p, s)'
  /\ \A p \in Requests \ A :
       op'[p] = op[p] /\ (HasCapacity(p) => HasCapacity(p)')

(* Queueing for a session's lock takes it from nobody.                     *)
LEMMA QueueKept ==
  ASSUME TypeOK, NEW p \in Procs, NEW s \in Sessions,
         lock' = [lock EXCEPT ![s] = Append(@, p)]
  PROVE  /\ lock' \in [Sessions -> Seq(Procs)]
         /\ \A q \in Procs, t \in Sessions : Holds(q, t) => Holds(q, t)'
BY AppendProperties, HeadTailAppend DEF TypeOK, Holds

(* Releasing a session's lock takes nothing from anyone else.              *)
LEMMA UnlockKept ==
  ASSUME TypeOK, NEW p \in Procs, NEW s \in Sessions, Holds(p, s), Unlock(s)
  PROVE  /\ lock' \in [Sessions -> Seq(Procs)]
         /\ \A q \in Procs \ {p}, t \in Sessions : Holds(q, t) => Holds(q, t)'
         /\ \A t \in Sessions \ {s} : Holds(p, t) => Holds(p, t)'
BY HeadTailProperties DEF TypeOK, Holds, Unlock

(* Queueing for the capacity takes it from nobody.                         *)
LEMMA CapacityQueued ==
  ASSUME TypeOK, NEW p \in Requests, capacity' = Append(capacity, p)
  PROVE  /\ capacity' \in Seq(Requests)
         /\ \A q \in Requests : HasCapacity(q) => HasCapacity(q)'
BY AppendProperties, HeadTailAppend DEF TypeOK, HasCapacity

(* Releasing the capacity takes it from nobody else.                       *)
LEMMA CapacityReleased ==
  ASSUME TypeOK, NEW p \in Requests, HasCapacity(p), capacity' = Tail(capacity)
  PROVE  /\ capacity' \in Seq(Requests)
         /\ \A q \in Requests \ {p} : HasCapacity(q) => HasCapacity(q)'
BY HeadTailProperties DEF TypeOK, HasCapacity

(* Scans that are touched or forgotten keep their candidates.              *)
ScanState == [left : SUBSET Sessions, at : Sessions \cup {NoSession},
              stale : SUBSET Sessions]

(* An access keeps every eviction's candidates.                            *)
LEMMA TouchKept ==
  ASSUME TypeOK, NEW s \in Sessions, Touch(s)
  PROVE  /\ scan' \in [Procs -> ScanState]
         /\ \A p \in Procs : scan'[p].left = scan[p].left /\ scan'[p].at = scan[p].at
BY ZenonT(30) DEF TypeOK, Touch, ScanState

(* A removal keeps every eviction's candidates.                            *)
LEMMA ForgottenKept ==
  ASSUME TypeOK, NEW s \in Sessions
  PROVE  /\ Forgotten(s) \in [Procs -> ScanState]
         /\ \A p \in Procs : /\ Forgotten(s)[p].left = scan[p].left
                             /\ Forgotten(s)[p].at = scan[p].at
BY ZenonT(30) DEF TypeOK, Forgotten, ScanState

(* Records of a scan change field by field.                                *)
LEMMA ScanEdits ==
  ASSUME NEW f \in [Procs -> ScanState], NEW p \in Procs,
         NEW s \in Sessions \cup {NoSession}
  PROVE  /\ [f EXCEPT ![p].left = @ \ {s}, ![p].at = s] \in [Procs -> ScanState]
         /\ [f EXCEPT ![p].at = NoSession, ![p].stale = @ \ {f[p].at}]
              \in [Procs -> ScanState]
BY DEF ScanState

(* A step after which every actor is still in order.                       *)
Obeys(A) ==
  /\ TypeOK' /\ OthersKept(A)
  /\ \A p \in A : Examining(p)'
  /\ \A p \in A \cap Requests : Asking(p)'

(* What a step of the actors in A does to the map and to what keeps a      *)
(* session in it.                                                          *)
Untouched(s) == s \notin busy \cup persisted \cup stored \cup tasks \cup owed
Loading == {"capacity", "scan", "evict", "check", "hydrate"}

Moves(A) ==
  /\ \A s \in live' \ live : \E p \in A \cap Requests :
       /\ pc[p] = "hydrate" /\ pc'[p] = "begin" /\ s = session'[p]
       /\ (op[p] = "open" /\ s = session[p]) \/ Unused(s)
  /\ \A s \in live \ live' : \E p \in A :
       \/ pc[p] = "check" /\ s = scan[p].at /\ s \notin busy \cup tasks
       \/ p \in Requests /\ pc[p] = "erase" /\ s = session[p]
  /\ \A s \in Sessions :
       Untouched(s) /\ (\A p \in A \cap Requests : session[p] # s) => Untouched(s)'
  /\ \A p \in A : pc'[p] = "check" => scan'[p].at \in persisted
  /\ \A p \in A \cap Requests :
       /\ session'[p] \in {session[p], NoSession} \/ ~Creating(session'[p])
       /\ op'[p] = "open" /\ pc'[p] \in Loading =>
            /\ session'[p] = session[p]
            /\ session[p] \notin live \/ (op[p] = "open" /\ pc[p] \in Loading)
       /\ pc'[p] = "hydrate" => Room /\ live' = live
       /\ pc'[p] = "begin" =>
            /\ session'[p] \in live'
            /\ op'[p] = "create" => Unused(session'[p]) /\ Untouched(session[p])'

(* If the actors of a step are in order after it, everyone is.             *)
LEMMA ObeyingKeepsDiscipline ==
  ASSUME LockInv, NEW A, Obeys(A)
  PROVE  LockInv'
<1>1. ASSUME NEW p \in Procs PROVE Examining(p)'
  <2>1. CASE p \in A
    BY <2>1 DEF Obeys
  <2>2. CASE p \notin A
    BY <2>2 DEF LockInv, Discipline, Obeys, OthersKept, Examining
  <2>3. QED
    BY <2>1, <2>2
<1>2. ASSUME NEW p \in Requests PROVE Asking(p)'
  <2>1. CASE p \in A
    BY <2>1 DEF Obeys
  <2>2. CASE p \notin A
    BY <2>2 DEF LockInv, Discipline, Obeys, OthersKept, Asking, Procs
  <2>3. QED
    BY <2>1, <2>2
<1>3. QED
  BY <1>1, <1>2 DEF LockInv, Discipline, Obeys

(***************************************************************************)
(* Every step obeys the discipline of the locks.                           *)
(***************************************************************************)
LEMMA ObserveObeys ==
  ASSUME LockInv, NEW p \in Procs, NEW s \in Sessions, Observe(p, s)
  PROVE  Obeys({p}) /\ Moves({p})
<1>1. /\ lock' \in [Sessions -> Seq(Procs)]
      /\ \A q \in Procs, t \in Sessions : Holds(q, t) => Holds(q, t)'
  BY QueueKept DEF LockInv, Observe
<1>2. scan' \in [Procs -> ScanState]
  BY ScanEdits DEF LockInv, TypeOK, ScanState, Observe
<1>3. TypeOK'
  BY <1>1, <1>2
     DEF LockInv, Discipline, Observe, env, ScanOver, ScanState, TypeOK,
         Procs, Kinds
<1>4. OthersKept({p})
  BY <1>1, <1>2
     DEF LockInv, Discipline, Observe, env, ScanOver, ScanState, TypeOK,
         OthersKept, Procs, Holds, HasCapacity
<1>5. Examining(p)'
  BY <1>1, <1>2
     DEF LockInv, Discipline, Observe, env, ScanOver, ScanState, TypeOK,
         Examining, Procs, Holds
<1>6. p \in Requests => Asking(p)'
  BY <1>1, <1>2
     DEF LockInv, Discipline, Observe, env, ScanOver, ScanState, TypeOK,
         Examining, Asking, Procs, Holds, HasCapacity
<1>7. Moves({p})
  BY <1>1, <1>2
     DEF LockInv, Discipline, Observe, env, ScanOver, ScanState, TypeOK,
         Asking, Examining, Moves, Untouched, Loading, Creating, Procs
<1>8. QED
  BY <1>3, <1>4, <1>5, <1>6, <1>7 DEF Obeys, Procs

(* A candidate that is confirmed is under its session's lock.              *)
LEMMA ConfirmObeys ==
  ASSUME LockInv, NEW p \in Procs, Confirm(p)
  PROVE  Obeys({p}) /\ Moves({p})
<1>1. TypeOK'
  BY DEF LockInv, Discipline, Confirm, Eligible, env, TypeOK, Procs, Kinds
<1>2. OthersKept({p})
  BY DEF LockInv, Discipline, Confirm, Eligible, env, TypeOK, OthersKept,
         Procs, Holds, HasCapacity
<1>3. Examining(p)'
  BY DEF LockInv, Discipline, Confirm, Eligible, env, TypeOK, Examining,
         Procs, Holds
<1>4. p \in Requests => Asking(p)'
  BY DEF LockInv, Discipline, Confirm, Eligible, env, TypeOK, Examining,
         Asking, Procs, Holds, HasCapacity
<1>5. Moves({p})
  BY DEF LockInv, Discipline, Confirm, Eligible, env, TypeOK, Asking,
         Examining, Moves, Untouched, Loading, Creating, Procs
<1>6. QED
  BY <1>1, <1>2, <1>3, <1>4, <1>5 DEF Obeys, Procs

(* An eviction that is done with a session goes on in order.               *)
LEMMA ReleaseKept ==
  ASSUME LockInv, NEW p \in Requests, pc[p] \in {"evict", "check"},
         Holds(p, scan[p].at), NEW known \in [Procs -> ScanState],
         known[p].left = scan[p].left, Release(p, known)
  PROVE  Asking(p)'
<1>1. /\ Asking(p) /\ Examining(p) /\ TypeOK /\ p \in Procs
      /\ scan[p].at \in Sessions
  BY DEF LockInv, Discipline, Procs, Examining
<1>2. /\ pc'[p] = "scan" /\ session' = session /\ op' = op /\ capacity' = capacity
      /\ Unlock(scan[p].at)
  BY <1>1 DEF Release, TypeOK
<1>3. scan'[p].left = scan[p].left
  BY <1>1 DEF Release, ScanState
<1>4. \A t \in Sessions \ {scan[p].at} : Holds(p, t) => Holds(p, t)'
  BY <1>1, <1>2, UnlockKept
<1>5. /\ op[p] \in {"open", "create"} /\ HasCapacity(p)'
      /\ op[p] = "open" => /\ session[p] \in Sessions \ {scan[p].at}
                            /\ Holds(p, session[p])
                            /\ session[p] \notin scan[p].left
  BY <1>1, <1>2 DEF Asking, HasCapacity
<1>6. op[p] = "open" => Holds(p, session[p])'
  BY <1>2, <1>4, <1>5 DEF Holds
<1>7. QED
  BY <1>2, <1>3, <1>5, <1>6 DEF Asking

(* Sparing a candidate releases its lock and leaves the map alone.         *)
LEMMA SpareObeys ==
  ASSUME LockInv, NEW p \in Procs, Spare(p)
  PROVE  Obeys({p}) /\ Moves({p})
<1>1. scan[p].at \in Sessions
  BY DEF LockInv, Discipline, Examining, Spare
<1>2. /\ lock' \in [Sessions -> Seq(Procs)]
      /\ \A q \in Procs \ {p}, t \in Sessions : Holds(q, t) => Holds(q, t)'
      /\ \A t \in Sessions \ {scan[p].at} : Holds(p, t) => Holds(p, t)'
  BY <1>1, UnlockKept DEF LockInv, Discipline, Examining, Spare, Release
<1>3. scan' \in [Procs -> ScanState]
  BY ScanEdits DEF LockInv, TypeOK, ScanState, Release, Spare
<1>4. TypeOK'
  BY <1>1, <1>2, <1>3
     DEF LockInv, Discipline, Spare, Release, Eligible, Reclaimable, Idle,
         ScanState, env, TypeOK, Procs, Kinds
<1>5. OthersKept({p})
  BY <1>1, <1>2, <1>3
     DEF LockInv, Discipline, Spare, Release, Eligible, Reclaimable, Idle,
         ScanState, env, TypeOK, OthersKept, Procs, Holds, HasCapacity
<1>6. Examining(p)'
  BY <1>1, <1>2, <1>3
     DEF LockInv, Discipline, Spare, Release, Eligible, Reclaimable, Idle,
         ScanState, env, TypeOK, Examining, Procs, Holds
<1>7. p \in Requests => Asking(p)'
  BY <1>1, ReleaseKept DEF LockInv, Discipline, TypeOK, ScanState, Procs, Spare
<1>8. Moves({p})
  BY <1>1, <1>2, <1>3
     DEF LockInv, Discipline, Spare, Release, Eligible, Reclaimable, Idle,
         ScanState, env, TypeOK, Asking, Examining, Moves, Untouched, Loading,
         Creating, Procs
<1>9. QED
  BY <1>4, <1>5, <1>6, <1>7, <1>8 DEF Obeys, Procs

(* An eviction removes its candidate, idle and without work, and releases  *)
(* it.                                                                     *)
LEMMA EvictObeys ==
  ASSUME LockInv, NEW p \in Procs, Evict(p)
  PROVE  Obeys({p}) /\ Moves({p})
<1>1. scan[p].at \in Sessions
  BY DEF LockInv, Discipline, Examining, Evict
<1>2. /\ lock' \in [Sessions -> Seq(Procs)]
      /\ \A q \in Procs \ {p}, t \in Sessions : Holds(q, t) => Holds(q, t)'
      /\ \A t \in Sessions \ {scan[p].at} : Holds(p, t) => Holds(p, t)'
  BY <1>1, UnlockKept DEF LockInv, Discipline, Examining, Evict, Release
<1>3. /\ Forgotten(scan[p].at) \in [Procs -> ScanState]
      /\ \A q \in Procs : /\ Forgotten(scan[p].at)[q].left = scan[q].left
                          /\ Forgotten(scan[p].at)[q].at = scan[q].at
  BY <1>1, ForgottenKept DEF LockInv
<1>4. scan' \in [Procs -> ScanState]
  BY <1>1, <1>3, ScanEdits DEF Release, Evict
<1>5. TypeOK'
  BY <1>1, <1>2, <1>3, <1>4
     DEF LockInv, Discipline, Evict, Release, Reclaimable, Idle, ScanState,
         TypeOK, Procs, Kinds
<1>6. OthersKept({p})
  BY <1>1, <1>2, <1>3, <1>4
     DEF LockInv, Discipline, Evict, Release, Reclaimable, Idle, ScanState,
         TypeOK, OthersKept, Procs, Holds, HasCapacity
<1>7. Examining(p)'
  BY <1>1, <1>2, <1>3, <1>4
     DEF LockInv, Discipline, Evict, Release, Reclaimable, Idle, ScanState,
         TypeOK, Examining, Procs, Holds
<1>8. p \in Requests => Asking(p)'
  BY <1>1, <1>3, ReleaseKept
     DEF LockInv, Discipline, Examining, TypeOK, ScanState, Procs, Evict
<1>9. Moves({p})
  BY <1>1, <1>2, <1>3, <1>4
     DEF LockInv, Discipline, Evict, Release, Reclaimable, Idle, ScanState,
         TypeOK, Asking, Examining, Moves, Untouched, Loading, Creating, Procs
<1>10. QED
  BY <1>5, <1>6, <1>7, <1>8, <1>9 DEF Obeys, Procs

(* A candidate spared after the reads is released too.                     *)
LEMMA SpareLateObeys ==
  ASSUME LockInv, NEW p \in Procs, SpareLate(p)
  PROVE  Obeys({p}) /\ Moves({p})
<1>1. scan[p].at \in Sessions
  BY DEF LockInv, Discipline, Examining, SpareLate
<1>2. /\ lock' \in [Sessions -> Seq(Procs)]
      /\ \A q \in Procs \ {p}, t \in Sessions : Holds(q, t) => Holds(q, t)'
      /\ \A t \in Sessions \ {scan[p].at} : Holds(p, t) => Holds(p, t)'
  BY <1>1, UnlockKept DEF LockInv, Discipline, Examining, SpareLate, Release
<1>3. scan' \in [Procs -> ScanState]
  BY ScanEdits DEF LockInv, TypeOK, ScanState, Release, SpareLate
<1>4. TypeOK'
  BY <1>1, <1>2, <1>3
     DEF LockInv, Discipline, SpareLate, Release, Reclaimable, Idle,
         ScanState, env, TypeOK, Procs, Kinds
<1>5. OthersKept({p})
  BY <1>1, <1>2, <1>3
     DEF LockInv, Discipline, SpareLate, Release, Reclaimable, Idle,
         ScanState, env, TypeOK, OthersKept, Procs, Holds, HasCapacity
<1>6. Examining(p)'
  BY <1>1, <1>2, <1>3
     DEF LockInv, Discipline, SpareLate, Release, Reclaimable, Idle,
         ScanState, env, TypeOK, Examining, Procs, Holds
<1>7. p \in Requests => Asking(p)'
  BY <1>1, ReleaseKept
     DEF LockInv, Discipline, Examining, TypeOK, ScanState, Procs, SpareLate
<1>8. Moves({p})
  BY <1>1, <1>2, <1>3
     DEF LockInv, Discipline, SpareLate, Release, Reclaimable, Idle,
         ScanState, env, TypeOK, Asking, Examining, Moves, Untouched, Loading,
         Creating, Procs
<1>9. QED
  BY <1>4, <1>5, <1>6, <1>7, <1>8 DEF Obeys, Procs

(* A request for a session queues for its lock.                            *)
LEMMA ArriveObeys ==
  ASSUME LockInv, NEW p \in Requests, NEW o, NEW s \in Sessions, Arrive(p, o, s)
  PROVE  Obeys({p}) /\ Moves({p})
<1>1. /\ lock' \in [Sessions -> Seq(Procs)]
      /\ \A q \in Procs, t \in Sessions : Holds(q, t) => Holds(q, t)'
  BY QueueKept DEF LockInv, Arrive, Procs
<1>2. TypeOK'
  BY <1>1 DEF LockInv, Discipline, Arrive, env, TypeOK, Procs, Kinds
<1>3. OthersKept({p})
  BY <1>1
     DEF LockInv, Discipline, Arrive, env, TypeOK, OthersKept, Procs, Holds,
         HasCapacity
<1>4. Examining(p)'
  BY <1>1 DEF LockInv, Discipline, Arrive, env, TypeOK, Examining, Procs, Holds
<1>5. Asking(p)'
  BY <1>1
     DEF LockInv, Discipline, Arrive, env, TypeOK, Examining, Asking, Procs,
         Holds, HasCapacity
<1>6. Moves({p})
  BY <1>1
     DEF LockInv, Discipline, Arrive, env, TypeOK, Asking, Examining, Moves,
         Untouched, Loading, Creating, Procs
<1>7. QED
  BY <1>2, <1>3, <1>4, <1>5, <1>6 DEF Obeys, Procs

(* A request for a new session queues for the capacity.                    *)
LEMMA ArriveNewObeys ==
  ASSUME LockInv, NEW p \in Requests, ArriveNew(p)
  PROVE  Obeys({p}) /\ Moves({p})
<1>1. /\ capacity' \in Seq(Requests)
      /\ \A q \in Requests : HasCapacity(q) => HasCapacity(q)'
  BY CapacityQueued DEF LockInv, ArriveNew
<1>2. TypeOK'
  BY <1>1 DEF LockInv, Discipline, ArriveNew, env, TypeOK, Procs, Kinds
<1>3. OthersKept({p})
  BY <1>1
     DEF LockInv, Discipline, ArriveNew, env, TypeOK, OthersKept, Procs,
         Holds, HasCapacity
<1>4. Examining(p)'
  BY <1>1
     DEF LockInv, Discipline, ArriveNew, env, TypeOK, Examining, Procs, Holds
<1>5. Asking(p)'
  BY <1>1
     DEF LockInv, Discipline, ArriveNew, env, TypeOK, Examining, Asking,
         Procs, Holds, HasCapacity
<1>6. Moves({p})
  BY <1>1
     DEF LockInv, Discipline, ArriveNew, env, TypeOK, Asking, Examining,
         Moves, Untouched, Loading, Creating, Procs
<1>7. QED
  BY <1>2, <1>3, <1>4, <1>5, <1>6 DEF Obeys, Procs

(* A live session is found under its lock.                                 *)
LEMMA OpenLiveObeys ==
  ASSUME LockInv, NEW p \in Requests, OpenLive(p)
  PROVE  Obeys({p}) /\ Moves({p})
<1>1. session[p] \in Sessions
  BY DEF LockInv, Discipline, Asking, OpenLive, Entered
<1>2. /\ scan' \in [Procs -> ScanState]
      /\ \A q \in Procs : scan'[q].left = scan[q].left /\ scan'[q].at = scan[q].at
  BY <1>1, TouchKept DEF LockInv, OpenLive
<1>3. TypeOK'
  BY <1>1, <1>2
     DEF LockInv, Discipline, OpenLive, Entered, ScanState, env, TypeOK,
         Procs, Kinds
<1>4. OthersKept({p})
  BY <1>1, <1>2
     DEF LockInv, Discipline, OpenLive, Entered, ScanState, env, TypeOK,
         OthersKept, Procs, Holds, HasCapacity
<1>5. Examining(p)'
  BY <1>1, <1>2
     DEF LockInv, Discipline, OpenLive, Entered, ScanState, env, TypeOK,
         Examining, Procs, Holds
<1>6. Asking(p)'
  BY <1>1, <1>2
     DEF LockInv, Discipline, OpenLive, Entered, ScanState, env, TypeOK,
         Examining, Asking, Procs, Holds, HasCapacity
<1>7. Moves({p})
  BY <1>1, <1>2
     DEF LockInv, Discipline, OpenLive, Entered, ScanState, env, TypeOK,
         Asking, Examining, Moves, Untouched, Loading, Creating, Procs
<1>8. QED
  BY <1>3, <1>4, <1>5, <1>6, <1>7 DEF Obeys, Procs

(* A stored session is opened under its lock; it is not in the map.        *)
LEMMA OpenStoredObeys ==
  ASSUME LockInv, NEW p \in Requests, OpenStored(p)
  PROVE  Obeys({p}) /\ Moves({p})
<1>1. /\ capacity' \in Seq(Requests)
      /\ \A q \in Requests : HasCapacity(q) => HasCapacity(q)'
  BY CapacityQueued DEF LockInv, OpenStored
<1>2. TypeOK'
  BY <1>1
     DEF LockInv, Discipline, OpenStored, Entered, env, TypeOK, Procs, Kinds
<1>3. OthersKept({p})
  BY <1>1
     DEF LockInv, Discipline, OpenStored, Entered, env, TypeOK, OthersKept,
         Procs, Holds, HasCapacity
<1>4. Examining(p)'
  BY <1>1
     DEF LockInv, Discipline, OpenStored, Entered, env, TypeOK, Examining,
         Procs, Holds
<1>5. Asking(p)'
  BY <1>1
     DEF LockInv, Discipline, OpenStored, Entered, env, TypeOK, Examining,
         Asking, Procs, Holds, HasCapacity
<1>6. Moves({p})
  BY <1>1
     DEF LockInv, Discipline, OpenStored, Entered, env, TypeOK, Asking,
         Examining, Moves, Untouched, Loading, Creating, Procs
<1>7. QED
  BY <1>2, <1>3, <1>4, <1>5, <1>6 DEF Obeys, Procs

(* A request for a session that is nowhere releases its lock.              *)
LEMMA NotFoundObeys ==
  ASSUME LockInv, NEW p \in Requests, NotFound(p)
  PROVE  Obeys({p}) /\ Moves({p})
<1>1. session[p] \in Sessions
  BY DEF LockInv, Discipline, Asking, NotFound, Entered
<1>2. /\ lock' \in [Sessions -> Seq(Procs)]
      /\ \A q \in Procs \ {p}, t \in Sessions : Holds(q, t) => Holds(q, t)'
      /\ \A t \in Sessions \ {session[p]} : Holds(p, t) => Holds(p, t)'
  BY <1>1, UnlockKept DEF LockInv, NotFound, Procs
<1>3. TypeOK'
  BY <1>1, <1>2
     DEF LockInv, Discipline, NotFound, Answer, env, TypeOK, Procs, Kinds
<1>4. OthersKept({p})
  BY <1>1, <1>2
     DEF LockInv, Discipline, NotFound, Answer, env, TypeOK, OthersKept,
         Procs, Holds, HasCapacity
<1>5. Examining(p)'
  BY <1>1, <1>2
     DEF LockInv, Discipline, NotFound, Answer, env, TypeOK, Examining,
         Procs, Holds
<1>6. Asking(p)'
  BY <1>1, <1>2
     DEF LockInv, Discipline, NotFound, Answer, env, TypeOK, Examining,
         Asking, Procs, Holds, HasCapacity
<1>7. Moves({p})
  BY <1>1, <1>2
     DEF LockInv, Discipline, NotFound, Answer, env, TypeOK, Asking,
         Examining, Moves, Untouched, Loading, Creating, Procs
<1>8. QED
  BY <1>3, <1>4, <1>5, <1>6, <1>7 DEF Obeys, Procs

(* A request that finds room holds the capacity.                           *)
LEMMA TakeRoomObeys ==
  ASSUME LockInv, NEW p \in Requests, TakeRoom(p)
  PROVE  Obeys({p}) /\ Moves({p})
<1>1. TypeOK'
  BY DEF LockInv, Discipline, TakeRoom, env, TypeOK, Procs, Kinds
<1>2. OthersKept({p})
  BY DEF LockInv, Discipline, TakeRoom, env, TypeOK, OthersKept, Procs,
         Holds, HasCapacity
<1>3. Examining(p)'
  BY DEF LockInv, Discipline, TakeRoom, env, TypeOK, Examining, Procs, Holds
<1>4. Asking(p)'
  BY DEF LockInv, Discipline, TakeRoom, env, TypeOK, Examining, Asking,
         Procs, Holds, HasCapacity
<1>5. Moves({p})
  BY DEF LockInv, Discipline, TakeRoom, env, TypeOK, Asking, Examining,
         Moves, Untouched, Loading, Creating, Procs
<1>6. QED
  BY <1>1, <1>2, <1>3, <1>4, <1>5 DEF Obeys, Procs

(* The candidates of a request at capacity are live, so not its own        *)
(* session.                                                                *)
LEMMA MakeRoomObeys ==
  ASSUME LockInv, NEW p \in Requests, Absent, MakeRoom(p)
  PROVE  Obeys({p}) /\ Moves({p})
<1>1. TypeOK'
  BY ZenonT(30) DEF LockInv, Discipline, MakeRoom, Idle, env, Absent, TypeOK, Procs, Kinds
<1>2. OthersKept({p})
  BY DEF LockInv, Discipline, MakeRoom, Idle, env, Absent, TypeOK,
         OthersKept, Procs, Holds, HasCapacity
<1>3. Examining(p)'
  BY DEF LockInv, Discipline, MakeRoom, Idle, env, Absent, TypeOK,
         Examining, Procs, Holds
<1>4. Asking(p)'
  BY DEF LockInv, Discipline, MakeRoom, Idle, env, Absent, TypeOK,
         Examining, Asking, Procs, Holds, HasCapacity
<1>5. Moves({p})
  BY DEF LockInv, Discipline, MakeRoom, Idle, env, Absent, TypeOK, Asking,
         Examining, Moves, Untouched, Loading, Creating, Procs
<1>6. QED
  BY <1>1, <1>2, <1>3, <1>4, <1>5 DEF Obeys, Procs

(* A request that has made room still holds the capacity.                  *)
LEMMA RoomMadeObeys ==
  ASSUME LockInv, NEW p \in Requests, RoomMade(p)
  PROVE  Obeys({p}) /\ Moves({p})
<1>1. TypeOK'
  BY DEF LockInv, Discipline, RoomMade, NoScan, env, TypeOK, Procs, Kinds
<1>2. OthersKept({p})
  BY DEF LockInv, Discipline, RoomMade, NoScan, env, TypeOK, OthersKept,
         Procs, Holds, HasCapacity
<1>3. Examining(p)'
  BY DEF LockInv, Discipline, RoomMade, NoScan, env, TypeOK, Examining,
         Procs, Holds
<1>4. Asking(p)'
  BY DEF LockInv, Discipline, RoomMade, NoScan, env, TypeOK, Examining,
         Asking, Procs, Holds, HasCapacity
<1>5. Moves({p})
  BY DEF LockInv, Discipline, RoomMade, NoScan, env, TypeOK, Asking,
         Examining, Moves, Untouched, Loading, Creating, Procs
<1>6. QED
  BY <1>1, <1>2, <1>3, <1>4, <1>5 DEF Obeys, Procs

(* A request that gives up frees what it holds.                            *)
LEMMA GiveUpKept ==
  ASSUME LockInv, NEW p \in Requests, pc[p] \in {"scan", "hydrate"}, GiveUp(p)
  PROVE  /\ lock' \in [Sessions -> Seq(Procs)]
         /\ \A q \in Procs \ {p}, t \in Sessions : Holds(q, t) => Holds(q, t)'
         /\ capacity' \in Seq(Requests)
         /\ \A q \in Requests \ {p} : HasCapacity(q) => HasCapacity(q)'
         /\ Answer(p) /\ UNCHANGED <<live, env>>
<1>1. Asking(p) /\ p \in Procs /\ TypeOK
  BY DEF LockInv, Discipline, Procs
<1>2. /\ capacity' \in Seq(Requests)
      /\ \A q \in Requests \ {p} : HasCapacity(q) => HasCapacity(q)'
  BY <1>1, CapacityReleased DEF Asking, GiveUp
<1>3. CASE op[p] = "open"
  <2>1. session[p] \in Sessions /\ Holds(p, session[p]) /\ Unlock(session[p])
    BY <1>1, <1>3 DEF Asking, GiveUp
  <2>2. QED
    BY <1>1, <1>2, <2>1, UnlockKept DEF GiveUp
<1>4. CASE op[p] # "open"
  BY <1>1, <1>2, <1>4 DEF GiveUp, TypeOK, Holds
<1>5. QED
  BY <1>3, <1>4

(* A request without room releases what it holds.                          *)
LEMMA NoRoomObeys ==
  ASSUME LockInv, NEW p \in Requests, NoRoom(p)
  PROVE  Obeys({p}) /\ Moves({p})
<1>1. /\ lock' \in [Sessions -> Seq(Procs)]
      /\ \A q \in Procs \ {p}, t \in Sessions : Holds(q, t) => Holds(q, t)'
      /\ capacity' \in Seq(Requests)
      /\ \A q \in Requests \ {p} : HasCapacity(q) => HasCapacity(q)'
      /\ Answer(p) /\ UNCHANGED <<live, env>>
      /\ scan' = [scan EXCEPT ![p] = NoScan]
  BY GiveUpKept DEF NoRoom
<1>2. TypeOK'
  BY <1>1 DEF LockInv, Discipline, Answer, NoScan, env, TypeOK, Procs, Kinds
<1>3. OthersKept({p})
  BY <1>1
     DEF LockInv, Discipline, Answer, NoScan, env, TypeOK, OthersKept, Procs,
         Holds, HasCapacity
<1>4. Examining(p)'
  BY <1>1
     DEF LockInv, Discipline, Answer, NoScan, env, TypeOK, Examining, Procs,
         Holds
<1>5. Asking(p)'
  BY <1>1
     DEF LockInv, Discipline, Answer, NoScan, env, TypeOK, Examining, Asking,
         Procs, Holds, HasCapacity
<1>6. Moves({p})
  BY <1>1
     DEF LockInv, Discipline, Answer, NoScan, env, TypeOK, Asking, Examining,
         Moves, Untouched, Loading, Creating, Procs
<1>7. QED
  BY <1>2, <1>3, <1>4, <1>5, <1>6 DEF Obeys, Procs

(* The session loaded or made enters the map, and the capacity is          *)
(* released.                                                               *)
LEMMA HydrateObeys ==
  ASSUME LockInv, NEW p \in Requests, NEW s \in Sessions, Hydrate(p, s)
  PROVE  Obeys({p}) /\ Moves({p})
<1>1. /\ capacity' \in Seq(Requests)
      /\ \A q \in Requests \ {p} : HasCapacity(q) => HasCapacity(q)'
  BY CapacityReleased DEF LockInv, Discipline, Asking, Hydrate
<1>2. TypeOK'
  BY <1>1 DEF LockInv, Discipline, Hydrate, Unused, TypeOK, Procs, Kinds
<1>3. OthersKept({p})
  BY <1>1
     DEF LockInv, Discipline, Hydrate, Unused, TypeOK, OthersKept, Procs,
         Holds, HasCapacity
<1>4. Examining(p)'
  BY <1>1
     DEF LockInv, Discipline, Hydrate, Unused, TypeOK, Examining, Procs,
         Holds
<1>5. Asking(p)'
  BY <1>1
     DEF LockInv, Discipline, Hydrate, Unused, TypeOK, Examining, Asking,
         Procs, Holds, HasCapacity
<1>6. /\ p \in Procs /\ session'[p] = s /\ op' = op /\ pc[p] = "hydrate" /\ pc'[p] = "begin"
      /\ op[p] \in {"open", "create"} /\ live' = live \cup {s}
      /\ op[p] = "open" => s = session[p]
      /\ op[p] = "create" => Unused(s) /\ ~Creating(s) /\ Untouched(s)'
  BY DEF LockInv, Discipline, Asking, Hydrate, TypeOK, Unused, Creating,
         Untouched, Procs
<1>7. \A t \in Sessions : Untouched(t) /\ session[p] # t => Untouched(t)'
  BY <1>6 DEF Hydrate, Untouched
<1>8. Moves({p})
  <2>1. \A t \in live' \ live : t = s
    BY <1>6
  <2>2. op[p] = "create" => ~Creating(session'[p]) /\ Unused(session'[p])
    BY <1>6
  <2>3. op[p] = "create" => Untouched(session[p])'
    BY <1>6 DEF Untouched
  <2>4. session[p] = s \/ op[p] = "create"
    BY <1>6
  <2>5. live \subseteq live'
    BY <1>6
  <2>6. QED
    BY <1>6, <1>7, <2>1, <2>2, <2>3, <2>4, <2>5 DEF Moves, Loading, Untouched
<1>9. QED
  BY <1>2, <1>3, <1>4, <1>5, <1>8 DEF Obeys, Procs

(* A request whose loading fails releases what it holds.                   *)
LEMMA HydrateFailsObeys ==
  ASSUME LockInv, NEW p \in Requests, HydrateFails(p)
  PROVE  Obeys({p}) /\ Moves({p})
<1>1. /\ lock' \in [Sessions -> Seq(Procs)]
      /\ \A q \in Procs \ {p}, t \in Sessions : Holds(q, t) => Holds(q, t)'
      /\ capacity' \in Seq(Requests)
      /\ \A q \in Requests \ {p} : HasCapacity(q) => HasCapacity(q)'
      /\ Answer(p) /\ UNCHANGED <<live, env>>
      /\ scan' = scan
  BY GiveUpKept DEF HydrateFails
<1>2. TypeOK'
  BY <1>1 DEF LockInv, Discipline, Answer, env, TypeOK, Procs, Kinds
<1>3. OthersKept({p})
  BY <1>1
     DEF LockInv, Discipline, Answer, env, TypeOK, OthersKept, Procs, Holds,
         HasCapacity
<1>4. Examining(p)'
  BY <1>1 DEF LockInv, Discipline, Answer, env, TypeOK, Examining, Procs, Holds
<1>5. Asking(p)'
  BY <1>1
     DEF LockInv, Discipline, Answer, env, TypeOK, Examining, Asking, Procs,
         Holds, HasCapacity
<1>6. Moves({p})
  BY <1>1
     DEF LockInv, Discipline, Answer, env, TypeOK, Asking, Examining, Moves,
         Untouched, Loading, Creating, Procs
<1>7. QED
  BY <1>2, <1>3, <1>4, <1>5, <1>6 DEF Obeys, Procs

(* A request that is served frees its session's lock.                      *)
LEMMA ProceedKept ==
  ASSUME LockInv, NEW p \in Requests, Proceed(p)
  PROVE  /\ lock' \in [Sessions -> Seq(Procs)]
         /\ \A q \in Procs \ {p}, t \in Sessions : Holds(q, t) => Holds(q, t)'
<1>1. Asking(p) /\ p \in Procs /\ TypeOK
  BY DEF LockInv, Discipline, Procs
<1>2. CASE op[p] = "open"
  <2>1. session[p] \in Sessions /\ Holds(p, session[p]) /\ Unlock(session[p])
    BY <1>1, <1>2 DEF Asking, Proceed
  <2>2. QED
    BY <1>1, <2>1, UnlockKept
<1>3. CASE op[p] # "open"
  BY <1>1, <1>3 DEF Proceed, TypeOK, Holds
<1>4. QED
  BY <1>2, <1>3

(* A request that goes on with its session releases it.                    *)
LEMMA ProceedObeys ==
  ASSUME LockInv, NEW p \in Requests, Proceed(p)
  PROVE  Obeys({p}) /\ Moves({p})
<1>1. /\ lock' \in [Sessions -> Seq(Procs)]
      /\ \A q \in Procs \ {p}, t \in Sessions : Holds(q, t) => Holds(q, t)'
  BY ProceedKept
<1>2. TypeOK'
  BY <1>1
     DEF LockInv, Discipline, Proceed, Begin, Answer, env, TypeOK, Procs,
         Kinds
<1>3. OthersKept({p})
  BY <1>1
     DEF LockInv, Discipline, Proceed, Begin, Answer, env, TypeOK,
         OthersKept, Procs, Holds, HasCapacity
<1>4. Examining(p)'
  BY <1>1
     DEF LockInv, Discipline, Proceed, Begin, Answer, env, TypeOK, Examining,
         Procs, Holds
<1>5. Asking(p)'
  BY <1>1
     DEF LockInv, Discipline, Proceed, Begin, Answer, env, TypeOK, Examining,
         Asking, Procs, Holds, HasCapacity
<1>6. Moves({p})
  BY <1>1
     DEF LockInv, Discipline, Proceed, Begin, Answer, env, TypeOK, Asking,
         Examining, Moves, Untouched, Loading, Creating, Procs
<1>7. QED
  BY <1>2, <1>3, <1>4, <1>5, <1>6 DEF Obeys, Procs

(* A deletion touches its session under the lock.                          *)
LEMMA DeleteEntersObeys ==
  ASSUME LockInv, NEW p \in Requests, DeleteEnters(p)
  PROVE  Obeys({p}) /\ Moves({p})
<1>1. session[p] \in Sessions
  BY DEF LockInv, Discipline, Asking, DeleteEnters, Entered
<1>2. /\ scan' \in [Procs -> ScanState]
      /\ \A q \in Procs : scan'[q].left = scan[q].left /\ scan'[q].at = scan[q].at
  BY <1>1, TouchKept DEF LockInv, DeleteEnters
<1>3. TypeOK'
  BY <1>1, <1>2
     DEF LockInv, Discipline, DeleteEnters, Entered, ScanState, env, TypeOK,
         Procs, Kinds
<1>4. OthersKept({p})
  BY <1>1, <1>2
     DEF LockInv, Discipline, DeleteEnters, Entered, ScanState, env, TypeOK,
         OthersKept, Procs, Holds, HasCapacity
<1>5. Examining(p)'
  BY <1>1, <1>2
     DEF LockInv, Discipline, DeleteEnters, Entered, ScanState, env, TypeOK,
         Examining, Procs, Holds
<1>6. Asking(p)'
  BY <1>1, <1>2
     DEF LockInv, Discipline, DeleteEnters, Entered, ScanState, env, TypeOK,
         Examining, Asking, Procs, Holds, HasCapacity
<1>7. Moves({p})
  BY <1>1, <1>2
     DEF LockInv, Discipline, DeleteEnters, Entered, ScanState, env, TypeOK,
         Asking, Examining, Moves, Untouched, Loading, Creating, Procs
<1>8. QED
  BY <1>3, <1>4, <1>5, <1>6, <1>7 DEF Obeys, Procs

(* A refused deletion releases its session.                                *)
LEMMA DeleteRefusedObeys ==
  ASSUME LockInv, NEW p \in Requests, DeleteRefused(p)
  PROVE  Obeys({p}) /\ Moves({p})
<1>1. session[p] \in Sessions /\ Holds(p, session[p])
  BY DEF LockInv, Discipline, Asking, DeleteRefused
<1>2. /\ lock' \in [Sessions -> Seq(Procs)]
      /\ \A q \in Procs \ {p}, t \in Sessions : Holds(q, t) => Holds(q, t)'
      /\ \A t \in Sessions \ {session[p]} : Holds(p, t) => Holds(p, t)'
  BY <1>1, UnlockKept DEF LockInv, DeleteRefused, Procs
<1>3. TypeOK'
  BY <1>1, <1>2
     DEF LockInv, Discipline, DeleteRefused, Answer, env, TypeOK, Procs,
         Kinds
<1>4. OthersKept({p})
  BY <1>1, <1>2
     DEF LockInv, Discipline, DeleteRefused, Answer, env, TypeOK, OthersKept,
         Procs, Holds, HasCapacity
<1>5. Examining(p)'
  BY <1>1, <1>2
     DEF LockInv, Discipline, DeleteRefused, Answer, env, TypeOK, Examining,
         Procs, Holds
<1>6. Asking(p)'
  BY <1>1, <1>2
     DEF LockInv, Discipline, DeleteRefused, Answer, env, TypeOK, Examining,
         Asking, Procs, Holds, HasCapacity
<1>7. Moves({p})
  BY <1>1, <1>2
     DEF LockInv, Discipline, DeleteRefused, Answer, env, TypeOK, Asking,
         Examining, Moves, Untouched, Loading, Creating, Procs
<1>8. QED
  BY <1>3, <1>4, <1>5, <1>6, <1>7 DEF Obeys, Procs

(* A deletion that goes on keeps its lock.                                 *)
LEMMA DeleteProceedsObeys ==
  ASSUME LockInv, NEW p \in Requests, DeleteProceeds(p)
  PROVE  Obeys({p}) /\ Moves({p})
<1>1. TypeOK'
  BY DEF LockInv, Discipline, DeleteProceeds, env, TypeOK, Procs, Kinds
<1>2. OthersKept({p})
  BY DEF LockInv, Discipline, DeleteProceeds, env, TypeOK, OthersKept,
         Procs, Holds, HasCapacity
<1>3. Examining(p)'
  BY DEF LockInv, Discipline, DeleteProceeds, env, TypeOK, Examining, Procs,
         Holds
<1>4. Asking(p)'
  BY DEF LockInv, Discipline, DeleteProceeds, env, TypeOK, Examining,
         Asking, Procs, Holds, HasCapacity
<1>5. Moves({p})
  BY DEF LockInv, Discipline, DeleteProceeds, env, TypeOK, Asking,
         Examining, Moves, Untouched, Loading, Creating, Procs
<1>6. QED
  BY <1>1, <1>2, <1>3, <1>4, <1>5 DEF Obeys, Procs

(* A deletion removes its own session only, and releases it.               *)
LEMMA DeleteEndsObeys ==
  ASSUME LockInv, NEW p \in Requests, DeleteEnds(p)
  PROVE  Obeys({p}) /\ Moves({p})
<1>1. session[p] \in Sessions /\ Holds(p, session[p])
  BY DEF LockInv, Discipline, Asking, DeleteEnds
<1>2. /\ lock' \in [Sessions -> Seq(Procs)]
      /\ \A q \in Procs \ {p}, t \in Sessions : Holds(q, t) => Holds(q, t)'
      /\ \A t \in Sessions \ {session[p]} : Holds(p, t) => Holds(p, t)'
  BY <1>1, UnlockKept DEF LockInv, DeleteEnds, Procs
<1>3. /\ scan' \in [Procs -> ScanState]
      /\ \A q \in Procs : scan'[q].left = scan[q].left /\ scan'[q].at = scan[q].at
  BY <1>1, ForgottenKept DEF LockInv, DeleteEnds
<1>4. TypeOK'
  BY <1>1, <1>2, <1>3
     DEF LockInv, Discipline, DeleteEnds, Answer, ScanState, TypeOK, Procs,
         Kinds
<1>5. OthersKept({p})
  BY <1>1, <1>2, <1>3
     DEF LockInv, Discipline, DeleteEnds, Answer, ScanState, TypeOK,
         OthersKept, Procs, Holds, HasCapacity
<1>6. Examining(p)'
  BY <1>1, <1>2, <1>3
     DEF LockInv, Discipline, DeleteEnds, Answer, ScanState, TypeOK,
         Examining, Procs, Holds
<1>7. Asking(p)'
  BY <1>1, <1>2, <1>3
     DEF LockInv, Discipline, DeleteEnds, Answer, ScanState, TypeOK,
         Examining, Asking, Procs, Holds, HasCapacity
<1>8. Moves({p})
  BY <1>1, <1>2, <1>3
     DEF LockInv, Discipline, DeleteEnds, Answer, ScanState, TypeOK, Asking,
         Examining, Moves, Untouched, Loading, Creating, Procs
<1>9. QED
  BY <1>4, <1>5, <1>6, <1>7, <1>8 DEF Obeys, Procs

(***************************************************************************)
(* The steps of the sweep, and those that belong to no process.            *)
(***************************************************************************)
LEMMA SweepStartsObeys ==
  ASSUME LockInv, NEW expired, SweepStarts(expired)
  PROVE  Obeys({Sweeper}) /\ Moves({Sweeper})
<1>1. expired \subseteq Sessions /\ Sweeper \in Procs /\ Sweeper \notin Requests
  BY NamesDiffer DEF LockInv, TypeOK, SweepStarts, Idle, Procs
<1>2. TypeOK'
  BY ZenonT(30), <1>1 DEF LockInv, SweepStarts, env, TypeOK
<1>3. OthersKept({Sweeper})
  BY <1>1 DEF LockInv, SweepStarts, TypeOK, OthersKept, Holds, HasCapacity
<1>4. Examining(Sweeper)'
  BY <1>1 DEF LockInv, SweepStarts, TypeOK, Examining
<1>5. Moves({Sweeper})
  BY <1>1 DEF LockInv, SweepStarts, env, TypeOK, Moves, Untouched
<1>6. QED
  BY <1>1, <1>2, <1>3, <1>4, <1>5 DEF Obeys

(* The sweep ends with no candidate in hand.                               *)
LEMMA SweepEndsObeys ==
  ASSUME LockInv, SweepEnds
  PROVE  Obeys({Sweeper}) /\ Moves({Sweeper})
<1>1. Sweeper \in Procs /\ Sweeper \notin Requests
  BY NamesDiffer DEF Procs
<1>2. TypeOK'
  BY <1>1 DEF LockInv, SweepEnds, NoScan, env, TypeOK
<1>3. OthersKept({Sweeper})
  BY <1>1 DEF LockInv, SweepEnds, TypeOK, OthersKept, Holds, HasCapacity
<1>4. Examining(Sweeper)'
  BY <1>1 DEF LockInv, SweepEnds, TypeOK, Examining
<1>5. Moves({Sweeper})
  BY <1>1 DEF LockInv, SweepEnds, env, TypeOK, Moves, Untouched
<1>6. QED
  BY <1>1, <1>2, <1>3, <1>4, <1>5 DEF Obeys

(* An access moves nobody.                                                 *)
LEMMA LookObeys ==
  ASSUME LockInv, NEW s \in Sessions, Look(s)
  PROVE  Obeys({}) /\ Moves({})
<1>1. /\ scan' \in [Procs -> ScanState]
      /\ \A q \in Procs : scan'[q].left = scan[q].left /\ scan'[q].at = scan[q].at
  BY TouchKept DEF LockInv, Look
<1>2. TypeOK'
  BY <1>1 DEF LockInv, Look, env, ScanState, TypeOK
<1>3. OthersKept({})
  BY <1>1 DEF LockInv, Look, OthersKept, Holds, HasCapacity, Procs
<1>4. Moves({})
  BY DEF Look, env, Moves, Untouched
<1>5. QED
  BY <1>2, <1>3, <1>4 DEF Obeys

(* What turns, background work and the cleanup do in the environment.      *)
Environment(s) == \/ TurnEnds(s) \/ PersistenceChecked(s) \/ TaskStarts(s)
                  \/ TaskEnds(s) \/ WakeBegins(s) \/ CleanupFinds(s)

(* Turns, background work and the cleanup's look keep the locks and the    *)
(* map.                                                                    *)
LEMMA EnvironmentObeys ==
  ASSUME LockInv, NEW s \in Sessions, Environment(s)
  PROVE  Obeys({}) /\ Moves({})
<1>1. Quiet
  BY DEF Environment, TurnEnds, PersistenceChecked, TaskStarts, TaskEnds,
         WakeBegins, CleanupFinds
<1>2. /\ busy' \subseteq Sessions /\ persisted' \subseteq Sessions
      /\ stored' \subseteq Sessions /\ tasks' \subseteq Sessions
      /\ owed' \subseteq Sessions /\ clean' \in Sessions \cup {NoSession}
  BY DEF LockInv, TypeOK, Environment, TurnEnds, PersistenceChecked, TaskStarts,
         TaskEnds, WakeBegins, CleanupFinds, Begin, Idle
<1>3. TypeOK' /\ OthersKept({})
  BY <1>1, <1>2
     DEF LockInv, TypeOK, Quiet, OthersKept, Holds, HasCapacity, Procs
<1>4. \A t \in Sessions : Untouched(t) => Untouched(t)'
  BY DEF Environment, TurnEnds, PersistenceChecked, TaskStarts, TaskEnds,
         WakeBegins, CleanupFinds, Begin, Idle, Untouched
<1>5. Moves({})
  BY <1>1, <1>4 DEF Quiet, Moves
<1>6. QED
  BY <1>3, <1>5 DEF Obeys

(* The cleanup's removal keeps the locks and the map.                      *)
LEMMA CleanupRemovesObeys ==
  ASSUME LockInv, CleanupRemoves
  PROVE  Obeys({}) /\ Moves({})
<1>1. TypeOK' /\ OthersKept({})
  BY DEF LockInv, TypeOK, CleanupRemoves, Quiet, OthersKept, Holds,
         HasCapacity, Procs
<1>2. Moves({})
  BY DEF CleanupRemoves, Quiet, Moves, Untouched
<1>3. QED
  BY <1>1, <1>2 DEF Obeys

(* So does a step that changes nothing.                                    *)
LEMMA StutterObeys ==
  ASSUME LockInv, UNCHANGED vars
  PROVE  Obeys({}) /\ Moves({})
<1>1. TypeOK' /\ OthersKept({})
  BY DEF LockInv, TypeOK, vars, env, OthersKept, Holds, HasCapacity, Procs
<1>2. Moves({})
  BY DEF vars, env, Moves, Untouched
<1>3. QED
  BY <1>1, <1>2 DEF Obeys

(* Every step is one of these.                                             *)
LEMMA StepObeys ==
  ASSUME LockInv, Absent, [Next]_vars
  PROVE  \E A \in SUBSET Procs : /\ \A p, q \in A : p = q
                                 /\ Obeys(A) /\ Moves(A)
<1>1. ASSUME NEW p \in Procs, Evicting(p) PROVE Obeys({p}) /\ Moves({p})
  BY <1>1, ObserveObeys, ConfirmObeys, SpareObeys, EvictObeys, SpareLateObeys
     DEF Evicting
<1>2. ASSUME NEW p \in Requests, Opening(p) PROVE Obeys({p}) /\ Moves({p})
  BY <1>2, OpenLiveObeys, OpenStoredObeys, NotFoundObeys, TakeRoomObeys,
     MakeRoomObeys, RoomMadeObeys, NoRoomObeys, HydrateObeys, HydrateFailsObeys,
     ProceedObeys DEF Opening
<1>3. ASSUME NEW p \in Requests, Deleting(p) PROVE Obeys({p}) /\ Moves({p})
  BY <1>3, DeleteEntersObeys, DeleteRefusedObeys, DeleteProceedsObeys,
     DeleteEndsObeys DEF Deleting
<1>4. ASSUME NEW p \in Requests,
             ArriveNew(p) \/ \E o \in Kinds, s \in Sessions : Arrive(p, o, s)
      PROVE  Obeys({p}) /\ Moves({p})
  BY <1>4, ArriveNewObeys, ArriveObeys
<1>5. ASSUME NEW s \in Sessions, Background(s) PROVE Obeys({}) /\ Moves({})
  BY <1>5, LookObeys, EnvironmentObeys DEF Background, Environment
<1>6. ASSUME NEW p \in Procs, Obeys({p}) /\ Moves({p})
      PROVE  \E A \in SUBSET Procs : /\ \A r, q \in A : r = q
                                     /\ Obeys(A) /\ Moves(A)
  <2>1. {p} \in SUBSET Procs /\ \A r, q \in {p} : r = q
    OBVIOUS
  <2>2. QED
    BY <1>6, <2>1
<1>7. ASSUME Obeys({}) /\ Moves({})
      PROVE  \E A \in SUBSET Procs : /\ \A p, q \in A : p = q
                                     /\ Obeys(A) /\ Moves(A)
  <2>1. {} \in SUBSET Procs /\ \A p, q \in {} : p = q
    OBVIOUS
  <2>2. QED
    BY <1>7, <2>1
<1>8. CASE \E p \in Requests : \/ GoesOn(p) \/ ArriveNew(p)
                               \/ \E o \in Kinds, s \in Sessions : Arrive(p, o, s)
  BY <1>1, <1>2, <1>3, <1>4, <1>6, <1>8 DEF GoesOn, Procs
<1>9. CASE \/ Evicting(Sweeper) \/ SweepEnds
           \/ \E expired \in SUBSET Sessions : SweepStarts(expired)
  BY <1>1, <1>6, <1>9, SweepStartsObeys, SweepEndsObeys DEF Procs
<1>10. CASE (\E s \in Sessions : Background(s)) \/ CleanupRemoves \/ UNCHANGED vars
  BY <1>5, <1>7, <1>10, CleanupRemovesObeys, StutterObeys
<1>11. QED
  BY <1>8, <1>9, <1>10 DEF Next

(***************************************************************************)
(* Consequences for the map.                                               *)
(***************************************************************************)
LEMMA AbsentKept ==
  ASSUME LockInv, Absent, NEW A, \A p, q \in A : p = q, Obeys(A), Moves(A)
  PROVE  Absent'
<1> SUFFICES ASSUME NEW q \in Requests, op'[q] = "open", pc'[q] \in Loading,
                    session'[q] \in live'
             PROVE  FALSE
  BY DEF Absent, Loading
<1>1. session'[q] = session[q] /\ session[q] \notin live
  BY DEF Moves, Obeys, OthersKept, Absent, Loading, Procs
<1>2. PICK p \in A \cap Requests :
        /\ pc[p] = "hydrate" /\ pc'[p] = "begin"
        /\ (op[p] = "open" /\ session[q] = session[p]) \/ Unused(session[q])
  BY <1>1 DEF Moves
<1>3. p # q
  BY <1>2 DEF Loading
<1>4. q \notin A
  BY <1>2, <1>3
<1>5. op[q] = "open" /\ pc[q] \in Loading
  BY <1>4 DEF Obeys, OthersKept, Procs
<1>6. Holds(q, session[q])
  BY <1>5 DEF LockInv, Discipline, Asking, Loading
<1>7. CASE op[p] = "open" /\ session[q] = session[p]
  BY <1>2, <1>3, <1>6, <1>7 DEF LockInv, Discipline, Asking, Holds
<1>8. CASE Unused(session[q])
  BY <1>6, <1>8 DEF Unused, Holds
<1>9. QED
  BY <1>2, <1>7, <1>8

(* Who removes a session from the map holds its lock.                      *)
LEMMA RemoverHolds ==
  ASSUME LockInv, NEW A \in SUBSET Procs, Moves(A), NEW s \in live \ live'
  PROVE  \E p \in A : /\ Holds(p, s)
                      /\ \/ pc[p] = "check" /\ s = scan[p].at
                         \/ p \in Requests /\ pc[p] = "erase" /\ s = session[p]
BY DEF LockInv, Discipline, Examining, Asking, Moves

(* What a request found stays: who removes a session holds its lock.       *)
LEMMA FoundKept ==
  ASSUME LockInv, NewIsFresh, FoundIsLive, NEW A \in SUBSET Procs, Obeys(A), Moves(A)
  PROVE  FoundIsLive'
<1> SUFFICES ASSUME NEW q \in Requests, pc'[q] = "begin" PROVE session'[q] \in live'
  BY DEF FoundIsLive
<1>1. CASE q \in A
  BY <1>1 DEF Moves
<1>2. CASE q \notin A
  <2>1. /\ pc[q] = "begin" /\ op'[q] = op[q] /\ session'[q] = session[q]
        /\ session[q] \in live
    BY <1>2 DEF Obeys, OthersKept, Procs, FoundIsLive
  <2>2. SUFFICES ASSUME session[q] \notin live' PROVE FALSE
    BY <2>1
  <2>3. PICK p \in A : /\ Holds(p, session[q])
                       /\ \/ pc[p] = "check" /\ session[q] = scan[p].at
                          \/ /\ p \in Requests /\ pc[p] = "erase"
                             /\ session[q] = session[p]
    BY <2>1, <2>2, RemoverHolds
  <2>4. CASE op[q] = "open"
    <3>1. Holds(q, session[q])
      BY <2>1, <2>4 DEF LockInv, Discipline, Asking
    <3>2. p = q
      BY <2>3, <3>1 DEF Holds
    <3>3. QED
      BY <1>2, <3>2
  <2>5. CASE op[q] = "create"
    BY <1>2, <2>1, <2>3, <2>5 DEF NewIsFresh, Fresh
  <2>6. QED
    BY <2>1, <2>4, <2>5 DEF LockInv, Discipline, Asking
<1>3. QED
  BY <1>1, <1>2

(* A new session stays out of everyone else's reach.                       *)
LEMMA FreshKept ==
  ASSUME LockInv, NewIsFresh, NEW A \in SUBSET Procs, \A p, q \in A : p = q,
         Obeys(A), Moves(A)
  PROVE  NewIsFresh'
<1> SUFFICES ASSUME NEW q \in Requests, op'[q] = "create", pc'[q] = "begin"
             PROVE  Fresh(q)'
  BY DEF NewIsFresh
<1> DEFINE s == session'[q]
<1>1. s \in Sessions /\ Untouched(session[q])'
  <2>1. CASE q \in A
    BY <2>1 DEF Moves, Obeys, TypeOK, Unused
  <2>2. CASE q \notin A
    BY <2>2 DEF Obeys, OthersKept, Moves, NewIsFresh, Fresh, Untouched, Procs
  <2>3. QED
    BY <2>1, <2>2
<1>2. q \notin A => /\ op[q] = "create" /\ pc[q] = "begin" /\ s = session[q]
                    /\ Fresh(q) /\ Creating(s)
  BY DEF Obeys, OthersKept, NewIsFresh, Creating, Procs
<1>3. q \in A => Unused(s)
  BY DEF Moves
<1>4. ASSUME NEW r \in Requests \ {q} PROVE session'[r] # s
  <2>1. CASE r \notin A
    <3>1. session'[r] = session[r]
      BY <2>1 DEF Obeys, OthersKept, Procs
    <3>2. QED
      BY <1>2, <1>3, <3>1 DEF Fresh, Unused, Procs
  <2>2. CASE r \in A
    <3>1. q \notin A /\ session[r] # s
      BY <1>2, <2>2 DEF Fresh
    <3>2. session'[r] \in {session[r], NoSession} \/ ~Creating(session'[r])
      BY <2>2 DEF Moves
    <3>3. QED
      BY <1>1, <1>2, <3>1, <3>2, NamesDiffer
  <2>3. QED
    BY <2>1, <2>2
<1>5. ASSUME NEW r \in Procs, pc'[r] = "check" PROVE scan'[r].at # s
  <2>1. CASE r \notin A
    <3>1. pc[r] = "check" /\ scan'[r].at = scan[r].at /\ Holds(r, scan[r].at)
      BY <1>5, <2>1 DEF LockInv, Discipline, Examining, Obeys, OthersKept
    <3>2. QED
      BY <1>2, <1>3, <3>1 DEF Fresh, Unused, Holds
  <2>2. CASE r \in A
    <3>1. q \notin A
      BY <1>5, <2>2
    <3>2. QED
      BY <1>2, <1>5, <2>2, <3>1 DEF Fresh, Moves
  <2>3. QED
    BY <2>1, <2>2
<1>6. QED
  BY <1>1, <1>4, <1>5 DEF Fresh, Untouched

(***************************************************************************)
(* The capacity.                                                           *)
(***************************************************************************)
Filling == {p \in Requests : pc[p] = "hydrate"}

(* Sets of sessions are finite, and of loaders when there is at most one.  *)
LEMMA Counts ==
  ASSUME NEW L \in SUBSET Sessions, NEW F, \A p, q \in F : p = q
  PROVE  /\ IsFiniteSet(L) /\ IsFiniteSet(F)
         /\ Cardinality(L) \in Nat
         /\ \A p \in F : Cardinality(F) = 1
         /\ F = {} => Cardinality(F) = 0
<1>1. IsFiniteSet(L) /\ Cardinality(L) \in Nat
  BY FiniteSessions, FS_Subset, FS_CardinalityType
<1>2. F = {} => IsFiniteSet(F) /\ Cardinality(F) = 0
  BY FS_EmptySet
<1>3. ASSUME NEW p \in F PROVE IsFiniteSet(F) /\ Cardinality(F) = 1
  <2>1. F = {p}
    OBVIOUS
  <2>2. QED
    BY <2>1, FS_Singleton
<1>4. QED
  BY <1>1, <1>2, <1>3

(* Only the holder of the capacity fills it.                               *)
LEMMA OneFills ==
  ASSUME LockInv
  PROVE  /\ IsFiniteSet(live) /\ IsFiniteSet(Filling)
         /\ Cardinality(live) \in Nat
         /\ \A p, q \in Filling : p = q
         /\ \A p \in Filling : Cardinality(Filling) = 1
         /\ Filling = {} => Cardinality(Filling) = 0
<1>1. live \in SUBSET Sessions
  BY DEF LockInv, TypeOK
<1>2. \A p, q \in Filling : p = q
  BY DEF Filling, LockInv, Discipline, Asking, HasCapacity
<1>3. QED
  BY <1>1, <1>2, Counts

(* The sum of live and loading sessions stays within the capacity.         *)
LEMMA CapacityKept ==
  ASSUME LockInv, LockInv', CapacityHolds, NEW A \in SUBSET Procs,
         \A p, q \in A : p = q, Obeys(A), Moves(A)
  PROVE  CapacityHolds'
<1>1. Max \in Nat
  BY MaxAssumption
<1>2. Cardinality(live) + Cardinality(Filling) <= Max
  BY DEF CapacityHolds, Filling
<1>3. SUFFICES Cardinality(live') + Cardinality(Filling') <= Max
  BY DEF CapacityHolds, Filling
<1>4. /\ IsFiniteSet(live') /\ IsFiniteSet(Filling') /\ Cardinality(live') \in Nat
      /\ \A p \in Filling' : Cardinality(Filling') = 1
      /\ Filling' = {} => Cardinality(Filling') = 0
  <2>1. live' \in SUBSET Sessions
    BY DEF LockInv, TypeOK
  <2>2. \A p, q \in Filling' : p = q
    BY DEF Filling, LockInv, Discipline, Asking, HasCapacity
  <2>3. QED
    BY <2>1, <2>2, Counts
<1>5. CASE live' \subseteq live
  <2>1. Cardinality(live') <= Cardinality(live)
    BY <1>5, OneFills, FS_Subset
  <2>2. CASE Filling' = {}
    <3>1. Cardinality(Filling) \in Nat
      BY OneFills, FS_CardinalityType
    <3>2. QED
      BY <1>1, <1>2, <1>4, <2>1, <2>2, <3>1, OneFills
  <2>3. ASSUME NEW p \in Filling' PROVE Cardinality(live') + Cardinality(Filling') <= Max
    <3>1. Cardinality(Filling') = 1
      BY <1>4
    <3>2. CASE p \in A
      <4>1. Room /\ live' = live
        BY <3>2 DEF Filling, Moves
      <4>2. QED
        BY <1>1, <3>1, <4>1, OneFills DEF Room
    <3>3. CASE p \notin A
      <4>1. p \in Filling
        BY <3>3 DEF Filling, Obeys, OthersKept, Procs
      <4>2. QED
        BY <1>1, <1>2, <1>4, <2>1, <3>1, <4>1, OneFills
    <3>4. QED
      BY <3>2, <3>3
  <2>4. QED
    BY <2>2, <2>3
<1>6. CASE ~(live' \subseteq live)
  <2>1. PICK s \in live' \ live : TRUE
    BY <1>6
  <2>2. PICK p \in A \cap Requests : pc[p] = "hydrate" /\ pc'[p] = "begin"
    BY <2>1 DEF Moves
  <2>3. p \in Filling
    BY <2>2 DEF Filling
  <2>4. Filling' = {}
    <3>1. SUFFICES ASSUME NEW q \in Filling' PROVE FALSE
      OBVIOUS
    <3>2. q # p
      BY <2>2, <3>1 DEF Filling
    <3>3. q \in Filling
      BY <2>2, <3>1, <3>2 DEF Filling, Obeys, OthersKept, Procs
    <3>4. QED
      BY <2>3, <3>2, <3>3, OneFills
  <2>5. live' \subseteq live \cup {session'[p]}
    BY <2>2 DEF Moves
  <2>6. /\ IsFiniteSet(live \cup {session'[p]})
        /\ Cardinality(live \cup {session'[p]}) \in Nat
        /\ Cardinality(live \cup {session'[p]}) <= Cardinality(live) + 1
    <3>1. IsFiniteSet(live) /\ Cardinality(live) \in Nat
      BY OneFills
    <3>2. /\ IsFiniteSet(live \cup {session'[p]})
          /\ Cardinality(live \cup {session'[p]})
               = IF session'[p] \in live THEN Cardinality(live) ELSE Cardinality(live) + 1
      BY <3>1, FS_AddElement
    <3>3. QED
      BY <3>1, <3>2
  <2>7. Cardinality(live') <= Cardinality(live) + 1
    BY <1>4, <2>5, <2>6, OneFills, FS_Subset
  <2>8. Cardinality(Filling) = 1
    BY <2>3, OneFills
  <2>9. QED
    BY <1>1, <1>2, <1>4, <2>4, <2>7, <2>8, OneFills
<1>7. QED
  BY <1>5, <1>6

(***************************************************************************)
(* The theorems.                                                           *)
(***************************************************************************)
(* The invariant holds at first, and every step keeps it.                  *)
LEMMA InitHolds == Init => Inv /\ CapacityHolds
<1> SUFFICES ASSUME Init PROVE Inv /\ CapacityHolds
  OBVIOUS
<1>1. LockInv
  <2>1. TypeOK
    BY DEF Init, TypeOK, NoScan
  <2>2. Discipline
    BY DEF Init, Discipline, Examining, Asking, Procs
  <2>3. QED
    BY <2>1, <2>2 DEF LockInv
<1>2. Absent /\ NewIsFresh /\ FoundIsLive
  BY DEF Init, Absent, NewIsFresh, FoundIsLive, Procs
<1>3. CapacityHolds
  <2>1. Filling = {} /\ Cardinality(live) = 0
    BY FS_EmptySet DEF Init, Filling, Procs
  <2>2. QED
    BY <1>1, <2>1, OneFills, MaxAssumption DEF CapacityHolds, Filling
<1>4. QED
  BY <1>1, <1>2, <1>3 DEF Inv

(* Every step keeps the inductive invariant and the capacity.              *)
LEMMA StepHolds ==
  ASSUME Inv, CapacityHolds, [Next]_vars
  PROVE  Inv' /\ CapacityHolds'
<1>1. PICK A \in SUBSET Procs : /\ \A p, q \in A : p = q
                                /\ Obeys(A) /\ Moves(A)
  BY StepObeys DEF Inv
<1>2. LockInv'
  BY <1>1, ObeyingKeepsDiscipline DEF Inv
<1>3. Absent' /\ NewIsFresh' /\ FoundIsLive'
  BY <1>1, AbsentKept, FreshKept, FoundKept DEF Inv
<1>4. CapacityHolds'
  BY <1>1, <1>2, CapacityKept DEF Inv
<1>5. QED
  BY <1>2, <1>3, <1>4 DEF Inv

(* The inductive invariant holds.                                          *)
THEOREM Invariance == Spec => [](Inv /\ CapacityHolds)
BY InitHolds, StepHolds, PTL DEF Spec

(* The variables keep their types, whatever requests, evictions and the    *)
(* cleanup do in whatever order.                                           *)
THEOREM TypeCorrect == Spec => []TypeOK
<1>1. Inv /\ CapacityHolds => TypeOK
  BY DEF Inv, LockInv
<1>2. QED
  BY <1>1, Invariance, PTL

(* The active map never outgrows its capacity (turn-queue.ts 775-824).     *)
THEOREM CapacityIsKept == Spec => []CapacityHolds
BY Invariance, PTL

(* What a request found or made is in the map when it goes on with it      *)
(* (turn-queue.ts 533-565).                                                *)
THEOREM FoundStaysLive == Spec => []FoundIsLive
<1>1. Inv /\ CapacityHolds => FoundIsLive
  BY DEF Inv
<1>2. QED
  BY <1>1, Invariance, PTL

(* No eviction takes a session with a turn or registered background work   *)
(* (active-map.ts 107-136).                                                *)
THEOREM WorkIsSpared == Spec => EvictionSparesWork
<1>1. Inv /\ [Next]_vars =>
        [\A s \in live \ live' : Erased(s) \/ s \notin busy \cup tasks]_vars
  <2> SUFFICES ASSUME Inv, [Next]_vars, NEW s \in live \ live'
               PROVE  Erased(s) \/ s \notin busy \cup tasks
    OBVIOUS
  <2>1. PICK A \in SUBSET Procs : Moves(A)
    BY StepObeys DEF Inv
  <2>2. QED
    BY <2>1 DEF Moves, Erased
<1>2. QED
  BY <1>1, Invariance, PTL DEF Spec, EvictionSparesWork

===============================================================================
