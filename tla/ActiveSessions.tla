---------------------------- MODULE ActiveSessions ----------------------------
(***************************************************************************)
(* The dashboard's map of active sessions: requests that open, create and  *)
(* delete sessions, the sweep that evicts idle ones, the eviction that     *)
(* makes room at capacity, and the retention cleanup of their files.       *)
(* Requests and evictions meet at two kinds of lock, one per session and   *)
(* one for the capacity, each a chain of promises: a queue in order of     *)
(* arrival whose head is the holder.                                       *)
(*                                                                         *)
(* A request holds its session's lock while it waits for the capacity; an  *)
(* eviction at capacity holds the capacity while it waits for the lock of  *)
(* each session it considers.                                              *)
(***************************************************************************)
EXTENDS Naturals, Sequences, FiniteSets

CONSTANTS
  Sessions,     \* session ids
  NoSession,
  Requests,     \* clients' requests; each is one request at a time
  Sweeper,      \* the idle sweep: activeSweepPromise admits one
  Max,          \* activePolicy.max
  Ops           \* what clients, sessions and the cleanup do in an instance

ASSUME NamesDiffer == NoSession \notin Sessions /\ Sweeper \notin Requests
ASSUME MaxAssumption == Max \in Nat \ {0}
ASSUME FiniteSessions == IsFiniteSet(Sessions)
ASSUME OpsAssumption == Ops \subseteq {"open", "create", "delete", "look", "background", "cleanup"}

Procs == Requests \cup {Sweeper}
Kinds == {"open", "create", "delete"}

VARIABLES
  live,         \* keys of the active map
  busy,         \* live sessions with a turn, a queue or a pending interaction
  persisted,    \* state.persisted
  stored,       \* sessions with a metadata file
  tasks,        \* sessions with registered background work
  owed,         \* sessions whose finished group has not woken them yet
  clean,        \* the session whose files the retention cleanup has locked
  lock,         \* sessionMutationLocks: who holds and awaits each session
  capacity,     \* activeCapacityLocks: who holds and awaits the capacity
  pc, op, session,
  scan          \* an eviction's candidates left, the one in hand, and those
                \* replaced, removed or touched since they were observed

env == <<busy, persisted, stored, tasks, owed, clean>>
vars == <<live, env, lock, capacity, pc, op, session, scan>>

NoScan == [left |-> {}, at |-> NoSession, stale |-> {}]
Idle == live \ busy

Holds(p, s) == lock[s] # <<>> /\ Head(lock[s]) = p
HasCapacity(p) == capacity # <<>> /\ Head(capacity) = p

(* Nobody but a creating request knows a session before it answers.        *)
Creating(s) == \E p \in Requests : op[p] = "create" /\ session[p] = s
Unused(s) == /\ s \notin live \cup busy \cup persisted \cup stored \cup tasks \cup owed
             /\ s # clean
             /\ lock[s] = <<>>
             /\ \A p \in Procs : session[p] # s /\ s \notin scan[p].left

TypeOK ==
  /\ live \subseteq Sessions /\ busy \subseteq Sessions /\ persisted \subseteq Sessions
  /\ stored \subseteq Sessions /\ tasks \subseteq Sessions /\ owed \subseteq Sessions
  /\ clean \in Sessions \cup {NoSession}
  /\ lock \in [Sessions -> Seq(Procs)]
  /\ capacity \in Seq(Requests)
  /\ pc \in [Procs -> {"idle", "lock", "capacity", "scan", "evict", "check",
                       "hydrate", "begin", "drain", "erase"}]
  /\ op \in [Requests -> Kinds \cup {"none"}]
  /\ session \in [Procs -> Sessions \cup {NoSession}]
  /\ scan \in [Procs -> [left : SUBSET Sessions, at : Sessions \cup {NoSession},
                         stale : SUBSET Sessions]]

Init ==
  /\ stored \in SUBSET Sessions
  /\ live = {} /\ busy = {} /\ persisted = {} /\ tasks = {} /\ owed = {}
  /\ clean = NoSession
  /\ lock = [s \in Sessions |-> <<>>]
  /\ capacity = <<>>
  /\ pc = [p \in Procs |-> "idle"]
  /\ op = [p \in Requests |-> "none"]
  /\ session = [p \in Procs |-> NoSession]
  /\ scan = [p \in Procs |-> NoScan]

(***************************************************************************)
(* Steps that several handlers share.                                      *)
(***************************************************************************)
Unlock(s) == lock' = [lock EXCEPT ![s] = Tail(@)]

(* ActiveSessionMap.get: every eviction that has this session in hand sees *)
(* another access version.                                                 *)
Touch(s) ==
  scan' = [p \in Procs |-> IF scan[p].at = s
                             THEN [scan[p] EXCEPT !.stale = @ \cup {s}]
                             ELSE scan[p]]

(* A removed state is no eviction's candidate, even when its id returns.   *)
Forgotten(s) ==
  [p \in Procs |-> IF s \in scan[p].left \cup {scan[p].at}
                     THEN [scan[p] EXCEPT !.stale = @ \cup {s}]
                     ELSE scan[p]]

Answer(p) ==
  /\ pc' = [pc EXCEPT ![p] = "idle"]
  /\ op' = [op EXCEPT ![p] = "none"]
  /\ session' = [session EXCEPT ![p] = NoSession]

(* beginPrompt, or the prompt joins the queue of the turn that runs.       *)
Begin(s) ==
  /\ busy' = busy \cup {s}
  /\ persisted' = IF s \in busy THEN persisted ELSE persisted \ {s}
  /\ UNCHANGED <<stored, tasks, owed, clean>>

(***************************************************************************)
(* reclaimActiveSessions: the sweep takes what has expired, which is any   *)
(* of the idle sessions; an eviction at capacity takes them all and stops  *)
(* when there is room.  The order of last access is left open.             *)
(***************************************************************************)
SweepStarts(expired) ==
  /\ pc[Sweeper] = "idle"
  /\ expired # {} /\ expired \subseteq Idle
  /\ scan' = [scan EXCEPT ![Sweeper].left = expired]
  /\ pc' = [pc EXCEPT ![Sweeper] = "scan"]
  /\ UNCHANGED <<live, env, lock, capacity, op, session>>

Room == Cardinality(live) < Max
ScanOver(p) == scan[p].left = {} \/ (p # Sweeper /\ Room)

(* The candidate's access is observed here and its lock is queued for.     *)
Observe(p, s) ==
  /\ pc[p] = "scan" /\ ~ScanOver(p) /\ s \in scan[p].left
  /\ scan' = [scan EXCEPT ![p].left = @ \ {s}, ![p].at = s]
  /\ lock' = [lock EXCEPT ![s] = Append(@, p)]
  /\ pc' = [pc EXCEPT ![p] = "evict"]
  /\ UNCHANGED <<live, env, capacity, op, session>>

ReclaimableAsObserved(p) == scan[p].at \notin scan[p].stale
Reclaimable(p) == scan[p].at \in Idle /\ scan[p].at \notin scan[p].stale
Eligible(p) == Reclaimable(p) /\ scan[p].at \in persisted

(* A variant: the candidate is examined without its session's lock.        *)
ConfirmUnlocked(p) ==
  /\ pc[p] = "evict"
  /\ Eligible(p) /\ scan[p].at \in stored
  /\ pc' = [pc EXCEPT ![p] = "check"]
  /\ UNCHANGED <<live, env, lock, capacity, op, session, scan>>

(* The metadata is read and the groups listed.  A listing that fails shows  *)
(* no group.                                                               *)
Confirm(p) ==
  /\ pc[p] = "evict" /\ Holds(p, scan[p].at)
  /\ Eligible(p) /\ scan[p].at \in stored
  /\ pc' = [pc EXCEPT ![p] = "check"]
  /\ UNCHANGED <<live, env, lock, capacity, op, session, scan>>

Release(p, known) ==
  /\ Unlock(scan[p].at)
  /\ scan' = [known EXCEPT ![p].at = NoSession, ![p].stale = @ \ {scan[p].at}]
  /\ pc' = [pc EXCEPT ![p] = "scan"]
  /\ UNCHANGED <<capacity, op, session>>

Spare(p) ==
  /\ pc[p] = "evict" /\ Holds(p, scan[p].at)
  /\ \E found \in BOOLEAN :
       /\ found => scan[p].at \in stored
       /\ ~Eligible(p) \/ ~found \/ scan[p].at \in tasks \cup owed
       /\ persisted' = IF Eligible(p) /\ ~found THEN persisted \ {scan[p].at}
                                               ELSE persisted
  /\ Release(p, scan)
  /\ UNCHANGED <<live, busy, stored, tasks, owed, clean>>

(* After the last await: what memory shows is looked at again.             *)
Evict(p) ==
  /\ pc[p] = "check" /\ Reclaimable(p) /\ scan[p].at \notin tasks
  /\ live' = live \ {scan[p].at}
  /\ persisted' = persisted \ {scan[p].at}
  /\ Release(p, Forgotten(scan[p].at))
  /\ UNCHANGED <<busy, stored, tasks, owed, clean>>

SpareLate(p) ==
  /\ pc[p] = "check" /\ (~Reclaimable(p) \/ scan[p].at \in tasks)
  /\ Release(p, scan)
  /\ UNCHANGED <<live, env>>

SweepEnds ==
  /\ pc[Sweeper] = "scan" /\ ScanOver(Sweeper)
  /\ scan' = [scan EXCEPT ![Sweeper] = NoScan]
  /\ pc' = [pc EXCEPT ![Sweeper] = "idle"]
  /\ UNCHANGED <<live, env, lock, capacity, op, session>>

(***************************************************************************)
(* Opening a session, by its id or a new one: requireExactSessionId and    *)
(* ensureTurnState.                                                        *)
(***************************************************************************)
Arrive(p, o, s) ==
  /\ pc[p] = "idle" /\ o \in Ops \cap {"open", "delete"} /\ ~Creating(s)
  /\ op' = [op EXCEPT ![p] = o]
  /\ session' = [session EXCEPT ![p] = s]
  /\ lock' = [lock EXCEPT ![s] = Append(@, p)]
  /\ pc' = [pc EXCEPT ![p] = "lock"]
  /\ UNCHANGED <<live, env, capacity, scan>>

ArriveNew(p) ==
  /\ pc[p] = "idle" /\ "create" \in Ops
  /\ op' = [op EXCEPT ![p] = "create"]
  /\ capacity' = Append(capacity, p)
  /\ pc' = [pc EXCEPT ![p] = "capacity"]
  /\ UNCHANGED <<live, env, lock, session, scan>>

Entered(p, o) == pc[p] = "lock" /\ op[p] = o /\ Holds(p, session[p])

OpenLive(p) ==
  /\ Entered(p, "open") /\ session[p] \in live
  /\ Touch(session[p])
  /\ pc' = [pc EXCEPT ![p] = "begin"]
  /\ UNCHANGED <<live, env, lock, capacity, op, session>>

OpenStored(p) ==
  /\ Entered(p, "open") /\ session[p] \in stored \ live
  /\ capacity' = Append(capacity, p)
  /\ pc' = [pc EXCEPT ![p] = "capacity"]
  /\ UNCHANGED <<live, env, lock, op, session, scan>>

NotFound(p) ==
  /\ pc[p] = "lock" /\ Holds(p, session[p]) /\ session[p] \notin live \cup stored
  /\ Unlock(session[p])
  /\ Answer(p)
  /\ UNCHANGED <<live, env, capacity, scan>>

(* A variant: the size is checked without awaiting the capacity.           *)
TakeRoomUnserialized(p) ==
  /\ pc[p] = "capacity" /\ Room
  /\ pc' = [pc EXCEPT ![p] = "hydrate"]
  /\ UNCHANGED <<live, env, lock, capacity, op, session, scan>>

TakeRoom(p) ==
  /\ pc[p] = "capacity" /\ HasCapacity(p) /\ Room
  /\ pc' = [pc EXCEPT ![p] = "hydrate"]
  /\ UNCHANGED <<live, env, lock, capacity, op, session, scan>>

MakeRoom(p) ==
  /\ pc[p] = "capacity" /\ HasCapacity(p) /\ ~Room
  /\ scan' = [scan EXCEPT ![p].left = Idle]
  /\ pc' = [pc EXCEPT ![p] = "scan"]
  /\ UNCHANGED <<live, env, lock, capacity, op, session>>

RoomMade(p) ==
  /\ p # Sweeper /\ pc[p] = "scan" /\ Room
  /\ scan' = [scan EXCEPT ![p] = NoScan]
  /\ pc' = [pc EXCEPT ![p] = "hydrate"]
  /\ UNCHANGED <<live, env, lock, capacity, op, session>>

(* A variant: the failing request keeps its session's lock.                *)
GiveUpLocked(p) ==
  /\ capacity' = Tail(capacity)
  /\ UNCHANGED lock
  /\ Answer(p)
  /\ UNCHANGED <<live, env>>

(* The request ends with the capacity, and its session's lock, released.   *)
GiveUp(p) ==
  /\ capacity' = Tail(capacity)
  /\ IF op[p] = "open" THEN Unlock(session[p]) ELSE UNCHANGED lock
  /\ Answer(p)
  /\ UNCHANGED <<live, env>>

NoRoom(p) ==
  /\ p # Sweeper /\ pc[p] = "scan" /\ scan[p].left = {} /\ ~Room
  /\ scan' = [scan EXCEPT ![p] = NoScan]
  /\ GiveUp(p)

(* A variant: the state enters the map under the id that was asked for.    *)
HydrateAsAsked(p, s) ==
  /\ pc[p] = "hydrate"
  /\ IF op[p] = "open" THEN s = session[p] ELSE Unused(s)
  /\ live' = live \cup {session[p]}
  /\ session' = [session EXCEPT ![p] = s]
  /\ capacity' = Tail(capacity)
  /\ pc' = [pc EXCEPT ![p] = "begin"]
  /\ UNCHANGED <<env, lock, op, scan>>

(* createSession resolves and the state enters the map.                    *)
Hydrate(p, s) ==
  /\ pc[p] = "hydrate"
  /\ IF op[p] = "open" THEN s = session[p] ELSE Unused(s)
  /\ live' = live \cup {s}
  /\ persisted' = IF op[p] = "open" THEN persisted \cup {s} ELSE persisted \ {s}
  /\ session' = [session EXCEPT ![p] = s]
  /\ capacity' = Tail(capacity)
  /\ pc' = [pc EXCEPT ![p] = "begin"]
  /\ UNCHANGED <<busy, stored, tasks, owed, clean, lock, op, scan>>

HydrateFails(p) ==
  /\ pc[p] = "hydrate"
  /\ GiveUp(p)
  /\ UNCHANGED scan

(* The caller goes on with the state: it begins or queues a prompt, or     *)
(* refuses.                                                                *)
Proceed(p) ==
  /\ pc[p] = "begin"
  /\ \/ session[p] \in live /\ Begin(session[p])
     \/ UNCHANGED env
  /\ IF op[p] = "open" THEN Unlock(session[p]) ELSE UNCHANGED lock
  /\ Answer(p)
  /\ UNCHANGED <<live, capacity, scan>>

(***************************************************************************)
(* deleteDashboardSession.  What its wait for the session's work cannot    *)
(* see is the wake-up of a group whose listing failed.                     *)
(***************************************************************************)
DeleteEnters(p) ==
  /\ Entered(p, "delete") /\ session[p] \in live \cup stored
  /\ Touch(session[p])
  /\ pc' = [pc EXCEPT ![p] = "drain"]
  /\ UNCHANGED <<live, env, lock, capacity, op, session>>

DeleteRefused(p) ==
  /\ pc[p] = "drain" /\ session[p] \in live \cap (busy \cup tasks \cup owed)
  /\ Unlock(session[p])
  /\ Answer(p)
  /\ UNCHANGED <<live, env, capacity, scan>>

DeleteProceeds(p) ==
  /\ pc[p] = "drain" /\ (session[p] \in live => session[p] \notin busy \cup tasks)
  /\ pc' = [pc EXCEPT ![p] = "erase"]
  /\ UNCHANGED <<live, env, lock, capacity, op, session, scan>>

(* A turn that began during the reads is aborted, and may yet write its    *)
(* metadata.  Nothing is owed to a deleted session.                        *)
DeleteEnds(p) ==
  LET s == session[p] IN
  /\ pc[p] = "erase"
  /\ live' = live \ {s} /\ busy' = busy \ {s} /\ persisted' = persisted \ {s}
  /\ stored' \in {stored \ {s}} \cup (IF s \in busy THEN {stored} ELSE {})
  /\ owed' = owed \ {s}
  /\ scan' = Forgotten(s)
  /\ Unlock(s)
  /\ Answer(p)
  /\ UNCHANGED <<tasks, clean, capacity>>

(***************************************************************************)
(* What goes on in a session without its lock.                             *)
(***************************************************************************)
Look(s) ==
  /\ "look" \in Ops /\ s \in live
  /\ Touch(s)
  /\ UNCHANGED <<live, env, lock, capacity, pc, op, session>>

Quiet == UNCHANGED <<live, lock, capacity, pc, op, session, scan>>

(* The turn writes its metadata, or fails to, or transcripts are disabled; *)
(* the file is locked while a cleanup removes it.                          *)
TurnEnds(s) ==
  /\ s \in busy
  /\ busy' = busy \ {s}
  /\ stored' \in {stored} \cup (IF s = clean THEN {} ELSE {stored \cup {s}})
  /\ owed' \in {owed, owed \ {s}}
  /\ UNCHANGED <<persisted, tasks, clean>> /\ Quiet

PersistenceChecked(s) ==
  /\ s \in Idle
  /\ persisted' \in {persisted \ {s}} \cup (IF s \in stored THEN {persisted \cup {s}} ELSE {})
  /\ UNCHANGED <<busy, stored, tasks, owed, clean>> /\ Quiet

TaskStarts(s) ==
  /\ "background" \in Ops /\ s \in busy
  /\ tasks' = tasks \cup {s}
  /\ UNCHANGED <<busy, persisted, stored, owed, clean>> /\ Quiet

TaskEnds(s) ==
  /\ s \in tasks
  /\ tasks' = tasks \ {s}
  /\ owed' \in {owed} \cup (IF s \in live THEN {owed \cup {s}} ELSE {})
  /\ UNCHANGED <<busy, persisted, stored, clean>> /\ Quiet

WakeBegins(s) ==
  /\ s \in owed \cap Idle
  /\ Begin(s) /\ Quiet

(***************************************************************************)
(* cleanupExpiredSessions: under the lock of the session's file it sees    *)
(* that the session is not in memory, reads its files' ages, and removes   *)
(* what has expired, which may be anything.                                *)
(***************************************************************************)
CleanupFinds(s) ==
  /\ "cleanup" \in Ops /\ clean = NoSession
  /\ s \in stored \ live
  /\ clean' = s
  /\ UNCHANGED <<busy, persisted, stored, tasks, owed>> /\ Quiet

CleanupRemoves ==
  /\ clean # NoSession
  /\ stored' \in {stored, stored \ {clean}}
  /\ clean' = NoSession
  /\ UNCHANGED <<busy, persisted, tasks, owed>> /\ Quiet

(***************************************************************************)
(* Promises settle and every lock is passed on in order, so whoever can go *)
(* on does.  Clients, turns and background work owe nothing.               *)
(***************************************************************************)
Evicting(p) == \/ \E s \in Sessions : Observe(p, s)
               \/ Confirm(p) \/ Spare(p) \/ Evict(p) \/ SpareLate(p)

Opening(p) == \/ OpenLive(p) \/ OpenStored(p) \/ NotFound(p)
              \/ TakeRoom(p) \/ MakeRoom(p) \/ RoomMade(p) \/ NoRoom(p)
              \/ HydrateFails(p) \/ Proceed(p)
              \/ \E s \in Sessions : Hydrate(p, s)

Deleting(p) == DeleteEnters(p) \/ DeleteRefused(p) \/ DeleteProceeds(p) \/ DeleteEnds(p)

GoesOn(p) == Evicting(p) \/ Opening(p) \/ Deleting(p)

Background(s) == \/ Look(s) \/ TurnEnds(s) \/ PersistenceChecked(s)
                 \/ TaskStarts(s) \/ TaskEnds(s) \/ WakeBegins(s)
                 \/ CleanupFinds(s)

Next == \/ \E p \in Requests : \/ GoesOn(p) \/ ArriveNew(p)
                               \/ \E o \in Kinds, s \in Sessions : Arrive(p, o, s)
        \/ Evicting(Sweeper) \/ SweepEnds
        \/ \E expired \in SUBSET Sessions : SweepStarts(expired)
        \/ (\E s \in Sessions : Background(s)) \/ CleanupRemoves

Fairness == /\ \A p \in Requests : WF_vars(GoesOn(p))
            /\ WF_vars(Evicting(Sweeper) \/ SweepEnds)

Spec == Init /\ [][Next]_vars
FairSpec == Spec /\ Fairness

(***************************************************************************)
(* Properties.                                                             *)
(***************************************************************************)
(* The map never holds more states than the capacity allows, though the    *)
(* size is checked before createSession is awaited and the state is added  *)
(* after it (turn-queue.ts 775-824).                                       *)
CapacityHolds ==
  Cardinality(live) + Cardinality({p \in Requests : pc[p] = "hydrate"}) <= Max

(* A state that was found or made for a request is still in the map when   *)
(* the request goes on with it, whatever was evicted meanwhile             *)
(* (turn-queue.ts 533-565).                                                *)
FoundIsLive == \A p \in Requests : pc[p] = "begin" => session[p] \in live

Erased(s) == \E p \in Requests : pc[p] = "erase" /\ session[p] = s

(* An eviction never ends a turn or leaves registered background work      *)
(* without its session, also when that work began during the eviction's    *)
(* own reads (active-map.ts 107-136).                                      *)
EvictionSparesWork ==
  [][\A s \in live \ live' : Erased(s) \/ s \notin busy \cup tasks]_vars

(* A reclaimer holding the capacity waits for the lock of a session whose  *)
(* holder waits for the capacity.                                          *)
LockCycle ==
  \E p \in Requests :
    /\ HasCapacity(p) /\ pc[p] = "evict" /\ lock[scan[p].at] # <<>>
    /\ pc[Head(lock[scan[p].at])] = "capacity"

(* Every request is answered and every sweep ends, unless the lock cycle   *)
(* forms: no other order of the two locks starves anyone.                  *)
EveryoneReturns ==
  \A p \in Procs : pc[p] # "idle" ~> (pc[p] = "idle" \/ LockCycle)

(* "persisted sessions remain available" (docs/deployment/                 *)
(* local-installation.md 215): a request for one is answered.              *)
PersistedSessionsRemainAvailable ==
  \A p \in Requests :
    (pc[p] # "idle" /\ op[p] = "open" /\ session[p] \in stored) ~> (pc[p] = "idle")

(* "Running, queued, or otherwise non-reclaimable work is not evicted"     *)
(* (docs/deployment/local-installation.md 214): a session that a finished  *)
(* group is about to wake stays.  The code does not keep this: a group     *)
(* listing that fails looks like one without groups.                       *)
EvictionKeepsWakes ==
  [][\A s \in live \ live' : Erased(s) \/ s \notin owed]_vars

(* "session store cleanup live-excludes sessions that become active during *)
(* the scan" (tests/unit/storage.test.ts 78): only a deletion removes the  *)
(* files of a session in memory.  The code does not keep this for one that *)
(* is opened after the cleanup's last look at the map.                     *)
CleanupSparesActive ==
  [][\A s \in stored \ stored' : Erased(s) \/ s \notin live]_vars
===============================================================================
