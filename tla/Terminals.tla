------------------------------- MODULE Terminals -------------------------------
(***************************************************************************)
(* The registry of background terminals: one task id in one workspace,     *)
(* which several runtimes (Dashboards, command lines) know in memory and   *)
(* share through a record on disk that nobody locks.  Each start under the *)
(* id is an instance with a process of its own, and the process outlives   *)
(* the runtime that started it.                                            *)
(*                                                                         *)
(* A record names a process by its pid, which the system gives to others   *)
(* once the process is gone, and by its creation identity, which is the    *)
(* process itself here.  Stopping a process takes several looks at it,     *)
(* with the callbacks of the same and of the other runtime between them.   *)
(* A look may find a process without being told who it is, and on Windows  *)
(* it may be a look at a list of processes that is some time old.          *)
(***************************************************************************)
EXTENDS Naturals, FiniteSets

CONSTANTS
  Runtimes,
  Pids,
  Starts,       \* how often a terminal is started under the id
  Stranger,     \* processes that are no terminal
  None

ASSUME StartsAssumption == Starts \in Nat \ {0}
ASSUME RuntimesAssumption == IsFiniteSet(Runtimes)

(* In the order in which they are registered.                              *)
Instances == 1..Starts

ASSUME NoneAssumption == None \notin Instances \cup Pids \cup Runtimes \cup {Stranger}
ASSUME StrangerAssumption == Stranger \notin Instances \cup Pids \cup Runtimes

Active == {"starting", "running", "cancelling"}
Finished == {"finished", "cancelled", "stale"}

(* "finished" stands for completed and failed.  pid and identity are those *)
(* of the shell; a launcher's are null on every platform.  owned is the    *)
(* runtimeOwned mark, which is not written to disk.                        *)
Drafts ==
  [inst: Instances, status: Active \cup Finished, pid: Pids \cup {None},
   identity: Instances \cup {Stranger, None}, owned: BOOLEAN, stamp: Nat]
Records == {rec \in Drafts : rec.stamp <= 3 * Cardinality(Runtimes)}

ASSUME NoRecordAssumption == None \notin Drafts

(* Where a record is kept: the file, the memory of a runtime (terminal),   *)
(* its cache of the files it scanned, and the object that a cancellation   *)
(* holds on to after the memory got another one.                           *)
Disk == <<"disk", None>>
Memory(r) == <<"memory", r>>
Cache(r) == <<"cache", r>>
Orphan(r) == <<"orphan", r>>
Places == {Disk} \cup {Memory(r) : r \in Runtimes} \cup {Cache(r) : r \in Runtimes}
            \cup {Orphan(r) : r \in Runtimes}

VARIABLES
  copy,         \* the record at each place
  holder,       \* the process that has each pid
  life,         \* each instance's process
  parent,       \* the runtime that started it and will reap it
  windows,      \* the platform, for good
  tracked,      \* runtimeProcesses: the child whose handle is kept (Windows)
  registered,   \* how many instances were registered
  launching,    \* instances registered and not spawned yet, per runtime
  capture,      \* instances whose identity is being read after the start
  job,          \* the phase of each runtime's cancellation
  recent,       \* Windows: pids given away since the list of processes in use
  strikes,      \* Windows: pids with a taskkill on its way
  doubt         \* history: instances whose end may be recorded too early

platform == <<windows, recent, strikes>>
table == <<holder, life, parent, platform>>
vars == <<copy, table, tracked, registered, launching, capture, job, doubt>>

Phases == {"none", "identify", "verify", "before", "signal", "poll", "force",
           "blind", "last poll", "child poll", "expire"}

(* Started after it was cancelled; looked up in a list of processes older  *)
(* than its own; given up while it was being launched.                     *)
Doubts == {"late", "unseen", "abandoned"}

TypeOK ==
  /\ copy \in [Places -> Records \cup {None}]
  /\ holder \in [Pids -> Instances \cup {Stranger, None}]
  /\ life \in [Instances -> {"unborn", "alive", "ended", "reaped"}]
  /\ parent \in [Instances -> Runtimes \cup {None}]
  /\ windows \in BOOLEAN
  /\ tracked \in [Runtimes -> Instances \cup {None}]
  /\ registered \in 0..Starts
  /\ launching \in [Runtimes -> SUBSET Instances]
  /\ capture \in [Runtimes -> SUBSET Instances]
  /\ job \in [Runtimes -> Phases]
  /\ recent \subseteq Pids
  /\ strikes \subseteq Pids
  /\ doubt \in [Doubts -> SUBSET Instances]
  /\ \A r \in Runtimes :
       /\ tracked[r] # None => parent[tracked[r]] = r /\ life[tracked[r]] \in {"alive", "ended"}
       /\ copy[Orphan(r)] # None => job[r] # "none"
       /\ job[r] # "none" => copy[Memory(r)] # None

Init ==
  /\ copy = [p \in Places |-> None]
  /\ holder = [p \in Pids |-> None]
  /\ life = [i \in Instances |-> "unborn"]
  /\ parent = [i \in Instances |-> None]
  /\ windows \in BOOLEAN
  /\ tracked = [r \in Runtimes |-> None]
  /\ registered = 0
  /\ launching = [r \in Runtimes |-> {}]
  /\ capture = [r \in Runtimes |-> {}]
  /\ job = [r \in Runtimes |-> "none"]
  /\ recent = {}
  /\ strikes = {}
  /\ doubt = [d \in Doubts |-> {}]

(***************************************************************************)
(* Records.  updatedAt is only ever compared, so a stamp is kept as its    *)
(* rank among the records there are; two writes never share a millisecond. *)
(***************************************************************************)
Now == Cardinality(Places)
Stamped(rec) == [rec EXCEPT !.stamp = Now]
Written(rec) == IF rec = None THEN None ELSE [rec EXCEPT !.owned = FALSE]

Ranked(copies) ==
  LET stamps == {copies[p].stamp : p \in {q \in Places : copies[q] # None}}
  IN  [p \in Places |-> IF copies[p] = None THEN None
         ELSE [copies[p] EXCEPT !.stamp = Cardinality({s \in stamps : s < copies[p].stamp})]]

Confirmed(rec) == rec # None /\ rec.status = "cancelled"
InUse(rec) == rec # None /\ rec.status \in Active

(* persistTask: the file and the cached scan.                              *)
Persist(copies, r, rec) ==
  [copies EXCEPT ![Disk] = Written(rec), ![Cache(r)] = Written(rec)]

(* The memory gets another object; a cancellation goes on with the old.    *)
Replace(copies, r, rec) ==
  [copies EXCEPT ![Memory(r)] = rec,
     ![Orphan(r)] = IF job[r] # "none" /\ @ = None THEN copies[Memory(r)] ELSE @]

(* The record a cancellation works on, and what it makes of it.            *)
TaskOf(r) == IF copy[Orphan(r)] # None THEN copy[Orphan(r)] ELSE copy[Memory(r)]
Mutate(r, rec) ==
  LET place == IF copy[Orphan(r)] # None THEN Orphan(r) ELSE Memory(r)
  IN  Persist([copy EXCEPT ![place] = rec], r, rec)

(***************************************************************************)
(* Processes.                                                              *)
(***************************************************************************)
(* What a look at a pid finds: on Windows no process that has ended, on    *)
(* POSIX also one that its parent has not reaped.                          *)
At(p) == IF windows /\ holder[p] \in Instances /\ life[holder[p]] = "ended"
           THEN None ELSE holder[p]

Handled(r, rec) == rec.pid # None /\ tracked[r] = rec.inst

(* The process that has pid p is hit, and dies unless it may survive.      *)
Dies(i) ==
  IF parent[i] = None
    THEN /\ life' = [life EXCEPT ![i] = "reaped"]
         /\ holder' = [p \in Pids |-> IF holder[p] = i THEN None ELSE holder[p]]
    ELSE /\ life' = [life EXCEPT ![i] = "ended"] /\ UNCHANGED holder

Hit(p, mayLive) ==
  \/ /\ holder[p] \in Instances /\ life[holder[p]] = "alive"
     /\ Dies(holder[p])
  \/ /\ holder[p] = Stranger
     /\ holder' = [holder EXCEPT ![p] = None] /\ UNCHANGED life
  \/ /\ mayLive \/ holder[p] = None
          \/ (holder[p] \in Instances /\ life[holder[p]] # "alive")
     /\ UNCHANGED <<life, holder>>

(* sendProcessTreeSignal on Windows: taskkill is started beside            *)
(* process.kill and finds the process by its pid when it runs.             *)
Strikes(p) == strikes' = IF windows THEN strikes \cup {p} ELSE strikes

(***************************************************************************)
(* Listing: the file is merged with the memory by the time of the last     *)
(* change, and the record's process is looked at.                          *)
(***************************************************************************)
AsStale(rec) == [Stamped(Written(rec)) EXCEPT !.status = "stale"]
AsFinished(rec) == [Stamped(Written(rec)) EXCEPT !.status = "finished"]

(* The list of processes of Windows is up to half a second old and may not *)
(* know the process that has the pid now.                                  *)
Outdated(rec) == windows /\ rec.pid \in recent

Vanished(rec) == At(rec.pid) = None

(* What may be told of a process that the runtime has no handle of: a      *)
(* stranger may be out of its sight, an identity may go unread.            *)
Sights(rec) ==
  {IF rec.identity \in {None, At(rec.pid)} THEN "alive" ELSE "mismatch"}
    \cup {look \in {"unknown"} : rec.identity # None}
    \cup {look \in {"dead"} : At(rec.pid) = Stranger \/ Outdated(rec)}
    \cup {look \in {"alive", "mismatch"} : rec.identity # None /\ Outdated(rec)}

(* A variant: a process whose identity is not known counts as gone.        *)
LooksUnlessKnown(r, rec) ==
  CASE Handled(r, rec) -> {IF life[rec.inst] = "alive" THEN "alive" ELSE "dead"}
    [] ~Handled(r, rec) /\ (rec.pid = None \/ Vanished(rec)) -> {"dead"}
    [] OTHER -> IF rec.identity = None THEN {"dead"} ELSE Sights(rec)

(* A variant: whoever has the pid counts as the task's process.            *)
LooksAtPid(r, rec) ==
  CASE Handled(r, rec) -> {IF life[rec.inst] = "alive" THEN "alive" ELSE "dead"}
    [] ~Handled(r, rec) /\ (rec.pid = None \/ Vanished(rec)) -> {"dead"}
    [] OTHER -> {"alive"}

(* runtimeProcessAlive, and processLivenessStatus without a handle.        *)
Looks(r, rec) ==
  CASE Handled(r, rec) -> {IF life[rec.inst] = "alive" THEN "alive" ELSE "dead"}
    [] ~Handled(r, rec) /\ (rec.pid = None \/ Vanished(rec)) -> {"dead"}
    [] OTHER -> Sights(rec)

(* reconcileTerminalTaskLiveness.                                          *)
Reconciled(rec, look) ==
  CASE rec.status = "starting" /\ ~rec.owned -> AsStale(rec)
    [] rec.status = "running" /\ look = "dead" -> AsFinished(rec)
    [] rec.status = "running" /\ look = "mismatch" -> AsStale(rec)
    [] OTHER -> rec

Newer(mem, seen) == mem = None \/ (seen # None /\ mem.stamp < seen.stamp)
Source(r, seen) == IF Newer(copy[Memory(r)], seen) THEN seen ELSE copy[Memory(r)]

Running(rec) == rec # None /\ rec.status = "running"

(* refreshPersistedTasks, when the scan shows seen and the look at the     *)
(* process tells look: whatever is not only read for the first time or     *)
(* found as it was goes back to the file.                                  *)
Refreshed(r, seen, look) ==
  LET mem == copy[Memory(r)]
      scanned == [copy EXCEPT ![Cache(r)] = seen]
      source == Source(r, seen)
      next == Reconciled(source, look)
      held == IF next = mem THEN scanned ELSE Replace(scanned, r, next)
  IN  CASE source = None -> scanned
        [] source # None /\ next = source /\ None \in {mem, seen} -> held
        [] OTHER -> Persist(held, r, next)

(* Its look, and the instance it may take for ended by an outdated list.   *)
LooksUp(r, seen, look) ==
  LET source == Source(r, seen)
  IN  /\ Running(source) => look \in Looks(r, source)
      /\ doubt' = IF Running(source) /\ ~Handled(r, source) /\ Outdated(source)
                    THEN [doubt EXCEPT !["unseen"] = @ \cup {source.inst}] ELSE doubt

AllLooks == {"alive", "dead", "mismatch", "unknown"}

(* The scan is up to a second old.                                         *)
Scans(r) == {copy[Disk], copy[Cache(r)]}

Lists(r, seen, look) ==
  /\ LooksUp(r, seen, look)
  /\ copy' = Ranked(Refreshed(r, seen, look))
  /\ UNCHANGED <<table, tracked, registered, launching, capture, job>>

List(r) == \E seen \in Scans(r), look \in AllLooks : Lists(r, seen, look)

(***************************************************************************)
(* Starting a terminal, and its process's end.                             *)
(***************************************************************************)
(* registerBackgroundTerminalTask.                                         *)
Register(r) ==
  /\ registered < Starts
  /\ ~InUse(copy[Memory(r)])
  /\ LET i == registered + 1
         entry == [inst |-> i, status |-> "starting", pid |-> None,
                   identity |-> None, owned |-> TRUE, stamp |-> Now]
     IN  /\ copy' = Ranked(Persist(Replace(copy, r, entry), r, entry))
         /\ launching' = [launching EXCEPT ![r] = @ \cup {i}]
         /\ registered' = i
  /\ tracked' = [tracked EXCEPT ![r] = None]
  /\ UNCHANGED <<table, capture, job, doubt>>

Current(r, i) == copy[Memory(r)] # None /\ copy[Memory(r)].inst = i

(* updateBackgroundTerminalTask: a callback of another instance changes    *)
(* nothing, and a cancelled task stays cancelled.  The identity is read    *)
(* if it is not known.                                                     *)
Updated(rec, status, pid) ==
  Stamped([rec EXCEPT !.status = IF @ = "cancelled" THEN @ ELSE status, !.pid = pid])

Update(r, i, status, pid) ==
  IF Current(r, i)
    THEN LET rec == Updated(copy[Memory(r)], status, pid)
         IN  /\ copy' = Ranked(Persist([copy EXCEPT ![Memory(r)] = rec], r, rec))
             /\ capture' = IF rec.owned /\ pid # None /\ rec.identity = None
                             THEN [capture EXCEPT ![r] = @ \cup {i}] ELSE capture
    ELSE UNCHANGED <<copy, capture>>

(* The process of instance i is there under the pid p.                     *)
Born(r, i, p, condition) ==
  /\ i \in launching[r] /\ holder[p] = None
  /\ launching' = [launching EXCEPT ![r] = @ \ {i}]
  /\ life' = [life EXCEPT ![i] = condition]
  /\ holder' = [holder EXCEPT ![p] = i]
  /\ parent' = [parent EXCEPT ![i] = r]
  /\ recent' = IF windows THEN recent \cup {p} ELSE recent

Late(i) == \E q \in Places : Confirmed(copy[q]) /\ copy[q].inst = i
Doubted(i, kinds) == [d \in Doubts |-> IF d \in kinds THEN doubt[d] \cup {i} ELSE doubt[d]]

Launch(r, i) ==
  /\ ~windows \/ Current(r, i)
  /\ \E p \in Pids : Born(r, i, p, "alive") /\ Update(r, i, "running", p)
  /\ tracked' = IF windows THEN [tracked EXCEPT ![r] = i] ELSE tracked
  /\ doubt' = Doubted(i, {d \in {"late"} : Late(i)})
  /\ UNCHANGED <<registered, windows, strikes, job>>

(* On Windows the worker is ended again, and nobody waits for its end,     *)
(* when it finds no record of its own, when the call was aborted (after    *)
(* the record got the pid), or when the launch timed out (before it).      *)
LaunchGivenUp(r, i) ==
  /\ windows
  /\ \E p \in Pids, condition \in {"alive", "ended"} :
       /\ Born(r, i, p, condition)
       /\ Strikes(p)
       /\ \/ ~Current(r, i) /\ UNCHANGED <<copy, capture, tracked>>
          \/ /\ Current(r, i) /\ Update(r, i, "cancelled", p)
             /\ tracked' = [tracked EXCEPT ![r] = i]
          \/ /\ Current(r, i) /\ Update(r, i, "finished", None)
             /\ UNCHANGED tracked
  /\ doubt' = Doubted(i, {d \in {"late"} : Late(i)} \cup {d \in {"abandoned"} : Current(r, i)})
  /\ UNCHANGED <<registered, windows, job>>

SpawnFails(r, i) ==
  /\ i \in launching[r]
  /\ launching' = [launching EXCEPT ![r] = @ \ {i}]
  /\ Update(r, i, "finished", None)
  /\ UNCHANGED <<table, tracked, registered, job, doubt>>

(* scheduleTaskIdentityCapture: the answer is for the object it was asked  *)
(* for, the one the runtime registered.                                    *)
Captured(r, i) ==
  /\ i \in capture[r]
  /\ capture' = [capture EXCEPT ![r] = @ \ {i}]
  /\ LET rec == copy[Memory(r)]
         known == Stamped([rec EXCEPT !.identity = At(rec.pid)])
     IN  \/ /\ Current(r, i) /\ rec.owned /\ rec.identity = None
            /\ rec.pid # None /\ At(rec.pid) # None
            /\ copy' = Ranked(Persist([copy EXCEPT ![Memory(r)] = known], r, known))
         \/ UNCHANGED copy
  /\ UNCHANGED <<table, tracked, registered, launching, job, doubt>>

Ends(i) ==
  /\ life[i] = "alive"
  /\ Dies(i)
  /\ UNCHANGED <<copy, parent, platform, tracked, registered, launching, capture, job, doubt>>

(* A variant: the handle of a closed child is kept.                        *)
ClosedKeepsHandle(r, i) ==
  /\ life[i] = "ended" /\ parent[i] = r
  /\ life' = [life EXCEPT ![i] = "reaped"]
  /\ holder' = [p \in Pids |-> IF holder[p] = i THEN None ELSE holder[p]]
  /\ Update(r, i, "finished", copy[Memory(r)].pid)
  /\ UNCHANGED <<parent, platform, tracked, registered, launching, job, doubt>>

(* The child's close event: bindBackgroundChildExit.                       *)
Closed(r, i) ==
  /\ life[i] = "ended" /\ parent[i] = r
  /\ life' = [life EXCEPT ![i] = "reaped"]
  /\ holder' = [p \in Pids |-> IF holder[p] = i THEN None ELSE holder[p]]
  /\ tracked' = [tracked EXCEPT ![r] = IF @ = i THEN None ELSE @]
  /\ Update(r, i, "finished", copy[Memory(r)].pid)
  /\ UNCHANGED <<parent, platform, registered, launching, job, doubt>>

(***************************************************************************)
(* Cancelling.  A second request joins the first; one for a record that    *)
(* took the place of the one being cancelled is left out.                  *)
(***************************************************************************)
AsCancelling(rec) == Stamped([rec EXCEPT !.status = "cancelling"])
AsCancelled(rec) == Stamped([rec EXCEPT !.status = "cancelled"])

(* performTerminalTaskCancellation up to its first wait.  A child whose    *)
(* handle is kept is signalled at once.                                    *)
Cancel(r, seen, look) ==
  LET refreshed == Refreshed(r, seen, look)
      rec == refreshed[Memory(r)]
      child == Handled(r, rec) /\ life[rec.inst] = "alive"
      waits == child \/ (rec.pid # None /\ ~Handled(r, rec))
      next == IF waits THEN AsCancelling(rec) ELSE AsCancelled(rec)
  IN  /\ job[r] = "none" /\ InUse(rec)
      /\ LooksUp(r, seen, look)
      /\ copy' = Ranked(Persist([refreshed EXCEPT ![Memory(r)] = next], r, next))
      /\ job' = [job EXCEPT ![r] = IF child THEN "child poll" ELSE
                                     IF waits THEN "identify" ELSE @]
      /\ IF child THEN Hit(rec.pid, TRUE) /\ Strikes(rec.pid)
                  ELSE UNCHANGED <<life, holder, strikes>>
      /\ UNCHANGED <<parent, windows, recent, tracked, registered, launching, capture>>

Goes(r, from, to) ==
  /\ job[r] = from
  /\ job' = [job EXCEPT ![r] = to]
  /\ UNCHANGED <<parent, windows, recent, tracked, registered, launching, capture, doubt>>

Concludes(r, from, copies) ==
  /\ Goes(r, from, "none")
  /\ copy' = Ranked([copies EXCEPT ![Orphan(r)] = None])
  /\ UNCHANGED <<life, holder, strikes>>

(* ensureTaskIdentity: only a process of this runtime's own is asked who   *)
(* it is, after the read that its start began, and it may not be told.     *)
Identify(r) ==
  /\ Goes(r, "identify", "verify")
  /\ LET task == TaskOf(r)
         asked == task.identity = None /\ task.owned
         answered == asked /\ copy[Orphan(r)] = None /\ At(task.pid) # None
     IN  /\ asked => task.inst \notin capture[r]
         /\ \/ answered /\ copy' = Ranked(Mutate(r, [task EXCEPT !.identity = At(task.pid)]))
            \/ UNCHANGED copy
  /\ UNCHANGED <<life, holder, strikes>>

(* A variant: a process under the pid is taken for the task's.             *)
SameAsAny(task) == At(task.pid) # None

Same(task) == At(task.pid) = task.identity

FindsGone(r) ==
  /\ job[r] = "verify" /\ Vanished(TaskOf(r))
  /\ Concludes(r, "verify", Mutate(r, AsCancelled(TaskOf(r))))

(* The process is another one, or its identity was not read.               *)
(* markTerminalTaskStale puts its record into the memory.                  *)
Refuses(r) ==
  /\ job[r] = "verify" /\ ~Vanished(TaskOf(r))
  /\ LET rec == [AsStale(TaskOf(r)) EXCEPT !.owned = TaskOf(r).owned]
     IN  Concludes(r, "verify", Persist([copy EXCEPT ![Memory(r)] = rec], r, rec))

Recognises(r) ==
  /\ Goes(r, "verify", "before")
  /\ Same(TaskOf(r)) /\ ~Vanished(TaskOf(r))
  /\ UNCHANGED <<copy, life, holder, strikes>>

(* terminateVerifiedProcessTree: the last look before the signal.          *)
TakesAim(r) ==
  /\ Goes(r, "before", "signal")
  /\ Same(TaskOf(r)) /\ ~Vanished(TaskOf(r))
  /\ UNCHANGED <<copy, life, holder, strikes>>

HoldsFire(r) ==
  /\ Goes(r, "before", "expire")
  /\ ~Vanished(TaskOf(r))
  /\ UNCHANGED <<copy, life, holder, strikes>>

FindsReplaced(r, from) ==
  /\ job[r] = from /\ ~Same(TaskOf(r))
  /\ Concludes(r, from, Mutate(r, AsCancelled(TaskOf(r))))

Signals(r) ==
  /\ Goes(r, "signal", "poll")
  /\ Hit(TaskOf(r).pid, TRUE) /\ Strikes(TaskOf(r).pid)
  /\ UNCHANGED copy

(* A process is there, and it is the task's or its identity was not read.  *)
StillThere(r) ==
  /\ \/ Goes(r, "poll", IF windows THEN "expire" ELSE "force") /\ Same(TaskOf(r))
     \/ Goes(r, "poll", IF windows THEN "expire" ELSE "blind") /\ ~Vanished(TaskOf(r))
     \/ Goes(r, "last poll", "expire") /\ ~Vanished(TaskOf(r))
     \/ Goes(r, "child poll", "expire") /\ life[TaskOf(r).inst] = "alive"
  /\ UNCHANGED <<copy, life, holder, strikes>>

(* Whoever it is.                                                          *)
Forces(r) ==
  /\ Goes(r, "force", "last poll") \/ Goes(r, "blind", "last poll")
  /\ Hit(TaskOf(r).pid, FALSE)
  /\ UNCHANGED <<copy, strikes>>

ChildExited(r) ==
  /\ job[r] = "child poll" /\ life[TaskOf(r).inst] # "alive"
  /\ Concludes(r, "child poll", Mutate(r, AsCancelled(TaskOf(r))))

(* The deadline passed: the task is active again.                          *)
Expires(r) ==
  /\ job[r] = "expire"
  /\ Concludes(r, "expire", Mutate(r, Stamped([TaskOf(r) EXCEPT !.status = "running"])))

Cancelling(r) ==
  \/ Identify(r) \/ FindsGone(r) \/ Refuses(r) \/ Recognises(r)
  \/ TakesAim(r) \/ HoldsFire(r) \/ Signals(r) \/ Forces(r) \/ StillThere(r)
  \/ ChildExited(r) \/ Expires(r)
  \/ \E from \in {"before", "poll", "last poll"} : FindsReplaced(r, from)

(***************************************************************************)
(* The system.  A pid is not given away while a look at it is on its way   *)
(* back; a stranger keeps its pid.                                         *)
(***************************************************************************)
Looking(p) ==
  \E r \in Runtimes :
    \/ job[r] \in {"identify", "signal", "force", "blind"} /\ TaskOf(r).pid = p
    \/ \E i \in capture[r] : Current(r, i) /\ copy[Memory(r)].pid = p

GivenAway(p) ==
  /\ holder[p] = None /\ ~Looking(p)
  /\ holder' = [holder EXCEPT ![p] = Stranger]
  /\ recent' = IF windows THEN recent \cup {p} ELSE recent
  /\ UNCHANGED <<copy, life, parent, windows, strikes>>
  /\ UNCHANGED <<tracked, registered, launching, capture, job, doubt>>

(* The lists of processes are younger than what pid p stands for.          *)
Settles(p) ==
  /\ recent' = recent \ {p} /\ p \in recent
  /\ UNCHANGED <<copy, holder, life, parent, windows, strikes>>
  /\ UNCHANGED <<tracked, registered, launching, capture, job, doubt>>

Taskkill(p) ==
  /\ p \in strikes /\ strikes' = strikes \ {p}
  /\ Hit(p, TRUE)
  /\ UNCHANGED <<copy, parent, windows, recent>>
  /\ UNCHANGED <<tracked, registered, launching, capture, job, doubt>>

(* The runtime ends and is started again.  Its children live on, with      *)
(* nobody to reap them but the system.                                     *)
Restart(r) ==
  /\ copy' = Ranked([copy EXCEPT ![Memory(r)] = None, ![Cache(r)] = None, ![Orphan(r)] = None])
  /\ life' = [i \in Instances |-> IF parent[i] = r /\ life[i] = "ended" THEN "reaped" ELSE life[i]]
  /\ holder' = [p \in Pids |-> IF holder[p] \in Instances /\ life'[holder[p]] = "reaped"
                                 THEN None ELSE holder[p]]
  /\ parent' = [i \in Instances |-> IF parent[i] = r THEN None ELSE parent[i]]
  /\ tracked' = [tracked EXCEPT ![r] = None]
  /\ launching' = [launching EXCEPT ![r] = {}]
  /\ capture' = [capture EXCEPT ![r] = {}]
  /\ job' = [job EXCEPT ![r] = "none"]
  /\ UNCHANGED <<platform, registered, doubt>>

Next ==
  \/ \E r \in Runtimes :
       \/ List(r) \/ Register(r) \/ Restart(r) \/ Cancelling(r)
       \/ \E seen \in Scans(r), look \in AllLooks : Cancel(r, seen, look)
       \/ \E i \in Instances :
            \/ Launch(r, i) \/ LaunchGivenUp(r, i) \/ SpawnFails(r, i)
            \/ Captured(r, i) \/ Closed(r, i)
  \/ \E i \in Instances : Ends(i)
  \/ \E p \in Pids : GivenAway(p) \/ Settles(p) \/ Taskkill(p)

Spec == Init /\ [][Next]_vars

(* The event loop of a runtime goes on, and the Dashboard lists the        *)
(* terminals whenever it reports or counts what is going on.               *)
Fairness ==
  \A r \in Runtimes :
    /\ WF_vars(List(r)) /\ WF_vars(Cancelling(r))
    /\ \A i \in Instances : WF_vars(Closed(r, i)) /\ WF_vars(Captured(r, i))
FairSpec == Spec /\ Fairness

(***************************************************************************)
(* Properties.                                                             *)
(***************************************************************************)
(* A runtime that asks late who its child is may be told of the process    *)
(* that has the pid by now: a cancellation that gave up set the status of  *)
(* a task back whose process had just ended.                               *)
Mistaken(p) ==
  \E q \in Places : copy[q] # None /\ copy[q].pid = p /\ copy[q].identity = Stranger

(* The code goes on to SIGKILL though the last look did not tell it who    *)
(* has the pid (lines 1111-1127).                                          *)
KilledUnread(p) ==
  \E r \in Runtimes : job[r] = "blind" /\ job'[r] # "blind" /\ TaskOf(r).pid = p

(* taskkill comes after the process has been ended by process.kill.        *)
KilledLate(p) == p \in strikes \ strikes'

(* No signal reaches a process that is not the task's, whoever has its pid *)
(* by then and whichever runtime stops it, unless the runtime took it for  *)
(* its own, escalated without having read who it is, or started a taskkill *)
(* before (background-terminal-registry.ts 1001-1047, 1087-1130, 1138-1155). *)
StrangersAreSpared ==
  [][\A p \in Pids : holder[p] = Stranger =>
       holder'[p] = Stranger \/ Mistaken(p) \/ KilledUnread(p) \/ KilledLate(p)]_vars

Alive(inst, doubts) == life[inst] = "alive" /\ \A d \in doubts : inst \notin doubt[d]

(* A task counts as completed or failed only when its process is gone,     *)
(* whichever runtime found that out and whatever record it had, and its    *)
(* cancellation is confirmed only then.  Left out are a launch given up on *)
(* Windows, for both, a task that is looked up in a list of processes      *)
(* older than its process, for the first, and a process started after its  *)
(* cancellation, for the second (background-terminal-registry.ts 361-396,  *)
(* 236-266 and shell-tools.ts 187-229).                                    *)
EndedIsGone ==
  \A p \in Places : copy[p] # None =>
    /\ copy[p].status = "finished" => ~Alive(copy[p].inst, {"unseen", "abandoned"})
    /\ Confirmed(copy[p]) => ~Alive(copy[p].inst, {"late", "abandoned"})

Gone(r, statuses) ==
  LET rec == copy[Memory(r)]
  IN  /\ rec # None /\ rec.status \in statuses
      /\ life[rec.inst] = "reaped" /\ rec.identity = rec.inst

(* The look told who has the pid now, if it is anyone's.                   *)
Certain(r, seen, look) ==
  LET source == Source(r, seen)
  IN  Running(source) => /\ look # "unknown"
                         /\ Outdated(source) => Vanished(source)

(* A listing never leaves a task running whose process is gone, whether    *)
(* it goes by its own record, the other runtime's or an old scan, and also *)
(* when the pid belongs to another process by now, if the task's identity  *)
(* was read and the look told who that other process is                    *)
(* (background-terminal-registry.ts 317-396 and 735-766).                  *)
ListingsNotice ==
  [][\A r \in Runtimes : Gone(r, {"running"})' =>
       \A seen \in Scans(r), look \in AllLooks :
         Certain(r, seen, look) => ~Lists(r, seen, look)]_vars

(* "Background terminal state now reconciles externally terminated         *)
(* processes ... keeping list and cancellation results accurate after      *)
(* crashes or interrupted cleanup" (CHANGELOG.md 889): a task whose        *)
(* process is gone does not stay in its cancellation.  The code does not   *)
(* keep this: a crash in the middle of a cancellation leaves "cancelling"  *)
(* in the record for good, which no later listing takes up (365-367).      *)
CrashesAreReconciled ==
  \A r \in Runtimes : []<>~Gone(r, {"cancelling"})

(* "late callbacks from an old terminal instance cannot overwrite a reused *)
(* task id" (tests/unit/background-terminal-registry-safety.test.ts 123).  *)
(* The code does not keep this for the end of a cancellation (1062-1074).  *)
OldInstancesStayOut ==
  [][\A r \in Runtimes :
       copy[Memory(r)] # None /\ copy'[Memory(r)] # None =>
         copy'[Memory(r)].inst >= copy[Memory(r)].inst]_vars
===============================================================================
