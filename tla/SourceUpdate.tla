------------------------------ MODULE SourceUpdate ------------------------------
(***************************************************************************)
(* The source update of an installation.  Dashboards run from one clone;   *)
(* one of them starts a job: its manager takes the update lock, writes a   *)
(* journal and spawns a detached worker, which prepares a candidate, waits *)
(* for a permit and for the old process to exit, exchanges the             *)
(* dependencies, moves HEAD forward and starts a new Dashboard, which has  *)
(* to acknowledge.  The worker writes every step to the journal before and *)
(* after it changes something.  Processes may be killed at any point,      *)
(* other Dashboards start and work, and the user may commit.               *)
(***************************************************************************)
EXTENDS Naturals, FiniteSets

CONSTANTS
  Dashboards,    \* those the user starts; each may run one job
  None,
  MaxHappenings  \* bounds the kills and commits

ASSUME NoneAssumption == None \notin Dashboards
ASSUME MaxHappeningsAssumption == MaxHappenings \in Nat

VARIABLES
  process,  \* each Dashboard process and its runtime
  manager,  \* each Dashboard's update manager
  worker,   \* each job's worker
  journal,  \* each job's journal
  permit,   \* the jobs whose handoff file is there
  ack,      \* the jobs whose restart has acknowledged
  lock,     \* update.lock: the job that holds it
  latest,   \* latest.json
  disk,     \* HEAD and the dependencies of the clone
  happened  \* history: how many kills and commits

files == <<permit, ack, lock, latest, disk>>
vars == <<process, manager, worker, journal, files, happened>>

(* A Dashboard as the user started it, and the one its job restarts.       *)
First(d) == <<d, "first">>
Restarted(d) == <<d, "restarted">>
Processes == Dashboards \X {"first", "restarted"}

(* A process is up, gone (its runtime is shut down), closing (it was told  *)
(* to exit) or down.                                                       *)
Unborn == [state |-> "unborn", version |-> "old", busy |-> FALSE, gate |-> FALSE]
Born(version) == [Unborn EXCEPT !.state = "up", !.version = version]
Alive(p) == process[p].state \in {"up", "gone", "closing"}

NoManager == [phase |-> "idle", at |-> "none", plan |-> "none", asked |-> {}]
NoWorker == [at |-> "none", did |-> FALSE, crossing |-> FALSE, asked |-> {}]
NoJournal == [step |-> "none", phase |-> "none", plan |-> "none"]

Busy == {"staging", "handingOff", "applying", "restarting", "manualRecovery"}
Terminal == {"succeeded", "failed", "manualRecovery", "blocked"}

(***************************************************************************)
(* The steps of the journal, in their order.                               *)
(***************************************************************************)
Steps ==
  <<"created", "preparing", "prepared", "awaitingExit", "oldExited",
    "dependenciesBackupIntent", "dependenciesBackedUp", "dependenciesInstallIntent",
    "dependenciesInstalled", "fastForwardIntent", "fastForwarded", "restartIntent", "spawned",
    "acknowledged">>

Place(step) == IF step = "none" THEN 0 ELSE CHOOSE i \in DOMAIN Steps : Steps[i] = step
Following(step) == Steps[Place(step) + 1]
Reached(d, step) == Place(journal[d].step) >= Place(step)

PhaseOf(step) ==
  CASE Place(step) <= Place("prepared") -> "staging"
    [] step = "awaitingExit" -> "handingOff"
    [] Place(step) \in Place("oldExited")..Place("fastForwarded") -> "applying"
    [] step \in {"restartIntent", "spawned"} -> "restarting"
    [] OTHER -> "succeeded"

(* The steps that announce or await something; the others only record.     *)
Acts == {"preparing", "prepared", "awaitingExit", "oldExited", "dependenciesBackupIntent",
         "dependenciesInstallIntent", "fastForwardIntent", "restartIntent", "spawned",
         "acknowledged"}

(* Everything has its shape, and a worker stands where its journal says.   *)
TypeOK ==
  /\ \A p \in Processes :
       /\ process[p].state \in {"unborn", "up", "gone", "closing", "down"}
       /\ process[p].version \in {"old", "new", "other"}
  /\ \A d \in Dashboards :
       /\ manager[d].phase \in {"idle", "ready", "upToDate", "blocked", "failed", "succeeded"} \cup Busy
       /\ worker[d].at \in {"none", "running", "ended"}
       /\ worker[d].at = "running" => journal[d].phase = PhaseOf(journal[d].step)
       /\ worker[d].crossing => Reached(d, "awaitingExit")
  /\ permit \subseteq Dashboards /\ ack \subseteq Dashboards
  /\ lock \in Dashboards \cup {None} /\ latest \in Dashboards \cup {None}
  /\ disk.head \in {"old", "new", "other"} /\ disk.modules \in {"old", "none", "new"}

Init ==
  /\ process = [p \in Processes |-> Unborn]
  /\ manager = [d \in Dashboards |-> NoManager]
  /\ worker = [d \in Dashboards |-> NoWorker]
  /\ journal = [d \in Dashboards |-> NoJournal]
  /\ permit = {} /\ ack = {} /\ lock = None /\ latest = None
  /\ disk = [head |-> "old", modules |-> "old"]
  /\ happened = 0

(***************************************************************************)
(* Processes.  SourceUpdateMaintenance: the gate bars new work.            *)
(***************************************************************************)
Start(d) ==
  /\ process[First(d)].state = "unborn"
  /\ process' = [process EXCEPT ![First(d)] = Born(disk.head)]
  /\ UNCHANGED <<manager, worker, journal, files, happened>>

Work(d) ==
  LET p == First(d) IN
  /\ process[p].state = "up" /\ ~process[p].gate
  /\ process' = [process EXCEPT ![p].busy = ~@]
  /\ UNCHANGED <<manager, worker, journal, files, happened>>

Exit(p) ==
  /\ process[p].state = "closing"
  /\ process' = [process EXCEPT ![p].state = "down"]
  /\ UNCHANGED <<manager, worker, journal, files, happened>>

Happens == happened < MaxHappenings /\ happened' = happened + 1

Kill(p) ==
  /\ Alive(p) /\ Happens
  /\ process' = [process EXCEPT ![p].state = "down", ![p].busy = FALSE]
  /\ UNCHANGED <<manager, worker, journal, files>>

KillWorker(d) ==
  /\ worker[d].at = "running" /\ Happens
  /\ worker' = [worker EXCEPT ![d].at = "ended"]
  /\ UNCHANGED <<process, manager, journal, files>>

Commit ==
  /\ disk.head = "old" /\ Happens
  /\ disk' = [disk EXCEPT !.head = "other"]
  /\ UNCHANGED <<process, manager, worker, journal, permit, ack, lock, latest>>

(***************************************************************************)
(* releaseIdlePeerDashboards: an idle peer is asked to shut down, a busy   *)
(* one refuses.  "asked" are the peers whose exit is awaited.              *)
(***************************************************************************)
Peers(p) == {q \in Processes \ {p} : Alive(q)}
Idle(q) == process[q].state = "up" /\ ~process[q].busy
Closing(q) == [process EXCEPT ![q].state = "closing"]

-------------------------------------------------------------------------------
(***************************************************************************)
(* The manager.                                                            *)
(***************************************************************************)
Serves(d) == Alive(First(d))

(* assertAvailable.                                                        *)
Available(d) == Serves(d) /\ manager[d].at = "none" /\ manager[d].phase \notin Busy

Check(d) ==
  LET fits == lock = None /\ disk.head = process[First(d)].version /\ disk.head # "other" IN
  /\ Available(d) /\ journal[d] = NoJournal
  /\ manager' = [manager EXCEPT ![d].plan = IF fits THEN disk.head ELSE "none",
                                ![d].phase = IF ~fits THEN "blocked"
                                             ELSE IF disk.head = "new" THEN "upToDate"
                                             ELSE "ready"]
  /\ UNCHANGED <<process, worker, journal, files, happened>>

StartJob(d) ==
  /\ Available(d) /\ manager[d].phase = "ready"
  /\ manager' = [manager EXCEPT ![d].phase = "staging", ![d].at = "first"]
  /\ UNCHANGED <<process, worker, journal, files, happened>>

(* snapshot follows the manager's own job or, untouched, the latest one.   *)
Followed(d) ==
  IF journal[d] # NoJournal THEN d ELSE IF manager[d].phase = "idle" THEN latest ELSE None

Orphaned(j) == journal[j].phase \notin Terminal /\ worker[j].at = "ended"

Snapshot(d) ==
  LET j == Followed(d) IN
  /\ Serves(d) /\ j # None
  /\ manager' = [manager EXCEPT ![d].phase =
                   IF Orphaned(j) THEN "manualRecovery" ELSE journal[j].phase]
  /\ UNCHANGED <<process, worker, journal, files, happened>>

Launching(d, at) == Serves(d) /\ manager[d].at = at
To(d, at) == manager' = [manager EXCEPT ![d].at = at, ![d].asked = {}]

(* The checks of assertIdle, before the plan, the handoff and the permit.  *)
AfterIdle == [first |-> "plan", second |-> "gate", third |-> "permit"]

CloseIdlePeer(d) ==
  \E q \in Peers(First(d)) :
    /\ manager[d].at \in DOMAIN AfterIdle /\ Serves(d)
    /\ manager[d].asked = {} /\ Idle(q)
    /\ process' = Closing(q)
    /\ manager' = [manager EXCEPT ![d].asked = {q}]
    /\ UNCHANGED <<worker, journal, files, happened>>

AssertIdle(d) ==
  /\ manager[d].at \in DOMAIN AfterIdle /\ Serves(d)
  /\ IF manager[d].asked # {}
     THEN /\ \A q \in manager[d].asked : ~Alive(q)
          /\ To(d, manager[d].at)
     ELSE /\ Peers(First(d)) = {} /\ ~process[First(d)].busy
          /\ To(d, AfterIdle[manager[d].at])
  /\ UNCHANGED <<process, worker, journal, files, happened>>

(* revalidate, and the exclusive creation of the lock.                     *)
Valid(d) == disk.head = manager[d].plan

Acquire(d) ==
  /\ Launching(d, "plan") /\ Valid(d) /\ lock = None
  /\ lock' = d /\ To(d, "job")
  /\ UNCHANGED <<process, worker, journal, permit, ack, latest, disk, happened>>

WriteJob(d) ==
  /\ Launching(d, "job")
  /\ journal' = [journal EXCEPT ![d] = [step |-> "created", phase |-> "staging",
                                        plan |-> manager[d].plan]]
  /\ latest' = d /\ To(d, "spawn")
  /\ UNCHANGED <<process, worker, permit, ack, lock, disk, happened>>

Spawn(d) ==
  /\ Launching(d, "spawn")
  /\ worker' = [worker EXCEPT ![d].at = "running", ![d].did = TRUE]
  /\ To(d, "wait")
  /\ UNCHANGED <<process, journal, files, happened>>

(* The launch waits until the candidate is prepared or the job is over.    *)
Prepared(d) ==
  /\ Launching(d, "wait")
  /\ journal[d].step = "prepared" \/ journal[d].phase \in Terminal
  /\ To(d, IF journal[d].step = "prepared" /\ journal[d].phase = "staging"
           THEN "second" ELSE "none")
  /\ UNCHANGED <<process, worker, journal, files, happened>>

(* prepareDashboardSourceUpdateShutdown: the gate, the activity, the       *)
(* shutdown of the runtime, and then the release of the worker.            *)
EnterGate(d) ==
  /\ Launching(d, "gate") /\ Valid(d)
  /\ process' = [process EXCEPT ![First(d)].gate = TRUE]
  /\ To(d, "shutdown")
  /\ UNCHANGED <<worker, journal, files, happened>>

Shutdown(d) ==
  /\ Launching(d, "shutdown") /\ Idle(First(d))
  /\ process' = [process EXCEPT ![First(d)].state = "gone"]
  /\ To(d, "third")
  /\ UNCHANGED <<worker, journal, files, happened>>

(* releaseWorker writes the permit, and then the server closes.            *)
HandOff(d) ==
  /\ Launching(d, "permit") /\ Valid(d)
  /\ permit' = permit \cup {d} /\ process' = Closing(First(d))
  /\ To(d, "none")
  /\ UNCHANGED <<worker, journal, ack, lock, latest, disk, happened>>

(* Anything may fail.  A launch that fails touches journal and lock only   *)
(* when no worker runs; the gate opens unless the runtime is shut down.    *)
InJob(d) == manager[d].at \notin {"none", "first", "plan"}
Unlocked(d) == IF lock = d THEN None ELSE lock

(* A variant: a worker that still runs is not looked for.                  *)
InJobAtAll(d) == InJob(d)

Abandoned(d) == InJob(d) /\ worker[d].at # "running"

LaunchFails(d) ==
  LET p == First(d) IN
  /\ Serves(d) /\ manager[d].at # "none"
  /\ manager' = [manager EXCEPT ![d].at = "none", ![d].asked = {}, ![d].phase = "failed"]
  /\ process' = [process EXCEPT ![p].gate = @ /\ process[p].state # "up"]
  /\ journal' = IF Abandoned(d) /\ journal[d] # NoJournal
                THEN [journal EXCEPT ![d].phase =
                        IF worker[d].at = "none" THEN "failed" ELSE "manualRecovery"]
                ELSE journal
  /\ lock' = IF InJob(d) /\ worker[d].at = "none" THEN Unlocked(d) ELSE lock
  /\ UNCHANGED <<worker, permit, ack, latest, disk, happened>>

Manage(d) ==
  \/ Check(d) \/ StartJob(d) \/ Snapshot(d) \/ CloseIdlePeer(d) \/ AssertIdle(d)
  \/ Acquire(d) \/ WriteJob(d) \/ Spawn(d) \/ Prepared(d) \/ EnterGate(d)
  \/ Shutdown(d) \/ HandOff(d) \/ LaunchFails(d)

-------------------------------------------------------------------------------
(***************************************************************************)
(* The worker: it acts on a step, and then records the next.               *)
(***************************************************************************)
Acting(d, step) == worker[d].at = "running" /\ ~worker[d].did /\ journal[d].step = step
Did(d) == worker' = [worker EXCEPT ![d].did = TRUE, ![d].asked = {}]
PlanHolds(d) == disk.head = journal[d].plan

Record(d) ==
  LET step == Following(journal[d].step) IN
  /\ worker[d].at = "running" /\ worker[d].did /\ journal[d].step # "acknowledged"
  /\ journal' = [journal EXCEPT ![d].step = step, ![d].phase = PhaseOf(step)]
  /\ worker' = [worker EXCEPT ![d].did = step \notin Acts]
  /\ UNCHANGED <<process, manager, files, happened>>

(* A variant: the permit is taken for the exit of the old process.         *)
SeesPermit(d) ==
  \/ Acting(d, "preparing") /\ PlanHolds(d)
  \/ \E step \in {"prepared", "awaitingExit"} : Acting(d, step) /\ d \in permit
  \/ Acting(d, "spawned") /\ d \in ack /\ Alive(Restarted(d))

(* Until it crosses over, the worker only waits and looks.                 *)
Sees(d) ==
  \/ Acting(d, "preparing") /\ PlanHolds(d)
  \/ Acting(d, "prepared") /\ d \in permit
  \/ Acting(d, "awaitingExit") /\ ~Alive(First(d))
  \/ Acting(d, "spawned") /\ d \in ack /\ Alive(Restarted(d))

Look(d) ==
  /\ Sees(d)
  /\ worker' = [worker EXCEPT ![d].did = TRUE,
                              ![d].crossing = @ \/ journal[d].step = "awaitingExit"]
  /\ UNCHANGED <<process, manager, journal, files, happened>>

ClosePeer(d) ==
  \E q \in Peers(First(d)) :
    /\ Acting(d, "oldExited") /\ worker[d].asked = {} /\ Idle(q)
    /\ process' = Closing(q)
    /\ worker' = [worker EXCEPT ![d].asked = {q}]
    /\ UNCHANGED <<manager, journal, files, happened>>

Recheck(d) ==
  /\ Acting(d, "oldExited") /\ \A q \in worker[d].asked : ~Alive(q)
  /\ IF worker[d].asked # {}
     THEN worker' = [worker EXCEPT ![d].asked = {}]
     ELSE Peers(First(d)) = {} /\ PlanHolds(d) /\ Did(d)
  /\ UNCHANGED <<process, manager, journal, files, happened>>

ExchangeWith(d, step, before, after) ==
  /\ Acting(d, step) /\ disk.modules \in before
  /\ disk' = [disk EXCEPT !.modules = after] /\ Did(d)
  /\ UNCHANGED <<process, manager, journal, permit, ack, lock, latest, happened>>

BackUp(d) == ExchangeWith(d, "dependenciesBackupIntent", {"old", "none", "new"}, "none")
Install(d) == ExchangeWith(d, "dependenciesInstallIntent", {"none"}, "new")

(* A variant: HEAD moves as soon as the candidate's dependencies may.      *)
ForwardOnceInstalling(d) ==
  /\ worker[d].at = "running" /\ ~worker[d].did
  /\ journal[d].step \in {"dependenciesInstallIntent", "fastForwardIntent"} /\ PlanHolds(d)
  /\ disk' = [disk EXCEPT !.head = "new"] /\ Did(d)
  /\ UNCHANGED <<process, manager, journal, permit, ack, lock, latest, happened>>

FastForward(d) ==
  /\ Acting(d, "fastForwardIntent") /\ PlanHolds(d)
  /\ disk' = [disk EXCEPT !.head = "new"] /\ Did(d)
  /\ UNCHANGED <<process, manager, journal, permit, ack, lock, latest, happened>>

Restart(d) ==
  /\ Acting(d, "restartIntent")
  /\ process' = [process EXCEPT ![Restarted(d)] = Born(disk.head)] /\ Did(d)
  /\ UNCHANGED <<manager, journal, files, happened>>

ReleaseLock(d) ==
  /\ Acting(d, "acknowledged")
  /\ lock' = Unlocked(d)
  /\ worker' = [worker EXCEPT ![d].at = "ended"]
  /\ UNCHANGED <<process, manager, journal, permit, ack, latest, disk, happened>>

(* A variant: the lock is always released.                                 *)
KeepsLockNever(d) == FALSE

(* A wait ends, a command fails, a file cannot be written: past the exit   *)
(* of the old process the lock stays.                                      *)
KeepsLock(d) == worker[d].crossing

Fail(d) ==
  /\ worker[d].at = "running"
  /\ journal' = [journal EXCEPT ![d].phase =
                   IF worker[d].crossing THEN "manualRecovery" ELSE "failed"]
  /\ lock' = IF KeepsLock(d) THEN lock ELSE Unlocked(d)
  /\ worker' = [worker EXCEPT ![d].at = "ended"]
  /\ UNCHANGED <<process, manager, permit, ack, latest, disk, happened>>

Apply(d) ==
  \/ Record(d) \/ Look(d) \/ ClosePeer(d) \/ Recheck(d) \/ BackUp(d) \/ Install(d)
  \/ FastForward(d) \/ Restart(d) \/ ReleaseLock(d) \/ Fail(d)

-------------------------------------------------------------------------------
(***************************************************************************)
(* acknowledgeSourceUpdate: the new process, once it listens.              *)
(***************************************************************************)
Genuine(d) ==
  /\ journal[d].step \in {"restartIntent", "spawned"} /\ journal[d].phase = "restarting"
  /\ process[Restarted(d)].version = "new" /\ disk.head = "new"
  /\ ~Alive(First(d)) /\ worker[d].at = "running"

Acknowledge(d) ==
  /\ process[Restarted(d)].state = "up" /\ d \notin ack
  /\ IF Genuine(d)
     THEN ack' = ack \cup {d} /\ UNCHANGED process
     ELSE process' = [process EXCEPT ![Restarted(d)].state = "down"] /\ UNCHANGED ack
  /\ UNCHANGED <<manager, worker, journal, permit, lock, latest, disk, happened>>

Next ==
  \/ \E d \in Dashboards :
       \/ Start(d) \/ Work(d) \/ KillWorker(d)
       \/ Manage(d) \/ Apply(d) \/ Acknowledge(d)
  \/ \E p \in Processes : Exit(p) \/ Kill(p)
  \/ Commit

Spec == Init /\ [][Next]_vars

-------------------------------------------------------------------------------
(* Whenever all processes are killed, the journal tells what has become of *)
(* the clone: nothing has changed without an announced intent, and what is *)
(* recorded as done is done.                                               *)
JournalCoversDisk ==
  /\ disk.modules = "none" =>
       \E d \in Dashboards : Reached(d, "dependenciesBackupIntent")
                             /\ ~Reached(d, "dependenciesInstalled")
  /\ disk.modules = "new" => \E d \in Dashboards : Reached(d, "dependenciesInstallIntent")
  /\ disk.head = "new" => \E d \in Dashboards : Reached(d, "fastForwardIntent")
  /\ \A d \in Dashboards :
       /\ Reached(d, "dependenciesBackedUp") => disk.modules # "old"
       /\ Reached(d, "dependenciesInstalled") => disk.modules = "new"
       /\ Reached(d, "fastForwarded") => disk.head = "new"

(* A clone whose dependencies do not fit its HEAD is locked, by the job    *)
(* that was changing it: no other Dashboard can update over it.            *)
Half == (disk.modules = "old") # (disk.head # "new")

HalfAppliedIsLocked == Half => lock # None /\ Reached(lock, "dependenciesBackupIntent")

(* The clone is changed on a permit, after the process that gave it is     *)
(* gone; and an update has only succeeded when the whole of it is there    *)
(* and a process that runs it has said so.                                 *)
SucceedsWhole ==
  \A d \in Dashboards :
    /\ Reached(d, "dependenciesBackupIntent") => d \in permit /\ ~Alive(First(d))
    /\ journal[d].phase = "succeeded" =>
         disk = [head |-> "new", modules |-> "new"] /\ d \in ack

(* A job that fails before the old process has exited leaves that process  *)
(* its service (src/update/README.md: "Preparation failure leaves the old  *)
(* HTTP service, HEAD and dependencies unchanged, without a mutation       *)
(* permit").  The code does not keep this: a worker that gives up waiting  *)
(* releases its lock and says so while the permit is on its way.           *)
FailedLeavesService ==
  \A d \in Dashboards : journal[d].phase = "failed" => d \notin permit
=================================================================================
