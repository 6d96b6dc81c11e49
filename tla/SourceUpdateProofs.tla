--------------------------- MODULE SourceUpdateProofs ---------------------------
(***************************************************************************)
(* What SourceUpdate guarantees for any set of Dashboards and any number   *)
(* of kills and commits.                                                   *)
(***************************************************************************)
EXTENDS SourceUpdate, TLAPS

(***************************************************************************)
(* The inductive invariant.                                                *)
(***************************************************************************)
StepNames ==
  {"created", "preparing", "prepared", "awaitingExit", "oldExited",
   "dependenciesBackupIntent", "dependenciesBackedUp", "dependenciesInstallIntent",
   "dependenciesInstalled", "fastForwardIntent", "fastForwarded", "restartIntent", "spawned",
   "acknowledged"}

Versions == {"old", "new", "other"}
ManagerPlaces == {"none", "first", "plan", "job", "spawn", "wait", "second", "gate",
                  "shutdown", "third", "permit"}
ManagerPhases == {"idle", "ready", "upToDate", "blocked", "failed", "succeeded"} \cup Busy
JournalPhases == {"staging", "handingOff", "applying", "restarting", "succeeded", "failed",
                  "manualRecovery"}

ProcessRecord == [state : {"unborn", "up", "gone", "closing", "down"}, version : Versions,
                  busy : BOOLEAN, gate : BOOLEAN]
ManagerRecord == [phase : ManagerPhases, at : ManagerPlaces, plan : Versions \cup {"none"},
                  asked : SUBSET Processes]
WorkerRecord == [at : {"none", "running", "ended"}, did : BOOLEAN, crossing : BOOLEAN,
                 asked : SUBSET Processes]
JournalRecord == [step : StepNames, phase : JournalPhases, plan : Versions] \cup {NoJournal}

(* TypeOK only names the fields that have a meaning; this is the whole.    *)
Shape ==
  /\ process \in [Processes -> ProcessRecord]
  /\ manager \in [Dashboards -> ManagerRecord]
  /\ worker \in [Dashboards -> WorkerRecord]
  /\ journal \in [Dashboards -> JournalRecord]
  /\ permit \subseteq Dashboards /\ ack \subseteq Dashboards
  /\ lock \in Dashboards \cup {None}
  /\ latest \in {d \in Dashboards : journal[d] # NoJournal} \cup {None}
  /\ disk \in [head : Versions, modules : {"old", "none", "new"}]

(* The manager, its job's journal and its worker come about in this order, *)
(* and the lock is the job's while they do and while the worker runs.      *)
Ordered(d) ==
  LET at == manager[d].at IN
  /\ manager[d].phase = "ready" => journal[d] = NoJournal /\ at = "none"
  /\ manager[d].phase = "ready" \/ at # "none" => manager[d].plan = "old"
  /\ at \in {"first", "plan", "job"} => journal[d] = NoJournal
  /\ journal[d] = NoJournal => worker[d].at = "none"
  /\ at = "spawn" => /\ journal[d].step = "created" /\ journal[d].phase = "staging"
                     /\ worker[d].at = "none"
  /\ at \in {"wait", "second", "gate", "shutdown", "third", "permit"} => worker[d].at # "none"
  /\ worker[d].at = "none" =>
       journal[d].step \in {"none", "created"} /\ ~worker[d].did /\ ~worker[d].crossing
  /\ at \in {"job", "spawn"} \/ worker[d].at = "running" => lock = d
  /\ worker[d].at = "running" => journal[d].phase = PhaseOf(journal[d].step)
  /\ journal[d] # NoJournal => journal[d].plan = "old"
  /\ journal[d].phase = "succeeded" => journal[d].step = "acknowledged"

(* A worker is done with a step when it has acted on it.                   *)
Done(d, step) ==
  Place(journal[d].step) > Place(step) \/ (journal[d].step = step /\ worker[d].did)

(* What the journal says of the job that its worker waits for: the permit, *)
(* the exit of the process that gave it, the new process's word.           *)
Awaited(d) ==
  /\ Done(d, "prepared") => d \in permit
  /\ d \in permit => process[First(d)].state \in {"closing", "down"}
  /\ worker[d].crossing <=> Done(d, "awaitingExit")
  /\ worker[d].crossing => process[First(d)].state = "down"
  /\ Done(d, "spawned") => d \in ack

(* Past the exit of the old process the lock is the job's, for good unless *)
(* all of it is done.                                                      *)
Keeps(d) == Done(d, "awaitingExit") => lock = d \/ journal[d].step = "acknowledged"

(* What the journal of a job says of the clone.                            *)
Tells(d) ==
  /\ Done(d, "oldExited") /\ ~Done(d, "dependenciesBackupIntent") => disk.modules = "old"
  /\ Done(d, "dependenciesBackupIntent") /\ ~Done(d, "dependenciesInstallIntent")
       => disk.modules = "none"
  /\ Done(d, "dependenciesInstallIntent") => disk.modules = "new"
  /\ Done(d, "oldExited") /\ ~Done(d, "fastForwardIntent") => disk.head # "new"
  /\ Done(d, "fastForwardIntent") => disk.head = "new"

(* And nothing has changed that no journal tells.                          *)
Told ==
  /\ disk.modules # "old" => \E d \in Dashboards : Done(d, "dependenciesBackupIntent")
  /\ disk.head = "new" => \E d \in Dashboards : Done(d, "fastForwardIntent")

Jobs == \A d \in Dashboards : Ordered(d) /\ Awaited(d)
Clone == Told /\ \A d \in Dashboards : Keeps(d) /\ Tells(d)

Inv == Shape /\ Jobs /\ Clone
-------------------------------------------------------------------------------
(***************************************************************************)
(* The order of the steps.                                                 *)
(***************************************************************************)
LEMMA StepsInOrder ==
  /\ DOMAIN Steps = 1..14
  /\ \A i, j \in 1..14 : Steps[i] = Steps[j] => i = j
  /\ \A i \in 1..14 : Steps[i] # "none"
  /\ StepNames = {Steps[i] : i \in 1..14}
<1>1. DOMAIN Steps = 1..14
  BY DEF Steps
<1>2. /\ Steps[1] = "created"
      /\ Steps[2] = "preparing"
      /\ Steps[3] = "prepared"
      /\ Steps[4] = "awaitingExit"
      /\ Steps[5] = "oldExited"
      /\ Steps[6] = "dependenciesBackupIntent"
      /\ Steps[7] = "dependenciesBackedUp"
      /\ Steps[8] = "dependenciesInstallIntent"
      /\ Steps[9] = "dependenciesInstalled"
      /\ Steps[10] = "fastForwardIntent"
      /\ Steps[11] = "fastForwarded"
      /\ Steps[12] = "restartIntent"
      /\ Steps[13] = "spawned"
      /\ Steps[14] = "acknowledged"
  BY DEF Steps
<1>3. \A i \in 1..14 : i \in {1, 2, 3, 4, 5, 6, 7, 8, 9, 10, 11, 12, 13, 14}
  OBVIOUS
<1>4. \A i, j \in 1..14 : Steps[i] = Steps[j] => i = j
  BY <1>2, <1>3
<1>5. \A i \in 1..14 : Steps[i] # "none"
  BY <1>2, <1>3
<1>6. \A i \in 1..14 : Steps[i] \in StepNames
  BY <1>2, <1>3 DEF StepNames
<1>7. \A s \in StepNames : \E i \in 1..14 : Steps[i] = s
  BY <1>2 DEF StepNames
<1>8. StepNames = {Steps[i] : i \in 1..14}
  BY <1>6, <1>7
<1> QED  BY <1>1, <1>4, <1>5, <1>8

LEMMA PlaceOfStep ==
  ASSUME NEW i \in 1..14
  PROVE  Place(Steps[i]) = i
<1>1. \E k \in DOMAIN Steps : Steps[k] = Steps[i]
  BY StepsInOrder
<1>2. (CHOOSE k \in DOMAIN Steps : Steps[k] = Steps[i]) \in DOMAIN Steps
  BY <1>1
<1>3. Steps[CHOOSE k \in DOMAIN Steps : Steps[k] = Steps[i]] = Steps[i]
  BY <1>1
<1>4. (CHOOSE k \in DOMAIN Steps : Steps[k] = Steps[i]) = i
  BY <1>2, <1>3, StepsInOrder
<1>5. Steps[i] # "none"
  BY StepsInOrder
<1> QED  BY <1>4, <1>5 DEF Place

(* The place of each step by its name.                                     *)
LEMMA Places ==
  /\ Place("none") = 0
  /\ Place("created") = 1
  /\ Place("preparing") = 2
  /\ Place("prepared") = 3
  /\ Place("awaitingExit") = 4
  /\ Place("oldExited") = 5
  /\ Place("dependenciesBackupIntent") = 6
  /\ Place("dependenciesBackedUp") = 7
  /\ Place("dependenciesInstallIntent") = 8
  /\ Place("dependenciesInstalled") = 9
  /\ Place("fastForwardIntent") = 10
  /\ Place("fastForwarded") = 11
  /\ Place("restartIntent") = 12
  /\ Place("spawned") = 13
  /\ Place("acknowledged") = 14
<1>1. Place("none") = 0
  BY DEF Place
<1>2. \A i \in 1..14 : Place(Steps[i]) = i
  BY PlaceOfStep
<1>3. /\ Place(Steps[1]) = 1
      /\ Place(Steps[2]) = 2
      /\ Place(Steps[3]) = 3
      /\ Place(Steps[4]) = 4
      /\ Place(Steps[5]) = 5
      /\ Place(Steps[6]) = 6
      /\ Place(Steps[7]) = 7
      /\ Place(Steps[8]) = 8
      /\ Place(Steps[9]) = 9
      /\ Place(Steps[10]) = 10
      /\ Place(Steps[11]) = 11
      /\ Place(Steps[12]) = 12
      /\ Place(Steps[13]) = 13
      /\ Place(Steps[14]) = 14
  BY <1>2
<1> QED  BY <1>1, <1>3 DEF Steps

LEMMA PlaceIsANumber ==
  ASSUME NEW step \in StepNames \cup {"none"}
  PROVE  Place(step) \in 0..14
  BY Places DEF StepNames

(* What follows on a step is one place further on.                         *)
LEMMA FollowingStep ==
  ASSUME NEW step \in StepNames, step # "acknowledged"
  PROVE  Following(step) \in StepNames /\ Place(Following(step)) = Place(step) + 1
<1>1. PICK i \in 1..14 : step = Steps[i]
  BY StepsInOrder
<1>2. Place(step) = i /\ i # 14
  BY <1>1, PlaceOfStep DEF Steps
<1>3. Following(step) = Steps[i + 1] /\ i + 1 \in 1..14
  BY <1>2 DEF Following
<1> QED  BY <1>2, <1>3, PlaceOfStep, StepsInOrder

(* Only the last step is the success.                                      *)
LEMMA PhaseOfStep ==
  /\ PhaseOf("created") = "staging"
  /\ \A step \in StepNames : /\ PhaseOf(step) \in JournalPhases
                             /\ PhaseOf(step) = "succeeded" => step = "acknowledged"
  BY Places DEF PhaseOf, StepNames, JournalPhases

(***************************************************************************)
(* Every step preserves the shape.                                         *)
(***************************************************************************)
LEMMA Journals ==
  ASSUME NEW j \in JournalRecord, j # NoJournal
  PROVE  /\ j \in [step : StepNames, phase : JournalPhases, plan : Versions]
         /\ j.step \in StepNames /\ j.step # "none"
  BY DEF JournalRecord, StepNames

LEMMA NoJournalFields ==
  NoJournal.step = "none" /\ NoJournal.phase = "none" /\ NoJournal.plan = "none"
  BY DEF NoJournal

(* A journal is never unwritten.                                           *)
LEMMA JournalsType ==
  ASSUME journal' \in [Dashboards -> JournalRecord], UNCHANGED latest, Shape,
         \A d \in Dashboards : journal[d] # NoJournal => journal'[d] # NoJournal
  PROVE  latest' \in {d \in Dashboards : journal'[d] # NoJournal} \cup {None}
  BY DEF Shape

LEMMA BornType ==
  ASSUME Shape
  PROVE  Born(disk.head) \in ProcessRecord /\ Born(disk.head).state = "up"
  BY DEF Shape, Born, Unborn, ProcessRecord

LEMMA OfADashboard ==
  ASSUME NEW d \in Dashboards
  PROVE  /\ First(d) \in Processes /\ Restarted(d) \in Processes
         /\ \A e \in Dashboards : First(d) # Restarted(e)
         /\ \A e \in Dashboards \ {d} : First(d) # First(e)
  BY DEF First, Restarted, Processes

(* The manager goes to its next place.                                     *)
LEMMA ToPlace ==
  ASSUME manager \in [Dashboards -> ManagerRecord], NEW d \in Dashboards,
         NEW at \in ManagerPlaces, To(d, at)
  PROVE  /\ manager' \in [Dashboards -> ManagerRecord]
         /\ manager'[d].at = at /\ manager'[d].phase = manager[d].phase
         /\ manager'[d].plan = manager[d].plan
         /\ \A e \in Dashboards \ {d} : manager'[e] = manager[e]
  BY DEF To, ManagerRecord

(* The worker has acted on its step.                                       *)
LEMMA DidStep ==
  ASSUME worker \in [Dashboards -> WorkerRecord], NEW d \in Dashboards, Did(d)
  PROVE  /\ worker' \in [Dashboards -> WorkerRecord]
         /\ worker'[d].did /\ worker'[d].at = worker[d].at
         /\ worker'[d].crossing = worker[d].crossing
         /\ \A e \in Dashboards \ {d} : worker'[e] = worker[e]
  BY DEF Did, WorkerRecord

LEMMA ClosingType ==
  ASSUME process \in [Processes -> ProcessRecord], NEW q \in Processes
  PROVE  Closing(q) \in [Processes -> ProcessRecord]
  BY DEF Closing, ProcessRecord

LEMMA InitInv ==
  ASSUME Init
  PROVE  Inv
<1> USE DEF Init
<1>1. Shape
  BY DEF Shape, ProcessRecord, ManagerRecord, WorkerRecord, JournalRecord, Unborn, NoManager,
         NoWorker, ManagerPhases, ManagerPlaces, Versions
<1>2. \A d \in Dashboards : /\ manager[d] = NoManager /\ worker[d] = NoWorker
                            /\ journal[d] = NoJournal /\ ~worker[d].did
  BY DEF NoWorker
<1>3. \A d \in Dashboards, step \in StepNames : ~Done(d, step)
  BY <1>2, NoJournalFields, Places, PlaceIsANumber DEF Done
<1>4. ASSUME NEW d \in Dashboards PROVE Ordered(d) /\ Awaited(d) /\ Keeps(d) /\ Tells(d)
  <2>1. Ordered(d)
    BY <1>2, NoJournalFields DEF Ordered, NoManager, NoWorker
  <2>2. Awaited(d)
    BY <1>2, <1>3 DEF Awaited, NoWorker, StepNames
  <2>3. Keeps(d) /\ Tells(d)
    BY <1>3 DEF Keeps, Tells, StepNames
  <2> QED  BY <2>1, <2>2, <2>3
<1>5. Told
  BY DEF Told
<1> QED  BY <1>1, <1>4, <1>5 DEF Inv, Jobs, Clone

LEMMA ShapeStep ==
  ASSUME Shape, Jobs, [Next]_vars
  PROVE  Shape'
<1> USE DEF Shape
<1>1. CASE UNCHANGED vars
  BY <1>1 DEF vars, files
<1>2. ASSUME NEW d \in Dashboards, Start(d) \/ Work(d) \/ Acknowledge(d)
      PROVE  Shape'
  <2>1. CASE Start(d)
    BY <2>1, BornType, OfADashboard DEF Start, files
  <2>2. CASE Work(d)
    BY <2>2, OfADashboard DEF Work, files, ProcessRecord
  <2>3. CASE Acknowledge(d)
    <3>1. process' \in [Processes -> ProcessRecord] /\ ack' \subseteq Dashboards
      <4>1. CASE Genuine(d)
        BY <2>3, <4>1 DEF Acknowledge
      <4>2. CASE ~Genuine(d)
        BY <2>3, <4>2, OfADashboard DEF Acknowledge, ProcessRecord
      <4> QED  BY <4>1, <4>2
    <3> QED  BY <2>3, <3>1 DEF Acknowledge
  <2> QED  BY <1>2, <2>1, <2>2, <2>3
<1>3. ASSUME NEW p \in Processes, Exit(p) \/ Kill(p)
      PROVE  Shape'
  BY <1>3 DEF Exit, Kill, files, ProcessRecord
<1>4. ASSUME NEW d \in Dashboards, KillWorker(d)
      PROVE  Shape'
  BY <1>4 DEF KillWorker, files, WorkerRecord
<1>5. CASE Commit
  BY <1>5 DEF Commit, Versions
<1>6. ASSUME NEW d \in Dashboards, Check(d) \/ StartJob(d) \/ AssertIdle(d) \/ Prepared(d)
      PROVE  Shape'
  <2>1. CASE Check(d)
    <3>1. PICK phase \in {"blocked", "upToDate", "ready"}, plan \in Versions \cup {"none"} :
            manager' = [manager EXCEPT ![d] = [@ EXCEPT !.plan = plan, !.phase = phase]]
      BY <2>1 DEF Check
    <3>2. [manager[d] EXCEPT !.plan = plan, !.phase = phase] \in ManagerRecord
      BY DEF ManagerRecord, ManagerPhases
    <3>3. UNCHANGED <<process, worker, journal, permit, ack, lock, latest, disk>>
      BY <2>1 DEF Check, files
    <3> QED  BY <3>1, <3>2, <3>3
  <2>2. CASE StartJob(d)
    <3>1. manager' = [manager EXCEPT ![d] = [@ EXCEPT !.phase = "staging", !.at = "first"]]
      BY <2>2 DEF StartJob
    <3>2. [manager[d] EXCEPT !.phase = "staging", !.at = "first"] \in ManagerRecord
      BY DEF ManagerRecord, ManagerPhases, ManagerPlaces, Busy
    <3> QED  BY <2>2, <3>1, <3>2 DEF StartJob, files
  <2>3. CASE AssertIdle(d) \/ Prepared(d)
    <3>1. PICK at \in ManagerPlaces : To(d, at)
      BY <2>3 DEF AssertIdle, Prepared, AfterIdle, ManagerPlaces
    <3> QED  BY <2>3, <3>1, ToPlace DEF AssertIdle, Prepared, files
  <2> QED  BY <1>6, <2>1, <2>2, <2>3
<1>7. ASSUME NEW d \in Dashboards, Snapshot(d)
      PROVE  Shape'
  <2> DEFINE j == Followed(d)
  <2>1. j \in Dashboards /\ journal[j] # NoJournal
    BY <1>7 DEF Snapshot, Followed
  <2>2. journal[j].phase \in ManagerPhases
    BY <2>1, Journals DEF JournalPhases, ManagerPhases, Busy
  <2> HIDE DEF j
  <2>3. manager' = [manager EXCEPT ![d].phase =
                      IF Orphaned(j) THEN "manualRecovery" ELSE journal[j].phase]
    BY <1>7 DEF Snapshot, j
  <2>4. manager' \in [Dashboards -> ManagerRecord]
    BY <2>2, <2>3 DEF ManagerRecord, ManagerPhases, Busy
  <2> QED  BY <1>7, <2>4 DEF Snapshot, files
<1>8. ASSUME NEW d \in Dashboards, CloseIdlePeer(d) \/ EnterGate(d) \/ Shutdown(d)
      PROVE  Shape'
  <2>1. CASE CloseIdlePeer(d)
    <3>1. PICK q \in Processes : /\ process' = Closing(q)
                                /\ manager' = [manager EXCEPT ![d].asked = {q}]
      BY <2>1 DEF CloseIdlePeer, Peers
    <3>2. manager' \in [Dashboards -> ManagerRecord]
      BY <3>1 DEF ManagerRecord
    <3> QED  BY <2>1, <3>1, <3>2, ClosingType DEF CloseIdlePeer, files
  <2>2. CASE EnterGate(d) \/ Shutdown(d)
    <3>1. PICK at \in ManagerPlaces : To(d, at)
      BY <2>2 DEF EnterGate, Shutdown, ManagerPlaces
    <3>2. process' \in [Processes -> ProcessRecord]
      <4>1. CASE EnterGate(d)
        BY <4>1, OfADashboard DEF EnterGate, ProcessRecord
      <4>2. CASE Shutdown(d)
        BY <4>2, OfADashboard DEF Shutdown, ProcessRecord
      <4> QED  BY <2>2, <4>1, <4>2
    <3> QED  BY <2>2, <3>1, <3>2, ToPlace DEF EnterGate, Shutdown, files
  <2> QED  BY <1>8, <2>1, <2>2
<1>9. ASSUME NEW d \in Dashboards, Acquire(d) \/ HandOff(d)
      PROVE  Shape'
  <2>1. PICK at \in ManagerPlaces : To(d, at)
    BY <1>9 DEF Acquire, HandOff, ManagerPlaces
  <2>2. process' \in [Processes -> ProcessRecord]
    BY <1>9, OfADashboard, ClosingType DEF Acquire, HandOff
  <2> QED  BY <1>9, <2>1, <2>2, ToPlace DEF Acquire, HandOff
<1>10. ASSUME NEW d \in Dashboards, WriteJob(d)
       PROVE  Shape'
  <2>1. manager[d].plan = "old"
    BY <1>10 DEF WriteJob, Launching, Jobs, Ordered
  <2>2. /\ journal' = [journal EXCEPT ![d] = [step |-> "created", phase |-> "staging",
                                               plan |-> "old"]]
    BY <1>10, <2>1 DEF WriteJob
  <2>3. journal' \in [Dashboards -> JournalRecord] /\ journal'[d] # NoJournal
    BY <2>2, NoJournalFields DEF JournalRecord, StepNames, JournalPhases, Versions
  <2> QED
    BY <1>10, <2>3 DEF WriteJob, To, ManagerRecord, ManagerPlaces
<1>11. ASSUME NEW d \in Dashboards, Spawn(d)
       PROVE  Shape'
  <2>1. To(d, "wait") /\ "wait" \in ManagerPlaces
    BY <1>11 DEF Spawn, ManagerPlaces
  <2>2. worker' \in [Dashboards -> WorkerRecord]
    BY <1>11 DEF Spawn, WorkerRecord
  <2> QED  BY <1>11, <2>1, <2>2, ToPlace DEF Spawn, files
<1>12. ASSUME NEW d \in Dashboards, LaunchFails(d)
       PROVE  Shape'
  <2>1. manager' \in [Dashboards -> ManagerRecord]
    <3>1. manager' = [manager EXCEPT ![d] = [@ EXCEPT !.at = "none", !.asked = {},
                                                      !.phase = "failed"]]
      BY <1>12 DEF LaunchFails
    <3>2. [manager[d] EXCEPT !.at = "none", !.asked = {}, !.phase = "failed"] \in ManagerRecord
      BY DEF ManagerRecord, ManagerPlaces, ManagerPhases
    <3> QED  BY <3>1, <3>2
  <2>2. process' \in [Processes -> ProcessRecord]
    BY <1>12, OfADashboard DEF LaunchFails, ProcessRecord
  <2>3. /\ journal' \in [Dashboards -> JournalRecord]
        /\ \A e \in Dashboards : journal[e] # NoJournal => journal'[e] # NoJournal
    <3>1. CASE Abandoned(d) /\ journal[d] # NoJournal
      <4>1. PICK phase \in JournalPhases : journal' = [journal EXCEPT ![d].phase = phase]
        BY <1>12, <3>1 DEF LaunchFails, JournalPhases
      <4>2. /\ journal'[d] \in [step : StepNames, phase : JournalPhases, plan : Versions]
            /\ journal'[d].step = journal[d].step
        BY <3>1, <4>1, Journals
      <4> QED  BY <4>1, <4>2, Journals, NoJournalFields DEF JournalRecord
    <3>2. CASE ~(Abandoned(d) /\ journal[d] # NoJournal)
      BY <1>12, <3>2 DEF LaunchFails
    <3> QED  BY <3>1, <3>2
  <2>4. lock' \in Dashboards \cup {None} /\ UNCHANGED <<worker, permit, ack, latest, disk>>
    BY <1>12 DEF LaunchFails, Unlocked
  <2> QED  BY <2>1, <2>2, <2>3, <2>4, JournalsType
<1>13. ASSUME NEW d \in Dashboards, Record(d)
       PROVE  Shape'
  <2>1. journal[d] # NoJournal
    BY <1>13 DEF Record, Jobs, Ordered
  <2>2. /\ journal[d].step \in StepNames /\ journal[d].step # "acknowledged"
        /\ journal[d] \in [step : StepNames, phase : JournalPhases, plan : Versions]
    BY <1>13, <2>1, Journals DEF Record
  <2> DEFINE step == Following(journal[d].step)
  <2>3. step \in StepNames /\ PhaseOf(step) \in JournalPhases
    BY <2>2, FollowingStep, PhaseOfStep
  <2> HIDE DEF step
  <2>4. journal' = [journal EXCEPT ![d].step = step, ![d].phase = PhaseOf(step)]
    BY <1>13 DEF Record, step
  <2>5. journal'[d] \in [step : StepNames, phase : JournalPhases, plan : Versions]
    BY <2>2, <2>3, <2>4
  <2>6. /\ journal' \in [Dashboards -> JournalRecord]
        /\ \A e \in Dashboards : journal[e] # NoJournal => journal'[e] # NoJournal
    BY <2>4, <2>5, NoJournalFields DEF JournalRecord, StepNames
  <2>7. worker' \in [Dashboards -> WorkerRecord]
    BY <1>13 DEF Record, WorkerRecord
  <2> QED  BY <1>13, <2>6, <2>7, JournalsType DEF Record, files
<1>14. ASSUME NEW d \in Dashboards, Look(d) \/ Recheck(d)
       PROVE  Shape'
  <2>1. CASE Look(d)
    <3>1. PICK crosses \in BOOLEAN :
            worker' = [worker EXCEPT ![d] = [@ EXCEPT !.did = TRUE, !.crossing = crosses]]
      BY <2>1 DEF Look, WorkerRecord
    <3>2. [worker[d] EXCEPT !.did = TRUE, !.crossing = crosses] \in WorkerRecord
      BY DEF WorkerRecord
    <3> QED  BY <2>1, <3>1, <3>2 DEF Look, files
  <2>2. CASE Recheck(d)
    <3>1. worker' \in [Dashboards -> WorkerRecord]
      BY <2>2, DidStep DEF Recheck, WorkerRecord
    <3> QED  BY <2>2, <3>1 DEF Recheck, files
  <2> QED  BY <1>14, <2>1, <2>2
<1>15. ASSUME NEW d \in Dashboards, ClosePeer(d) \/ Restart(d)
       PROVE  Shape'
  <2>1. CASE ClosePeer(d)
    <3>1. PICK q \in Processes : /\ process' = Closing(q)
                                /\ worker' = [worker EXCEPT ![d].asked = {q}]
      BY <2>1 DEF ClosePeer, Peers
    <3>2. worker' \in [Dashboards -> WorkerRecord]
      BY <3>1 DEF WorkerRecord
    <3> QED  BY <2>1, <3>1, <3>2, ClosingType DEF ClosePeer, files
  <2>2. CASE Restart(d)
    BY <2>2, BornType, OfADashboard, DidStep DEF Restart, files
  <2> QED  BY <1>15, <2>1, <2>2
<1>16. ASSUME NEW d \in Dashboards, BackUp(d) \/ Install(d) \/ FastForward(d)
       PROVE  Shape'
  <2>1. disk' \in [head : Versions, modules : {"old", "none", "new"}] /\ Did(d)
    BY <1>16 DEF BackUp, Install, ExchangeWith, FastForward, Versions
  <2> QED  BY <1>16, <2>1, DidStep DEF BackUp, Install, ExchangeWith, FastForward
<1>17. ASSUME NEW d \in Dashboards, ReleaseLock(d)
       PROVE  Shape'
  BY <1>17 DEF ReleaseLock, Unlocked, WorkerRecord
<1>18. ASSUME NEW d \in Dashboards, Fail(d)
       PROVE  Shape'
  <2>1. journal[d] # NoJournal
    BY <1>18 DEF Fail, Jobs, Ordered
  <2>2. PICK phase \in JournalPhases : journal' = [journal EXCEPT ![d].phase = phase]
    BY <1>18 DEF Fail, JournalPhases
  <2>3. /\ journal'[d] \in [step : StepNames, phase : JournalPhases, plan : Versions]
        /\ journal'[d].step = journal[d].step
    BY <2>1, <2>2, Journals
  <2>4. /\ journal' \in [Dashboards -> JournalRecord]
        /\ \A e \in Dashboards : journal[e] # NoJournal => journal'[e] # NoJournal
    BY <2>1, <2>2, <2>3, Journals, NoJournalFields DEF JournalRecord
  <2>5. worker' \in [Dashboards -> WorkerRecord] /\ lock' \in Dashboards \cup {None}
    BY <1>18 DEF Fail, Unlocked, WorkerRecord
  <2> QED  BY <1>18, <2>4, <2>5, JournalsType DEF Fail
<1> QED
  BY <1>1, <1>2, <1>3, <1>4, <1>5, <1>6, <1>7, <1>8, <1>9, <1>10, <1>11, <1>12, <1>13, <1>14,
     <1>15, <1>16, <1>17, <1>18
  DEF Next, Manage, Apply

(***************************************************************************)
(* Every step keeps manager, journal, worker and lock in order.            *)
(***************************************************************************)
(* What is in order stays so while nobody touches it.                      *)
LEMMA StaysOrdered ==
  ASSUME NEW d \in Dashboards, Ordered(d),
         manager'[d] = manager[d], worker'[d] = worker[d], journal'[d] = journal[d],
         lock = d => lock' = d
  PROVE  Ordered(d)'
  BY DEF Ordered

LEMMA OneOrdered ==
  ASSUME Jobs, NEW d \in Dashboards, Ordered(d)',
         \A e \in Dashboards \ {d} :
           /\ manager'[e] = manager[e] /\ worker'[e] = worker[e] /\ journal'[e] = journal[e]
           /\ lock = e => lock' = e
  PROVE  \A e \in Dashboards : Ordered(e)'
<1>1. ASSUME NEW e \in Dashboards, e # d PROVE Ordered(e)'
  BY <1>1, StaysOrdered DEF Jobs
<1> QED  BY <1>1

LEMMA JournalsAreNamed ==
  ASSUME Shape, NEW d \in Dashboards
  PROVE  /\ journal[d] = NoJournal <=> journal[d].step = "none"
         /\ journal[d] # NoJournal =>
              journal[d] \in [step : StepNames, phase : JournalPhases, plan : Versions]
  BY Journals, NoJournalFields DEF Shape

LEMMA OrderedStep ==
  ASSUME Shape, Jobs, [Next]_vars
  PROVE  \A d \in Dashboards : Ordered(d)'
<1> USE DEF Shape
<1>0. \A d \in Dashboards : Ordered(d)
  BY DEF Jobs
<1>1. CASE UNCHANGED <<manager, worker, journal, lock>>
  BY <1>0, <1>1, StaysOrdered
<1>2. ASSUME NEW d \in Dashboards, KillWorker(d)
      PROVE  \A e \in Dashboards : Ordered(e)'
  <2>1. /\ UNCHANGED <<manager, journal, lock>>
        /\ worker'[d].at = "ended" /\ worker[d].at = "running"
        /\ \A e \in Dashboards \ {d} : worker'[e] = worker[e]
    BY <1>2 DEF KillWorker, files, WorkerRecord
  <2>2. Ordered(d)'
    BY <1>0, <2>1 DEF Ordered
  <2> QED  BY <2>1, <2>2, OneOrdered
<1>3. ASSUME NEW d \in Dashboards, Check(d)
      PROVE  \A e \in Dashboards : Ordered(e)'
  <2>1. /\ UNCHANGED <<worker, journal, lock>> /\ journal[d] = NoJournal
        /\ manager[d].at = "none"
        /\ \A e \in Dashboards \ {d} : manager'[e] = manager[e]
    BY <1>3 DEF Check, files, Available
  <2>2. PICK phase \in {"blocked", "upToDate", "ready"}, plan \in Versions \cup {"none"} :
          /\ manager' = [manager EXCEPT ![d] = [@ EXCEPT !.plan = plan, !.phase = phase]]
          /\ phase = "ready" => plan = "old"
    BY <1>3 DEF Check, Versions
  <2>3. /\ manager'[d].at = "none"
        /\ manager'[d].phase = "ready" => manager'[d].plan = "old"
    BY <2>1, <2>2 DEF ManagerRecord
  <2>4. Ordered(d)'
    BY <1>0, <2>1, <2>3 DEF Ordered
  <2> QED  BY <2>1, <2>4, OneOrdered
<1>4. ASSUME NEW d \in Dashboards, StartJob(d)
      PROVE  \A e \in Dashboards : Ordered(e)'
  <2>1. /\ UNCHANGED <<worker, journal, lock>> /\ manager[d].phase = "ready"
        /\ \A e \in Dashboards \ {d} : manager'[e] = manager[e]
    BY <1>4 DEF StartJob, files
  <2>2. manager' = [manager EXCEPT ![d] = [@ EXCEPT !.phase = "staging", !.at = "first"]]
    BY <1>4 DEF StartJob
  <2>3. /\ manager'[d].at = "first" /\ manager'[d].phase = "staging"
        /\ manager'[d].plan = manager[d].plan
    BY <2>2 DEF ManagerRecord
  <2>4. Ordered(d)'
    BY <1>0, <2>1, <2>3 DEF Ordered
  <2> QED  BY <2>1, <2>4, OneOrdered
<1>5. ASSUME NEW d \in Dashboards, Snapshot(d)
      PROVE  \A e \in Dashboards : Ordered(e)'
  <2> DEFINE j == Followed(d)
             phase == IF Orphaned(j) THEN "manualRecovery" ELSE journal[j].phase
  <2>1. j \in Dashboards /\ journal[j] # NoJournal
    BY <1>5 DEF Snapshot, Followed
  <2>2. phase # "ready"
    BY <2>1, Journals DEF JournalPhases
  <2>3. UNCHANGED <<worker, journal, lock>> /\ manager' = [manager EXCEPT ![d].phase = phase]
    BY <1>5 DEF Snapshot, files
  <2> HIDE DEF j, phase
  <2>4. /\ manager'[d].at = manager[d].at /\ manager'[d].phase # "ready"
        /\ manager'[d].plan = manager[d].plan
        /\ \A e \in Dashboards \ {d} : manager'[e] = manager[e]
    BY <2>2, <2>3 DEF ManagerRecord
  <2>5. Ordered(d)'
    BY <1>0, <2>3, <2>4 DEF Ordered
  <2> QED  BY <2>3, <2>4, <2>5, OneOrdered
<1>6. ASSUME NEW d \in Dashboards, CloseIdlePeer(d)
      PROVE  \A e \in Dashboards : Ordered(e)'
  <2>1. PICK q \in Processes : manager' = [manager EXCEPT ![d].asked = {q}]
    BY <1>6 DEF CloseIdlePeer, Peers
  <2>2. /\ manager'[d].at = manager[d].at /\ manager'[d].phase = manager[d].phase
        /\ manager'[d].plan = manager[d].plan
        /\ \A e \in Dashboards \ {d} : manager'[e] = manager[e]
    BY <2>1 DEF ManagerRecord
  <2>3. UNCHANGED <<worker, journal, lock>>
    BY <1>6 DEF CloseIdlePeer, files
  <2>4. Ordered(d)'
    BY <1>0, <2>2, <2>3 DEF Ordered
  <2> QED  BY <2>2, <2>3, <2>4, OneOrdered
<1>7. ASSUME NEW d \in Dashboards,
             AssertIdle(d) \/ Prepared(d) \/ EnterGate(d) \/ Shutdown(d) \/ HandOff(d)
      PROVE  \A e \in Dashboards : Ordered(e)'
  <2> DEFINE Launched == {"wait", "second", "gate", "shutdown", "third", "permit"}
  <2>1. PICK at \in ManagerPlaces :
          /\ To(d, at) /\ manager[d].at # "none" /\ at \notin {"job", "spawn"}
          /\ at \in {"first", "plan"} => manager[d].at = "first"
          /\ at \in Launched => manager[d].at \in Launched
    BY <1>7 DEF AssertIdle, AfterIdle, Prepared, EnterGate, Shutdown, HandOff, Launching,
                ManagerPlaces
  <2>2. UNCHANGED <<worker, journal, lock>>
    BY <1>7 DEF AssertIdle, Prepared, EnterGate, Shutdown, HandOff, files
  <2>3. /\ manager'[d].at = at /\ manager'[d].phase = manager[d].phase
        /\ manager'[d].plan = manager[d].plan
        /\ \A e \in Dashboards \ {d} : manager'[e] = manager[e]
    BY <2>1, ToPlace
  <2>4. Ordered(d)'
    BY <1>0, <2>1, <2>2, <2>3 DEF Ordered
  <2> QED  BY <2>2, <2>3, <2>4, OneOrdered
<1>8. ASSUME NEW d \in Dashboards, Acquire(d)
      PROVE  \A e \in Dashboards : Ordered(e)'
  <2>1. /\ To(d, "job") /\ "job" \in ManagerPlaces /\ manager[d].at = "plan"
        /\ lock = None /\ lock' = d /\ UNCHANGED <<worker, journal>>
    BY <1>8 DEF Acquire, Launching, ManagerPlaces
  <2>2. Ordered(d)'
    BY <1>0, <2>1, ToPlace DEF Ordered
  <2> QED  BY <2>1, <2>2, ToPlace, OneOrdered, NoneAssumption
<1>9. ASSUME NEW d \in Dashboards, WriteJob(d)
      PROVE  \A e \in Dashboards : Ordered(e)'
  <2>1. /\ To(d, "spawn") /\ "spawn" \in ManagerPlaces /\ manager[d].at = "job"
        /\ UNCHANGED <<worker, lock>>
    BY <1>9 DEF WriteJob, Launching, ManagerPlaces
  <2>2. /\ journal'[d] = [step |-> "created", phase |-> "staging", plan |-> manager[d].plan]
        /\ \A e \in Dashboards \ {d} : journal'[e] = journal[e]
    BY <1>9 DEF WriteJob
  <2>3. /\ journal[d] = NoJournal /\ worker[d].at = "none" /\ manager[d].plan = "old"
        /\ manager[d].phase # "ready"
        /\ ~worker[d].did /\ ~worker[d].crossing /\ lock = d
    BY <1>0, <2>1 DEF Ordered
  <2>4. Ordered(d)'
    BY <2>1, <2>2, <2>3, ToPlace, NoJournalFields DEF Ordered
  <2> QED  BY <2>1, <2>2, <2>4, ToPlace, OneOrdered
<1>10. ASSUME NEW d \in Dashboards, Spawn(d)
       PROVE  \A e \in Dashboards : Ordered(e)'
  <2>1. /\ To(d, "wait") /\ "wait" \in ManagerPlaces /\ manager[d].at = "spawn"
        /\ UNCHANGED <<journal, lock>>
    BY <1>10 DEF Spawn, Launching, ManagerPlaces, files
  <2>2. /\ worker'[d].at = "running"
        /\ \A e \in Dashboards \ {d} : worker'[e] = worker[e]
    BY <1>10 DEF Spawn, WorkerRecord
  <2>3. Ordered(d)'
    BY <1>0, <2>1, <2>2, ToPlace, NoJournalFields, PhaseOfStep DEF Ordered
  <2> QED  BY <2>1, <2>2, <2>3, ToPlace, OneOrdered
<1>11. ASSUME NEW d \in Dashboards, LaunchFails(d)
       PROVE  \A e \in Dashboards : Ordered(e)'
  <2>1. manager' = [manager EXCEPT ![d] = [@ EXCEPT !.at = "none", !.asked = {},
                                                    !.phase = "failed"]]
    BY <1>11 DEF LaunchFails
  <2>2. /\ manager'[d].at = "none" /\ manager'[d].phase = "failed"
        /\ \A e \in Dashboards \ {d} : manager'[e] = manager[e]
    BY <2>1 DEF ManagerRecord
  <2>3. /\ \A e \in Dashboards \ {d} : journal'[e] = journal[e]
        /\ journal'[d].step = journal[d].step /\ journal'[d].plan = journal[d].plan
        /\ journal[d] = NoJournal <=> journal'[d] = NoJournal
        /\ worker[d].at = "running" => journal'[d] = journal[d]
        /\ journal'[d].phase # "succeeded" \/ journal'[d] = journal[d]
    <3>1. CASE Abandoned(d) /\ journal[d] # NoJournal
      <4>1. PICK phase \in {"failed", "manualRecovery"} :
              journal' = [journal EXCEPT ![d].phase = phase]
        BY <1>11, <3>1 DEF LaunchFails
      <4>2. /\ journal'[d].step = journal[d].step /\ journal'[d].phase = phase
            /\ journal'[d].plan = journal[d].plan
        BY <3>1, <4>1, JournalsAreNamed
      <4>3. journal'[d] # NoJournal
        BY <3>1, <4>2, JournalsAreNamed, NoJournalFields
      <4> QED  BY <3>1, <4>1, <4>2, <4>3 DEF Abandoned
    <3>2. CASE ~(Abandoned(d) /\ journal[d] # NoJournal)
      BY <1>11, <3>2 DEF LaunchFails
    <3> QED  BY <3>1, <3>2
  <2>4. /\ UNCHANGED worker /\ \A e \in Dashboards \ {d} : lock = e => lock' = e
        /\ worker[d].at = "running" => lock' = lock
    BY <1>11 DEF LaunchFails, Unlocked
  <2>5. Ordered(d)'
    BY <1>0, <2>2, <2>3, <2>4 DEF Ordered
  <2> QED  BY <2>2, <2>3, <2>4, <2>5, OneOrdered
<1>12. ASSUME NEW d \in Dashboards, Record(d)
       PROVE  \A e \in Dashboards : Ordered(e)'
  <2>1. /\ worker[d].at = "running" /\ journal[d].step # "acknowledged"
        /\ UNCHANGED <<manager, lock>>
    BY <1>12 DEF Record, files
  <2>2. /\ journal[d] # NoJournal /\ journal[d].step \in StepNames
        /\ journal[d] \in [step : StepNames, phase : JournalPhases, plan : Versions]
    BY <1>0, <2>1, JournalsAreNamed DEF Ordered
  <2> DEFINE step == Following(journal[d].step)
  <2>3. step \in StepNames /\ (PhaseOf(step) = "succeeded" => step = "acknowledged")
    BY <2>1, <2>2, FollowingStep, PhaseOfStep
  <2> HIDE DEF step
  <2>4. journal' = [journal EXCEPT ![d].step = step, ![d].phase = PhaseOf(step)]
    BY <1>12 DEF Record, step
  <2>5. /\ journal'[d].step = step /\ journal'[d].phase = PhaseOf(step)
        /\ journal'[d].plan = journal[d].plan
        /\ \A e \in Dashboards \ {d} : journal'[e] = journal[e]
    BY <2>2, <2>4
  <2>6. journal'[d] # NoJournal
    BY <2>3, <2>5, NoJournalFields DEF StepNames
  <2>7. /\ worker'[d].at = "running"
        /\ \A e \in Dashboards \ {d} : worker'[e] = worker[e]
    BY <1>12 DEF Record, WorkerRecord
  <2>8. Ordered(d)'
    BY <1>0, <2>1, <2>2, <2>3, <2>5, <2>6, <2>7 DEF Ordered
  <2> QED  BY <2>1, <2>5, <2>7, <2>8, OneOrdered
<1>13. ASSUME NEW d \in Dashboards,
              \/ Look(d) \/ ClosePeer(d) \/ Recheck(d) \/ BackUp(d) \/ Install(d)
              \/ FastForward(d) \/ Restart(d)
       PROVE  \A e \in Dashboards : Ordered(e)'
  <2>1. UNCHANGED <<manager, journal, lock>> /\ worker[d].at = "running"
    BY <1>13 DEF Look, Sees, ClosePeer, Recheck, BackUp, Install, ExchangeWith, FastForward,
                 Restart, Acting, files
  <2>2. /\ worker'[d].at = "running"
        /\ \A e \in Dashboards \ {d} : worker'[e] = worker[e]
    <3>1. CASE Look(d) \/ ClosePeer(d)
      BY <2>1, <3>1 DEF Look, ClosePeer, WorkerRecord
    <3>2. CASE Recheck(d)
      BY <2>1, <3>2, DidStep DEF Recheck, WorkerRecord
    <3>3. CASE BackUp(d) \/ Install(d) \/ FastForward(d) \/ Restart(d)
      BY <2>1, <3>3, DidStep DEF BackUp, Install, ExchangeWith, FastForward, Restart
    <3> QED  BY <1>13, <3>1, <3>2, <3>3
  <2>3. Ordered(d)'
    BY <1>0, <2>1, <2>2 DEF Ordered
  <2> QED  BY <2>1, <2>2, <2>3, OneOrdered
<1>14. ASSUME NEW d \in Dashboards, ReleaseLock(d) \/ Fail(d)
       PROVE  \A e \in Dashboards : Ordered(e)'
  <2>1. /\ worker[d].at = "running" /\ worker'[d].at = "ended" /\ UNCHANGED manager
        /\ \A e \in Dashboards \ {d} : worker'[e] = worker[e]
        /\ \A e \in Dashboards \ {d} : lock = e => lock' = e
    BY <1>14 DEF ReleaseLock, Fail, Acting, Unlocked, WorkerRecord
  <2>2. journal[d] # NoJournal
    BY <1>0, <2>1 DEF Ordered
  <2>3. /\ \A e \in Dashboards \ {d} : journal'[e] = journal[e]
        /\ journal'[d].step = journal[d].step /\ journal'[d].plan = journal[d].plan
        /\ journal'[d].phase # "succeeded" \/ journal'[d] = journal[d]
    <3>1. CASE UNCHANGED journal
      BY <3>1
    <3>2. CASE Fail(d)
      <4>1. PICK phase \in {"failed", "manualRecovery"} :
              journal' = [journal EXCEPT ![d].phase = phase]
        BY <3>2 DEF Fail
      <4> QED  BY <2>2, <4>1, JournalsAreNamed
    <3> QED  BY <1>14, <3>1, <3>2 DEF ReleaseLock
  <2>4. journal'[d] # NoJournal
    BY <2>2, <2>3, JournalsAreNamed, NoJournalFields
  <2>5. Ordered(d)'
    BY <1>0, <2>1, <2>2, <2>3, <2>4 DEF Ordered
  <2> QED  BY <2>1, <2>3, <2>5, OneOrdered
<1>15. ASSUME NEW d \in Dashboards, Start(d) \/ Work(d) \/ Acknowledge(d)
       PROVE  UNCHANGED <<manager, worker, journal, lock>>
  BY <1>15 DEF Start, Work, Acknowledge, files
<1>16. ASSUME NEW p \in Processes, Exit(p) \/ Kill(p)
       PROVE  UNCHANGED <<manager, worker, journal, lock>>
  BY <1>16 DEF Exit, Kill, files
<1>17. Commit \/ UNCHANGED vars => UNCHANGED <<manager, worker, journal, lock>>
  BY DEF Commit, vars, files
<1> QED
  BY <1>1, <1>2, <1>3, <1>4, <1>5, <1>6, <1>7, <1>8, <1>9, <1>10, <1>11, <1>12, <1>13, <1>14,
     <1>15, <1>16, <1>17
  DEF Next, Manage, Apply

(***************************************************************************)
(* What a step may do to the progress of a job, to its lock, and to the    *)
(* processes.                                                              *)
(***************************************************************************)
Acted(d) == \/ Look(d) \/ Recheck(d) \/ BackUp(d) \/ Install(d) \/ FastForward(d)
            \/ Restart(d)

Still(d) == /\ journal'[d].step = journal[d].step
            /\ worker'[d].did = worker[d].did
            /\ worker'[d].crossing = worker[d].crossing

LEMMA Progress ==
  ASSUME Shape, Jobs, [Next]_vars, NEW d \in Dashboards
  PROVE  Still(d) \/ Record(d) \/ WriteJob(d) \/ Spawn(d) \/ Acted(d)
<1> USE DEF Shape
<1>1. CASE UNCHANGED <<worker, journal>>
  BY <1>1 DEF Still
<1>2. ASSUME NEW e \in Dashboards, e # d, UNCHANGED worker[d], UNCHANGED journal[d]
      PROVE  Still(d)
  BY <1>2 DEF Still
<1>3. ASSUME NEW e \in Dashboards, KillWorker(e) \/ ClosePeer(e) \/ ReleaseLock(e)
      PROVE  Still(d)
  <2>1. UNCHANGED journal
    BY <1>3 DEF KillWorker, ClosePeer, ReleaseLock, files
  <2>2. worker'[d].did = worker[d].did /\ worker'[d].crossing = worker[d].crossing
    BY <1>3 DEF KillWorker, ClosePeer, ReleaseLock, WorkerRecord
  <2> QED  BY <2>1, <2>2 DEF Still
<1>4. ASSUME NEW e \in Dashboards, LaunchFails(e)
      PROVE  Still(d)
  <2>1. journal'[d].step = journal[d].step
    <3>1. CASE UNCHANGED journal
      BY <3>1
    <3>2. CASE journal[e] # NoJournal /\ ~UNCHANGED journal
      <4>1. PICK phase : journal' = [journal EXCEPT ![e].phase = phase]
        BY <1>4, <3>2 DEF LaunchFails
      <4> QED  BY <3>2, <4>1, JournalsAreNamed
    <3> QED  BY <1>4, <3>1, <3>2 DEF LaunchFails
  <2> QED  BY <1>4, <2>1 DEF LaunchFails, Still
<1>5. ASSUME NEW e \in Dashboards, Fail(e)
      PROVE  Still(d)
  <2>1. journal[e] # NoJournal
    BY <1>5 DEF Jobs, Ordered, Fail
  <2>2. PICK phase : journal' = [journal EXCEPT ![e].phase = phase]
    BY <1>5 DEF Fail
  <2>3. journal'[d].step = journal[d].step
    BY <2>1, <2>2, JournalsAreNamed
  <2>4. worker'[d].did = worker[d].did /\ worker'[d].crossing = worker[d].crossing
    BY <1>5 DEF Fail, WorkerRecord
  <2> QED  BY <2>3, <2>4 DEF Still
<1>6. ASSUME NEW e \in Dashboards, Record(e) \/ WriteJob(e) \/ Spawn(e) \/ Acted(e), e # d
      PROVE  Still(d)
  <2>1. UNCHANGED journal[d]
    BY <1>6 DEF Record, WriteJob, Spawn, Acted, Look, Recheck, BackUp, Install, ExchangeWith,
                FastForward, Restart, files
  <2>2. UNCHANGED worker[d]
    BY <1>6 DEF Record, WriteJob, Spawn, Acted, Look, Recheck, BackUp, Install, ExchangeWith,
                FastForward, Restart, Did, files
  <2> QED  BY <1>6, <2>1, <2>2, <1>2
<1>7. ASSUME NEW e \in Dashboards,
             \/ Start(e) \/ Work(e) \/ Acknowledge(e)
             \/ Check(e) \/ StartJob(e) \/ Snapshot(e) \/ CloseIdlePeer(e) \/ AssertIdle(e)
             \/ Acquire(e) \/ Prepared(e) \/ EnterGate(e) \/ Shutdown(e) \/ HandOff(e)
      PROVE  UNCHANGED <<worker, journal>>
  BY <1>7 DEF Start, Work, Acknowledge, Check, StartJob, Snapshot, CloseIdlePeer, AssertIdle,
              Acquire, Prepared, EnterGate, Shutdown, HandOff, files
<1>8. ASSUME NEW p \in Processes, Exit(p) \/ Kill(p)
      PROVE  UNCHANGED <<worker, journal>>
  BY <1>8 DEF Exit, Kill, files
<1>9. Commit \/ UNCHANGED vars => UNCHANGED <<worker, journal>>
  BY DEF Commit, vars, files
<1> QED
  BY <1>1, <1>3, <1>4, <1>5, <1>6, <1>7, <1>8, <1>9 DEF Next, Manage, Apply, Acted

(* A worker that has acted on a step has acted on those before it.         *)
LEMMA DoneBefore ==
  ASSUME Shape, NEW d \in Dashboards, NEW s \in StepNames, NEW t \in StepNames,
         Place(s) < Place(t), Place(journal[d].step) >= Place(t)
  PROVE  Done(d, s)
<1>1. journal[d].step \in StepNames \cup {"none"}
  BY JournalsAreNamed
<1> QED  BY <1>1, PlaceIsANumber DEF Done

LEMMA DoneIsReached ==
  ASSUME Shape, NEW d \in Dashboards, NEW s \in StepNames, Done(d, s)
  PROVE  Place(journal[d].step) >= Place(s)
  BY JournalsAreNamed, PlaceIsANumber DEF Done

(* What a worker has acted on stays so, and there is no other way there.   *)
LEMMA Advance ==
  ASSUME Shape, Jobs, [Next]_vars, NEW d \in Dashboards, NEW step \in Acts
  PROVE  /\ Done(d, step) => Done(d, step)'
         /\ Done(d, step)' => Done(d, step) \/ (Acting(d, step) /\ Acted(d))
<1> USE DEF Shape
<1>1. step \in StepNames /\ Place(step) >= 2
  BY Places DEF Acts, StepNames
<1>2. journal[d].step \in StepNames \cup {"none"}
  BY JournalsAreNamed
<1>3. CASE Still(d)
  BY <1>3 DEF Still, Done
<1>4. CASE Record(d)
  <2> DEFINE next == Following(journal[d].step)
  <2>1. journal[d] # NoJournal /\ worker[d].did /\ journal[d].step # "acknowledged"
    BY <1>4 DEF Record, Jobs, Ordered
  <2>2. journal[d].step \in StepNames
    BY <2>1, JournalsAreNamed, <1>2
  <2>3. next \in StepNames /\ Place(next) = Place(journal[d].step) + 1
    BY <2>1, <2>2, FollowingStep
  <2> HIDE DEF next
  <2>4. journal'[d].step = next
    BY <1>4, <2>1, JournalsAreNamed DEF Record, next
  <2>5. worker'[d].did = (next \notin Acts)
    BY <1>4 DEF Record, WorkerRecord, next
  <2>6. Done(d, step) <=> Place(journal[d].step) >= Place(step)
    BY <1>1, <2>1, <2>2, PlaceIsANumber, Places DEF Done, StepNames
  <2>7. Done(d, step)' <=> Place(next) > Place(step)
    BY <2>4, <2>5 DEF Done
  <2> QED  BY <1>1, <2>2, <2>3, <2>6, <2>7, PlaceIsANumber
<1>5. CASE WriteJob(d)
  <2>1. journal[d].step = "none" /\ journal'[d].step = "created"
    BY <1>5, NoJournalFields DEF WriteJob, Launching, Jobs, Ordered
  <2> QED  BY <1>1, <2>1, Places, PlaceIsANumber DEF Done
<1>6. CASE Spawn(d)
  <2>1. journal[d].step = "created" /\ journal'[d].step = "created"
    BY <1>6 DEF Spawn, Launching, Jobs, Ordered
  <2> QED  BY <1>1, <2>1, Places, PlaceIsANumber DEF Done
<1>7. CASE Acted(d)
  <2>1. UNCHANGED journal /\ Acting(d, journal[d].step) /\ (worker[d].did => worker'[d].did)
    BY <1>7, <1>2 DEF Acted, Look, Sees, Recheck, BackUp, Install, ExchangeWith, FastForward,
                Restart, Acting, files
  <2> QED  BY <1>7, <2>1 DEF Done, Acting
<1> QED  BY <1>3, <1>4, <1>5, <1>6, <1>7, Progress

LEMMA FilesGrow ==
  ASSUME [Next]_vars
  PROVE  permit \subseteq permit' /\ ack \subseteq ack'
  BY DEF Next, vars, files, Start, Work, KillWorker, Manage, Check, StartJob, Snapshot,
         CloseIdlePeer, AssertIdle, Acquire, WriteJob, Spawn, Prepared, EnterGate, Shutdown,
         HandOff, LaunchFails, Apply, Record, Look, ClosePeer, Recheck, BackUp, Install,
         ExchangeWith, FastForward, Restart, ReleaseLock, Fail, Acknowledge, Exit, Kill, Commit

(* A process that closes its service goes down, and one that is down never *)
(* comes back: its successor is another process.                           *)
LEMMA OldProcess ==
  ASSUME Shape, [Next]_vars, NEW d \in Dashboards
  PROVE  /\ process[First(d)].state = "down" => process'[First(d)].state = "down"
         /\ process[First(d)].state \in {"closing", "down"}
              => process'[First(d)].state \in {"closing", "down"}
<1> USE DEF Shape
<1>1. CASE UNCHANGED process
  BY <1>1
<1>2. ASSUME NEW e \in Dashboards, Start(e) \/ Work(e) \/ EnterGate(e) \/ Shutdown(e)
                \/ LaunchFails(e)
      PROVE  process'[First(d)].state = process[First(d)].state
             \/ process[First(d)].state \notin {"closing", "down"}
  BY <1>2, OfADashboard
  DEF Start, Work, EnterGate, Shutdown, Idle, LaunchFails, ProcessRecord
<1>3. ASSUME NEW p \in Processes, Exit(p) \/ Kill(p)
      PROVE  process'[First(d)] = process[First(d)] \/ process'[First(d)].state = "down"
  BY <1>3, OfADashboard DEF Exit, Kill, ProcessRecord
<1>4. ASSUME NEW e \in Dashboards, NEW q \in Processes,
             process' = Closing(q), Idle(q) \/ (q = First(e) /\ Alive(q))
      PROVE  /\ process[First(d)].state = "down" => process'[First(d)].state = "down"
             /\ process[First(d)].state \in {"closing", "down"}
                  => process'[First(d)].state \in {"closing", "down"}
  BY <1>4, OfADashboard DEF Closing, Idle, Alive, ProcessRecord
<1>5. ASSUME NEW e \in Dashboards, CloseIdlePeer(e) \/ ClosePeer(e) \/ HandOff(e)
      PROVE  \E q \in Processes : process' = Closing(q) /\ (Idle(q) \/ (q = First(e) /\ Alive(q)))
  BY <1>5, OfADashboard DEF CloseIdlePeer, ClosePeer, HandOff, Launching, Serves, Peers
<1>6. ASSUME NEW e \in Dashboards, Restart(e) \/ Acknowledge(e)
      PROVE  UNCHANGED process[First(d)]
  BY <1>6, OfADashboard DEF Restart, Acknowledge, ProcessRecord
<1>7. ASSUME NEW e \in Dashboards,
             \/ KillWorker(e) \/ Check(e) \/ StartJob(e) \/ Snapshot(e) \/ AssertIdle(e)
             \/ Acquire(e) \/ WriteJob(e) \/ Spawn(e) \/ Prepared(e)
             \/ Record(e) \/ Look(e) \/ Recheck(e) \/ BackUp(e) \/ Install(e)
             \/ FastForward(e) \/ ReleaseLock(e) \/ Fail(e)
      PROVE  UNCHANGED process
  BY <1>7 DEF KillWorker, Check, StartJob, Snapshot, AssertIdle, Acquire, WriteJob, Spawn,
              Prepared, Record, Look, Recheck, BackUp, Install, ExchangeWith, FastForward,
              ReleaseLock, Fail
<1>8. Commit \/ UNCHANGED vars => UNCHANGED process
  BY DEF Commit, vars
<1> QED
  BY <1>1, <1>2, <1>3, <1>4, <1>5, <1>6, <1>7, <1>8 DEF Next, Manage, Apply

(* Only the job itself gives its lock up, and only when all is done or     *)
(* before it has crossed over.                                             *)
LEMMA LockKept ==
  ASSUME Shape, Jobs, [Next]_vars, NEW d \in Dashboards, lock = d, worker[d].crossing
  PROVE  lock' = d \/ journal[d].step = "acknowledged"
<1>1. worker[d].at # "none"
  BY DEF Jobs, Ordered
<1>2. ASSUME NEW e \in Dashboards, Acquire(e) \/ LaunchFails(e) \/ ReleaseLock(e) \/ Fail(e)
      PROVE  lock' = d \/ journal[d].step = "acknowledged"
  BY <1>1, <1>2, NoneAssumption
  DEF Acquire, LaunchFails, ReleaseLock, Fail, KeepsLock, Unlocked, Acting
<1>3. ASSUME NEW e \in Dashboards,
             \/ Start(e) \/ Work(e) \/ Acknowledge(e) \/ KillWorker(e)
             \/ Check(e) \/ StartJob(e) \/ Snapshot(e) \/ CloseIdlePeer(e) \/ AssertIdle(e)
             \/ WriteJob(e) \/ Spawn(e) \/ Prepared(e) \/ EnterGate(e) \/ Shutdown(e)
             \/ HandOff(e) \/ Record(e) \/ Look(e) \/ ClosePeer(e) \/ Recheck(e) \/ BackUp(e)
             \/ Install(e) \/ FastForward(e) \/ Restart(e)
      PROVE  UNCHANGED lock
  BY <1>3 DEF Start, Work, Acknowledge, KillWorker, Check, StartJob, Snapshot, CloseIdlePeer,
              AssertIdle, WriteJob, Spawn, Prepared, EnterGate, Shutdown, HandOff, Record, Look,
              ClosePeer, Recheck, BackUp, Install, ExchangeWith, FastForward, Restart, files
<1>4. ASSUME NEW p \in Processes, Exit(p) \/ Kill(p)
      PROVE  UNCHANGED lock
  BY <1>4 DEF Exit, Kill, files
<1>5. Commit \/ UNCHANGED vars => UNCHANGED lock
  BY DEF Commit, vars, files
<1> QED
  BY <1>2, <1>3, <1>4, <1>5 DEF Next, Manage, Apply

(***************************************************************************)
(* Every step keeps what the job has waited for.                           *)
(***************************************************************************)
LEMMA AwaitedStep ==
  ASSUME Shape, Jobs, [Next]_vars, NEW d \in Dashboards
  PROVE  Awaited(d)'
<1> USE DEF Shape
<1>0. Ordered(d) /\ Awaited(d) /\ {"prepared", "awaitingExit", "spawned"} \subseteq Acts
  BY DEF Jobs, Acts
<1>1. (Done(d, "prepared") => d \in permit)'
  <2>1. Acting(d, "prepared") /\ Acted(d) => d \in permit
    BY DEF Acting, Acted, Look, Sees, Recheck, BackUp, Install, ExchangeWith, FastForward,
           Restart
  <2> QED  BY <1>0, <2>1, Advance, FilesGrow DEF Awaited
<1>2. (d \in permit => process[First(d)].state \in {"closing", "down"})'
  <2>1. d \in permit' /\ d \notin permit => HandOff(d)
    <3>1. (\E e \in Dashboards : HandOff(e)) \/ UNCHANGED permit
      BY DEF Next, vars, files, Start, Work, KillWorker, Manage, Check, StartJob, Snapshot,
             CloseIdlePeer, AssertIdle, Acquire, WriteJob, Spawn, Prepared, EnterGate, Shutdown,
             LaunchFails, Apply, Record, Look, ClosePeer, Recheck, BackUp, Install,
             ExchangeWith, FastForward, Restart, ReleaseLock, Fail, Acknowledge, Exit, Kill,
             Commit
    <3>2. ASSUME NEW e \in Dashboards, HandOff(e) PROVE permit' = permit \cup {e}
      BY <3>2 DEF HandOff
    <3> QED  BY <3>1, <3>2
  <2>2. HandOff(d) => process'[First(d)].state = "closing"
    BY OfADashboard DEF HandOff, Closing, ProcessRecord
  <2> QED  BY <1>0, <2>1, <2>2, OldProcess DEF Awaited
<1>3. Look(d) => /\ worker'[d].did /\ UNCHANGED <<journal, process>>
                 /\ worker'[d].crossing = (worker[d].crossing \/ journal[d].step = "awaitingExit")
                 /\ journal[d].step = "awaitingExit" => ~Alive(First(d))
  BY DEF Look, Sees, Acting, WorkerRecord
<1>4. ~Look(d) => UNCHANGED worker[d].crossing
  <2>1. Record(d) \/ Spawn(d) \/ WriteJob(d) => UNCHANGED worker[d].crossing
    BY DEF Record, Spawn, WriteJob, WorkerRecord
  <2>2. Recheck(d) => UNCHANGED worker[d].crossing
    BY DidStep DEF Recheck, WorkerRecord
  <2>3. BackUp(d) \/ Install(d) \/ FastForward(d) \/ Restart(d) => UNCHANGED worker[d].crossing
    BY DidStep DEF BackUp, Install, ExchangeWith, FastForward, Restart
  <2> QED  BY <2>1, <2>2, <2>3, Progress DEF Still, Acted
<1>5. Acting(d, "awaitingExit") /\ Acted(d) => Look(d)
  BY DEF Acting, Acted, Recheck, BackUp, Install, ExchangeWith, FastForward, Restart
<1>6. (worker[d].crossing <=> Done(d, "awaitingExit"))'
  <2>1. CASE Look(d) /\ journal[d].step = "awaitingExit"
    BY <1>3, <2>1 DEF Done
  <2>2. CASE ~Look(d) \/ journal[d].step # "awaitingExit"
    BY <1>0, <1>3, <1>4, <1>5, <2>2, Advance DEF Awaited, Acting
  <2> QED  BY <2>1, <2>2
<1>7. (worker[d].crossing => process[First(d)].state = "down")'
  <2>1. CASE worker[d].crossing
    BY <1>0, <2>1, OldProcess DEF Awaited
  <2>2. CASE Look(d) /\ journal[d].step = "awaitingExit"
    <3>1. d \in permit
      BY <1>0, <2>2, DoneBefore, Places DEF Awaited, StepNames
    <3> QED  BY <1>0, <1>3, <2>2, <3>1 DEF Awaited, Alive
  <2> QED  BY <1>3, <1>4, <2>1, <2>2
<1>8. (Done(d, "spawned") => d \in ack)'
  <2>1. Acting(d, "spawned") /\ Acted(d) => d \in ack
    BY DEF Acting, Acted, Look, Sees, Recheck, BackUp, Install, ExchangeWith, FastForward,
           Restart
  <2> QED  BY <1>0, <2>1, Advance, FilesGrow DEF Awaited
<1> QED  BY <1>1, <1>2, <1>6, <1>7, <1>8 DEF Awaited

(***************************************************************************)
(* Every step keeps the lock of a job that changes the clone, and the      *)
(* journal true to it.                                                     *)
(***************************************************************************)
(* Whoever changes the clone is alone with it: the jobs that have crossed  *)
(* over before it are done, and then there would be nothing to do.         *)
LEMMA Alone ==
  ASSUME Shape, Jobs, Clone, NEW d \in Dashboards, NEW e \in Dashboards, d # e,
         worker[e].at = "running", disk.head # "new"
  PROVE  ~Done(d, "awaitingExit")
<1>1. lock = e
  BY DEF Jobs, Ordered
<1>2. journal[d].step = "acknowledged" => Done(d, "fastForwardIntent")
  BY Places DEF Done
<1> QED  BY <1>1, <1>2 DEF Clone, Keeps, Tells

LEMMA KeepsStep ==
  ASSUME Shape, Jobs, Clone, [Next]_vars, NEW d \in Dashboards
  PROVE  Keeps(d)'
<1>0. Ordered(d) /\ Awaited(d) /\ Keeps(d) /\ "awaitingExit" \in Acts
  BY DEF Jobs, Clone, Acts
<1>1. journal[d].step = "acknowledged" => journal'[d].step = "acknowledged"
  BY <1>0, Progress, NoJournalFields
  DEF Ordered, Still, Record, WriteJob, Spawn, Launching, Acted, Look, Recheck, BackUp, Install,
      ExchangeWith, FastForward, Restart
<1>2. CASE Done(d, "awaitingExit")
  BY <1>0, <1>1, <1>2, LockKept DEF Keeps, Awaited
<1>3. CASE ~Done(d, "awaitingExit") /\ Done(d, "awaitingExit")'
  <2>1. Acting(d, "awaitingExit") /\ Acted(d)
    BY <1>0, <1>3, Advance
  <2>2. Look(d)
    BY <2>1 DEF Acting, Acted, Recheck, BackUp, Install, ExchangeWith, FastForward, Restart
  <2>3. lock = d /\ UNCHANGED lock
    BY <1>0, <2>1, <2>2 DEF Ordered, Acting, Look, files
  <2> QED  BY <2>3 DEF Keeps
<1> QED  BY <1>2, <1>3 DEF Keeps

(* The steps at which a worker changes the clone, or makes sure of it.     *)
LEMMA ChangesAt ==
  ASSUME Shape, Jobs, NEW d \in Dashboards
  PROVE  /\ Recheck(d) => Acting(d, "oldExited")
         /\ BackUp(d) => Acting(d, "dependenciesBackupIntent")
         /\ Install(d) => Acting(d, "dependenciesInstallIntent")
         /\ FastForward(d) => Acting(d, "fastForwardIntent")
  BY DEF Recheck, BackUp, Install, ExchangeWith, FastForward

(* The journal of a job that acts on a step, in terms of the others.       *)
LEMMA ActingDone ==
  ASSUME Shape, NEW d \in Dashboards, NEW s \in StepNames, NEW t \in StepNames, Acting(d, s)
  PROVE  Done(d, t) <=> Place(t) < Place(s)
  BY PlaceIsANumber DEF Acting, Done

LEMMA DiskStep ==
  ASSUME Shape, [Next]_vars
  PROVE  \/ UNCHANGED disk \/ Commit
         \/ \E d \in Dashboards : BackUp(d) \/ Install(d) \/ FastForward(d)
  BY DEF Next, vars, files, Start, Work, KillWorker, Manage, Check, StartJob, Snapshot,
         CloseIdlePeer, AssertIdle, Acquire, WriteJob, Spawn, Prepared, EnterGate, Shutdown,
         HandOff, LaunchFails, Apply, Record, Look, ClosePeer, Recheck, Restart, ReleaseLock,
         Fail, Acknowledge, Exit, Kill

Changing == {"oldExited", "dependenciesBackupIntent", "dependenciesInstallIntent",
             "fastForwardIntent"}

(* Before a job is sure of the clone, nobody has changed it.               *)
LEMMA Untouched ==
  ASSUME Shape, Jobs, Clone, NEW d \in Dashboards, Acting(d, "oldExited"),
         disk.head # "new"
  PROVE  disk.modules = "old"
<1>1. ~Done(d, "dependenciesBackupIntent")
  BY ActingDone, Places DEF StepNames
<1>2. ASSUME NEW e \in Dashboards, Done(e, "dependenciesBackupIntent") PROVE FALSE
  <2>1. Done(e, "awaitingExit")
    BY <1>2, DoneIsReached, DoneBefore, Places DEF StepNames
  <2> QED  BY <1>1, <1>2, <2>1, Alone DEF Acting
<1> QED  BY <1>2 DEF Clone, Told

(* The job that changes the clone itself.                                  *)
LEMMA ChangerTells ==
  ASSUME Shape, Jobs, Clone, [Next]_vars, NEW d \in Dashboards,
         BackUp(d) \/ Install(d) \/ FastForward(d)
  PROVE  Tells(d)' /\ disk.head # "new"
<1> USE DEF Shape
<1>0. Tells(d) /\ Changing \subseteq Acts /\ Changing \subseteq StepNames
  BY DEF Clone, Changing, Acts, StepNames
<1>1. UNCHANGED journal /\ worker'[d].did
  BY DidStep DEF BackUp, Install, ExchangeWith, FastForward
<1>2. \A t \in StepNames : Done(d, t)' <=> Place(t) <= Place(journal[d].step)
  <2>1. journal[d].step \in StepNames
    BY <1>0, ChangesAt DEF Acting, Changing
  <2>2. \A s, t \in StepNames : Place(s) = Place(t) => s = t
    BY Places DEF StepNames
  <2> QED  BY <1>1, <2>1, <2>2, PlaceIsANumber DEF Done
<1>3. disk.head # "new"
  <2>1. Done(d, "oldExited") /\ ~Done(d, "fastForwardIntent")
    BY <1>0, ActingDone, ChangesAt, Places DEF Changing
  <2> QED  BY <1>0, <2>1 DEF Tells
<1>4. CASE BackUp(d)
  <2>1. journal[d].step = "dependenciesBackupIntent" /\ disk' = [disk EXCEPT !.modules = "none"]
    BY <1>4 DEF BackUp, ExchangeWith, Acting
  <2> QED  BY <1>0, <1>2, <1>3, <2>1, Places DEF Tells, Changing
<1>5. CASE Install(d)
  <2>1. journal[d].step = "dependenciesInstallIntent" /\ disk' = [disk EXCEPT !.modules = "new"]
    BY <1>5 DEF Install, ExchangeWith, Acting
  <2> QED  BY <1>0, <1>2, <1>3, <2>1, Places DEF Tells, Changing
<1>6. CASE FastForward(d)
  <2>1. journal[d].step = "fastForwardIntent" /\ disk' = [disk EXCEPT !.head = "new"]
    BY <1>6 DEF FastForward, Acting
  <2>2. disk.modules = "new"
    BY <1>0, <1>6, ActingDone, ChangesAt, Places DEF Tells, Changing
  <2> QED  BY <1>0, <1>2, <2>1, <2>2, <1>3, Places DEF Tells, Changing
<1> QED  BY <1>3, <1>4, <1>5, <1>6

LEMMA TellsStep ==
  ASSUME Shape, Jobs, Clone, [Next]_vars, NEW d \in Dashboards
  PROVE  Tells(d)'
<1> USE DEF Shape
<1>0. Ordered(d) /\ Tells(d) /\ Changing \subseteq Acts /\ Changing \subseteq StepNames
  BY DEF Jobs, Clone, Changing, Acts, StepNames
<1>1. CASE BackUp(d) \/ Install(d) \/ FastForward(d)
  BY <1>1, ChangerTells
<1>2. ASSUME NEW e \in Dashboards, e # d, BackUp(e) \/ Install(e) \/ FastForward(e)
      PROVE  Tells(d)'
  <2>1. ~Done(d, "awaitingExit")
    BY <1>2, Alone, ChangerTells, ChangesAt DEF Acting
  <2>2. \A t \in Changing : ~Done(d, t)
    BY <1>0, <2>1, DoneIsReached, DoneBefore, Places DEF Changing, StepNames
  <2>3. UNCHANGED journal /\ UNCHANGED worker[d]
    BY <1>2, DidStep DEF BackUp, Install, ExchangeWith, FastForward
  <2> QED  BY <2>2, <2>3 DEF Tells, Done, Changing
<1>3. CASE ~\E e \in Dashboards : BackUp(e) \/ Install(e) \/ FastForward(e)
  <2>1. UNCHANGED disk \/ (disk.head = "old" /\ disk' = [disk EXCEPT !.head = "other"])
    BY <1>3, DiskStep DEF Commit
  <2>2. disk'.modules = disk.modules /\ (disk'.head = "new" <=> disk.head = "new")
    BY <2>1
  <2>3. \A t \in Changing \ {"oldExited"} : Done(d, t)' <=> Done(d, t)
    <3>1. ASSUME NEW t \in Changing \ {"oldExited"} PROVE ~(Acting(d, t) /\ Acted(d))
      BY <1>3 DEF Acting, Acted, Look, Sees, Recheck, Restart, Changing
    <3> QED  BY <1>0, <3>1, Advance
  <2>4. CASE Done(d, "oldExited")' <=> Done(d, "oldExited")
    BY <1>0, <2>2, <2>3, <2>4 DEF Tells, Changing
  <2>5. CASE ~Done(d, "oldExited") /\ Done(d, "oldExited")'
    <3>1. Acting(d, "oldExited") /\ Acted(d)
      BY <1>0, <2>5, Advance DEF Changing
    <3>2. Recheck(d) /\ UNCHANGED journal /\ worker'[d].did
      BY <1>3, <2>5, <3>1
      DEF Acting, Acted, Look, Sees, Recheck, Restart, Done
    <3>3. PlanHolds(d)
      BY <2>5, <3>1, <3>2 DEF Recheck, Acting, WorkerRecord
    <3>4. disk.head = "old"
      BY <1>0, <3>1, <3>3, NoJournalFields DEF PlanHolds, Ordered, Acting
    <3>5. disk.modules = "old"
      BY <3>1, <3>4, Untouched
    <3>6. \A t \in Changing \ {"oldExited"} : ~Done(d, t)
      BY <1>0, <3>1, ActingDone, Places DEF Changing
    <3> QED  BY <2>2, <2>3, <3>4, <3>5, <3>6 DEF Tells, Changing
  <2> QED  BY <1>0, <2>4, <2>5, Advance DEF Changing
<1> QED  BY <1>1, <1>2, <1>3

LEMMA ToldStep ==
  ASSUME Shape, Jobs, Clone, [Next]_vars
  PROVE  Told'
<1> USE DEF Shape
<1>0. {"dependenciesBackupIntent", "fastForwardIntent"} \subseteq Acts \cap StepNames
  BY DEF Acts, StepNames
<1>1. \A d \in Dashboards : /\ Done(d, "dependenciesBackupIntent")
                                 => Done(d, "dependenciesBackupIntent")'
                            /\ Done(d, "fastForwardIntent") => Done(d, "fastForwardIntent")'
  BY <1>0, Advance
<1>2. ASSUME NEW d \in Dashboards, BackUp(d) \/ Install(d)
      PROVE  Done(d, "dependenciesBackupIntent")' /\ UNCHANGED disk.head
  <2>1. CASE BackUp(d)
    <3>1. journal'[d].step = "dependenciesBackupIntent" /\ worker'[d].did
      BY <2>1, DidStep DEF BackUp, ExchangeWith, Acting
    <3> QED  BY <2>1, <3>1 DEF Done, BackUp, ExchangeWith
  <2>2. CASE Install(d)
    <3>1. Done(d, "dependenciesBackupIntent")
      BY <2>2, ChangesAt, ActingDone, Places, <1>0 DEF StepNames
    <3> QED  BY <1>1, <2>2, <3>1 DEF Install, ExchangeWith
  <2> QED  BY <1>2, <2>1, <2>2
<1>3. ASSUME NEW d \in Dashboards, FastForward(d)
      PROVE  Done(d, "fastForwardIntent")' /\ UNCHANGED disk.modules
  <2>1. journal'[d].step = "fastForwardIntent" /\ worker'[d].did
    BY <1>3, DidStep DEF FastForward, Acting
  <2> QED  BY <1>3, <2>1 DEF Done, FastForward
<1>4. Commit => UNCHANGED disk.modules /\ disk'.head # "new"
  BY DEF Commit
<1> QED  BY <1>1, <1>2, <1>3, <1>4, DiskStep DEF Told, Clone

LEMMA InvStep == Inv /\ [Next]_vars => Inv'
<1> SUFFICES ASSUME Inv, [Next]_vars PROVE Inv'
  OBVIOUS
<1>1. Shape /\ Jobs /\ Clone
  BY DEF Inv
<1>2. Shape' /\ Told'
  BY <1>1, ShapeStep, ToldStep
<1>3. \A d \in Dashboards : (Ordered(d) /\ Awaited(d) /\ Keeps(d) /\ Tells(d))'
  BY <1>1, OrderedStep, AwaitedStep, KeepsStep, TellsStep
<1> QED  BY <1>2, <1>3 DEF Inv, Jobs, Clone

THEOREM Invariance == Spec => []Inv
  BY InitInv, InvStep, PTL DEF Spec

(***************************************************************************)
(* The theorems.                                                           *)
(***************************************************************************)
(* What has been reached has been acted on up to there.                    *)
LEMMA ReachedDone ==
  ASSUME Shape, NEW d \in Dashboards, NEW s \in StepNames, NEW t \in StepNames,
         Place(s) < Place(t), Reached(d, t)
  PROVE  Done(d, s)
  BY DoneBefore DEF Reached

(* The type invariant.                                                     *)
THEOREM TypeCorrect == Spec => []TypeOK
<1>1. Inv => TypeOK
  <2> SUFFICES ASSUME Inv PROVE TypeOK
    OBVIOUS
  <2>1. \A p \in Processes : process[p] \in ProcessRecord
    BY DEF Inv, Shape
  <2>2. ASSUME NEW d \in Dashboards
        PROVE  /\ manager[d] \in ManagerRecord /\ worker[d] \in WorkerRecord
               /\ worker[d].at = "running" => journal[d].phase = PhaseOf(journal[d].step)
               /\ worker[d].crossing => Reached(d, "awaitingExit")
    <3>1. worker[d].crossing => Done(d, "awaitingExit")
      BY DEF Inv, Jobs, Awaited
    <3> QED  BY <3>1, DoneIsReached DEF Inv, Shape, Jobs, Ordered, Reached, StepNames
  <2> QED
    BY <2>1, <2>2
    DEF Inv, Shape, TypeOK, ProcessRecord, ManagerRecord, WorkerRecord, ManagerPhases, Versions
<1> QED  BY <1>1, Invariance, PTL

(* Whoever reads the journals after all processes were killed knows what   *)
(* has become of the clone, for any number of jobs and commits.            *)
THEOREM JournalsCoverDisk == Spec => []JournalCoversDisk
<1>1. Inv => JournalCoversDisk
  <2> SUFFICES ASSUME Inv PROVE JournalCoversDisk
    OBVIOUS
  <2>0. Shape /\ Told /\ \A d \in Dashboards : Tells(d)
    BY DEF Inv, Clone
  <2>1. \A d \in Dashboards, s \in StepNames : Done(d, s) => Reached(d, s)
    BY <2>0, DoneIsReached DEF Reached
  <2>2. ASSUME NEW d \in Dashboards
        PROVE  /\ Reached(d, "dependenciesBackedUp") => Done(d, "dependenciesBackupIntent")
               /\ Reached(d, "dependenciesInstalled") => Done(d, "dependenciesInstallIntent")
               /\ Reached(d, "fastForwarded") => Done(d, "fastForwardIntent")
    BY <2>0, ReachedDone, Places DEF StepNames
  <2>3. \A d \in Dashboards : Done(d, "dependenciesInstallIntent")
                                => Done(d, "dependenciesBackupIntent") /\ Done(d, "oldExited")
    BY <2>0, DoneIsReached, DoneBefore, Places DEF StepNames
  <2> QED  BY <2>0, <2>1, <2>2, <2>3 DEF JournalCoversDisk, Told, Tells, StepNames
<1> QED  BY <1>1, Invariance, PTL

(* A clone that is half way is never free for another update.              *)
THEOREM HalfWayIsLocked == Spec => []HalfAppliedIsLocked
<1>1. Inv => HalfAppliedIsLocked
  <2> SUFFICES ASSUME Inv, Half
               PROVE  lock # None /\ Reached(lock, "dependenciesBackupIntent")
    BY DEF HalfAppliedIsLocked
  <2>0. Shape /\ Told /\ \A d \in Dashboards : Tells(d) /\ Keeps(d)
    BY DEF Inv, Clone
  <2>1. ASSUME NEW d \in Dashboards, Done(d, "fastForwardIntent")
        PROVE  disk.modules = "new" /\ disk.head = "new"
    <3>1. Done(d, "dependenciesInstallIntent")
      BY <2>0, <2>1, DoneIsReached, DoneBefore, Places DEF StepNames
    <3> QED  BY <2>0, <2>1, <3>1 DEF Tells
  <2>2. disk.modules # "old" /\ disk.head # "new"
    BY <2>0, <2>1 DEF Half, Told
  <2>3. PICK d \in Dashboards : Done(d, "dependenciesBackupIntent")
    BY <2>0, <2>2 DEF Told
  <2>4. Done(d, "awaitingExit") /\ Reached(d, "dependenciesBackupIntent")
    BY <2>0, <2>3, DoneIsReached, DoneBefore, Places DEF StepNames, Reached
  <2>5. journal[d].step # "acknowledged"
    BY <2>1, <2>2, Places DEF Done
  <2> QED  BY <2>0, <2>4, <2>5, NoneAssumption DEF Keeps
<1> QED  BY <1>1, Invariance, PTL

(* The clone is only touched on a permit whose giver is gone, and success  *)
(* is only said of the whole.                                              *)
THEOREM SuccessIsWhole == Spec => []SucceedsWhole
<1>1. Inv => SucceedsWhole
  <2> SUFFICES ASSUME Inv, NEW d \in Dashboards
               PROVE  /\ Reached(d, "dependenciesBackupIntent") => d \in permit /\ ~Alive(First(d))
                      /\ journal[d].phase = "succeeded" =>
                           disk = [head |-> "new", modules |-> "new"] /\ d \in ack
    BY DEF SucceedsWhole
  <2>0. Shape /\ Ordered(d) /\ Awaited(d) /\ Tells(d)
    BY DEF Inv, Jobs, Clone
  <2>1. Reached(d, "dependenciesBackupIntent") => Done(d, "prepared") /\ Done(d, "awaitingExit")
    BY <2>0, ReachedDone, Places DEF StepNames
  <2>2. journal[d].phase = "succeeded" => /\ Done(d, "dependenciesInstallIntent")
                                          /\ Done(d, "fastForwardIntent") /\ Done(d, "spawned")
    BY <2>0, Places DEF Ordered, Done
  <2>3. disk.head = "new" /\ disk.modules = "new" => disk = [head |-> "new", modules |-> "new"]
    BY <2>0 DEF Shape
  <2> QED  BY <2>0, <2>1, <2>2, <2>3 DEF Awaited, Tells, Alive
<1> QED  BY <1>1, Invariance, PTL
=================================================================================
