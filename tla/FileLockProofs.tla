---------------------------- MODULE FileLockProofs ----------------------------
(***************************************************************************)
(* What FileLock guarantees for every set of processes, every bound and    *)
(* every combination of faults.                                            *)
(***************************************************************************)
EXTENDS FileLock, TLAPS

(***************************************************************************)
(* The inductive invariant.                                                *)
(***************************************************************************)
Inside(p) == pc[p] \in {"open", "write", "read", "commit", "release", "unlink"}

(* Who is past the directory's making has the lock, and with a record in   *)
(* it before it reads the file; what it has read is still there.           *)
Held(p) ==
  /\ Inside(p) => lock.maker = p
  /\ pc[p] = "open" => lock.opener = Nobody
  /\ Inside(p) /\ pc[p] # "open" => lock.opener = p
  /\ Critical(p) => lock.owner = p
  /\ pc[p] = "commit" => seen[p] = value

Orderly == value = committed /\ \A p \in Procs : Held(p)

Inv == TypeOK /\ (usurped \/ Orderly)

(***************************************************************************)
(* Facts about a single step.                                              *)
(***************************************************************************)
LEMMA GotoType ==
  ASSUME NEW p \in Procs, NEW place \in Places, Goto(p, place),
         pc \in [Procs -> Places]
  PROVE  /\ pc' \in [Procs -> Places]
         /\ pc'[p] = place
         /\ \A q \in Procs \ {p} : pc'[q] = pc[q]
  BY DEF Goto

LEMMA LockUpdates ==
  ASSUME lock \in Lock \cup {NoLock}, lock # NoLock, NEW p \in Procs
  PROVE  /\ lock \in Lock
         /\ [lock EXCEPT !.opener = p, !.old = FALSE] \in Lock
         /\ [lock EXCEPT !.owner = p] \in Lock
         /\ [lock EXCEPT !.old = TRUE] \in Lock
  BY DEF Lock

LEMMA NoLockFields ==
  /\ NoLock.maker = Nobody /\ NoLock.opener = Nobody /\ NoLock.owner = Nobody
  /\ NoLock.old = FALSE
  BY DEF NoLock

LEMMA MadeLock ==
  ASSUME NEW p \in Procs
  PROVE  /\ [NoLock EXCEPT !.maker = p] \in Lock
         /\ [NoLock EXCEPT !.maker = p].maker = p
         /\ [NoLock EXCEPT !.maker = p].opener = Nobody
  BY DEF NoLock, Lock

LEMMA Bumped ==
  ASSUME NEW f \in Values, NEW p \in Procs
  PROVE  [f EXCEPT ![p] = @ + 1] \in Values
  BY DEF Values

LEMMA InitInv ==
  ASSUME Init
  PROVE  Inv
<1>1. [p \in Procs |-> 0] \in Values
  BY DEF Values
<1>2. TypeOK
  BY <1>1 DEF Init, TypeOK, Places
<1>3. Orderly
  BY DEF Init, Orderly, Held, Inside, Critical
<1> QED  BY <1>2, <1>3 DEF Inv

(***************************************************************************)
(* Every step preserves the type.                                          *)
(***************************************************************************)
LEMMA TypeStep ==
  ASSUME TypeOK, [Next]_vars
  PROVE  TypeOK'
<1>1. CASE UNCHANGED vars
  BY <1>1 DEF vars, TypeOK
<1>2. CASE Age
  BY <1>2, LockUpdates DEF Age, data, TypeOK, Lock
<1>3. ASSUME NEW p \in Procs, Request(p) \/ Exists(p) \/ AcquireFails(p) \/ Stat(p)
                \/ Inspect(p) \/ Retry(p) \/ OperationFails(p) \/ Release(p)
                \/ ReleaseFails(p) \/ Crash(p)
      PROVE  TypeOK'
  <2>1. PICK place \in Places : Goto(p, place)
    BY <1>3 DEF Request, Exists, AcquireFails, Stat, Inspect, Retry, OperationFails,
                Release, ReleaseFails, Crash, Places
  <2>2. UNCHANGED <<lock, data, usurped>>
    BY <1>3 DEF Request, Exists, AcquireFails, Stat, Inspect, Retry, OperationFails,
                Release, ReleaseFails, Crash
  <2> QED  BY <2>1, <2>2, GotoType DEF TypeOK, data
<1>4. ASSUME NEW p \in Procs, MakeDirectory(p) PROVE TypeOK'
  BY <1>4, GotoType, MadeLock DEF MakeDirectory, TypeOK, data, Places
<1>5. ASSUME NEW p \in Procs, OpenOwner(p) PROVE TypeOK'
  BY <1>5, GotoType, LockUpdates DEF OpenOwner, TypeOK, data, Places
<1>6. ASSUME NEW p \in Procs, WriteOwner(p) PROVE TypeOK'
  <2>1. lock.opener = p => lock # NoLock
    BY NoLockFields, NobodyAssumption
  <2>2. lock' \in Lock \cup {NoLock}
    BY <1>6, <2>1, LockUpdates DEF WriteOwner, TypeOK
  <2> QED  BY <1>6, <2>2, GotoType DEF WriteOwner, TypeOK, data, Places
<1>7. ASSUME NEW p \in Procs, Reclaim(p) PROVE TypeOK'
  <2>1. PICK place \in Places : Goto(p, place)
    BY <1>7 DEF Reclaim, Places
  <2>2. lock' \in Lock \cup {NoLock} /\ usurped' \in BOOLEAN /\ UNCHANGED data
    BY <1>7 DEF Reclaim, TypeOK
  <2> QED  BY <2>1, <2>2, GotoType DEF TypeOK, data
<1>8. ASSUME NEW p \in Procs, Unlink(p) PROVE TypeOK'
  BY <1>8, GotoType DEF Unlink, TypeOK, data, Places
<1>9. ASSUME NEW p \in Procs, Read(p) PROVE TypeOK'
  BY <1>9, GotoType DEF Read, TypeOK, Places
<1>10. ASSUME NEW p \in Procs, Commit(p) PROVE TypeOK'
  <2>1. value' \in Values /\ committed' \in Values
    BY <1>10, Bumped DEF Commit, TypeOK
  <2> QED  BY <1>10, <2>1, GotoType DEF Commit, TypeOK, Places
<1> QED  BY <1>1, <1>2, <1>3, <1>4, <1>5, <1>6, <1>7, <1>8, <1>9, <1>10 DEF Next

(***************************************************************************)
(* Every step of an orderly store leaves it orderly or usurps a lock.      *)
(***************************************************************************)
(* Two processes are never inside at once.                                 *)
LEMMA Alone ==
  ASSUME Orderly, NEW p \in Procs, NEW q \in Procs, Inside(p), Inside(q)
  PROVE  p = q
  BY DEF Orderly, Held

(* A process that moves outside disturbs nobody.                           *)
LEMMA LeavesQuietly ==
  ASSUME TypeOK, Orderly, NEW p \in Procs, NEW place \in Places, Goto(p, place),
         place \notin {"open", "write", "read", "commit", "release", "unlink"},
         UNCHANGED <<lock, data>>
  PROVE  Orderly'
  BY GotoType DEF TypeOK, Orderly, Held, Inside, Critical, data

LEMMA OrderlyStep ==
  ASSUME TypeOK, ~usurped, Orderly, [Next]_vars
  PROVE  usurped' \/ Orderly'
<1>1. CASE UNCHANGED vars
  BY <1>1 DEF vars, Orderly, Held, Inside, Critical
<1>2. CASE Age
  <2>1. /\ lock'.maker = lock.maker /\ lock'.opener = lock.opener
        /\ lock'.owner = lock.owner
    BY <1>2 DEF Age, TypeOK, Lock
  <2> QED  BY <1>2, <2>1 DEF Age, Orderly, Held, Inside, Critical, data
<1>3. ASSUME NEW p \in Procs, Request(p) \/ Exists(p) \/ AcquireFails(p) \/ Stat(p)
                \/ Inspect(p) \/ Retry(p) \/ ReleaseFails(p) \/ Crash(p)
      PROVE  Orderly'
  <2>1. PICK place \in Places :
          /\ Goto(p, place)
          /\ place \notin {"open", "write", "read", "commit", "release", "unlink"}
    BY <1>3 DEF Request, Exists, AcquireFails, Stat, Inspect, Retry, ReleaseFails,
                Crash, Places
  <2>2. UNCHANGED <<lock, data>>
    BY <1>3 DEF Request, Exists, AcquireFails, Stat, Inspect, Retry, ReleaseFails, Crash
  <2> QED  BY <2>1, <2>2, LeavesQuietly
<1>4. ASSUME NEW p \in Procs, MakeDirectory(p) PROVE Orderly'
  <2>1. \A q \in Procs : ~Inside(q)
    BY <1>4, NoLockFields, NobodyAssumption DEF MakeDirectory, Orderly, Held
  <2> QED
    BY <1>4, <2>1, GotoType, MadeLock
    DEF MakeDirectory, TypeOK, Orderly, Held, Inside, Critical, data, Places
<1>5. ASSUME NEW p \in Procs, OpenOwner(p) PROVE Orderly'
  <2>1. Inside(p) /\ \A q \in Procs \ {p} : ~Inside(q)
    BY <1>5, Alone DEF OpenOwner, Inside
  <2>2. lock'.maker = lock.maker /\ lock'.opener = p
    BY <1>5 DEF OpenOwner, TypeOK, Lock
  <2> QED
    BY <1>5, <2>1, <2>2, GotoType
    DEF OpenOwner, TypeOK, Orderly, Held, Inside, Critical, data, Places
<1>6. ASSUME NEW p \in Procs, WriteOwner(p) PROVE Orderly'
  <2>1. Inside(p) /\ \A q \in Procs \ {p} : ~Inside(q)
    BY <1>6, Alone DEF WriteOwner, Inside
  <2>2. lock.opener = p /\ lock # NoLock
    BY <1>6, <2>1, NoLockFields, NobodyAssumption DEF WriteOwner, Orderly, Held
  <2>3. lock'.maker = lock.maker /\ lock'.opener = p /\ lock'.owner = p
    BY <1>6, <2>2 DEF WriteOwner, TypeOK, Lock
  <2> QED
    BY <1>6, <2>1, <2>3, GotoType
    DEF WriteOwner, TypeOK, Orderly, Held, Inside, Critical, data, Places
<1>7. ASSUME NEW p \in Procs, Reclaim(p) PROVE usurped' \/ Orderly'
  <2>1. CASE lock = NoLock
    BY <1>7, <2>1, LeavesQuietly DEF Reclaim, Places, data
  <2>2. CASE lock # NoLock /\ \E q \in Procs : Uses(q)
    BY <1>7, <2>2 DEF Reclaim
  <2>3. CASE lock # NoLock /\ ~\E q \in Procs : Uses(q)
    <3>1. \A q \in Procs : ~Inside(q)
      BY <2>3 DEF Orderly, Held, Inside, Uses, Critical
    <3>2. Goto(p, "try") /\ UNCHANGED data
      BY <1>7, <2>3 DEF Reclaim
    <3> QED
      BY <3>1, <3>2, GotoType DEF TypeOK, Orderly, Held, Inside, Critical, data, Places
  <2> QED  BY <2>1, <2>2, <2>3
<1>8. ASSUME NEW p \in Procs, Unlink(p) PROVE Orderly'
  <2>1. \A q \in Procs \ {p} : ~Inside(q)
    BY <1>8, Alone DEF Unlink, Inside
  <2> QED
    BY <1>8, <2>1, GotoType
    DEF Unlink, TypeOK, Orderly, Held, Inside, Critical, data, Places
<1>9. ASSUME NEW p \in Procs, Read(p) \/ OperationFails(p) \/ Release(p) PROVE Orderly'
  <2>1. Inside(p) /\ Critical(p) /\ \A q \in Procs \ {p} : ~Inside(q)
    BY <1>9, Alone DEF Read, OperationFails, Release, Inside, Critical
  <2>2. PICK place \in {"commit", "release", "unlink", "idle"} : Goto(p, place)
    BY <1>9 DEF Read, OperationFails, Release
  <2>3. UNCHANGED <<lock, value, committed>> /\ (pc'[p] = "commit" => seen'[p] = value)
    BY <1>9, <2>2, GotoType DEF Read, OperationFails, Release, data, TypeOK, Places
  <2> QED
    BY <2>1, <2>2, <2>3, GotoType DEF TypeOK, Orderly, Held, Inside, Critical, Places
<1>10. ASSUME NEW p \in Procs, Commit(p) PROVE Orderly'
  <2>1. Inside(p) /\ Critical(p) /\ \A q \in Procs \ {p} : ~Inside(q)
    BY <1>10, Alone DEF Commit, Inside, Critical
  <2>2. seen[p] = value /\ value' = committed'
    BY <1>10 DEF Commit, Orderly, Held
  <2> QED
    BY <1>10, <2>1, <2>2, GotoType
    DEF Commit, TypeOK, Orderly, Held, Inside, Critical, Places
<1> QED  BY <1>1, <1>2, <1>3, <1>4, <1>5, <1>6, <1>7, <1>8, <1>9, <1>10 DEF Next

(* A usurped lock is not forgotten.                                        *)
LEMMA UsurpedStays ==
  ASSUME usurped, [Next]_vars
  PROVE  usurped'
  BY DEF Next, vars, Age, Request, MakeDirectory, Exists, OpenOwner, WriteOwner,
         AcquireFails, Stat, Inspect, Reclaim, Retry, Read, Commit, OperationFails,
         Release, Unlink, ReleaseFails, Crash

LEMMA InvStep == Inv /\ [Next]_vars => Inv'
  BY TypeStep, OrderlyStep, UsurpedStays DEF Inv

THEOREM Invariance == Spec => []Inv
  BY InitInv, InvStep, PTL DEF Spec

(***************************************************************************)
(* The theorems.                                                           *)
(***************************************************************************)
(* The type invariant of the lock and of the file.                         *)
THEOREM TypeCorrect == Spec => []TypeOK
<1>1. Inv => TypeOK
  BY DEF Inv
<1> QED  BY <1>1, Invariance, PTL

(* While no live process has had its lock moved away, the operations of    *)
(* two processes on one file never overlap, whatever crashes or fails.     *)
THEOREM Exclusive == Spec => []ExclusiveUnlessUsurped
<1>1. Inv => ExclusiveUnlessUsurped
  BY Alone DEF Inv, ExclusiveUnlessUsurped, Working, Inside
<1> QED  BY <1>1, Invariance, PTL

(* Nor does the file then lose a mutation or show one that never ended.    *)
THEOREM NothingLost == Spec => []NoLostUpdate
<1>1. Inv => NoLostUpdate
  BY DEF Inv, NoLostUpdate, Orderly
<1> QED  BY <1>1, Invariance, PTL

(***************************************************************************)
(* The refinement: a commit is the abstract mutation, a reclaim that takes *)
(* a lock from its user breaks the store, and the rest is invisible.       *)
(***************************************************************************)
LEMMA CommitIsMutation ==
  ASSUME Inv, NEW p \in Procs, Commit(p)
  PROVE  Store!Next
<1>1. UNCHANGED usurped
  BY DEF Commit
<1>2. CASE usurped
  BY <1>1, <1>2 DEF Store!Next
<1>3. CASE ~usurped
  <2>1. seen[p] = value
    BY <1>3 DEF Inv, Orderly, Held, Commit
  <2> QED  BY <1>1, <1>3, <2>1 DEF Commit, Store!Next, Store!Mutate
<1> QED  BY <1>2, <1>3

LEMMA StoreStep ==
  ASSUME Inv, [Next]_vars
  PROVE  [Store!Next]_<<value, usurped>>
<1>1. ASSUME NEW p \in Procs, Commit(p) PROVE Store!Next
  BY <1>1, CommitIsMutation
<1>2. ASSUME NEW p \in Procs, Reclaim(p)
      PROVE  Store!Next \/ UNCHANGED <<value, usurped>>
  <2>1. UNCHANGED value /\ usurped \in BOOLEAN
    BY <1>2 DEF Reclaim, data, Inv, TypeOK
  <2>2. CASE lock = NoLock
    BY <1>2, <2>1, <2>2 DEF Reclaim
  <2>3. CASE lock # NoLock
    BY <1>2, <2>1, <2>3 DEF Reclaim, Store!Next, Store!Break
  <2> QED  BY <2>2, <2>3
<1>3. CASE UNCHANGED vars \/ Age \/ \E p \in Procs :
             \/ Request(p) \/ MakeDirectory(p) \/ Exists(p) \/ OpenOwner(p)
             \/ WriteOwner(p) \/ AcquireFails(p) \/ Stat(p) \/ Inspect(p)
             \/ Retry(p) \/ Read(p) \/ OperationFails(p)
             \/ Release(p) \/ Unlink(p) \/ ReleaseFails(p) \/ Crash(p)
  BY <1>3 DEF vars, Age, Request, MakeDirectory, Exists, OpenOwner, WriteOwner,
              AcquireFails, Stat, Inspect, Retry, Read, OperationFails, Release,
              Unlink, ReleaseFails, Crash, data
<1> QED  BY <1>1, <1>2, <1>3 DEF Next

(* Locking, reading, replacing and releasing is one atomic step to whoever *)
(* reads the file, unless a lock is taken from a process that uses it.     *)
THEOREM Refinement == Spec => Implements
<1>1. Init => Store!Init
  BY DEF Init, Store!Init
<1>2. Inv /\ [Next]_vars => [Store!Next]_<<value, usurped>>
  BY StoreStep
<1> QED  BY <1>1, <1>2, Invariance, PTL DEF Spec, Implements, Store!Spec

(***************************************************************************)
(* Without faults no lock is ever usurped.                                 *)
(***************************************************************************)
(* A lock has a maker that is inside, so it never grows old, and nobody    *)
(* gets to examine it.                                                     *)
Quiet ==
  /\ ~usurped /\ ~lock.old
  /\ \A p \in Procs : pc[p] \notin {"inspect", "reclaim"}
  /\ lock # NoLock => Inside(lock.maker)

LEMMA InsideUses ==
  ASSUME Inv, ~usurped, lock # NoLock, Inside(lock.maker)
  PROVE  lock.maker \in Procs /\ Uses(lock.maker)
<1>1. lock.maker \in Procs
  BY DEF Inv, TypeOK, Lock
<1>2. Held(lock.maker)
  BY <1>1 DEF Inv, Orderly
<1> QED  BY <1>1, <1>2 DEF Held, Uses, Inside, Critical

LEMMA QuietStep ==
  ASSUME Faults = {}, Inv, Quiet, [Next]_vars
  PROVE  Quiet'
<1> USE DEF Quiet
<1>0. TypeOK /\ Orderly
  BY DEF Inv
<1>1. CASE UNCHANGED vars
  BY <1>1 DEF vars, Inside
<1>2. ~Age
  BY InsideUses DEF Age
<1>3. ASSUME NEW p \in Procs, Request(p) \/ Exists(p) \/ Stat(p) \/ Retry(p)
      PROVE  Quiet'
  <2>1. PICK place \in {"try", "stat", "retry", "idle"} : Goto(p, place)
    BY <1>3 DEF Request, Exists, Stat, Retry
  <2>2. pc[p] = "open" => lock.opener = Nobody
    BY <1>0 DEF Orderly, Held
  <2>3. pc[p] \in {"idle", "try", "stat", "retry"}
    BY <1>3, <2>2 DEF Request, Exists, Stat, Retry
  <2>4. UNCHANGED <<lock, usurped>> /\ place \in Places
    BY <1>3 DEF Request, Exists, Stat, Retry, Places
  <2>5. pc'[p] = place /\ \A q \in Procs \ {p} : pc'[q] = pc[q]
    BY <1>0, <2>1, <2>4, GotoType DEF TypeOK
  <2>6. lock # NoLock => lock.maker # p /\ lock.maker \in Procs
    BY <1>0, <2>3 DEF Inside, TypeOK, Lock
  <2> QED  BY <2>1, <2>4, <2>5, <2>6 DEF Inside
<1>4. ASSUME NEW p \in Procs, MakeDirectory(p) PROVE Quiet'
  <2>1. lock'.maker = p /\ ~lock'.old /\ pc'[p] = "open"
    BY <1>0, <1>4, GotoType DEF MakeDirectory, NoLock, TypeOK, Places
  <2> QED  BY <1>0, <1>4, <2>1, GotoType DEF MakeDirectory, Inside, TypeOK, Places
<1>5. ASSUME NEW p \in Procs, OpenOwner(p) \/ WriteOwner(p) \/ Read(p) \/ Commit(p)
                \/ Release(p)
      PROVE  Quiet'
  <2>1. Inside(p) /\ lock.maker = p /\ lock \in Lock /\ (Critical(p) => lock.owner = p)
    BY <1>0, <1>5, NoLockFields, NobodyAssumption
    DEF OpenOwner, WriteOwner, Read, Commit, Release, Inside, Orderly, Held, TypeOK
  <2>2. PICK place \in {"write", "read", "commit", "release", "unlink"} : Goto(p, place)
    BY <1>5, <2>1 DEF OpenOwner, WriteOwner, Read, Commit, Release, Critical
  <2>3. lock'.maker = p /\ ~lock'.old /\ UNCHANGED usurped
    BY <1>5, <2>1 DEF OpenOwner, WriteOwner, Read, Commit, Release, Lock, data
  <2> QED  BY <1>0, <2>2, <2>3, GotoType DEF Inside, TypeOK, Places
<1>6. ASSUME NEW p \in Procs, Unlink(p) PROVE Quiet'
  BY <1>0, <1>6, GotoType, NoLockFields DEF Unlink, TypeOK, Places
<1>7. ASSUME NEW p \in Procs
      PROVE  /\ ~AcquireFails(p) /\ ~Inspect(p) /\ ~Reclaim(p)
             /\ ~OperationFails(p) /\ ~ReleaseFails(p) /\ ~Crash(p)
  <2>1. pc[p] = "open" => lock # NoLock
    BY <1>0, NoLockFields, NobodyAssumption DEF Orderly, Held, Inside
  <2> QED
    BY <1>7, <2>1 DEF AcquireFails, Inspect, Reclaim, OperationFails, ReleaseFails, Crash
<1> QED  BY <1>1, <1>2, <1>3, <1>4, <1>5, <1>6, <1>7 DEF Next

(* Where no process crashes, no call fails and no lock is held for longer  *)
(* than staleMs, mutations are serialized as the comment promises.         *)
THEOREM FaultlessIsExclusive ==
  ASSUME Faults = {}
  PROVE  Spec => []MutualExclusion
<1>1. Init => Quiet
  BY NoLockFields DEF Init, Quiet
<1>2. Inv /\ Quiet /\ [Next]_vars => Quiet'
  BY QuietStep
<1>3. Inv /\ Quiet => MutualExclusion
  BY Alone DEF Inv, Quiet, MutualExclusion, Working, Inside
<1> QED  BY <1>1, <1>2, <1>3, Invariance, PTL DEF Spec
===============================================================================
