------------------------------- MODULE FileLock -------------------------------
(***************************************************************************)
(* withFileMutationLock and atomicWriteFile: processes that mutate one     *)
(* file under a lock that is a directory beside it.  Whoever makes the     *)
(* directory then writes an owner record into it; a lock that has grown    *)
(* old is examined, and moved away when its owner is gone.                 *)
(*                                                                         *)
(* Between any two steps of one process the others may act, and the path   *)
(* of the lock may name another directory.                                 *)
(***************************************************************************)
EXTENDS Naturals, FiniteSets

CONSTANTS
  Procs,        \* operating system processes; a restart is another one
  Nobody,
  MaxWrites,    \* bounds the mutations of one process
  Faults        \* what goes wrong: a "crash", an "io" error, and the "age"
                \* of a lock whose owner is alive but slow

ASSUME NobodyAssumption == Nobody \notin Procs
ASSUME MaxWritesAssumption == MaxWrites \in Nat
ASSUME FaultsAssumption == Faults \subseteq {"crash", "io", "age"}

VARIABLES
  pc,           \* where each process is; "dead" for one that has crashed
  lock,         \* the directory at the lock's path
  value,        \* the file: how many mutations of each process it shows
  seen,         \* what a process has read of it
  committed,    \* history: the mutations that each process carried out
  usurped       \* history: a lock was moved away while a live process used it

vars == <<pc, lock, value, seen, committed, usurped>>

Places == {"idle", "try", "open", "write", "read", "commit", "release", "unlink",
           "stat", "inspect", "reclaim", "retry", "dead"}

(* maker made the directory, opener created owner.json in it, and owner is *)
(* the process that the record names, once it is written.                  *)
Lock == [maker : Procs, opener : Procs \cup {Nobody}, owner : Procs \cup {Nobody},
         old : BOOLEAN]
NoLock == [maker |-> Nobody, opener |-> Nobody, owner |-> Nobody, old |-> FALSE]

Values == [Procs -> Nat]

TypeOK ==
  /\ pc \in [Procs -> Places]
  /\ lock \in Lock \cup {NoLock}
  /\ value \in Values /\ committed \in Values
  /\ seen \in [Procs -> Values]
  /\ usurped \in BOOLEAN

Init ==
  /\ pc = [p \in Procs |-> "idle"]
  /\ lock = NoLock
  /\ value = [p \in Procs |-> 0] /\ committed = [p \in Procs |-> 0]
  /\ seen = [p \in Procs |-> [q \in Procs |-> 0]]
  /\ usurped = FALSE

Goto(p, place) == pc' = [pc EXCEPT ![p] = place]
Alive(p) == pc[p] # "dead"

Critical(p) == pc[p] \in {"read", "commit", "release", "unlink"}
Uses(p) == \/ pc[p] = "open" /\ lock.maker = p
           \/ (pc[p] = "write" \/ Critical(p)) /\ lock.opener = p

data == <<value, seen, committed>>

(* A variant: the directory is made anew where it has gone.                *)
OpenOwnerAnyway(p) ==
  /\ pc[p] = "open" /\ lock.opener = Nobody
  /\ lock' = [lock EXCEPT !.opener = p, !.old = FALSE]
  /\ Goto(p, "write")
  /\ UNCHANGED <<data, usurped>>

(* A variant: when the time is over the operation runs without the lock.   *)
RetryNoMore(p) ==
  /\ pc[p] = "retry"
  /\ \/ Goto(p, "try")
     \/ Goto(p, "read")
  /\ UNCHANGED <<lock, data, usurped>>

(* A variant: what was read of the file before is used again.              *)
ReadCached(p) ==
  /\ pc[p] = "read"
  /\ Goto(p, "commit")
  /\ UNCHANGED <<lock, data, usurped>>

(***************************************************************************)
(* acquireFileMutationLock.                                                *)
(***************************************************************************)
Request(p) ==
  /\ pc[p] = "idle" /\ committed[p] < MaxWrites
  /\ Goto(p, "try")
  /\ UNCHANGED <<lock, data, usurped>>

MakeDirectory(p) ==
  /\ pc[p] = "try" /\ lock = NoLock
  /\ lock' = [NoLock EXCEPT !.maker = p]
  /\ Goto(p, "open")
  /\ UNCHANGED <<data, usurped>>

(* EEXIST, from the directory or from the owner record in it.              *)
Exists(p) ==
  /\ \/ pc[p] = "try" /\ lock # NoLock
     \/ pc[p] = "open" /\ lock.opener # Nobody
  /\ Goto(p, "stat")
  /\ UNCHANGED <<lock, data, usurped>>

(* The entry renews the directory's time.                                  *)
OpenOwner(p) ==
  /\ pc[p] = "open" /\ lock # NoLock /\ lock.opener = Nobody
  /\ lock' = [lock EXCEPT !.opener = p, !.old = FALSE]
  /\ Goto(p, "write")
  /\ UNCHANGED <<data, usurped>>

(* The record goes to the file that was opened, wherever that is now.      *)
WriteOwner(p) ==
  /\ pc[p] = "write"
  /\ lock' = IF lock.opener = p THEN [lock EXCEPT !.owner = p] ELSE lock
  /\ Goto(p, "read")
  /\ UNCHANGED <<data, usurped>>

(* Another error, or the directory is not there any more: the mutation is  *)
(* rejected, and what was made of the lock stays.                          *)
AcquireFails(p) ==
  /\ \/ pc[p] = "open" /\ lock = NoLock
     \/ pc[p] \in {"try", "open", "write", "reclaim"} /\ "io" \in Faults
  /\ Goto(p, "idle")
  /\ UNCHANGED <<lock, data, usurped>>

(***************************************************************************)
(* isAbandonedLock: the age of the directory, then the owner in it.        *)
(***************************************************************************)
Stat(p) ==
  /\ pc[p] = "stat"
  /\ Goto(p, IF lock.old THEN "inspect" ELSE "retry")
  /\ UNCHANGED <<lock, data, usurped>>

(* A record that cannot be read, or names no one, counts as abandoned.     *)
Abandoned == lock.owner = Nobody \/ ~Alive(lock.owner)

Inspect(p) ==
  /\ pc[p] = "inspect"
  /\ Goto(p, IF Abandoned THEN "reclaim" ELSE "retry")
  /\ UNCHANGED <<lock, data, usurped>>

(* The rename takes what the path names by now; then the loop starts again *)
(* without a look at the deadline.                                         *)
Reclaim(p) ==
  /\ pc[p] = "reclaim"
  /\ IF lock = NoLock
       THEN Goto(p, "retry") /\ UNCHANGED <<lock, usurped>>
       ELSE /\ Goto(p, "try")
            /\ lock' = NoLock
            /\ usurped' = (usurped \/ \E q \in Procs : Uses(q))
  /\ UNCHANGED data

(* After a delay, or the time is over.                                     *)
Retry(p) ==
  /\ pc[p] = "retry"
  /\ \/ Goto(p, "try")
     \/ Goto(p, "idle")
  /\ UNCHANGED <<lock, data, usurped>>

(***************************************************************************)
(* The operation reads the file and replaces it (atomicWriteFile); what it *)
(* writes to its temporary file nobody sees before the rename.             *)
(***************************************************************************)
Read(p) ==
  /\ pc[p] = "read"
  /\ seen' = [seen EXCEPT ![p] = value]
  /\ Goto(p, "commit")
  /\ UNCHANGED <<lock, value, committed, usurped>>

Commit(p) ==
  /\ pc[p] = "commit"
  /\ value' = [seen[p] EXCEPT ![p] = @ + 1]
  /\ committed' = [committed EXCEPT ![p] = @ + 1]
  /\ Goto(p, "release")
  /\ UNCHANGED <<lock, seen, usurped>>

OperationFails(p) ==
  /\ pc[p] \in {"read", "commit"} /\ "io" \in Faults
  /\ Goto(p, "release")
  /\ UNCHANGED <<lock, data, usurped>>

(***************************************************************************)
(* releaseOwnedLock: the record is read, then the directory moved away.    *)
(***************************************************************************)
Release(p) ==
  /\ pc[p] = "release"
  /\ Goto(p, IF lock.owner = p THEN "unlink" ELSE "idle")
  /\ UNCHANGED <<lock, data, usurped>>

(* If the path names another lock by now, that one goes.                   *)
Unlink(p) ==
  /\ pc[p] = "unlink"
  /\ Goto(p, "idle")
  /\ lock' = NoLock
  /\ UNCHANGED <<data, usurped>>

(* The attempts to read or to move are used up.                            *)
ReleaseFails(p) ==
  /\ pc[p] \in {"release", "unlink"} /\ "io" \in Faults
  /\ Goto(p, "idle")
  /\ UNCHANGED <<lock, data, usurped>>

(***************************************************************************)
(* The environment.                                                        *)
(***************************************************************************)
Crash(p) ==
  /\ "crash" \in Faults /\ Alive(p)
  /\ Goto(p, "dead")
  /\ UNCHANGED <<lock, data, usurped>>

(* The lock is older than staleMs: left behind by whoever made it, or its  *)
(* user is slower than that.                                               *)
Age ==
  /\ lock # NoLock /\ ~lock.old
  /\ "age" \in Faults \/ ~\E p \in Procs : Uses(p)
  /\ lock' = [lock EXCEPT !.old = TRUE]
  /\ UNCHANGED <<pc, data, usurped>>

Next ==
  \/ Age
  \/ \E p \in Procs :
       \/ Request(p) \/ MakeDirectory(p) \/ Exists(p) \/ OpenOwner(p)
       \/ WriteOwner(p) \/ AcquireFails(p) \/ Stat(p) \/ Inspect(p)
       \/ Reclaim(p) \/ Retry(p) \/ Read(p) \/ Commit(p) \/ OperationFails(p)
       \/ Release(p) \/ Unlink(p) \/ ReleaseFails(p) \/ Crash(p)

Spec == Init /\ [][Next]_vars

(***************************************************************************)
(* Properties.                                                             *)
(***************************************************************************)
Working(p) == pc[p] \in {"read", "commit"}

(* While no live process has had its lock moved away, two operations never *)
(* run at once: neither the gap between making the directory and writing   *)
(* the record, nor a crash or an error at any step, lets a second one in.  *)
ExclusiveUnlessUsurped ==
  usurped \/ \A p, q \in Procs : Working(p) /\ Working(q) => p = q

(* Nor is a mutation lost, or carried out only in part.                    *)
NoLostUpdate == usurped \/ value = committed

(* The comment at the head of withFileMutationLock: mutations in this and  *)
(* in cooperating processes are serialized.  The code keeps this only      *)
(* where no lock is reclaimed: the directory that is moved away need not   *)
(* be the one that was looked at.                                          *)
MutualExclusion == \A p, q \in Procs : Working(p) /\ Working(q) => p = q

(* Lock, read, replace and release together are the one step of the        *)
(* abstract store, and only a usurped lock breaks its promise.             *)
Store == INSTANCE AtomicStore WITH broken <- usurped
Implements == Store!Spec
===============================================================================
