---------------------------- MODULE TerminalsProofs ----------------------------
(***************************************************************************)
(* What the registry of background terminals guarantees for any runtimes   *)
(* and pids, and any number of starts under the id.                        *)
(***************************************************************************)
EXTENDS Terminals, FiniteSetTheorems, TLAPS

(***************************************************************************)
(* The inductive invariant.  What is said of a record is stated with the   *)
(* state it is said in as parameters, since a step makes its records from  *)
(* the old state and leaves them to the new one.                           *)
(***************************************************************************)
(* The process is gone, or there is a doubt that the code leaves room for. *)
Over(i, lives, doubts, kinds) == lives[i] # "alive" \/ \E d \in kinds : i \in doubts[d]

(* Wherever a record is kept, what it says of its process was true once,   *)
(* and only the end of the process can have outdated it.                   *)
FitsIn(rec, lives, holders, count, launches, doubts) ==
  /\ rec.inst <= count
  /\ rec.pid # None =>
       /\ lives[rec.inst] # "unborn"
       /\ lives[rec.inst] = "alive" => holders[rec.pid] = rec.inst
  /\ rec.identity # None =>
       rec.pid # None /\ (lives[rec.inst] = "alive" => rec.identity = rec.inst)
  /\ rec.status \in {"running", "cancelling"} => rec.pid # None
  /\ rec.status = "finished" =>
       /\ Over(rec.inst, lives, doubts, {"unseen", "abandoned"})
       /\ \A r \in Runtimes : rec.inst \notin launches[r]
  /\ rec.status = "cancelled" => Over(rec.inst, lives, doubts, {"late", "abandoned"})

(* What is on disk is nobody's own.                                        *)
Unowned(copies) ==
  /\ copies[Disk] # None => ~copies[Disk].owned
  /\ \A r \in Runtimes : copies[Cache(r)] # None => ~copies[Cache(r)].owned

(* A runtime's own record without a pid is that of a start that no other   *)
(* runtime is to make.                                                     *)
OwnedBy(rec, r, launches) ==
  rec.owned =>
    /\ rec.status = "starting" => rec.inst \in launches[r]
    /\ rec.pid = None => \A s \in Runtimes \ {r} : rec.inst \notin launches[s]

(* A cancellation works on a process it can name, knows who it is before   *)
(* it waits for it, and strikes at what it has just looked at.             *)
AimedAt(rec, phase, holders) ==
  /\ rec.pid # None
  /\ phase \in {"before", "signal", "poll", "force", "blind", "last poll"} => rec.identity # None
  /\ phase \in {"signal", "force"} /\ holders[rec.pid] = Stranger => rec.identity = Stranger

TaskIn(copies, r) ==
  IF copies[Orphan(r)] # None THEN copies[Orphan(r)] ELSE copies[Memory(r)]

(* An instance is launched once, by the runtime that registered it, and a  *)
(* process that has a pid has not been reaped.                             *)
Processes ==
  /\ \A i \in Instances : life[i] # "unborn" => i <= registered
  /\ \A p \in Pids : holder[p] \in Instances => life[holder[p]] \in {"alive", "ended"}
  /\ \A r \in Runtimes :
       /\ \A i \in launching[r] : /\ life[i] = "unborn" /\ i <= registered
                                  /\ \A s \in Runtimes \ {r} : i \notin launching[s]
       /\ \A i \in capture[r] : life[i] # "unborn"

(* What holds of the records at all the places, before or after their      *)
(* stamps are ranked.                                                      *)
Copies == [Places -> Drafts \cup {None}]

Keeps(copies, r, holders, launches, phase) ==
  /\ copies[Memory(r)] # None => OwnedBy(copies[Memory(r)], r, launches)
  /\ phase # "none" => /\ copies[Memory(r)] # None
                       /\ AimedAt(TaskIn(copies, r), phase, holders)
  /\ copies[Orphan(r)] # None => phase # "none"

Held(copies, lives, holders, count, launches, doubts, jobs) ==
  /\ copies \in Copies
  /\ \A p \in Places :
       copies[p] # None => FitsIn(copies[p], lives, holders, count, launches, doubts)
  /\ Unowned(copies)
  /\ \A r \in Runtimes : Keeps(copies, r, holders, launches, jobs[r])

Fits(rec) == FitsIn(rec, life, holder, registered, launching, doubt')
FitsNext(rec) == FitsIn(rec, life', holder', registered', launching', doubt')
KeptNow(copies, r) == Keeps(copies, r, holder, launching, job[r])
KeptNext(copies, r) == Keeps(copies, r, holder', launching', job'[r])
HeldNow(copies) == Held(copies, life, holder, registered, launching, doubt', job)
HeldNext(copies) == Held(copies, life', holder', registered', launching', doubt', job')

Inv ==
  /\ TypeOK /\ Processes
  /\ Held(copy, life, holder, registered, launching, doubt, job)

(* What a step may presuppose: the doubts only grow, so that what it makes *)
(* of the old state may be judged by the doubts it leaves.                 *)
Ready ==
  /\ Inv
  /\ recent' \subseteq Pids /\ strikes' \subseteq Pids
  /\ doubt' \in [Doubts -> SUBSET Instances]
  /\ \A d \in Doubts : doubt[d] \subseteq doubt'[d]

(***************************************************************************)
(* The places of the records.                                              *)
(***************************************************************************)
LEMMA PlacesDiffer ==
  /\ Disk \in Places
  /\ \A r \in Runtimes :
       /\ Memory(r) \in Places /\ Cache(r) \in Places /\ Orphan(r) \in Places
       /\ Memory(r) # Disk /\ Cache(r) # Disk /\ Orphan(r) # Disk
       /\ \A s \in Runtimes :
            /\ Memory(r) # Cache(s) /\ Memory(r) # Orphan(s) /\ Cache(r) # Orphan(s)
            /\ r # s => /\ Memory(r) # Memory(s) /\ Cache(r) # Cache(s)
                        /\ Orphan(r) # Orphan(s)
  BY DEF Places, Disk, Memory, Cache, Orphan

(* There are at most a file and three more places for each runtime.        *)
LEMMA PlacesAreFew ==
  /\ IsFiniteSet(Places)
  /\ Cardinality(Places) <= 3 * Cardinality(Runtimes) + 1
<1>1. /\ IsFiniteSet({Disk}) /\ Cardinality({Disk}) = 1
  BY FS_Singleton
<1>2. LET S == {Memory(r) : r \in Runtimes}
      IN  IsFiniteSet(S) /\ Cardinality(S) <= Cardinality(Runtimes)
  <2> DEFINE S == {Memory(r) : r \in Runtimes}
             f == [r \in Runtimes |-> Memory(r)]
  <2>1. f \in Surjection(Runtimes, S)
    BY DEF Surjection
  <2> QED  BY <2>1, FS_Surjection, RuntimesAssumption
<1>3. LET S == {Cache(r) : r \in Runtimes}
      IN  IsFiniteSet(S) /\ Cardinality(S) <= Cardinality(Runtimes)
  <2> DEFINE S == {Cache(r) : r \in Runtimes}
             f == [r \in Runtimes |-> Cache(r)]
  <2>1. f \in Surjection(Runtimes, S)
    BY DEF Surjection
  <2> QED  BY <2>1, FS_Surjection, RuntimesAssumption
<1>4. LET S == {Orphan(r) : r \in Runtimes}
      IN  IsFiniteSet(S) /\ Cardinality(S) <= Cardinality(Runtimes)
  <2> DEFINE S == {Orphan(r) : r \in Runtimes}
             f == [r \in Runtimes |-> Orphan(r)]
  <2>1. f \in Surjection(Runtimes, S)
    BY DEF Surjection
  <2> QED  BY <2>1, FS_Surjection, RuntimesAssumption
<1>5. ASSUME NEW S, NEW T, IsFiniteSet(S), IsFiniteSet(T)
      PROVE  /\ IsFiniteSet(S \cup T)
             /\ Cardinality(S \cup T) <= Cardinality(S) + Cardinality(T)
  <2>1. Cardinality(S \cap T) \in Nat /\ Cardinality(S) \in Nat /\ Cardinality(T) \in Nat
    BY <1>5, FS_CardinalityType, FS_Intersection
  <2>2. /\ IsFiniteSet(S \cup T)
        /\ Cardinality(S \cup T) = Cardinality(S) + Cardinality(T) - Cardinality(S \cap T)
    BY <1>5, FS_Union
  <2> QED  BY <2>1, <2>2
<1> DEFINE M == {Memory(r) : r \in Runtimes}
           C == {Cache(r) : r \in Runtimes}
           O == {Orphan(r) : r \in Runtimes}
<1>6. IsFiniteSet({Disk} \cup M) /\ Cardinality({Disk} \cup M) <= 1 + Cardinality(M)
  BY <1>1, <1>2, <1>5
<1>7. /\ IsFiniteSet(({Disk} \cup M) \cup C)
      /\ Cardinality(({Disk} \cup M) \cup C) <= Cardinality({Disk} \cup M) + Cardinality(C)
  BY <1>3, <1>5, <1>6
<1>8. /\ IsFiniteSet((({Disk} \cup M) \cup C) \cup O)
      /\ Cardinality((({Disk} \cup M) \cup C) \cup O)
           <= Cardinality(({Disk} \cup M) \cup C) + Cardinality(O)
  BY <1>4, <1>5, <1>7
<1>9. Places = (({Disk} \cup M) \cup C) \cup O
  BY DEF Places
<1>10. /\ Cardinality(Runtimes) \in Nat /\ Cardinality(M) \in Nat /\ Cardinality(C) \in Nat
       /\ Cardinality(O) \in Nat /\ Cardinality({Disk} \cup M) \in Nat
       /\ Cardinality(({Disk} \cup M) \cup C) \in Nat /\ Cardinality(Places) \in Nat
  BY <1>2, <1>3, <1>4, <1>6, <1>7, <1>8, <1>9, FS_CardinalityType, RuntimesAssumption
<1> HIDE DEF M, C, O
<1>11. Cardinality(M) <= Cardinality(Runtimes) /\ Cardinality(C) <= Cardinality(Runtimes)
       /\ Cardinality(O) <= Cardinality(Runtimes)
  BY <1>2, <1>3, <1>4 DEF M, C, O
<1> QED  BY <1>6, <1>7, <1>8, <1>9, <1>10, <1>11

LEMMA NowIsNat ==
  Now \in Nat
BY PlacesAreFew, FS_CardinalityType DEF Now

(***************************************************************************)
(* Records as a step makes them, before their stamps are ranked.           *)
(***************************************************************************)
(* Two records that differ at most in their stamps.                        *)
SaysAs(a, b) ==
  /\ a.inst = b.inst /\ a.status = b.status /\ a.pid = b.pid
  /\ a.identity = b.identity /\ a.owned = b.owned

LEMMA StampedSaysAs ==
  \A rec \in Drafts : Stamped(rec) \in Drafts /\ SaysAs(Stamped(rec), rec)
BY NowIsNat DEF Stamped, Drafts, SaysAs

(* Ranking changes nothing but stamps, and makes records of the drafts.    *)
LEMMA RankedKeeps ==
  ASSUME NEW c \in Copies
  PROVE  /\ Ranked(c) \in [Places -> Records \cup {None}]
         /\ \A p \in Places :
              /\ c[p] = None <=> Ranked(c)[p] = None
              /\ c[p] # None => SaysAs(Ranked(c)[p], c[p])
<1> DEFINE full == {q \in Places : c[q] # None}
           stamps == {c[p].stamp : p \in full}
           below(p) == {s \in stamps : s < c[p].stamp}
           ranked(p) == [c[p] EXCEPT !.stamp = Cardinality(below(p))]
<1>1. /\ IsFiniteSet(stamps) /\ Cardinality(stamps) <= 3 * Cardinality(Runtimes) + 1
      /\ Cardinality(stamps) \in Nat
  <2> DEFINE f == [q \in full |-> c[q].stamp]
  <2>1. IsFiniteSet(full) /\ Cardinality(full) <= Cardinality(Places)
    BY PlacesAreFew, FS_Subset
  <2>2. f \in Surjection(full, stamps)
    BY DEF Surjection
  <2>3. IsFiniteSet(stamps) /\ Cardinality(stamps) <= Cardinality(full)
    BY <2>1, <2>2, FS_Surjection
  <2>4. /\ Cardinality(stamps) \in Nat /\ Cardinality(full) \in Nat
        /\ Cardinality(Places) \in Nat /\ Cardinality(Runtimes) \in Nat
    BY <2>1, <2>3, PlacesAreFew, RuntimesAssumption, FS_CardinalityType
  <2> HIDE DEF full, stamps
  <2> QED  BY <2>1, <2>3, <2>4, PlacesAreFew
<1>2. ASSUME NEW p \in Places, c[p] # None
      PROVE  Cardinality(below(p)) \in 0..3 * Cardinality(Runtimes)
  <2>1. c[p].stamp \in stamps /\ c[p].stamp \in Nat
    BY <1>2 DEF Copies, Drafts
  <2>2. below(p) \in SUBSET (stamps \ {c[p].stamp})
    <3>1. ~(c[p].stamp < c[p].stamp)
      BY <2>1
    <3> QED  BY <3>1
  <2>3. /\ IsFiniteSet(stamps \ {c[p].stamp})
        /\ Cardinality(stamps \ {c[p].stamp}) = Cardinality(stamps) - 1
    BY <1>1, <2>1, FS_RemoveElement
  <2>4. /\ IsFiniteSet(below(p))
        /\ Cardinality(below(p)) <= Cardinality(stamps \ {c[p].stamp})
    BY <2>2, <2>3, FS_Subset
  <2>5. Cardinality(below(p)) \in Nat /\ Cardinality(Runtimes) \in Nat
    BY <2>4, FS_CardinalityType, RuntimesAssumption
  <2> HIDE DEF stamps, below
  <2> QED  BY <1>1, <2>3, <2>4, <2>5
<1>3. Ranked(c) = [p \in Places |-> IF c[p] = None THEN None ELSE ranked(p)]
  BY DEF Ranked
<1>4. ASSUME NEW p \in Places, c[p] # None
      PROVE  ranked(p) \in Records /\ SaysAs(ranked(p), c[p])
  <2>1. Cardinality(below(p)) \in 0..3 * Cardinality(Runtimes)
    BY <1>2, <1>4
  <2>2. Cardinality(Runtimes) \in Nat
    BY RuntimesAssumption, FS_CardinalityType
  <2> HIDE DEF below
  <2> QED  BY <1>4, <2>1, <2>2 DEF Copies, Records, Drafts, SaysAs
<1> HIDE DEF ranked
<1>5. ASSUME NEW p \in Places, c[p] # None
      PROVE  ranked(p) # None
  BY <1>4, <1>5, NoRecordAssumption DEF Records
<1> QED  BY <1>3, <1>4, <1>5

(* What is said of a record does not depend on its stamp.                  *)
LEMMA StampsDoNotMatter ==
  ASSUME NEW a, NEW b, SaysAs(a, b), NEW lives, NEW holders, NEW count, NEW launches, NEW doubts
  PROVE  /\ FitsIn(a, lives, holders, count, launches, doubts)
              <=> FitsIn(b, lives, holders, count, launches, doubts)
         /\ \A r : OwnedBy(a, r, launches) <=> OwnedBy(b, r, launches)
         /\ \A phase : AimedAt(a, phase, holders) <=> AimedAt(b, phase, holders)
BY DEF SaysAs, FitsIn, OwnedBy, AimedAt

LEMMA HeldRanked ==
  ASSUME NEW copies, NEW lives, NEW holders, NEW count, NEW launches, NEW doubts, NEW jobs,
         Held(copies, lives, holders, count, launches, doubts, jobs)
  PROVE  Held(Ranked(copies), lives, holders, count, launches, doubts, jobs)
<1> DEFINE ranked == Ranked(copies)
<1>1. copies \in Copies
  BY DEF Held
<1>2. /\ ranked \in Copies
      /\ \A p \in Places : /\ copies[p] = None <=> ranked[p] = None
                           /\ copies[p] # None => SaysAs(ranked[p], copies[p])
  BY <1>1, RankedKeeps DEF Copies, Records
<1> HIDE DEF ranked
<1>3. ASSUME NEW p \in Places, ranked[p] # None
      PROVE  FitsIn(ranked[p], lives, holders, count, launches, doubts)
  BY <1>2, <1>3, StampsDoNotMatter DEF Held
<1>4. Unowned(ranked)
  BY <1>2, PlacesDiffer DEF Held, Unowned, SaysAs
<1>5. ASSUME NEW r \in Runtimes
      PROVE  Keeps(ranked, r, holders, launches, jobs[r])
  <2>1. Keeps(copies, r, holders, launches, jobs[r])
    BY DEF Held
  <2>2. Memory(r) \in Places /\ Orphan(r) \in Places
    BY PlacesDiffer
  <2>3. ranked[Memory(r)] # None => OwnedBy(ranked[Memory(r)], r, launches)
    BY <1>2, <2>1, <2>2, StampsDoNotMatter DEF Keeps
  <2>4. ASSUME jobs[r] # "none"
        PROVE  ranked[Memory(r)] # None /\ AimedAt(TaskIn(ranked, r), jobs[r], holders)
    <3>1. copies[Memory(r)] # None /\ AimedAt(TaskIn(copies, r), jobs[r], holders)
      BY <2>1, <2>4 DEF Keeps
    <3>2. SaysAs(TaskIn(ranked, r), TaskIn(copies, r))
      BY <1>2, <2>2, <3>1 DEF TaskIn
    <3> QED  BY <1>2, <2>2, <3>1, <3>2, StampsDoNotMatter
  <2>5. ranked[Orphan(r)] # None => jobs[r] # "none"
    BY <1>2, <2>1, <2>2 DEF Keeps
  <2> QED  BY <2>3, <2>4, <2>5 DEF Keeps
<1> QED  BY <1>2, <1>3, <1>4, <1>5 DEF Held, ranked

(***************************************************************************)
(* How the places are written.                                             *)
(***************************************************************************)
(* What is written to disk is nobody's own, and says the same otherwise.   *)
LEMMA WrittenIsUnowned ==
  ASSUME NEW rec \in Drafts
  PROVE  /\ Written(rec) \in Drafts /\ Written(rec) # None /\ ~Written(rec).owned
         /\ Written(rec).inst = rec.inst /\ Written(rec).status = rec.status
         /\ Written(rec).pid = rec.pid /\ Written(rec).identity = rec.identity
BY NoRecordAssumption DEF Written, Drafts

LEMMA WrittenFits ==
  ASSUME NEW rec \in Drafts, NEW lives, NEW holders, NEW count, NEW launches, NEW doubts,
         FitsIn(rec, lives, holders, count, launches, doubts)
  PROVE  FitsIn(Written(rec), lives, holders, count, launches, doubts)
BY WrittenIsUnowned DEF FitsIn

Elsewhere(r) == Places \ {Disk, Memory(r), Cache(r), Orphan(r)}

LEMMA ElsewhereIsOthers ==
  ASSUME NEW r \in Runtimes, NEW s \in Runtimes, r # s
  PROVE  Memory(s) \in Elsewhere(r) /\ Cache(s) \in Elsewhere(r) /\ Orphan(s) \in Elsewhere(r)
BY PlacesDiffer DEF Elsewhere

LEMMA PersistWrites ==
  ASSUME NEW c \in Copies, NEW r \in Runtimes, NEW rec \in Drafts
  PROVE  /\ Persist(c, r, rec) \in Copies
         /\ Persist(c, r, rec)[Disk] = Written(rec)
         /\ Persist(c, r, rec)[Cache(r)] = Written(rec)
         /\ \A p \in Places \ {Disk, Cache(r)} : Persist(c, r, rec)[p] = c[p]
<1>1. Persist(c, r, rec) = [c EXCEPT ![Disk] = Written(rec), ![Cache(r)] = Written(rec)]
  BY DEF Persist
<1>2. Disk \in Places /\ Cache(r) \in Places
  BY PlacesDiffer
<1> QED  BY <1>1, <1>2, WrittenIsUnowned DEF Copies

LEMMA ReplacePuts ==
  ASSUME NEW c \in Copies, NEW r \in Runtimes, NEW rec \in Drafts
  PROVE  /\ Replace(c, r, rec) \in Copies
         /\ Replace(c, r, rec)[Memory(r)] = rec
         /\ Replace(c, r, rec)[Orphan(r)] =
              IF job[r] # "none" /\ c[Orphan(r)] = None THEN c[Memory(r)] ELSE c[Orphan(r)]
         /\ \A p \in Places \ {Memory(r), Orphan(r)} : Replace(c, r, rec)[p] = c[p]
<1> DEFINE kept == IF job[r] # "none" /\ c[Orphan(r)] = None THEN c[Memory(r)] ELSE c[Orphan(r)]
<1>1. Memory(r) \in Places /\ Orphan(r) \in Places /\ Memory(r) # Orphan(r)
  BY PlacesDiffer
<1>2. Replace(c, r, rec) = [c EXCEPT ![Memory(r)] = rec, ![Orphan(r)] = kept]
  BY <1>1 DEF Replace, Copies
<1>3. kept \in Drafts \cup {None}
  BY <1>1 DEF Copies
<1> HIDE DEF kept
<1>4. /\ Replace(c, r, rec) \in Copies
      /\ Replace(c, r, rec)[Memory(r)] = rec /\ Replace(c, r, rec)[Orphan(r)] = kept
      /\ \A p \in Places \ {Memory(r), Orphan(r)} : Replace(c, r, rec)[p] = c[p]
  BY <1>1, <1>2, <1>3 DEF Copies
<1> QED  BY <1>4 DEF kept

(* A step of one runtime: what it wrote at its places and on disk fits     *)
(* what has become of the processes, and so does all that was kept.        *)
LEMMA OneRuntimeWrites ==
  ASSUME NEW c, NEW r \in Runtimes, NEW d \in Copies,
         NEW lives, NEW holders, NEW count, NEW launches, NEW doubts, NEW jobs,
         Unowned(c),
         \A p \in Elsewhere(r) :
           /\ d[p] = c[p]
           /\ c[p] # None => FitsIn(c[p], lives, holders, count, launches, doubts),
         \A p \in {Disk, Memory(r), Cache(r), Orphan(r)} :
           d[p] # None => FitsIn(d[p], lives, holders, count, launches, doubts),
         d[Disk] # None => ~d[Disk].owned,
         d[Cache(r)] # None => ~d[Cache(r)].owned,
         Keeps(d, r, holders, launches, jobs[r]),
         \A s \in Runtimes \ {r} : Keeps(c, s, holders, launches, jobs[s])
  PROVE  Held(d, lives, holders, count, launches, doubts, jobs)
<1>1. ASSUME NEW p \in Places, d[p] # None
      PROVE  FitsIn(d[p], lives, holders, count, launches, doubts)
  <2>1. CASE p \in Elsewhere(r)
    BY <1>1, <2>1
  <2>2. CASE p \notin Elsewhere(r)
    BY <1>1, <2>2 DEF Elsewhere
  <2> QED  BY <2>1, <2>2
<1>2. Unowned(d)
  <2>1. ASSUME NEW s \in Runtimes, s # r, d[Cache(s)] # None
        PROVE  ~d[Cache(s)].owned
    <3>1. d[Cache(s)] = c[Cache(s)]
      BY <2>1, ElsewhereIsOthers
    <3> QED  BY <2>1, <3>1 DEF Unowned
  <2> QED  BY <2>1 DEF Unowned
<1>3. ASSUME NEW s \in Runtimes, s # r
      PROVE  Keeps(d, s, holders, launches, jobs[s])
  <2>1. Keeps(c, s, holders, launches, jobs[s])
    BY <1>3
  <2>2. d[Memory(s)] = c[Memory(s)] /\ d[Orphan(s)] = c[Orphan(s)]
    BY <1>3, ElsewhereIsOthers
  <2> QED  BY <2>1, <2>2 DEF Keeps, TaskIn
<1>4. \A s \in Runtimes : Keeps(d, s, holders, launches, jobs[s])
  BY <1>3
<1> QED  BY <1>1, <1>2, <1>4 DEF Held

(***************************************************************************)
(* What a step may rest on.                                                *)
(***************************************************************************)
(* The variables other than the records.                                   *)
Shape ==
  /\ holder \in [Pids -> Instances \cup {Stranger, None}]
  /\ life \in [Instances -> {"unborn", "alive", "ended", "reaped"}]
  /\ parent \in [Instances -> Runtimes \cup {None}]
  /\ windows \in BOOLEAN
  /\ tracked \in [Runtimes -> Instances \cup {None}]
  /\ registered \in 0..Starts
  /\ launching \in [Runtimes -> SUBSET Instances]
  /\ capture \in [Runtimes -> SUBSET Instances]
  /\ job \in [Runtimes -> Phases]
  /\ \A r \in Runtimes :
       tracked[r] # None => parent[tracked[r]] = r /\ life[tracked[r]] \in {"alive", "ended"}

LEMMA InvGives ==
  ASSUME Ready
  PROVE  /\ TypeOK /\ Shape /\ Processes /\ HeldNow(copy) /\ copy \in Copies /\ Unowned(copy)
         /\ \A p \in Places : copy[p] # None => Fits(copy[p]) /\ copy[p] \in Drafts
         /\ \A r \in Runtimes : KeptNow(copy, r)
<1>1. /\ TypeOK /\ Shape /\ Processes
      /\ Held(copy, life, holder, registered, launching, doubt, job)
  BY DEF Ready, Inv, TypeOK, Shape
<1>2. ASSUME NEW rec, FitsIn(rec, life, holder, registered, launching, doubt)
      PROVE  Fits(rec)
  <2>1. \A d \in Doubts : \A i : i \in doubt[d] => i \in doubt'[d]
    BY DEF Ready
  <2>2. {"unseen", "abandoned"} \subseteq Doubts /\ {"late", "abandoned"} \subseteq Doubts
    BY DEF Doubts
  <2>3. \A i : \A kinds \in SUBSET Doubts :
          Over(i, life, doubt, kinds) => Over(i, life, doubt', kinds)
    BY <2>1 DEF Over
  <2> QED  BY <1>2, <2>2, <2>3 DEF Fits, FitsIn
<1>3. \A p \in Places : copy[p] # None => Fits(copy[p])
  BY <1>1, <1>2 DEF Held
<1> QED  BY <1>1, <1>3 DEF HeldNow, Held, Fits, KeptNow, Copies

(***************************************************************************)
(* Looking at a process, and what a listing makes of it.                   *)
(***************************************************************************)
LEMMA AtFinds ==
  ASSUME TypeOK, NEW p \in Pids
  PROVE  /\ At(p) \in Instances \cup {Stranger, None}
         /\ At(p) # None => At(p) = holder[p]
         /\ holder[p] \in Instances /\ life[holder[p]] = "alive" => At(p) = holder[p]
         /\ holder[p] = Stranger => At(p) = Stranger
BY StrangerAssumption DEF At, TypeOK

LEMMA NoneIsApart ==
  /\ None \notin Instances /\ None \notin Pids /\ None \notin Runtimes /\ None # Stranger
  /\ Stranger \notin Instances
BY NoneAssumption, StrangerAssumption

LEMMA AliveIsFound ==
  ASSUME TypeOK, NEW rec \in Drafts, Fits(rec), rec.pid # None, life[rec.inst] = "alive"
  PROVE  At(rec.pid) = rec.inst /\ At(rec.pid) # None
<1>1. rec.pid \in Pids /\ rec.inst \in Instances
  BY DEF Drafts
<1>2. holder[rec.pid] = rec.inst
  BY DEF Fits, FitsIn
<1> QED  BY <1>1, <1>2, AtFinds, NoneIsApart

(* A process that is reaped has no pid any more.                           *)
LEMMA ReapedIsNotFound ==
  ASSUME TypeOK, Processes, NEW p \in Pids, NEW i \in Instances, life[i] = "reaped"
  PROVE  At(p) # i
<1>1. holder[p] # i
  BY DEF Processes
<1> QED  BY <1>1, AtFinds, NoneIsApart

(* A record whose status alone is set goes on fitting, if the new status   *)
(* is true.                                                                *)
LEMMA StatusFits ==
  ASSUME NEW rec \in Drafts, NEW new \in Drafts,
         NEW lives, NEW holders, NEW count, NEW launches, NEW doubts,
         FitsIn(rec, lives, holders, count, launches, doubts),
         new.inst = rec.inst, new.pid = rec.pid, new.identity = rec.identity,
         new.status \in {"running", "cancelling"} => rec.pid # None,
         new.status = "finished" =>
           /\ Over(rec.inst, lives, doubts, {"unseen", "abandoned"})
           /\ \A r \in Runtimes : rec.inst \notin launches[r],
         new.status = "cancelled" => Over(rec.inst, lives, doubts, {"late", "abandoned"})
  PROVE  FitsIn(new, lives, holders, count, launches, doubts)
BY DEF FitsIn

LEMMA Marks ==
  ASSUME NEW rec \in Drafts
  PROVE  /\ AsStale(rec) \in Drafts /\ AsStale(rec).status = "stale" /\ ~AsStale(rec).owned
         /\ AsStale(rec).inst = rec.inst /\ AsStale(rec).pid = rec.pid
         /\ AsStale(rec).identity = rec.identity
         /\ AsFinished(rec) \in Drafts /\ AsFinished(rec).status = "finished"
         /\ ~AsFinished(rec).owned /\ AsFinished(rec).inst = rec.inst
         /\ AsFinished(rec).pid = rec.pid /\ AsFinished(rec).identity = rec.identity
BY NowIsNat, NoRecordAssumption
   DEF AsStale, AsFinished, Stamped, Written, Drafts, Active, Finished

(* A look that finds the process gone is right, but for an outdated list.  *)
LEMMA LooksAreTrue ==
  ASSUME TypeOK, Processes, NEW r \in Runtimes, NEW rec \in Drafts, Fits(rec), rec.pid # None,
         NEW look \in Looks(r, rec)
  PROVE  /\ look = "dead" => life[rec.inst] # "alive" \/ (~Handled(r, rec) /\ Outdated(rec))
         /\ /\ look \in {"alive", "unknown"} /\ look # "unknown"
            /\ Outdated(rec) => Vanished(rec)
            => ~(life[rec.inst] = "reaped" /\ rec.identity = rec.inst)
<1>1. rec.pid \in Pids /\ rec.inst \in Instances
  BY DEF Drafts
<1>2. CASE Handled(r, rec)
  BY <1>2 DEF Looks
<1>3. CASE ~Handled(r, rec) /\ Vanished(rec)
  <2>1. look = "dead"
    BY <1>3 DEF Looks
  <2>2. life[rec.inst] # "alive"
    BY <1>3, AliveIsFound DEF Vanished
  <2> QED  BY <2>1, <2>2
<1>4. CASE ~Handled(r, rec) /\ ~Vanished(rec)
  <2>1. look \in Sights(rec)
    BY <1>4 DEF Looks
  <2>2. ASSUME look = "dead", life[rec.inst] = "alive"
        PROVE  Outdated(rec)
    <3>1. At(rec.pid) = rec.inst /\ At(rec.pid) # Stranger
      BY <1>1, <2>2, AliveIsFound, NoneIsApart
    <3> QED  BY <2>1, <2>2, <3>1 DEF Sights
  <2>3. ASSUME look = "alive", ~Outdated(rec), life[rec.inst] = "reaped",
               rec.identity = rec.inst
        PROVE  FALSE
    <3>1. At(rec.pid) # rec.inst
      BY <1>1, <2>3, ReapedIsNotFound
    <3>2. rec.identity \notin {None, At(rec.pid)}
      BY <1>1, <2>3, <3>1, NoneIsApart
    <3> QED  BY <2>1, <2>3, <3>2 DEF Sights
  <2> QED  BY <1>4, <2>2, <2>3
<1> QED  BY <1>2, <1>3, <1>4

LEMMA ReconciledFits ==
  ASSUME TypeOK, Processes, NEW r \in Runtimes, NEW rec \in Drafts, Fits(rec),
         NEW look \in AllLooks,
         rec.status = "running" =>
           /\ look \in Looks(r, rec)
           /\ ~Handled(r, rec) /\ Outdated(rec) => rec.inst \in doubt'["unseen"]
  PROVE  /\ Reconciled(rec, look) \in Drafts
         /\ Fits(Reconciled(rec, look))
         /\ Reconciled(rec, look) = rec \/ ~Reconciled(rec, look).owned
         /\ Reconciled(rec, look).status = "starting" => Reconciled(rec, look).owned
         /\ Reconciled(rec, look).status = "running" =>
              /\ Reconciled(rec, look) = rec
              /\ look # "unknown" /\ (Outdated(rec) => Vanished(rec)) =>
                   ~(life[rec.inst] = "reaped" /\ rec.identity = rec.inst)
<1> DEFINE new == Reconciled(rec, look)
<1>1. CASE rec.status = "starting" /\ ~rec.owned
  <2>1. new = AsStale(rec)
    BY <1>1 DEF Reconciled
  <2>2. Fits(AsStale(rec))
    BY Marks, StatusFits DEF Fits
  <2> QED  BY <2>1, <2>2, Marks
<1>2. CASE rec.status = "running" /\ look = "dead"
  <2>1. new = AsFinished(rec)
    BY <1>2 DEF Reconciled
  <2>2. rec.pid # None /\ life[rec.inst] # "unborn"
    BY <1>2 DEF Fits, FitsIn
  <2>3. /\ Over(rec.inst, life, doubt', {"unseen", "abandoned"})
        /\ \A s \in Runtimes : rec.inst \notin launching[s]
    BY <1>2, <2>2, LooksAreTrue DEF Processes, Over
  <2>4. Fits(AsFinished(rec))
    BY <2>3, Marks, StatusFits DEF Fits
  <2> QED  BY <2>1, <2>4, Marks
<1>3. CASE rec.status = "running" /\ look = "mismatch"
  <2>1. new = AsStale(rec)
    BY <1>3 DEF Reconciled
  <2>2. Fits(AsStale(rec))
    BY Marks, StatusFits DEF Fits
  <2> QED  BY <2>1, <2>2, Marks
<1>4. CASE rec.status = "running" /\ look \in {"alive", "unknown"}
  <2>1. new = rec
    BY <1>4 DEF Reconciled
  <2>2. rec.pid # None
    BY <1>4 DEF Fits, FitsIn
  <2> QED  BY <1>4, <2>1, <2>2, LooksAreTrue
<1>5. CASE rec.status # "running" /\ ~(rec.status = "starting" /\ ~rec.owned)
  <2>1. new = rec
    BY <1>5 DEF Reconciled
  <2> QED  BY <1>5, <2>1
<1> QED  BY <1>1, <1>2, <1>3, <1>4, <1>5 DEF AllLooks

(* What a listing leaves is held just as what it found: a cancellation     *)
(* under way keeps its record, and the listed record is reconciled.        *)
LEMMA RefreshedIsHeld ==
  ASSUME Ready, NEW r \in Runtimes, NEW seen \in Scans(r), NEW look \in AllLooks,
         LooksUp(r, seen, look)
  PROVE  /\ HeldNow(Refreshed(r, seen, look))
         /\ \A p \in Elsewhere(r) : Refreshed(r, seen, look)[p] = copy[p]
         /\ LET rec == Refreshed(r, seen, look)[Memory(r)]
            IN  rec # None =>
                  /\ rec.status = "starting" => rec.owned
                  /\ rec.status = "running" /\ Certain(r, seen, look) =>
                       ~(life[rec.inst] = "reaped" /\ rec.identity = rec.inst)
         /\ job[r] = "none" => Refreshed(r, seen, look)[Orphan(r)] = None
<1> DEFINE mem == copy[Memory(r)]
           scanned == [copy EXCEPT ![Cache(r)] = seen]
           source == Source(r, seen)
           next == Reconciled(source, look)
           held == IF next = mem THEN scanned ELSE Replace(scanned, r, next)
           result == Refreshed(r, seen, look)
<1>1. /\ copy \in Copies /\ TypeOK /\ Processes /\ HeldNow(copy)
      /\ Disk \in Places /\ Memory(r) \in Places /\ Cache(r) \in Places /\ Orphan(r) \in Places
  BY PlacesDiffer, InvGives
<1>2. /\ mem \in Drafts \cup {None} /\ seen \in Drafts \cup {None}
      /\ mem # None => Fits(mem) /\ OwnedBy(mem, r, launching)
      /\ seen # None => Fits(seen) /\ ~seen.owned
  BY <1>1 DEF Scans, HeldNow, Held, Copies, Keeps, Unowned, Fits
<1>3. /\ scanned \in Copies /\ scanned[Cache(r)] = seen
      /\ \A p \in Places \ {Cache(r)} : scanned[p] = copy[p]
  BY <1>1, <1>2 DEF Copies
<1>4. result = CASE source = None -> scanned
                 [] source # None /\ next = source /\ None \in {mem, seen} -> held
                 [] OTHER -> Persist(held, r, next)
  BY DEF Refreshed
<1>5. KeptNow(copy, r)
  BY <1>1 DEF HeldNow, Held, KeptNow
<1>6. source = None => mem = None
  BY DEF Source, Newer
<1>7. source # None =>
        /\ source \in Drafts /\ Fits(source)
        /\ source = mem \/ ~source.owned
        /\ source = mem \/ source = seen
  BY <1>2 DEF Source, Newer
<1> HIDE DEF scanned, source, result
<1>8. source # None =>
        /\ next \in Drafts /\ next # None /\ Fits(next)
        /\ OwnedBy(next, r, launching)
        /\ next.status = "starting" => next.owned
        /\ next.status = "running" /\ Certain(r, seen, look) =>
             ~(life[next.inst] = "reaped" /\ next.identity = next.inst)
  <2>1. SUFFICES ASSUME source # None
                 PROVE  /\ next \in Drafts /\ next # None /\ Fits(next)
                        /\ OwnedBy(next, r, launching)
                        /\ next.status = "starting" => next.owned
                        /\ next.status = "running" /\ Certain(r, seen, look) =>
                             ~(life[next.inst] = "reaped" /\ next.identity = next.inst)
    OBVIOUS
  <2>2. /\ next \in Drafts /\ Fits(next) /\ (next = source \/ ~next.owned)
        /\ next.status = "starting" => next.owned
        /\ next.status = "running" =>
             /\ next = source
             /\ look # "unknown" /\ (Outdated(source) => Vanished(source)) =>
                  ~(life[source.inst] = "reaped" /\ source.identity = source.inst)
    <3>1. source.status = "running" =>
            /\ look \in Looks(r, source)
            /\ ~Handled(r, source) /\ Outdated(source) => source.inst \in doubt'["unseen"]
      <4>1. doubt \in [Doubts -> SUBSET Instances] /\ "unseen" \in Doubts
        BY <1>1 DEF TypeOK, Doubts
      <4> QED  BY <2>1, <4>1 DEF LooksUp, Running, source
    <3> QED  BY <1>1, <1>7, <2>1, <3>1, ReconciledFits
  <2>3. OwnedBy(next, r, launching)
    BY <1>2, <1>7, <2>1, <2>2 DEF OwnedBy
  <2>4. Certain(r, seen, look) /\ source.status = "running" =>
          look # "unknown" /\ (Outdated(source) => Vanished(source))
    BY <2>1 DEF Certain, Running, source
  <2> QED  BY <2>2, <2>3, <2>4, NoRecordAssumption
<1> HIDE DEF next
<1>9. source # None =>
        /\ held \in Copies /\ held[Memory(r)] = next
        /\ held[Cache(r)] = seen
        /\ held[Orphan(r)] = copy[Orphan(r)] \/
             (job[r] # "none" /\ copy[Orphan(r)] = None /\ held[Orphan(r)] = mem)
        /\ mem # next /\ job[r] # "none" => held[Orphan(r)] # None
        /\ \A p \in Places \ {Memory(r), Cache(r), Orphan(r)} : held[p] = copy[p]
  <2>1. SUFFICES ASSUME source # None
                 PROVE  /\ held \in Copies /\ held[Memory(r)] = next
                        /\ held[Cache(r)] = seen
                        /\ held[Orphan(r)] = copy[Orphan(r)] \/
                             (job[r] # "none" /\ copy[Orphan(r)] = None /\ held[Orphan(r)] = mem)
                        /\ mem # next /\ job[r] # "none" => held[Orphan(r)] # None
                        /\ \A p \in Places \ {Memory(r), Cache(r), Orphan(r)} : held[p] = copy[p]
    OBVIOUS
  <2>2. CASE next = mem
    BY <1>1, <1>3, <2>2, PlacesDiffer
  <2>3. CASE next # mem
    <3>1. job[r] # "none" => mem # None
      BY <1>5 DEF KeptNow, Keeps
    <3> QED  BY <1>1, <1>3, <1>8, <2>1, <2>3, <3>1, PlacesDiffer, ReplacePuts
  <2> QED  BY <2>2, <2>3
<1> HIDE DEF held
<1>10. /\ result \in Copies
       /\ \A p \in Elsewhere(r) : result[p] = copy[p]
       /\ result[Disk] = copy[Disk] \/ (source # None /\ result[Disk] = Written(next))
       /\ result[Cache(r)] = seen \/ (source # None /\ result[Cache(r)] = Written(next))
       /\ IF source = None
            THEN result[Memory(r)] = mem /\ result[Orphan(r)] = copy[Orphan(r)]
            ELSE result[Memory(r)] = next /\ result[Orphan(r)] = held[Orphan(r)]
  <2>1. CASE source = None
    <3>1. result = scanned
      BY <1>4, <2>1
    <3> QED  BY <1>1, <1>3, <2>1, <3>1, PlacesDiffer DEF Elsewhere
  <2>2. CASE source # None
    <3>1. result = held \/ result = Persist(held, r, next)
      BY <1>4, <2>2
    <3> QED  BY <1>1, <1>8, <1>9, <2>2, <3>1, PlacesDiffer, PersistWrites DEF Elsewhere
  <2> QED  BY <2>1, <2>2
<1>11. /\ copy[Disk] # None => Fits(copy[Disk]) /\ ~copy[Disk].owned
       /\ copy[Orphan(r)] # None => Fits(copy[Orphan(r)])
  BY <1>1 DEF HeldNow, Held, Unowned, Fits
<1>12. source # None => Fits(Written(next)) /\ ~Written(next).owned
  BY <1>8, WrittenIsUnowned, WrittenFits DEF Fits
<1>13. /\ result[Disk] # None => Fits(result[Disk]) /\ ~result[Disk].owned
       /\ result[Cache(r)] # None => Fits(result[Cache(r)]) /\ ~result[Cache(r)].owned
       /\ result[Memory(r)] # None => /\ Fits(result[Memory(r)])
                                      /\ OwnedBy(result[Memory(r)], r, launching)
       /\ result[Orphan(r)] # None => Fits(result[Orphan(r)])
  BY <1>2, <1>8, <1>9, <1>10, <1>11, <1>12
<1>14. KeptNow(result, r)
  <2>1. ASSUME job[r] # "none"
        PROVE  result[Memory(r)] # None /\ TaskIn(result, r) = TaskIn(copy, r)
    <3>1. mem # None /\ source # None
      BY <1>5, <1>6, <2>1 DEF KeptNow, Keeps
    <3> QED  BY <1>8, <1>9, <1>10, <2>1, <3>1 DEF TaskIn
  <2>2. result[Orphan(r)] # None => job[r] # "none"
    BY <1>5, <1>9, <1>10 DEF KeptNow, Keeps
  <2> QED  BY <1>5, <1>13, <2>1, <2>2 DEF KeptNow, Keeps
<1>15. HeldNow(result)
  <2>1. /\ Unowned(copy)
        /\ \A s \in Runtimes : Keeps(copy, s, holder, launching, job[s])
        /\ \A p \in Elsewhere(r) : copy[p] # None => Fits(copy[p])
    BY <1>1 DEF HeldNow, Held, Fits, Elsewhere
  <2>2. \A p \in {Disk, Memory(r), Cache(r), Orphan(r)} : result[p] # None => Fits(result[p])
    BY <1>13
  <2> QED  BY <1>10, <1>13, <1>14, <2>1, <2>2, OneRuntimeWrites
           DEF HeldNow, KeptNow, Fits
<1>16. result[Memory(r)] # None =>
         /\ result[Memory(r)].status = "starting" => result[Memory(r)].owned
         /\ result[Memory(r)].status = "running" /\ Certain(r, seen, look) =>
              ~(life[result[Memory(r)].inst] = "reaped"
                  /\ result[Memory(r)].identity = result[Memory(r)].inst)
  BY <1>6, <1>8, <1>10
<1>17. job[r] = "none" => result[Orphan(r)] = None
  BY <1>5, <1>9, <1>10 DEF KeptNow, Keeps
<1> QED  BY <1>10, <1>15, <1>16, <1>17 DEF result

(***************************************************************************)
(* What a step does to the processes.                                      *)
(***************************************************************************)
LEMMA Concluded ==
  ASSUME Ready, NEW d, HeldNext(d), Shape', Processes',
         copy' = Ranked(d) \/ (copy' = d /\ d \in [Places -> Records \cup {None}])
  PROVE  Inv'
<1>1. copy' \in [Places -> Records \cup {None}] /\ HeldNext(copy')
  BY HeldRanked, RankedKeeps DEF HeldNext, Held
<1>2. \A r \in Runtimes : /\ copy'[Orphan(r)] # None => job'[r] # "none"
                          /\ job'[r] # "none" => copy'[Memory(r)] # None
  BY <1>1 DEF HeldNext, Held, Keeps
<1>3. TypeOK'
  BY <1>1, <1>2 DEF Ready, TypeOK, Shape, Memory, Orphan, Places, Records, Drafts, Disk, Cache
<1> QED  BY <1>1, <1>3 DEF Inv, HeldNext

(* Processes only end, and whoever tracks one hears of its being reaped.   *)
Deaths ==
  /\ life' \in [Instances -> {"unborn", "alive", "ended", "reaped"}]
  /\ holder' \in [Pids -> Instances \cup {Stranger, None}]
  /\ \A i \in Instances : /\ life'[i] = "unborn" <=> life[i] = "unborn"
                          /\ life'[i] = "alive" => life[i] = "alive"
  /\ \A p \in Pids :
       /\ holder'[p] = holder[p] \/ holder'[p] = None
       /\ holder[p] \in Instances /\ life'[holder[p]] = "alive" => holder'[p] = holder[p]
       /\ holder'[p] \in Instances => life'[holder'[p]] \in {"alive", "ended"}

Unheard ==
  \A i \in Instances : life[i] \in {"alive", "ended"} /\ parent[i] # None =>
                         life'[i] \in {"alive", "ended"}

LEMMA NothingDies ==
  ASSUME Ready, UNCHANGED <<life, holder>>
  PROVE  Deaths /\ Unheard
BY InvGives DEF Deaths, Unheard, Shape, Processes

LEMMA DiesIsDeath ==
  ASSUME Ready, NEW i \in Instances, life[i] = "alive", Dies(i)
  PROVE  /\ Deaths /\ Unheard
         /\ \A p \in Pids : holder[p] = Stranger => holder'[p] = Stranger
<1>1. Shape /\ Processes
  BY InvGives
<1>2. CASE parent[i] = None
  <2>1. /\ life' = [life EXCEPT ![i] = "reaped"]
        /\ holder' = [p \in Pids |-> IF holder[p] = i THEN None ELSE holder[p]]
    BY <1>2 DEF Dies
  <2>2. \A j \in Instances : life'[j] = IF j = i THEN "reaped" ELSE life[j]
    BY <1>1, <2>1 DEF Shape
  <2> QED  BY <1>1, <1>2, <2>1, <2>2, NoneIsApart DEF Shape, Processes, Deaths, Unheard
<1>3. CASE parent[i] # None
  <2>1. life' = [life EXCEPT ![i] = "ended"] /\ holder' = holder
    BY <1>3 DEF Dies
  <2>2. \A j \in Instances : life'[j] = IF j = i THEN "ended" ELSE life[j]
    BY <1>1, <2>1 DEF Shape
  <2> QED  BY <1>1, <1>3, <2>1, <2>2, NoneIsApart DEF Shape, Processes, Deaths, Unheard
<1> QED  BY <1>2, <1>3

LEMMA HitIsDeath ==
  ASSUME Ready, NEW p \in Pids, NEW mayLive \in BOOLEAN, Hit(p, mayLive)
  PROVE  /\ Deaths /\ Unheard
         /\ \A q \in Pids : holder[q] = Stranger /\ q # p => holder'[q] = Stranger
         /\ holder[p] # Stranger => \A q \in Pids : holder[q] = Stranger => holder'[q] = Stranger
<1>1. Shape /\ Processes
  BY InvGives
<1>2. CASE holder[p] \in Instances /\ life[holder[p]] = "alive" /\ Dies(holder[p])
  BY <1>2, DiesIsDeath, NoneIsApart
<1>3. CASE holder[p] = Stranger /\ holder' = [holder EXCEPT ![p] = None] /\ UNCHANGED life
  <2>1. \A q \in Pids : holder'[q] = IF q = p THEN None ELSE holder[q]
    BY <1>1, <1>3 DEF Shape
  <2>2. holder' \in [Pids -> Instances \cup {Stranger, None}]
    BY <1>1, <1>3 DEF Shape
  <2> QED  BY <1>1, <1>3, <2>1, <2>2, NoneIsApart DEF Shape, Processes, Deaths, Unheard
<1>4. CASE UNCHANGED <<life, holder>>
  BY <1>4, NothingDies
<1> QED  BY <1>2, <1>3, <1>4 DEF Hit

(* The starts go on at most by a registration.                             *)
Onward ==
  /\ registered' \in Nat /\ registered <= registered'
  /\ \A i \in Instances : i <= registered =>
       \A s \in Runtimes : i \in launching'[s] <=> i \in launching[s]

(* While processes only end, every record goes on fitting.  Instances that *)
(* are registered meanwhile are not theirs.                                *)
LEMMA DeathsKeepFitting ==
  ASSUME Ready, Deaths, Onward, NEW rec \in Drafts, Fits(rec)
  PROVE  FitsNext(rec)
<1>1. /\ rec.inst \in Instances /\ rec.inst <= registered /\ rec.pid \in Pids \cup {None}
      /\ rec.inst \in Nat /\ registered \in Nat
  BY InvGives, StartsAssumption DEF Fits, FitsIn, Drafts, Shape, Instances
<1>2. rec.inst <= registered'
  BY <1>1 DEF Onward
<1>3. ASSUME rec.pid # None
      PROVE  /\ life'[rec.inst] # "unborn"
             /\ life'[rec.inst] = "alive" => holder'[rec.pid] = rec.inst
  <2>1. life[rec.inst] # "unborn" /\ (life[rec.inst] = "alive" => holder[rec.pid] = rec.inst)
    BY <1>3 DEF Fits, FitsIn
  <2> QED  BY <1>1, <1>3, <2>1 DEF Deaths
<1>4. life'[rec.inst] = "alive" => life[rec.inst] = "alive"
  BY <1>1 DEF Deaths
<1>5. \A s \in Runtimes : rec.inst \in launching'[s] => rec.inst \in launching[s]
  BY <1>1 DEF Onward
<1>6. \A kinds : Over(rec.inst, life, doubt', kinds) => Over(rec.inst, life', doubt', kinds)
  BY <1>4 DEF Over
<1> QED  BY <1>2, <1>3, <1>4, <1>5, <1>6 DEF Fits, FitsNext, FitsIn

LEMMA DeathsKeepOwning ==
  ASSUME Ready, Deaths, Onward, NEW s \in Runtimes, NEW rec \in Drafts, Fits(rec),
         OwnedBy(rec, s, launching)
  PROVE  OwnedBy(rec, s, launching')
<1>1. rec.inst \in Instances /\ rec.inst <= registered
  BY DEF Fits, FitsIn, Drafts
<1>2. \A t \in Runtimes : rec.inst \in launching'[t] <=> rec.inst \in launching[t]
  BY <1>1 DEF Onward
<1> QED  BY <1>2 DEF OwnedBy

LEMMA DeathsKeepKeeping ==
  ASSUME Ready, Deaths, Onward, NEW c, HeldNow(c), NEW s \in Runtimes, job'[s] = job[s]
  PROVE  KeptNext(c, s)
<1>1. /\ KeptNow(c, s) /\ c \in Copies /\ c[Memory(s)] \in Drafts \cup {None}
      /\ c[Orphan(s)] \in Drafts \cup {None}
      /\ c[Memory(s)] # None => Fits(c[Memory(s)])
  BY PlacesDiffer DEF HeldNow, Held, KeptNow, Copies, Fits
<1>2. ASSUME c[Memory(s)] # None
      PROVE  OwnedBy(c[Memory(s)], s, launching')
  BY <1>1, <1>2, DeathsKeepOwning DEF KeptNow, Keeps
<1>3. ASSUME job[s] # "none"
      PROVE  AimedAt(TaskIn(c, s), job[s], holder')
  <2>1. TaskIn(c, s) \in Drafts /\ AimedAt(TaskIn(c, s), job[s], holder)
    BY <1>1, <1>3 DEF KeptNow, Keeps, TaskIn
  <2>2. TaskIn(c, s).pid \in Pids
    BY <2>1 DEF AimedAt, Drafts
  <2>3. holder'[TaskIn(c, s).pid] = Stranger => holder[TaskIn(c, s).pid] = Stranger
    BY <2>2, NoneIsApart DEF Deaths
  <2> QED  BY <2>1, <2>3 DEF AimedAt
<1> QED  BY <1>1, <1>2, <1>3 DEF KeptNow, KeptNext, Keeps

(* Two runtimes share nothing but the file.                                *)
LEMMA OnwardWrites ==
  ASSUME Ready, NEW r \in Runtimes, NEW c, HeldNow(c),
         Deaths, Onward, \A s \in Runtimes \ {r} : job'[s] = job[s],
         NEW d \in Copies, \A p \in Elsewhere(r) : d[p] = c[p],
         \A p \in {Disk, Memory(r), Cache(r), Orphan(r)} : d[p] # None => FitsNext(d[p]),
         d[Disk] # None => ~d[Disk].owned,
         d[Cache(r)] # None => ~d[Cache(r)].owned,
         KeptNext(d, r)
  PROVE  HeldNext(d)
<1>1. ASSUME NEW p \in Elsewhere(r)
      PROVE  d[p] = c[p] /\ (c[p] # None => FitsNext(c[p]))
  <2>1. c[p] # None => c[p] \in Drafts /\ Fits(c[p])
    BY <1>1 DEF HeldNow, Held, Copies, Fits, Elsewhere
  <2> QED  BY <1>1, <2>1, DeathsKeepFitting
<1>2. \A s \in Runtimes \ {r} : Keeps(c, s, holder', launching', job'[s])
  BY DeathsKeepKeeping DEF KeptNext
<1>3. Unowned(c)
  BY DEF HeldNow, Held
<1> QED  BY <1>1, <1>2, <1>3, OneRuntimeWrites DEF FitsNext, KeptNext, HeldNext

(***************************************************************************)
(* Steps that leave the starts alone.                                      *)
(***************************************************************************)
Calm == UNCHANGED <<parent, windows, tracked, registered, launching, capture>>

LEMMA CalmIsOnward ==
  ASSUME Ready, Calm
  PROVE  Onward
BY InvGives, StartsAssumption DEF Calm, Onward, Shape

LEMMA CalmShape ==
  ASSUME Ready, Deaths, Unheard, Calm, job' \in [Runtimes -> Phases]
  PROVE  Shape' /\ Processes'
<1>1. Shape /\ Processes
  BY InvGives
<1>2. ASSUME NEW r \in Runtimes, tracked[r] # None
      PROVE  parent[tracked[r]] = r /\ life'[tracked[r]] \in {"alive", "ended"}
  BY <1>1, <1>2, NoneIsApart DEF Shape, Unheard
<1>3. Shape'
  BY <1>1, <1>2 DEF Shape, Calm, Deaths
<1>4. Processes'
  BY <1>1 DEF Shape, Processes, Calm, Deaths
<1> QED  BY <1>3, <1>4

(* The record that a cancellation works on.                                *)
LEMMA TaskOfIsAimedAt ==
  ASSUME Ready, NEW r \in Runtimes, job[r] # "none"
  PROVE  /\ TaskOf(r) \in Drafts /\ Fits(TaskOf(r)) /\ TaskOf(r).pid \in Pids
         /\ TaskOf(r).pid # None /\ TaskOf(r).inst \in Instances
         /\ AimedAt(TaskOf(r), job[r], holder)
         /\ TaskOf(r) = TaskIn(copy, r)
         /\ copy[Memory(r)] # None /\ copy[Memory(r)] \in Drafts /\ Fits(copy[Memory(r)])
         /\ OwnedBy(copy[Memory(r)], r, launching)
         /\ \E p \in Places : copy[p] # None /\ copy[p] = TaskOf(r)
         /\ copy[Orphan(r)] = None => OwnedBy(TaskOf(r), r, launching)
<1>1. TaskOf(r) = TaskIn(copy, r)
  BY DEF TaskOf, TaskIn
<1>2. /\ copy[Memory(r)] # None /\ AimedAt(TaskOf(r), job[r], holder)
      /\ OwnedBy(copy[Memory(r)], r, launching)
  BY <1>1, InvGives DEF KeptNow, Keeps
<1>3. Memory(r) \in Places /\ Orphan(r) \in Places
  BY PlacesDiffer
<1>4. \E p \in Places : copy[p] # None /\ copy[p] = TaskOf(r)
  BY <1>2, <1>3 DEF TaskOf
<1>5. TaskOf(r) \in Drafts /\ Fits(TaskOf(r))
  BY <1>4, InvGives
<1>6. TaskOf(r).pid \in Pids /\ TaskOf(r).pid # None /\ TaskOf(r).inst \in Instances
  BY <1>2, <1>5 DEF AimedAt, Drafts
<1>7. copy[Memory(r)] \in Drafts /\ Fits(copy[Memory(r)])
  BY <1>2, <1>3, InvGives
<1>8. copy[Orphan(r)] = None => OwnedBy(TaskOf(r), r, launching)
  BY <1>2 DEF TaskOf
<1> QED  BY <1>1, <1>2, <1>4, <1>5, <1>6, <1>7, <1>8

(* A cancellation that goes on to its next phase without touching records. *)
LEMMA PhaseMoves ==
  ASSUME Ready, NEW r \in Runtimes, Deaths, Unheard, Calm, UNCHANGED copy,
         job' \in [Runtimes -> Phases], \A s \in Runtimes \ {r} : job'[s] = job[s],
         job[r] # "none", job'[r] # "none",
         AimedAt(TaskOf(r), job'[r], holder')
  PROVE  Inv'
<1>1. Shape' /\ Processes'
  BY CalmShape
<1>2. OwnedBy(copy[Memory(r)], r, launching')
  BY TaskOfIsAimedAt, CalmIsOnward, DeathsKeepOwning
<1>3. KeptNext(copy, r)
  BY <1>2, TaskOfIsAimedAt DEF KeptNext, Keeps
<1>4. \A p \in {Disk, Memory(r), Cache(r), Orphan(r)} : copy[p] # None => FitsNext(copy[p])
  BY InvGives, PlacesDiffer, CalmIsOnward, DeathsKeepFitting
<1>5. HeldNext(copy)
  BY <1>3, <1>4, InvGives, CalmIsOnward, OnwardWrites DEF Unowned
<1>6. copy \in [Places -> Records \cup {None}]
  BY DEF Ready, Inv, TypeOK
<1> QED  BY <1>1, <1>5, <1>6, Concluded

(* A cancellation that ends leaves a record at most in the memory, the     *)
(* cache and the file.                                                     *)
LEMMA CancellationEnds ==
  ASSUME Ready, NEW r \in Runtimes, NEW from, job[r] # "none",
         NEW e \in Copies, \A p \in Elsewhere(r) : e[p] = copy[p],
         e[Disk] # None => Fits(e[Disk]) /\ ~e[Disk].owned,
         e[Cache(r)] # None => Fits(e[Cache(r)]) /\ ~e[Cache(r)].owned,
         e[Memory(r)] # None =>
           Fits(e[Memory(r)]) /\ OwnedBy(e[Memory(r)], r, launching),
         Concludes(r, from, e)
  PROVE  Inv'
<1> DEFINE d == [e EXCEPT ![Orphan(r)] = None]
<1>1. Disk \in Places /\ Memory(r) \in Places /\ Cache(r) \in Places /\ Orphan(r) \in Places
  BY PlacesDiffer
<1>2. /\ d \in Copies /\ d[Disk] = e[Disk] /\ d[Memory(r)] = e[Memory(r)]
      /\ d[Cache(r)] = e[Cache(r)] /\ d[Orphan(r)] = None
      /\ \A p \in Elsewhere(r) : d[p] = copy[p]
  BY <1>1, PlacesDiffer DEF Copies, Elsewhere
<1>3. /\ UNCHANGED <<life, holder>> /\ Calm /\ copy' = Ranked(d)
      /\ job' = [job EXCEPT ![r] = "none"]
  BY DEF Concludes, Goes, Calm
<1>4. Deaths /\ Unheard
  BY <1>3, NothingDies
<1>5. /\ job' \in [Runtimes -> Phases] /\ job'[r] = "none"
      /\ \A s \in Runtimes \ {r} : job'[s] = job[s]
  BY <1>3, InvGives DEF Shape, Phases
<1> HIDE DEF d
<1>6. \A rec \in Drafts : Fits(rec) => FitsNext(rec)
  BY <1>3, <1>4, CalmIsOnward, DeathsKeepFitting
<1>7. \A p \in {Disk, Memory(r), Cache(r), Orphan(r)} : d[p] # None => FitsNext(d[p])
  BY <1>1, <1>2, <1>6 DEF Copies
<1>8. d[Memory(r)] # None => OwnedBy(d[Memory(r)], r, launching')
  BY <1>1, <1>2, <1>3, <1>4, CalmIsOnward, DeathsKeepOwning DEF Copies
<1>9. KeptNext(d, r)
  BY <1>2, <1>5, <1>8 DEF KeptNext, Keeps
<1>10. HeldNext(d)
  BY <1>2, <1>3, <1>4, <1>5, <1>7, <1>9, InvGives, CalmIsOnward, OnwardWrites
<1>11. Shape' /\ Processes'
  BY <1>3, <1>4, <1>5, CalmShape
<1> QED  BY <1>3, <1>10, <1>11, Concluded

LEMMA MutateWrites ==
  ASSUME Ready, NEW r \in Runtimes, NEW rec \in Drafts
  PROVE  /\ Mutate(r, rec) \in Copies
         /\ Mutate(r, rec)[Disk] = Written(rec) /\ Mutate(r, rec)[Cache(r)] = Written(rec)
         /\ IF copy[Orphan(r)] # None
              THEN /\ Mutate(r, rec)[Orphan(r)] = rec
                   /\ Mutate(r, rec)[Memory(r)] = copy[Memory(r)]
              ELSE /\ Mutate(r, rec)[Orphan(r)] = None
                   /\ Mutate(r, rec)[Memory(r)] = rec
         /\ \A p \in Elsewhere(r) : Mutate(r, rec)[p] = copy[p]
<1> DEFINE place == IF copy[Orphan(r)] # None THEN Orphan(r) ELSE Memory(r)
           c == [copy EXCEPT ![place] = rec]
<1>1. Disk \in Places /\ Memory(r) \in Places /\ Cache(r) \in Places /\ Orphan(r) \in Places
  BY PlacesDiffer
<1>2. /\ c \in Copies /\ c[place] = rec
      /\ \A p \in Places \ {place} : c[p] = copy[p]
  BY <1>1, InvGives DEF Copies
<1>3. Mutate(r, rec) = Persist(c, r, rec)
  BY DEF Mutate
<1> HIDE DEF c
<1> QED  BY <1>1, <1>2, <1>3, PlacesDiffer, PersistWrites DEF Elsewhere

(* A cancellation that ends with a last change of its record.              *)
LEMMA MutatedAndEnded ==
  ASSUME Ready, NEW r \in Runtimes, NEW from, job[r] # "none",
         NEW rec \in Drafts, Fits(rec), rec.pid # None, rec.status # "starting",
         Concludes(r, from, Mutate(r, rec))
  PROVE  Inv'
<1> DEFINE e == Mutate(r, rec)
<1>1. /\ e \in Copies /\ e[Disk] = Written(rec) /\ e[Cache(r)] = Written(rec)
      /\ e[Memory(r)] \in {copy[Memory(r)], rec}
      /\ \A p \in Elsewhere(r) : e[p] = copy[p]
  BY MutateWrites
<1>2. Concludes(r, from, e)
  OBVIOUS
<1> HIDE DEF e
<1>3. Fits(Written(rec)) /\ ~Written(rec).owned
  BY WrittenFits, WrittenIsUnowned DEF Fits
<1>4. OwnedBy(rec, r, launching)
  BY DEF OwnedBy
<1>5. Fits(copy[Memory(r)]) /\ OwnedBy(copy[Memory(r)], r, launching)
  BY TaskOfIsAimedAt
<1> QED  BY <1>1, <1>2, <1>3, <1>4, <1>5, CancellationEnds

(***************************************************************************)
(* Listing, the ends of processes, and cancelling.                         *)
(***************************************************************************)
LEMMA ListStep ==
  ASSUME Ready, NEW r \in Runtimes, NEW seen \in Scans(r), NEW look \in AllLooks,
         Lists(r, seen, look)
  PROVE  Inv'
<1>1. /\ LooksUp(r, seen, look) /\ copy' = Ranked(Refreshed(r, seen, look))
      /\ UNCHANGED <<life, holder, parent, windows, tracked, registered, launching, capture, job>>
  BY DEF Lists, table, platform
<1>2. HeldNow(Refreshed(r, seen, look))
  BY <1>1, RefreshedIsHeld
<1>3. HeldNext(Refreshed(r, seen, look))
  BY <1>1, <1>2 DEF HeldNow, HeldNext
<1>4. Shape' /\ Processes'
  BY <1>1, InvGives DEF Shape, Processes
<1> QED  BY <1>1, <1>3, <1>4, Concluded

(* A step that at most ends processes.                                     *)
LEMMA OnlyDeaths ==
  ASSUME Ready, Deaths, Unheard, Calm, UNCHANGED <<copy, job>>
  PROVE  Inv'
<1>1. Shape' /\ Processes'
  BY InvGives, CalmShape DEF Shape
<1>2. \A p \in Places : copy[p] # None => FitsNext(copy[p])
  BY InvGives, CalmIsOnward, DeathsKeepFitting
<1>3. \A s \in Runtimes : KeptNext(copy, s)
  BY InvGives, CalmIsOnward, DeathsKeepKeeping
<1>4. HeldNext(copy)
  BY <1>2, <1>3, InvGives DEF HeldNext, Held, FitsNext, KeptNext
<1>5. copy \in [Places -> Records \cup {None}]
  BY DEF Ready, Inv, TypeOK
<1> QED  BY <1>1, <1>4, <1>5, Concluded

LEMMA EndsStep ==
  ASSUME Ready, NEW i \in Instances, Ends(i)
  PROVE  Inv'
BY DiesIsDeath, OnlyDeaths DEF Ends, Calm, platform

LEMMA SettlesStep ==
  ASSUME Ready, NEW p \in Pids, Settles(p)
  PROVE  Inv'
BY NothingDies, OnlyDeaths DEF Settles, Calm

LEMMA TaskkillStep ==
  ASSUME Ready, NEW p \in Pids, Taskkill(p)
  PROVE  Inv'
BY HitIsDeath, OnlyDeaths DEF Taskkill, Calm

LEMMA StatusMarks ==
  ASSUME NEW rec \in Drafts, NEW status \in Active \cup Finished
  PROVE  LET new == Stamped([rec EXCEPT !.status = status])
         IN  /\ new \in Drafts /\ new # None /\ new.status = status /\ new.inst = rec.inst
             /\ new.pid = rec.pid /\ new.identity = rec.identity /\ new.owned = rec.owned
BY NowIsNat, NoRecordAssumption DEF Stamped, Drafts

LEMMA CancelStep ==
  ASSUME Ready, NEW r \in Runtimes, NEW seen \in Scans(r), NEW look \in AllLooks,
         Cancel(r, seen, look)
  PROVE  Inv'
<1> DEFINE refreshed == Refreshed(r, seen, look)
           rec == refreshed[Memory(r)]
           child == Handled(r, rec) /\ life[rec.inst] = "alive"
           waits == child \/ (rec.pid # None /\ ~Handled(r, rec))
           next == IF waits THEN AsCancelling(rec) ELSE AsCancelled(rec)
           put == [refreshed EXCEPT ![Memory(r)] = next]
           d == Persist(put, r, next)
<1>1. /\ job[r] = "none" /\ InUse(rec) /\ copy' = Ranked(d)
      /\ job' = [job EXCEPT ![r] = IF child THEN "child poll" ELSE
                                     IF waits THEN "identify" ELSE @]
      /\ child => Hit(rec.pid, TRUE)
      /\ ~child => UNCHANGED <<life, holder>>
      /\ LooksUp(r, seen, look) /\ Calm
  BY DEF Cancel, Calm
<1>2. /\ HeldNow(refreshed) /\ refreshed[Orphan(r)] = None
      /\ rec # None => (rec.status = "starting" => rec.owned)
      /\ refreshed \in Copies
  BY <1>1, RefreshedIsHeld DEF HeldNow, Held
<1>3. Disk \in Places /\ Memory(r) \in Places /\ Cache(r) \in Places /\ Orphan(r) \in Places
  BY PlacesDiffer
<1> HIDE DEF refreshed
<1>4. /\ rec \in Drafts /\ rec # None /\ Fits(rec) /\ OwnedBy(rec, r, launching)
      /\ rec.status \in Active
  BY <1>1, <1>2, <1>3 DEF HeldNow, Held, Fits, Keeps, Copies, InUse
<1>5. /\ next \in Drafts /\ next # None /\ next.inst = rec.inst /\ next.pid = rec.pid
      /\ next.identity = rec.identity /\ next.owned = rec.owned
      /\ next.status = IF waits THEN "cancelling" ELSE "cancelled"
  BY <1>4, StatusMarks DEF AsCancelling, AsCancelled, Active, Finished
<1>6. waits => rec.pid # None
  BY DEF Handled
<1>7. Deaths /\ Unheard
  <2>1. CASE child
    <3>1. rec.pid \in Pids
      BY <1>4, <1>6, <2>1 DEF Drafts
    <3> QED  BY <1>1, <2>1, <3>1, HitIsDeath
  <2>2. CASE ~child
    BY <1>1, <2>2, NothingDies
  <2> QED  BY <2>1, <2>2
<1>8. Fits(next)
  <2>1. CASE waits
    BY <1>4, <1>5, <1>6, <2>1, StatusFits DEF Fits
  <2>2. CASE ~waits
    <3>1. life[rec.inst] # "alive"
      <4>1. CASE rec.pid = None
        <5>1. rec.status = "starting" /\ rec.owned
          BY <1>2, <1>4, <4>1 DEF Fits, FitsIn, Active
        <5>2. rec.inst \in launching[r]
          BY <1>4, <5>1 DEF OwnedBy
        <5> QED  BY <5>2, InvGives DEF Processes
      <4>2. CASE rec.pid # None
        BY <2>2, <4>2
      <4> QED  BY <4>1, <4>2
    <3> QED  BY <1>4, <1>5, <2>2, <3>1, StatusFits DEF Fits, Over
  <2> QED  BY <2>1, <2>2
<1> HIDE DEF next
<1>9. /\ put \in Copies /\ put[Memory(r)] = next
      /\ \A p \in Places \ {Memory(r)} : put[p] = refreshed[p]
  BY <1>2, <1>3, <1>5 DEF Copies
<1> HIDE DEF put
<1>10. /\ d \in Copies /\ d[Disk] = Written(next) /\ d[Cache(r)] = Written(next)
       /\ d[Memory(r)] = next /\ d[Orphan(r)] = None
       /\ \A p \in Elsewhere(r) : d[p] = refreshed[p]
  BY <1>2, <1>3, <1>5, <1>9, PersistWrites, PlacesDiffer DEF Elsewhere
<1> HIDE DEF d
<1>11. FitsNext(next) /\ FitsNext(Written(next)) /\ ~Written(next).owned
  BY <1>1, <1>5, <1>7, <1>8, CalmIsOnward, DeathsKeepFitting,
     WrittenFits, WrittenIsUnowned DEF FitsNext
<1>12. OwnedBy(next, r, launching')
  <2>1. OwnedBy(rec, r, launching')
    BY <1>1, <1>4, <1>7, CalmIsOnward, DeathsKeepOwning
  <2> QED  BY <1>5, <2>1 DEF OwnedBy
<1>13. /\ job' \in [Runtimes -> Phases] /\ \A s \in Runtimes \ {r} : job'[s] = job[s]
       /\ job'[r] = IF child THEN "child poll" ELSE IF waits THEN "identify" ELSE "none"
  BY <1>1, InvGives DEF Shape, Phases
<1>14. KeptNext(d, r)
  <2>1. TaskIn(d, r) = next
    BY <1>10 DEF TaskIn
  <2>2. job'[r] # "none" => AimedAt(next, job'[r], holder')
    BY <1>5, <1>6, <1>13 DEF AimedAt
  <2> QED  BY <1>5, <1>10, <1>12, <2>1, <2>2 DEF KeptNext, Keeps
<1>15. HeldNext(d)
  BY <1>1, <1>2, <1>7, <1>10, <1>11, <1>13, <1>14, CalmIsOnward, OnwardWrites
<1>16. Shape' /\ Processes'
  BY <1>1, <1>7, <1>13, CalmShape
<1> QED  BY <1>1, <1>15, <1>16, Concluded DEF d

(* The identity that a look finds is right while the process lives.        *)
LEMMA IdentityFits ==
  ASSUME Ready, NEW rec \in Drafts, Fits(rec), rec.pid \in Pids, rec.pid # None,
         At(rec.pid) # None, NEW new \in Drafts,
         new.inst = rec.inst, new.pid = rec.pid, new.status = rec.status,
         new.identity = At(rec.pid)
  PROVE  Fits(new)
<1>1. life[rec.inst] = "alive" => At(rec.pid) = rec.inst
  BY InvGives, AliveIsFound
<1> QED  BY <1>1 DEF Fits, FitsIn

LEMMA IdentifyStep ==
  ASSUME Ready, NEW r \in Runtimes, Identify(r)
  PROVE  Inv'
<1> DEFINE task == TaskOf(r)
           asked == task.identity = None /\ task.owned
           answered == asked /\ copy[Orphan(r)] = None /\ At(task.pid) # None
           new == [task EXCEPT !.identity = At(task.pid)]
           d == Mutate(r, new)
<1>1. /\ job[r] = "identify" /\ job' = [job EXCEPT ![r] = "verify"] /\ Calm
      /\ copy' = copy \/ (answered /\ copy' = Ranked(d))
      /\ UNCHANGED <<life, holder>>
  BY DEF Identify, Goes, Calm
<1>2. Deaths /\ Unheard
  BY <1>1, NothingDies
<1>3. /\ job' \in [Runtimes -> Phases] /\ job'[r] = "verify"
      /\ \A s \in Runtimes \ {r} : job'[s] = job[s]
  BY <1>1, InvGives DEF Shape, Phases
<1>4. task \in Drafts /\ Fits(task) /\ task.pid \in Pids /\ task.pid # None
  BY <1>1, TaskOfIsAimedAt
<1>5. CASE copy' = copy
  <2>1. AimedAt(task, "verify", holder')
    BY <1>4 DEF AimedAt
  <2> QED  BY <1>1, <1>2, <1>3, <1>5, <2>1, PhaseMoves
<1>6. CASE answered /\ copy' = Ranked(d)
  <2>1. At(task.pid) \in Instances \cup {Stranger, None}
    BY <1>4, InvGives, AtFinds
  <2>2. OwnedBy(task, r, launching)
    BY <1>1, <1>6, TaskOfIsAimedAt
  <2> HIDE DEF task
  <2>3. /\ new \in Drafts /\ new # None /\ new.inst = task.inst /\ new.pid = task.pid
        /\ new.status = task.status /\ new.owned = task.owned /\ new.identity = At(task.pid)
    BY <1>4, <2>1, NoRecordAssumption DEF Drafts
  <2> HIDE DEF new
  <2>4. Fits(new)
    BY <1>4, <1>6, <2>3, IdentityFits
  <2>5. OwnedBy(new, r, launching)
    BY <2>2, <2>3 DEF OwnedBy
  <2>6. /\ d \in Copies /\ d[Disk] = Written(new) /\ d[Cache(r)] = Written(new)
        /\ d[Orphan(r)] = None /\ d[Memory(r)] = new
        /\ \A p \in Elsewhere(r) : d[p] = copy[p]
    BY <1>6, <2>3, MutateWrites
  <2> HIDE DEF d
  <2>7. FitsNext(new) /\ FitsNext(Written(new)) /\ ~Written(new).owned
    BY <1>1, <1>2, <2>3, <2>4, CalmIsOnward, DeathsKeepFitting,
     WrittenFits, WrittenIsUnowned DEF FitsNext
  <2>8. OwnedBy(new, r, launching')
    BY <1>1, <1>2, <2>3, <2>4, <2>5, CalmIsOnward, DeathsKeepOwning
  <2>9. KeptNext(d, r)
    <3>1. AimedAt(new, "verify", holder')
      BY <1>4, <2>3 DEF AimedAt
    <3> QED  BY <1>3, <2>3, <2>6, <2>8, <3>1 DEF KeptNext, Keeps, TaskIn
  <2>10. HeldNext(d)
    BY <1>1, <1>2, <1>3, <2>6, <2>7, <2>9, InvGives, CalmIsOnward, OnwardWrites
  <2>11. Shape' /\ Processes'
    BY <1>1, <1>2, <1>3, CalmShape
  <2>12. copy' = Ranked(d)
    BY <1>1, <1>6
  <2> QED  BY <2>10, <2>11, <2>12, Concluded
<1> QED  BY <1>1, <1>5, <1>6

(* A cancellation is confirmed once the process is known to be gone.       *)
LEMMA CancelledFits ==
  ASSUME NEW rec \in Drafts, Fits(rec), rec.pid # None, life[rec.inst] # "alive"
  PROVE  /\ AsCancelled(rec) \in Drafts /\ AsCancelled(rec).pid # None
         /\ AsCancelled(rec).status # "starting" /\ Fits(AsCancelled(rec))
<1> DEFINE new == AsCancelled(rec)
<1>1. /\ new \in Drafts /\ new.pid = rec.pid /\ new.inst = rec.inst
      /\ new.identity = rec.identity /\ new.status = "cancelled"
  BY StatusMarks DEF AsCancelled, Finished
<1> HIDE DEF new
<1>2. Fits(new)
  BY <1>1, StatusFits DEF Fits, Over
<1> QED  BY <1>1, <1>2 DEF new

LEMMA FindsGoneStep ==
  ASSUME Ready, NEW r \in Runtimes, FindsGone(r)
  PROVE  Inv'
<1> DEFINE task == TaskOf(r)
<1>1. /\ job[r] = "verify" /\ At(task.pid) = None
      /\ Concludes(r, "verify", Mutate(r, AsCancelled(task)))
  BY DEF FindsGone, Vanished
<1>2. task \in Drafts /\ Fits(task) /\ task.pid # None
  BY <1>1, TaskOfIsAimedAt
<1>3. life[task.inst] # "alive"
  BY <1>1, <1>2, InvGives, AliveIsFound
<1> HIDE DEF task
<1>4. /\ AsCancelled(task) \in Drafts /\ AsCancelled(task).pid # None
      /\ AsCancelled(task).status # "starting" /\ Fits(AsCancelled(task))
  BY <1>2, <1>3, CancelledFits
<1> QED  BY <1>1, <1>4, MutatedAndEnded

LEMMA RefusesStep ==
  ASSUME Ready, NEW r \in Runtimes, Refuses(r)
  PROVE  Inv'
<1> DEFINE task == TaskOf(r)
           rec == [AsStale(task) EXCEPT !.owned = task.owned]
           put == [copy EXCEPT ![Memory(r)] = rec]
           e == Persist(put, r, rec)
<1>1. job[r] = "verify" /\ Concludes(r, "verify", e)
  BY DEF Refuses
<1>2. task \in Drafts /\ Fits(task) /\ task.pid # None
  BY <1>1, TaskOfIsAimedAt
<1> HIDE DEF task
<1>3. /\ rec \in Drafts /\ rec.status = "stale" /\ rec.inst = task.inst
      /\ rec.pid = task.pid /\ rec.identity = task.identity
  <2>1. /\ AsStale(task) \in Drafts /\ AsStale(task).status = "stale"
        /\ AsStale(task).inst = task.inst /\ AsStale(task).pid = task.pid
        /\ AsStale(task).identity = task.identity /\ task.owned \in BOOLEAN
    BY <1>2, Marks DEF Drafts
  <2> QED  BY <2>1 DEF Drafts
<1> HIDE DEF rec
<1>4. Fits(rec) /\ OwnedBy(rec, r, launching)
  BY <1>2, <1>3, StatusFits DEF Fits, OwnedBy
<1>5. /\ put \in Copies /\ put[Memory(r)] = rec
      /\ \A p \in Places \ {Memory(r)} : put[p] = copy[p]
  BY <1>3, PlacesDiffer, InvGives DEF Copies
<1> HIDE DEF put
<1>6. /\ e \in Copies /\ e[Disk] = Written(rec) /\ e[Cache(r)] = Written(rec)
      /\ e[Memory(r)] = rec /\ \A p \in Elsewhere(r) : e[p] = copy[p]
  BY <1>3, <1>5, PersistWrites, PlacesDiffer DEF Elsewhere
<1> HIDE DEF e
<1>7. Fits(Written(rec)) /\ ~Written(rec).owned
  BY <1>3, <1>4, WrittenFits, WrittenIsUnowned DEF Fits
<1> QED  BY <1>1, <1>4, <1>6, <1>7, CancellationEnds

LEMMA LooksOn ==
  ASSUME Ready, NEW r \in Runtimes, NEW from, NEW to \in Phases \ {"none"},
         from # "none", Goes(r, from, to), UNCHANGED <<copy, life, holder>>,
         AimedAt(TaskOf(r), to, holder)
  PROVE  Inv'
<1>1. /\ job[r] # "none" /\ Calm /\ Deaths /\ Unheard
      /\ job' = [job EXCEPT ![r] = to]
  BY NothingDies DEF Goes, Calm
<1>2. /\ job' \in [Runtimes -> Phases] /\ job'[r] = to
      /\ \A s \in Runtimes \ {r} : job'[s] = job[s]
  BY <1>1, InvGives DEF Shape
<1>3. AimedAt(TaskOf(r), job'[r], holder')
  BY <1>2 DEF AimedAt
<1> QED  BY <1>1, <1>2, <1>3, PhaseMoves

LEMMA RecognisesStep ==
  ASSUME Ready, NEW r \in Runtimes, Recognises(r)
  PROVE  Inv'
<1>1. /\ Goes(r, "verify", "before") /\ UNCHANGED <<copy, life, holder>>
      /\ Same(TaskOf(r)) /\ ~Vanished(TaskOf(r)) /\ job[r] = "verify"
  BY DEF Recognises, Goes
<1>2. TaskOf(r).pid # None /\ TaskOf(r).identity # None
  BY <1>1, TaskOfIsAimedAt DEF Same, Vanished
<1>3. AimedAt(TaskOf(r), "before", holder)
  BY <1>2 DEF AimedAt
<1> QED  BY <1>1, <1>3, LooksOn DEF Phases

(* What has just been looked at and recognised may be struck at.           *)
LEMMA SameMayBeHit ==
  ASSUME Ready, NEW r \in Runtimes, job[r] \in {"before", "poll", "last poll"},
         Same(TaskOf(r)), NEW phase
  PROVE  AimedAt(TaskOf(r), phase, holder)
<1>1. TaskOf(r).pid \in Pids /\ TaskOf(r).pid # None /\ TaskOf(r).identity # None
  BY TaskOfIsAimedAt DEF AimedAt
<1>2. holder[TaskOf(r).pid] = Stranger => TaskOf(r).identity = Stranger
  BY <1>1, InvGives, AtFinds DEF Same
<1> QED  BY <1>1, <1>2 DEF AimedAt

LEMMA TakesAimStep ==
  ASSUME Ready, NEW r \in Runtimes, TakesAim(r)
  PROVE  Inv'
<1>1. /\ Goes(r, "before", "signal") /\ UNCHANGED <<copy, life, holder>>
      /\ Same(TaskOf(r)) /\ job[r] = "before"
  BY DEF TakesAim, Goes
<1> QED  BY <1>1, SameMayBeHit, LooksOn DEF Phases

LEMMA HoldsFireStep ==
  ASSUME Ready, NEW r \in Runtimes, HoldsFire(r)
  PROVE  Inv'
<1>1. Goes(r, "before", "expire") /\ UNCHANGED <<copy, life, holder>> /\ job[r] = "before"
  BY DEF HoldsFire, Goes
<1>2. AimedAt(TaskOf(r), "expire", holder)
  BY <1>1, TaskOfIsAimedAt DEF AimedAt
<1> QED  BY <1>1, <1>2, LooksOn DEF Phases

LEMMA StillThereStep ==
  ASSUME Ready, NEW r \in Runtimes, StillThere(r)
  PROVE  Inv'
<1>1. UNCHANGED <<copy, life, holder>>
  BY DEF StillThere
<1>2. CASE Goes(r, "poll", IF windows THEN "expire" ELSE "force") /\ Same(TaskOf(r))
  <2>1. job[r] = "poll"
    BY <1>2 DEF Goes
  <2>2. (IF windows THEN "expire" ELSE "force") \in Phases \ {"none"}
    BY DEF Phases
  <2> QED  BY <1>1, <1>2, <2>1, <2>2, SameMayBeHit, LooksOn
<1>3. CASE Goes(r, "poll", IF windows THEN "expire" ELSE "blind")
  <2>1. job[r] = "poll"
    BY <1>3 DEF Goes
  <2>2. (IF windows THEN "expire" ELSE "blind") \in Phases \ {"none"}
    BY DEF Phases
  <2>3. AimedAt(TaskOf(r), IF windows THEN "expire" ELSE "blind", holder)
    BY <2>1, TaskOfIsAimedAt DEF AimedAt
  <2> QED  BY <1>1, <1>3, <2>2, <2>3, LooksOn
<1>4. CASE Goes(r, "last poll", "expire") \/ Goes(r, "child poll", "expire")
  <2>1. AimedAt(TaskOf(r), "expire", holder)
    BY <1>4, TaskOfIsAimedAt DEF Goes, AimedAt
  <2> QED  BY <1>1, <1>4, <2>1, LooksOn DEF Phases
<1> QED  BY <1>2, <1>3, <1>4 DEF StillThere

LEMMA FindsReplacedStep ==
  ASSUME Ready, NEW r \in Runtimes, NEW from \in {"before", "poll", "last poll"},
         FindsReplaced(r, from)
  PROVE  Inv'
<1> DEFINE task == TaskOf(r)
<1>1. /\ job[r] = from /\ At(task.pid) # task.identity
      /\ Concludes(r, from, Mutate(r, AsCancelled(task)))
  BY DEF FindsReplaced, Same
<1>2. task \in Drafts /\ Fits(task) /\ task.pid # None /\ task.identity # None
  BY <1>1, TaskOfIsAimedAt DEF AimedAt
<1>3. life[task.inst] # "alive"
  BY <1>1, <1>2, InvGives, AliveIsFound DEF Fits, FitsIn
<1> HIDE DEF task
<1>4. /\ AsCancelled(task) \in Drafts /\ AsCancelled(task).pid # None
      /\ AsCancelled(task).status # "starting" /\ Fits(AsCancelled(task))
  BY <1>2, <1>3, CancelledFits
<1> QED  BY <1>1, <1>4, MutatedAndEnded

LEMMA StrikeStep ==
  ASSUME Ready, NEW r \in Runtimes, NEW mayLive \in BOOLEAN,
         NEW from \in {"signal", "force", "blind"}, NEW to \in {"poll", "last poll"},
         Goes(r, from, to), Hit(TaskOf(r).pid, mayLive), UNCHANGED copy
  PROVE  Inv'
<1>1. job[r] = from /\ Calm /\ job' = [job EXCEPT ![r] = to]
  BY DEF Goes, Calm
<1>2. /\ TaskOf(r).pid \in Pids /\ TaskOf(r).pid # None /\ TaskOf(r).identity # None
  BY <1>1, TaskOfIsAimedAt DEF AimedAt
<1>3. Deaths /\ Unheard
  BY <1>2, HitIsDeath
<1>4. /\ job' \in [Runtimes -> Phases] /\ job'[r] = to
      /\ \A s \in Runtimes \ {r} : job'[s] = job[s]
  BY <1>1, InvGives DEF Shape, Phases
<1>5. AimedAt(TaskOf(r), to, holder')
  BY <1>2 DEF AimedAt
<1> QED  BY <1>1, <1>3, <1>4, <1>5, PhaseMoves

LEMMA ChildExitedStep ==
  ASSUME Ready, NEW r \in Runtimes, ChildExited(r)
  PROVE  Inv'
<1> DEFINE task == TaskOf(r)
<1>1. /\ job[r] = "child poll" /\ life[task.inst] # "alive"
      /\ Concludes(r, "child poll", Mutate(r, AsCancelled(task)))
  BY DEF ChildExited
<1>2. task \in Drafts /\ Fits(task) /\ task.pid # None
  BY <1>1, TaskOfIsAimedAt
<1> HIDE DEF task
<1>3. /\ AsCancelled(task) \in Drafts /\ AsCancelled(task).pid # None
      /\ AsCancelled(task).status # "starting" /\ Fits(AsCancelled(task))
  BY <1>1, <1>2, CancelledFits
<1> QED  BY <1>1, <1>3, MutatedAndEnded

LEMMA ExpiresStep ==
  ASSUME Ready, NEW r \in Runtimes, Expires(r)
  PROVE  Inv'
<1> DEFINE task == TaskOf(r)
           new == Stamped([task EXCEPT !.status = "running"])
<1>1. job[r] = "expire" /\ Concludes(r, "expire", Mutate(r, new))
  BY DEF Expires
<1>2. task \in Drafts /\ Fits(task) /\ task.pid # None
  BY <1>1, TaskOfIsAimedAt
<1> HIDE DEF task
<1>3. /\ new \in Drafts /\ new.pid = task.pid /\ new.inst = task.inst
      /\ new.identity = task.identity /\ new.status = "running"
  BY <1>2, StatusMarks DEF Active
<1>4. Fits(new)
  BY <1>2, <1>3, StatusFits DEF Fits
<1> QED  BY <1>1, <1>2, <1>3, <1>4, MutatedAndEnded

LEMMA CancellingStep ==
  ASSUME Ready, NEW r \in Runtimes, Cancelling(r)
  PROVE  Inv'
<1>1. Signals(r) => Inv'
  BY StrikeStep DEF Signals
<1>2. Forces(r) => Inv'
  BY StrikeStep DEF Forces
<1> QED  BY <1>1, <1>2, IdentifyStep, FindsGoneStep, RefusesStep, RecognisesStep, TakesAimStep,
            HoldsFireStep, StillThereStep, ChildExitedStep, ExpiresStep, FindsReplacedStep
     DEF Cancelling

(***************************************************************************)
(* Registering a terminal, the callbacks of its process, and restarts.     *)
(***************************************************************************)
LEMMA RegisterStep ==
  ASSUME Ready, NEW r \in Runtimes, Register(r)
  PROVE  Inv'
<1> DEFINE i == registered + 1
           entry == [inst |-> i, status |-> "starting", pid |-> None,
                     identity |-> None, owned |-> TRUE, stamp |-> Now]
           put == Replace(copy, r, entry)
           d == Persist(put, r, entry)
<1>1. /\ registered < Starts /\ registered' = i /\ copy' = Ranked(d)
      /\ launching' = [launching EXCEPT ![r] = @ \cup {i}]
      /\ tracked' = [tracked EXCEPT ![r] = None]
      /\ UNCHANGED <<life, holder, parent, windows, capture, job>>
  BY DEF Register, table, platform
<1>2. /\ Shape /\ Processes /\ Starts \in Nat /\ i \in Instances /\ registered \in Nat
  BY <1>1, InvGives, StartsAssumption DEF Shape, Instances
<1>3. Disk \in Places /\ Memory(r) \in Places /\ Cache(r) \in Places /\ Orphan(r) \in Places
  BY PlacesDiffer
<1>4. entry \in Drafts /\ entry # None
  <2>1. "starting" \in Active \cup Finished /\ None \in Pids \cup {None}
        /\ None \in Instances \cup {Stranger, None} /\ TRUE \in BOOLEAN
    BY DEF Active
  <2>2. entry \in Drafts
    BY <1>2, <2>1, NowIsNat DEF Drafts
  <2> QED  BY <2>2, NoRecordAssumption
<1>5. Deaths
  BY <1>1, NothingDies
<1>6. \A s \in Runtimes : \A j \in Instances :
         j \in launching'[s] <=> (j \in launching[s] \/ (s = r /\ j = i))
  BY <1>1, <1>2 DEF Shape
<1>7. Onward
  <2>1. \A j \in Instances : j <= registered => j # i
    BY <1>2 DEF Instances
  <2> QED  BY <1>1, <1>2, <1>6, <2>1 DEF Onward
<1>8. FitsNext(entry)
  BY <1>1, <1>2 DEF FitsNext, FitsIn
<1>9. OwnedBy(entry, r, launching')
  <2>1. life[i] = "unborn" /\ \A s \in Runtimes : i \notin launching[s]
    <3>1. ~(i <= registered)
      BY <1>2
    <3> QED  BY <1>2, <3>1 DEF Processes
  <2> QED  BY <1>1, <1>2, <1>6, <2>1 DEF OwnedBy
<1> HIDE DEF entry
<1>10. /\ put \in Copies /\ put[Memory(r)] = entry
       /\ put[Orphan(r)] = IF job[r] # "none" /\ copy[Orphan(r)] = None
                             THEN copy[Memory(r)] ELSE copy[Orphan(r)]
       /\ \A p \in Places \ {Memory(r), Orphan(r)} : put[p] = copy[p]
  BY <1>4, InvGives, ReplacePuts
<1> HIDE DEF put
<1>11. /\ d \in Copies /\ d[Disk] = Written(entry) /\ d[Cache(r)] = Written(entry)
       /\ d[Memory(r)] = entry /\ d[Orphan(r)] = put[Orphan(r)]
       /\ \A p \in Elsewhere(r) : d[p] = copy[p]
  BY <1>3, <1>4, <1>10, PersistWrites, PlacesDiffer DEF Elsewhere
<1> HIDE DEF d
<1>12. FitsNext(Written(entry)) /\ ~Written(entry).owned
  BY <1>4, <1>8, WrittenFits, WrittenIsUnowned DEF FitsNext
<1>13. d[Orphan(r)] # None => FitsNext(d[Orphan(r)])
  BY <1>3, <1>5, <1>7, <1>10, <1>11, InvGives, DeathsKeepFitting
<1>14. KeptNext(d, r)
  <2>1. KeptNow(copy, r) /\ KeptNext(copy, r)
    BY <1>1, <1>5, <1>7, InvGives, DeathsKeepKeeping
  <2>2. job[r] # "none" => TaskIn(d, r) = TaskIn(copy, r)
    BY <1>10, <1>11, <2>1 DEF TaskIn, KeptNow, Keeps
  <2>3. d[Orphan(r)] # None => job[r] # "none"
    BY <1>10, <1>11, <2>1 DEF KeptNow, Keeps
  <2> QED  BY <1>1, <1>4, <1>9, <1>11, <2>1, <2>2, <2>3 DEF KeptNext, Keeps
<1>15. HeldNext(d)
  BY <1>1, <1>5, <1>7, <1>8, <1>11, <1>12, <1>13, <1>14, InvGives, OnwardWrites
<1>16. Shape'
  BY <1>1, <1>2, NoneIsApart DEF Shape
<1>17. Processes'
  <2>1. life[i] = "unborn" /\ \A s \in Runtimes : i \notin launching[s]
    <3>1. ~(i <= registered)
      BY <1>2
    <3> QED  BY <1>2, <3>1 DEF Processes
  <2>2. \A j \in Instances : j <= registered => j <= registered'
    BY <1>1, <1>2 DEF Instances
  <2>3. \A s \in Runtimes : launching'[s] \subseteq Instances
    BY <1>16 DEF Shape
  <2>4. i <= registered'
    BY <1>1, <1>2
  <2> HIDE DEF i
  <2>5. \A s \in Runtimes : \A j \in launching'[s] :
          /\ life'[j] = "unborn" /\ j <= registered'
          /\ \A t \in Runtimes \ {s} : j \notin launching'[t]
    BY <1>1, <1>2, <1>6, <2>1, <2>2, <2>3, <2>4 DEF Processes, Shape
  <2> QED  BY <1>1, <1>2, <2>2, <2>5 DEF Processes
<1> QED  BY <1>1, <1>15, <1>16, <1>17, Concluded

LEMMA PutWrites ==
  ASSUME Ready, NEW r \in Runtimes, NEW rec \in Drafts
  PROVE  LET d == Persist([copy EXCEPT ![Memory(r)] = rec], r, rec)
         IN  /\ d \in Copies
             /\ d[Disk] = Written(rec) /\ d[Cache(r)] = Written(rec)
             /\ d[Memory(r)] = rec /\ d[Orphan(r)] = copy[Orphan(r)]
             /\ \A p \in Elsewhere(r) : d[p] = copy[p]
<1> DEFINE put == [copy EXCEPT ![Memory(r)] = rec]
<1>1. /\ put \in Copies /\ put[Memory(r)] = rec
      /\ \A p \in Places \ {Memory(r)} : put[p] = copy[p]
  BY InvGives, PlacesDiffer DEF Copies
<1> HIDE DEF put
<1>2. Disk \in Places /\ Memory(r) \in Places /\ Cache(r) \in Places /\ Orphan(r) \in Places
  BY PlacesDiffer
<1>3. LET d == Persist(put, r, rec)
      IN  /\ d \in Copies
          /\ d[Disk] = Written(rec) /\ d[Cache(r)] = Written(rec)
          /\ d[Memory(r)] = rec /\ d[Orphan(r)] = copy[Orphan(r)]
          /\ \A p \in Elsewhere(r) : d[p] = copy[p]
  BY <1>1, <1>2, PersistWrites, PlacesDiffer DEF Elsewhere
<1> QED  BY <1>3 DEF put

(* A callback that knows no other pid of the runtime's record, and at most *)
(* tells its identity.                                                     *)
LEMMA CallbackPuts ==
  ASSUME Ready, NEW r \in Runtimes, Deaths, Onward, job' = job,
         copy[Memory(r)] # None,
         NEW rec \in Drafts, FitsNext(rec), OwnedBy(rec, r, launching'),
         rec.pid = copy[Memory(r)].pid,
         rec.identity = copy[Memory(r)].identity \/ copy[Memory(r)].identity = None
  PROVE  HeldNext(Persist([copy EXCEPT ![Memory(r)] = rec], r, rec))
<1> DEFINE d == Persist([copy EXCEPT ![Memory(r)] = rec], r, rec)
<1>1. /\ d \in Copies /\ d[Disk] = Written(rec) /\ d[Cache(r)] = Written(rec)
      /\ d[Memory(r)] = rec /\ d[Orphan(r)] = copy[Orphan(r)]
      /\ \A p \in Elsewhere(r) : d[p] = copy[p]
  BY PutWrites
<1> HIDE DEF d
<1>2. FitsNext(Written(rec)) /\ ~Written(rec).owned /\ rec # None
  BY WrittenFits, WrittenIsUnowned, NoRecordAssumption DEF FitsNext
<1>3. KeptNow(copy, r) /\ KeptNext(copy, r)
  BY InvGives, DeathsKeepKeeping
<1>4. d[Orphan(r)] # None => FitsNext(d[Orphan(r)])
  BY <1>1, InvGives, PlacesDiffer, DeathsKeepFitting
<1>5. ASSUME job[r] # "none"
      PROVE  AimedAt(TaskIn(d, r), job[r], holder')
  <2>1. AimedAt(TaskIn(copy, r), job[r], holder')
    BY <1>3, <1>5 DEF KeptNext, Keeps
  <2>2. CASE copy[Orphan(r)] # None
    BY <1>1, <2>1, <2>2 DEF TaskIn
  <2>3. CASE copy[Orphan(r)] = None
    <3>1. TaskIn(d, r) = rec /\ TaskIn(copy, r) = copy[Memory(r)]
      BY <1>1, <2>3 DEF TaskIn
    <3> QED  BY <2>1, <3>1 DEF AimedAt
  <2> QED  BY <2>2, <2>3
<1>6. KeptNext(d, r)
  BY <1>1, <1>2, <1>3, <1>5 DEF KeptNow, KeptNext, Keeps
<1>7. HeldNext(d)
  BY <1>1, <1>2, <1>4, <1>6, InvGives, OnwardWrites
<1> QED  BY <1>7 DEF d

LEMMA CurrentIs ==
  ASSUME Ready, NEW r \in Runtimes, NEW i, Current(r, i)
  PROVE  /\ copy[Memory(r)] # None /\ copy[Memory(r)] \in Drafts /\ Fits(copy[Memory(r)])
         /\ copy[Memory(r)].inst = i /\ OwnedBy(copy[Memory(r)], r, launching)
BY InvGives, PlacesDiffer DEF Current, KeptNow, Keeps

LEMMA CapturedStep ==
  ASSUME Ready, NEW r \in Runtimes, NEW i \in Instances, Captured(r, i)
  PROVE  Inv'
<1> DEFINE rec == copy[Memory(r)]
           known == Stamped([rec EXCEPT !.identity = At(rec.pid)])
           d == Persist([copy EXCEPT ![Memory(r)] = known], r, known)
           told == /\ Current(r, i) /\ rec.owned /\ rec.identity = None
                   /\ rec.pid # None /\ At(rec.pid) # None
<1>1. /\ i \in capture[r] /\ capture' = [capture EXCEPT ![r] = @ \ {i}]
      /\ copy' = copy \/ (told /\ copy' = Ranked(d))
      /\ UNCHANGED <<life, holder, parent, windows, tracked, registered, launching, job>>
  BY DEF Captured, table, platform
<1>2. Shape /\ Processes
  BY InvGives
<1>3. Deaths /\ Onward
  BY <1>1, <1>2, NothingDies, StartsAssumption DEF Onward, Shape
<1>4. Shape' /\ Processes'
  BY <1>1, <1>2 DEF Shape, Processes
<1>5. CASE copy' = copy
  <2>1. HeldNext(copy)
    <3>1. \A p \in Places : copy[p] # None => FitsNext(copy[p])
      BY <1>3, InvGives, DeathsKeepFitting
    <3>2. \A s \in Runtimes : KeptNext(copy, s)
      BY <1>1, <1>3, InvGives, DeathsKeepKeeping
    <3> QED  BY <3>1, <3>2, InvGives DEF HeldNext, Held, FitsNext, KeptNext
  <2>2. copy \in [Places -> Records \cup {None}] /\ copy' = copy
    BY <1>5 DEF Ready, Inv, TypeOK
  <2> QED  BY <1>4, <2>1, <2>2, Concluded
<1>6. CASE told /\ copy' = Ranked(d)
  <2>1. /\ rec # None /\ rec \in Drafts /\ Fits(rec) /\ rec.inst = i
        /\ OwnedBy(rec, r, launching) /\ rec.owned
    BY <1>6, CurrentIs
  <2>3. rec.pid \in Pids /\ rec.pid # None
    BY <1>6, <2>1 DEF Drafts
  <2>4. At(rec.pid) \in Instances \cup {Stranger, None}
    BY <2>3, InvGives, AtFinds
  <2> HIDE DEF rec
  <2>5. /\ known \in Drafts /\ known.inst = rec.inst /\ known.pid = rec.pid
        /\ known.status = rec.status /\ known.identity = At(rec.pid)
        /\ known.owned = rec.owned
    BY <2>1, <2>4, NowIsNat DEF Drafts, Stamped
  <2> HIDE DEF known
  <2>6. Fits(known)
    BY <1>6, <2>1, <2>3, <2>5, IdentityFits
  <2>7. OwnedBy(known, r, launching)
    BY <2>1, <2>5 DEF OwnedBy
  <2>8. FitsNext(known) /\ OwnedBy(known, r, launching')
    BY <1>3, <2>5, <2>6, <2>7, DeathsKeepFitting, DeathsKeepOwning
  <2>9. HeldNext(d)
    BY <1>1, <1>3, <1>6, <2>1, <2>5, <2>8, CallbackPuts DEF rec
  <2>10. copy' = Ranked(d)
    BY <1>1, <1>6
  <2> QED  BY <1>4, <2>9, <2>10, Concluded
<1> QED  BY <1>1, <1>5, <1>6

LEMMA UpdatedIs ==
  ASSUME NEW rec \in Drafts, NEW status \in {"running", "finished", "cancelled"},
         NEW pid \in Pids \cup {None}
  PROVE  LET new == Updated(rec, status, pid)
         IN  /\ new \in Drafts /\ new # None /\ new.inst = rec.inst /\ new.pid = pid
             /\ new.identity = rec.identity /\ new.owned = rec.owned
             /\ new.status = IF rec.status = "cancelled" THEN "cancelled" ELSE status
BY NowIsNat, NoRecordAssumption DEF Updated, Stamped, Drafts, Active, Finished

LEMMA ClosedStep ==
  ASSUME Ready, NEW r \in Runtimes, NEW i \in Instances, Closed(r, i)
  PROVE  Inv'
<1> DEFINE mem == copy[Memory(r)]
           rec == Updated(mem, "finished", mem.pid)
           d == Persist([copy EXCEPT ![Memory(r)] = rec], r, rec)
<1>1. /\ life[i] = "ended" /\ parent[i] = r /\ life' = [life EXCEPT ![i] = "reaped"]
      /\ holder' = [p \in Pids |-> IF holder[p] = i THEN None ELSE holder[p]]
      /\ tracked' = [tracked EXCEPT ![r] = IF @ = i THEN None ELSE @]
      /\ UNCHANGED <<parent, windows, registered, launching, job>>
      /\ Update(r, i, "finished", mem.pid)
  BY DEF Closed, platform
<1>2. Shape /\ Processes
  BY InvGives
<1>3. \A j \in Instances : life'[j] = IF j = i THEN "reaped" ELSE life[j]
  BY <1>1, <1>2 DEF Shape
<1>4. Deaths
  <2>1. /\ life' \in [Instances -> {"unborn", "alive", "ended", "reaped"}]
        /\ holder' \in [Pids -> Instances \cup {Stranger, None}]
    BY <1>1, <1>2 DEF Shape
  <2> QED  BY <1>1, <1>2, <1>3, <2>1, NoneIsApart DEF Deaths, Shape, Processes
<1>5. Onward
  BY <1>1, <1>2, StartsAssumption DEF Onward, Shape
<1>6. \A s \in Runtimes : i \notin launching[s]
  BY <1>1, <1>2 DEF Processes
<1>7. /\ capture' \in [Runtimes -> SUBSET Instances]
      /\ \A s \in Runtimes : capture'[s] \subseteq capture[s] \cup {i}
  BY <1>1, <1>2 DEF Update, Shape
<1>8. Shape'
  <2>1. tracked' \in [Runtimes -> Instances \cup {None}]
    BY <1>1, <1>2 DEF Shape
  <2>2. \A s \in Runtimes : tracked'[s] # None =>
          tracked'[s] = tracked[s] /\ tracked[s] # i
    <3>1. \A s \in Runtimes \ {r} : tracked[s] # i
      BY <1>1, <1>2, NoneIsApart DEF Shape
    <3> QED  BY <1>1, <1>2, <3>1 DEF Shape
  <2>3. \A s \in Runtimes : tracked'[s] # None =>
          parent'[tracked'[s]] = s /\ life'[tracked'[s]] \in {"alive", "ended"}
    BY <1>1, <1>2, <1>3, <2>1, <2>2 DEF Shape
  <2> QED  BY <1>1, <1>2, <1>4, <1>7, <2>1, <2>3 DEF Shape, Deaths
<1>9. Processes'
  <2>1. \A j \in Instances : life'[j] # "unborn" <=> life[j] # "unborn"
    BY <1>4 DEF Deaths
  <2>2. \A s \in Runtimes : capture[s] \subseteq Instances /\ launching[s] \subseteq Instances
    BY <1>2 DEF Shape
  <2> QED  BY <1>1, <1>2, <1>4, <1>7, <2>1, <2>2 DEF Processes, Deaths
<1>10. CASE ~Current(r, i)
  <2>1. copy' = copy
    BY <1>1, <1>10 DEF Update
  <2>2. \A p \in Places : copy[p] # None => FitsNext(copy[p])
    BY <1>4, <1>5, InvGives, DeathsKeepFitting
  <2>3. \A s \in Runtimes : KeptNext(copy, s)
    BY <1>1, <1>4, <1>5, InvGives, DeathsKeepKeeping
  <2>4. HeldNext(copy)
    BY <2>2, <2>3, InvGives DEF HeldNext, Held, FitsNext, KeptNext
  <2>5. copy \in [Places -> Records \cup {None}]
    BY DEF Ready, Inv, TypeOK
  <2> QED  BY <1>8, <1>9, <2>1, <2>4, <2>5, Concluded
<1>11. CASE Current(r, i)
  <2>1. /\ mem # None /\ mem \in Drafts /\ Fits(mem) /\ mem.inst = i
        /\ OwnedBy(mem, r, launching)
    BY <1>11, CurrentIs
  <2>2. copy' = Ranked(d)
    BY <1>1, <1>11 DEF Update
  <2> HIDE DEF mem
  <2>3. mem.pid \in Pids \cup {None}
    BY <2>1 DEF Drafts
  <2>4. /\ rec \in Drafts /\ rec.inst = i /\ rec.pid = mem.pid
        /\ rec.identity = mem.identity /\ rec.owned = mem.owned
        /\ rec.status \in {"cancelled", "finished"}
    BY <2>1, <2>3, UpdatedIs
  <2> HIDE DEF rec
  <2>5. FitsNext(mem)
    BY <1>4, <1>5, <2>1, DeathsKeepFitting
  <2>6. life'[i] # "alive"
    BY <1>3
  <2>7. FitsNext(rec)
    <3>1. \A s \in Runtimes : i \notin launching'[s]
      BY <1>1, <1>6
    <3> QED  BY <2>1, <2>4, <2>5, <2>6, <3>1 DEF FitsNext, FitsIn, Over
  <2>8. OwnedBy(rec, r, launching')
    BY <1>1, <2>1, <2>4 DEF OwnedBy
  <2>9. HeldNext(d)
    BY <1>1, <1>4, <1>5, <2>1, <2>4, <2>7, <2>8, CallbackPuts DEF mem
  <2> QED  BY <1>8, <1>9, <2>2, <2>9, Concluded
<1> QED  BY <1>10, <1>11

(***************************************************************************)
(* The launch of a registered instance, or its failure.                    *)
(***************************************************************************)
(* What both do: the instance is launched no more.                         *)
Launched(r, i) ==
  /\ i \in launching[r] /\ launching' = [launching EXCEPT ![r] = @ \ {i}]
  /\ registered' = registered /\ job' = job
  /\ life' \in [Instances -> {"unborn", "alive", "ended", "reaped"}]
  /\ holder' \in [Pids -> Instances \cup {Stranger, None}]
  /\ \A j \in Instances \ {i} : life'[j] = life[j]
  /\ \A p \in Pids : holder'[p] = holder[p] \/ (holder[p] = None /\ holder'[p] = i)

(* Nothing is said yet of the process of an instance that was not started. *)
LEMMA NotStartedYet ==
  ASSUME Ready, NEW r \in Runtimes, NEW i \in launching[r], NEW rec \in Drafts, Fits(rec),
         rec.inst = i
  PROVE  /\ rec.pid = None /\ rec.identity = None /\ life[i] = "unborn" /\ i <= registered
         /\ rec.status \in {"starting", "cancelled", "stale"}
         /\ i \in Instances /\ \A s \in Runtimes \ {r} : i \notin launching[s]
<1>1. /\ life[i] = "unborn" /\ i <= registered
      /\ \A s \in Runtimes \ {r} : i \notin launching[s]
  BY InvGives DEF Processes
<1>2. rec.status \in Active \cup Finished /\ i \in Instances
  BY DEF Drafts
<1> QED  BY <1>1, <1>2 DEF Fits, FitsIn, Active, Finished

LEMMA LaunchingGoes ==
  ASSUME Ready, NEW r \in Runtimes, NEW i, Launched(r, i)
  PROVE  \A s \in Runtimes : \A j \in Instances :
           j \in launching'[s] <=> (j \in launching[s] /\ ~(s = r /\ j = i))
BY InvGives DEF Launched, Shape

LEMMA LaunchedFits ==
  ASSUME Ready, NEW r \in Runtimes, NEW i \in Instances, Launched(r, i),
         NEW rec \in Drafts, Fits(rec),
         rec.inst = i /\ rec.status = "cancelled" =>
           Over(i, life', doubt', {"late", "abandoned"})
  PROVE  FitsNext(rec)
<1>1. \A s \in Runtimes : \A j \in Instances : j \in launching'[s] => j \in launching[s]
  BY LaunchingGoes
<1>2. CASE rec.inst = i
  <2>1. /\ rec.pid = None /\ rec.identity = None /\ i <= registered
        /\ rec.status \in {"starting", "cancelled", "stale"}
    BY <1>2, NotStartedYet DEF Launched
  <2> QED  BY <1>2, <2>1 DEF Launched, FitsNext, FitsIn
<1>3. CASE rec.inst # i
  <2>1. rec.inst \in Instances /\ rec.pid \in Pids \cup {None}
    BY DEF Drafts
  <2>2. life'[rec.inst] = life[rec.inst]
    BY <1>3, <2>1 DEF Launched
  <2>3. \A p \in Pids : holder[p] = rec.inst => holder'[p] = rec.inst
    BY <2>1, NoneIsApart DEF Launched
  <2>4. \A kinds : Over(rec.inst, life, doubt', kinds) => Over(rec.inst, life', doubt', kinds)
    BY <2>2 DEF Over
  <2> QED  BY <1>1, <2>1, <2>2, <2>3, <2>4 DEF Launched, Fits, FitsNext, FitsIn
<1> QED  BY <1>2, <1>3

LEMMA LaunchedOwning ==
  ASSUME Ready, NEW r \in Runtimes, NEW i \in Instances, Launched(r, i),
         NEW s \in Runtimes, NEW rec \in Drafts, OwnedBy(rec, s, launching),
         rec.inst # i \/ s # r, Fits(rec)
  PROVE  OwnedBy(rec, s, launching')
<1>1. rec.inst \in Instances
  BY DEF Drafts
<1>2. CASE rec.inst # i
  <2>1. \A t \in Runtimes : rec.inst \in launching'[t] <=> rec.inst \in launching[t]
    BY <1>1, <1>2, LaunchingGoes
  <2> QED  BY <2>1 DEF OwnedBy
<1>3. CASE rec.inst = i /\ s # r
  <2>1. rec.pid = None /\ i \in launching[r]
    BY <1>3, NotStartedYet DEF Launched
  <2>2. ~rec.owned
    BY <1>3, <2>1 DEF OwnedBy
  <2> QED  BY <2>2 DEF OwnedBy
<1> QED  BY <1>2, <1>3

LEMMA LaunchedAim ==
  ASSUME Ready, NEW r \in Runtimes, NEW i \in Instances, Launched(r, i),
         NEW s \in Runtimes, job[s] # "none"
  PROVE  /\ AimedAt(TaskIn(copy, s), job'[s], holder')
         /\ TaskIn(copy, s).inst # i
<1>1. /\ TaskIn(copy, s) \in Drafts /\ Fits(TaskIn(copy, s))
      /\ TaskIn(copy, s).pid \in Pids /\ TaskIn(copy, s).pid # None
      /\ AimedAt(TaskIn(copy, s), job[s], holder)
  BY TaskOfIsAimedAt
<1>2. i # Stranger
  BY NoneIsApart
<1>3. holder'[TaskIn(copy, s).pid] = Stranger => holder[TaskIn(copy, s).pid] = Stranger
  BY <1>1, <1>2 DEF Launched
<1>4. TaskIn(copy, s).inst # i
  BY <1>1, NotStartedYet DEF Launched
<1> QED  BY <1>1, <1>3, <1>4 DEF Launched, AimedAt

LEMMA LaunchedKeeps ==
  ASSUME Ready, NEW r \in Runtimes, NEW i \in Instances, Launched(r, i),
         NEW s \in Runtimes, s # r \/ ~Current(r, i)
  PROVE  KeptNext(copy, s)
<1>1. KeptNow(copy, s) /\ Memory(s) \in Places
  BY InvGives, PlacesDiffer
<1>2. ASSUME copy[Memory(s)] # None
      PROVE  OwnedBy(copy[Memory(s)], s, launching')
  <2>1. /\ copy[Memory(s)] \in Drafts /\ Fits(copy[Memory(s)])
        /\ OwnedBy(copy[Memory(s)], s, launching)
    BY <1>1, <1>2, InvGives DEF KeptNow, Keeps
  <2> QED  BY <1>2, <2>1, LaunchedOwning DEF Current
<1> QED  BY <1>1, <1>2, LaunchedAim DEF KeptNow, KeptNext, Keeps, Launched

(* The record of the launch, if the runtime's memory still is for it.      *)
LEMMA LaunchedPuts ==
  ASSUME Ready, NEW r \in Runtimes, NEW i \in Instances, Launched(r, i), Current(r, i),
         \A p \in Places : copy[p] # None => FitsNext(copy[p]),
         NEW rec \in Drafts, FitsNext(rec), OwnedBy(rec, r, launching')
  PROVE  HeldNext(Persist([copy EXCEPT ![Memory(r)] = rec], r, rec))
<1> DEFINE d == Persist([copy EXCEPT ![Memory(r)] = rec], r, rec)
<1>1. /\ d \in Copies /\ d[Disk] = Written(rec) /\ d[Cache(r)] = Written(rec)
      /\ d[Memory(r)] = rec /\ d[Orphan(r)] = copy[Orphan(r)]
      /\ \A p \in Elsewhere(r) : d[p] = copy[p]
  BY PutWrites
<1> HIDE DEF d
<1>2. FitsNext(Written(rec)) /\ ~Written(rec).owned /\ rec # None
  BY WrittenFits, WrittenIsUnowned, NoRecordAssumption DEF FitsNext
<1>3. KeptNow(copy, r) /\ Orphan(r) \in Places
  BY InvGives, PlacesDiffer
<1>4. d[Orphan(r)] # None => FitsNext(d[Orphan(r)])
  BY <1>1, <1>3
<1>5. ASSUME job[r] # "none"
      PROVE  AimedAt(TaskIn(d, r), job'[r], holder')
  <2>1. AimedAt(TaskIn(copy, r), job'[r], holder') /\ TaskIn(copy, r).inst # i
    BY <1>5, LaunchedAim
  <2>2. copy[Orphan(r)] # None
    BY <2>1 DEF TaskIn, Current
  <2> QED  BY <1>1, <2>1, <2>2 DEF TaskIn
<1>6. KeptNext(d, r)
  BY <1>1, <1>2, <1>3, <1>5 DEF KeptNow, KeptNext, Keeps, Launched
<1>7. \A s \in Runtimes \ {r} : Keeps(copy, s, holder', launching', job'[s])
  BY LaunchedKeeps DEF KeptNext
<1>8. \A p \in Elsewhere(r) : d[p] = copy[p] /\ (copy[p] # None => FitsNext(copy[p]))
  BY <1>1 DEF Elsewhere
<1>9. Unowned(copy)
  BY InvGives
<1>10. HeldNext(d)
  BY <1>1, <1>2, <1>4, <1>6, <1>7, <1>8, <1>9, OneRuntimeWrites
     DEF FitsNext, KeptNext, HeldNext
<1> QED  BY <1>10 DEF d

LEMMA LaunchedElsewhere ==
  ASSUME Ready, NEW r \in Runtimes, NEW i \in Instances, Launched(r, i), ~Current(r, i),
         \A p \in Places : copy[p] # None => FitsNext(copy[p])
  PROVE  HeldNext(copy)
<1>1. \A s \in Runtimes : KeptNext(copy, s)
  BY LaunchedKeeps
<1> QED  BY <1>1, InvGives DEF HeldNext, Held, FitsNext, KeptNext

LEMMA LateIsDoubted ==
  ASSUME Ready, NEW r \in Runtimes, NEW i \in Instances, Launched(r, i),
         Late(i) => Over(i, life', doubt', {"late", "abandoned"})
  PROVE  \A q \in Places : copy[q] # None => FitsNext(copy[q])
<1>1. SUFFICES ASSUME NEW q \in Places, copy[q] # None
               PROVE  FitsNext(copy[q])
  OBVIOUS
<1>2. copy[q].inst = i /\ copy[q].status = "cancelled" =>
        Over(i, life', doubt', {"late", "abandoned"})
  BY <1>1 DEF Late, Confirmed
<1>3. copy[q] \in Drafts /\ Fits(copy[q])
  BY <1>1, InvGives
<1> QED  BY <1>2, <1>3, LaunchedFits

LEMMA NothingLaunched ==
  ASSUME Ready, NEW r \in Runtimes, NEW i \in Instances, Launched(r, i), Shape', Processes',
         Late(i) => Over(i, life', doubt', {"late", "abandoned"}),
         ~Current(r, i), copy' = copy
  PROVE  Inv'
<1>1. HeldNext(copy)
  BY LateIsDoubted, LaunchedElsewhere
<1>2. copy \in [Places -> Records \cup {None}]
  BY DEF Ready, Inv, TypeOK
<1> QED  BY <1>1, <1>2, Concluded

(* The launch or its failure is recorded.                                  *)
LEMMA LaunchRecorded ==
  ASSUME Ready, NEW r \in Runtimes, NEW i \in Instances, Launched(r, i), Shape', Processes',
         NEW status \in {"running", "finished", "cancelled"}, NEW pid \in Pids \cup {None},
         pid # None => life'[i] # "unborn" /\ holder'[pid] = i,
         status = "running" => pid # None,
         status = "finished" => Over(i, life', doubt', {"unseen", "abandoned"}),
         status = "cancelled" \/ Late(i) => Over(i, life', doubt', {"late", "abandoned"}),
         Current(r, i), Update(r, i, status, pid)
  PROVE  Inv'
<1> DEFINE mem == copy[Memory(r)]
           rec == Updated(mem, status, pid)
           d == Persist([copy EXCEPT ![Memory(r)] = rec], r, rec)
<1>1. \A q \in Places : copy[q] # None => FitsNext(copy[q])
  BY LateIsDoubted
<1>2. /\ mem # None /\ mem \in Drafts /\ mem.inst = i /\ mem.identity = None
      /\ i <= registered
  BY CurrentIs, NotStartedYet DEF Launched
<1>3. copy' = Ranked(d)
  BY DEF Update
<1>4. mem.status = "cancelled" => Late(i)
  BY <1>2, PlacesDiffer DEF Late, Confirmed
<1>5. \A s \in Runtimes : i \notin launching'[s]
  BY InvGives, LaunchingGoes DEF Launched, Processes
<1> HIDE DEF mem
<1>6. /\ rec \in Drafts /\ rec.inst = i /\ rec.pid = pid /\ rec.identity = None
      /\ rec.status = IF mem.status = "cancelled" THEN "cancelled" ELSE status
  BY <1>2, UpdatedIs
<1> HIDE DEF rec
<1>7. FitsNext(rec)
  BY <1>2, <1>4, <1>5, <1>6 DEF FitsNext, FitsIn, Launched
<1>8. OwnedBy(rec, r, launching')
  BY <1>5, <1>6 DEF OwnedBy
<1>9. HeldNext(d)
  BY <1>1, <1>6, <1>7, <1>8, LaunchedPuts
<1> QED  BY <1>3, <1>9, Concluded

LEMMA SpawnFailsStep ==
  ASSUME Ready, NEW r \in Runtimes, NEW i \in Instances, SpawnFails(r, i)
  PROVE  Inv'
<1>1. /\ i \in launching[r] /\ launching' = [launching EXCEPT ![r] = @ \ {i}]
      /\ Update(r, i, "finished", None)
      /\ UNCHANGED <<life, holder, parent, windows, tracked, registered, job>>
  BY DEF SpawnFails, table, platform
<1>2. Shape /\ Processes
  BY InvGives
<1>3. Launched(r, i)
  BY <1>1, <1>2 DEF Launched, Shape
<1>4. life'[i] = "unborn"
  BY <1>1, <1>2 DEF Processes
<1>5. capture' = capture
  BY <1>1 DEF Update
<1>6. Shape' /\ Processes'
  <2>1. Shape'
    BY <1>1, <1>2, <1>5 DEF Shape
  <2>2. \A s \in Runtimes : launching'[s] \subseteq Instances
    BY <2>1 DEF Shape
  <2>3. \A s \in Runtimes : launching'[s] \subseteq launching[s]
    BY <1>1, <1>2 DEF Shape
  <2> QED  BY <1>1, <1>2, <1>5, <2>1, <2>2, <2>3 DEF Processes
<1>7. \A kinds : Over(i, life', doubt', kinds)
  BY <1>4 DEF Over
<1>8. CASE ~Current(r, i)
  BY <1>1, <1>3, <1>6, <1>7, <1>8, NothingLaunched DEF Update
<1>9. CASE Current(r, i)
  BY <1>1, <1>3, <1>6, <1>7, <1>9, LaunchRecorded
<1> QED  BY <1>8, <1>9

LEMMA BornIsLaunched ==
  ASSUME Ready, NEW r \in Runtimes, NEW i \in Instances, NEW p \in Pids,
         NEW condition \in {"alive", "ended"}, Born(r, i, p, condition),
         UNCHANGED <<registered, windows, job>>,
         capture' = capture \/ capture' = [capture EXCEPT ![r] = @ \cup {i}],
         tracked' = tracked \/ tracked' = [tracked EXCEPT ![r] = i]
  PROVE  /\ Launched(r, i) /\ Shape' /\ Processes' /\ p # None
         /\ life'[i] = condition /\ holder'[p] = i
<1>1. /\ holder[p] = None /\ i \in launching[r]
      /\ launching' = [launching EXCEPT ![r] = @ \ {i}]
      /\ life' = [life EXCEPT ![i] = condition]
      /\ holder' = [holder EXCEPT ![p] = i]
      /\ parent' = [parent EXCEPT ![i] = r]
  BY DEF Born
<1>3. Shape /\ Processes /\ life[i] = "unborn" /\ i <= registered /\ p # None
  BY <1>1, InvGives, NoneIsApart DEF Processes
<1>4. /\ life' \in [Instances -> {"unborn", "alive", "ended", "reaped"}]
      /\ holder' \in [Pids -> Instances \cup {Stranger, None}]
      /\ \A j \in Instances \ {i} : life'[j] = life[j]
      /\ life'[i] \in {"alive", "ended"} /\ life'[i] = condition
      /\ \A q \in Pids : holder'[q] = holder[q] \/ (holder[q] = None /\ holder'[q] = i)
      /\ holder'[p] = i
  BY <1>1, <1>3 DEF Shape
<1>5. Launched(r, i)
  BY <1>1, <1>4 DEF Launched
<1>6. /\ capture' \in [Runtimes -> SUBSET Instances]
      /\ \A s \in Runtimes : capture'[s] \subseteq capture[s] \cup {i}
  BY <1>3 DEF Shape
<1>7. \A s \in Runtimes : tracked[s] # i
  BY <1>3, NoneIsApart DEF Shape
<1>8. Shape'
  <2>1. /\ tracked' \in [Runtimes -> Instances \cup {None}]
        /\ parent' \in [Instances -> Runtimes \cup {None}]
    BY <1>1, <1>3 DEF Shape
  <2>2. ASSUME NEW s \in Runtimes, tracked'[s] # None
        PROVE  parent'[tracked'[s]] = s /\ life'[tracked'[s]] \in {"alive", "ended"}
    <3>1. CASE tracked'[s] = i
      <4>1. s = r /\ parent' = [parent EXCEPT ![i] = r] /\ life'[i] \in {"alive", "ended"}
        BY <1>1, <1>3, <1>4, <1>7, <3>1 DEF Shape
      <4> QED  BY <1>3, <3>1, <4>1 DEF Shape
    <3>2. CASE tracked'[s] # i
      <4>1. tracked'[s] = tracked[s] /\ tracked[s] \in Instances
        BY <1>1, <1>3, <2>1, <2>2, <3>2 DEF Shape
      <4>2. parent'[tracked[s]] = parent[tracked[s]]
        BY <1>1, <1>3, <3>2, <4>1 DEF Shape
      <4> QED  BY <1>3, <1>4, <2>2, <3>2, <4>1, <4>2 DEF Shape
    <3> QED  BY <3>1, <3>2
  <2> QED  BY <1>1, <1>3, <1>4, <1>6, <2>1, <2>2 DEF Shape
<1>9. Processes'
  <2>1. \A s \in Runtimes : launching'[s] \subseteq Instances /\ capture[s] \subseteq Instances
                            /\ launching'[s] \subseteq launching[s]
    BY <1>1, <1>3, <1>8 DEF Shape
  <2>2. \A s \in Runtimes : i \notin launching'[s]
    BY <1>1, <1>3, <1>5, LaunchingGoes DEF Processes
  <2>3. \A s \in Runtimes : \A j \in launching'[s] : life'[j] = life[j]
    BY <1>4, <2>1, <2>2
  <2>4. \A s \in Runtimes : \A j \in launching'[s] :
          /\ life'[j] = "unborn" /\ j <= registered'
          /\ \A t \in Runtimes \ {s} : j \notin launching'[t]
    BY <1>1, <1>3, <2>1, <2>3 DEF Processes
  <2>5. \A s \in Runtimes : \A j \in capture'[s] : life'[j] # "unborn"
    BY <1>3, <1>4, <1>6, <2>1 DEF Processes
  <2>6. \A j \in Instances : life'[j] # "unborn" => j <= registered'
    BY <1>1, <1>3, <1>4 DEF Processes
  <2>7. ASSUME NEW q \in Pids, holder'[q] \in Instances
        PROVE  life'[holder'[q]] \in {"alive", "ended"}
    <3>1. CASE holder'[q] = i
      <4>1. holder[q] # i
        BY <1>3 DEF Processes
      <4> QED  BY <1>4, <3>1, <4>1
    <3>2. CASE holder'[q] # i
      <4>1. holder[q] = holder'[q] /\ life'[holder'[q]] = life[holder'[q]]
        BY <1>4, <2>7, <3>2
      <4> QED  BY <1>3, <2>7, <4>1 DEF Processes
    <3> QED  BY <3>1, <3>2
  <2> QED  BY <2>4, <2>5, <2>6, <2>7 DEF Processes
<1> QED  BY <1>3, <1>4, <1>5, <1>8, <1>9

LEMMA LaunchStep ==
  ASSUME Ready, NEW r \in Runtimes, NEW i \in Instances, Launch(r, i)
  PROVE  Inv'
<1>1. PICK p \in Pids : Born(r, i, p, "alive") /\ Update(r, i, "running", p)
  BY DEF Launch
<1>2. /\ tracked' = tracked \/ tracked' = [tracked EXCEPT ![r] = i]
      /\ doubt' = Doubted(i, {d \in {"late"} : Late(i)})
      /\ UNCHANGED <<registered, windows, job>>
  BY DEF Launch
<1>3. capture' = capture \/ capture' = [capture EXCEPT ![r] = @ \cup {i}]
  BY <1>1 DEF Update
<1>4. /\ Launched(r, i) /\ Shape' /\ Processes' /\ p # None
      /\ life'[i] = "alive" /\ holder'[p] = i
  BY <1>1, <1>2, <1>3, BornIsLaunched
<1>5. Late(i) => Over(i, life', doubt', {"late", "abandoned"})
  BY <1>2 DEF Doubted, Over, Doubts
<1>6. CASE ~Current(r, i)
  BY <1>1, <1>4, <1>5, <1>6, NothingLaunched DEF Update
<1>7. CASE Current(r, i)
  BY <1>1, <1>4, <1>5, <1>7, LaunchRecorded
<1> QED  BY <1>6, <1>7

LEMMA LaunchGivenUpStep ==
  ASSUME Ready, NEW r \in Runtimes, NEW i \in Instances, LaunchGivenUp(r, i)
  PROVE  Inv'
<1>1. PICK p \in Pids, condition \in {"alive", "ended"} :
        /\ Born(r, i, p, condition)
        /\ \/ ~Current(r, i) /\ UNCHANGED <<copy, capture, tracked>>
           \/ /\ Current(r, i) /\ Update(r, i, "cancelled", p)
              /\ tracked' = [tracked EXCEPT ![r] = i]
           \/ /\ Current(r, i) /\ Update(r, i, "finished", None)
              /\ UNCHANGED tracked
  BY DEF LaunchGivenUp
<1>2. /\ doubt' = Doubted(i, {d \in {"late"} : Late(i)} \cup {d \in {"abandoned"} : Current(r, i)})
      /\ UNCHANGED <<registered, windows, job>>
  BY DEF LaunchGivenUp
<1>3. /\ capture' = capture \/ capture' = [capture EXCEPT ![r] = @ \cup {i}]
      /\ tracked' = tracked \/ tracked' = [tracked EXCEPT ![r] = i]
  BY <1>1 DEF Update
<1>4. /\ Launched(r, i) /\ Shape' /\ Processes' /\ p # None
      /\ life'[i] = condition /\ holder'[p] = i
  BY <1>1, <1>2, <1>3, BornIsLaunched
<1>5. Late(i) => Over(i, life', doubt', {"late", "abandoned"})
  BY <1>2 DEF Doubted, Over, Doubts
<1>6. Current(r, i) => /\ Over(i, life', doubt', {"late", "abandoned"})
                       /\ Over(i, life', doubt', {"unseen", "abandoned"})
  BY <1>2 DEF Doubted, Over, Doubts
<1>7. CASE ~Current(r, i)
  BY <1>1, <1>4, <1>5, <1>7, NothingLaunched
<1>8. CASE Current(r, i)
  <2>1. life'[i] # "unborn"
    BY <1>4
  <2>2. CASE Update(r, i, "cancelled", p)
    BY <1>4, <1>6, <1>8, <2>1, <2>2, LaunchRecorded
  <2>3. CASE Update(r, i, "finished", None)
    BY <1>4, <1>6, <1>8, <2>3, LaunchRecorded
  <2> QED  BY <1>1, <1>8, <2>2, <2>3
<1> QED  BY <1>7, <1>8

(***************************************************************************)
(* Pids that go to strangers, and restarts.                                *)
(***************************************************************************)
LEMMA GivenAwayStep ==
  ASSUME Ready, NEW p \in Pids, GivenAway(p)
  PROVE  Inv'
<1>1. /\ holder[p] = None /\ ~Looking(p) /\ holder' = [holder EXCEPT ![p] = Stranger]
      /\ UNCHANGED <<copy, life, parent, windows, tracked, registered, launching, capture, job>>
  BY DEF GivenAway
<1>2. Shape /\ Processes
  BY InvGives
<1>3. \A q \in Pids : holder'[q] = IF q = p THEN Stranger ELSE holder[q]
  BY <1>1, <1>2 DEF Shape
<1>4. ASSUME NEW q \in Places, copy[q] # None
      PROVE  FitsNext(copy[q])
  <2>1. Fits(copy[q]) /\ copy[q] \in Drafts
    BY <1>4, InvGives
  <2>2. copy[q].inst \in Instances /\ copy[q].pid \in Pids \cup {None}
    BY <2>1 DEF Drafts
  <2>3. copy[q].pid # None /\ life[copy[q].inst] = "alive" => holder'[copy[q].pid] = copy[q].inst
    BY <1>1, <1>3, <2>1, <2>2, NoneIsApart DEF Fits, FitsIn
  <2>4. \A kinds : Over(copy[q].inst, life, doubt', kinds) =>
                     Over(copy[q].inst, life', doubt', kinds)
    BY <1>1 DEF Over
  <2> QED  BY <1>1, <2>1, <2>3, <2>4 DEF Fits, FitsNext, FitsIn
<1>5. ASSUME NEW s \in Runtimes
      PROVE  KeptNext(copy, s)
  <2>1. KeptNow(copy, s)
    BY InvGives
  <2>2. ASSUME job[s] # "none"
        PROVE  AimedAt(TaskIn(copy, s), job[s], holder')
    <3>1. /\ AimedAt(TaskOf(s), job[s], holder) /\ TaskOf(s) = TaskIn(copy, s)
          /\ TaskOf(s).pid \in Pids
      BY <2>2, TaskOfIsAimedAt
    <3>2. job[s] \in {"signal", "force"} => TaskOf(s).pid # p
      BY <1>1 DEF Looking
    <3> QED  BY <1>3, <3>1, <3>2 DEF AimedAt
  <2> QED  BY <1>1, <2>1, <2>2 DEF KeptNow, KeptNext, Keeps, OwnedBy
<1>6. HeldNext(copy)
  BY <1>4, <1>5, InvGives DEF HeldNext, Held, FitsNext, KeptNext
<1>7. Shape' /\ Processes'
  <2>1. Shape'
    BY <1>1, <1>2 DEF Shape
  <2> QED  BY <1>1, <1>2, <1>3, <2>1, NoneIsApart DEF Processes
<1>8. copy \in [Places -> Records \cup {None}]
  BY DEF Ready, Inv, TypeOK
<1> QED  BY <1>1, <1>6, <1>7, <1>8, Concluded

LEMMA RestartStep ==
  ASSUME Ready, NEW r \in Runtimes, Restart(r)
  PROVE  Inv'
<1> DEFINE d == [copy EXCEPT ![Memory(r)] = None, ![Cache(r)] = None, ![Orphan(r)] = None]
<1>1. /\ copy' = Ranked(d)
      /\ life' = [i \in Instances |-> IF parent[i] = r /\ life[i] = "ended"
                                        THEN "reaped" ELSE life[i]]
      /\ holder' = [p \in Pids |-> IF holder[p] \in Instances /\ life'[holder[p]] = "reaped"
                                     THEN None ELSE holder[p]]
      /\ parent' = [i \in Instances |-> IF parent[i] = r THEN None ELSE parent[i]]
      /\ tracked' = [tracked EXCEPT ![r] = None]
      /\ launching' = [launching EXCEPT ![r] = {}]
      /\ capture' = [capture EXCEPT ![r] = {}]
      /\ job' = [job EXCEPT ![r] = "none"]
      /\ UNCHANGED <<windows, registered>>
  BY DEF Restart, platform
<1>2. Shape /\ Processes
  BY InvGives
<1>3. \A i \in Instances : life'[i] = IF parent[i] = r /\ life[i] = "ended"
                                        THEN "reaped" ELSE life[i]
  BY <1>1
<1>4. Deaths
  <2>1. life' \in [Instances -> {"unborn", "alive", "ended", "reaped"}]
    BY <1>1, <1>2 DEF Shape
  <2>2. \A p \in Pids : holder'[p] = IF holder[p] \in Instances /\ life'[holder[p]] = "reaped"
                                       THEN None ELSE holder[p]
    BY <1>1
  <2>3. holder' \in [Pids -> Instances \cup {Stranger, None}]
    BY <1>1, <1>2, <2>2 DEF Shape
  <2> QED  BY <1>2, <1>3, <2>1, <2>2, <2>3, NoneIsApart DEF Deaths, Processes
<1>5. /\ \A s \in Runtimes : launching'[s] = IF s = r THEN {} ELSE launching[s]
      /\ \A s \in Runtimes : capture'[s] = IF s = r THEN {} ELSE capture[s]
      /\ \A s \in Runtimes : tracked'[s] = IF s = r THEN None ELSE tracked[s]
      /\ \A s \in Runtimes : job'[s] = IF s = r THEN "none" ELSE job[s]
  BY <1>1, <1>2 DEF Shape
<1>6. /\ d \in Copies /\ d[Memory(r)] = None /\ d[Cache(r)] = None /\ d[Orphan(r)] = None
      /\ d[Disk] = copy[Disk] /\ \A p \in Elsewhere(r) : d[p] = copy[p]
  BY InvGives, PlacesDiffer DEF Copies, Elsewhere
<1> HIDE DEF d
<1>7. ASSUME NEW rec \in Drafts, Fits(rec)
      PROVE  FitsNext(rec)
  <2>1. rec.inst \in Instances /\ rec.pid \in Pids \cup {None}
    BY <1>7 DEF Drafts
  <2>2. \A s \in Runtimes : rec.inst \in launching'[s] => rec.inst \in launching[s]
    BY <1>5
  <2>3. /\ life'[rec.inst] = "unborn" <=> life[rec.inst] = "unborn"
        /\ life'[rec.inst] = "alive" => life[rec.inst] = "alive"
    BY <2>1, <1>4 DEF Deaths
  <2>4. rec.pid # None /\ life'[rec.inst] = "alive" => holder'[rec.pid] = rec.inst
    BY <1>4, <1>7, <2>1, <2>3 DEF Deaths, Fits, FitsIn
  <2>5. \A kinds : Over(rec.inst, life, doubt', kinds) => Over(rec.inst, life', doubt', kinds)
    BY <2>3 DEF Over
  <2> QED  BY <1>1, <1>7, <2>2, <2>3, <2>4, <2>5 DEF Fits, FitsNext, FitsIn
<1>8. ASSUME NEW s \in Runtimes, s # r
      PROVE  KeptNext(copy, s)
  <2>1. KeptNow(copy, s) /\ job'[s] = job[s] /\ Memory(s) \in Places
    BY <1>5, <1>8, InvGives, PlacesDiffer
  <2>2. ASSUME copy[Memory(s)] # None
        PROVE  OwnedBy(copy[Memory(s)], s, launching')
    <3>1. OwnedBy(copy[Memory(s)], s, launching)
      BY <2>1, <2>2 DEF KeptNow, Keeps
    <3> QED  BY <1>5, <1>8, <3>1 DEF OwnedBy
  <2>3. ASSUME job[s] # "none"
        PROVE  AimedAt(TaskIn(copy, s), job[s], holder')
    <3>1. /\ AimedAt(TaskIn(copy, s), job[s], holder) /\ TaskIn(copy, s).pid \in Pids
      BY <2>3, TaskOfIsAimedAt
    <3>2. holder'[TaskIn(copy, s).pid] = Stranger => holder[TaskIn(copy, s).pid] = Stranger
      BY <1>4, <3>1, NoneIsApart DEF Deaths
    <3> QED  BY <3>1, <3>2 DEF AimedAt
  <2> QED  BY <2>1, <2>2, <2>3 DEF KeptNow, KeptNext, Keeps
<1>9. KeptNext(d, r)
  BY <1>5, <1>6 DEF KeptNext, Keeps
<1>10. HeldNext(d)
  <2>1. \A p \in Elsewhere(r) : d[p] = copy[p] /\ (copy[p] # None => FitsNext(copy[p]))
    BY <1>6, <1>7, InvGives DEF Elsewhere
  <2>2. /\ copy[Disk] # None => FitsNext(copy[Disk]) /\ ~copy[Disk].owned
        /\ Unowned(copy)
    BY <1>7, InvGives, PlacesDiffer DEF Unowned
  <2>3. \A s \in Runtimes \ {r} : Keeps(copy, s, holder', launching', job'[s])
    BY <1>8 DEF KeptNext
  <2> QED  BY <1>6, <1>9, <2>1, <2>2, <2>3, OneRuntimeWrites DEF FitsNext, KeptNext, HeldNext
<1>11. Shape'
  <2>1. parent' \in [Instances -> Runtimes \cup {None}]
    BY <1>1, <1>2 DEF Shape
  <2>2. ASSUME NEW s \in Runtimes, tracked'[s] # None
        PROVE  parent'[tracked'[s]] = s /\ life'[tracked'[s]] \in {"alive", "ended"}
    <3>1. /\ s # r /\ tracked'[s] = tracked[s] /\ tracked[s] \in Instances
          /\ parent[tracked[s]] = s /\ life[tracked[s]] \in {"alive", "ended"}
      BY <1>2, <1>5, <2>2 DEF Shape
    <3> QED  BY <1>1, <1>3, <3>1
  <2>3. /\ tracked' \in [Runtimes -> Instances \cup {None}]
        /\ launching' \in [Runtimes -> SUBSET Instances]
        /\ capture' \in [Runtimes -> SUBSET Instances]
        /\ job' \in [Runtimes -> Phases]
    BY <1>1, <1>2 DEF Shape, Phases
  <2> QED  BY <1>1, <1>2, <1>4, <2>1, <2>2, <2>3 DEF Shape, Deaths
<1>12. Processes'
  <2>1. \A s \in Runtimes : launching[s] \subseteq Instances /\ capture[s] \subseteq Instances
    BY <1>2 DEF Shape
  <2>2. \A s \in Runtimes : launching'[s] \subseteq launching[s] /\ capture'[s] \subseteq capture[s]
    BY <1>5
  <2>3. \A i \in Instances : life'[i] = "unborn" <=> life[i] = "unborn"
    BY <1>4 DEF Deaths
  <2> QED  BY <1>1, <1>2, <1>4, <2>1, <2>2, <2>3 DEF Processes, Deaths
<1> QED  BY <1>1, <1>10, <1>11, <1>12, Concluded

(***************************************************************************)
(* The theorems.                                                           *)
(***************************************************************************)
LEMMA Beginning ==
  ASSUME Init
  PROVE  Inv
<1>1. /\ \A p \in Places : copy[p] = None
      /\ copy \in [Places -> Records \cup {None}] /\ copy \in Copies
  BY DEF Init, Copies
<1>2. 0 \in 0..Starts
  BY StartsAssumption
<1>3. TypeOK
  BY <1>1, <1>2, PlacesDiffer DEF Init, TypeOK, Phases, Doubts
<1>4. Processes
  BY NoneIsApart DEF Init, Processes
<1>5. Held(copy, life, holder, registered, launching, doubt, job)
  BY <1>1, PlacesDiffer DEF Init, Held, Unowned, Keeps
<1> QED  BY <1>3, <1>4, <1>5 DEF Inv

LEMMA Stuttering ==
  ASSUME Inv, UNCHANGED vars
  PROVE  Inv'
BY DEF vars, table, platform, Inv, TypeOK, Processes

(***************************************************************************)
(* What every step may presuppose.                                         *)
(***************************************************************************)
Grows ==
  /\ doubt' \in [Doubts -> SUBSET Instances]
  /\ \A d \in Doubts : doubt[d] \subseteq doubt'[d]

LEMMA DoubtsGrow ==
  ASSUME Inv, NEW i \in Instances, NEW kinds, doubt' = Doubted(i, kinds)
  PROVE  Grows
<1>1. doubt \in [Doubts -> SUBSET Instances]
  BY DEF Inv, TypeOK
<1> QED  BY <1>1 DEF Doubted, Grows

LEMMA DoubtsStay ==
  ASSUME Inv, doubt' = doubt
  PROVE  Grows
BY DEF Grows, Inv, TypeOK

LEMMA SourceIsDraft ==
  ASSUME Inv, NEW r \in Runtimes, NEW seen \in Scans(r)
  PROVE  /\ Source(r, seen) \in Drafts \cup {None}
         /\ copy \in Copies /\ seen \in Drafts \cup {None}
BY PlacesDiffer DEF Inv, Held, Copies, Scans, Source

LEMMA LookingUpDoubts ==
  ASSUME Inv, NEW r \in Runtimes, NEW seen \in Scans(r), NEW look, LooksUp(r, seen, look)
  PROVE  Grows
<1>1. doubt \in [Doubts -> SUBSET Instances]
  BY DEF Inv, TypeOK
<1>2. Running(Source(r, seen)) => Source(r, seen).inst \in Instances
  BY SourceIsDraft DEF Running, Drafts
<1>3. doubt' = doubt \/
        (/\ Source(r, seen).inst \in Instances
         /\ doubt' = [doubt EXCEPT !["unseen"] = @ \cup {Source(r, seen).inst}])
  BY <1>2 DEF LooksUp
<1> QED  BY <1>1, <1>3 DEF Grows

LEMMA RefreshedIsDraft ==
  ASSUME Inv, NEW r \in Runtimes, NEW seen \in Scans(r), NEW look
  PROVE  Refreshed(r, seen, look)[Memory(r)] \in Drafts \cup {None}
<1> DEFINE mem == copy[Memory(r)]
           scanned == [copy EXCEPT ![Cache(r)] = seen]
           source == Source(r, seen)
           next == Reconciled(source, look)
           held == IF next = mem THEN scanned ELSE Replace(scanned, r, next)
           result == Refreshed(r, seen, look)
<1>1. /\ copy \in Copies /\ seen \in Drafts \cup {None} /\ source \in Drafts \cup {None}
      /\ mem \in Drafts \cup {None}
      /\ Memory(r) \in Places /\ Cache(r) \in Places /\ Memory(r) # Cache(r)
      /\ Memory(r) # Disk
  BY SourceIsDraft, PlacesDiffer DEF Copies
<1>2. scanned \in Copies /\ scanned[Memory(r)] = mem
  BY <1>1 DEF Copies
<1>3. result = CASE source = None -> scanned
                 [] source # None /\ next = source /\ None \in {mem, seen} -> held
                 [] OTHER -> Persist(held, r, next)
  BY DEF Refreshed
<1> HIDE DEF scanned, source, result, mem
<1>4. source # None => next \in Drafts
  BY <1>1, Marks DEF Reconciled
<1> HIDE DEF next
<1>5. source # None => held \in Copies /\ held[Memory(r)] = next
  BY <1>2, <1>4, ReplacePuts
<1> HIDE DEF held
<1>6. source # None => Persist(held, r, next)[Memory(r)] = next
  BY <1>1, <1>4, <1>5, PersistWrites
<1> QED  BY <1>1, <1>2, <1>3, <1>4, <1>5, <1>6 DEF result

LEMMA TaskHasPid ==
  ASSUME Inv, NEW r \in Runtimes, job[r] # "none"
  PROVE  TaskOf(r).pid \in Pids
<1>1. /\ copy \in Copies /\ copy[Memory(r)] # None /\ TaskIn(copy, r).pid # None
  BY DEF Inv, Held, Keeps, AimedAt
<1>2. TaskIn(copy, r) \in Drafts
  BY <1>1, PlacesDiffer DEF TaskIn, Copies
<1>3. TaskOf(r) = TaskIn(copy, r)
  BY DEF TaskOf, TaskIn
<1> QED  BY <1>1, <1>2, <1>3 DEF Drafts

LEMMA CancellingIsReady ==
  ASSUME Inv, NEW r \in Runtimes, Cancelling(r)
  PROVE  /\ doubt' = doubt /\ recent' = recent
         /\ \/ strikes' = strikes
            \/ TaskOf(r).pid \in Pids /\ strikes' = strikes \cup {TaskOf(r).pid}
<1>1. CASE Signals(r)
  BY <1>1, TaskHasPid DEF Signals, Goes, Strikes
<1>2. CASE ~Signals(r)
  BY <1>2 DEF Cancelling, Identify, FindsGone, Refuses, Recognises, TakesAim, HoldsFire, Forces,
              StillThere, ChildExited, Expires, FindsReplaced, Concludes, Goes
<1> QED  BY <1>1, <1>2

LEMMA NextIsReady ==
  ASSUME Inv, Next
  PROVE  Ready
<1>1. recent \subseteq Pids /\ strikes \subseteq Pids
  BY DEF Inv, TypeOK
<1> DEFINE Listed == recent' \subseteq Pids /\ strikes' \subseteq Pids
<1>2. ASSUME NEW r \in Runtimes, List(r)
      PROVE  Grows /\ Listed
  BY <1>1, <1>2, LookingUpDoubts DEF List, Lists, table, platform
<1>3. ASSUME NEW r \in Runtimes, Register(r) \/ Restart(r)
      PROVE  Grows /\ Listed
  BY <1>1, <1>3, DoubtsStay DEF Register, Restart, table, platform
<1>4. ASSUME NEW r \in Runtimes, Cancelling(r)
      PROVE  Grows /\ Listed
  BY <1>1, <1>4, CancellingIsReady, DoubtsStay
<1>5. ASSUME NEW r \in Runtimes, NEW seen \in Scans(r), NEW look \in AllLooks,
             Cancel(r, seen, look)
      PROVE  Grows /\ Listed
  <2> DEFINE rec == Refreshed(r, seen, look)[Memory(r)]
             child == Handled(r, rec) /\ life[rec.inst] = "alive"
  <2>1. /\ InUse(rec) /\ LooksUp(r, seen, look) /\ UNCHANGED recent
        /\ child => Strikes(rec.pid)
        /\ ~child => UNCHANGED strikes
    BY <1>5 DEF Cancel
  <2>2. rec \in Drafts \cup {None}
    BY RefreshedIsDraft
  <2> HIDE DEF rec
  <2>3. child => rec.pid \in Pids
    BY <2>1, <2>2 DEF InUse, Handled, Drafts
  <2> HIDE DEF child
  <2>4. Listed
    BY <1>1, <2>1, <2>3 DEF Strikes
  <2> QED  BY <2>1, <2>4, LookingUpDoubts
<1>6. ASSUME NEW r \in Runtimes, NEW i \in Instances, Launch(r, i) \/ LaunchGivenUp(r, i)
      PROVE  Grows /\ Listed
  BY <1>1, <1>6, DoubtsGrow DEF Launch, LaunchGivenUp, Born, Strikes
<1>7. ASSUME NEW r \in Runtimes, NEW i \in Instances,
             SpawnFails(r, i) \/ Captured(r, i) \/ Closed(r, i)
      PROVE  Grows /\ Listed
  BY <1>1, <1>7, DoubtsStay DEF SpawnFails, Captured, Closed, table, platform
<1>8. ASSUME NEW i \in Instances, Ends(i)
      PROVE  Grows /\ Listed
  BY <1>1, <1>8, DoubtsStay DEF Ends, platform
<1>9. ASSUME NEW p \in Pids, GivenAway(p) \/ Settles(p) \/ Taskkill(p)
      PROVE  Grows /\ Listed
  BY <1>1, <1>9, DoubtsStay DEF GivenAway, Settles, Taskkill
<1>10. Grows /\ Listed
  BY <1>2, <1>3, <1>4, <1>5, <1>6, <1>7, <1>8, <1>9 DEF Next
<1> QED  BY <1>10 DEF Ready, Grows

(* The inductive invariant holds in every reachable state.                 *)
THEOREM Invariance ==
  Spec => []Inv
<1>1. Init => Inv
  BY Beginning
<1>2. Inv /\ [Next]_vars => Inv'
  <2>1. SUFFICES ASSUME Inv, Next
                 PROVE  Inv'
    BY Stuttering
  <2>2. Ready
    BY <2>1, NextIsReady
  <2>3. ASSUME NEW r \in Runtimes, List(r) \/ Register(r) \/ Restart(r) \/ Cancelling(r)
        PROVE  Inv'
    BY <2>2, <2>3, ListStep, RegisterStep, RestartStep, CancellingStep DEF List
  <2>4. ASSUME NEW r \in Runtimes, NEW seen \in Scans(r), NEW look \in AllLooks,
               Cancel(r, seen, look)
        PROVE  Inv'
    BY <2>2, <2>4, CancelStep
  <2>5. ASSUME NEW r \in Runtimes, NEW i \in Instances,
               \/ Launch(r, i) \/ LaunchGivenUp(r, i) \/ SpawnFails(r, i)
               \/ Captured(r, i) \/ Closed(r, i)
        PROVE  Inv'
    BY <2>2, <2>5, LaunchStep, LaunchGivenUpStep, SpawnFailsStep, CapturedStep, ClosedStep
  <2>6. ASSUME NEW i \in Instances, Ends(i)
        PROVE  Inv'
    BY <2>2, <2>6, EndsStep
  <2>7. ASSUME NEW p \in Pids, GivenAway(p) \/ Settles(p) \/ Taskkill(p)
        PROVE  Inv'
    BY <2>2, <2>7, GivenAwayStep, SettlesStep, TaskkillStep
  <2> QED  BY <2>1, <2>3, <2>4, <2>5, <2>6, <2>7 DEF Next
<1> QED  BY <1>1, <1>2, PTL DEF Spec

(* Every record, pid, process, child handle and cancellation is one of     *)
(* those that the code knows, a tracked child is the runtime's own, and a  *)
(* cancellation always has a record to work on.                            *)
THEOREM TypeCorrect ==
  Spec => []TypeOK
<1>1. Inv => TypeOK
  BY DEF Inv
<1> QED  BY <1>1, Invariance, PTL

(* However many runtimes list, start, stop and restart, a task counts as   *)
(* completed or failed, and its cancellation as confirmed, only when its   *)
(* process is gone, but for a launch given up on Windows, a task looked up *)
(* in a list of processes older than its process (the first), and a        *)
(* process started after its cancellation (the second).                    *)
THEOREM FinishedIsGone ==
  Spec => []EndedIsGone
<1>1. Inv => EndedIsGone
  BY DEF Inv, Held, EndedIsGone, Confirmed, FitsIn, Over, Alive
<1> QED  BY <1>1, Invariance, PTL

(* A hit falls on a stranger's pid only if a record took the stranger for  *)
(* the task's process.                                                     *)
LEMMA StrikesAreAimed ==
  ASSUME Ready, NEW r \in Runtimes, job[r] \in {"signal", "force"},
         NEW mayLive \in BOOLEAN, Hit(TaskOf(r).pid, mayLive), NEW p \in Pids,
         holder[p] = Stranger
  PROVE  holder'[p] = Stranger \/ Mistaken(p)
<1>1. /\ TaskOf(r).pid \in Pids /\ AimedAt(TaskOf(r), job[r], holder)
      /\ \E q \in Places : copy[q] # None /\ copy[q] = TaskOf(r)
  BY TaskOfIsAimedAt
<1>2. CASE p = TaskOf(r).pid
  <2>1. TaskOf(r).identity = Stranger
    BY <1>1, <1>2 DEF AimedAt
  <2> QED  BY <1>1, <1>2, <2>1 DEF Mistaken
<1>3. CASE p # TaskOf(r).pid
  BY <1>1, <1>3, HitIsDeath
<1> QED  BY <1>2, <1>3

LEMMA CancelSpares ==
  ASSUME Ready, NEW r \in Runtimes, NEW seen \in Scans(r), NEW look \in AllLooks,
         Cancel(r, seen, look), NEW p \in Pids, holder[p] = Stranger
  PROVE  holder'[p] = Stranger
<1> DEFINE rec == Refreshed(r, seen, look)[Memory(r)]
           child == Handled(r, rec) /\ life[rec.inst] = "alive"
<1>1. /\ InUse(rec) /\ LooksUp(r, seen, look)
      /\ child => Hit(rec.pid, TRUE)
      /\ ~child => UNCHANGED <<life, holder>>
  BY DEF Cancel
<1>2. rec \in Drafts /\ Fits(rec)
  BY <1>1, RefreshedIsHeld, PlacesDiffer DEF HeldNow, Held, Fits, Copies, InUse
<1> HIDE DEF rec
<1>3. CASE child
  <2>1. rec.pid \in Pids /\ rec.inst \in Instances /\ holder[rec.pid] = rec.inst
    BY <1>2, <1>3 DEF Handled, Drafts, Fits, FitsIn
  <2> QED  BY <1>1, <1>3, <2>1, HitIsDeath, NoneIsApart
<1>4. CASE ~child
  BY <1>1, <1>4
<1> QED  BY <1>3, <1>4

LEMMA CancellingSpares ==
  ASSUME Ready, NEW r \in Runtimes, Cancelling(r), NEW p \in Pids, holder[p] = Stranger
  PROVE  holder'[p] = Stranger \/ Mistaken(p) \/ KilledUnread(p)
<1>1. CASE Signals(r)
  BY <1>1, StrikesAreAimed DEF Signals, Goes
<1>2. CASE Forces(r) /\ job[r] = "force"
  BY <1>2, StrikesAreAimed DEF Forces, Goes
<1>3. CASE Forces(r) /\ job[r] # "force"
  <2>1. /\ Goes(r, "blind", "last poll") /\ Hit(TaskOf(r).pid, FALSE)
        /\ job[r] = "blind"
    BY <1>3 DEF Forces, Goes
  <2>2. job'[r] = "last poll" /\ TaskOf(r).pid \in Pids
    BY <2>1, InvGives, TaskOfIsAimedAt DEF Goes, Shape
  <2>3. CASE TaskOf(r).pid = p
    BY <2>1, <2>2, <2>3 DEF KilledUnread
  <2>4. CASE TaskOf(r).pid # p
    BY <2>1, <2>2, <2>4, HitIsDeath
  <2> QED  BY <2>3, <2>4
<1>4. CASE ~Signals(r) /\ ~Forces(r)
  <2>1. UNCHANGED holder
    BY <1>4 DEF Cancelling, Identify, FindsGone, Refuses, Recognises, TakesAim, HoldsFire,
                StillThere, ChildExited, Expires, FindsReplaced, Concludes
  <2> QED  BY <2>1
<1> QED  BY <1>1, <1>2, <1>3, <1>4

(* Whoever stops a task, after whatever looks and waits, with whatever     *)
(* happens to the process and its pid meanwhile: no process but the task's *)
(* is struck, unless a runtime had taken it for its own, escalated without *)
(* having read who it is, or had started a taskkill before.                *)
THEOREM OnlyTheTaskIsStruck ==
  Spec => StrangersAreSpared
<1> DEFINE Spared(p) == holder'[p] = Stranger \/ Mistaken(p) \/ KilledUnread(p) \/ KilledLate(p)
           Spares == \A p \in Pids : holder[p] = Stranger => Spared(p)
<1>1. Inv /\ [Next]_vars => [Spares]_vars
  <2>1. SUFFICES ASSUME Inv, Next, NEW p \in Pids, holder[p] = Stranger
                 PROVE  Spared(p)
    OBVIOUS
  <2>2. Ready /\ Shape /\ Processes
    BY <2>1, InvGives, NextIsReady
  <2>3. ASSUME NEW r \in Runtimes, List(r) \/ Register(r)
        PROVE  holder'[p] = Stranger
    BY <2>1, <2>3 DEF List, Lists, Register, table
  <2>4. ASSUME NEW r \in Runtimes, Restart(r)
        PROVE  holder'[p] = Stranger
    BY <2>1, <2>4, NoneIsApart DEF Restart
  <2>5. ASSUME NEW r \in Runtimes, Cancelling(r)
        PROVE  Spared(p)
    BY <2>1, <2>2, <2>5, CancellingSpares
  <2>6. ASSUME NEW r \in Runtimes, NEW seen \in Scans(r), NEW look \in AllLooks,
               Cancel(r, seen, look)
        PROVE  holder'[p] = Stranger
    BY <2>1, <2>2, <2>6, CancelSpares
  <2>7. ASSUME NEW r \in Runtimes, NEW i \in Instances, Launch(r, i) \/ LaunchGivenUp(r, i)
        PROVE  holder'[p] = Stranger
    <3>1. PICK q \in Pids : holder[q] = None /\ holder' = [holder EXCEPT ![q] = i]
      BY <2>7 DEF Launch, LaunchGivenUp, Born
    <3> QED  BY <2>1, <2>2, <3>1, NoneIsApart DEF Shape
  <2>8. ASSUME NEW r \in Runtimes, NEW i \in Instances, Closed(r, i)
        PROVE  holder'[p] = Stranger
    BY <2>1, <2>8, NoneIsApart DEF Closed
  <2>9. ASSUME NEW r \in Runtimes, NEW i \in Instances, SpawnFails(r, i) \/ Captured(r, i)
        PROVE  holder'[p] = Stranger
    BY <2>1, <2>9 DEF SpawnFails, Captured, table
  <2>10. ASSUME NEW i \in Instances, Ends(i)
         PROVE  holder'[p] = Stranger
    BY <2>1, <2>2, <2>10, DiesIsDeath DEF Ends
  <2>11. ASSUME NEW q \in Pids, GivenAway(q) \/ Settles(q)
         PROVE  holder'[p] = Stranger
    BY <2>1, <2>2, <2>11, NoneIsApart DEF GivenAway, Settles, Shape
  <2>12. ASSUME NEW q \in Pids, Taskkill(q)
         PROVE  Spared(p)
    <3>1. q \in strikes \ strikes' /\ Hit(q, TRUE)
      BY <2>12 DEF Taskkill
    <3> QED  BY <2>1, <2>2, <3>1, HitIsDeath DEF KilledLate
  <2> QED  BY <2>1, <2>3, <2>4, <2>5, <2>6, <2>7, <2>8, <2>9, <2>10, <2>11, <2>12 DEF Next
<1> QED  BY <1>1, Invariance, PTL DEF Spec, StrangersAreSpared

(* A listing never leaves a task running whose process is gone, whatever   *)
(* record and whatever scan it goes by, if the task's identity was read    *)
(* and its look told who has the pid by then.                              *)
THEOREM ListingsAreRight ==
  Spec => ListingsNotice
<1> DEFINE Notices == \A r \in Runtimes : Gone(r, {"running"})' =>
                        \A seen \in Scans(r), look \in AllLooks :
                          Certain(r, seen, look) => ~Lists(r, seen, look)
<1>1. Inv /\ [Next]_vars => [Notices]_vars
  <2>1. SUFFICES ASSUME Inv, Next, NEW r \in Runtimes, NEW seen \in Scans(r),
                        NEW look \in AllLooks, Certain(r, seen, look), Lists(r, seen, look)
                 PROVE  ~Gone(r, {"running"})'
    OBVIOUS
  <2>2. Ready
    BY <2>1, NextIsReady
  <2> DEFINE c == Refreshed(r, seen, look)
  <2>3. /\ c \in Copies
        /\ c[Memory(r)] # None /\ c[Memory(r)].status = "running" =>
             ~(life[c[Memory(r)].inst] = "reaped" /\ c[Memory(r)].identity = c[Memory(r)].inst)
    BY <2>1, <2>2, RefreshedIsHeld DEF HeldNow, Held, Lists
  <2>4. copy' = Ranked(c) /\ life' = life
    BY <2>1 DEF Lists, table
  <2> HIDE DEF c
  <2>5. /\ copy'[Memory(r)] = None <=> c[Memory(r)] = None
        /\ c[Memory(r)] # None => SaysAs(copy'[Memory(r)], c[Memory(r)])
    BY <2>3, <2>4, PlacesDiffer, RankedKeeps
  <2>6. Memory(r)' = Memory(r)
    BY DEF Memory
  <2> QED  BY <2>3, <2>4, <2>5, <2>6 DEF Gone, SaysAs
<1> QED  BY <1>1, Invariance, PTL DEF Spec, ListingsNotice
===============================================================================
