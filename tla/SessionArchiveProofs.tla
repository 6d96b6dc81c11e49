-------------------------- MODULE SessionArchiveProofs --------------------------
(***************************************************************************)
(* What SessionArchive guarantees for any copies and policies of a         *)
(* session, any size of its chunks, and any number of messages, failures,  *)
(* crashes and deletions.                                                  *)
(***************************************************************************)
EXTENDS SessionArchive, SequenceTheorems, FiniteSetTheorems, WellFoundedInduction, TLAPS

(***************************************************************************)
(* The inductive invariant.                                                *)
(***************************************************************************)
Holders == Writers \cup {Eraser}
Job == [at : Places, kind : {"commit", "patch", "open", "erase"},
        captured : Seq(Messages), base : Seq(Chunks)]

(* The type: TypeOK with the domains that it leaves implicit.              *)
Shape ==
  /\ keyed \in Policies
  /\ open \subseteq Copies
  /\ pending \in [Copies -> Seq(Messages)] /\ known \in [Copies -> Seq(Chunks)]
  /\ job \in [Holders -> Job]
  /\ lock \in Holders \cup {None}
  /\ meta \in [Formats -> Seq(Chunks) \cup {None}]
  /\ files \subseteq Chunks
  /\ era \in 0..MaxErasures /\ told \in 0..MaxMessages
  /\ saved \subseteq Messages /\ tangled \subseteq Messages
  /\ owed \in [Copies -> SUBSET Messages]
  /\ forked \in BOOLEAN /\ revived \in BOOLEAN

(* Whoever is past the lock has it, and a deletion takes the metadata away *)
(* before it takes the chunks.                                             *)
AtFiles == {"migrate", "chunk", "meta", "drop", "release"}
Locked(w) == job[w].at \in AtFiles => lock = w
Erasing ==
  /\ job[Eraser].at \in {"idle", "plain", "enc", "files"}
  /\ job[Eraser].at # "idle" => lock = Eraser /\ era < MaxErasures
  /\ job[Eraser].at \in {"enc", "files"} => meta["plain"] = None
  /\ job[Eraser].at = "files" => meta["enc"] = None

(* What a writer builds on, or is about to name, is as whole as what the   *)
(* metadata names.                                                         *)
Builds(w) == ~revived /\ job[w].at \in AtFiles => Whole(job[w].base)
Names(f) == ~revived /\ meta[f] # None => Whole(meta[f])

(* A commit on its way has captured what its copy owes, except for what    *)
(* another commit could reach; once it has saved that, nothing is owed.    *)
Commits(w) == job[w].kind = "commit" /\ job[w].at \notin {"idle", "gap"}
Captures(w) ==
  /\ job[w].at = "return" => job[w].kind = "commit" /\ owed[w[1]] \subseteq tangled
  /\ Commits(w) => owed[w[1]] \ tangled \subseteq Range(job[w].captured)

Inv ==
  /\ Shape /\ Erasing /\ UnsavedIsPending
  /\ \A w \in Writers : Locked(w) /\ Builds(w) /\ Captures(w)
  /\ \A f \in Formats : Names(f)
-------------------------------------------------------------------------------
(***************************************************************************)
(* Chunks: the archive that writeTranscriptChunks makes of one archive and *)
(* new messages.                                                           *)
(***************************************************************************)
LEMMA Division ==
  ASSUME NEW n \in Nat, NEW c \in Nat \ {0}
  PROVE  /\ (n + c - 1) \div c \in Nat
         /\ \A i \in 1..((n + c - 1) \div c) : (i - 1) * c \in Nat /\ (i - 1) * c < n
<1> DEFINE q == (n + c - 1) \div c
<1>1. q \in Nat /\ q * c <= n + c - 1
  OBVIOUS
<1> HIDE DEF q
<1>2. ASSUME NEW i \in 1..q PROVE (i - 1) * c \in Nat /\ (i - 1) * c < n
  <2>1. i \in Nat /\ i - 1 \in Nat /\ q - i \in Nat
    BY <1>1
  <2>2. (i - 1) * c = i * c - c /\ q * c = i * c + (q - i) * c
    BY <1>1, <2>1
  <2>3. (q - i) * c \in Nat /\ (i - 1) * c \in Nat /\ i * c \in Nat
    BY <2>1
  <2> QED  BY <1>1, <2>2, <2>3
<1> QED  BY <1>1, <1>2 DEF q

LEMMA TextType ==
  ASSUME NEW text \in Texts
  PROVE  text \in Seq(Messages)
  BY SeqDef DEF Texts

LEMMA TextOf ==
  ASSUME NEW text \in Seq(Messages), Len(text) \in 1..ChunkSize
  PROVE  text \in Texts
<1>1. text \in [1..Len(text) -> Messages]
  BY LenProperties
<1> QED  BY <1>1 DEF Texts

LEMMA ChunkedType ==
  ASSUME NEW msgs \in Seq(Messages), NEW enc \in BOOLEAN, era \in 0..MaxErasures
  PROVE  Chunked(msgs, enc) \in Seq(Chunks)
<1> DEFINE n == Len(msgs)
           q == (n + ChunkSize - 1) \div ChunkSize
           from(i) == (i - 1) * ChunkSize + 1
           to(i) == IF i * ChunkSize < n THEN i * ChunkSize ELSE n
           chunk(i) == [text |-> SubSeq(msgs, from(i), to(i)), enc |-> enc, era |-> era]
<1>1. n \in Nat /\ ChunkSize \in Nat \ {0}
  BY BoundsAssumption, LenProperties
<1>2. q \in Nat /\ \A i \in 1..q : (i - 1) * ChunkSize \in Nat /\ (i - 1) * ChunkSize < n
  BY <1>1, Division
<1> HIDE DEF n, q
<1>3. ASSUME NEW i \in 1..q PROVE chunk(i) \in Chunks
  <2>1. i \in Nat /\ i * ChunkSize \in Nat /\ i * ChunkSize = (i - 1) * ChunkSize + ChunkSize
    BY <1>1, <1>2
  <2> DEFINE low == (i - 1) * ChunkSize
             high == i * ChunkSize
  <2>2. low \in Nat /\ low < n /\ high = low + ChunkSize /\ high \in Nat
    BY <1>2, <2>1
  <2>3. from(i) = low + 1 /\ to(i) = IF high < n THEN high ELSE n
    OBVIOUS
  <2> HIDE DEF low, high, from, to
  <2>4. /\ from(i) \in 1..n /\ to(i) \in from(i)..n
        /\ to(i) - from(i) + 1 \in 1..ChunkSize
    BY <1>1, <2>2, <2>3
  <2>5. \A j \in from(i)..to(i) : msgs[j] \in Messages
    BY <1>1, <2>4, ElementOfSeq DEF n
  <2>6. /\ SubSeq(msgs, from(i), to(i)) \in Seq(Messages)
        /\ Len(SubSeq(msgs, from(i), to(i))) = to(i) - from(i) + 1
    BY <1>1, <2>4, <2>5, SubSeqProperties
  <2>7. SubSeq(msgs, from(i), to(i)) \in Texts
    BY <2>4, <2>6, TextOf
  <2> QED  BY <2>7 DEF Chunks
<1> HIDE DEF chunk
<1>4. [i \in 1..q |-> chunk(i)] \in Seq(Chunks)
  BY <1>2, <1>3, IsASeq
<1> QED  BY <1>4 DEF Chunked, chunk, q, n, from, to

LEMMA GrownType ==
  ASSUME NEW a \in Seq(Chunks), NEW msgs \in Seq(Messages), NEW enc \in BOOLEAN,
         era \in 0..MaxErasures
  PROVE  Grown(a, msgs, enc) \in Seq(Chunks)
<1>1. CASE Partial(a)
  <2>1. Len(a) \in Nat \ {0}
    BY <1>1, EmptySeq DEF Partial
  <2>2. Front(a) \in Seq(Chunks)
    <3>1. \A j \in 1..(Len(a) - 1) : a[j] \in Chunks
      BY <2>1, ElementOfSeq
    <3> QED  BY <2>1, <3>1, SubSeqProperties DEF Front
  <2>3. Last(a).text \in Seq(Messages)
    <3>1. a[Len(a)] \in Chunks
      BY <2>1, ElementOfSeq
    <3> QED  BY <3>1, TextType DEF Last, Chunks
  <2>4. Last(a).text \o msgs \in Seq(Messages)
    BY <2>3, ConcatProperties
  <2> QED  BY <1>1, <2>2, <2>4, ChunkedType, ConcatProperties DEF Grown
<1>2. CASE ~Partial(a)
  BY <1>2, ChunkedType, ConcatProperties DEF Grown
<1> QED  BY <1>1, <1>2

(* The chunks that a file-by-file write leaves are named by an archive of  *)
(* the type.                                                               *)
LEMMA ArchiveRange ==
  ASSUME NEW S, NEW a \in Seq(S)
  PROVE  /\ Range(a) \subseteq S
         /\ \A i \in DOMAIN a : a[i] \in S
  BY LenProperties DEF Range

(***************************************************************************)
(* What a step makes of the jobs.                                          *)
(***************************************************************************)
LEMMA Replaced ==
  ASSUME job \in [Holders -> Job], NEW w \in Holders, NEW r \in Job,
         job' = [job EXCEPT ![w] = r]
  PROVE  /\ job' \in [Holders -> Job] /\ job'[w] = r
         /\ \A v \in Holders \ {w} : job'[v] = job[v]
  OBVIOUS

LEMMA IdleType == Idle \in Job
<1>1. <<>> \in Seq(Messages) /\ <<>> \in Seq(Chunks)
  OBVIOUS
<1> QED  BY <1>1 DEF Idle, Job, Places

LEMMA Moved ==
  ASSUME job \in [Holders -> Job], NEW w \in Holders, NEW place \in Places, Goto(w, place)
  PROVE  /\ job' \in [Holders -> Job]
         /\ job'[w].at = place /\ job'[w].kind = job[w].kind /\ job'[w].base = job[w].base
         /\ \A v \in Holders \ {w} : job'[v] = job[v]
<1> DEFINE r == [job[w] EXCEPT !.at = place]
<1>1. job' = [job EXCEPT ![w] = r]
  BY DEF Goto
<1>2. r \in Job /\ r.at = place /\ r.kind = job[w].kind /\ r.base = job[w].base
  BY DEF Job
<1> HIDE DEF r
<1> QED  BY <1>1, <1>2, Replaced

LEMMA Left ==
  ASSUME job \in [Holders -> Job], NEW w \in Holders, job' = [job EXCEPT ![w] = Idle]
  PROVE  /\ job' \in [Holders -> Job] /\ job'[w].at = "idle"
         /\ \A v \in Holders \ {w} : job'[v] = job[v]
<1>1. job'[w] = Idle
  BY IdleType, Replaced
<1> QED  BY <1>1, IdleType, Replaced DEF Idle

LEMMA Turns ==
  ASSUME NEW c \in Copies
  PROVE  <<c, "turn">> \in Writers /\ <<c, "turn">> \in Holders
  BY DEF Writers, Holders

LEMMA FoundType ==
  ASSUME meta \in [Formats -> Seq(Chunks) \cup {None}], NEW c \in Copies
  PROVE  /\ Preferred(c) \in Formats /\ Found(c) \in Formats /\ Other(Preferred(c)) \in Formats
         /\ Exists(c) => meta[Found(c)] \in Seq(Chunks)
  BY DEF Preferred, Found, Other, Formats, Exists

(***************************************************************************)
(* Every step preserves the type.                                          *)
(***************************************************************************)
LEMMA ShapeInit == Init => Shape
<1> SUFFICES ASSUME Init PROVE Shape
  OBVIOUS
<1>1. <<>> \in Seq(Messages) /\ <<>> \in Seq(Chunks)
  OBVIOUS
<1>2. 1 \in Messages /\ 0 \in 0..MaxErasures
  BY BoundsAssumption DEF Messages
<1>3. Stored \in Seq(Chunks)
  <2>1. <<1>> \in Seq(Messages) /\ Len(<<1>>) = 1 /\ 1 \in 1..ChunkSize
    BY <1>2, BoundsAssumption
  <2>2. [text |-> <<1>>, enc |-> FALSE, era |-> 0] \in Chunks
    BY <1>2, <2>1, TextOf DEF Chunks
  <2> QED  BY <2>2 DEF Stored
<1>4. Range(Stored) \subseteq Chunks
  BY <1>3, ArchiveRange
<1>5. /\ meta \in [Formats -> Seq(Chunks) \cup {None}] /\ files \subseteq Chunks
      /\ told \in 0..MaxMessages /\ saved \subseteq Messages /\ open \subseteq Copies
  BY <1>2, <1>3, <1>4, BoundsAssumption, CopiesAssumption DEF Init, Formats
<1>6. job \in [Holders -> Job]
  BY IdleType DEF Init, Holders
<1> QED  BY <1>1, <1>2, <1>5, <1>6 DEF Init, Shape

LEMMA ShapeWriter ==
  ASSUME Shape, NEW w \in Writers, Writer(w)
  PROVE  Shape'
<1>0. w \in Holders /\ w[1] \in Copies
  BY CopiesAssumption DEF Holders, Writers
<1>1. ASSUME NEW kind \in {"commit", "patch"}, Begin(w, kind) PROVE Shape'
  <2> DEFINE c == w[1]
             r == [at |-> "lock", kind |-> kind,
                   captured |-> IF kind = "commit" THEN pending[c] ELSE <<>>,
                   base |-> IF kind = "commit" THEN known[c] ELSE <<>>]
  <2>1. job' = [job EXCEPT ![w] = r]
    BY <1>1 DEF Begin
  <2>2. pending[c] \in Seq(Messages) /\ known[c] \in Seq(Chunks)
    BY <1>0 DEF Shape
  <2>3. r \in Job
    BY <2>2 DEF Job, Places
  <2>4. job' \in [Holders -> Job]
    BY <1>0, <2>1, <2>3, Replaced DEF Shape
  <2>5. Range(pending[c]) \subseteq Messages
    BY <2>2, ArchiveRange
  <2>6. tangled' \subseteq Messages
    BY <1>1, <2>5 DEF Begin, Shape
  <2> QED  BY <1>1, <2>4, <2>6 DEF Begin, Shape, disk
<1>2. CASE ReadFound(w)
  <2> DEFINE c == w[1]
             r == [job[w] EXCEPT !.base = Rebase(w),
                                 !.at = IF Migrates(c) THEN "migrate" ELSE "chunk"]
  <2>1. job' = [job EXCEPT ![w] = r]
    BY <1>2 DEF ReadFound
  <2>2. Rebase(w) \in Seq(Chunks)
    BY <1>0, <1>2, FoundType DEF ReadFound, Readable, Rebase, Shape
  <2>3. job[w] \in Job
    BY <1>0 DEF Shape
  <2>4. r \in Job
    BY <2>2, <2>3 DEF Job, Places
  <2>5. job' \in [Holders -> Job]
    BY <1>0, <2>1, <2>4, Replaced DEF Shape
  <2>6. meta' \in [Formats -> Seq(Chunks) \cup {None}]
    BY <1>2 DEF ReadFound, Shape, Formats
  <2>7. lock' \in Holders \cup {None}
    BY <1>0, <1>2 DEF ReadFound, Acquires
  <2> QED  BY <1>2, <2>5, <2>6, <2>7 DEF ReadFound, Shape, history
<1>3. CASE MigrateEnds(w)
  <2>1. job' \in [Holders -> Job]
    BY <1>0, <1>3, Moved DEF MigrateEnds, Shape, Places
  <2>2. meta' \in [Formats -> Seq(Chunks) \cup {None}]
    BY <1>3 DEF MigrateEnds, Shape, Formats
  <2> QED  BY <1>3, <2>1, <2>2 DEF MigrateEnds, Shape, history
<1>4. CASE ReadNothing(w)
  <2>1. job' \in [Holders -> Job]
    BY <1>0, <1>4, Moved DEF ReadNothing, Shape, Places
  <2>2. lock' \in Holders \cup {None} /\ revived' \in BOOLEAN
    BY <1>0, <1>4 DEF ReadNothing, Acquires, Shape
  <2> QED  BY <1>4, <2>1, <2>2 DEF ReadNothing, Shape, disk
<1>5. CASE Opened(w)
  <2>1. job' \in [Holders -> Job] /\ lock' = None
    BY <1>0, <1>5, Left DEF Opened, Leaves, Shape
  <2>2. known' \in [Copies -> Seq(Chunks)]
    BY <1>0, <1>5 DEF Opened, Shape, Job
  <2> QED  BY <1>0, <1>5, <2>1, <2>2 DEF Opened, Shape, disk, history
<1>6. CASE WriteChunks(w)
  <2>1. CASE job[w].captured = <<>>
    <3>1. job' \in [Holders -> Job]
      BY <1>0, <1>6, <2>1, Moved DEF WriteChunks, Shape, Places
    <3> QED  BY <1>6, <2>1, <3>1 DEF WriteChunks, Shape, history
  <2>2. CASE job[w].captured # <<>>
    <3> DEFINE a == Grown(job[w].base, job[w].captured, w[1] \in keyed)
               r == [job[w] EXCEPT !.base = a, !.at = "meta"]
    <3>1. /\ job' = [job EXCEPT ![w] = r]
          /\ files' = files \cup (Range(a) \ Range(job[w].base))
      BY <1>6, <2>2 DEF WriteChunks
    <3>2. (w[1] \in keyed) \in BOOLEAN
      OBVIOUS
    <3>3. job[w] \in Job /\ job[w].base \in Seq(Chunks) /\ job[w].captured \in Seq(Messages)
      BY <1>0 DEF Shape, Job
    <3>4. a \in Seq(Chunks)
      BY <3>2, <3>3, GrownType DEF Shape
    <3> HIDE DEF a
    <3>5. r \in Job
      BY <3>3, <3>4 DEF Job, Places
    <3>6. job' \in [Holders -> Job]
      BY <1>0, <3>1, <3>5, Replaced DEF Shape
    <3>7. files' \subseteq Chunks
      BY <3>1, <3>4, ArchiveRange DEF Shape
    <3> QED  BY <1>6, <3>6, <3>7 DEF WriteChunks, Shape, history
  <2> QED  BY <2>1, <2>2
<1>7. CASE WriteMetadata(w)
  <2>1. job' \in [Holders -> Job]
    BY <1>0, <1>7, Moved DEF WriteMetadata, Shape, Places
  <2>2. job[w].base \in Seq(Chunks)
    BY <1>0 DEF Shape, Job
  <2>3. meta' \in [Formats -> Seq(Chunks) \cup {None}]
    BY <1>0, <1>7, <2>2, FoundType DEF WriteMetadata, Shape
  <2> QED  BY <1>7, <2>1, <2>3 DEF WriteMetadata, Shape, history
<1>8. CASE Release(w)
  <2>1. job[w] \in Job /\ job[w].captured \in Seq(Messages)
    BY <1>0 DEF Shape, Job
  <2>2. Range(job[w].captured) \subseteq Messages
    BY <2>1, ArchiveRange
  <2> DEFINE r == IF job[w].kind = "commit" THEN [job[w] EXCEPT !.at = "return"] ELSE Idle
  <2>3. job' = [job EXCEPT ![w] = r]
    BY <1>8 DEF Release
  <2>4. [job[w] EXCEPT !.at = "return"] \in Job
    BY <2>1 DEF Job, Places
  <2>5. r \in Job
    BY <2>4, IdleType
  <2>6. job' \in [Holders -> Job]
    BY <1>0, <2>3, <2>5, Replaced DEF Shape
  <2>7. saved' \subseteq Messages /\ owed' \in [Copies -> SUBSET Messages] /\ lock' = None
    BY <1>8, <2>2 DEF Release, Shape
  <2> QED  BY <1>8, <2>6, <2>7 DEF Release, Shape, disk
<1>9. CASE Return(w)
  <2>1. job' \in [Holders -> Job]
    BY <1>0, <1>9, Left DEF Return, Shape
  <2>2. job[w].base \in Seq(Chunks) /\ <<>> \in Seq(Messages)
    BY <1>0 DEF Shape, Job
  <2>3. known' \in [Copies -> Seq(Chunks)] /\ pending' \in [Copies -> Seq(Messages)]
    BY <1>9, <2>2 DEF Return, Shape
  <2> QED  BY <1>9, <2>1, <2>3 DEF Return, Shape, disk, history
<1>10. CASE Fails(w)
  <2>1. job' \in [Holders -> Job]
    BY <1>0, <1>10, Left DEF Fails, Shape
  <2>2. job[w].captured \in Seq(Messages)
    BY <1>0 DEF Shape, Job
  <2>3. Range(job[w].captured) \subseteq Messages
    BY <2>2, ArchiveRange
  <2>4. tangled' \subseteq Messages /\ lock' \in Holders \cup {None}
    BY <1>10, <2>3 DEF Fails, Shape
  <2>5. forked' \in BOOLEAN
    BY <1>10 DEF Fails, Shape
  <2> QED  BY <1>10, <2>1, <2>4, <2>5 DEF Fails, Shape, disk
<1>11. CASE DropOther(w)
  <2>1. job' \in [Holders -> Job]
    BY <1>0, <1>11, Moved DEF DropOther, Shape, Places
  <2>2. meta' \in [Formats -> Seq(Chunks) \cup {None}]
    BY <1>11 DEF DropOther, Shape
  <2> QED  BY <1>11, <2>1, <2>2 DEF DropOther, Shape, history
<1> QED
  BY <1>1, <1>2, <1>3, <1>4, <1>5, <1>6, <1>7, <1>8, <1>9, <1>10, <1>11 DEF Writer

LEMMA ShapeStep ==
  ASSUME Shape, Erasing, [Next]_vars
  PROVE  Shape'
<1>0. <<>> \in Seq(Messages) /\ <<>> \in Seq(Chunks) /\ Eraser \in Holders
  BY DEF Holders
<1>1. ASSUME NEW c \in Copies, AddMessage(c) PROVE Shape'
  <2>1. told + 1 \in Messages /\ told' = told + 1
    BY <1>1, BoundsAssumption DEF AddMessage, Shape, Messages
  <2>2. job' \in [Holders -> Job]
    BY <1>1, Turns, Moved DEF AddMessage, Shape, Places
  <2>3. pending' \in [Copies -> Seq(Messages)]
    BY <1>1, <2>1 DEF AddMessage, Shape
  <2>4. owed' \in [Copies -> SUBSET Messages] /\ tangled' \subseteq Messages
    BY <1>1, <2>1 DEF AddMessage, Shape
  <2>5. told' \in 0..MaxMessages
    BY <2>1 DEF Messages, Shape
  <2> QED  BY <1>1, <2>2, <2>3, <2>4, <2>5 DEF AddMessage, Shape, disk
<1>2. ASSUME NEW c \in Copies, Open(c) PROVE Shape'
  <2>1. CASE Migrates(c)
    <3> DEFINE r == [Idle EXCEPT !.at = "lock", !.kind = "open"]
    <3>1. r \in Job
      BY <1>0 DEF Idle, Job, Places
    <3>2. job' = [job EXCEPT ![<<c, "turn">>] = r] /\ UNCHANGED <<open, known>>
      BY <1>2, <2>1 DEF Open
    <3> HIDE DEF r
    <3>3. job' \in [Holders -> Job]
      BY <3>1, <3>2, Turns, Replaced DEF Shape
    <3> QED  BY <1>2, <3>2, <3>3 DEF Open, Shape, disk, history
  <2>2. CASE ~Migrates(c)
    <3>1. meta[Found(c)] \in Seq(Chunks)
      BY <1>2, FoundType DEF Open, Readable, Shape
    <3>2. known' \in [Copies -> Seq(Chunks)] /\ open' \subseteq Copies /\ UNCHANGED job
      BY <1>2, <2>2, <3>1 DEF Open, Shape
    <3> QED  BY <1>2, <3>2 DEF Open, Shape, disk, history
  <2> QED  BY <2>1, <2>2
<1>3. ASSUME NEW c \in Copies, Crash(c) PROVE Shape'
  <2>1. job' \in [Holders -> Job]
    BY <1>3, IdleType DEF Crash, Shape
  <2>2. /\ pending' \in [Copies -> Seq(Messages)] /\ known' \in [Copies -> Seq(Chunks)]
        /\ owed' \in [Copies -> SUBSET Messages]
    BY <1>0, <1>3 DEF Crash, Shape
  <2>3. lock' \in Holders \cup {None} /\ forked' \in BOOLEAN /\ open' \subseteq Copies
    BY <1>3 DEF Crash, Shape
  <2> QED  BY <1>3, <2>1, <2>2, <2>3 DEF Crash, Shape, disk
<1>4. CASE EraseBegins
  <2> DEFINE r == [job[Eraser] EXCEPT !.at = "plain", !.kind = "erase"]
  <2>1. job' = [job EXCEPT ![Eraser] = r]
    BY <1>4 DEF EraseBegins
  <2>2. job[Eraser] \in Job
    BY <1>0 DEF Shape
  <2>3. r \in Job
    BY <2>2 DEF Job, Places
  <2>4. job' \in [Holders -> Job]
    BY <1>0, <2>1, <2>3, Replaced DEF Shape
  <2> QED  BY <1>0, <1>4, <2>4 DEF EraseBegins, Shape, disk
<1>5. ASSUME NEW f \in Formats, EraseMetadata(f) PROVE Shape'
  <2>1. PICK place \in {"enc", "files"} : Goto(Eraser, place)
    BY <1>5 DEF EraseMetadata
  <2>2. job' \in [Holders -> Job]
    BY <1>0, <2>1, Moved DEF Shape, Places
  <2>3. meta' \in [Formats -> Seq(Chunks) \cup {None}]
    BY <1>5 DEF EraseMetadata, Shape
  <2> QED  BY <1>5, <2>2, <2>3 DEF EraseMetadata, Shape, history
<1>6. CASE EraseChunks
  <2>1. job' \in [Holders -> Job] /\ lock' = None
    BY <1>0, <1>6, Left DEF EraseChunks, Leaves, Shape
  <2>2. era' \in 0..MaxErasures
    BY <1>6, BoundsAssumption DEF EraseChunks, Erasing, Shape
  <2> QED  BY <1>6, <2>1, <2>2 DEF EraseChunks, Shape, history
<1>7. CASE EraseStops
  <2>1. job' \in [Holders -> Job] /\ lock' = None
    BY <1>0, <1>7, Left DEF EraseStops, Shape
  <2> QED  BY <1>7, <2>1 DEF EraseStops, Shape, disk, history
<1>8. CASE UNCHANGED vars
  BY <1>8 DEF vars, disk, history, Shape
<1> QED
  BY <1>1, <1>2, <1>3, <1>4, <1>5, <1>6, <1>7, <1>8, ShapeWriter DEF Next

(***************************************************************************)
(* What a writer's steps make of its own job, and of nobody else's.        *)
(***************************************************************************)
LEMMA EraserIsApart == Eraser \in Holders /\ Eraser \notin Writers
  BY DEF Holders, Writers, Eraser

LEMMA WriterHolds ==
  ASSUME NEW w \in Writers
  PROVE  w \in Holders /\ w[1] \in Copies /\ w # None
  BY CopiesAssumption, NoneAssumption DEF Holders, Writers

LEMMA BeginJob ==
  ASSUME Shape, NEW w \in Writers, NEW kind \in {"commit", "patch"}, Begin(w, kind)
  PROVE  /\ \A v \in Holders \ {w} : job'[v] = job[v]
         /\ job'[w].at = "lock" /\ job'[w].kind = kind
         /\ job'[w].captured = (IF kind = "commit" THEN pending[w[1]] ELSE <<>>)
         /\ job'[w].base = (IF kind = "commit" THEN known[w[1]] ELSE <<>>)
<1> DEFINE c == w[1]
           r == [at |-> "lock", kind |-> kind,
                 captured |-> IF kind = "commit" THEN pending[c] ELSE <<>>,
                 base |-> IF kind = "commit" THEN known[c] ELSE <<>>]
<1>1. job' = [job EXCEPT ![w] = r]
  BY DEF Begin
<1>2. job'[w] = r /\ \A v \in Holders \ {w} : job'[v] = job[v]
  BY <1>1, WriterHolds DEF Shape
<1> QED  BY <1>2

LEMMA ReadJob ==
  ASSUME Shape, NEW w \in Writers, ReadFound(w)
  PROVE  /\ \A v \in Holders \ {w} : job'[v] = job[v]
         /\ job'[w].at = (IF Migrates(w[1]) THEN "migrate" ELSE "chunk")
         /\ job'[w].kind = job[w].kind /\ job'[w].captured = job[w].captured
         /\ job'[w].base = meta[Found(w[1])]
<1> DEFINE r == [job[w] EXCEPT !.base = Rebase(w),
                               !.at = IF Migrates(w[1]) THEN "migrate" ELSE "chunk"]
<1>1. job' = [job EXCEPT ![w] = r]
  BY DEF ReadFound
<1>2. job[w] \in Job
  BY WriterHolds DEF Shape
<1>3. /\ r.at = (IF Migrates(w[1]) THEN "migrate" ELSE "chunk")
      /\ r.kind = job[w].kind /\ r.captured = job[w].captured /\ r.base = Rebase(w)
  BY <1>2 DEF Job
<1> HIDE DEF r
<1>4. job'[w] = r /\ \A v \in Holders \ {w} : job'[v] = job[v]
  BY <1>1, WriterHolds DEF Shape
<1> QED  BY <1>3, <1>4 DEF Rebase

LEMMA WriteJob ==
  ASSUME Shape, NEW w \in Writers, WriteChunks(w)
  PROVE  /\ \A v \in Holders \ {w} : job'[v] = job[v]
         /\ job'[w].at = "meta"
         /\ job'[w].kind = job[w].kind /\ job'[w].captured = job[w].captured
         /\ files \subseteq files' /\ Range(job'[w].base) \subseteq Range(job[w].base) \cup files'
         /\ job'[w].base = IF job[w].captured = <<>> THEN job[w].base
                          ELSE Grown(job[w].base, job[w].captured, w[1] \in keyed)
<1>0. job[w] \in Job
  BY WriterHolds DEF Shape
<1>1. CASE job[w].captured = <<>>
  <2> DEFINE r == [job[w] EXCEPT !.at = "meta"]
  <2>1. job' = [job EXCEPT ![w] = r] /\ files' = files
    BY <1>1 DEF WriteChunks, Goto
  <2>2. /\ r.at = "meta" /\ r.kind = job[w].kind /\ r.captured = job[w].captured
        /\ r.base = job[w].base
    BY <1>0 DEF Job
  <2> HIDE DEF r
  <2>3. job'[w] = r /\ \A v \in Holders \ {w} : job'[v] = job[v]
    BY <2>1, WriterHolds DEF Shape
  <2> QED  BY <1>1, <2>1, <2>2, <2>3
<1>2. CASE job[w].captured # <<>>
  <2> DEFINE a == Grown(job[w].base, job[w].captured, w[1] \in keyed)
             r == [job[w] EXCEPT !.base = a, !.at = "meta"]
  <2>1. /\ job' = [job EXCEPT ![w] = r]
        /\ files' = files \cup (Range(a) \ Range(job[w].base))
    BY <1>2 DEF WriteChunks
  <2> HIDE DEF a
  <2>2. /\ r.at = "meta" /\ r.kind = job[w].kind /\ r.captured = job[w].captured
        /\ r.base = a
    BY <1>0 DEF Job
  <2> HIDE DEF r
  <2>3. job'[w] = r /\ \A v \in Holders \ {w} : job'[v] = job[v]
    BY <2>1, WriterHolds DEF Shape
  <2> QED  BY <1>2, <2>1, <2>2, <2>3 DEF a
<1> QED  BY <1>1, <1>2

LEMMA GotoJob ==
  ASSUME Shape, NEW w \in Holders, NEW place \in Places, Goto(w, place)
  PROVE  /\ \A v \in Holders \ {w} : job'[v] = job[v]
         /\ job'[w].at = place /\ job'[w].kind = job[w].kind
         /\ job'[w].captured = job[w].captured /\ job'[w].base = job[w].base
<1> DEFINE r == [job[w] EXCEPT !.at = place]
<1>1. job' = [job EXCEPT ![w] = r]
  BY DEF Goto
<1>2. job[w] \in Job
  BY DEF Shape
<1>3. /\ r.at = place /\ r.kind = job[w].kind
      /\ r.captured = job[w].captured /\ r.base = job[w].base
  BY <1>2 DEF Job
<1> HIDE DEF r
<1>4. job'[w] = r /\ \A v \in Holders \ {w} : job'[v] = job[v]
  BY <1>1 DEF Shape
<1> QED  BY <1>3, <1>4

LEMMA ReleaseJob ==
  ASSUME Shape, NEW w \in Writers, Release(w)
  PROVE  /\ \A v \in Holders \ {w} : job'[v] = job[v]
         /\ \/ job'[w] = Idle /\ job'[w].at = "idle" /\ job[w].kind # "commit"
            \/ /\ job'[w].at = "return" /\ job[w].kind = "commit" /\ job'[w].kind = "commit"
               /\ job'[w].captured = job[w].captured /\ job'[w].base = job[w].base
<1> DEFINE s == [job[w] EXCEPT !.at = "return"]
           r == IF job[w].kind = "commit" THEN s ELSE Idle
<1>1. job' = [job EXCEPT ![w] = r]
  BY DEF Release
<1>2. job[w] \in Job
  BY WriterHolds DEF Shape
<1>3. /\ s.at = "return" /\ s.kind = job[w].kind
      /\ s.captured = job[w].captured /\ s.base = job[w].base
  BY <1>2 DEF Job
<1> HIDE DEF s
<1>4. job'[w] = r /\ \A v \in Holders \ {w} : job'[v] = job[v]
  BY <1>1, WriterHolds DEF Shape
<1> QED  BY <1>3, <1>4 DEF Idle

LEMMA IdleJob ==
  ASSUME Shape, NEW w \in Holders, job' = [job EXCEPT ![w] = Idle]
  PROVE  /\ \A v \in Holders \ {w} : job'[v] = job[v]
         /\ job'[w] = Idle /\ job'[w].at = "idle"
  BY DEF Shape, Idle

(***************************************************************************)
(* Every step preserves the rest of the invariant: first a writer's own.   *)
(***************************************************************************)
(* The lock, and what is built under it and named.                         *)
Held(v) == Locked(v) /\ Builds(v)
Standing == Erasing /\ (\A v \in Writers : Held(v)) /\ (\A f \in Formats : Names(f))

LEMMA InvInit == Init => Inv
<1> SUFFICES ASSUME Init PROVE Inv
  OBVIOUS
<1>1. Shape
  BY ShapeInit
<1>2. \A w \in Holders : job[w] = Idle
  BY DEF Init, Holders
<1>3. Erasing /\ \A w \in Writers : Locked(w) /\ Builds(w) /\ Captures(w)
  BY <1>2, EraserIsApart, WriterHolds
     DEF Idle, Erasing, Locked, Builds, Captures, Commits, AtFiles
<1>4. UnsavedIsPending
  BY DEF Init, UnsavedIsPending
<1>5. \A f \in Formats : Names(f)
  BY DEF Init, Names, Whole, Formats
<1> QED  BY <1>1, <1>3, <1>4, <1>5 DEF Inv

LEMMA ReadsStanding ==
  ASSUME Inv, NEW w \in Writers, ReadFound(w) \/ ReadNothing(w)
  PROVE  Standing'
<1>0. Shape /\ Standing /\ w \in Holders /\ lock = None /\ lock' = w /\ UNCHANGED <<files, era>>
  BY WriterHolds DEF Inv, Standing, Held, ReadFound, ReadNothing, Acquires, disk
<1>1. /\ job[Eraser].at = "idle" /\ \A v \in Writers : job[v].at \notin AtFiles
  BY <1>0, WriterHolds, EraserIsApart, NoneAssumption DEF Standing, Held, Erasing, Locked
<1>2. CASE ReadFound(w)
  <2>1. \A f \in Formats : ~revived /\ meta'[f] # None => Whole(meta'[f])
    <3>1. Migrates(w[1]) => meta' = [meta EXCEPT !["enc"] = meta["plain"]] /\ meta["plain"] # None
      BY <1>2 DEF ReadFound, Readable, Exists, Migrates
    <3>2. ~Migrates(w[1]) => meta' = meta
      BY <1>2 DEF ReadFound
    <3> QED  BY <1>0, <3>1, <3>2 DEF Standing, Names, Shape, Formats
  <2>2. ~revived => Whole(meta[Found(w[1])])
    BY <1>0, <1>2, FoundType, WriterHolds DEF Standing, Names, ReadFound, Readable, Exists, Shape
  <2>3. UNCHANGED revived
    BY <1>2 DEF ReadFound, history
  <2> QED
    BY <1>0, <1>1, <1>2, <2>1, <2>2, <2>3, ReadJob, WriterHolds, EraserIsApart
    DEF Standing, Held, Erasing, Locked, Builds, Names, Whole
<1>3. CASE ReadNothing(w)
  <2>1. /\ \A v \in Holders \ {w} : job'[v] = job[v]
        /\ job'[w].at = "chunk" /\ job'[w].base = job[w].base
    BY <1>0, <1>3, GotoJob DEF ReadNothing, Places
  <2>2. UNCHANGED meta /\ revived' = (revived \/ ~Whole(job[w].base))
    BY <1>3 DEF ReadNothing, disk
  <2> QED
    BY <1>0, <1>1, <2>1, <2>2, WriterHolds, EraserIsApart
    DEF Standing, Held, Erasing, Locked, Builds, Names, Whole
<1> QED  BY <1>2, <1>3

LEMMA WritesStanding ==
  ASSUME Inv, NEW w \in Writers,
         MigrateEnds(w) \/ WriteChunks(w) \/ WriteMetadata(w) \/ DropOther(w)
  PROVE  Standing'
<1>0. /\ Shape /\ Standing /\ w \in Holders /\ w[1] \in Copies
      /\ job[w].at \in AtFiles /\ lock = w /\ lock' = lock
      /\ UNCHANGED <<era, revived>>
  BY WriterHolds
     DEF Inv, Standing, Held, Locked, AtFiles, MigrateEnds, WriteChunks, WriteMetadata,
         DropOther, history
<1>1. /\ job[Eraser].at = "idle" /\ \A v \in Writers \ {w} : job[v].at \notin AtFiles
      /\ ~revived => Whole(job[w].base)
  BY <1>0, EraserIsApart DEF Standing, Held, Erasing, Locked, Builds
<1>2. CASE MigrateEnds(w)
  <2>1. /\ \A v \in Holders \ {w} : job'[v] = job[v]
        /\ job'[w].at = "chunk" /\ job'[w].base = job[w].base
    BY <1>0, <1>2, GotoJob DEF MigrateEnds, Places
  <2>2. UNCHANGED files /\ \A f \in Formats : meta'[f] \in {meta[f], None}
    BY <1>0, <1>2 DEF MigrateEnds, Shape
  <2> QED
    BY <1>0, <1>1, <2>1, <2>2, WriterHolds, EraserIsApart
    DEF Standing, Held, Erasing, Locked, Builds, Names, Whole
<1>3. CASE WriteChunks(w)
  <2>1. UNCHANGED meta
    BY <1>3 DEF WriteChunks
  <2> QED
    BY <1>0, <1>1, <1>3, <2>1, WriteJob, WriterHolds, EraserIsApart
    DEF Standing, Held, Erasing, Locked, Builds, Names, Whole
<1>4. CASE WriteMetadata(w)
  <2>1. /\ \A v \in Holders \ {w} : job'[v] = job[v]
        /\ job'[w].at = "drop" /\ job'[w].base = job[w].base
    BY <1>0, <1>4, GotoJob DEF WriteMetadata, Places
  <2>2. UNCHANGED files /\ \A f \in Formats : meta'[f] \in {meta[f], job[w].base}
    BY <1>0, <1>4 DEF WriteMetadata, Shape
  <2> QED
    BY <1>0, <1>1, <2>1, <2>2, WriterHolds, EraserIsApart
    DEF Standing, Held, Erasing, Locked, Builds, Names, Whole
<1>5. CASE DropOther(w)
  <2>1. /\ \A v \in Holders \ {w} : job'[v] = job[v]
        /\ job'[w].at = "release" /\ job'[w].base = job[w].base
    BY <1>0, <1>5, GotoJob DEF DropOther, Places
  <2>2. UNCHANGED files /\ \A f \in Formats : meta'[f] \in {meta[f], None}
    BY <1>0, <1>5 DEF DropOther, Shape
  <2> QED
    BY <1>0, <1>1, <2>1, <2>2, WriterHolds, EraserIsApart
    DEF Standing, Held, Erasing, Locked, Builds, Names, Whole
<1> QED  BY <1>2, <1>3, <1>4, <1>5

LEMMA EndsStanding ==
  ASSUME Inv, NEW w \in Writers,
         \/ \E kind \in {"commit", "patch"} : Begin(w, kind)
         \/ Opened(w) \/ Release(w) \/ Return(w) \/ Fails(w)
  PROVE  Standing'
<1>0. Shape /\ Standing /\ w \in Holders /\ w[1] \in Copies /\ w # None
  BY WriterHolds DEF Inv, Standing, Held
<1>1. UNCHANGED <<files, era, revived>>
  BY DEF Begin, Opened, Release, Return, Fails, disk, history
<1>2. \A f \in Formats : meta'[f] \in {meta[f], None}
  BY <1>0 DEF Begin, Opened, Release, Return, Fails, disk, Shape
<1>3. /\ \A v \in Holders \ {w} : job'[v] = job[v]
      /\ job'[w].at \in {"idle", "lock", "return"}
  BY <1>0, BeginJob, ReleaseJob, IdleJob DEF Opened, Leaves, Return, Fails
<1>4. lock' = lock \/ (lock = w /\ lock' = None)
  BY <1>0 DEF Begin, Opened, Release, Return, Fails, Leaves, Standing, Held, Locked, AtFiles
<1> QED
  BY <1>0, <1>1, <1>2, <1>3, <1>4, WriterHolds, EraserIsApart
  DEF Standing, Held, Erasing, Locked, Builds, Names, Whole, AtFiles, Formats

LEMMA CopyStanding ==
  ASSUME Inv, NEW c \in Copies, AddMessage(c) \/ Open(c)
  PROVE  Standing'
<1> DEFINE w == <<c, "turn">>
<1>0. Shape /\ Standing /\ w \in Writers /\ w \in Holders
  BY Turns DEF Inv, Standing, Held
<1>1. UNCHANGED <<lock, meta, files, era, revived>>
  BY DEF AddMessage, Open, disk, history
<1>2. /\ \A v \in Holders \ {w} : job'[v] = job[v]
      /\ job'[w] = job[w] \/ job'[w].at \in {"gap", "lock"}
  <2>1. CASE AddMessage(c)
    BY <1>0, <2>1, GotoJob DEF AddMessage, Places
  <2>2. CASE Open(c)
    BY <1>0, <2>2 DEF Open, Idle, Shape
  <2> QED  BY <2>1, <2>2
<1> HIDE DEF w
<1> QED
  BY <1>0, <1>1, <1>2, WriterHolds, EraserIsApart
  DEF Standing, Held, Erasing, Locked, Builds, Names, Whole, AtFiles

LEMMA CrashStanding ==
  ASSUME Inv, NEW c \in Copies, Crash(c)
  PROVE  Standing'
<1>0. Shape /\ Standing
  BY DEF Inv, Standing, Held
<1>1. UNCHANGED <<meta, files, era, revived>>
  BY DEF Crash, disk
<1>2. \A v \in Holders : job'[v] = IF v[1] = c THEN Idle ELSE job[v]
  BY <1>0 DEF Crash, Shape
<1>3. \A v \in Holders : lock = v /\ v # None /\ v[1] # c => lock' = v
  BY DEF Crash
<1>4. Eraser # None /\ \A v \in Writers : v \in Holders /\ v # None
  BY WriterHolds, NoneAssumption
<1>5. ASSUME NEW v \in Writers PROVE Held(v)'
  BY <1>0, <1>1, <1>2, <1>3, <1>4
  DEF Standing, Held, Locked, Builds, Whole, Idle, AtFiles
<1>6. Erasing'
  BY <1>0, <1>1, <1>2, <1>3, <1>4, EraserIsApart DEF Standing, Erasing, Idle
<1>7. \A f \in Formats : Names(f)'
  BY <1>0, <1>1 DEF Standing, Names, Whole
<1> QED  BY <1>5, <1>6, <1>7 DEF Standing

LEMMA EraserStanding ==
  ASSUME Inv,
         EraseBegins \/ EraseChunks \/ EraseStops \/ (\E f \in Formats : EraseMetadata(f))
  PROVE  Standing'
<1>0. /\ Shape /\ Standing /\ Eraser \in Holders
      /\ \A v \in Writers : v \in Holders /\ v # None /\ v # Eraser
  BY WriterHolds, EraserIsApart DEF Inv, Standing, Held
<1>1. UNCHANGED revived
  BY DEF EraseBegins, EraseChunks, EraseStops, EraseMetadata, history
<1>2. \A v \in Writers : job[v].at \notin AtFiles
  BY <1>0, NoneAssumption
  DEF EraseBegins, EraseChunks, EraseStops, EraseMetadata, Standing, Erasing, Held, Locked, Formats
<1>3. CASE EraseBegins
  <2> DEFINE r == [job[Eraser] EXCEPT !.at = "plain", !.kind = "erase"]
  <2>1. job' = [job EXCEPT ![Eraser] = r]
    BY <1>3 DEF EraseBegins
  <2>2. job[Eraser] \in Job
    BY <1>0 DEF Shape
  <2>3. r.at = "plain"
    BY <2>2 DEF Job
  <2> HIDE DEF r
  <2>4. job'[Eraser] = r /\ \A v \in Holders \ {Eraser} : job'[v] = job[v]
    BY <1>0, <2>1 DEF Shape
  <2>5. UNCHANGED disk /\ lock' = Eraser /\ era < MaxErasures
    BY <1>3 DEF EraseBegins
  <2> QED
    BY <1>0, <1>1, <1>2, <2>3, <2>4, <2>5
    DEF Standing, Held, Erasing, Locked, Builds, Names, Whole, disk
<1>4. ASSUME NEW f \in Formats, EraseMetadata(f) PROVE Standing'
  <2>1. /\ \A v \in Holders \ {Eraser} : job'[v] = job[v]
        /\ job[Eraser].at = f /\ job'[Eraser].at = (IF f = "plain" THEN "enc" ELSE "files")
    BY <1>0, <1>4, GotoJob DEF EraseMetadata, Places
  <2>2. /\ meta'[f] = None /\ \A g \in Formats \ {f} : meta'[g] = meta[g]
        /\ UNCHANGED <<lock, files, era>>
    BY <1>0, <1>4 DEF EraseMetadata, Shape
  <2> QED
    BY <1>0, <1>1, <1>2, <2>1, <2>2
    DEF Standing, Held, Erasing, Locked, Builds, Names, Whole, Formats
<1>5. CASE EraseChunks
  <2>1. /\ \A v \in Holders \ {Eraser} : job'[v] = job[v]
        /\ job[Eraser].at = "files" /\ job'[Eraser].at = "idle"
    BY <1>0, <1>5, IdleJob DEF EraseChunks, Leaves
  <2>2. UNCHANGED meta
    BY <1>5 DEF EraseChunks
  <2> QED
    BY <1>0, <1>1, <1>2, <2>1, <2>2
    DEF Standing, Held, Erasing, Locked, Builds, Names, Formats
<1>6. CASE EraseStops
  <2>1. /\ \A v \in Holders \ {Eraser} : job'[v] = job[v]
        /\ job'[Eraser].at = "idle"
    BY <1>0, <1>6, IdleJob DEF EraseStops
  <2>2. UNCHANGED disk
    BY <1>6 DEF EraseStops
  <2> QED
    BY <1>0, <1>1, <1>2, <2>1, <2>2
    DEF Standing, Held, Erasing, Locked, Builds, Names, Whole, disk
<1> QED  BY <1>3, <1>4, <1>5, <1>6

LEMMA StandingStep ==
  ASSUME Inv, [Next]_vars
  PROVE  Standing'
<1>1. ASSUME NEW w \in Writers, Writer(w) PROVE Standing'
  BY <1>1, ReadsStanding, WritesStanding, EndsStanding DEF Writer
<1>2. CASE UNCHANGED vars
  BY <1>2
  DEF Inv, Standing, Held, Erasing, Locked, Builds, Names, Whole, vars, disk, history
<1> QED
  BY <1>1, <1>2, CopyStanding, CrashStanding, EraserStanding DEF Next

(***************************************************************************)
(* What the copies owe.                                                    *)
(***************************************************************************)
Owing == UnsavedIsPending /\ \A v \in Writers : Captures(v)

LEMMA OwingWriter ==
  ASSUME Inv, NEW w \in Writers, Writer(w)
  PROVE  Owing'
<1>0. /\ Shape /\ Owing /\ w \in Holders /\ w[1] \in Copies
      /\ \A v \in Writers : v \in Holders
  BY WriterHolds DEF Inv, Owing
<1>1. ASSUME NEW kind \in {"commit", "patch"}, Begin(w, kind) PROVE Owing'
  <2>1. /\ \A v \in Holders \ {w} : job'[v] = job[v]
        /\ job'[w].at = "lock" /\ job'[w].kind = kind
        /\ kind = "commit" => job'[w].captured = pending[w[1]]
    BY <1>0, <1>1, BeginJob
  <2>2. UNCHANGED <<pending, owed>> /\ tangled \subseteq tangled'
    BY <1>1 DEF Begin
  <2>3. UnsavedIsPending'
    BY <1>0, <2>2 DEF Owing, UnsavedIsPending
  <2>4. \A v \in Writers \ {w} : Captures(v)'
    BY <1>0, <2>1, <2>2 DEF Owing, Captures, Commits
  <2>5. Captures(w)'
    BY <1>0, <2>1, <2>2, <2>3 DEF Captures, Commits, UnsavedIsPending
  <2> QED  BY <2>3, <2>4, <2>5 DEF Owing
<1>2. CASE \/ ReadFound(w) \/ MigrateEnds(w) \/ ReadNothing(w)
           \/ WriteChunks(w) \/ WriteMetadata(w) \/ DropOther(w)
  <2>1. UNCHANGED <<pending, owed, tangled>>
    BY <1>2 DEF ReadFound, MigrateEnds, ReadNothing, WriteChunks, WriteMetadata, DropOther, history
  <2>2. /\ \A v \in Holders \ {w} : job'[v] = job[v]
        /\ job'[w].kind = job[w].kind /\ job'[w].captured = job[w].captured
        /\ job'[w].at # "return" /\ job[w].at \notin {"idle", "gap"}
    BY <1>0, <1>2, ReadJob, GotoJob, WriteJob
    DEF ReadFound, MigrateEnds, ReadNothing, WriteChunks, WriteMetadata, DropOther, Acquires, Places
  <2> QED
    BY <1>0, <2>1, <2>2 DEF Owing, UnsavedIsPending, Captures, Commits
<1>3. CASE Opened(w) \/ Fails(w)
  <2>1. UNCHANGED <<pending, owed>> /\ tangled \subseteq tangled'
    BY <1>3 DEF Opened, Fails, history
  <2>2. /\ \A v \in Holders \ {w} : job'[v] = job[v]
        /\ job'[w].at = "idle"
    BY <1>0, <1>3, IdleJob DEF Opened, Leaves, Fails
  <2> QED
    BY <1>0, <2>1, <2>2 DEF Owing, UnsavedIsPending, Captures, Commits
<1>4. CASE Release(w)
  <2>1. /\ UNCHANGED <<pending, tangled>>
        /\ \A c \in Copies : owed'[c] = owed[c] \ Range(job[w].captured)
        /\ job[w].at = "release"
    BY <1>4 DEF Release
  <2>2. job[w].kind = "commit" => owed'[w[1]] \subseteq tangled'
    BY <1>0, <2>1 DEF Owing, Captures, Commits
  <2> QED
    BY <1>0, <1>4, <2>1, <2>2, ReleaseJob, WriterHolds
    DEF Owing, UnsavedIsPending, Captures, Commits
<1>5. CASE Return(w)
  <2>1. /\ UNCHANGED <<owed, tangled>>
        /\ \A c \in Copies : pending'[c] = IF c = w[1] THEN <<>> ELSE pending[c]
        /\ job[w].at = "return"
    BY <1>0, <1>5 DEF Return, history, Shape
  <2>2. /\ \A v \in Holders \ {w} : job'[v] = job[v]
        /\ job'[w].at = "idle"
    BY <1>0, <1>5, IdleJob DEF Return
  <2>3. owed[w[1]] \subseteq tangled
    BY <1>0, <2>1 DEF Owing, Captures
  <2> QED
    BY <1>0, <2>1, <2>2, <2>3 DEF Owing, UnsavedIsPending, Captures, Commits
<1> QED  BY <1>1, <1>2, <1>3, <1>4, <1>5 DEF Writer

LEMMA OwingStep ==
  ASSUME Inv, [Next]_vars
  PROVE  Owing'
<1>0. Shape /\ Owing /\ \A v \in Writers : v \in Holders /\ v[1] \in Copies
  BY WriterHolds DEF Inv, Owing
<1>1. ASSUME NEW c \in Copies, AddMessage(c) PROVE Owing'
  <2> DEFINE w == <<c, "turn">>
  <2>1. /\ \A v \in Holders \ {w} : job'[v] = job[v]
        /\ job'[w].at = "gap" /\ w \in Writers
    BY <1>0, <1>1, Turns, GotoJob DEF AddMessage, Places
  <2> HIDE DEF w
  <2>2. /\ pending' = [pending EXCEPT ![c] = Append(@, told + 1)]
        /\ owed' = [owed EXCEPT ![c] = @ \cup {told + 1}]
        /\ tangled \subseteq tangled' /\ (Committing(c) => told + 1 \in tangled')
    BY <1>1 DEF AddMessage
  <2>3. Range(Append(pending[c], told + 1)) = Range(pending[c]) \cup {told + 1}
    <3>1. pending[c] \in Seq(Messages)
      BY <1>0 DEF Shape
    <3>2. /\ DOMAIN Append(pending[c], told + 1) = 1..(Len(pending[c]) + 1)
          /\ DOMAIN pending[c] = 1..Len(pending[c]) /\ Len(pending[c]) \in Nat
          /\ \A i \in 1..Len(pending[c]) : Append(pending[c], told + 1)[i] = pending[c][i]
          /\ Append(pending[c], told + 1)[Len(pending[c]) + 1] = told + 1
      BY <3>1
    <3> QED  BY <3>2 DEF Range
  <2>4. UnsavedIsPending'
    BY <1>0, <2>2, <2>3 DEF Owing, UnsavedIsPending, Shape
  <2>5. ASSUME NEW v \in Writers PROVE Captures(v)'
    <3>1. CASE v = w
      BY <2>1, <3>1 DEF Captures, Commits
    <3>2. CASE v # w /\ v[1] # c
      BY <1>0, <2>1, <2>2, <3>2 DEF Owing, Captures, Commits, Shape
    <3>3. CASE v # w /\ v[1] = c
      <4>1. job'[v] = job[v] /\ (Commits(v) => Committing(c))
        BY <1>0, <2>1, <3>3 DEF Commits, Committing
      <4>2. job[v].at = "return" => Commits(v)
        BY <1>0 DEF Owing, Captures, Commits
      <4>3. Commits(v) => owed'[c] \ tangled' \subseteq owed[c] \ tangled
        BY <1>0, <2>2, <4>1 DEF Shape
      <4> QED  BY <1>0, <3>3, <4>1, <4>2, <4>3 DEF Owing, Captures, Commits
    <3> QED  BY <3>1, <3>2, <3>3
  <2> QED  BY <2>4, <2>5 DEF Owing
<1>2. ASSUME NEW c \in Copies, Open(c) PROVE Owing'
  <2> DEFINE w == <<c, "turn">>
  <2>1. UNCHANGED <<pending, owed, tangled>>
    BY <1>2 DEF Open, history
  <2>2. /\ w \in Writers /\ \A v \in Holders \ {w} : job'[v] = job[v]
        /\ job'[w] = job[w] \/ (job'[w].kind = "open" /\ job'[w].at = "lock")
    BY <1>0, <1>2, Turns DEF Open, Idle, Shape
  <2> HIDE DEF w
  <2> QED
    BY <1>0, <2>1, <2>2 DEF Owing, UnsavedIsPending, Captures, Commits
<1>3. ASSUME NEW c \in Copies, Crash(c) PROVE Owing'
  <2>1. /\ \A v \in Holders : job'[v] = IF v[1] = c THEN Idle ELSE job[v]
        /\ owed'[c] = {} /\ UNCHANGED tangled
        /\ \A d \in Copies \ {c} : owed'[d] = owed[d] /\ pending'[d] = pending[d]
    BY <1>0, <1>3 DEF Crash, Shape
  <2>2. Idle.at = "idle"
    BY DEF Idle
  <2> QED
    BY <1>0, <2>1, <2>2 DEF Owing, UnsavedIsPending, Captures, Commits
<1>4. CASE EraseBegins \/ EraseChunks \/ EraseStops \/ \E f \in Formats : EraseMetadata(f)
  <2>1. UNCHANGED <<pending, owed, tangled>>
    BY <1>4 DEF EraseBegins, EraseChunks, EraseStops, EraseMetadata, history
  <2>2. \A v \in Writers : job'[v] = job[v]
    BY <1>0, <1>4, EraserIsApart
    DEF EraseBegins, EraseChunks, EraseStops, EraseMetadata, Leaves, Goto, Shape
  <2> QED
    BY <1>0, <2>1, <2>2 DEF Owing, UnsavedIsPending, Captures, Commits
<1>5. CASE UNCHANGED vars
  BY <1>0, <1>5 DEF Owing, UnsavedIsPending, Captures, Commits, vars, history
<1> QED  BY <1>1, <1>2, <1>3, <1>4, <1>5, OwingWriter DEF Next

LEMMA InvStep ==
  ASSUME Inv, [Next]_vars
  PROVE  Inv'
<1>1. Shape' /\ Standing' /\ Owing'
  BY ShapeStep, StandingStep, OwingStep DEF Inv
<1> QED  BY <1>1 DEF Inv, Standing, Held, Owing

(* The inductive invariant holds in every reachable state.                 *)
THEOREM Invariance == Spec => []Inv
<1>1. Init => Inv
  BY InvInit
<1>2. Inv /\ [Next]_vars => Inv'
  BY InvStep
<1> QED  BY <1>1, <1>2, PTL DEF Spec

(***************************************************************************)
(* What follows.                                                           *)
(***************************************************************************)
(* The copies, the writers' jobs and the files have their shape: every     *)
(* chunk that is written, from a tail or anew, has at most ChunkSize       *)
(* messages and at least one.                                              *)
THEOREM TypeCorrect == Spec => []TypeOK
<1>1. Inv => TypeOK
  <2> SUFFICES ASSUME Inv PROVE TypeOK
    OBVIOUS
  <2>1. Shape
    BY DEF Inv
  <2>2. \A c \in Copies : Range(pending[c]) \subseteq Messages /\ IsArchive(known[c])
    BY <2>1, ArchiveRange DEF Shape, IsArchive
  <2>3. \A w \in Holders :
          /\ job[w].at \in Places /\ job[w].kind \in {"commit", "patch", "open", "erase"}
          /\ Range(job[w].captured) \subseteq Messages /\ IsArchive(job[w].base)
    <3> SUFFICES ASSUME NEW w \in Holders
                 PROVE  /\ job[w].at \in Places
                        /\ job[w].kind \in {"commit", "patch", "open", "erase"}
                        /\ Range(job[w].captured) \subseteq Messages /\ IsArchive(job[w].base)
      OBVIOUS
    <3>1. job[w] \in Job
      BY <2>1 DEF Shape
    <3> QED  BY <3>1, ArchiveRange DEF Job, IsArchive
  <2>4. \A f \in Formats : meta[f] = None \/ IsArchive(meta[f])
    BY <2>1, ArchiveRange DEF Shape, IsArchive
  <2> QED  BY <2>1, <2>2, <2>3, <2>4 DEF Shape, TypeOK, Holders
<1> QED  BY <1>1, Invariance, PTL

(* commitSessionSnapshot, deleteSession and re-encryption never leave      *)
(* metadata that names chunks which are not there, wherever they stop.     *)
THEOREM ArchiveStaysWhole == Spec => []ArchiveIsWhole
<1>1. Inv => ArchiveIsWhole
  BY DEF Inv, Names, ArchiveIsWhole
<1> QED  BY <1>1, Invariance, PTL

(* The part of ArchivedExactlyOnce about the messages in memory: a commit  *)
(* that returns clears only messages that are saved, or that another       *)
(* commit of the copy could reach.                                         *)
THEOREM NothingUnsavedIsForgotten == Spec => []UnsavedIsPending
<1>1. Inv => UnsavedIsPending
  BY DEF Inv
<1> QED  BY <1>1, Invariance, PTL
(***************************************************************************)
(* Induction on the length of a sequence, as the least element of a set of *)
(* counterexamples.                                                        *)
(***************************************************************************)
Below == {pair \in Nat \X Nat : pair[1] < pair[2]}

(* The numbers are well founded by their order, given as a set of pairs.   *)
LEMMA BelowIsWellFounded == IsWellFoundedOn(Below, Nat)
  BY NatLessThanWellFounded, Zenon DEF Below, OpToRel

(* A set of numbers that holds each number whose predecessors it holds     *)
(* holds them all.                                                         *)
LEMMA NatSetInduction ==
  ASSUME NEW S, S \subseteq Nat, 0 \in S, \A n \in S : n + 1 \in S
  PROVE  S = Nat
<1>1. SUFFICES ASSUME Nat \ S # {} PROVE FALSE
  OBVIOUS
<1>2. PICK m \in Nat \ S : \A k \in Nat \ S : ~(<<k, m>> \in Below)
  BY <1>1, BelowIsWellFounded, WFMin
<1>3. m \in Nat /\ m # 0
  BY <1>2
<1>4. m - 1 \in Nat /\ <<m - 1, m>> \in Below
  BY <1>3 DEF Below
<1>5. m - 1 \in S
  BY <1>2, <1>4
<1> QED  BY <1>2, <1>3, <1>5

(***************************************************************************)
(* Flat.  FlatStep is the body of the recursive function of FlattenSeq, so *)
(* that Flattened is the function it evaluates.                            *)
(***************************************************************************)
FlatStep(q, f, i) == IF i = 1 THEN q[i] ELSE f[i - 1] \o q[i]

Flattened(q) == CHOOSE f : f = [i \in 1..Len(q) |-> FlatStep(q, f, i)]

(* The recursion defines a function: its equation has a solution.          *)
LEMMA FlattenedExists ==
  ASSUME NEW q, Len(q) \in Nat
  PROVE  \E f : f = [i \in 1..Len(q) |-> FlatStep(q, f, i)]
<1> DEFINE Solves(f, k) == \A n \in 1..k : f[n] = FlatStep(q, f, n)
           Solved == {k \in Nat : \E f : f = [n \in 1..k |-> f[n]] /\ Solves(f, k)}
<1>1. 0 \in Solved
  <2> DEFINE f == [n \in 1..0 |-> <<>>]
  <2>1. f = [n \in 1..0 |-> f[n]] /\ Solves(f, 0)
    OBVIOUS
  <2> QED  BY <2>1
<1>2. ASSUME NEW k \in Solved PROVE k + 1 \in Solved
  <2>1. PICK f : f = [n \in 1..k |-> f[n]] /\ Solves(f, k)
    BY <1>2
  <2> DEFINE g == [n \in 1..(k + 1) |-> IF n = k + 1 THEN FlatStep(q, f, n) ELSE f[n]]
  <2>2. g = [n \in 1..(k + 1) |-> g[n]]
    OBVIOUS
  <2>3. ASSUME NEW n \in 1..(k + 1) PROVE g[n] = FlatStep(q, g, n)
    <3>1. n # 1 => n - 1 \in 1..k /\ g[n - 1] = f[n - 1]
      OBVIOUS
    <3>2. FlatStep(q, g, n) = FlatStep(q, f, n)
      BY <3>1 DEF FlatStep
    <3>3. CASE n = k + 1
      BY <3>2, <3>3
    <3>4. CASE n \in 1..k
      BY <2>1, <3>2, <3>4
    <3> QED  BY <3>3, <3>4
  <2> HIDE DEF g
  <2>4. k + 1 \in Nat /\ Solves(g, k + 1)
    BY <2>3
  <2> QED  BY <2>2, <2>4
<1>3. Solved = Nat
  <2> HIDE DEF Solved
  <2>1. Solved \subseteq Nat
    BY DEF Solved
  <2> QED  BY <1>1, <1>2, <2>1, NatSetInduction
<1>4. Len(q) \in Solved
  BY <1>3
<1>5. PICK f : f = [n \in 1..Len(q) |-> f[n]] /\ Solves(f, Len(q))
  BY <1>4
<1>6. f = [n \in 1..Len(q) |-> FlatStep(q, f, n)]
  BY <1>5
<1> QED  BY <1>6

(* FlattenSeq(q) is the last value of that function.                       *)
LEMMA FlattenedIs ==
  ASSUME NEW q, Len(q) \in Nat
  PROVE  /\ FlattenSeq(q) = IF Len(q) = 0 THEN q ELSE Flattened(q)[Len(q)]
         /\ \A i \in 1..Len(q) : Flattened(q)[i] = FlatStep(q, Flattened(q), i)
<1>1. FlattenSeq(q) = IF Len(q) = 0 THEN q ELSE Flattened(q)[Len(q)]
  BY DEF FlattenSeq, Flattened, FlatStep
<1>2. Flattened(q) = [i \in 1..Len(q) |-> FlatStep(q, Flattened(q), i)]
  BY FlattenedExists DEF Flattened
<1> QED  BY <1>1, <1>2

(* The values of the function for q depend on what is in q only.           *)
LEMMA FlattenedAgrees ==
  ASSUME NEW q, NEW r, Len(q) \in Nat, Len(r) \in Nat, Len(q) <= Len(r),
         \A i \in 1..Len(q) : q[i] = r[i]
  PROVE  \A i \in 1..Len(q) : Flattened(q)[i] = Flattened(r)[i]
<1> DEFINE f == Flattened(q)
           g == Flattened(r)
           Good == {n \in Nat : \A i \in 1..n : i <= Len(q) => f[i] = g[i]}
<1>1. /\ \A i \in 1..Len(q) : f[i] = FlatStep(q, f, i)
      /\ \A i \in 1..Len(r) : g[i] = FlatStep(r, g, i)
  BY FlattenedIs
<1> HIDE DEF f, g
<1>2. 0 \in Good
  OBVIOUS
<1>3. ASSUME NEW n \in Good PROVE n + 1 \in Good
  <2> SUFFICES ASSUME n + 1 <= Len(q) PROVE f[n + 1] = g[n + 1]
    OBVIOUS
  <2>1. n + 1 \in 1..Len(q) /\ n + 1 \in 1..Len(r) /\ (n + 1) - 1 = n
    OBVIOUS
  <2>2. n + 1 # 1 => f[n] = g[n]
    <3>1. n + 1 # 1 => n \in 1..n /\ n <= Len(q)
      BY <2>1
    <3> QED  BY <3>1
  <2>3. q[n + 1] = r[n + 1]
    BY <2>1
  <2>4. f[n + 1] = FlatStep(q, f, n + 1) /\ g[n + 1] = FlatStep(r, g, n + 1)
    BY <1>1, <2>1
  <2> QED  BY <2>1, <2>2, <2>3, <2>4 DEF FlatStep
<1>4. Good = Nat
  <2> HIDE DEF Good
  <2>1. Good \subseteq Nat
    BY DEF Good
  <2> QED  BY <1>2, <1>3, <2>1, NatSetInduction
<1>5. Len(q) \in Good
  BY <1>4
<1> QED  BY <1>5 DEF f, g

(* What is flattened is a sequence of what was in the sequences.           *)
LEMMA FlattenType ==
  ASSUME NEW M, NEW q \in Seq(Seq(M))
  PROVE  FlattenSeq(q) \in Seq(M)
<1> DEFINE f == Flattened(q)
           Good == {n \in Nat : n + 1 <= Len(q) => f[n + 1] \in Seq(M)}
<1>0. Len(q) \in Nat /\ \A i \in 1..Len(q) : q[i] \in Seq(M)
  OBVIOUS
<1>1. \A i \in 1..Len(q) : f[i] = FlatStep(q, f, i)
  BY <1>0, FlattenedIs
<1> HIDE DEF f
<1>2. 0 \in Good
  BY <1>0, <1>1 DEF FlatStep
<1>3. ASSUME NEW n \in Good PROVE n + 1 \in Good
  <2> SUFFICES ASSUME (n + 1) + 1 <= Len(q) PROVE f[(n + 1) + 1] \in Seq(M)
    OBVIOUS
  <2>1. (n + 1) + 1 \in 1..Len(q) /\ ((n + 1) + 1) - 1 = n + 1 /\ (n + 1) + 1 # 1
    BY <1>0
  <2>2. f[n + 1] \in Seq(M)
    BY <1>0
  <2>3. f[(n + 1) + 1] = f[n + 1] \o q[(n + 1) + 1]
    BY <1>1, <2>1 DEF FlatStep
  <2>4. q[(n + 1) + 1] \in Seq(M)
    BY <1>0, <2>1
  <2> QED  BY <2>2, <2>3, <2>4
<1>4. Good = Nat
  <2> HIDE DEF Good
  <2>1. Good \subseteq Nat
    BY DEF Good
  <2> QED  BY <1>2, <1>3, <2>1, NatSetInduction
<1>5. CASE Len(q) = 0
  <2>1. q = <<>>
    BY <1>5
  <2>2. FlattenSeq(q) = q
    BY <1>0, <1>5, FlattenedIs
  <2>3. <<>> \in Seq(M)
    OBVIOUS
  <2> QED  BY <2>1, <2>2, <2>3
<1>6. CASE Len(q) # 0
  <2>1. Len(q) - 1 \in Nat /\ (Len(q) - 1) + 1 = Len(q)
    BY <1>0, <1>6
  <2>2. Len(q) - 1 \in Good
    BY <1>4, <2>1, Zenon
  <2>3. f[Len(q)] \in Seq(M)
    BY <1>0, <2>1, <2>2
  <2> QED  BY <1>0, <1>6, <2>3, FlattenedIs DEF f
<1> QED  BY <1>5, <1>6

(* One more sequence adds its elements at the end.                         *)
LEMMA FlattenAppend ==
  ASSUME NEW M, NEW q \in Seq(Seq(M)), NEW x \in Seq(M)
  PROVE  FlattenSeq(Append(q, x)) = FlattenSeq(q) \o x
<1> DEFINE r == Append(q, x)
           n == Len(q)
<1>1. /\ n \in Nat /\ Len(r) = n + 1 /\ r[n + 1] = x /\ Len(r) \in Nat /\ Len(r) # 0
      /\ \A i \in 1..n : q[i] = r[i]
  OBVIOUS
<1>2. /\ FlattenSeq(r) = Flattened(r)[n + 1]
      /\ FlattenSeq(q) = IF n = 0 THEN q ELSE Flattened(q)[n]
      /\ Flattened(r)[n + 1] = FlatStep(r, Flattened(r), n + 1)
  <2>1. n + 1 \in 1..Len(r)
    BY <1>1
  <2> HIDE DEF r
  <2> QED  BY <1>1, <2>1, FlattenedIs
<1>3. \A i \in 1..n : Flattened(q)[i] = Flattened(r)[i]
  <2> HIDE DEF r
  <2>1. Len(q) \in Nat /\ Len(r) \in Nat /\ Len(q) <= Len(r) /\ \A i \in 1..Len(q) : q[i] = r[i]
    BY <1>1
  <2> HIDE DEF n
  <2>2. \A i \in 1..Len(q) : Flattened(q)[i] = Flattened(r)[i]
    BY <2>1, FlattenedAgrees
  <2> QED  BY <2>2 DEF n
<1> HIDE DEF r
<1>4. CASE n = 0
  <2>1. FlattenSeq(r) = x /\ FlattenSeq(q) = <<>>
    BY <1>1, <1>2, <1>4 DEF FlatStep
  <2> QED  BY <2>1 DEF r
<1>5. CASE n # 0
  <2>1. n \in 1..n /\ n + 1 # 1 /\ (n + 1) - 1 = n
    BY <1>1, <1>5
  <2>2. FlattenSeq(r) = Flattened(r)[n] \o x
    BY <1>1, <1>2, <2>1 DEF FlatStep
  <2> QED  BY <1>2, <1>3, <1>5, <2>1, <2>2 DEF r
<1> QED  BY <1>4, <1>5

(***************************************************************************)
(* What an archive reads as.                                               *)
(***************************************************************************)
(* The empty archive reads as nothing, and a chunk adds its text.          *)
LEMMA FlatFacts ==
  ASSUME NEW a \in Seq(Chunks)
  PROVE  /\ Flat(a) \in Seq(Messages)
         /\ Flat(<<>>) = <<>>
         /\ \A chunk \in Chunks : Flat(Append(a, chunk)) = Flat(a) \o chunk.text
<1> DEFINE texts(b) == [i \in DOMAIN b |-> b[i].text]
<1>1. \A chunk \in Chunks : chunk.text \in Seq(Messages)
  BY TextType DEF Chunks
<1>2. texts(a) \in Seq(Seq(Messages))
  <2>1. DOMAIN a = 1..Len(a) /\ Len(a) \in Nat /\ \A i \in 1..Len(a) : a[i] \in Chunks
    OBVIOUS
  <2>2. \A i \in 1..Len(a) : a[i].text \in Seq(Messages)
    BY <1>1, <2>1
  <2>3. [i \in 1..Len(a) |-> a[i].text] \in Seq(Seq(Messages))
    BY <2>1, <2>2, IsASeq
  <2> QED  BY <2>1, <2>3
<1>3. Flat(a) \in Seq(Messages)
  <2> HIDE DEF texts
  <2>1. FlattenSeq(texts(a)) \in Seq(Messages)
    BY <1>2, FlattenType
  <2> QED  BY <2>1 DEF Flat, texts
<1>4. Flat(<<>>) = <<>>
  <2>1. texts(<<>>) = <<>>
    OBVIOUS
  <2>2. FlattenSeq(<<>>) = <<>>
    BY FlattenedIs
  <2> QED  BY <2>1, <2>2 DEF Flat
<1>5. ASSUME NEW chunk \in Chunks PROVE Flat(Append(a, chunk)) = Flat(a) \o chunk.text
  <2>1. texts(Append(a, chunk)) = Append(texts(a), chunk.text)
    <3> DEFINE b == Append(a, chunk)
               t == texts(a)
               u == Append(t, chunk.text)
    <3>1. /\ b \in Seq(Chunks) /\ Len(b) = Len(a) + 1 /\ Len(a) \in Nat
          /\ DOMAIN b = 1..(Len(a) + 1) /\ DOMAIN a = 1..Len(a)
          /\ b[Len(a) + 1] = chunk /\ \A i \in 1..Len(a) : b[i] = a[i]
      OBVIOUS
    <3>2. t \in Seq(Seq(Messages)) /\ Len(t) = Len(a) /\ \A i \in 1..Len(a) : t[i] = a[i].text
      BY <1>2, <3>1
    <3>3. chunk.text \in Seq(Messages)
      BY <1>1
    <3> HIDE DEF t, b
    <3>4. /\ u \in Seq(Seq(Messages)) /\ DOMAIN u = 1..(Len(a) + 1)
          /\ u[Len(a) + 1] = chunk.text /\ \A i \in 1..Len(a) : u[i] = t[i]
      BY <3>1, <3>2, <3>3
    <3>5. u = [i \in 1..(Len(a) + 1) |-> u[i]]
      BY <3>4
    <3> HIDE DEF u
    <3>6. \A i \in 1..(Len(a) + 1) : i \in 1..Len(a) \/ i = Len(a) + 1
      BY <3>1
    <3>7. \A i \in 1..(Len(a) + 1) : u[i] = b[i].text
      BY <3>1, <3>2, <3>4, <3>6
    <3>8. u = [i \in DOMAIN b |-> b[i].text]
      BY <3>1, <3>5, <3>7
    <3> QED  BY <3>8 DEF u, t, b
  <2> HIDE DEF texts
  <2>2. FlattenSeq(Append(texts(a), chunk.text)) = FlattenSeq(texts(a)) \o chunk.text
    BY <1>1, <1>2, FlattenAppend
  <2> QED  BY <2>1, <2>2 DEF Flat, texts
<1> QED  BY <1>3, <1>4, <1>5

(* What ConcatProperties says of each place.                               *)
LEMMA Appended ==
  ASSUME NEW S, NEW s \in Seq(S), NEW t \in Seq(S)
  PROVE  /\ s \o t \in Seq(S) /\ Len(s \o t) = Len(s) + Len(t)
         /\ \A i \in 1..Len(s) : (s \o t)[i] = s[i]
         /\ \A i \in 1..Len(t) : (s \o t)[Len(s) + i] = t[i]
<1>1. Len(s) \in Nat /\ Len(t) \in Nat
  OBVIOUS
<1>2. /\ s \o t \in Seq(S) /\ Len(s \o t) = Len(s) + Len(t)
      /\ \A i \in 1..(Len(s) + Len(t)) :
           (s \o t)[i] = IF i <= Len(s) THEN s[i] ELSE t[i - Len(s)]
  BY ConcatProperties
<1> DEFINE u == s \o t
<1> HIDE DEF u
<1>3. ASSUME NEW i \in 1..Len(s) PROVE u[i] = s[i]
  BY <1>1, <1>2 DEF u
<1>4. ASSUME NEW i \in 1..Len(t) PROVE u[Len(s) + i] = t[i]
  <2>1. /\ Len(s) + i \in 1..(Len(s) + Len(t)) /\ ~(Len(s) + i <= Len(s))
        /\ (Len(s) + i) - Len(s) = i
    BY <1>1
  <2> QED  BY <1>2, <2>1 DEF u
<1> QED  BY <1>2, <1>3, <1>4 DEF u

(* A sequence, and the first elements of another, one by one.              *)
LEMMA ConcatNext ==
  ASSUME NEW S, NEW s \in Seq(S), NEW t \in Seq(S)
  PROVE  /\ s \o SubSeq(t, 1, 0) = s
         /\ s \o SubSeq(t, 1, Len(t)) = s \o t
         /\ \A k \in Nat : k < Len(t) =>
              /\ s \o SubSeq(t, 1, k) \in Seq(S)
              /\ s \o SubSeq(t, 1, k + 1) = Append(s \o SubSeq(t, 1, k), t[k + 1])
<1>1. SubSeq(t, 1, 0) = <<>> /\ SubSeq(t, 1, Len(t)) = t
  OBVIOUS
<1>2. ASSUME NEW k \in Nat, k < Len(t)
      PROVE  /\ s \o SubSeq(t, 1, k) \in Seq(S)
             /\ s \o SubSeq(t, 1, k + 1) = Append(s \o SubSeq(t, 1, k), t[k + 1])
  <2> DEFINE u == SubSeq(t, 1, k)
             v == SubSeq(t, 1, k + 1)
             left == s \o v
             right == Append(s \o u, t[k + 1])
  <2>1. /\ u \in Seq(S) /\ Len(u) = k /\ \A i \in 1..k : u[i] = t[i]
        /\ v \in Seq(S) /\ Len(v) = k + 1 /\ \A i \in 1..(k + 1) : v[i] = t[i]
        /\ t[k + 1] \in S
    <3>1. Len(t) \in Nat /\ \A i \in 1..Len(t) : t[i] \in S
      OBVIOUS
    <3>2. k + 1 \in 1..Len(t)
      BY <1>2, <3>1
    <3>3. \A i \in 1..(k + 1) : t[i] \in S
      BY <1>2, <3>1
    <3>4. u \in Seq(S) /\ Len(u) = k /\ \A i \in 1..k : u[i] = t[i]
      BY <1>2, <3>1, <3>3
    <3>5. v \in Seq(S) /\ Len(v) = k + 1 /\ \A i \in 1..(k + 1) : v[i] = t[i]
      BY <1>2, <3>1, <3>3
    <3> QED  BY <3>1, <3>2, <3>4, <3>5
  <2> HIDE DEF u, v
  <2>a. \A p \in Seq(S) :
          /\ s \o p \in Seq(S) /\ Len(s \o p) = Len(s) + Len(p)
          /\ \A i \in 1..Len(s) : (s \o p)[i] = s[i]
          /\ \A i \in 1..Len(p) : (s \o p)[Len(s) + i] = p[i]
    BY Appended
  <2>2. /\ left \in Seq(S) /\ Len(left) = Len(s) + Len(v)
        /\ \A i \in 1..Len(s) : left[i] = s[i]
        /\ \A i \in 1..Len(v) : left[Len(s) + i] = v[i]
    BY <2>1, <2>a, Zenon
  <2>3. /\ s \o u \in Seq(S) /\ Len(s \o u) = Len(s) + Len(u)
        /\ \A i \in 1..Len(s) : (s \o u)[i] = s[i]
        /\ \A i \in 1..Len(u) : (s \o u)[Len(s) + i] = u[i]
    BY <2>1, <2>a, Zenon
  <2>4. /\ right \in Seq(S) /\ Len(right) = Len(s \o u) + 1
        /\ \A i \in 1..Len(s \o u) : right[i] = (s \o u)[i]
        /\ right[Len(s \o u) + 1] = t[k + 1]
    <3>1. \A p \in Seq(S), x \in S :
            /\ Append(p, x) \in Seq(S) /\ Len(Append(p, x)) = Len(p) + 1
            /\ \A i \in 1..Len(p) : Append(p, x)[i] = p[i]
            /\ Append(p, x)[Len(p) + 1] = x
      OBVIOUS
    <3> QED  BY <2>1, <2>3, <3>1, Zenon
  <2>5. Len(s) \in Nat /\ Len(u) = k /\ Len(v) = k + 1
    BY <2>1
  <2> DEFINE su == s \o u
  <2> HIDE DEF left, right, su
  <2>6. ASSUME NEW i \in 1..Len(left) PROVE left[i] = right[i]
    <3>0. Len(left) = Len(s) + k + 1 /\ Len(su) = Len(s) + k
      BY <2>2, <2>3, <2>5 DEF su
    <3>1. CASE i <= Len(s)
      <4>1. i \in 1..Len(s) /\ i \in 1..Len(su)
        BY <1>2, <2>5, <3>0, <3>1
      <4> QED  BY <2>2, <2>3, <2>4, <4>1 DEF su
    <3>2. CASE i = Len(s) + k + 1
      <4>1. k + 1 \in 1..Len(v) /\ k + 1 \in 1..(k + 1) /\ i = Len(s) + (k + 1) /\ i = Len(su) + 1
        BY <1>2, <2>5, <3>0, <3>2
      <4>2. left[i] = v[k + 1] /\ right[i] = t[k + 1]
        BY <2>2, <2>4, <4>1 DEF su
      <4> QED  BY <2>1, <4>1, <4>2
    <3>3. CASE i > Len(s) /\ i < Len(s) + k + 1
      <4> DEFINE j == i - Len(s)
      <4>1. /\ j \in 1..Len(u) /\ j \in 1..Len(v) /\ Len(s) + j = i /\ i \in 1..Len(su)
            /\ j \in 1..k /\ j \in 1..(k + 1)
        BY <1>2, <2>5, <3>0, <3>3
      <4> HIDE DEF j
      <4>2. left[i] = v[j] /\ right[i] = u[j]
        BY <2>2, <2>3, <2>4, <4>1 DEF su
      <4> QED  BY <2>1, <4>1, <4>2
    <3> QED  BY <1>2, <2>5, <3>0, <3>1, <3>2, <3>3
  <2>7. left = right
    <3>1. Len(left) = Len(right)
      BY <1>2, <2>2, <2>3, <2>4, <2>5
    <3> QED  BY <2>2, <2>4, <2>6, <3>1, SeqEqual
  <2> QED  BY <2>1, <2>3, <2>7 DEF left, right, u, v
<1> QED  BY <1>1, <1>2

(* u and v are the first x elements of t, and those up to y; w is both.    *)
Cuts(S, s, t, u, v, w, x, y) ==
  /\ s \in Seq(S) /\ t \in Seq(S) /\ u \in Seq(S) /\ v \in Seq(S) /\ w \in Seq(S)
  /\ x \in Nat /\ y \in Nat /\ x <= y
  /\ Len(u) = x /\ Len(w) = y /\ Len(v) = y - x
  /\ \A i \in 1..x : u[i] = t[i]
  /\ \A i \in 1..y : w[i] = t[i]
  /\ \A i \in 1..(y - x) : v[i] = t[x + i]

(* Two ways to put three sequences together give the same elements.        *)
LEMMA SplicedOf ==
  ASSUME NEW S, NEW s, NEW t, NEW u, NEW v, NEW w, NEW x, NEW y,
         Cuts(S, s, t, u, v, w, x, y)
  PROVE  (s \o u) \o v = s \o w
<1>a. s \in Seq(S) /\ u \in Seq(S) /\ v \in Seq(S) /\ w \in Seq(S)
  BY DEF Cuts
<1> DEFINE su == s \o u
           left == su \o v
           right == s \o w
<1>0. Len(s) \in Nat
  BY <1>a
<1>1. /\ su \in Seq(S) /\ Len(su) = Len(s) + Len(u)
      /\ \A i \in 1..Len(s) : su[i] = s[i]
      /\ \A i \in 1..Len(u) : su[Len(s) + i] = u[i]
  BY <1>a, Appended
<1>2. /\ right \in Seq(S) /\ Len(right) = Len(s) + Len(w)
      /\ \A i \in 1..Len(s) : right[i] = s[i]
      /\ \A i \in 1..Len(w) : right[Len(s) + i] = w[i]
  BY <1>a, Appended
<1>3. /\ left \in Seq(S) /\ Len(left) = Len(su) + Len(v)
      /\ \A i \in 1..Len(su) : left[i] = su[i]
      /\ \A i \in 1..Len(v) : left[Len(su) + i] = v[i]
  <2>1. \A p \in Seq(S) :
          /\ p \o v \in Seq(S) /\ Len(p \o v) = Len(p) + Len(v)
          /\ \A i \in 1..Len(p) : (p \o v)[i] = p[i]
          /\ \A i \in 1..Len(v) : (p \o v)[Len(p) + i] = v[i]
    BY <1>a, Appended
  <2> HIDE DEF su
  <2> QED  BY <1>1, <2>1, Zenon
<1> HIDE DEF su, left, right
<1>b. /\ x \in Nat /\ y \in Nat /\ x <= y
      /\ Len(u) = x /\ Len(w) = y /\ Len(v) = y - x
      /\ \A i \in 1..x : u[i] = t[i]
      /\ \A i \in 1..y : w[i] = t[i]
      /\ \A i \in 1..(y - x) : v[i] = t[x + i]
  BY DEF Cuts
<1>4. Len(left) = Len(s) + y /\ Len(right) = Len(s) + y
  BY <1>0, <1>b, <1>1, <1>2, <1>3
<1>5. ASSUME NEW i \in 1..Len(left) PROVE left[i] = right[i]
  <2>1. CASE i <= Len(s)
    <3>1. i \in 1..Len(s) /\ i \in 1..Len(su)
      BY <1>0, <1>b, <1>1, <1>4, <2>1
    <3> QED  BY <1>b, <1>1, <1>2, <1>3, <3>1
  <2>2. CASE i > Len(s) /\ i <= Len(s) + x
    <3> DEFINE j == i - Len(s)
    <3>1. j \in 1..x /\ j \in 1..y /\ Len(s) + j = i /\ i \in 1..Len(su)
      BY <1>0, <1>b, <1>1, <1>4, <2>2
    <3> HIDE DEF j
    <3>2. left[i] = u[j] /\ right[i] = w[j]
      BY <1>b, <1>1, <1>2, <1>3, <3>1
    <3> QED  BY <1>b, <3>1, <3>2
  <2>3. CASE i > Len(s) + x
    <3> DEFINE j == i - Len(s)
               k == j - x
    <3>1. k \in 1..(y - x) /\ Len(su) + k = i /\ j \in 1..y /\ Len(s) + j = i /\ x + k = j
      BY <1>0, <1>b, <1>1, <1>4, <2>3
    <3> HIDE DEF j, k
    <3>2. left[i] = v[k]
      BY <1>3, <1>b, <3>1
    <3>3. right[i] = w[j]
      BY <1>2, <1>b, <3>1
    <3>4. v[k] = t[j] /\ w[j] = t[j]
      BY <1>b, <3>1
    <3> QED  BY <3>2, <3>3, <3>4
  <2> QED  BY <1>0, <1>b, <1>4, <2>1, <2>2, <2>3
<1>6. left = right
  BY <1>2, <1>3, <1>4, <1>5, SeqEqual
<1> QED  BY <1>6 DEF left, right, su

(* A sequence cut in two, behind another.                                  *)
LEMMA Spliced ==
  ASSUME NEW S, NEW s \in Seq(S), NEW t \in Seq(S), NEW x \in Nat, NEW y \in Nat,
         x <= y, y <= Len(t)
  PROVE  (s \o SubSeq(t, 1, x)) \o SubSeq(t, x + 1, y) = s \o SubSeq(t, 1, y)
<1> DEFINE u == SubSeq(t, 1, x)
           v == SubSeq(t, x + 1, y)
           w == SubSeq(t, 1, y)
<1>0. Len(s) \in Nat /\ Len(t) \in Nat /\ \A i \in 1..Len(t) : t[i] \in S
  OBVIOUS
<1>1. u \in Seq(S) /\ Len(u) = x /\ \A i \in 1..x : u[i] = t[i]
  <2>1. \A i \in 1..x : t[i] \in S
    BY <1>0
  <2> QED  BY <1>0, <2>1
<1>2. w \in Seq(S) /\ Len(w) = y /\ \A i \in 1..y : w[i] = t[i]
  <2>1. \A i \in 1..y : t[i] \in S
    BY <1>0
  <2> QED  BY <1>0, <2>1
<1>3. v \in Seq(S) /\ Len(v) = y - x /\ \A i \in 1..(y - x) : v[i] = t[x + i]
  <2>1. \A i \in (x + 1)..y : t[i] \in S
    BY <1>0
  <2>2. v \in Seq(S) /\ Len(v) = IF x + 1 <= y THEN y - (x + 1) + 1 ELSE 0
    BY <1>0, <2>1, SubSeqProperties
  <2>3. \A i \in 1..(y - x) : v[i] = t[x + i]
    BY <1>0, <2>1, <2>2
  <2> QED  BY <2>2, <2>3
<1> HIDE DEF u, v, w
<1> QED
  <2>1. (s \o u) \o v = s \o w
    <3>1. \A i \in 1..(y - x) : v[i] = t[x + i]
      BY <1>3
    <3>2. u \in Seq(S) /\ v \in Seq(S) /\ w \in Seq(S)
      BY <1>1, <1>2, <1>3
    <3>3. Cuts(S, s, t, u, v, w, x, y)
      BY <1>1, <1>2, <1>3, <3>1, <3>2 DEF Cuts
    <3> QED  BY <3>3, SplicedOf, SMT
  <2> QED  BY <2>1 DEF u, v, w

(* Chunks that are added read as the messages they were made of.           *)
LEMMA ChunkedReads ==
  ASSUME NEW a \in Seq(Chunks), NEW msgs \in Seq(Messages), NEW enc \in BOOLEAN,
         era \in 0..MaxErasures
  PROVE  Flat(a \o Chunked(msgs, enc)) = Flat(a) \o msgs
<1> DEFINE n == Len(msgs)
           c == ChunkSize
           q == (n + c - 1) \div c
           to(i) == IF i * c < n THEN i * c ELSE n
           ch == Chunked(msgs, enc)
           Pre(k) == a \o SubSeq(ch, 1, k)
           Good == {k \in Nat : k <= q => Flat(Pre(k)) = Flat(a) \o SubSeq(msgs, 1, to(k))}
<1>1. n \in Nat /\ c \in Nat \ {0}
  BY BoundsAssumption
<1>2. q \in Nat /\ \A i \in 1..q : (i - 1) * c \in Nat /\ (i - 1) * c < n
  BY <1>1, Division
<1>3. q * c >= n
  BY <1>1
<1>4. ch \in Seq(Chunks)
  BY ChunkedType
<1>5. /\ Len(ch) = q
      /\ \A i \in 1..q : ch[i].text = SubSeq(msgs, (i - 1) * c + 1, to(i))
  <2>1. ch = [i \in 1..q |-> [text |-> SubSeq(msgs, (i - 1) * c + 1, to(i)),
                              enc |-> enc, era |-> era]]
    BY DEF Chunked
  <2> HIDE DEF q, to, c
  <2>1a. DOMAIN ch = 1..Len(ch) /\ Len(ch) \in Nat
    <3> HIDE DEF ch
    <3> QED  BY <1>4
  <2>2. DOMAIN ch = 1..q /\ DOMAIN ch = 1..Len(ch) /\ Len(ch) \in Nat
    <3> HIDE DEF ch
    <3> QED  BY <2>1, <2>1a
  <2>3. Len(ch) = q
    <3> HIDE DEF ch
    <3> QED  BY <1>2, <2>2
  <2>4. \A i \in 1..q : ch[i].text = SubSeq(msgs, (i - 1) * c + 1, to(i))
    BY <2>1
  <2> QED  BY <2>3, <2>4
<1> HIDE DEF q, c, ch
<1>6. 0 \in Good
  <2>1. 0 * c = 0 /\ n >= 0
    BY <1>1
  <2>1a. to(0) = 0
    <3> HIDE DEF n
    <3> QED  BY <1>1, <2>1
  <2>2. Pre(0) = a
    BY <1>4, ConcatNext
  <2>3. Flat(a) \o SubSeq(msgs, 1, 0) = Flat(a)
    BY FlatFacts, ConcatNext
  <2> HIDE DEF to, Pre
  <2> QED  BY <2>1a, <2>2, <2>3
<1>7. ASSUME NEW k \in Good PROVE k + 1 \in Good
  <2> SUFFICES ASSUME k + 1 <= q
               PROVE  Flat(Pre(k + 1)) = Flat(a) \o SubSeq(msgs, 1, to(k + 1))
    <3>1. k + 1 \in Nat
      OBVIOUS
    <3> HIDE DEF Pre, to
    <3> QED  BY <3>1, Zenon
  <2>1. k \in Nat /\ k < Len(ch) /\ k + 1 \in 1..q /\ (k + 1) - 1 = k
    BY <1>2, <1>5
  <2>2. Flat(Pre(k)) = Flat(a) \o SubSeq(msgs, 1, to(k))
    <3>1. k <= q
      BY <1>2, <2>1
    <3> HIDE DEF Pre, to
    <3> QED  BY <3>1, Zenon
  <2>3. Pre(k) \in Seq(Chunks) /\ Pre(k + 1) = Append(Pre(k), ch[k + 1])
    BY <1>4, <2>1, ConcatNext
  <2>4. ch[k + 1] \in Chunks
    BY <1>4, <1>5, <2>1
  <2>5. Flat(Pre(k + 1)) = Flat(Pre(k)) \o ch[k + 1].text
    BY <2>3, <2>4, FlatFacts
  <2>6. k * c \in Nat /\ k * c < n
    BY <1>2, <2>1
  <2>7. to(k) = k * c /\ ch[k + 1].text = SubSeq(msgs, k * c + 1, to(k + 1))
    BY <1>5, <2>1, <2>6
  <2>8. (k + 1) * c = k * c + c
    BY <1>1, <2>1
  <2>9. to(k + 1) \in Nat /\ k * c <= to(k + 1) /\ to(k + 1) <= n
    BY <1>1, <2>6, <2>8
  <2> HIDE DEF to, Pre
  <2>10. (Flat(a) \o SubSeq(msgs, 1, k * c)) \o SubSeq(msgs, k * c + 1, to(k + 1))
           = Flat(a) \o SubSeq(msgs, 1, to(k + 1))
    BY <2>6, <2>9, FlatFacts, Spliced
  <2> QED  BY <2>2, <2>5, <2>7, <2>10
<1>8. Good = Nat
  <2> HIDE DEF Good
  <2>1. Good \subseteq Nat
    BY DEF Good
  <2> QED  BY <1>6, <1>7, <2>1, NatSetInduction
<1>9. q \in Good
  BY <1>2, <1>8, Zenon
<1>10. to(q) = n
  BY <1>1, <1>2, <1>3 DEF q
<1>11. Pre(q) = a \o ch
  BY <1>4, <1>5, ConcatNext
<1>12. Flat(Pre(q)) = Flat(a) \o SubSeq(msgs, 1, n)
  <2> HIDE DEF Pre, to
  <2> QED  BY <1>2, <1>9, <1>10
<1>13. SubSeq(msgs, 1, n) = msgs
  OBVIOUS
<1> QED  BY <1>11, <1>12, <1>13 DEF ch

(* Whatever writeTranscriptChunks does to the tail, the archive then reads *)
(* as it did before, and the new messages after that.                      *)
LEMMA GrownReads ==
  ASSUME NEW a \in Seq(Chunks), NEW msgs \in Seq(Messages), NEW enc \in BOOLEAN,
         era \in 0..MaxErasures
  PROVE  Flat(Grown(a, msgs, enc)) = Flat(a) \o msgs
<1>1. CASE Partial(a)
  <2> DEFINE n == Len(a)
             front == SubSeq(a, 1, n - 1)
             last == a[n]
  <2>1. n \in Nat \ {0} /\ a \in Seq(Chunks) /\ last \in Chunks
    BY <1>1, EmptySeq, ElementOfSeq DEF Partial
  <2>2. Front(a) = front /\ Last(a) = last
    BY DEF Front, Last
  <2>3. <<>> \o SubSeq(a, 1, n - 1) = front /\ <<>> \o SubSeq(a, 1, n) = a
    <3>1. \A i \in 1..n : a[i] \in Chunks
      BY <2>1
    <3>2. SubSeq(a, 1, n - 1) \in Seq(Chunks) /\ SubSeq(a, 1, n) = a
      BY <2>1, <3>1
    <3> QED  BY <3>2
  <2>4. front \in Seq(Chunks) /\ a = Append(front, last)
    <3>1. n - 1 \in Nat /\ n - 1 < Len(a) /\ (n - 1) + 1 = n /\ <<>> \in Seq(Chunks)
      BY <2>1
    <3> HIDE DEF front
    <3>2. /\ <<>> \o SubSeq(a, 1, n - 1) \in Seq(Chunks)
          /\ <<>> \o SubSeq(a, 1, n) = Append(<<>> \o SubSeq(a, 1, n - 1), a[n])
      BY <3>1, ConcatNext
    <3> QED  BY <2>3, <3>2
  <2>5. last.text \in Seq(Messages)
    BY <2>1, TextType DEF Chunks
  <2> HIDE DEF front, last
  <2>6. Flat(a) = Flat(front) \o last.text /\ Flat(front) \in Seq(Messages)
    BY <2>1, <2>4, FlatFacts
  <2>7. last.text \o msgs \in Seq(Messages)
    BY <2>5
  <2>8. Flat(front \o Chunked(last.text \o msgs, enc)) = Flat(front) \o (last.text \o msgs)
    BY <2>4, <2>7, ChunkedReads
  <2>9. Flat(front) \o (last.text \o msgs) = (Flat(front) \o last.text) \o msgs
    <3> DEFINE x == Flat(front)
               y == last.text
    <3>1. x \in Seq(Messages) /\ y \in Seq(Messages) /\ msgs \in Seq(Messages)
      BY <2>5, <2>6
    <3> HIDE DEF x, y
    <3>2. (x \o y) \o msgs = x \o (y \o msgs)
      BY <3>1, ConcatAssociative
    <3> QED  BY <3>2 DEF x, y
  <2> QED  BY <1>1, <2>2, <2>6, <2>8, <2>9 DEF Grown
<1>2. CASE ~Partial(a)
  BY <1>2, ChunkedReads DEF Grown
<1> QED  BY <1>1, <1>2

(***************************************************************************)
(* How often a message is archived.                                        *)
(***************************************************************************)
(* m is at one place of q at most.                                         *)
Sole(q, m) == \A i, j \in DOMAIN q : q[i] = m /\ q[j] = m => i = j

Holds(a, m) == m \in Range(Flat(a))

(* The archives that anything may build on, or show: in the files or in a  *)
(* copy's memory, or in a job, and those that are not w's alone.           *)
Known == {meta[f] : f \in {g \in Formats : meta[g] # None}} \cup {known[c] : c \in Copies}
Elsewhere(w) == Known \cup {job[v].base : v \in Holders \ {w}}
Archives == Known \cup {job[v].base : v \in Holders}

Unwritten(m) == \A a \in Archives : ~Holds(a, m)

(* Messages are numbered as they come, and each belongs to one copy.       *)
Mine(c, m) ==
  \/ m \in Range(pending[c])
  \/ \E w \in Writers : w[1] = c /\ m \in Range(job[w].captured)
Numbered ==
  /\ \A a \in Archives, m \in Messages : Holds(a, m) => m <= told
  /\ \A c, d \in Copies, m \in Messages : Mine(c, m) /\ Mine(d, m) => c = d
  /\ \A c \in Copies, m \in Messages : Mine(c, m) => m <= told
  /\ \A c \in Copies, m \in Messages : Sole(pending[c], m)
  /\ \A w \in Writers, m \in Messages : Sole(job[w].captured, m)

(* Only a commit on its way has captured anything.                         *)
Capturing(w) == job[w].captured # <<>> => Commits(w)

(* A commit's messages are in no archive until it writes its chunks, and   *)
(* then in its own archive alone until it writes the metadata.  Two commits*)
(* have captured no message together.  This and what follows is about the  *)
(* messages that are not tangled.                                          *)
Fresh(w) == job[w].at \in {"lock", "migrate", "chunk"}
Untold(w, m) ==
  m \in Range(job[w].captured) =>
    /\ Fresh(w) => Unwritten(m)
    /\ job[w].at = "meta" => \A a \in Elsewhere(w) : ~Holds(a, m)
Apart(v, w, m) == ~(m \in Range(job[v].captured) /\ m \in Range(job[w].captured))

(* A pending message is in no archive, or a commit of its copy wrote it.   *)
Wrote(w, m) == job[w].at \in {"meta", "drop", "release", "return"} /\ m \in Range(job[w].captured)
Unsaved(c, m) ==
  m \in Range(pending[c]) => Unwritten(m) \/ \E w \in Writers : w[1] = c /\ Wrote(w, m)

Singly ==
  /\ Numbered
  /\ \A w \in Writers : Capturing(w)
  /\ \A m \in Messages \ tangled :
       /\ \A a \in Archives : Sole(Flat(a), m)
       /\ \A w \in Writers : Untold(w, m) /\ \A v \in Writers \ {w} : Apart(v, w, m)
       /\ \A c \in Copies : Unsaved(c, m)

(***************************************************************************)
(* What is saved is shown.                                                 *)
(***************************************************************************)
(* All copies have one policy, and this is the format that it prefers.     *)
Uniform == keyed \in {{}, Copies}
Favoured == IF keyed = {} THEN "plain" ELSE "enc"

(* There is no session.                                                    *)
Nowhere == \A f \in Formats : meta[f] = None

(* A reader may be shown the archive of format f.                          *)
Seen(f) == meta[f] # None /\ (meta[Other(f)] = None \/ ~Uniform \/ f = Favoured)

(* What a writer under the lock builds on, or has built, is what is shown. *)
Covers(a, b) == \A m \in Messages : Holds(b, m) => Holds(a, m)
Includes(a, w) == \A m \in Range(job[w].captured) : Holds(a, m)
Alone(w) == ~forked /\ ~Uniform => meta[Other(Preferred(w[1]))] = None
Follows(w) ==
  LET f == Preferred(w[1])
      base == job[w].base IN
  /\ job[w].at = "migrate" => f = "enc" /\ meta[f] = base
  /\ job[w].at = "chunk" => (Nowhere \/ meta[f] = base) /\ Alone(w)
  /\ job[w].at = "meta" =>
       /\ Nowhere \/ (meta[f] # None /\ Covers(base, meta[f]))
       /\ Includes(base, w) /\ Alone(w)
  /\ job[w].at \in {"drop", "release"} => meta[f] = base /\ Includes(base, w) /\ Alone(w)

(* Both formats are there only while one of them is re-encrypted, where    *)
(* the copies' policies differ.                                            *)
Mixed == ~forked /\ ~Uniform /\ (\A f \in Formats : meta[f] # None)
Shows == \A f \in Formats : Seen(f) => \A m \in saved : Holds(meta[f], m)

Shown ==
  /\ job[Eraser].at # "idle" => saved = {}
  /\ Mixed => \E w \in Writers : job[w].at = "migrate"
  /\ \A w \in Writers : Follows(w)
  /\ ~forked => Shows /\ (saved # {} => ~Nowhere)

(***************************************************************************)
(* Where a message is in sequences that are put together.                  *)
(***************************************************************************)
(* What is added at the end.                                               *)
LEMMA ConcatSole ==
  ASSUME NEW S, NEW s \in Seq(S), NEW t \in Seq(S)
  PROVE  /\ \A m : m \in Range(s \o t) <=> m \in Range(s) \/ m \in Range(t)
         /\ \A m : Sole(s, m) /\ Sole(t, m) /\ ~(m \in Range(s) /\ m \in Range(t))
                   => Sole(s \o t, m)
<1> DEFINE u == s \o t
<1>1. /\ u \in Seq(S) /\ Len(u) = Len(s) + Len(t)
      /\ \A i \in 1..Len(s) : u[i] = s[i]
      /\ \A i \in 1..Len(t) : u[Len(s) + i] = t[i]
  BY Appended
<1>2. /\ Len(s) \in Nat /\ Len(t) \in Nat
      /\ DOMAIN s = 1..Len(s) /\ DOMAIN t = 1..Len(t)
  OBVIOUS
<1> HIDE DEF u
<1>3. DOMAIN u = 1..(Len(s) + Len(t))
  BY <1>1
<1>4. ASSUME NEW i \in DOMAIN u
      PROVE  \/ i \in DOMAIN s /\ u[i] = s[i]
             \/ i - Len(s) \in DOMAIN t /\ u[i] = t[i - Len(s)] /\ i \notin DOMAIN s
  <2>1. CASE i <= Len(s)
    BY <1>1, <1>2, <1>3, <2>1
  <2>2. CASE i > Len(s)
    <3> DEFINE j == i - Len(s)
    <3>1. j \in 1..Len(t) /\ Len(s) + j = i
      BY <1>2, <1>3, <2>2
    <3> HIDE DEF j
    <3>2. u[i] = t[j]
      BY <1>1, <3>1
    <3> QED  BY <1>2, <2>2, <3>1, <3>2 DEF j
  <2> QED  BY <1>2, <1>3, <2>1, <2>2
<1>5. ASSUME NEW i \in DOMAIN s PROVE i \in DOMAIN u /\ u[i] = s[i]
  BY <1>1, <1>2, <1>3
<1>6. ASSUME NEW i \in DOMAIN t PROVE Len(s) + i \in DOMAIN u /\ u[Len(s) + i] = t[i]
  BY <1>1, <1>2, <1>3
<1>7. ASSUME NEW m PROVE m \in Range(u) <=> m \in Range(s) \/ m \in Range(t)
  BY <1>4, <1>5, <1>6 DEF Range
<1>8. ASSUME NEW m, Sole(s, m), Sole(t, m), ~(m \in Range(s) /\ m \in Range(t))
      PROVE  Sole(u, m)
  <2> SUFFICES ASSUME NEW i \in DOMAIN u, NEW j \in DOMAIN u, u[i] = m, u[j] = m
               PROVE  i = j
    BY DEF Sole
  <2>1. i \in Nat /\ j \in Nat
    BY <1>2, <1>3
  <2>2. CASE i \in DOMAIN s /\ u[i] = s[i] /\ j \in DOMAIN s /\ u[j] = s[j]
    BY <1>8, <2>2 DEF Sole
  <2>3. CASE /\ i - Len(s) \in DOMAIN t /\ u[i] = t[i - Len(s)]
             /\ j - Len(s) \in DOMAIN t /\ u[j] = t[j - Len(s)]
    <3>1. i - Len(s) = j - Len(s)
      BY <1>8, <2>3 DEF Sole
    <3> QED  BY <1>2, <2>1, <3>1
  <2>4. CASE i \in DOMAIN s /\ u[i] = s[i] /\ j - Len(s) \in DOMAIN t /\ u[j] = t[j - Len(s)]
    BY <1>8, <2>4 DEF Range
  <2>5. CASE j \in DOMAIN s /\ u[j] = s[j] /\ i - Len(s) \in DOMAIN t /\ u[i] = t[i - Len(s)]
    BY <1>8, <2>5 DEF Range
  <2> QED  BY <1>4, <2>2, <2>3, <2>4, <2>5
<1> QED  BY <1>7, <1>8 DEF u

(* One more message.                                                       *)
LEMMA AppendSole ==
  ASSUME NEW S, NEW s \in Seq(S), NEW x \in S
  PROVE  /\ \A m : m \in Range(Append(s, x)) <=> m \in Range(s) \/ m = x
         /\ \A m : Sole(s, m) /\ ~(m \in Range(s) /\ m = x) => Sole(Append(s, x), m)
<1>1. /\ Len(s) \in Nat /\ DOMAIN s = 1..Len(s)
      /\ DOMAIN Append(s, x) = 1..(Len(s) + 1)
      /\ \A i \in 1..Len(s) : Append(s, x)[i] = s[i]
      /\ Append(s, x)[Len(s) + 1] = x
  OBVIOUS
<1> DEFINE u == Append(s, x)
<1> HIDE DEF u
<1>2. ASSUME NEW m PROVE m \in Range(u) <=> m \in Range(s) \/ m = x
  BY <1>1 DEF Range, u
<1>3. ASSUME NEW m, Sole(s, m), ~(m \in Range(s) /\ m = x) PROVE Sole(u, m)
  BY <1>1, <1>3 DEF Range, Sole, u
<1> QED  BY <1>2, <1>3 DEF u

(* The archive without chunks has no messages.                             *)
LEMMA NoneHeld ==
  /\ Flat(<<>>) = <<>>
  /\ \A m : ~Holds(<<>>, m) /\ Sole(Flat(<<>>), m)
<1>1. Flat(<<>>) = <<>>
  <2>1. <<>> \in Seq(Chunks)
    OBVIOUS
  <2> QED  BY <2>1, FlatFacts
<1> QED  BY <1>1 DEF Holds, Sole, Range

(* The archive that a commit makes has what was there and what it adds.    *)
LEMMA GrownHolds ==
  ASSUME NEW a \in Seq(Chunks), NEW msgs \in Seq(Messages), NEW enc \in BOOLEAN,
         era \in 0..MaxErasures
  PROVE  /\ \A m : Holds(Grown(a, msgs, enc), m) <=> Holds(a, m) \/ m \in Range(msgs)
         /\ \A m : /\ Sole(Flat(a), m) /\ Sole(msgs, m)
                   /\ ~(Holds(a, m) /\ m \in Range(msgs))
                   => Sole(Flat(Grown(a, msgs, enc)), m)
<1>1. Flat(Grown(a, msgs, enc)) = Flat(a) \o msgs
  BY GrownReads
<1>2. Flat(a) \in Seq(Messages)
  BY FlatFacts
<1> QED  BY <1>1, <1>2, ConcatSole DEF Holds

(* The session that is there at the start has one message.                 *)
LEMMA StoredHolds == Stored \in Seq(Chunks) /\ Flat(Stored) = <<1>>
<1> DEFINE chunk == [text |-> <<1>>, enc |-> FALSE, era |-> 0]
<1>1. chunk \in Chunks /\ chunk.text = <<1>>
  <2>1. 1 \in Messages /\ 0 \in 0..MaxErasures
    BY BoundsAssumption DEF Messages
  <2>2. <<1>> \in Seq(Messages) /\ Len(<<1>>) = 1 /\ 1 \in 1..ChunkSize
    BY <2>1, BoundsAssumption
  <2> QED  BY <2>1, <2>2, TextOf DEF Chunks
<1> HIDE DEF chunk
<1>2. Stored = Append(<<>>, chunk) /\ <<>> \in Seq(Chunks)
  BY DEF Stored, chunk
<1>3. Flat(Append(<<>>, chunk)) = Flat(<<>>) \o chunk.text
  BY <1>1, <1>2, FlatFacts
<1>4. Flat(Stored) = <<1>>
  BY <1>1, <1>2, <1>3, NoneHeld
<1> QED  BY <1>1, <1>2, <1>4

(***************************************************************************)
(* The archives that a step leaves.                                        *)
(***************************************************************************)
LEMMA ArchivesAre ==
  /\ \A a : a \in Known <=> \/ \E f \in Formats : meta[f] # None /\ a = meta[f]
                            \/ \E c \in Copies : a = known[c]
  /\ \A w \in Holders : Archives = Elsewhere(w) \cup {job[w].base}
  /\ \A w \in Holders : \A v \in Holders \ {w} : job[v].base \in Elsewhere(w)
  /\ \A w \in Holders : Known \subseteq Elsewhere(w)
  BY DEF Known, Archives, Elsewhere

(* A step of one job, that writes what is there already.                   *)
LEMMA Spread ==
  ASSUME NEW w \in Holders, \A v \in Holders \ {w} : job'[v] = job[v],
         Known' \subseteq Known \cup {job[w].base, <<>>},
         job'[w].base \in Known \cup {job[w].base, <<>>}
  PROVE  /\ Archives' \subseteq Archives \cup {<<>>}
         /\ \A v \in Holders \ {w} : Elsewhere(v)' \subseteq Elsewhere(v) \cup {<<>>}
         /\ Known' \subseteq Known \cup {<<>>} =>
              Elsewhere(w)' \subseteq Elsewhere(w) \cup {<<>>}
<1>1. Archives' \subseteq Archives \cup {<<>>}
  <2>1. \A v \in Holders : job'[v].base \in Archives \cup {<<>>}
    BY DEF Archives
  <2>2. Known' \subseteq Archives \cup {<<>>}
    BY DEF Archives
  <2> QED  BY <2>1, <2>2 DEF Archives
<1>2. ASSUME NEW v \in Holders \ {w} PROVE Elsewhere(v)' \subseteq Elsewhere(v) \cup {<<>>}
  <2>1. \A u \in Holders \ {v} : job'[u].base \in Elsewhere(v) \cup {<<>>}
    BY DEF Elsewhere
  <2>2. Known' \subseteq Elsewhere(v) \cup {<<>>}
    BY DEF Elsewhere
  <2> QED  BY <2>1, <2>2 DEF Elsewhere
<1>3. ASSUME Known' \subseteq Known \cup {<<>>}
      PROVE  Elsewhere(w)' \subseteq Elsewhere(w) \cup {<<>>}
  BY <1>3 DEF Elsewhere
<1> QED  BY <1>1, <1>2, <1>3

(***************************************************************************)
(* The steps that write no new archive, and give no job new messages.      *)
(***************************************************************************)
(* What v has left to write was there before, and so was what it is at.    *)
Onward(v) ==
  job'[v].captured # <<>> /\ (Fresh(v)' \/ job'[v].at = "meta") =>
    /\ Elsewhere(v)' \subseteq Elsewhere(v) \cup {<<>>}
    /\ Fresh(v)' => Fresh(v)
    /\ job'[v].at = "meta" => job[v].at = "meta"

(* What v has written stays written, or is nowhere, or is not asked for.   *)
Keeps(v) ==
  \A m \in Messages \ tangled' :
    Wrote(v, m) /\ pending'[v[1]] # <<>> => Wrote(v, m)' \/ Unwritten(m)'

Quiet ==
  /\ Archives' \subseteq Archives \cup {<<>>}
  /\ told' = told /\ tangled \subseteq tangled'
  /\ \A c \in Copies : pending'[c] \in {pending[c], <<>>}
  /\ \A v \in Writers :
       /\ job'[v].captured \in {job[v].captured, <<>>}
       /\ Capturing(v)' /\ Onward(v) /\ Keeps(v)

(* A quiet step keeps the messages where they are, or loses some.           *)
LEMMA Calm ==
  ASSUME Singly, Quiet
  PROVE  Singly'
<1>0. \A m : m \notin Range(<<>>) /\ Sole(<<>>, m)
  BY DEF Range, Sole
<1>1. \A w \in Writers : w \in Holders /\ w[1] \in Copies
  BY WriterHolds
<1>2. \A m : /\ Unwritten(m) => Unwritten(m)'
             /\ \A w \in Writers :
                  /\ m \in Range(job'[w].captured) =>
                       m \in Range(job[w].captured) /\ job'[w].captured # <<>>
                  /\ Sole(job[w].captured, m) => Sole(job'[w].captured, m)
             /\ \A c \in Copies :
                  /\ m \in Range(pending'[c]) =>
                       m \in Range(pending[c]) /\ pending'[c] # <<>>
                  /\ Sole(pending[c], m) => Sole(pending'[c], m)
  <2> TAKE m
  <2>1. Unwritten(m) => Unwritten(m)'
    BY NoneHeld DEF Quiet, Unwritten, Holds
  <2>2. ASSUME NEW w \in Writers
        PROVE  /\ m \in Range(job'[w].captured) =>
                    m \in Range(job[w].captured) /\ job'[w].captured # <<>>
               /\ Sole(job[w].captured, m) => Sole(job'[w].captured, m)
    BY <1>0 DEF Quiet
  <2>3. ASSUME NEW c \in Copies
        PROVE  /\ m \in Range(pending'[c]) => m \in Range(pending[c]) /\ pending'[c] # <<>>
               /\ Sole(pending[c], m) => Sole(pending'[c], m)
    BY <1>0 DEF Quiet
  <2> QED  BY <2>1, <2>2, <2>3
<1>3. \A m : \A c \in Copies : Mine(c, m)' => Mine(c, m)
  BY <1>2 DEF Mine
<1>4. Numbered'
  <2>1. \A a \in Archives', m \in Messages : Holds(a, m) => m <= told'
    BY NoneHeld DEF Quiet, Singly, Numbered
  <2>2. /\ \A c, d \in Copies, m \in Messages : Mine(c, m)' /\ Mine(d, m)' => c = d
        /\ \A c \in Copies, m \in Messages : Mine(c, m)' => m <= told'
    BY <1>3 DEF Quiet, Singly, Numbered
  <2>3. /\ \A c \in Copies, m \in Messages : Sole(pending'[c], m)
        /\ \A w \in Writers, m \in Messages : Sole(job'[w].captured, m)
    BY <1>2 DEF Singly, Numbered
  <2> QED  BY <2>1, <2>2, <2>3 DEF Numbered, Holds, Sole
<1>5. ASSUME NEW m \in Messages \ tangled'
      PROVE  /\ \A a \in Archives' : Sole(Flat(a), m)
             /\ \A w \in Writers : Untold(w, m)' /\ \A v \in Writers \ {w} : Apart(v, w, m)'
             /\ \A c \in Copies : Unsaved(c, m)'
  <2>0. /\ m \in Messages \ tangled
        /\ \A a \in Archives : Sole(Flat(a), m)
        /\ \A w \in Writers : Untold(w, m) /\ \A v \in Writers \ {w} : Apart(v, w, m)
        /\ \A c \in Copies : Unsaved(c, m)
    <3>1. m \in Messages \ tangled
      BY DEF Quiet
    <3> QED  BY <3>1 DEF Singly
  <2>1. \A a \in Archives' : Sole(Flat(a), m)
    BY <2>0, NoneHeld DEF Quiet
  <2>2. ASSUME NEW w \in Writers PROVE Untold(w, m)'
    <3> SUFFICES ASSUME m \in Range(job'[w].captured)
                 PROVE  /\ Fresh(w)' => Unwritten(m)'
                        /\ job'[w].at = "meta" => \A a \in Elsewhere(w)' : ~Holds(a, m)
      BY DEF Untold, Holds
    <3>1. m \in Range(job[w].captured) /\ job'[w].captured # <<>>
      BY <1>2
    <3>2. Onward(w)
      BY DEF Quiet
    <3>3. /\ Fresh(w) => Unwritten(m)
          /\ job[w].at = "meta" => \A a \in Elsewhere(w) : ~Holds(a, m)
      BY <2>0, <3>1 DEF Untold
    <3> QED  BY <1>2, <3>1, <3>2, <3>3, NoneHeld DEF Onward
  <2>3. ASSUME NEW w \in Writers, NEW v \in Writers \ {w} PROVE Apart(v, w, m)'
    BY <1>2, <2>0 DEF Apart
  <2>4. ASSUME NEW c \in Copies PROVE Unsaved(c, m)'
    <3> SUFFICES ASSUME m \in Range(pending'[c])
                 PROVE  Unwritten(m)' \/ \E w \in Writers : w[1] = c /\ Wrote(w, m)'
      BY DEF Unsaved
    <3>1. m \in Range(pending[c]) /\ pending'[c] # <<>>
      BY <1>2
    <3>2. CASE Unwritten(m)
      BY <1>2, <3>2
    <3>3. ASSUME NEW w \in Writers, w[1] = c, Wrote(w, m)
          PROVE  Unwritten(m)' \/ Wrote(w, m)'
      BY <3>1, <3>3 DEF Quiet, Keeps
    <3> QED  BY <2>0, <3>1, <3>2, <3>3 DEF Unsaved
  <2> QED  BY <2>1, <2>2, <2>3, <2>4
<1>6. \A w \in Writers : Capturing(w)'
  BY DEF Quiet
<1> QED  BY <1>4, <1>5, <1>6 DEF Singly, Holds, Sole

(* A step of one writer.                                                   *)
LEMMA QuietJob ==
  ASSUME NEW w \in Writers, \A v \in Holders \ {w} : job'[v] = job[v], Singly,
         told' = told, tangled \subseteq tangled',
         Known' \subseteq Known \cup {job[w].base, <<>>},
         job'[w].base \in Known \cup {job[w].base, <<>>},
         \/ pending' = pending
         \/ pending' = [pending EXCEPT ![w[1]] = <<>>] /\ pending \in [Copies -> Seq(Messages)],
         job'[w].captured \in {job[w].captured, <<>>},
         Capturing(w)',
         job'[w].captured # <<>> /\ (Fresh(w)' \/ job'[w].at = "meta") =>
           /\ Known' \subseteq Known \cup {<<>>}
           /\ Fresh(w)' => Fresh(w)
           /\ job'[w].at = "meta" => job[w].at = "meta",
         Keeps(w)
  PROVE  Quiet
<1>0. w \in Holders /\ Eraser \in Holders /\ Eraser # w /\ w[1] \in Copies
      /\ \A v \in Writers : v \in Holders
  BY WriterHolds, EraserIsApart
<1>1. /\ Archives' \subseteq Archives \cup {<<>>}
      /\ \A v \in Holders \ {w} : Elsewhere(v)' \subseteq Elsewhere(v) \cup {<<>>}
      /\ Known' \subseteq Known \cup {<<>>} =>
           Elsewhere(w)' \subseteq Elsewhere(w) \cup {<<>>}
  BY <1>0, Spread
<1>2. \A c \in Copies : pending'[c] \in {pending[c], <<>>}
  BY <1>0
<1>3. ASSUME NEW v \in Writers
      PROVE  /\ job'[v].captured \in {job[v].captured, <<>>}
             /\ Capturing(v)' /\ Onward(v) /\ Keeps(v)
  <2>1. CASE v = w
    BY <1>1, <2>1 DEF Onward
  <2>2. CASE v # w
    <3>1. job'[v] = job[v] /\ Elsewhere(v)' \subseteq Elsewhere(v) \cup {<<>>}
      BY <1>0, <1>1, <2>2
    <3>2. Capturing(v)'
      BY <3>1 DEF Singly, Capturing, Commits
    <3>3. Onward(v)
      BY <3>1 DEF Onward, Fresh
    <3>4. Keeps(v)
      BY <3>1 DEF Keeps, Wrote
    <3> QED  BY <3>1, <3>2, <3>3, <3>4
  <2> QED  BY <2>1, <2>2
<1> QED  BY <1>1, <1>2, <1>3 DEF Quiet

(* What the metadata names in a step that only moves or removes it.        *)
LEMMA KnownMoves ==
  ASSUME Shape, NEW w \in Holders,
         \A f \in Formats : meta'[f] = None
                            \/ meta'[f] = job[w].base
                            \/ \E g \in Formats : meta[g] # None /\ meta'[f] = meta[g],
         \A c \in Copies : known'[c] \in {known[c], job[w].base, <<>>}
  PROVE  Known' \subseteq Known \cup {job[w].base, <<>>}
  BY DEF Known

(* No archive is known that was not, if nothing new is named or read.       *)
LEMMA KnownStays ==
  ASSUME \A f \in Formats : meta'[f] = None
                            \/ \E g \in Formats : meta[g] # None /\ meta'[f] = meta[g],
         \A c \in Copies : known'[c] \in {known[c], <<>>}
  PROVE  Known' \subseteq Known \cup {<<>>}
  BY DEF Known

(* The steps of a writer before it writes, and when it has read nothing.   *)
LEMMA QuietReads ==
  ASSUME Inv, Singly, NEW w \in Writers,
         ReadFound(w) \/ ReadNothing(w) \/ MigrateEnds(w)
  PROVE  Quiet
<1>0. Shape /\ w \in Holders /\ w[1] \in Copies
  BY WriterHolds DEF Inv
<1>1. /\ \A v \in Holders \ {w} : job'[v] = job[v]
      /\ Fresh(w) /\ Fresh(w)' /\ job'[w].at # "meta"
      /\ job'[w].kind = job[w].kind /\ job'[w].captured = job[w].captured
      /\ job'[w].base \in Known \cup {job[w].base}
  <2>1. CASE ReadFound(w)
    <3>1. Found(w[1]) \in Formats /\ meta[Found(w[1])] # None
      BY <1>0, <2>1, FoundType DEF ReadFound, Readable, Exists, Shape
    <3>2. meta[Found(w[1])] \in Known
      BY <3>1, ArchivesAre
    <3>3. /\ \A v \in Holders \ {w} : job'[v] = job[v]
          /\ job'[w].at \in {"migrate", "chunk"}
          /\ job'[w].kind = job[w].kind /\ job'[w].captured = job[w].captured
          /\ job'[w].base = meta[Found(w[1])]
      BY <1>0, <2>1, ReadJob
    <3>4. job[w].at = "lock"
      BY <2>1 DEF ReadFound, Acquires
    <3> QED  BY <3>2, <3>3, <3>4 DEF Fresh
  <2>2. CASE ReadNothing(w) \/ MigrateEnds(w)
    BY <1>0, <2>2, GotoJob DEF ReadNothing, MigrateEnds, Acquires, Fresh, Places
  <2> QED  BY <2>1, <2>2
<1>2. /\ UNCHANGED <<told, tangled, pending, known>>
      /\ \A f \in Formats : meta'[f] = None
                            \/ \E g \in Formats : meta[g] # None /\ meta'[f] = meta[g]
  <2>1. CASE ReadFound(w)
    <3>1. meta' = meta \/ meta' = [meta EXCEPT !.enc = meta.plain]
      BY <2>1 DEF ReadFound
    <3> QED  BY <1>0, <2>1, <3>1 DEF ReadFound, history, Shape, Formats
  <2>2. CASE ReadNothing(w) \/ MigrateEnds(w)
    BY <1>0, <2>2 DEF ReadNothing, MigrateEnds, history, disk, Shape, Formats
  <2> QED  BY <2>1, <2>2
<1>3. Known' \subseteq Known \cup {<<>>}
  BY <1>2, KnownStays
<1>4. Capturing(w)'
  BY <1>1 DEF Singly, Capturing, Commits, Fresh
<1>5. Keeps(w)
  BY <1>1 DEF Keeps, Wrote, Fresh
<1> QED  BY <1>1, <1>2, <1>3, <1>4, <1>5, QuietJob

(* The steps of a writer that has captured nothing, or has written it.     *)
LEMMA QuietWrites ==
  ASSUME Inv, Singly, NEW w \in Writers,
         (WriteChunks(w) /\ job[w].captured = <<>>) \/ WriteMetadata(w) \/ DropOther(w)
  PROVE  Quiet
<1>0. Shape /\ w \in Holders /\ w[1] \in Copies
  BY WriterHolds DEF Inv
<1>1. /\ \A v \in Holders \ {w} : job'[v] = job[v]
      /\ job'[w].at \in {"meta", "drop", "release"}
      /\ job'[w].kind = job[w].kind /\ job'[w].captured = job[w].captured
      /\ job'[w].base = job[w].base
      /\ job'[w].at = "meta" => job[w].captured = <<>>
  BY <1>0, WriteJob, GotoJob DEF WriteMetadata, DropOther, Places
<1>2. /\ UNCHANGED <<told, tangled, pending, known>>
      /\ \A f \in Formats : meta'[f] \in {meta[f], job[w].base, None}
  BY <1>0 DEF WriteChunks, WriteMetadata, DropOther, history, Shape
<1>3. Known' \subseteq Known \cup {job[w].base, <<>>}
  BY <1>0, <1>2, KnownMoves
<1>4. Capturing(w)'
  BY <1>1 DEF Singly, Capturing, Commits
<1>5. Keeps(w)
  BY <1>1 DEF Keeps, Wrote
<1>6. ~(job'[w].captured # <<>> /\ (Fresh(w)' \/ job'[w].at = "meta"))
  BY <1>1 DEF Fresh
<1> QED  BY <1>1, <1>2, <1>3, <1>4, <1>5, <1>6, QuietJob

(* The steps that end what a writer does, or its part under the lock.      *)
LEMMA QuietEnds ==
  ASSUME Inv, Singly, NEW w \in Writers, Opened(w) \/ Release(w) \/ Return(w)
  PROVE  Quiet
<1>0. Shape /\ w \in Holders /\ w[1] \in Copies
  BY WriterHolds DEF Inv
<1>1. /\ \A v \in Holders \ {w} : job'[v] = job[v]
      /\ \/ job'[w] = Idle
         \/ /\ Release(w) /\ job'[w].at = "return" /\ job'[w].kind = "commit"
            /\ job'[w].captured = job[w].captured /\ job'[w].base = job[w].base
  BY <1>0, ReleaseJob, IdleJob DEF Opened, Leaves, Return
<1>2. Idle.captured = <<>> /\ Idle.base = <<>> /\ Idle.at = "idle"
  BY DEF Idle
<1>3. /\ told' = told /\ tangled' = tangled
      /\ \A f \in Formats : meta'[f] = None \/ meta'[f] = meta[f]
      /\ \A c \in Copies : known'[c] \in {known[c], job[w].base}
      /\ pending' = pending \/ pending' = [pending EXCEPT ![w[1]] = <<>>]
  BY <1>0 DEF Opened, Release, Return, history, disk, Shape
<1>4. Known' \subseteq Known \cup {job[w].base, <<>>}
  BY <1>0, <1>3, KnownMoves
<1>5. Capturing(w)'
  BY <1>1, <1>2 DEF Capturing, Commits
<1>6. Keeps(w)
  <2>1. CASE Opened(w)
    BY <2>1 DEF Opened, Keeps, Wrote
  <2>2. CASE Return(w)
    <3>1. pending'[w[1]] = <<>>
      BY <1>0, <2>2 DEF Return, Shape
    <3> QED  BY <3>1 DEF Keeps
  <2>3. CASE Release(w)
    <3>1. CASE job[w].kind = "commit"
      BY <1>0, <2>3, <3>1, ReleaseJob DEF Keeps, Wrote
    <3>2. CASE job[w].kind # "commit"
      <4>1. job[w].captured = <<>>
        BY <3>2 DEF Singly, Capturing, Commits
      <4> QED  BY <4>1 DEF Keeps, Wrote, Range
    <3> QED  BY <3>1, <3>2
  <2> QED  BY <2>1, <2>2, <2>3
<1>7. /\ ~(job'[w].captured # <<>> /\ (Fresh(w)' \/ job'[w].at = "meta"))
      /\ job'[w].captured \in {job[w].captured, <<>>}
      /\ job'[w].base \in Known \cup {job[w].base, <<>>}
  BY <1>1, <1>2 DEF Fresh
<1>8. pending \in [Copies -> Seq(Messages)]
  BY <1>0 DEF Shape
<1> QED  BY <1>1, <1>3, <1>4, <1>5, <1>6, <1>7, <1>8, QuietJob

(* A commit that fails leaves what it has written in no archive, or those  *)
(* messages are tangled.                                                   *)
LEMMA QuietFails ==
  ASSUME Inv, Singly, NEW w \in Writers, Fails(w)
  PROVE  Quiet
<1>0. Shape /\ w \in Holders /\ w[1] \in Copies
  BY WriterHolds DEF Inv
<1>1. (\A v \in Holders \ {w} : job'[v] = job[v]) /\ job'[w] = Idle
  BY <1>0, IdleJob DEF Fails
<1>2. Idle.captured = <<>> /\ Idle.base = <<>> /\ Idle.at = "idle"
  BY DEF Idle
<1>3. /\ UNCHANGED <<told, pending, known, meta>> /\ tangled \subseteq tangled'
  BY DEF Fails, disk
<1>4. Known' = Known
  BY <1>3 DEF Known
<1>5. Capturing(w)'
  BY <1>1, <1>2 DEF Capturing
<1>6. Keeps(w)
  <2> SUFFICES ASSUME NEW m \in Messages \ tangled', Wrote(w, m) PROVE Unwritten(m)'
    BY DEF Keeps
  <2>1. m \in Messages \ tangled /\ m \in Range(job[w].captured)
    BY <1>3 DEF Wrote
  <2>2. job[w].at = "meta"
    BY <2>1 DEF Wrote, Fails
  <2>3. \A a \in Elsewhere(w) : ~Holds(a, m)
    BY <2>1, <2>2 DEF Singly, Untold
  <2>4. Archives' \subseteq Elsewhere(w) \cup {<<>>}
    <3>1. /\ Elsewhere(w)' \subseteq Elsewhere(w) \cup {<<>>}
          /\ Archives' = Elsewhere(w)' \cup {job'[w].base}
      BY <1>0, <1>1, <1>4 DEF Elsewhere, Archives
    <3> QED  BY <1>1, <1>2, <3>1
  <2> QED  BY <2>3, <2>4, NoneHeld DEF Unwritten, Holds
<1>7. /\ ~(job'[w].captured # <<>> /\ (Fresh(w)' \/ job'[w].at = "meta"))
      /\ job'[w].captured = <<>> /\ job'[w].base = <<>>
  BY <1>1, <1>2
<1> QED  BY <1>1, <1>3, <1>4, <1>5, <1>6, <1>7, QuietJob

(* A process opens the session, or ends.                                   *)
LEMMA QuietOpen ==
  ASSUME Inv, Singly, NEW c \in Copies, Open(c)
  PROVE  Quiet
<1> DEFINE w == <<c, "turn">>
<1>0. Shape /\ w \in Writers /\ w \in Holders /\ w[1] = c
  BY Turns DEF Inv
<1>1. job[w].at = "idle" /\ job[w].captured = <<>>
  BY <1>0 DEF Open, Singly, Capturing, Commits
<1>2. UNCHANGED <<told, tangled, pending, meta>>
  BY DEF Open, history, disk
<1>3. CASE Migrates(c)
  <2> DEFINE r == [Idle EXCEPT !.at = "lock", !.kind = "open"]
  <2>1. job' = [job EXCEPT ![w] = r] /\ known' = known
    BY <1>3 DEF Open
  <2>2. r.captured = <<>> /\ r.base = <<>>
    BY DEF Idle
  <2> HIDE DEF r, w
  <2>3. job'[w] = r /\ \A v \in Holders \ {w} : job'[v] = job[v]
    BY <1>0, <2>1 DEF Shape
  <2>4. Known' = Known
    BY <1>2, <2>1 DEF Known
  <2>5. Capturing(w)'
    BY <2>2, <2>3 DEF Capturing
  <2>6. Keeps(w)
    BY <1>1 DEF Keeps, Wrote
  <2>7. job'[w].captured = <<>> /\ job'[w].base = <<>>
    BY <2>2, <2>3
  <2> QED  BY <1>0, <1>2, <2>3, <2>4, <2>5, <2>6, <2>7, QuietJob
<1>4. CASE ~Migrates(c)
  <2>1. job' = job /\ known' = [known EXCEPT ![c] = meta[Found(c)]]
    BY <1>4 DEF Open
  <2> HIDE DEF w
  <2>2. meta[Found(c)] \in Known
    <3>1. Found(c) \in Formats /\ meta[Found(c)] # None
      BY <1>0, FoundType DEF Open, Readable, Exists, Shape
    <3> QED  BY <3>1, ArchivesAre
  <2>3. Known' \subseteq Known
    <3>1. \A d \in Copies : known'[d] \in Known
      BY <1>0, <2>1, <2>2, ArchivesAre DEF Shape
    <3> QED  BY <1>2, <3>1 DEF Known
  <2>4. Capturing(w)'
    BY <1>1, <2>1 DEF Capturing
  <2>5. Keeps(w)
    BY <1>1 DEF Keeps, Wrote
  <2> QED  BY <1>0, <1>1, <1>2, <2>1, <2>3, <2>4, <2>5, QuietJob
<1> QED  BY <1>3, <1>4

(* A process that dies takes along what its jobs have captured.             *)
LEMMA QuietCrash ==
  ASSUME Inv, Singly, NEW c \in Copies, Crash(c)
  PROVE  Quiet
<1>0. Shape /\ \A v \in Writers : v \in Holders /\ v[1] \in Copies
  BY WriterHolds DEF Inv
<1>1. /\ \A v \in Holders : job'[v] = IF v[1] = c THEN Idle ELSE job[v]
      /\ pending' = [pending EXCEPT ![c] = <<>>] /\ known' = [known EXCEPT ![c] = <<>>]
      /\ UNCHANGED <<meta, told, tangled>>
  BY <1>0 DEF Crash, Shape, disk
<1>2. Idle.captured = <<>> /\ Idle.base = <<>> /\ Idle.at = "idle"
  BY DEF Idle
<1>3. Known' \subseteq Known \cup {<<>>}
  <2>1. \A d \in Copies : known'[d] \in {known[d], <<>>}
    BY <1>0, <1>1 DEF Shape
  <2> QED  BY <1>1, <2>1, KnownStays
<1>4. \A v \in Holders : job'[v].base \in {job[v].base, <<>>}
  BY <1>1, <1>2
<1>5. Archives' \subseteq Archives \cup {<<>>}
  BY <1>3, <1>4 DEF Archives
<1>6. \A d \in Copies : pending'[d] \in {pending[d], <<>>}
  BY <1>0, <1>1 DEF Shape
<1>7. ASSUME NEW v \in Writers
      PROVE  /\ job'[v].captured \in {job[v].captured, <<>>}
             /\ Capturing(v)' /\ Onward(v) /\ Keeps(v)
  <2>1. CASE v[1] = c
    <3>1. job'[v] = Idle /\ pending'[v[1]] = <<>>
      BY <1>0, <1>1, <2>1 DEF Shape
    <3> QED  BY <1>2, <3>1 DEF Capturing, Onward, Keeps
  <2>2. CASE v[1] # c
    <3>1. job'[v] = job[v]
      BY <1>0, <1>1, <2>2
    <3>2. Capturing(v)'
      BY <3>1 DEF Singly, Capturing, Commits
    <3>3. Elsewhere(v)' \subseteq Elsewhere(v) \cup {<<>>}
      BY <1>3, <1>4 DEF Elsewhere
    <3>4. Onward(v) /\ Keeps(v)
      BY <3>1, <3>3 DEF Onward, Keeps, Fresh, Wrote
    <3> QED  BY <3>1, <3>2, <3>4
  <2> QED  BY <2>1, <2>2
<1> QED  BY <1>1, <1>5, <1>6, <1>7 DEF Quiet

(* The session is deleted, or nothing happens.                             *)
LEMMA QuietEraser ==
  ASSUME Inv, Singly,
         \/ EraseBegins \/ EraseChunks \/ EraseStops \/ UNCHANGED vars
         \/ \E f \in Formats : EraseMetadata(f)
  PROVE  Quiet
<1>0. Shape /\ Eraser \in Holders /\ \A v \in Writers : v \in Holders /\ v # Eraser
  BY WriterHolds, EraserIsApart DEF Inv
<1>1. /\ UNCHANGED <<told, tangled, pending, known>>
      /\ \A f \in Formats : meta'[f] = None \/ meta'[f] = meta[f]
  BY <1>0 DEF EraseBegins, EraseChunks, EraseStops, EraseMetadata, vars, history, disk, Shape
<1>2. Known' \subseteq Known \cup {<<>>}
  BY <1>1, KnownStays
<1>3. /\ \A v \in Writers : job'[v] = job[v]
      /\ \A v \in Holders : job'[v].base \in {job[v].base, <<>>}
  <2>1. CASE EraseChunks \/ EraseStops
    <3>1. job' = [job EXCEPT ![Eraser] = Idle]
      BY <2>1 DEF EraseChunks, EraseStops, Leaves
    <3> QED  BY <1>0, <3>1 DEF Shape, Idle
  <2>2. CASE EraseBegins
    <3> DEFINE r == [job[Eraser] EXCEPT !.at = "plain", !.kind = "erase"]
    <3>1. job' = [job EXCEPT ![Eraser] = r] /\ job[Eraser] \in Job
      BY <1>0, <2>2 DEF EraseBegins, Shape
    <3>2. r.base = job[Eraser].base
      BY <3>1 DEF Job
    <3> HIDE DEF r
    <3> QED  BY <1>0, <3>1, <3>2 DEF Shape
  <2>3. ASSUME NEW f \in Formats, EraseMetadata(f)
        PROVE  \A v \in Holders : job'[v].base = job[v].base /\ (v # Eraser => job'[v] = job[v])
    <3>1. Goto(Eraser, IF f = "plain" THEN "enc" ELSE "files")
      BY <2>3 DEF EraseMetadata
    <3>2. (IF f = "plain" THEN "enc" ELSE "files") \in Places
      BY DEF Places
    <3> QED  BY <1>0, <3>1, <3>2, GotoJob
  <2>4. CASE UNCHANGED vars
    BY <2>4 DEF vars
  <2> QED  BY <1>0, <2>1, <2>2, <2>3, <2>4
<1>4. Archives' \subseteq Archives \cup {<<>>}
  BY <1>2, <1>3 DEF Archives
<1>5. ASSUME NEW v \in Writers
      PROVE  /\ job'[v].captured \in {job[v].captured, <<>>}
             /\ Capturing(v)' /\ Onward(v) /\ Keeps(v)
  <2>1. Capturing(v)'
    BY <1>3 DEF Singly, Capturing, Commits
  <2>2. Elsewhere(v)' \subseteq Elsewhere(v) \cup {<<>>}
    BY <1>2, <1>3 DEF Elsewhere
  <2>3. Onward(v) /\ Keeps(v)
    BY <1>3, <2>2 DEF Onward, Keeps, Fresh, Wrote
  <2> QED  BY <1>3, <2>1, <2>3
<1> QED  BY <1>1, <1>4, <1>5 DEF Quiet

(***************************************************************************)
(* The steps that quiet ones leave: a message comes, a commit captures     *)
(* what is pending, and it writes that.                                    *)
(***************************************************************************)
LEMMA SinglyAdds ==
  ASSUME Inv, Singly, NEW c \in Copies, AddMessage(c)
  PROVE  Singly'
<1> DEFINE w == <<c, "turn">>
           n == told + 1
<1>0. /\ Shape /\ w \in Writers /\ w \in Holders /\ w[1] = c
      /\ \A v \in Writers : v \in Holders /\ v[1] \in Copies
  BY Turns, WriterHolds DEF Inv
<1>1. n \in Messages /\ n \in Nat /\ told \in Nat /\ told' = n
  BY <1>0, BoundsAssumption DEF AddMessage, Shape, Messages
<1>2. /\ \A v \in Holders \ {w} : job'[v] = job[v]
      /\ job[w].at = "idle" /\ job'[w].at = "gap"
      /\ job'[w].captured = job[w].captured /\ job'[w].base = job[w].base
  BY <1>0, GotoJob DEF AddMessage, Places
<1>3. /\ pending' = [pending EXCEPT ![c] = Append(@, n)]
      /\ tangled \subseteq tangled' /\ UNCHANGED <<known, meta>>
  BY DEF AddMessage, disk
<1> HIDE DEF w, n
<1>4. job[w].captured = <<>>
  BY <1>0, <1>2 DEF Singly, Capturing, Commits
<1>5. Archives' = Archives /\ Known' = Known /\ \A v \in Holders : Elsewhere(v)' = Elsewhere(v)
  <2>1. \A v \in Holders : job'[v].base = job[v].base
    BY <1>2
  <2>2. Known' = Known
    BY <1>3 DEF Known
  <2> QED  BY <2>1, <2>2 DEF Archives, Elsewhere
<1>6. /\ \A m : m \in Range(pending'[c]) <=> m \in Range(pending[c]) \/ m = n
      /\ \A m : Sole(pending[c], m) /\ ~(m \in Range(pending[c]) /\ m = n)
                => Sole(pending'[c], m)
      /\ \A d \in Copies \ {c} : pending'[d] = pending[d]
  <2>1. pending[c] \in Seq(Messages)
    BY <1>0 DEF Shape
  <2>2. pending'[c] = Append(pending[c], n) /\ \A d \in Copies \ {c} : pending'[d] = pending[d]
    BY <1>0, <1>3 DEF Shape
  <2> QED  BY <1>1, <2>1, <2>2, AppendSole
<1>7. \A v \in Writers : job'[v].captured = job[v].captured
  BY <1>0, <1>2
<1>8. \A m : \A d \in Copies : Mine(d, m)' <=> Mine(d, m) \/ (d = c /\ m = n)
  BY <1>6, <1>7 DEF Mine
<1>9. /\ \A d \in Copies : ~Mine(d, n)
      /\ \A a \in Archives : ~Holds(a, n)
  <2>1. ~(n <= told)
    BY <1>1 DEF n
  <2> QED  BY <1>1, <2>1 DEF Singly, Numbered
<1>10. Numbered'
  <2>1. \A a \in Archives', m \in Messages : Holds(a, m) => m <= told'
    <3>1. \A m \in Messages : m <= told => m <= told'
      BY <1>1 DEF n, Messages
    <3> QED  BY <1>5, <3>1 DEF Singly, Numbered
  <2>2. \A d, e \in Copies, m \in Messages : Mine(d, m)' /\ Mine(e, m)' => d = e
    BY <1>8, <1>9 DEF Singly, Numbered
  <2>3. \A d \in Copies, m \in Messages : Mine(d, m)' => m <= told'
    <3>1. \A m \in Messages : m <= told => m <= told'
      BY <1>1 DEF n, Messages
    <3>2. n <= told'
      BY <1>1
    <3> QED  BY <1>8, <3>1, <3>2 DEF Singly, Numbered
  <2>4. \A d \in Copies, m \in Messages : Sole(pending'[d], m)
    <3>1. ~(n \in Range(pending[c]))
      BY <1>9 DEF Mine
    <3> QED  BY <1>6, <3>1 DEF Singly, Numbered
  <2>5. \A v \in Writers, m \in Messages : Sole(job'[v].captured, m)
    BY <1>7 DEF Singly, Numbered
  <2> QED  BY <2>1, <2>2, <2>3, <2>4, <2>5 DEF Numbered, Holds, Sole
<1>11. ASSUME NEW v \in Writers PROVE Capturing(v)'
  BY <1>0, <1>2, <1>4 DEF Singly, Capturing, Commits
<1>12. ASSUME NEW m \in Messages \ tangled'
       PROVE  /\ \A a \in Archives' : Sole(Flat(a), m)
              /\ \A v \in Writers : Untold(v, m)' /\ \A u \in Writers \ {v} : Apart(u, v, m)'
              /\ \A d \in Copies : Unsaved(d, m)'
  <2>0. /\ \A a \in Archives : Sole(Flat(a), m)
        /\ \A v \in Writers : Untold(v, m) /\ \A u \in Writers \ {v} : Apart(u, v, m)
        /\ \A d \in Copies : Unsaved(d, m)
    <3>1. m \in Messages \ tangled
      BY <1>3
    <3> QED  BY <3>1 DEF Singly
  <2>1. Unwritten(m)' <=> Unwritten(m)
    BY <1>5 DEF Unwritten, Holds
  <2>2. ASSUME NEW v \in Writers PROVE Untold(v, m)'
    <3>1. CASE v = w
      BY <1>2, <1>4, <3>1 DEF Untold, Range
    <3>2. CASE v # w
      BY <1>0, <1>2, <1>5, <2>0, <2>1, <3>2 DEF Untold, Fresh, Holds
    <3> QED  BY <3>1, <3>2
  <2>3. \A v \in Writers : \A u \in Writers \ {v} : Apart(u, v, m)'
    BY <1>7, <2>0 DEF Apart
  <2>4. ASSUME NEW d \in Copies PROVE Unsaved(d, m)'
    <3> SUFFICES ASSUME m \in Range(pending'[d])
                 PROVE  Unwritten(m)' \/ \E v \in Writers : v[1] = d /\ Wrote(v, m)'
      BY DEF Unsaved
    <3>1. CASE m \in Range(pending[d])
      <4>1. \A v \in Writers : Wrote(v, m) => Wrote(v, m)'
        BY <1>0, <1>2 DEF Wrote
      <4> QED  BY <2>0, <2>1, <3>1, <4>1 DEF Unsaved
    <3>2. CASE m = n
      BY <1>9, <2>1, <3>2 DEF Unwritten
    <3> QED  BY <1>6, <3>1, <3>2
  <2> QED  BY <1>5, <2>0, <2>2, <2>3, <2>4
<1> QED  BY <1>10, <1>11, <1>12 DEF Singly, Holds, Sole

(* A job starts: a commit moves the pending messages to what it captured.   *)
LEMMA SinglyBegins ==
  ASSUME Inv, Singly, NEW w \in Writers, NEW kind \in {"commit", "patch"}, Begin(w, kind)
  PROVE  Singly'
<1> DEFINE c == w[1]
<1>0. /\ Shape /\ w \in Holders /\ c \in Copies
      /\ \A v \in Writers : v \in Holders /\ v[1] \in Copies
  BY WriterHolds DEF Inv
<1>1. /\ \A v \in Holders \ {w} : job'[v] = job[v]
      /\ job'[w].at = "lock" /\ job'[w].kind = kind
      /\ job'[w].captured = (IF kind = "commit" THEN pending[c] ELSE <<>>)
      /\ job'[w].base = (IF kind = "commit" THEN known[c] ELSE <<>>)
  BY <1>0, BeginJob
<1>2. /\ job[w].at \in {"idle", "gap"}
      /\ UNCHANGED <<pending, known, meta, told>>
      /\ tangled' = (IF kind = "commit" /\ Committing(c)
                     THEN tangled \cup Range(pending[c]) ELSE tangled)
  BY DEF Begin, disk
<1> HIDE DEF c
<1>3. Known' = Known /\ job'[w].base \in Known \cup {<<>>}
  <2>1. Known' = Known
    BY <1>2 DEF Known
  <2> QED  BY <1>0, <1>1, <2>1, ArchivesAre
<1>4. /\ Archives' \subseteq Archives \cup {<<>>}
      /\ \A v \in Holders : Elsewhere(v)' \subseteq Elsewhere(v) \cup {<<>>}
  BY <1>0, <1>1, <1>3, Spread
<1>5. \A m : m \notin Range(<<>>) /\ Sole(<<>>, m)
  BY DEF Range, Sole
<1>6. \A m : \A v \in Writers :
        m \in Range(job'[v].captured) =>
          \/ v # w /\ m \in Range(job[v].captured)
          \/ v = w /\ kind = "commit" /\ m \in Range(pending[c])
  BY <1>0, <1>1, <1>5
<1>7. \A m : \A d \in Copies : Mine(d, m)' => Mine(d, m)
  BY <1>2, <1>6 DEF Mine, c
<1>8. Numbered'
  <2>1. \A a \in Archives', m \in Messages : Holds(a, m) => m <= told'
    BY <1>2, <1>4, NoneHeld DEF Singly, Numbered
  <2>2. /\ \A d, e \in Copies, m \in Messages : Mine(d, m)' /\ Mine(e, m)' => d = e
        /\ \A d \in Copies, m \in Messages : Mine(d, m)' => m <= told'
    BY <1>2, <1>7 DEF Singly, Numbered
  <2>3. \A d \in Copies, m \in Messages : Sole(pending'[d], m)
    BY <1>2 DEF Singly, Numbered
  <2>4. \A v \in Writers, m \in Messages : Sole(job'[v].captured, m)
    BY <1>0, <1>1, <1>5 DEF Singly, Numbered
  <2> QED  BY <2>1, <2>2, <2>3, <2>4 DEF Numbered, Holds, Sole
<1>9. ASSUME NEW v \in Writers PROVE Capturing(v)'
  BY <1>0, <1>1 DEF Singly, Capturing, Commits
<1>10. ASSUME NEW v \in Writers \ {w}, NEW m \in Messages \ tangled', v[1] = c,
              m \in Range(job[v].captured), kind = "commit"
       PROVE  m \notin Range(pending[c])
  <2>1. job[v].captured # <<>>
    BY <1>5, <1>10
  <2>2. Committing(c)
    BY <1>10, <2>1 DEF Singly, Capturing, Commits, Committing
  <2> QED  BY <1>2, <1>10, <2>2
<1>11. ASSUME NEW m \in Messages \ tangled'
       PROVE  /\ \A a \in Archives' : Sole(Flat(a), m)
              /\ \A v \in Writers : Untold(v, m)' /\ \A u \in Writers \ {v} : Apart(u, v, m)'
              /\ \A d \in Copies : Unsaved(d, m)'
  <2>0. /\ m \in Messages
        /\ \A a \in Archives : Sole(Flat(a), m)
        /\ \A v \in Writers : Untold(v, m) /\ \A u \in Writers \ {v} : Apart(u, v, m)
        /\ \A d \in Copies : Unsaved(d, m)
    <3>1. m \in Messages \ tangled
      BY <1>2
    <3> QED  BY <3>1 DEF Singly
  <2>1. Unwritten(m) => Unwritten(m)'
    BY <1>4, NoneHeld DEF Unwritten, Holds
  <2>2. \A v \in Writers : Wrote(v, m) => v # w /\ Wrote(v, m)'
    BY <1>0, <1>1, <1>2 DEF Wrote
  <2>3. ASSUME NEW v \in Writers PROVE Untold(v, m)'
    <3>1. CASE v # w
      <4>1. job'[v] = job[v]
        BY <1>0, <1>1, <3>1
      <4> QED  BY <1>0, <1>4, <2>0, <2>1, <4>1, NoneHeld DEF Untold, Fresh, Holds
    <3>2. CASE v = w
      <4> SUFFICES ASSUME m \in Range(job'[w].captured) PROVE Unwritten(m)'
        BY <1>1, <3>2 DEF Untold
      <4>1. kind = "commit" /\ m \in Range(pending[c])
        BY <1>6
      <4>2. ASSUME NEW u \in Writers, u[1] = c, Wrote(u, m) PROVE FALSE
        BY <1>10, <2>2, <4>1, <4>2 DEF Wrote
      <4> QED  BY <1>0, <2>0, <2>1, <4>1, <4>2 DEF Unsaved
    <3> QED  BY <3>1, <3>2
  <2>4. ASSUME NEW v \in Writers, NEW u \in Writers \ {v} PROVE Apart(u, v, m)'
    <3> SUFFICES ASSUME m \in Range(job'[u].captured), m \in Range(job'[v].captured)
                 PROVE  FALSE
      BY DEF Apart
    <3>1. CASE u # w /\ v # w
      BY <1>6, <2>0, <3>1 DEF Apart
    <3>2. ASSUME NEW x \in Writers \ {w},
                 m \in Range(job'[x].captured), m \in Range(job'[w].captured)
          PROVE  FALSE
      <4>1. /\ m \in Range(job[x].captured)
            /\ kind = "commit" /\ m \in Range(pending[c])
        BY <1>6, <3>2
      <4>2. x[1] = c
        BY <1>0, <2>0, <4>1 DEF Singly, Numbered, Mine
      <4> QED  BY <1>10, <4>1, <4>2
    <3> QED  BY <3>1, <3>2
  <2>5. ASSUME NEW d \in Copies PROVE Unsaved(d, m)'
    BY <1>2, <2>0, <2>1, <2>2 DEF Unsaved
  <2>6. \A a \in Archives' : Sole(Flat(a), m)
    BY <1>4, <2>0, NoneHeld
  <2> QED  BY <2>3, <2>4, <2>5, <2>6
<1> QED  BY <1>8, <1>9, <1>11 DEF Singly, Holds, Sole

(* A commit makes the archive that has what it captured.                    *)
LEMMA SinglyWrites ==
  ASSUME Inv, Singly, NEW w \in Writers, WriteChunks(w), job[w].captured # <<>>
  PROVE  Singly'
<1> DEFINE msgs == job[w].captured
           a == Grown(job[w].base, msgs, w[1] \in keyed)
<1>0. /\ Shape /\ w \in Holders /\ w[1] \in Copies
      /\ \A v \in Writers : v \in Holders /\ v[1] \in Copies
  BY WriterHolds DEF Inv
<1>1. /\ \A v \in Holders \ {w} : job'[v] = job[v]
      /\ job'[w].at = "meta" /\ job'[w].kind = job[w].kind
      /\ job'[w].captured = msgs /\ job'[w].base = a
  BY <1>0, WriteJob
<1>2. job[w].at = "chunk" /\ UNCHANGED <<pending, known, meta, told, tangled>>
  BY DEF WriteChunks, history
<1>3. /\ \A m : Holds(a, m) <=> Holds(job[w].base, m) \/ m \in Range(msgs)
      /\ \A m : Sole(Flat(job[w].base), m) /\ Sole(msgs, m)
                /\ ~(Holds(job[w].base, m) /\ m \in Range(msgs)) => Sole(Flat(a), m)
  <2>1. job[w].base \in Seq(Chunks) /\ msgs \in Seq(Messages) /\ era \in 0..MaxErasures
    BY <1>0 DEF Shape, Job
  <2>2. (w[1] \in keyed) \in BOOLEAN
    OBVIOUS
  <2> HIDE DEF msgs
  <2> QED  BY <2>1, <2>2, GrownHolds
<1> HIDE DEF a, msgs
<1>4. Known' = Known
  BY <1>2 DEF Known
<1>5. /\ Archives' \subseteq Archives \cup {a}
      /\ Elsewhere(w)' = Elsewhere(w)
      /\ \A v \in Holders \ {w} : Elsewhere(v)' \subseteq Elsewhere(v) \cup {a}
  BY <1>0, <1>1, <1>4 DEF Archives, Elsewhere
<1>6. \A v \in Writers : job'[v].captured = job[v].captured
  BY <1>0, <1>1 DEF msgs
<1>7. \A m : \A d \in Copies : Mine(d, m)' <=> Mine(d, m)
  BY <1>2, <1>6 DEF Mine
<1>8. \A m : m \in Range(msgs) => Mine(w[1], m)
  BY DEF Mine, msgs
<1>9. Numbered'
  <2>1. \A m \in Messages : Holds(a, m) => m <= told
    <3>1. \A m \in Messages : Holds(job[w].base, m) => m <= told
      BY <1>0 DEF Singly, Numbered, Archives
    <3> QED  BY <1>0, <1>3, <1>8, <3>1 DEF Singly, Numbered
  <2>2. \A b \in Archives', m \in Messages : Holds(b, m) => m <= told'
    BY <1>2, <1>5, <2>1 DEF Singly, Numbered
  <2>3. /\ \A d, e \in Copies, m \in Messages : Mine(d, m)' /\ Mine(e, m)' => d = e
        /\ \A d \in Copies, m \in Messages : Mine(d, m)' => m <= told'
        /\ \A d \in Copies, m \in Messages : Sole(pending'[d], m)
        /\ \A v \in Writers, m \in Messages : Sole(job'[v].captured, m)
    BY <1>2, <1>6, <1>7 DEF Singly, Numbered
  <2> QED  BY <2>2, <2>3 DEF Numbered, Holds, Sole
<1>10. ASSUME NEW v \in Writers PROVE Capturing(v)'
  <2>1. CASE v = w
    BY <1>1, <1>2, <2>1 DEF Singly, Capturing, Commits, msgs
  <2>2. CASE v # w
    BY <1>0, <1>1, <2>2 DEF Singly, Capturing, Commits
  <2> QED  BY <2>1, <2>2
<1>11. ASSUME NEW m \in Messages \ tangled'
       PROVE  /\ \A b \in Archives' : Sole(Flat(b), m)
              /\ \A v \in Writers : Untold(v, m)' /\ \A u \in Writers \ {v} : Apart(u, v, m)'
              /\ \A d \in Copies : Unsaved(d, m)'
  <2>0. /\ m \in Messages
        /\ \A b \in Archives : Sole(Flat(b), m)
        /\ \A v \in Writers : Untold(v, m) /\ \A u \in Writers \ {v} : Apart(u, v, m)
        /\ \A d \in Copies : Unsaved(d, m)
    <3>1. m \in Messages \ tangled
      BY <1>2
    <3> QED  BY <3>1 DEF Singly
  <2>1. m \in Range(msgs) => Unwritten(m)
    BY <1>2, <2>0 DEF Untold, Fresh, msgs
  <2>2. job[w].base \in Archives
    BY <1>0 DEF Archives
  <2>3. \A b \in Archives' : Sole(Flat(b), m)
    <3>1. Sole(msgs, m)
      BY <2>0 DEF Singly, Numbered, msgs
    <3>2. Sole(Flat(a), m)
      BY <1>3, <2>0, <2>1, <2>2, <3>1 DEF Unwritten
    <3> QED  BY <1>5, <2>0, <3>2
  <2>4. Unwritten(m) /\ m \notin Range(msgs) => Unwritten(m)'
    <3>1. Unwritten(m) /\ m \notin Range(msgs) => ~Holds(a, m)
      BY <1>3, <2>2 DEF Unwritten
    <3> QED  BY <1>5, <3>1 DEF Unwritten, Holds
  <2>5. ASSUME NEW v \in Writers PROVE Untold(v, m)'
    <3> SUFFICES ASSUME m \in Range(job'[v].captured)
                 PROVE  /\ Fresh(v)' => Unwritten(m)'
                        /\ job'[v].at = "meta" => \A b \in Elsewhere(v)' : ~Holds(b, m)
      BY DEF Untold, Holds
    <3>1. CASE v = w
      <4>1. Unwritten(m) /\ ~Fresh(w)'
        BY <1>1, <2>1, <3>1 DEF Fresh
      <4> QED  BY <1>0, <1>5, <3>1, <4>1 DEF Unwritten, Archives, Elsewhere
    <3>2. CASE v # w
      <4>1. job'[v] = job[v] /\ job[w].base \in Elsewhere(v)
        BY <1>0, <1>1, <3>2, ArchivesAre
      <4>2. m \notin Range(msgs)
        BY <1>6, <2>0, <3>2 DEF Apart, msgs
      <4>3. Fresh(v)' => Unwritten(m)'
        BY <2>0, <2>4, <4>1, <4>2 DEF Untold, Fresh
      <4>4. job'[v].at = "meta" => \A b \in Elsewhere(v) \cup {a} : ~Holds(b, m)
        BY <1>3, <2>0, <4>1, <4>2 DEF Untold
      <4> QED  BY <1>0, <1>5, <3>2, <4>3, <4>4
    <3> QED  BY <3>1, <3>2
  <2>6. \A v \in Writers : \A u \in Writers \ {v} : Apart(u, v, m)'
    BY <1>6, <2>0 DEF Apart
  <2>7. ASSUME NEW d \in Copies PROVE Unsaved(d, m)'
    <3> SUFFICES ASSUME m \in Range(pending[d])
                 PROVE  Unwritten(m)' \/ \E v \in Writers : v[1] = d /\ Wrote(v, m)'
      BY <1>2 DEF Unsaved
    <3>1. CASE m \in Range(msgs)
      <4>1. w[1] = d
        BY <1>0, <1>8, <2>0, <3>1 DEF Singly, Numbered, Mine
      <4> QED  BY <1>1, <3>1, <4>1 DEF Wrote
    <3>2. CASE m \notin Range(msgs)
      <4>1. \A v \in Writers : Wrote(v, m) => Wrote(v, m)'
        BY <1>0, <1>1, <1>2 DEF Wrote
      <4> QED  BY <2>0, <2>4, <3>2, <4>1 DEF Unsaved
    <3> QED  BY <3>1, <3>2
  <2> QED  BY <2>3, <2>5, <2>6, <2>7
<1> QED  BY <1>9, <1>10, <1>11 DEF Singly, Holds, Sole

(* At the start, nothing but the first message is archived or captured.     *)
LEMMA SinglyInit == Init => Singly
<1> SUFFICES ASSUME Init PROVE Singly
  OBVIOUS
<1>1. /\ \A w \in Holders : job[w] = Idle
      /\ \A c \in Copies : pending[c] = <<>> /\ known[c] = <<>>
  BY DEF Init, Holders
<1>2. Idle.captured = <<>> /\ Idle.base = <<>> /\ Idle.at = "idle"
  BY DEF Idle
<1>3. \A m : m \notin Range(<<>>) /\ Sole(<<>>, m)
  BY DEF Range, Sole
<1>4. \A w \in Writers : job[w].captured = <<>> /\ job[w].at = "idle"
  BY <1>1, <1>2, WriterHolds
<1>5. \A a \in Archives : a = <<>> \/ (a = Stored /\ told = 1)
  <2>1. \A w \in Holders : job[w].base = <<>>
    BY <1>1, <1>2
  <2>2. \A f \in Formats : meta[f] # None => meta[f] = Stored /\ told = 1
    BY DEF Init, Formats
  <2> QED  BY <1>1, <2>1, <2>2 DEF Archives, Known
<1>6. \A m : \A a \in Archives : (Holds(a, m) => m <= told) /\ Sole(Flat(a), m)
  <2>1. \A m : m \in Range(<<1>>) <=> m = 1
    BY DEF Range
  <2>2. \A m : Sole(<<1>>, m)
    BY DEF Sole
  <2> QED  BY <1>5, <2>1, <2>2, StoredHolds, NoneHeld DEF Holds
<1>7. \A m : \A c \in Copies : ~Mine(c, m)
  BY <1>1, <1>3, <1>4 DEF Mine
<1>8. Numbered
  BY <1>1, <1>3, <1>4, <1>6, <1>7 DEF Numbered
<1> QED
  BY <1>1, <1>3, <1>4, <1>6, <1>8 DEF Singly, Capturing, Untold, Apart, Unsaved

(* Every step preserves the counts.                                         *)
LEMMA SinglyStep ==
  ASSUME Inv, Singly, [Next]_vars
  PROVE  Singly'
<1>1. ASSUME NEW w \in Writers, Writer(w) PROVE Singly'
  <2>1. ASSUME NEW kind \in {"commit", "patch"}, Begin(w, kind) PROVE Singly'
    BY <2>1, SinglyBegins
  <2>2. CASE WriteChunks(w) /\ job[w].captured # <<>>
    BY <2>2, SinglyWrites
  <2>3. CASE \/ ReadFound(w) \/ ReadNothing(w) \/ MigrateEnds(w)
             \/ (WriteChunks(w) /\ job[w].captured = <<>>) \/ WriteMetadata(w)
             \/ DropOther(w) \/ Opened(w) \/ Release(w) \/ Return(w) \/ Fails(w)
    BY <2>3, QuietReads, QuietWrites, QuietEnds, QuietFails, Calm
  <2> QED  BY <1>1, <2>1, <2>2, <2>3 DEF Writer
<1>2. ASSUME NEW c \in Copies, AddMessage(c) \/ Open(c) \/ Crash(c) PROVE Singly'
  BY <1>2, SinglyAdds, QuietOpen, QuietCrash, Calm
<1>3. CASE \/ EraseBegins \/ EraseChunks \/ EraseStops \/ UNCHANGED vars
           \/ \E f \in Formats : EraseMetadata(f)
  BY <1>3, QuietEraser, Calm
<1> QED  BY <1>1, <1>2, <1>3 DEF Next

(***************************************************************************)
(* What is saved is shown: first the formats.                              *)
(***************************************************************************)
LEMMA TwoFormatsAre ==
  /\ Formats = {"plain", "enc"}
  /\ \A f \in Formats : Other(f) \in Formats /\ Other(f) # f /\ Other(Other(f)) = f
  /\ \A f, g \in Formats : g = f \/ g = Other(f)
  /\ \A c \in Copies : Preferred(c) \in Formats
  BY DEF Formats, Other, Preferred

(* Copies of one policy all prefer what a reader of two formats is shown.  *)
LEMMA Shared ==
  ASSUME NEW c \in Copies, Uniform
  PROVE  Preferred(c) = Favoured
  BY DEF Uniform, Favoured, Preferred

(* What a job builds on is an archive, and never missing metadata.          *)
LEMMA NoFile ==
  ASSUME Shape, NEW w \in Holders
  PROVE  job[w].base # None /\ job[w].base \in Seq(Chunks)
  BY NoFileAssumption DEF Shape, Job

(* Whoever is past the lock, or gets it, is there alone.                   *)
LEMMA AloneThere ==
  ASSUME Inv, NEW w \in Writers, lock \in {w, None}
  PROVE  /\ \A v \in Writers \ {w} : job[v].at \notin AtFiles
         /\ job[Eraser].at = "idle"
<1>1. w # Eraser /\ Eraser # None /\ \A v \in Writers : v # None
  BY EraserIsApart, NoneAssumption
<1> QED  BY <1>1 DEF Inv, Locked, Erasing

(***************************************************************************)
(* The steps that change no metadata.                                      *)
(***************************************************************************)
LEMMA ShownStays ==
  ASSUME Shown, UNCHANGED <<meta, keyed>>, saved' \subseteq saved, forked => forked',
         forked \in BOOLEAN, forked' \in BOOLEAN,
         job'[Eraser].at # "idle" => saved' = {},
         \A v \in Writers : job'[v] = job[v] \/ job'[v].at \notin AtFiles,
         \A v \in Writers : job[v].at = "migrate" => job'[v] = job[v] \/ ~Mixed'
  PROVE  Shown'
<1>0. /\ Uniform' = Uniform /\ Nowhere' = Nowhere /\ (Mixed' => Mixed)
      /\ \A f : Seen(f)' <=> Seen(f)
      /\ \A c : Preferred(c)' = Preferred(c)
  BY DEF Uniform, Favoured, Nowhere, Mixed, Seen, Preferred
<1>1. Mixed' => \E w \in Writers : job'[w].at = "migrate"
  BY <1>0 DEF Shown
<1>2. ASSUME NEW v \in Writers PROVE Follows(v)'
  <2>1. CASE job'[v] = job[v]
    <3>1. Alone(v) => Alone(v)'
      BY <1>0 DEF Alone
    <3>2. Follows(v)
      BY DEF Shown
    <3> QED  BY <1>0, <2>1, <3>1, <3>2 DEF Follows, Includes, Covers, Holds
  <2>2. CASE job'[v].at \notin AtFiles
    BY <2>2 DEF Follows, AtFiles
  <2> QED  BY <2>1, <2>2
<1>3. ~forked' => Shows' /\ (saved' # {} => ~Nowhere')
  <2>1. ~forked' => Shows /\ (saved # {} => ~Nowhere)
    BY DEF Shown
  <2>2. Shows => Shows'
    BY <1>0 DEF Shows, Holds
  <2> QED  BY <1>0, <2>1, <2>2
<1> QED  BY <1>1, <1>2, <1>3 DEF Shown

(* A process opens the session, dies, or gets a message.                    *)
LEMMA ShownCopy ==
  ASSUME Inv, Shown, NEW c \in Copies, AddMessage(c) \/ Open(c) \/ Crash(c)
  PROVE  Shown'
<1> DEFINE w == <<c, "turn">>
<1>0. /\ Shape /\ w \in Writers /\ w \in Holders /\ w[1] = c /\ Eraser \in Holders /\ Eraser # w
      /\ \A v \in Writers : v \in Holders
      /\ forked \in BOOLEAN
  BY Turns, EraserIsApart, WriterHolds DEF Inv, Shape
<1>1. UNCHANGED <<meta, keyed>> /\ saved' = saved /\ (forked => forked') /\ forked' \in BOOLEAN
  BY <1>0 DEF AddMessage, Open, Crash, disk, history
<1>2. Eraser[1] = None
  BY DEF Eraser
<1>3. CASE AddMessage(c)
  <2>1. /\ job[w].at = "idle" /\ job'[w].at = "gap"
        /\ \A v \in Holders \ {w} : job'[v] = job[v]
    BY <1>0, <1>3, GotoJob DEF AddMessage, Places
  <2> HIDE DEF w
  <2> QED  BY <1>0, <1>1, <2>1, ShownStays DEF Shown, AtFiles
<1>4. CASE Open(c)
  <2>1. \/ job' = job
        \/ job' = [job EXCEPT ![w] = [Idle EXCEPT !.at = "lock", !.kind = "open"]]
    BY <1>4 DEF Open
  <2>2. /\ job[w].at = "idle"
        /\ job'[w].at \in {"idle", "lock"}
        /\ \A v \in Holders \ {w} : job'[v] = job[v]
    BY <1>0, <1>4, <2>1 DEF Open, Idle, Shape
  <2> HIDE DEF w
  <2> QED  BY <1>0, <1>1, <2>2, ShownStays DEF Shown, AtFiles
<1>5. CASE Crash(c)
  <2>1. \A v \in Holders : job'[v] = IF v[1] = c THEN Idle ELSE job[v]
    BY <1>0, <1>5 DEF Crash, Shape
  <2>2. Idle.at = "idle"
    BY DEF Idle
  <2>3. job'[Eraser].at # "idle" => saved' = {}
    BY <1>0, <1>1, <2>1, <2>2 DEF Shown
  <2>4. ASSUME NEW v \in Writers, job[v].at = "migrate" PROVE job'[v] = job[v] \/ ~Mixed'
    <3>1. CASE v[1] # c
      BY <1>0, <2>1, <3>1
    <3>2. CASE v[1] = c
      <4>1. Mixed' => TwoFormats(v)
        BY <1>1, <2>4 DEF Mixed, TwoFormats, Uniform
      <4>2. TwoFormats(v) => forked'
        BY <1>5, <3>2 DEF Crash
      <4> QED  BY <4>1, <4>2 DEF Mixed
    <3> QED  BY <3>1, <3>2
  <2>5. \A v \in Writers : job'[v] = job[v] \/ job'[v].at \notin AtFiles
    BY <1>0, <2>1, <2>2 DEF AtFiles
  <2> QED  BY <1>0, <1>1, <2>3, <2>4, <2>5, ShownStays
<1> QED  BY <1>3, <1>4, <1>5

(* A writer does what needs no lock.                                        *)
LEMMA ShownOutside ==
  ASSUME Inv, Shown, NEW w \in Writers,
         \/ \E kind \in {"commit", "patch"} : Begin(w, kind)
         \/ Opened(w) \/ Return(w) \/ Fails(w)
  PROVE  Shown'
<1>0. /\ Shape /\ w \in Holders /\ Eraser \in Holders /\ Eraser # w
      /\ \A v \in Writers : v \in Holders
      /\ forked \in BOOLEAN
  BY EraserIsApart, WriterHolds DEF Inv, Shape
<1>1. UNCHANGED <<meta, keyed>> /\ saved' = saved /\ (forked => forked') /\ forked' \in BOOLEAN
  BY <1>0 DEF Begin, Opened, Return, Fails, disk, history
<1>2. /\ \A v \in Holders \ {w} : job'[v] = job[v]
      /\ job'[w].at \in {"idle", "lock"}
  BY <1>0, BeginJob, IdleJob DEF Opened, Leaves, Return, Fails
<1>3. job[w].at = "migrate" => ~Mixed'
  <2>1. CASE Fails(w)
    <3>1. job[w].at = "migrate" /\ Mixed' => TwoFormats(w)
      BY <1>1 DEF Mixed, TwoFormats, Uniform
    <3>2. TwoFormats(w) => forked'
      BY <2>1 DEF Fails
    <3> QED  BY <3>1, <3>2 DEF Mixed
  <2>2. CASE ~Fails(w)
    BY <2>2 DEF Begin, Opened, Return
  <2> QED  BY <2>1, <2>2
<1> QED  BY <1>0, <1>1, <1>2, <1>3, ShownStays DEF Shown, AtFiles

(* The session is deleted, or nothing happens.                              *)
LEMMA ShownEraser ==
  ASSUME Inv, Shown,
         \/ EraseBegins \/ EraseChunks \/ EraseStops \/ UNCHANGED vars
         \/ \E f \in Formats : EraseMetadata(f)
  PROVE  Shown'
<1>0. /\ Shape /\ Eraser \in Holders /\ \A v \in Writers : v \in Holders /\ v # Eraser
      /\ forked \in BOOLEAN
  BY WriterHolds, EraserIsApart DEF Inv, Shape
<1>1. CASE EraseBegins \/ EraseChunks \/ EraseStops \/ UNCHANGED vars
  <2>1. /\ UNCHANGED <<meta, keyed, forked>> /\ saved' \in {saved, {}}
        /\ job'[Eraser].at # "idle" => saved' = {} \/ (saved' = saved /\ job'[Eraser] = job[Eraser])
    BY <1>0, <1>1 DEF EraseBegins, EraseChunks, EraseStops, Leaves, vars, disk, history, Idle, Shape
  <2>2. \A v \in Writers : job'[v] = job[v]
    BY <1>0, <1>1 DEF EraseBegins, EraseChunks, EraseStops, Leaves, vars, Shape
  <2>3. job'[Eraser].at # "idle" => saved' = {}
    BY <2>1 DEF Shown
  <2> QED  BY <1>0, <2>1, <2>2, <2>3, ShownStays
<1>2. ASSUME NEW f \in Formats, EraseMetadata(f) PROVE Shown'
  <2>1. job[Eraser].at # "idle" /\ lock = Eraser
    BY <1>2 DEF EraseMetadata, Formats, Inv, Erasing
  <2>2. saved' = {} /\ UNCHANGED <<keyed, forked>> /\ meta'[f] = None
    BY <1>0, <1>2, <2>1 DEF EraseMetadata, history, Shown, Shape
  <2>3. (IF f = "plain" THEN "enc" ELSE "files") \in Places
    BY DEF Places
  <2>4. \A v \in Writers : job'[v] = job[v] /\ job[v].at \notin AtFiles
    BY <1>0, <1>2, <2>1, <2>3, GotoJob DEF EraseMetadata, Inv, Locked
  <2>5. \A v \in Writers : Follows(v)'
    BY <2>4 DEF Follows, AtFiles
  <2>6. ~Mixed' /\ Shows'
    BY <2>2 DEF Mixed, Shows
  <2> QED  BY <2>2, <2>5, <2>6 DEF Shown
<1> QED  BY <1>1, <1>2

(***************************************************************************)
(* The steps under the lock.                                               *)
(***************************************************************************)
LEMMA ShownAlone ==
  ASSUME Inv, NEW w \in Writers, lock \in {w, None},
         \A v \in Holders \ {w} : job'[v] = job[v],
         Follows(w)',
         Mixed' => job'[w].at = "migrate",
         ~forked' => Shows' /\ (saved' # {} => ~Nowhere')
  PROVE  Shown'
<1>1. /\ \A v \in Writers \ {w} : job[v].at \notin AtFiles
      /\ job[Eraser].at = "idle"
  BY AloneThere
<1>2. \A v \in Writers : v \in Holders
  BY WriterHolds
<1>3. ASSUME NEW v \in Writers \ {w} PROVE Follows(v)'
  BY <1>1, <1>2 DEF Follows, AtFiles
<1>4. job'[Eraser].at = "idle"
  BY <1>1, EraserIsApart
<1> QED  BY <1>3, <1>4 DEF Shown

(* What stays as long as nobody but w is at the files.                     *)
LEMMA Constantly ==
  ASSUME keyed' = keyed
  PROVE  /\ Uniform' = Uniform /\ \A c : Preferred(c)' = Preferred(c)
         /\ Favoured' = Favoured
  BY DEF Uniform, Preferred, Favoured

(* Whether there is a session is a matter of the metadata.                  *)
LEMMA NowhereStays ==
  ASSUME meta' = meta
  PROVE  Nowhere' = Nowhere
  BY DEF Nowhere

(* A writer under the lock reads the session that it found.                 *)
LEMMA ShownReads ==
  ASSUME Inv, Shown, NEW w \in Writers, ReadFound(w)
  PROVE  Shown'
<1> DEFINE c == w[1]
           f == Preferred(c)
<1>0. Shape /\ w \in Holders /\ c \in Copies /\ f \in Formats /\ lock = None
  BY WriterHolds, TwoFormatsAre DEF Inv, ReadFound, Acquires
<1>1. /\ \A v \in Holders \ {w} : job'[v] = job[v]
      /\ job'[w].at = (IF Migrates(c) THEN "migrate" ELSE "chunk")
      /\ job'[w].base = meta[Found(c)]
  BY <1>0, ReadJob
<1>2. /\ UNCHANGED <<keyed, saved, forked>> /\ Readable(c)
      /\ meta' = (IF Migrates(c) THEN [meta EXCEPT !.enc = meta.plain] ELSE meta)
      /\ meta[Found(c)] # None
  BY DEF ReadFound, history, Readable, Exists
<1>3. CASE Migrates(c)
  <2>1. f = "enc" /\ Found(c) = "plain" /\ meta["enc"] = None /\ meta["plain"] # None
    BY <1>2, <1>3 DEF Migrates, Found, Preferred, Other
  <2>2. meta'["enc"] = meta["plain"] /\ meta'["plain"] = meta["plain"]
    BY <1>0, <1>2, <1>3 DEF Shape, Formats
  <2>3. Follows(w)'
    BY <1>0, <1>1, <1>2, <1>3, <2>1, <2>2, Constantly DEF Follows
  <2>4. Seen("plain")
    BY <2>1 DEF Seen, Other
  <2>5. ~forked' => Shows' /\ ~Nowhere'
    <3> SUFFICES ASSUME ~forked PROVE Shows' /\ ~Nowhere'
      BY <1>2
    <3>1. \A m \in saved : Holds(meta["plain"], m)
      BY <2>4, TwoFormatsAre DEF Shown, Shows
    <3>2. \A g \in Formats : meta'[g] = meta["plain"]
      BY <2>2, TwoFormatsAre
    <3> QED  BY <1>2, <2>1, <3>1, <3>2, TwoFormatsAre DEF Shows, Nowhere, Holds
  <2> QED  BY <1>0, <1>1, <1>3, <2>3, <2>5, ShownAlone
<1>4. CASE ~Migrates(c)
  <2>1. Found(c) = f
    BY <1>2, <1>4 DEF Readable, Migrates, Found, Preferred, Other
  <2>2. meta' = meta /\ job'[w].at = "chunk"
    BY <1>1, <1>2, <1>4
  <2>3. ~Mixed
    BY <1>0, AloneThere, WriterHolds DEF Shown, Inv, Locked, AtFiles
  <2>4. Alone(w)
    <3>1. ~forked /\ ~Uniform => ~(meta[Other(f)] # None)
      BY <1>0, <1>2, <2>1, <2>3, TwoFormatsAre DEF Mixed
    <3> QED  BY <3>1 DEF Alone
  <2>5. Alone(w)'
    BY <1>2, <2>2, <2>4, Constantly DEF Alone
  <2>6. Follows(w)'
    BY <1>1, <1>2, <2>1, <2>2, <2>5, Constantly DEF Follows
  <2>7. ~Mixed'
    BY <1>2, <2>2, <2>3 DEF Mixed, Uniform
  <2>8. ~forked' => Shows' /\ (saved' # {} => ~Nowhere')
    BY <1>2, <2>2 DEF Shown, Shows, Seen, Holds, Nowhere, Uniform, Favoured
  <2> QED  BY <1>0, <1>1, <2>6, <2>7, <2>8, ShownAlone
<1> QED  BY <1>3, <1>4

(* A writer under the lock finds no session.                                *)
LEMMA ShownNothing ==
  ASSUME Inv, Shown, NEW w \in Writers, ReadNothing(w)
  PROVE  Shown'
<1>0. Shape /\ w \in Holders /\ w[1] \in Copies /\ lock = None
  BY WriterHolds DEF Inv, ReadNothing, Acquires
<1>1. (\A v \in Holders \ {w} : job'[v] = job[v]) /\ job'[w].at = "chunk"
  BY <1>0, GotoJob DEF ReadNothing, Places
<1>2. UNCHANGED <<keyed, saved, forked, meta>>
  BY DEF ReadNothing, disk
<1>3. Nowhere
  BY <1>0, TwoFormatsAre DEF ReadNothing, Exists, Found, Nowhere
<1>4. Nowhere'
  BY <1>2, <1>3 DEF Nowhere
<1>5. Alone(w)'
  BY <1>0, <1>4, TwoFormatsAre, Constantly, <1>2 DEF Alone, Nowhere
<1>6. Follows(w)'
  BY <1>1, <1>4, <1>5 DEF Follows
<1>7. ~Mixed'
  BY <1>4, TwoFormatsAre DEF Mixed, Nowhere
<1>8. ~forked' => Shows' /\ (saved' # {} => ~Nowhere')
  BY <1>2 DEF Shown, Shows, Seen, Holds, Nowhere, Uniform, Favoured
<1> QED  BY <1>0, <1>1, <1>6, <1>7, <1>8, ShownAlone

(* A writer has re-encrypted the session and goes on.                       *)
LEMMA ShownMigrates ==
  ASSUME Inv, Shown, NEW w \in Writers, MigrateEnds(w)
  PROVE  Shown'
<1>0. /\ Shape /\ w \in Holders /\ w[1] \in Copies /\ lock = w
      /\ job[w].at = "migrate" /\ Follows(w)
  BY WriterHolds DEF Inv, MigrateEnds, Locked, AtFiles, Shown
<1>1. /\ \A v \in Holders \ {w} : job'[v] = job[v]
      /\ job'[w].at = "chunk" /\ job'[w].base = job[w].base
  BY <1>0, GotoJob DEF MigrateEnds, Places
<1>2. /\ UNCHANGED <<keyed, saved, forked>>
      /\ meta'["plain"] = None /\ meta'["enc"] = meta["enc"]
  BY <1>0 DEF MigrateEnds, history, Shape, Formats
<1>3. Preferred(w[1]) = "enc" /\ meta["enc"] = job[w].base /\ meta["enc"] # None
  BY <1>0, NoFile DEF Follows
<1>4. Preferred(w[1])' = "enc" /\ Alone(w)'
  BY <1>2, <1>3, Constantly DEF Alone, Other
<1>5. Follows(w)'
  BY <1>1, <1>2, <1>3, <1>4 DEF Follows
<1>6. ~Mixed'
  BY <1>2, TwoFormatsAre DEF Mixed
<1>7. Seen("enc")
  BY <1>0, <1>3, Shared DEF Seen
<1>8. ~forked' => Shows' /\ ~Nowhere'
  <2> SUFFICES ASSUME ~forked PROVE Shows' /\ ~Nowhere'
    BY <1>2
  <2>1. \A m \in saved : Holds(meta["enc"], m)
    BY <1>7, TwoFormatsAre DEF Shown, Shows
  <2>2. ~Seen("plain")'
    BY <1>2 DEF Seen
  <2>3. Shows'
    BY <1>2, <2>1, <2>2, TwoFormatsAre DEF Shows, Holds
  <2> QED  BY <1>2, <1>3, <2>3, TwoFormatsAre DEF Nowhere
<1> QED  BY <1>0, <1>1, <1>5, <1>6, <1>8, ShownAlone

(* A writer's archive covers what it builds on, and what it captured.       *)
LEMMA ShownWrites ==
  ASSUME Inv, Shown, NEW w \in Writers, WriteChunks(w)
  PROVE  Shown'
<1> DEFINE f == Preferred(w[1])
           msgs == job[w].captured
           base == job[w].base
<1>0. /\ Shape /\ w \in Holders /\ w[1] \in Copies /\ lock = w /\ f \in Formats
      /\ job[w].at = "chunk" /\ Follows(w)
  BY WriterHolds, TwoFormatsAre DEF Inv, WriteChunks, Locked, AtFiles, Shown
<1>1. /\ \A v \in Holders \ {w} : job'[v] = job[v]
      /\ job'[w].at = "meta" /\ job'[w].captured = msgs
      /\ job'[w].base = IF msgs = <<>> THEN base ELSE Grown(base, msgs, w[1] \in keyed)
  BY <1>0, WriteJob
<1>2. UNCHANGED <<keyed, saved, forked, meta>>
  BY DEF WriteChunks, history
<1>3. \A m : Holds(job'[w].base, m) <=> Holds(base, m) \/ m \in Range(msgs)
  <2>1. CASE msgs = <<>>
    BY <1>1, <2>1 DEF Range
  <2>2. CASE msgs # <<>>
    <3>1. base \in Seq(Chunks) /\ msgs \in Seq(Messages) /\ era \in 0..MaxErasures
      BY <1>0 DEF Shape, Job
    <3>2. (w[1] \in keyed) \in BOOLEAN
      OBVIOUS
    <3>3. job'[w].base = Grown(base, msgs, w[1] \in keyed)
      BY <1>1, <2>2
    <3> HIDE DEF base, msgs
    <3> QED  BY <3>1, <3>2, <3>3, GrownHolds
  <2> QED  BY <2>1, <2>2
<1>4. Nowhere \/ (meta[f] = base /\ meta[f] # None)
  BY <1>0, NoFile DEF Follows
<1>5. Alone(w)'
  BY <1>0, <1>2, Constantly DEF Follows, Alone
<1>6. Follows(w)'
  <2>1. Includes(job[w].base, w)'
    BY <1>1, <1>3 DEF Includes, Holds
  <2>2. Nowhere' \/ (meta'[f] # None /\ \A m \in Messages :
                                             Holds(meta'[f], m) => Holds(job'[w].base, m))
    <3>1. CASE Nowhere
      BY <1>2, <3>1, NowhereStays
    <3>2. CASE meta[f] = base /\ meta[f] # None
      <4>1. meta'[f] = base
        BY <1>2, <3>2
      <4> HIDE DEF f
      <4>2. \A m \in Messages : Holds(meta'[f], m) => Holds(job'[w].base, m)
        BY <1>3, <4>1
      <4> QED  BY <1>2, <3>2, <4>2 DEF f
    <3> QED  BY <1>4, <3>1, <3>2
  <2>3. Preferred(w[1])' = f
    BY <1>2, Constantly
  <2> QED  BY <1>1, <1>5, <2>1, <2>2, <2>3 DEF Follows, Includes, Covers, Holds
<1>7. ~Mixed'
  BY <1>0, <1>2, TwoFormatsAre DEF Follows, Alone, Mixed, Uniform
<1>8. ~forked' => Shows' /\ (saved' # {} => ~Nowhere')
  BY <1>2 DEF Shown, Shows, Seen, Holds, Nowhere, Uniform, Favoured
<1> QED  BY <1>0, <1>1, <1>6, <1>7, <1>8, ShownAlone

(* What a writer is about to replace is what a reader is shown.            *)
LEMMA WriterSees ==
  ASSUME NEW w \in Writers, Alone(w), ~forked, meta[Preferred(w[1])] # None
  PROVE  Seen(Preferred(w[1]))
<1>1. w[1] \in Copies
  BY WriterHolds
<1> QED  BY <1>1, Shared DEF Seen, Alone

(* A writer's archive is named, and shows what was shown and is saved now.  *)
LEMMA ShownNames ==
  ASSUME Inv, Shown, NEW w \in Writers, WriteMetadata(w)
  PROVE  Shown'
<1> DEFINE f == Preferred(w[1])
           base == job[w].base
<1>0. /\ Shape /\ w \in Holders /\ w[1] \in Copies /\ lock = w /\ f \in Formats
      /\ job[w].at = "meta" /\ Follows(w)
  BY WriterHolds, TwoFormatsAre DEF Inv, WriteMetadata, Locked, AtFiles, Shown
<1>1. /\ \A v \in Holders \ {w} : job'[v] = job[v]
      /\ job'[w].at = "drop" /\ job'[w].base = base /\ job'[w].captured = job[w].captured
  BY <1>0, GotoJob DEF WriteMetadata, Places
<1>2. /\ UNCHANGED <<keyed, saved, forked>>
      /\ meta'[f] = base /\ meta'[Other(f)] = meta[Other(f)]
      /\ f' = f /\ Uniform' = Uniform
  BY <1>0, TwoFormatsAre, Constantly DEF WriteMetadata, history, Shape
<1>3. /\ Nowhere \/ (meta[f] # None /\ Covers(base, meta[f]))
      /\ Includes(base, w) /\ Alone(w) /\ base # None
  BY <1>0, NoFile DEF Follows
<1>4. Alone(w)'
  BY <1>2, <1>3 DEF Alone
<1>5. Follows(w)'
  <2>1. Includes(base, w)'
    BY <1>1, <1>3 DEF Includes, Holds
  <2> QED  BY <1>1, <1>2, <1>4, <2>1 DEF Follows, Includes, Holds
<1>6. ~Mixed'
  BY <1>0, <1>2, <1>4, TwoFormatsAre DEF Alone, Mixed
<1>7. ~forked' => Shows' /\ ~Nowhere'
  <2> SUFFICES ASSUME ~forked PROVE Shows' /\ ~Nowhere'
    BY <1>2
  <2>1. \A m \in saved : Holds(base, m)
    <3>1. CASE Nowhere
      BY <3>1 DEF Shown
    <3>2. CASE meta[f] # None /\ Covers(base, meta[f])
      <4>1. Seen(f)
        BY <1>3, <3>2, WriterSees
      <4>2. \A m \in saved : m \in Messages /\ Holds(meta[f], m)
        BY <1>0, <4>1 DEF Shown, Shows, Shape
      <4> QED  BY <3>2, <4>2 DEF Covers
    <3> QED  BY <1>3, <3>1, <3>2
  <2>2. ASSUME NEW g \in Formats, Seen(g)' PROVE g = f
    <3>1. meta'[f] # None
      BY <1>2, <1>3
    <3>2. CASE ~Uniform
      <4>1. meta'[Other(f)] = None
        BY <1>2, <1>3, <3>2 DEF Alone
      <4> QED  BY <1>0, <2>2, <4>1, TwoFormatsAre DEF Seen
    <3>3. CASE Uniform
      <4>1. f = Favoured /\ Favoured' = Favoured
        BY <1>0, <1>2, <3>3, Shared, Constantly
      <4> QED  BY <1>0, <1>2, <2>2, <3>1, <3>3, <4>1, TwoFormatsAre DEF Seen
    <3> QED  BY <3>2, <3>3
  <2>3. Shows'
    BY <1>2, <2>1, <2>2 DEF Shows, Holds
  <2> QED  BY <1>0, <1>2, <1>3, <2>3 DEF Nowhere
<1> QED  BY <1>0, <1>1, <1>5, <1>6, <1>7, ShownAlone

(* A writer removes the format that no reader needs any more.               *)
LEMMA ShownDrops ==
  ASSUME Inv, Shown, NEW w \in Writers, DropOther(w)
  PROVE  Shown'
<1> DEFINE f == Preferred(w[1])
           base == job[w].base
<1>0. /\ Shape /\ w \in Holders /\ w[1] \in Copies /\ lock = w /\ f \in Formats
      /\ job[w].at = "drop" /\ Follows(w)
  BY WriterHolds, TwoFormatsAre DEF Inv, DropOther, Locked, AtFiles, Shown
<1>1. /\ \A v \in Holders \ {w} : job'[v] = job[v]
      /\ job'[w].at = "release" /\ job'[w].base = base /\ job'[w].captured = job[w].captured
  BY <1>0, GotoJob DEF DropOther, Places
<1>2. /\ UNCHANGED <<keyed, saved, forked>>
      /\ meta'[Other(f)] = None /\ meta'[f] = meta[f]
      /\ f' = f
  BY <1>0, TwoFormatsAre, Constantly DEF DropOther, history, Shape
<1>3. meta[f] = base /\ Includes(base, w) /\ Alone(w) /\ base # None
  BY <1>0, NoFile DEF Follows
<1>4. Follows(w)'
  <2>1. Includes(base, w)'
    BY <1>1, <1>3 DEF Includes, Holds
  <2>2. Alone(w)'
    BY <1>2 DEF Alone
  <2> QED  BY <1>1, <1>2, <1>3, <2>1, <2>2 DEF Follows, Includes, Holds
<1>5. ~Mixed'
  BY <1>0, <1>2, TwoFormatsAre DEF Mixed
<1>6. ~forked' => Shows' /\ ~Nowhere'
  <2> SUFFICES ASSUME ~forked PROVE Shows' /\ ~Nowhere'
    BY <1>2
  <2>1. Seen(f)
    BY <1>3, WriterSees
  <2>2. \A m \in saved' : Holds(meta'[f], m)
    BY <1>0, <1>2, <2>1 DEF Shown, Shows
  <2>3. Shows'
    <3>1. ~Seen(Other(f))'
      BY <1>2 DEF Seen
    <3> QED  BY <1>0, <1>2, <2>2, <3>1, TwoFormatsAre DEF Shows, Holds
  <2> QED  BY <1>0, <1>2, <1>3, <2>3 DEF Nowhere
<1> QED  BY <1>0, <1>1, <1>4, <1>5, <1>6, ShownAlone

(* What a writer has archived is saved when it gives the lock back.         *)
LEMMA ShownReleases ==
  ASSUME Inv, Shown, NEW w \in Writers, Release(w)
  PROVE  Shown'
<1> DEFINE f == Preferred(w[1])
           base == job[w].base
<1>0. /\ Shape /\ w \in Holders /\ w[1] \in Copies /\ lock = w /\ f \in Formats
      /\ job[w].at = "release" /\ Follows(w)
  BY WriterHolds, TwoFormatsAre DEF Inv, Release, Locked, AtFiles, Shown
<1>1. /\ \A v \in Holders \ {w} : job'[v] = job[v]
      /\ job'[w].at \in {"idle", "return"}
  BY <1>0, ReleaseJob
<1>2. /\ UNCHANGED <<keyed, forked, meta>> /\ saved' = saved \cup Range(job[w].captured)
  BY DEF Release, disk
<1>3. meta[f] = base /\ Includes(base, w) /\ Alone(w) /\ base # None
  BY <1>0, NoFile DEF Follows
<1>4. Follows(w)'
  BY <1>1 DEF Follows
<1>5. ~Mixed' /\ Nowhere' = Nowhere /\ \A g : Seen(g)' <=> Seen(g)
  <2>1. ~Mixed
    BY <1>0, <1>3, TwoFormatsAre DEF Alone, Mixed
  <2> QED  BY <1>2, <2>1, Constantly DEF Mixed, Nowhere, Seen
<1>6. ~forked' => Shows' /\ ~Nowhere'
  <2> SUFFICES ASSUME ~forked PROVE Shows' /\ ~Nowhere'
    BY <1>2
  <2>1. Seen(f) /\ \A g \in Formats : Seen(g) => g = f
    <3>1. Seen(f)
      BY <1>3, WriterSees
    <3>2. CASE ~Uniform
      <4>1. meta[Other(f)] = None
        BY <1>3, <3>2 DEF Alone
      <4> QED  BY <1>0, <3>1, <4>1, TwoFormatsAre DEF Seen
    <3>3. CASE Uniform
      <4>1. f = Favoured
        BY <1>0, <3>3, Shared
      <4> QED  BY <1>0, <1>3, <3>1, <3>3, <4>1, TwoFormatsAre DEF Seen
    <3> QED  BY <3>2, <3>3
  <2>2. \A m \in saved' : Holds(meta[f], m)
    BY <1>0, <1>2, <1>3, <2>1 DEF Shown, Shows, Includes
  <2>3. Shows'
    BY <1>2, <1>5, <2>1, <2>2 DEF Shows, Holds
  <2> QED  BY <1>0, <1>3, <1>5, <2>3 DEF Nowhere
<1> QED  BY <1>0, <1>1, <1>4, <1>5, <1>6, ShownAlone

(* At the start, what is saved is in the one archive there is.              *)
LEMMA ShownInit == Init => Shown
<1> SUFFICES ASSUME Init PROVE Shown
  OBVIOUS
<1>1. \A w \in Holders : job[w] = Idle
  BY DEF Init, Holders
<1>2. Idle.at = "idle"
  BY DEF Idle
<1>3. /\ \A w \in Writers : job[w].at = "idle"
      /\ job[Eraser].at = "idle"
  BY <1>1, <1>2, WriterHolds, EraserIsApart
<1>4. \A w \in Writers : Follows(w)
  BY <1>3 DEF Follows
<1>5. ~Mixed
  BY DEF Init, Mixed, Formats
<1>6. Shows /\ (saved # {} => ~Nowhere)
  <2>1. CASE saved = {}
    BY <2>1 DEF Shows
  <2>2. CASE saved = {1} /\ meta = [plain |-> Stored, enc |-> None]
    <3>1. Stored # None /\ Holds(Stored, 1)
      BY StoredHolds, NoFileAssumption DEF Holds, Range
    <3>2. \A f \in Formats : Seen(f) => f = "plain"
      BY <2>2, TwoFormatsAre DEF Seen
    <3> QED  BY <2>2, <3>1, <3>2, TwoFormatsAre DEF Shows, Nowhere
  <2> QED  BY <2>1, <2>2 DEF Init
<1> QED  BY <1>3, <1>4, <1>5, <1>6 DEF Shown

(* Every step preserves what is shown.                                      *)
LEMMA ShownStep ==
  ASSUME Inv, Shown, [Next]_vars
  PROVE  Shown'
<1>1. ASSUME NEW w \in Writers, Writer(w) PROVE Shown'
  BY <1>1, ShownOutside, ShownReads, ShownNothing, ShownMigrates, ShownWrites,
     ShownNames, ShownDrops, ShownReleases DEF Writer
<1>2. ASSUME NEW c \in Copies, AddMessage(c) \/ Open(c) \/ Crash(c) PROVE Shown'
  BY <1>2, ShownCopy
<1>3. CASE \/ EraseBegins \/ EraseChunks \/ EraseStops \/ UNCHANGED vars
           \/ \E f \in Formats : EraseMetadata(f)
  BY <1>3, ShownEraser
<1> QED  BY <1>1, <1>2, <1>3 DEF Next

(* Both invariants hold in every reachable state.                          *)
THEOREM OnceInvariance == Spec => [](Singly /\ Shown)
<1>1. Init => Singly /\ Shown
  BY SinglyInit, ShownInit
<1>2. Inv /\ Singly /\ Shown /\ [Next]_vars => Singly' /\ Shown'
  BY SinglyStep, ShownStep
<1> QED  BY <1>1, <1>2, Invariance, PTL DEF Spec

(***************************************************************************)
(* What a reader finds.                                                    *)
(***************************************************************************)
(* The places of m are counted: none is none, and one is one at most.      *)
LEMMA PlacesCounted ==
  ASSUME NEW S, NEW q \in Seq(S), NEW m
  PROVE  /\ m \in Range(q) => Cardinality({i \in DOMAIN q : q[i] = m}) >= 1
         /\ Sole(q, m) => Cardinality({i \in DOMAIN q : q[i] = m}) <= 1
<1> DEFINE places == {i \in DOMAIN q : q[i] = m}
<1>1. IsFiniteSet(places)
  <2>1. DOMAIN q = 1..Len(q) /\ Len(q) \in Nat
    OBVIOUS
  <2>2. IsFiniteSet(1..Len(q))
    BY <2>1, FS_Interval
  <2>3. places \subseteq 1..Len(q)
    BY <2>1
  <2> QED  BY <2>2, <2>3, FS_Subset
<1>2. Cardinality(places) \in Nat
  BY <1>1, FS_CardinalityType
<1>3. ASSUME m \in Range(q) PROVE Cardinality(places) >= 1
  <2>1. places # {}
    BY <1>3 DEF Range
  <2>2. Cardinality(places) # 0
    BY <1>1, <2>1, FS_EmptySet
  <2> HIDE DEF places
  <2> QED  BY <1>2, <2>2
<1>4. ASSUME Sole(q, m) PROVE Cardinality(places) <= 1
  <2>1. CASE places = {}
    <3>1. Cardinality(places) = 0
      BY <2>1, FS_EmptySet
    <3> HIDE DEF places
    <3> QED  BY <3>1
  <2>2. CASE places # {}
    <3>1. PICK i \in DOMAIN q : q[i] = m
      BY <2>2
    <3>2. places = {i}
      BY <1>4, <3>1 DEF Sole
    <3>3. Cardinality(places) = 1
      BY <3>2, FS_Singleton
    <3> HIDE DEF places
    <3> QED  BY <3>3
  <2> QED  BY <2>1, <2>2
<1> QED  BY <1>3, <1>4

(* Current is the archive of a format that a reader may be shown.          *)
LEMMA CurrentIsSeen ==
  ASSUME Inv
  PROVE  \/ Nowhere /\ Current = <<>>
         \/ \E f \in Formats : Seen(f) /\ Current = Flat(meta[f])
<1> DEFINE there == {f \in Formats : meta[f] # None}
           one == CHOOSE g \in there : TRUE
           kept == IF lock # None /\ lock # Eraser THEN Preferred(lock[1])
                   ELSE IF keyed = {} THEN "plain" ELSE "enc"
           f == IF Cardinality(there) < 2 THEN one ELSE kept
<1>0. Current = IF there = {} THEN <<>> ELSE Flat(meta[f])
  BY DEF Current
<1>1. CASE there = {}
  BY <1>0, <1>1 DEF Nowhere
<1>2. CASE there # {} /\ there # Formats
  <2>1. one \in there
    BY <1>2
  <2>2. meta[Other(one)] = None /\ there = {one}
    BY <1>2, <2>1, TwoFormatsAre
  <2>3. Cardinality(there) = 1
    BY <2>2, FS_Singleton
  <2> HIDE DEF one
  <2>4. f = one
    <3> HIDE DEF there
    <3> QED  BY <2>3
  <2>5. Seen(one)
    BY <2>1, <2>2 DEF Seen
  <2> HIDE DEF f
  <2> QED  BY <1>0, <1>2, <2>1, <2>4, <2>5
<1>3. CASE there = Formats
  <2>1. Cardinality(there) = 2
    <3>1. Cardinality({"plain"}) = 1 /\ IsFiniteSet({"plain"})
      BY FS_Singleton
    <3>2. Formats = {"plain"} \cup {"enc"} /\ "enc" \notin {"plain"}
      BY TwoFormatsAre
    <3>3. Cardinality({"plain"} \cup {"enc"}) = Cardinality({"plain"}) + 1
      BY <3>1, <3>2, FS_AddElement
    <3> HIDE DEF there
    <3> QED  BY <1>3, <3>1, <3>2, <3>3
  <2>2. f = kept
    <3> HIDE DEF there, kept
    <3> QED  BY <2>1
  <2>3. lock # None /\ lock # Eraser => lock[1] \in Copies
    BY WriterHolds DEF Inv, Shape, Holders
  <2>4. kept \in Formats
    BY <2>3, TwoFormatsAre
  <2>5. Uniform => kept = Favoured
    BY <2>3, Shared DEF Favoured
  <2>6. Seen(kept)
    <3> HIDE DEF kept
    <3> QED  BY <1>3, <2>4, <2>5 DEF Seen
  <2> HIDE DEF f, kept
  <2> QED  BY <1>0, <1>3, <2>2, <2>4, <2>6
<1> QED  BY <1>1, <1>2, <1>3

(* Whatever commits were retried, rebased, interrupted or crashed, a       *)
(* message that a commit has saved is in the archive that a reader finds,  *)
(* none is in it twice, and what is not saved is pending in its copy.  The *)
(* exceptions are those that ArchivedExactlyOnce names.                    *)
THEOREM ArchivedOnce == Spec => []ArchivedExactlyOnce
<1>1. Inv /\ Singly /\ Shown => ArchivedExactlyOnce
  <2> SUFFICES ASSUME Inv, Singly, Shown, ~forked
               PROVE  /\ \A m \in saved : Occurrences(m) >= 1
                      /\ \A m \in Messages \ tangled : Occurrences(m) <= 1
                      /\ UnsavedIsPending
    BY DEF ArchivedExactlyOnce
  <2>1. UnsavedIsPending /\ Shape
    BY DEF Inv
  <2>2. Current \in Seq(Messages)
    <3>1. \A f \in Formats : meta[f] # None => Flat(meta[f]) \in Seq(Messages)
      BY <2>1, FlatFacts DEF Shape
    <3>2. <<>> \in Seq(Messages)
      OBVIOUS
    <3> QED  BY <3>1, <3>2, CurrentIsSeen DEF Seen
  <2>3. ASSUME NEW m \in saved PROVE m \in Range(Current)
    <3>1. ~Nowhere
      BY DEF Shown
    <3>2. PICK f \in Formats : Seen(f) /\ Current = Flat(meta[f])
      BY <3>1, CurrentIsSeen
    <3> QED  BY <3>2 DEF Shown, Shows, Holds
  <2>4. ASSUME NEW m \in Messages \ tangled PROVE Sole(Current, m)
    <3>1. Sole(<<>>, m)
      BY DEF Sole
    <3>2. \A f \in Formats : meta[f] # None => Sole(Flat(meta[f]), m)
      BY DEF Singly, Archives, Known
    <3> QED  BY <3>1, <3>2, CurrentIsSeen DEF Seen
  <2> QED  BY <2>1, <2>2, <2>3, <2>4, PlacesCounted DEF Occurrences
<1> QED  BY <1>1, OnceInvariance, Invariance, PTL
=================================================================================
