---------------------------- MODULE SessionArchive ----------------------------
(***************************************************************************)
(* The files of one session: metadata in one of two formats, and the       *)
(* transcript that it names, chunk by chunk.  Several processes may have   *)
(* the session open, each with a copy of it in memory, and in each the     *)
(* turn and the controls beside it commit snapshots.  A commit captures    *)
(* the copy's unsaved messages, waits for the session's file lock, rebases *)
(* them onto what is on disk, and afterwards tells the copy what it wrote. *)
(*                                                                         *)
(* The lock excludes here, as FileLock does until a lock is usurped: what  *)
(* follows is for sessions whose lock never was.  The visible transcript   *)
(* and the model context are two archives that are treated alike: one here.*)
(***************************************************************************)
EXTENDS Naturals, Sequences, FiniteSets, SequencesExt

CONSTANTS
  Copies,       \* processes that may have the session open
  Controls,     \* those with controls that commit beside the turn
  First,        \* the one that creates it, when it is new
  Policies,     \* which of them may be set to encrypt: sets of copies
  ChunkSize,    \* messages to a chunk
  MaxMessages,  \* bounds the messages that are appended
  MaxArchived,  \* bounds the archive, where messages are archived twice
  MaxErasures,  \* bounds the deletions
  None

ASSUME CopiesAssumption ==
  First \in Copies /\ Controls \subseteq Copies /\ Policies \subseteq SUBSET Copies
ASSUME BoundsAssumption == ChunkSize \in Nat \ {0} /\ MaxMessages \in Nat \ {0}
                             /\ MaxArchived \in Nat /\ MaxErasures \in Nat

Messages == 1..MaxMessages

(* A turn and one control of each copy, and who deletes the session.       *)
Writers == (Copies \X {"turn"}) \cup (Controls \X {"control"})
Eraser == <<None, "eraser">>

(* Nobody has the lock is something else than anybody has it.              *)
ASSUME NoneAssumption == None \notin Writers \cup {Eraser}

Formats == {"plain", "enc"}

(* A chunk's file.  Its name has a random part, which no later file shares: *)
(* the number of deletions before it is all of the name that matters.      *)
Texts == UNION {[1..n -> Messages] : n \in 1..ChunkSize}
Chunks == [text: Texts, enc: BOOLEAN, era: 0..MaxErasures]

(* Metadata that is missing is something else than any it could name.      *)
ASSUME NoFileAssumption == None \notin Seq(Chunks)

VARIABLES
  keyed,        \* the copies whose policy encrypts, for good
  open,         \* the copies in memory
  pending,      \* pendingMessages of each copy
  known,        \* the archive that each copy believes in
  job,          \* what each writer is doing
  lock,
  meta,         \* the metadata file of each format: the archive it names
  files,        \* the chunk files
  era,          \* how often the session was deleted
  told,         \* how many messages were appended
  saved,        \* history: messages of commits that ended well
  owed,         \* history: messages that each copy appended and nobody saved
  tangled,      \* history: messages that two commits of one copy could reach,
                \* the second at the same time, or after the first had failed
                \* with its metadata written
  forked,       \* history: two formats were left to copies that differ
  revived       \* history: metadata was made anew from a copy whose chunks
                \* had been deleted

disk == <<meta, files, era>>
history == <<saved, owed, tangled, forked, revived>>
vars == <<keyed, open, pending, known, job, lock, disk, told, history>>

Places == {"idle", "gap", "lock", "migrate", "chunk",
           "meta", "drop", "release", "return", "plain", "enc", "files"}

(* captured and base are what a commit took from the copy, then base what  *)
(* it builds on.                                                          *)
Idle == [at |-> "idle", kind |-> "commit", captured |-> <<>>, base |-> <<>>]

IsArchive(a) == \A i \in DOMAIN a : a[i] \in Chunks

TypeOK ==
  /\ keyed \in Policies
  /\ open \subseteq Copies
  /\ \A c \in Copies : Range(pending[c]) \subseteq Messages /\ IsArchive(known[c])
  /\ DOMAIN job = Writers \cup {Eraser}
  /\ \A w \in DOMAIN job :
       /\ job[w].at \in Places
       /\ job[w].kind \in {"commit", "patch", "open", "erase"}
       /\ Range(job[w].captured) \subseteq Messages
       /\ IsArchive(job[w].base)
  /\ lock \in DOMAIN job \cup {None}
  /\ \A f \in Formats : meta[f] = None \/ IsArchive(meta[f])
  /\ files \subseteq Chunks
  /\ era \in 0..MaxErasures /\ told \in 0..MaxMessages
  /\ saved \subseteq Messages /\ tangled \subseteq Messages
  /\ owed \in [Copies -> SUBSET Messages]
  /\ forked \in BOOLEAN /\ revived \in BOOLEAN

(* A session that is new in First, or one from before encryption was on.   *)
Stored == <<[text |-> <<1>>, enc |-> FALSE, era |-> 0]>>
Init ==
  /\ keyed \in Policies
  /\ pending = [c \in Copies |-> <<>>] /\ known = [c \in Copies |-> <<>>]
  /\ job = [w \in Writers \cup {Eraser} |-> Idle]
  /\ lock = None /\ era = 0
  /\ \/ /\ open = {First} /\ told = 0
        /\ meta = [f \in Formats |-> None] /\ files = {} /\ saved = {}
     \/ /\ open = {} /\ told = 1
        /\ meta = [plain |-> Stored, enc |-> None] /\ files = Range(Stored) /\ saved = {1}
  /\ owed = [c \in Copies |-> {}] /\ tangled = {}
  /\ forked = FALSE /\ revived = FALSE

(* prefersEncryptedMetadata.                                               *)
Preferred(c) == IF c \in keyed THEN "enc" ELSE "plain"
Other(f) == IF f = "enc" THEN "plain" ELSE "enc"

(* readMetadataExact: the preferred format, or else the other one.         *)
Found(c) == IF meta[Preferred(c)] # None THEN Preferred(c) ELSE Other(Preferred(c))
Exists(c) == meta[Found(c)] # None
Readable(c) == Exists(c) /\ (Found(c) = "enc" => c \in keyed)
Migrates(c) == Found(c) = "plain" /\ c \in keyed

Goto(w, place) == job' = [job EXCEPT ![w].at = place]
Leaves(w) == job' = [job EXCEPT ![w] = Idle] /\ lock' = None

Committing(c) ==
  \E w \in Writers : w[1] = c /\ job[w].kind = "commit" /\ job[w].at \notin {"idle", "gap"}

Flat(a) == FlattenSeq([i \in DOMAIN a |-> a[i].text])
Whole(a) == Range(a) \subseteq files

(* A writer that stops here leaves two formats, of which others, with      *)
(* another policy, read the older one.                                     *)
TwoFormats(w) == /\ job[w].at \in {"migrate", "drop"}
                 /\ \A f \in Formats : meta[f] # None
                 /\ keyed \notin {{}, Copies}

(***************************************************************************)
(* writeTranscriptChunks: a tail that is not full is written anew under    *)
(* another name, with what fits of the messages; the rest gets new chunks. *)
(***************************************************************************)
Partial(a) == a # <<>> /\ Len(Last(a).text) < ChunkSize
Chunked(msgs, enc) ==
  [i \in 1..((Len(msgs) + ChunkSize - 1) \div ChunkSize) |->
    [text |-> SubSeq(msgs, (i - 1) * ChunkSize + 1,
                     IF i * ChunkSize < Len(msgs) THEN i * ChunkSize ELSE Len(msgs)),
     enc |-> enc, era |-> era]]

(* A variant: the tail takes all of the messages.                          *)
GrownTail(a, msgs, enc) ==
  IF Partial(a)
  THEN Front(a) \o <<[text |-> Last(a).text \o msgs, enc |-> enc, era |-> era]>>
  ELSE a \o Chunked(msgs, enc)

Grown(a, msgs, enc) ==
  IF Partial(a)
  THEN Front(a) \o Chunked(Last(a).text \o msgs, enc)
  ELSE a \o Chunked(msgs, enc)

TailReadable(a, c) == Partial(a) => Last(a) \in files /\ (Last(a).enc => c \in keyed)

(***************************************************************************)
(* What happens in a copy.                                                 *)
(***************************************************************************)
(* appendTranscriptMessages in a turn; awaits follow until it commits.     *)
AddMessage(c) ==
  LET m == told + 1 IN
  /\ c \in open /\ job[<<c, "turn">>].at = "idle" /\ told < MaxMessages
  /\ told' = m
  /\ pending' = [pending EXCEPT ![c] = Append(@, m)]
  /\ owed' = [owed EXCEPT ![c] = @ \cup {m}]
  /\ tangled' = IF Committing(c) THEN tangled \cup {m} ELSE tangled
  /\ Goto(<<c, "turn">>, "gap")
  /\ UNCHANGED <<keyed, open, known, lock, disk, saved, forked, revived>>

(* commitSessionSnapshot up to the lock.  A Goal's control only patches    *)
(* the metadata.                                                           *)
Begin(w, kind) ==
  LET c == w[1] IN
  /\ c \in open
  /\ \/ w[2] = "turn" /\ job[w].at = "gap" /\ kind = "commit"
     \/ w[2] = "control" /\ job[w].at = "idle" /\ kind \in {"commit", "patch"}
  /\ job' = [job EXCEPT ![w] =
       [at |-> "lock", kind |-> kind,
        captured |-> IF kind = "commit" THEN pending[c] ELSE <<>>,
        base |-> IF kind = "commit" THEN known[c] ELSE <<>>]]
  /\ tangled' = IF kind = "commit" /\ Committing(c)
                THEN tangled \cup Range(pending[c]) ELSE tangled
  /\ UNCHANGED <<keyed, open, pending, known, lock, disk, told, saved, owed, forked, revived>>

(* The return of a commit: the lock is free, and others may have it.       *)
Return(w) ==
  LET c == w[1] IN
  /\ job[w].at = "return"
  /\ known' = [known EXCEPT ![c] = job[w].base]
  /\ pending' = [pending EXCEPT ![c] = <<>>]
  /\ job' = [job EXCEPT ![w] = Idle]
  /\ UNCHANGED <<keyed, open, lock, disk, told, history>>

(* A process resumes the session, under the lock if it has to re-encrypt.  *)
Open(c) ==
  /\ c \notin open /\ job[<<c, "turn">>].at = "idle" /\ Readable(c)
  /\ IF Migrates(c)
     THEN /\ job' = [job EXCEPT ![<<c, "turn">>] = [Idle EXCEPT !.at = "lock", !.kind = "open"]]
          /\ UNCHANGED <<open, known>>
     ELSE /\ open' = open \cup {c}
          /\ known' = [known EXCEPT ![c] = meta[Found(c)]]
          /\ UNCHANGED job
  /\ UNCHANGED <<keyed, pending, lock, disk, told, history>>

(* The process ends, at any point of what it was doing.                    *)
Crash(c) ==
  /\ c \in open \/ job[<<c, "turn">>].at # "idle"
  /\ open' = open \ {c}
  /\ pending' = [pending EXCEPT ![c] = <<>>] /\ known' = [known EXCEPT ![c] = <<>>]
  /\ owed' = [owed EXCEPT ![c] = {}]
  /\ job' = [w \in DOMAIN job |-> IF w[1] = c THEN Idle ELSE job[w]]
  /\ lock' = IF lock # None /\ lock[1] = c THEN None ELSE lock
  /\ forked' = (forked \/ \E w \in Writers : w[1] = c /\ TwoFormats(w))
  /\ UNCHANGED <<keyed, disk, told, saved, tangled, revived>>

(***************************************************************************)
(* Under the lock.                                                         *)
(***************************************************************************)
Acquires(w) == job[w].at = "lock" /\ lock = None /\ lock' = w

(* A variant: the copy's own archive is extended.                          *)
RebaseOnMemory(w) == IF job[w].kind = "commit" THEN job[w].base ELSE meta[Found(w[1])]

(* The archives of the metadata on disk.                                   *)
Rebase(w) == meta[Found(w[1])]

(* readMetadataExact with the lock held re-encrypts plain metadata.        *)
ReadFound(w) ==
  LET c == w[1] IN
  /\ Acquires(w) /\ Readable(c)
  /\ meta' = IF Migrates(c) THEN [meta EXCEPT !.enc = meta.plain] ELSE meta
  /\ job' = [job EXCEPT ![w].base = Rebase(w),
                        ![w].at = IF Migrates(c) THEN "migrate" ELSE "chunk"]
  /\ UNCHANGED <<keyed, open, pending, known, files, era, told, history>>

MigrateEnds(w) ==
  /\ job[w].at = "migrate"
  /\ meta' = [meta EXCEPT !.plain = None]
  /\ Goto(w, "chunk")
  /\ UNCHANGED <<keyed, open, pending, known, lock, files, era, told, history>>

(* No session: a commit builds on the copy's memory, unless it requires    *)
(* that there is one, and then it fails.                                   *)
ReadNothing(w) ==
  /\ Acquires(w) /\ ~Exists(w[1])
  /\ job[w].kind # "open"
  /\ revived' = (revived \/ ~Whole(job[w].base))
  /\ Goto(w, "chunk")
  /\ UNCHANGED <<keyed, open, pending, known, disk, told, saved, owed, tangled, forked>>

Opened(w) ==
  /\ job[w].at = "chunk" /\ job[w].kind = "open"
  /\ open' = open \cup {w[1]}
  /\ known' = [known EXCEPT ![w[1]] = job[w].base]
  /\ Leaves(w)
  /\ UNCHANGED <<keyed, pending, disk, told, history>>

(* A variant: a chunk that could not be written is named all the same.     *)
WriteChunksOrNot(w) ==
  LET c == w[1] IN
  /\ job[w].at = "chunk" /\ job[w].kind # "open"
  /\ LET a == Grown(job[w].base, job[w].captured, c \in keyed)
         grows == job[w].captured # <<>> IN
     /\ Len(Flat(a)) <= MaxArchived
     /\ files' \in {files, files \cup (IF grows THEN Range(a) ELSE {})}
     /\ job' = [job EXCEPT ![w].base = IF grows THEN a ELSE @, ![w].at = "meta"]
  /\ UNCHANGED <<keyed, open, pending, known, lock, meta, era, told, history>>

WriteChunks(w) ==
  LET c == w[1] IN
  /\ job[w].at = "chunk" /\ job[w].kind # "open"
  /\ IF job[w].captured = <<>>
     THEN Goto(w, "meta") /\ UNCHANGED files
     ELSE LET a == Grown(job[w].base, job[w].captured, c \in keyed) IN
          /\ TailReadable(job[w].base, c) /\ Len(Flat(a)) <= MaxArchived
          /\ files' = files \cup (Range(a) \ Range(job[w].base))
          /\ job' = [job EXCEPT ![w].base = a, ![w].at = "meta"]
  /\ UNCHANGED <<keyed, open, pending, known, lock, meta, era, told, history>>

WriteMetadata(w) ==
  /\ job[w].at = "meta"
  /\ meta' = [meta EXCEPT ![Preferred(w[1])] = job[w].base]
  /\ Goto(w, "drop")
  /\ UNCHANGED <<keyed, open, pending, known, lock, files, era, told, history>>

(* The file of the other format goes, if there is one.                     *)
DropOther(w) ==
  /\ job[w].at = "drop"
  /\ meta' = [meta EXCEPT ![Other(Preferred(w[1]))] = None]
  /\ Goto(w, "release")
  /\ UNCHANGED <<keyed, open, pending, known, lock, files, era, told, history>>

(* The operation of withFileMutationLock is over, and its lock given back. *)
Release(w) ==
  LET written == Range(job[w].captured) IN
  /\ job[w].at = "release"
  /\ saved' = saved \cup written
  /\ owed' = [c \in Copies |-> owed[c] \ written]
  /\ job' = [job EXCEPT ![w] = IF job[w].kind = "commit" THEN [@ EXCEPT !.at = "return"] ELSE Idle]
  /\ lock' = None
  /\ UNCHANGED <<keyed, open, pending, known, disk, told, tangled, forked, revived>>

(* An error at any step, or the lock is not to be had.  What is written    *)
(* stays.  Once metadata is renamed into place, the directory's sync, the  *)
(* removal of the other format and the release of the lock may still fail: *)
(* what the commit has archived then stays pending in the copy.  (A lock   *)
(* that could not be given back is one that nobody takes.)                 *)
Fails(w) ==
  /\ job[w].at \in {"lock", "migrate", "chunk", "meta", "drop", "release"}
  /\ job' = [job EXCEPT ![w] = Idle]
  /\ lock' = IF lock = w THEN None ELSE lock
  /\ tangled' = IF job[w].at \in {"drop", "release"}
                THEN tangled \cup Range(job[w].captured) ELSE tangled
  /\ forked' = (forked \/ TwoFormats(w))
  /\ UNCHANGED <<keyed, open, pending, known, disk, told, saved, owed, revived>>

(***************************************************************************)
(* deleteSession and the retention cleanup, in whatever process.           *)
(***************************************************************************)
EraseBegins ==
  /\ era < MaxErasures /\ lock = None
  /\ \E f \in Formats : meta[f] # None
  /\ lock' = Eraser
  /\ job' = [job EXCEPT ![Eraser].at = "plain", ![Eraser].kind = "erase"]
  /\ saved' = {}
  /\ UNCHANGED <<keyed, open, pending, known, disk, told, owed, tangled, forked, revived>>

EraseMetadata(f) ==
  /\ job[Eraser].at = f
  /\ meta' = [meta EXCEPT ![f] = None]
  /\ Goto(Eraser, IF f = "plain" THEN "enc" ELSE "files")
  /\ UNCHANGED <<keyed, open, pending, known, lock, files, era, told, history>>

EraseChunks ==
  /\ job[Eraser].at = "files"
  /\ files' = {} /\ era' = era + 1
  /\ Leaves(Eraser)
  /\ UNCHANGED <<keyed, open, pending, known, meta, told, history>>

(* It dies or meets an error, which is the same to the others.             *)
EraseStops ==
  /\ job[Eraser].at # "idle"
  /\ job' = [job EXCEPT ![Eraser] = Idle]
  /\ lock' = None
  /\ UNCHANGED <<keyed, open, pending, known, disk, told, history>>

Writer(w) ==
  \/ \E kind \in {"commit", "patch"} : Begin(w, kind)
  \/ ReadFound(w) \/ MigrateEnds(w) \/ ReadNothing(w) \/ Opened(w)
  \/ WriteChunks(w) \/ WriteMetadata(w) \/ DropOther(w) \/ Release(w) \/ Return(w) \/ Fails(w)

Next ==
  \/ \E c \in Copies : AddMessage(c) \/ Open(c) \/ Crash(c)
  \/ \E w \in Writers : Writer(w)
  \/ EraseBegins \/ EraseChunks \/ EraseStops
  \/ \E f \in Formats : EraseMetadata(f)

Spec == Init /\ [][Next]_vars

(***************************************************************************)
(* Properties.                                                             *)
(***************************************************************************)
(* Whatever step a writer is at, and wherever one has died or failed, the  *)
(* metadata on disk only names chunks that are there as it says.  The one  *)
(* exception is a session that is made anew, after its deletion, from the  *)
(* memory of a process that still had it open.                             *)
ArchiveIsWhole == ~revived => \A f \in Formats : meta[f] # None => Whole(meta[f])

(* What a reader finds: the newer of two formats while a writer is at them. *)
Current ==
  LET there == {f \in Formats : meta[f] # None}
      f == IF Cardinality(there) < 2 THEN CHOOSE g \in there : TRUE
           ELSE IF lock # None /\ lock # Eraser THEN Preferred(lock[1])
           ELSE IF keyed = {} THEN "plain" ELSE "enc"
  IN IF there = {} THEN <<>> ELSE Flat(meta[f])
Occurrences(m) == Cardinality({i \in DOMAIN Current : Current[i] = m})

(* A message that no commit has saved is still to be saved by its copy.    *)
UnsavedIsPending == \A c \in Copies : owed[c] \ tangled \subseteq Range(pending[c])

(* Retried, rebased and interrupted commits archive a message once: one    *)
(* whose commit has ended well is in the archive until the session is      *)
(* deleted, one that no commit has saved is pending in its copy, and none  *)
(* is there twice.  Excepted are the messages that two commits of one copy *)
(* could reach, of which a retry is one if the commit before it failed     *)
(* after its metadata was in place, and the sessions whose two formats     *)
(* were left to processes that prefer different ones.                      *)
ArchivedExactlyOnce ==
  ~forked =>
    /\ \A m \in saved : Occurrences(m) >= 1
    /\ \A m \in Messages \ tangled : Occurrences(m) <= 1
    /\ UnsavedIsPending

===============================================================================
