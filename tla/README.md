# Ant Code: a verification development

This directory specifies the concurrent core of Ant Code, the coding agent in
this repository, in TLA+. It is checked with TLC on small instances and, for
the results listed under *What is proved*, with TLAPS for every value of the
constants. Paths below are relative to the repository root.

1. [The system](#1-the-system)
2. [Plan](#2-plan)
3. [Modules and how they correspond to the code](#3-modules-and-how-they-correspond-to-the-code)
4. [Runs, bounds and fairness](#4-runs-bounds-and-fairness)
5. [Known counterexamples](#5-known-counterexamples)
6. [What is proved](#6-what-is-proved)
7. [Not modelled](#7-not-modelled)

## 1. The system

Ant Code is one Node.js process: a terminal interface or a local dashboard
server in front of an agent loop that calls a model, runs tools under a
permission engine, spawns subagents and background terminals, and writes its
sessions to disk. JavaScript runs one callback at a time, so *state can only
change hands at an `await`, a timer or a request handler*. What is hard is what
happens at those points: dozens of awaits in long handlers, several handlers
per session, several processes over the same files.

| component | source | state | operations | interacts with |
|---|---|---|---|---|
| turn engine | `src/dashboard/runtime/turn-queue.ts`, `approvals.ts`, `goal-runtime.ts`, `api-turn.ts`, `background.ts`, `lifecycle.ts` | per session: running, interrupting, status, current turn, controller, quarantined turn, queue, Goal, pending approvals, timers | start, queue, interrupt, guide, cancel, settle, Goal enable/pause/resume/disable, wake, dispose | agent loop (runTurn), session store, wake batches, maintenance gate, configuration |
| active sessions | `active-map.ts`, `session-records.ts` | map of live sessions, keyed mutation locks, a capacity lock | create, open, reclaim by idle time or capacity, rename, rerun, delete, clean up | turn engine, session store |
| idempotent requests | `turn-queue.ts` | request records with fingerprints and expiry | submit, join, expire | turn engine |
| server and browser | `server.ts`, `runtime/util.ts`, `api-lifecycle.ts`, `public/app-ui2.ts`, `app-ui3.ts` | event history with sequence numbers, subscriptions; in the tab: stream, cursor, messages shown, running mark, pending submission | submit, retry, emit, subscribe, replay, open, reconnect | turn engine, session store |
| durable files | `src/storage/durable-file.ts` | lock directories with owner records | acquire, reclaim, release, atomic write | every persistent component, other processes |
| session persistence | `src/core/session-persist.ts`, `src/storage/session-store.ts` | pending messages and archive of each copy, metadata in two formats, transcript chunks | commit, resume, migrate, delete | agent loop, durable files |
| agents and groups | `src/agents/*` | task and group records, heartbeats, background registry, wake batches | spawn, finish, cancel, recover after restart, wake the parent | tools, turn engine, durable files |
| background terminals | `src/agents/background-terminal-registry.ts` | child processes, records | start, poll, cancel, recover | tools, durable files |
| core agent loop | `src/core/session-turn.ts`, `tool-rounds.ts`, `inflight-compaction.ts` | transcript, rounds, evidence | model round, tool round, compaction, interruption | model gateway, tools, permissions |
| permissions | `src/permissions/*` | policy layers, approval keys | classify, decide | tools, approvals |
| configuration | `src/config-v2/*`, `src/dashboard/runtime/model-config.ts` | versioned files under a lock, model selection of sessions | migrate, mutate, activate, resolve | turn engine (invalidation) |
| schedules | `src/schedules`, `src/dashboard/runtime/schedules.ts` | schedule records, one runner timer | due, submit, remember outcome | turn engine |
| source update | `src/update`, `source-update-maintenance.ts` | gate, lock, journal, permit, acknowledgement, the clone and its dependencies | check, start, hand off, apply, restart, acknowledge | turn engine (gate), server |
| mcp runtime | `src/mcp/runtime.ts` | client processes, pending calls | connect, call, time out, restart | tools |
| the rest | config, context, credentials, hooks, memory, skills, commands, cli, diagnostics, model-gateway, net | | formatting, I/O, pure rules | |

What makes each correct, in one line each:

* **turn engine**: at most one run per session; a session that says it is
  running has a turn that will settle it; accepted prompts are begun or
  withdrawn; an interrupt is bounded by a timer, a quarantine by its run; full
  access only while something vouches for it; a stopped Goal and a disposed
  session leave nothing behind; maintenance admits nothing; background results
  are delivered.
* **active sessions**: never more than the capacity; nothing with work is
  evicted; every request for a session gets its turn at the locks.
* **idempotent requests**: one execution per request id, the same answer to
  every retry within the record's life, no answer to another request.
* **server and browser**: what the session says is shown once and whole,
  however the stream drops; the tab knows whether a turn runs.
* **durable files**: mutual exclusion across processes also when an owner dies;
  a reader sees a whole write.
* **session persistence**: the metadata names a whole archive at every step; a
  message is archived exactly once.
* **background terminals**: only the task's own process is signalled; a record
  ends when its process has.
* **agents and groups**: a group finishes once, after its last member; its
  completion wakes its parent; a restart leaves no task running for ever.
* **configuration**: writers do not lose each other's updates; a session never
  runs with a selection that no longer resolves.
* **source update**: the switch happens with no work running; a crash at any
  step is recovered from the journal or stops for a human.

The hard behaviours are listed one by one, with the line where each bites, as
`hazards` in `PROJECT.json`.

## 2. Plan

In the order of importance; what is left is what each entry names.

1. **QueueItems, TurnQueue** (done): the turn engine of one session.
2. **ActiveSessions** (done, for the requests that open, create and delete):
   the map of live sessions, its eviction, the two kinds of keyed lock and the
   retention cleanup. Left: the other holders of a session's lock.
3. **FileLock** and **AtomicStore** (done): the directory lock, shown to
   implement an atomic store. Left: several locks at once, appends.
4. **TaskGroups** (done): tasks, groups and reports from launch to delivery.
5. **SessionArchive** (done): commits of a session's transcript.
6. **Dashboard** (done): submissions, the event stream and the browser tab.
7. **Terminals** (done): the registry of background terminals.
8. **SourceUpdate** (done): manager, worker and restart.

Proved so far: see section 6, which has a theorem for every safety invariant of
the runs. Theorems still worth proving: more of what components left in part
would add to their invariants.

## 3. Modules and how they correspond to the code

### QueueItems

No state: the records `Item` (DashboardQueueItem) and `Goal` (session.goal), the
four permission functions of `turn-queue.ts` (`Elevates`, `Recorded`,
`Elevated`, `Revoked`), the queue discipline (`DropContinues`, `HasCapacity`,
`Drainable`, `HeadReady`) and what a finished turn does to a Goal (`AfterTurn`,
`OutOfBudget`, `Continuing`, `Exhausted`). Texts, attachments and titles are
left out. A completion claim (`evaluateGoalCompletion`) is the Boolean
`claimed`. `asked` is a history field: the mode the client itself vouched for.

### TurnQueue

One session. An action is one stretch of code between two awaits. A turn's
coroutine is at `turn[t].pc`:

| pc | suspended in | left by |
|---|---|---|
| `start` | `runTurn` before its first model round | `FirstRound`, `RunEnds` |
| `run` | model and tool rounds | `NextRound`, `RunEnds` |
| `record` | `rememberScheduleRun` | `RecordEnds` |
| `draft` | `persistVisibleInterruptedDraft` | `DraftEnds` |
| `prepare` | `prepareDashboardSessionForQueuedTurn` | `PrepareEnds` |
| `save` | `persistGoalSnapshot` | `SaveEnds` |

| code | actions and operators |
|---|---|
| `startDashboardTurn` | `StartIdle`, `StartQueued`, `StartIdleRefused` |
| `beginPrompt` | `CanBegin`, `Begin` |
| `requestTurnInterrupt`, force-settle timer | `RequestInterrupt`, `ForceSettle` |
| `interruptTurn`, `cancelQueuedTurn`, `guideTurn` | `InterruptTurn`, `CancelQueuedTurn`, `GuideTurn` |
| `askApproval`, `askQuestion` and their answers | `Ask`, `Answer` |
| `runTurnInBackground` | `RunEnds`, `RecordEnds`, `Settle`, `DraftEnds`, `PrepareEnds`, `Finish`, `SaveEnds` |
| `stopDashboardGoal` | `StopRead`, `StopApply`, `StopReturns` |
| `applyDashboardGoal` enable, resume | `EnableStage`, `ResumeStage`, `GoalCommit`, `GoalCommitFails`, `EnableStarts`, `ResumeQueues`, `ResumePrepared` |
| finalizer of a group, `queueBackgroundWakePrompt` | `GroupNotes`, `GroupWakes` |
| wake batch, `startDashboardWakeContinuation` | `IdleTimerFires`, `WakePrepared`, `Inject` |
| `applyDashboardSessionV2MutationView` | `InvalidateModel`, `RepairModel` |
| source-update gate | `ToggleGate` |
| `runtimeShutdown`, `disposeTurnState` | `CancelWork`, `Dispose` |

`control` is the holder of the session's mutation lock; requests that need the
lock wait for `LockFree`, and the synchronous controls are refused while it is
held. `accepted`, `warrant` and `reports` are history variables that no guard
reads: the prompts a client was told are queued, what vouches for full access,
and how often a report was injected. `TurnState`, `FreeTurns`: turn ids are
reused once their turn is over and no field names them, so two ids suffice for
one running turn and one left behind.

Abstractions: a start request's awaits before its admission change nothing
that the model keeps, and its lock is free for the others until it acts, so
they are not steps; the outcome of a run is any of those `dashboardTurnStatus`
can give in the run's state; a disk write succeeds or fails without content.

### MCTurnQueue

Instantiates TurnQueue for TLC. `Ops` chooses what the environment does; each
configuration combines the operations whose interplay its properties are about.

### ActiveSessions

All sessions of one dashboard. A process is a request or the idle sweep
(`Sweeper`). `lock[s]` and `capacity` are the promise chains of
`withKeyedMutation`: sequences whose head holds the lock. A process is at `pc[p]`:

| pc | suspended in | left by |
|---|---|---|
| `lock` | the session's lock | `OpenLive`, `OpenStored`, `NotFound`, `DeleteEnters` |
| `capacity` | the capacity lock | `TakeRoom`, `MakeRoom` |
| `scan` | between candidates of an eviction | `Observe`, `RoomMade`, `NoRoom`, `SweepEnds` |
| `evict` | a candidate's lock, then the read of its metadata | `Confirm`, `Spare` |
| `check` | the listing of its groups | `Evict`, `SpareLate` |
| `hydrate` | `createSession` | `Hydrate`, `HydrateFails` |
| `begin` | the caller's awaits before it uses the state | `Proceed` |
| `drain`, `erase` | a deletion's activity check, its removal of files | `DeleteRefused`, `DeleteProceeds`, `DeleteEnds` |

| code | actions and operators |
|---|---|
| `startDashboardTurn`, `requireExactSessionId`, `ensureTurnState` | `Arrive`, `ArriveNew`, and the actions of `Opening` |
| `reclaimActiveSessions` | `MakeRoom` or `SweepStarts`, and the actions of `Evicting` |
| `ActiveSessionMap.get` (access version) | `Touch`, `Look`; `scan[p].stale` |
| `deleteDashboardSession` | the actions of `Deleting` |
| `beginPrompt`, the end of a turn | `Begin`, `TurnEnds` |
| `scheduleSessionPersistenceCheck` | `PersistenceChecked` |
| background agents, `queueBackgroundWakePrompt`, wake continuation | `TaskStarts`, `TaskEnds`, `WakeBegins` |
| `cleanupExpiredSessions` | `CleanupFinds`, `CleanupRemoves` |

Abstractions. `busy` stands for every reason `basicReclaimableState` gives
except listeners and age; `TurnQueue` has the detail of it. Which sessions have expired and in which order candidates
come are left open, so no property rests on times of access. `owed` is a
finished group whose wake-up is still to come; the eviction does not see it
when the group listing fails (it then shows no group), and sees it otherwise
(`Spare`). A deletion with `cancelActive` is the one that finds nothing left to
wait for. The other requests that hold a session's lock, and listeners, are
left out: a listener or another holder only makes an eviction or a request wait
or refuse. A request is one request at a time and may return.

### MCActiveSessions

Instantiates ActiveSessions for TLC, with symmetry of sessions and of requests
for the runs without liveness.

### FileLock and AtomicStore

Processes of one machine over one lock directory (`withFileMutationLock`). A
process is at `pc[p]`; each action is one call to the file system: `mkdir`
(`MakeDirectory`, `Exists`), opening and writing the owner record (`OpenOwner`,
`WriteOwner`), `stat` and reading the record of another's lock (`Stat`,
`Inspect`), moving an abandoned one away (`Reclaim`), waiting (`Retry`), the
operation's read and its atomic write (`Read`, `Commit`), and the release in two
steps. `Crash`, the failures and `Age` (a lock older than `staleMs`) happen at
any step. `usurped` is a history variable: a lock was moved away under a live
owner. `AtomicStore` is the abstract specification: one step reads and
replaces the value, until the promise is broken; `Implements` instantiates it
with `broken <- usurped`.

### TaskGroups

The background agents of one session and the groups they report to.

| code | actions |
|---|---|
| `startBackgroundAgentTool` | `Launch`, `Register`, `StoreFails` |
| `runSubagent` | `Create`, `Beat`, `BeatWritten`, `Finish`, `Settle` |
| `finalizeBackgroundAgentTool` | `Persist`, `ReadTasks`, `UpdateGroup`, `Note`, `MarkQueued` |
| `queueBackgroundWakePrompt`, the idle wake | `Tell`, `Fire` |
| a turn of the session | `Begin`, `Inject`, `Consume`, `End`, `Interrupt` |
| `runtimeCancelBackgroundSubagent` | `Recycle`, `Abort`, `MarkCancelled`, `WriteGroup` |
| `cancelSessionBackgroundWork` | `CancelSession`, `Abort`, `ListTasks`, `MarkCancelled`, `ListGroups`, `WriteGroup`, `Cancelled` |
| `runAgentsCommand` | `CancelGroup`, `WakeByHand` |

`pc[t]` is where a task's agent is between two awaits. The record files are
updated under the file lock, which `Unlocked` stands for; the heartbeat holds
it between its read and its write. What the session's turn engine adds to `Tell`
(disposal, quarantine, maintenance) is in TurnQueue, which sees a group as
`GroupNotes` and `GroupWakes`.

### Dashboard

One session as its server keeps it (`server`: sequence number, retained events,
turns, queue) and as a browser tab shows it (`tab`: stream, cursor, messages,
running mark). Submissions are calls that may be late or doubled (`Send`,
`GiveUp`, `Resend`; `Accept`, `Admit`, `Reply`, `Expire`; `Receive`); the stream
is a FIFO that may drop (`Subscribe`, `Deliver`, `Drop`); a turn emits
its messages (`Begun`, `Activity`, `Answer`, `Finish`), and `Keep` trims the
history. An event is its sequence number, kind and turn. `said`, `begun`,
`forgotten`, `happened` and `flaws` are history variables; a flaw names an
exception that the code leaves and a property admits.

Opening the session takes four steps and may begin at any time, also while a
submission is under way: `Open` forgets the request id of the draft
(`renewed`, app-ui2.ts:638), `OpenRead` takes the transcript, `OpenReply`, after the
await of the background snapshot, the running state and the cursor, and `OpenShow`
starts the tab over from these. A session that runs, or has background work, gets
a stream from that cursor; any other has none until a result comes. With a Goal
on, the end of a turn is two steps: `Finish` sets `running` to FALSE, and
`GoalSaved` sends the `run_state` after the await of `persistGoalSnapshot`, which
also clears the id of a turn that began meanwhile. Such a turn is `disowned`: it runs
on, announces nothing and does not end for the session (`Unheard`).

What the page gets wrong then is not hidden but named, at the property that
excepts it:

| property | exception | how it comes about |
|---|---|---|
| `StartedOnce` | `forgotten` | the server forgot the request: its record expired or the server restarted |
| | `renewed` | the session was opened while the submission was under way, and the draft went out again under a new id |
| `ShownOnce` | `again` | a tab without a stream gets the late result of a submission and connects from the result's cursor, behind messages that the opened transcript already shows; each is shown a second time, once |
| `Complete` | `skipped`, opened | a turn began, ended or was disowned between the reads of the transcript and of the cursor, or the turn was beheaded (below) |
| | `skipped`, jumped | a result's cursor goes past events the tab has not got, and its stream is not open |
| | `skipped`, lost | the stream drops with a notice of a gap on the wire, or with events that the cursor is past already |
| | `skipped`, outlived | the cursor is from before a restart of the server, whose numbers begin anew |
| | `noticed` | the tab was told that something is missing |
| | kind `unsent` | the answer of a disowned turn is announced to nobody (`Due`) |
| `InSync` | `overtaken` | a result says that its turn runs after the turn has ended, until the next event that tells |
| | `Announced` | the `run_state` of the last turn is still held back, or has disowned the turn that runs |

One of these exceptions the proof of `Complete` brought to light. When a turn has
more events than the history retains (500), the history trims the turn's own head,
the user's message. `activeReplayCursor` then starts the replay of a session
that is opened at the first event of the turn that is left, behind the event
before it. If that one is an event of no turn, such as a "queued", the cursor is
its number, the subscription finds no gap, and the page shows the turn without the
message that began it until the session is opened again. With no such event the
cursor is 0 and the gap shows. `Beheaded` is this case.

### SourceUpdate

Dashboards over one clone. Each has a process, possibly a restarted one, a
manager (`Check`, `StartJob`, `AssertIdle`, `Acquire`, `WriteJob`, `Spawn`,
`Prepared`, `EnterGate`, `Shutdown`, `HandOff`, `LaunchFails`) and a worker that
goes through the journal's steps (`Record`, `Look`, `ClosePeer`, `Recheck`,
`BackUp`, `Install`, `FastForward`, `Restart`, `ReleaseLock`, `Fail`). A change of
the disk and the journal's record of it are two steps. `Acknowledge` is the
restarted process, `Snapshot` what a Dashboard makes of the files of a job it
follows.

### Terminals

One task id in one workspace, which several runtimes know. `copy` holds the
record at each place it is kept: the file, each runtime's memory, its cache of
scanned files, and the object a cancellation holds after it was replaced. `life`
and `holder` are the system's: each started process and who has which pid.
`List` refreshes and reconciles; `Register`, `Launch`, `LaunchGivenUp`,
`SpawnFails`, `Captured`, `Closed` are a start and its callbacks; `Cancel` and the
actions of `Cancelling` the steps of a cancellation.

A look at a process has several outcomes (`Looks`). With the handle of its child, a
runtime knows. Without it, a pid that nobody has is dead; otherwise the look may say
`alive`, `mismatch` or, when the identity is on record but could not be read or
is never read synchronously (macOS), `unknown`. On Windows the look goes to a
list of processes up to half a second old: `recent` holds the pids whose present
process is not in the lists in use, of which it may say anything. A cancellation
refuses to signal what it could not identify (`Refuses`, `HoldsFire`), but once it
has signalled goes on to SIGKILL without an identity (`StillThere` to `blind`).
`Strikes` starts a taskkill beside the signal, which runs at any later time
(`Taskkill`). `LaunchGivenUp` is the Windows start that is aborted, times out or
finds no record of its own: it asks for the kill and records the end at once.
Node announces a start before it runs a timer, so no start is announced after its
timeout.

| property | exception | how it comes about |
|---|---|---|
| `EndedIsGone` | `unseen` | Windows: the process was looked up in a list older than it, and taken for dead |
| | `abandoned` | Windows: its launch was given up, and the end recorded before the process had ended |
| | `late` (cancelled only) | the process was started after its task had been cancelled |
| `StrangersAreSpared` | `Mistaken` | a record has the stranger's identity: its runtime asked for it after the pid had changed hands |
| | `KilledUnread` | the escalation went on without an identity |
| | `KilledLate` | a taskkill ran after the process had ended |
| `ListingsNotice` | `Certain` | the look could not tell who has the pid |

### SessionArchive

Copies of one session in several processes, each with a turn and a control that
commit. A writer waits for the session's lock (`Acquires`), reads the metadata
(`ReadFound`, `ReadNothing`), migrates it to the copy's format (`MigrateEnds`), rebases
(`Rebase`), writes chunks, metadata and removes the other format (`WriteChunks`,
`WriteMetadata`, `DropOther`), gives the lock back (`Release`) and tells its copy
(`Return`); `Fails` and `Crash` may end it at each of these. Once the metadata is
renamed into place, the directory's sync (durable-file.ts:47), the removal of the
other format and the release of the lock (123-125, 225-241) may still throw: the
commit then fails although its messages are archived, they stay pending, and a
retry archives them again (`tangled`). The lock excludes, as `FileLock` does
until a lock is usurped; what usurped locks do to an archive is not followed. The
eraser deletes metadata and chunks. A chunk is its text, its format and the
number of deletions before it, which is all of its random name that matters.

## 4. Runs, bounds and fairness

| run | instance | shows |
|---|---|---|
| `steer` | TurnQueue: interrupt, cancel, guide, schedule, ask, config; 3 prompts | OneLiveRun, NoPromptLost, EndIsUnderWay |
| `wake` | TurnQueue: wake (two groups), interrupt, cancel, dispose | QueuedPromptsMove, QuarantineEnds, HandoffsAreConsumed |
| `goal` | TurnQueue: goal, dispose, gate, interrupt; `SlowSettle` | TypeOK, FullAccessIsWarranted, StoppedGoalLeavesNothing, DisposedIsQuiet, GateBlocksStarts |
| `evict` | ActiveSessions: open, create, delete, look, background, cleanup | TypeOK, CapacityHolds, FoundIsLive, EvictionSparesWork |
| `open` | ActiveSessions: open, create, delete, look | EveryoneReturns |
| `reopen` | the same | violates PersistedSessionsRemainAvailable |
| `file_lock` | 3 processes, one write each, all faults | TypeOK, ExclusiveUnlessUsurped, Implements |
| `groups` | 2 tasks in one group, 2 policies, one disturbance | TypeOK, RecycledAreStopped, ConsumedIsDelivered, RecordsOnlyAdvance, LastFinisherWakes |
| `dashboard` | 2 prompts, 3 retained events, 2 disturbances | TypeOK, StartedOnce, ShownOnce, Complete, InSync |
| `update` | 2 Dashboards, 2 happenings | TypeOK, JournalCoversDisk, HalfAppliedIsLocked, SucceedsWhole |
| `terminals` | 2 runtimes, one pid, two starts | TypeOK, EndedIsGone, StrangersAreSpared, ListingsNotice |
| `sessions` | 2 copies, 3 writers, 2 messages, one deletion | TypeOK, ArchiveIsWhole, ArchivedExactlyOnce |

Bounds, all named constants.

* TurnQueue: `Turns` two ids (a third live run would need a third; the proof of
  `OneLiveRun` covers all sizes); `Prompts` one to three; `MaxQueue` 1 or 2 (20 in
  the code: the limit is reached); `MaxContinues` 1 (12: the budget is reached on
  the first continuation); `MaxContinuations` 1 continuations a resume may find
  (the code has no bound); `WakingCount` two suspended wake continuations.
* ActiveSessions: two sessions, two requests, the sweep and `Max` 1 (50 by
  default): the map is full with one session, so an opening reclaims, a second
  reclaimer waits, and a sweep, a reclaimer and an opener can queue for the same
  session, which is all the lock order has to offer; the theorems hold for
  every size.
* FileLock: three processes, since the reclaim that goes wrong takes one that
  inspects, one whose lock is moved and one that gets in. `MaxWrites` 1 each.
* TaskGroups: two tasks, one group, `MaxHappenings` 1 of the listed disturbances
  in any place, `MaxDeliveries` 1 (deliveries are counted no further). An agent
  joins with "any" and a wake-up or with "all" and none, so that a later member
  strengthens both. Two members are what a group needs to have a last one.
* Dashboard: `Retain` 3 events (500 in the code), so that a turn trims its own
  head and the next one trims it; each disturbance at most once and
  `MaxHappenings` 2 of them together. CONSTRAINT `TwoRequests`: two requests in
  all, so that a prompt under a second id takes the place of the other, and two
  of disturbances, progress events and run_states that are held back. While the
  session is being opened the tab gets no events (`Quiet`): the view they would
  change is about to be replaced. More of each was checked once (one held-back
  run_state beside two disturbances; `Retain` 2). The theorems hold for every
  number of retained events, prompts and disturbances, without `Quiet`.
* SourceUpdate: two Dashboards; `MaxHappenings` 2 kills or commits.
* Terminals: `Starts` 2 processes under the id, one pid, which the two and a
  stranger have by turns. CONSTRAINT `Apart`: after the last start one runtime
  has no record in its memory; one runtime with two
  starts and two pids was checked once without it.
  Stamps are ranks: only their order is compared. A pid is not given away while
  a look at it is under way, and a stranger keeps its pid. The platform is
  chosen in `Init`. The runtimes are symmetric.
* SessionArchive: `ChunkSize` 2, two messages of which `MaxArchived` 3 copies
  may be stored, one deletion. `Policies`: all copies encrypt, or
  all but the first one, whose plain metadata the others migrate. The VIEW leaves
  out chunks that nothing names,
  which no reader finds; the CONSTRAINT `Followed` stops where two formats are
  left to copies that prefer different ones (`forked`) or where every message is
  excepted (`tangled`). The theorems follow both.

Where a run does not check deadlock, the system may really stop: a disposed
session whose groups are done, requests in the lock cycle of `reopen`, processes
that have done their writes or crashed, agents and prompts that are used up, a
clone that is up to date.

The combinations matter: some properties hold in one combination of operations
and not in another, and section 5 lists where they do not.

Fairness. TurnQueue's `Fairness` is weak fairness of the engine's own steps:
each turn's coroutine, the Goal control that holds the lock, a group's wake-up
after its note, the two timers and the wake continuation: promises
settle and timers fire. It includes the end of a run: model calls and tools
have time limits and react to the abort signal; a run that asks a user
is not fair until it is answered, and the liveness run
does not let it ask. Clients, users, background groups and maintenance owe
nothing. `HandoffsAreConsumed` admits a user who interrupts every turn before its
first model call, and `QueuedPromptsMove` a prompt that the end of a quarantined turn
leaves to the client: of a turn that was not quarantined it says that the queue
moves, whatever interrupted the turn. `Fairness` of ActiveSessions is weak fairness of each request's own
steps and of the sweep's; nothing is assumed of who sends requests, of turns,
background work and the cleanup. `EveryoneReturns` admits the lock cycle and says
that it is the only way in which the locks starve anyone. `Fairness` of TaskGroups
is weak fairness of an agent's steps after its work, of the turn's injections
and of the wake timer; the user's controls and the heartbeat owe nothing. The
runs with liveness properties use no symmetry.

`SlowSettle` is TRUE in `goal` and FALSE elsewhere: there settling (a draft write
and a configuration reload) is assumed faster than the force-settle delay (5 s by
default, 50 ms at least) of an interrupt that arrives during it.

## 5. Known counterexamples

`reopen` is kept as a run: a reclaimer holds the capacity and waits for a
session's lock whose holder waits for the capacity; both requests, and every later
one that needs the capacity, stay unanswered, although "persisted sessions
remain available" (docs/deployment/local-installation.md:215).

TLC finds the following with the instance named; each property is in
its module with the statement of the repository it takes up.

| property | instance | what happens | the repository says |
|---|---|---|---|
| `FullAccessIsWarranted` (TurnQueue) | `Ops` goal, guide | guidance that names no mode, sent after the Goal was disabled and before its turn ended, takes that turn's full access (api-turn.ts:509) | "Only active Goal work may supply unattended elevation" (turn-queue.ts:433) |
| the same | `Ops` goal, wake | a wake continuation takes the permission mode of the last turn although its Goal was stopped (background.ts:225) | "Only active Goal work may supply unattended elevation" (turn-queue.ts:433) |
| `EndedGoalStaysEnded` (TurnQueue) | `Ops` goal | a later turn's completion sets an ended Goal active again (goal-runtime.ts:605) | "continues finished turns until the goal is done, paused, failed" (CHANGELOG.md:750) |
| `ReportedOnce` (TurnQueue) | `Ops` wake | a report noted, injected and noted again after two awaits (tools/runtime.ts:1528) | handed back once (docs/releases/2.0.30-subagent-handoff-batch_zh.md:5) |
| `EvictionKeepsWakes` (ActiveSessions) | that of `evict` | a group listing that fails shows no group, and the session that its report should wake is evicted (active-map.ts:122) | "otherwise non-reclaimable work is not evicted" (local-installation.md:214) |
| `CleanupSparesActive` (ActiveSessions) | that of `evict` | the cleanup removes the files of a session opened after its last look (session-store.ts:166) | "live-excludes sessions that become active during the scan" (tests/unit/storage.test.ts:78) |
| `MutualExclusion` (FileLock) | `Faults` crash | the lock moved away is not the one that was inspected (durable-file.ts:206) | mutations are serialized (durable-file.ts:108) |
| `AllMeansAll` (TaskGroups) | that of `groups`, `MaxHappenings` 0 | a member without a record yet is not counted, and the group reports without it (tools/runtime.ts:1581) | waitFor all (tools/definitions.ts:630) |
| `FailedLeavesService` (SourceUpdate) | that of `update`, `MaxHappenings` 0 | a worker gives up waiting and fails while the permit is on its way (manager.ts:200) | "Preparation failure leaves the old HTTP service ... without a mutation permit" (src/update/README.md:61) |
| `CrashesAreReconciled` (Terminals) | one runtime, `FairSpec` | a crash during a cancellation leaves the record cancelling for good (background-terminal-registry.ts:365) | "keeping list and cancellation results accurate after crashes" (CHANGELOG.md:889) |
| `OldInstancesStayOut` (Terminals) | one runtime, `Starts` 2 | the end of a cancellation brings back the record of the old instance (background-terminal-registry.ts:1062) | "cannot overwrite a reused task id" (tests/unit/background-terminal-registry-safety.test.ts:123) |

Properties that hold with an exception name it, and each exception is something
the code does:

* `ExclusiveUnlessUsurped`: `usurped`, set by the one step that moves away the
  lock of a live owner.
* The properties of Dashboard and Terminals: the tables of section 3.
* `ArchiveIsWhole`: `revived`, set where a commit finds no session and builds on
  a memory whose chunks are gone.
* `ArchivedExactlyOnce`: `tangled`, the messages that two commits of one copy could
  reach. Three steps set it: `AddMessage` and `Begin` while another commit of the
  copy is under way, and `Fails` once the metadata is in place. `forked`: set by
  `Crash` and `Fails` where two formats are left to copies that prefer
  different ones.
* `QueuedPromptsMove`: the turn that leaves the prompt was quarantined.

A lock that cannot be given back is one that nobody takes until it is stale;
SessionArchive frees it, which allows more. SourceUpdate's `Followed` takes up the latest job
only while its manager is idle, as the code does, and does not go on with that
job afterwards, as the code does; no property depends on it. Outside the instances of
section 4, `NoPromptLost` fails when a wake-up starts a turn while a resumed Goal
reloads its configuration or when an interrupt outlasts `SlowSettle`, and
`EndIsUnderWay` fails once a Goal is on, since its snapshot forgets the id of a
turn begun meanwhile. Maintenance held while a resume reloads, and guidance in a
session whose Goal was stopped, are two more such combinations, found by the
proofs of section 6, which state exactly what they exclude.

## 6. What is proved

A component's theorems are in a module of their own, `<Module>Proofs`, which
begins with the inductive invariant as a conjunction of named parts. Every
invariant below was checked by TLC on the instance of its run before it was
proved. Most modules have a lemma per action, or per group of actions that
disturb the same conjuncts; the step lemma splits `Next` along them, and the
theorems combine it with the initial states.

`TurnQueueProofs` begins with what the rules of QueueItems return (types,
lengths, kinds and ids preserved, `DropContinues` leaves no continuation and loses
nothing else). `DropContinues` is a recursive function, so `KeptExists` first
proves that it is one, by a well-founded induction stated for a set
(`NatSetInduction`), since the library's induction rule takes an operator.

It proves, for every value of the constants allowed by `BoundsAssumption` and
`TurnAssumption` (the null values are not identities, the requested modes are
modes, the bounds are natural numbers):

| theorem | states | inductive invariant |
|---|---|---|
| `TypeCorrect` | `Spec => []TypeOK` | `TypeInv`: TypeOK and `Announced`, that a turn is only settled with an outcome of a run |
| `OneTurnAtATime` | `Spec => []OneLiveRun` | `OneLiveInv`: the live turn is the current one and `running` holds while a turn is live, so no start finds the session idle |
| `DisposalIsFinal` | `Spec => []DisposedIsQuiet` | itself, given `TypeInv`: every start, queueing and timer checks `disposed` after its last await |
| `MaintenanceStartsNothing` | `Spec => GateBlocksStarts` | none; every start goes through `CanBegin` or `StartIdle` |
| `StopIsComplete` | `Spec => []StoppedGoalLeavesNothing` | `StopInv`: also, a staged Goal is on, and once published the live Goal is on until its control returns, so a resume cannot queue onto a stopped Goal |

Its last part proves what the engine promises under a condition on its
environment, for any numbers of turns, prompts and groups. The conditions are
part of the statements; without them the properties do not hold (section 5).

| theorem | condition | states | inductive invariant |
|---|---|---|---|
| `EndsAreUnderWay` | no Goal operations; settling is not outlasted by the timer | `[]EndIsUnderWay` | `Attended`, `OneLiveInv` and `GoalFree`: a session without a Goal never saves a snapshot, so nothing forgets the id of a turn begun meanwhile |
| `FullAccessIsVouchedFor` | `GoalStandsAlone`: a session with a Goal is neither guided nor woken | `[]FullAccessIsWarranted` | `WarrantInv`: also, every queued item is vouched for (`AllVouched`): its client asked for full access, it is a schedule's or the Goal's own, it waits for a confirmation, or it holds the access of a Goal that is still on and remembers the mode to give back |
| `PromptsAreKept` | `ResumesAlone`: Goal operations are not combined with wake-ups or maintenance; settling is not outlasted by the timer | `[]NoPromptLost` | `PromptInv`, with `SettlesFreely` (a settling turn is not quarantined), `Armed` (an armed timer has a turn), `ResumesFreely` (while a resumed Goal reloads, no other turn begins) and `DisposedIsQuiet` |

A settling turn and a resume take the head of the queue before `beginPrompt`
may still refuse it. `PromptsAreKept` is that no refusal is left by then:
`FinishKeepsPrompts` and `ResumeTakesKeepsPrompts` go through the conjuncts of
`CanBegin`, and the only item that can be taken and not begun is a continuation
of the host, which no client waits for. The proofs name conditions that the runs
had not: guidance in a session with a Goal inherits the running turn's mode as a
wake-up does, and maintenance that begins while a resume reloads makes
`beginPrompt` refuse what was taken.

`ActiveSessionsProofs` proves, for every value of the constants allowed by
`NamesDiffer`, `MaxAssumption` and `FiniteSessions` (any finite set of sessions,
any set of requests, any capacity):

| theorem | states |
|---|---|
| `Invariance` | the inductive invariant below |
| `TypeCorrect` | `Spec => []TypeOK` |
| `CapacityIsKept` | `Spec => []CapacityHolds` |
| `FoundStaysLive` | `Spec => []FoundIsLive` |
| `WorkIsSpared` | `Spec => EvictionSparesWork` |

`FoundIsLive` is not inductive: that a request's session stays in the map
follows only from who holds which lock. The invariant `Inv` adds

* `LockInv`: TypeOK, and `Discipline`: whoever is past a lock holds it, a
  candidate's lock while it is examined, the session's lock once past `lock`, the
  capacity from `scan` to `hydrate`;
* `Absent`: a session that is being loaded is not in the map;
* `NewIsFresh`: nobody but its creator reaches the session it made.

Two processes cannot both be the head of a chain, so no eviction examines a
session that a request has in hand, and a created session, which has no holder,
is nobody's candidate. Each action has a lemma that it obeys the locks (`Obeys`)
and moves only its own process (`Moves`); `StepObeys` collects them, and
`AbsentKept`, `FreshKept`, `FoundKept` and `CapacityKept` use it per conjunct.
The count of the capacity grows in `TakeRoom` and `RoomMade` only, which hold
the capacity, so at most one process is loading.

`FileLockProofs` proves, for any set of processes, any faults and any number of
writes:

| theorem | states | inductive invariant |
|---|---|---|
| `TypeCorrect` | `Spec => []TypeOK` | `Inv` |
| `Exclusive` | `Spec => []ExclusiveUnlessUsurped` | `Inv`: until a lock is usurped, who is past making the directory owns the lock that is there |
| `NothingLost` | `Spec => []NoLostUpdate` | `Inv`: also, the value read by a process at work is the current one |
| `Refinement` | `Spec => Implements` | `Inv`; `CommitIsMutation` maps a commit to a mutation, every other step to a break or a stutter |
| `FaultlessIsExclusive` | `Faults = {}` implies `Spec => []MutualExclusion` | `Quiet`: without faults nobody finds a lock abandoned |

`TaskGroupsProofs` proves, for any tasks, groups and policies and any number of
disturbances and deliveries:

| theorem | states |
|---|---|
| `Invariance` | the inductive invariant below |
| `TypeCorrect` | `Spec => []TypeOK` |
| `RecyclingStops` | `Spec => []RecycledAreStopped` |
| `ConsumptionIsDelivery` | `Spec => []ConsumedIsDelivered` |
| `RecordsAdvance` | `Spec => RecordsOnlyAdvance` |

The three properties meet in the records, which several writers update from
what they read earlier. `Recorded`: a heartbeat that holds the file lock writes
back what the record still says, since every other writer waits for it.
`Recycling`: what a recycling is about to mark is on record, and its agent is
aborted before it is marked, so the agent cannot write a success over the mark.
`Grouped`: members belong to the group, and whatever is consumed was injected
before. `RecordsOnlyAdvance` needs `Recorded` for the heartbeat, the writer that could
take a record out of its end.

`SourceUpdateProofs` proves, for any set of Dashboards and any number of kills
and commits:

| theorem | states |
|---|---|
| `Invariance` | the inductive invariant below |
| `TypeCorrect` | `Spec => []TypeOK` |
| `JournalsCoverDisk` | `Spec => []JournalCoversDisk` |
| `HalfWayIsLocked` | `Spec => []HalfAppliedIsLocked` |
| `SuccessIsWhole` | `Spec => []SucceedsWhole` |

`Done(d, step)` says that a worker has passed a step or has acted on the one it
is at: the journal's record and the change of the disk are two steps, and the
disk follows the second. `Ordered` ties the manager's place to the journal, the
worker and the lock; `Awaited` the worker's crossing to the permit and the exit
of the process that gave it; `Keeps` says that the lock stays the job's from
there on, unless all is done; `Tells` and `Told` say what the journals mean for the
clone, in both directions. At most one job is past `awaitingExit` without being
done, because two would hold the same lock, and an update that succeeded leaves
the clone new, which no later plan applies to: `SucceedsWhole` rests on all of
these. The invariant had to say that a manager that is ready is at no place of
a start, or a second start could meet the journal of the first.

`SessionArchiveProofs` proves, for any copies and policies, chunk size and
numbers of messages, failures, crashes and deletions:

| theorem | states |
|---|---|
| `Invariance` | the inductive invariant below |
| `TypeCorrect` | `Spec => []TypeOK` |
| `ArchiveStaysWhole` | `Spec => []ArchiveIsWhole` |
| `NothingUnsavedIsForgotten` | `Spec => []UnsavedIsPending`, the third part of `ArchivedExactlyOnce` |
| `OnceInvariance` | `Spec => [](Singly /\ Shown)`, the two invariants of the counts |
| `ArchivedOnce` | `Spec => []ArchivedExactlyOnce` |

`Builds`: what a writer read, or is about to name, is as whole as what the
metadata names. That needs `Locked` (a writer past the lock has it) and `Erasing`
(a deletion takes the metadata before the chunks, under the lock), so no chunk
goes while a name of it is left; a session made anew from a memory is the
exception (`revived`). `Captures`: a commit under way has captured all that its
copy owes, except what another commit could reach. The messages that a failing commit has archived
are `tangled` from then on. The lemmas
`ChunkedType`, `GrownType` and `Division` bound what `writeTranscriptChunks` makes.

That a saved message occurs exactly once in what a reader finds rests on two more
invariants. `Singly`: the messages of a commit are in no archive until it has
written its chunks, then in the archive it is about to name alone, and a pending
message is in no archive, or a commit of its copy wrote it and has not come back.
So a commit that failed before its metadata was in place, and is tried again on a
newer archive, adds nothing a second time; the messages for which this fails are
`tangled`, those of a commit that failed later among them. `Shown`: what a reader would choose
holds all that is saved, and what a writer under the lock builds on, or has built,
covers what it replaces (`Follows`), while one policy's format is being replaced by
another's too (`Mixed`). TLC checked both on the instance of `sessions` first.

An archive reads as the concatenation of its chunks, `FlattenSeq`, which the
community modules define by a recursive function. That the function exists and
that one more chunk adds its messages (`FlattenAppend`) is proved by an induction
stated for a set (`NatSetInduction`), and gives `GrownReads`: whatever
`writeTranscriptChunks` keeps, refills and adds, the new archive has the old
messages and then the new ones. What steps do to the counts follows without
looking into chunks again: `Quiet` describes the steps that put no message
anywhere new, `Calm` proves `Singly` for all of them once, and three steps remain:
a message arrives, a job captures, an archive is made.

`TerminalsProofs` proves, for any finite set of runtimes, any pids and any number
of starts under the id:

| theorem | states |
|---|---|
| `Invariance` | the inductive invariant below |
| `TypeCorrect` | `Spec => []TypeOK` |
| `FinishedIsGone` | `Spec => []EndedIsGone` |
| `OnlyTheTaskIsStruck` | `Spec => StrangersAreSpared` |
| `ListingsAreRight` | `Spec => ListingsNotice` |

Nobody locks the record, so the invariant says of each copy alone what makes it
harmless wherever a merge puts it. `FitsIn`: what a record says of its process was
true once and only the end of the process can have outdated it, so its pid is the
process's while that lives. `OwnedBy`: a runtime's own record without a pid is of
a start still to come. `AimedAt`: a cancellation has a pid, knows who the process
is before it waits for it, and signals only what the look just before found,
but for the escalation in `blind`, which `KilledUnread` names;
`Looking` in `GivenAway`, that a pid is not given away during a look, is what this
rests on. `RefreshedIsHeld` is that a listing, whichever scan it goes by, leaves a
record as good as those it merged and does not take a cancellation's record away;
`OneRuntimeWrites` that a step of one runtime disturbs the others through the file
only. `Deaths` and `Onward` state what the steps of the system and the starts may
do to a record, and `RankedKeeps` that ranking the stamps changes nothing else.

`DashboardProofs` proves, for any prompts, any number of retained events and any
disturbances, however often they strike:

| theorem | states |
|---|---|
| `DashboardInvariance` | the inductive invariant below |
| `TypeCorrect` | `Spec => []TypeOK` |
| `PromptsBeginOnce` | `Spec => []StartedOnce` |
| `NothingShownTwice` | `Spec => []ShownOnce` |
| `NothingMissed` | `Spec => []Complete` |
| `RunningIsKnown` | `Spec => []InSync` |

`Complete` and `InSync` speak of a tab that has caught up; the invariant has to say
of every state how the tab will get there. `AtLeast(s, m, q)` is what carries it: a
replay from number `q` either brings the message `m`, or everything up to `q` has
been trimmed and the gap shows. It survives every append and trim
(`AtLeastKept`), and `Retained`, `Recorded`, `Opened` and `Coming` say it of the
places a cursor can be at: the turn's start, a result that is remembered, a
snapshot under way, the tab itself. `Streaming` and `OnTheWire` say that an open
stream carries just what a replay would bring, so a drop loses nothing that the
next dial does not get. `Headed` says that a turn's first message is trimmed before
the rest of the turn, so that `ReplayCursor` finds the turn's start or `Beheaded`
holds. `Novel` is `ShownOnce` ahead of time: of what is on the wire, or would
be replayed, only the answer the tab saw last can come again, because messages of
a turn follow each other (`InOrder`), and what is `again` (`Behind`). `Owned` says
that a disowned turn runs, and `Renewed` ties the second id of a prompt to a tab
that has forgotten the first. `Informed` says that the last event on the
wire that tells whether a turn runs tells the truth.

The steps of the server append between one event and five. `Emission` states what
such an accumulation is and `MayEmit` which event may come next; `EmitStep`
proves one append, once, and every step is a few of them. `Serves` is all that
the tab and the requests can notice of a step of the server, and each part of the
invariant is proved from it once. That replays and replaced progress keep the
order of the events is `OnlyFilters`: `Only` is a recursive function, so what it
returns is proved by the least counterexample.

The assumptions of these modules say that null values are neither identities nor
records, nor lists of chunks (`NoFileAssumption`), that sets are finite where a
count is taken, and that bounds are natural numbers.

Checked by TLC only, on the instances of section 4, are the liveness properties:
they need fairness and ENABLED, which the prover does not handle.

## 7. Not modelled

See the `components` of `PROJECT.json`. Within the turn engine: image
budgets, titles, background snapshots, the wording and evidence rules of Goal
completion, and the trust check. Within the active sessions: listeners,
rename and the other locked controls, listing, and the order of last access.
Within the file lock: several locks taken together, appends, directory syncing.
Within the groups: an agent's own work, foreground agents, progress. Within the
Dashboard: HTTP as such, rendering, panels. Within the update: downloads and
proxies. Within the terminals: output files, launcher processes (their pids are
null), pruning and records that cannot be written, a second cancellation of a
replaced record. Within the archive: what a snapshot holds besides messages.

Presentation (CLI, TUI, browser rendering; `public/app.js` is built from the
TypeScript beside it), prompt building, hooks, memory and diagnostics are I/O or
pure formatting. Permission rules and command classification are functions over
strings without state. Protocol code of the model gateway and of MCP is string
processing around calls whose results the loop passes on. Schedules and
configuration files are read, changed and replaced as whole files, the
configuration under a lock of its own.
