------------------------------- MODULE Dashboard -------------------------------
(***************************************************************************)
(* One session of the Dashboard as the server runs it and as a browser tab *)
(* shows it.  The tab submits prompts with a request id that it keeps      *)
(* across retries, until it opens the session anew; the server runs them   *)
(* one after the other, and events reach the tab over a stream that may    *)
(* break: the server retains the last events, a tab that reconnects asks   *)
(* for those after its cursor, and a session_sync closes every replay.     *)
(* Opening the session takes a snapshot and a cursor to continue from, at  *)
(* any time, also while a submission is under way.                         *)
(*                                                                         *)
(* What the turn engine does with a prompt is TurnQueue; here a turn       *)
(* begins, reports an activity, answers and finishes, and a Goal may hold  *)
(* back the event that says so until another turn has begun.               *)
(***************************************************************************)
EXTENDS Naturals, Sequences, SequencesExt

CONSTANTS
  Prompts,       \* what the user submits, each once
  NoRequest,
  Retain,        \* MAX_EVENTS
  Disturbances,  \* what else happens: see Happens
  MaxHappenings, \* bounds how many of them
  MaxActivities  \* bounds the progress events

(* A prompt gets a second request id when the tab has forgotten the first, *)
(* which opening the session does, once.                                   *)
Requests == [prompt : Prompts, id : {1, 2}]

ASSUME RetainAssumption == Retain \in Nat \ {0}
ASSUME NoRequestAssumption == NoRequest \notin Requests
ASSUME DisturbancesAssumption ==
  Disturbances \subseteq {"late", "drop", "open", "expire", "restart"}
ASSUME BoundsAssumption == MaxHappenings \in Nat /\ MaxActivities \in Nat

VARIABLES
  server,     \* the session in the server's memory
  transcript, \* the messages of its finished turns
  records,    \* the turn requests the server remembers, with their results
  calls,      \* submissions on their way to the server, or waiting there
  replies,    \* submissions whose result is on its way to the tab
  wire,       \* events on their way to the tab
  tab,        \* what the tab shows and has got
  sending,    \* the submission under way in the tab
  renewed,    \* the prompts whose request id the tab has forgotten meanwhile
  snapshot,   \* what opening the session has read
  happened,   \* history: the disturbances so far
  said,       \* history: the messages a tab should show by and by
  begun,      \* history: the requests that began a turn, in that order
  forgotten,  \* history: the requests that the server forgot
  flaws       \* history: what the tab's view suffers from

messaging == <<records, calls, replies, sending, renewed>>
history == <<said, begun, forgotten>>
vars == <<server, transcript, messaging, wire, tab, snapshot, happened, history, flaws>>

Message(turn, kind) == [turn |-> turn, kind |-> kind]
Call(r, try) == [request |-> r, try |-> try]

(* A result is kept with the messages that were said before it.            *)
NoResult == [state |-> "none", running |-> FALSE, cursor |-> 0, turn |-> 0, before |-> {}]
NoCall == Call(NoRequest, 0)
NoSnapshot == [at |-> "none", live |-> FALSE, shown |-> {}, turns |-> 0, turn |-> 0,
               torn |-> FALSE, running |-> FALSE, stream |-> FALSE, cursor |-> 0]
NoServer == [live |-> FALSE, seq |-> 0, events |-> <<>>, turns |-> 0, turn |-> 0,
             disowned |-> FALSE, stops |-> 0, answered |-> FALSE, start |-> 0,
             queue |-> <<>>, ticks |-> 0, epoch |-> 0]
NoView == [conn |-> "none", cursor |-> 0, seen |-> {}, shown |-> {}, again |-> {},
           running |-> FALSE, last |-> 0]

(* The retained events are in order and within their limit, the tab shows  *)
(* messages of turns that began, and everything has its shape.             *)
TypeOK ==
  /\ server.seq \in Nat /\ server.turn \in 0..server.turns
  /\ Len(server.events) <= Retain
  /\ \A i \in 1..Len(server.events) - 1 : server.events[i].seq < server.events[i + 1].seq
  /\ server.stops \in Nat /\ (server.disowned => server.turn # 0)
  /\ \A r \in Requests : records[r].state \in {"none", "pending", "done"}
  /\ calls \cup replies \subseteq [request : Requests, try : Nat]
  /\ sending.request \in Requests \cup {NoRequest} /\ renewed \subseteq Prompts
  /\ tab.conn \in {"none", "dial", "open"} /\ tab.running \in BOOLEAN
  /\ \A m \in tab.shown \cup tab.again : m.turn \in 1..server.turns
  /\ snapshot.at \in {"none", "asked", "read", "reply"}
  /\ flaws \subseteq {"repeated", "skipped", "overtaken", "noticed"}

Init ==
  /\ server = [NoServer EXCEPT !.live = TRUE]
  /\ transcript = {} /\ records = [r \in Requests |-> NoResult]
  /\ calls = {} /\ replies = {} /\ wire = <<>>
  /\ tab = NoView /\ sending = NoCall /\ renewed = {} /\ snapshot = NoSnapshot
  /\ happened = {} /\ said = {} /\ begun = <<>> /\ forgotten = {} /\ flaws = {}

(* Each kind of disturbance strikes once.                                  *)
Happens(kind) ==
  /\ kind \in Disturbances \ happened /\ Cardinality(happened) < MaxHappenings
  /\ happened' = happened \cup {kind}

Running(s) == s.turn # 0

(* currentTurnId: a turn that a late run_state has marked idle still runs, *)
(* and is not the current one any more.                                    *)
CurrentTurn(s) == IF s.disowned THEN 0 ELSE s.turn

(* What a tab should show; the answer of a disowned turn is announced to   *)
(* nobody.                                                                 *)
Due == {m \in said : m.kind # "unsent"}

Flaw(cond, kind) == IF cond THEN {kind} ELSE {}

(***************************************************************************)
(* appendDashboardEvent: the listeners get every event; of the retained    *)
(* ones an activity replaces the one before it, and only the last Retain   *)
(* stay.  A step of the server collects the events it appends, together    *)
(* with the server they leave.                                             *)
(***************************************************************************)
(* A variant: the limit is checked before the append.                      *)
KeepOneMore(events, e) ==
  Append(IF Len(events) > Retain THEN Tail(events) ELSE events, e)

Keep(events, e) ==
  LET all == Append(events, e) IN
  IF Len(all) > Retain THEN Tail(all) ELSE all

(* The events of q that are in S, in their order: kept[n] is what the      *)
(* first n leave.                                                          *)
Only(q, S) ==
  LET kept[n \in 0..Len(q)] ==
        IF n = 0 THEN <<>>
        ELSE IF q[n] \in S THEN Append(kept[n - 1], q[n]) ELSE kept[n - 1]
  IN  kept[Len(q)]

(* The progress that a new event of this kind replaces.                    *)
Replaced(s, kind) ==
  {x \in Range(s.events) : kind = "activity" /\ x.kind = "activity" /\ x.turn = s.turn}

(* A step that has appended nothing so far.                                *)
From(s) == [server |-> s, sent |-> <<>>]

(* An event of this kind, on top of what the step has appended.            *)
Emit(io, kind) ==
  LET s == io.server
      e == [kind |-> kind, seq |-> s.seq + 1, epoch |-> s.epoch,
            turn |-> IF kind = "queued" THEN 0 ELSE s.turn]
      others == Only(s.events, Range(s.events) \ Replaced(s, kind))
  IN [server |-> [s EXCEPT !.seq = s.seq + 1, !.events = Keep(others, e)],
      sent |-> Append(io.sent, e)]

Publish(io) ==
  /\ server' = io.server
  /\ wire' = IF tab.conn = "open" THEN wire \o io.sent ELSE wire

(***************************************************************************)
(* Turns.  beginPrompt announces the turn and the user's message, and      *)
(* runTurnInBackground notes where the events of the turn start.           *)
(***************************************************************************)
NextTurn(s) == [s EXCEPT !.turns = s.turns + 1, !.turn = s.turns + 1, !.answered = FALSE]

Begun(io) ==
  LET out == Emit(Emit([io EXCEPT !.server = NextTurn(io.server)], "start"), "user")
  IN [out EXCEPT !.server.start = Len(out.server.events)]

NotesBegin(r) ==
  /\ said' = said \cup {Message(server.turns + 1, "user")}
  /\ begun' = Append(begun, r)

Activity ==
  /\ CurrentTurn(server) # 0 /\ ~server.answered /\ server.ticks < MaxActivities
  /\ Publish(Emit(From([server EXCEPT !.ticks = @ + 1]), "activity"))
  /\ UNCHANGED <<transcript, messaging, tab, snapshot, happened, history, flaws>>

Answer ==
  /\ CurrentTurn(server) # 0 /\ ~server.answered
  /\ Publish(Emit(From([server EXCEPT !.answered = TRUE]), "final"))
  /\ said' = said \cup {Message(server.turn, "final")}
  /\ UNCHANGED <<transcript, messaging, tab, snapshot, happened, begun, forgotten, flaws>>

(* The turn looks for its answer among the events from where it started,   *)
(* and repeats an answer that it does not find there.                      *)
Missed(s) ==
  \A i \in s.start + 1 .. Len(s.events) : s.events[i].kind # "final"

(* The turn is over before the run_state that says so: while a Goal is on, *)
(* its snapshot is saved in between.                                       *)
Finish ==
  LET answered == IF Missed(server) THEN Emit(From(server), "final") ELSE From(server)
      ended == Emit(answered, "files")
      stopped == Emit(ended, "stop")
      next == Begun([ended EXCEPT !.server.queue = Tail(server.queue)])
  IN
  /\ CurrentTurn(server) # 0 /\ server.answered
  /\ transcript' = transcript \cup {m \in said : m.turn = server.turn}
  /\ IF server.queue = <<>>
     THEN /\ \/ Publish([stopped EXCEPT !.server.turn = 0])
             \/ Publish([ended EXCEPT !.server.turn = 0, !.server.stops = server.stops + 1])
          /\ UNCHANGED <<said, begun>>
     ELSE /\ Publish(next)
          /\ NotesBegin(Head(server.queue))
  /\ UNCHANGED <<messaging, tab, snapshot, happened, forgotten, flaws>>

(* The Goal is saved: the run_state goes out, and clears the id of the     *)
(* turn that may have begun meanwhile.                                     *)
GoalSaved ==
  /\ server.stops > 0
  /\ Publish(Emit(From([server EXCEPT !.stops = @ - 1, !.disowned = Running(server)]), "stop"))
  /\ UNCHANGED <<transcript, messaging, tab, snapshot, happened, history, flaws>>

(* A turn that is not the current one announces nothing: its messages are  *)
(* saved, its end is not noticed, and the session stays busy.              *)
Unheard ==
  /\ server.disowned
  /\ server' = [server EXCEPT !.answered = TRUE]
  /\ said' = said \cup (IF server.answered THEN {} ELSE {Message(server.turn, "unsent")})
  /\ transcript' = transcript \cup {m \in said' : m.turn = server.turn}
  /\ UNCHANGED <<messaging, wire, tab, snapshot, happened, begun, forgotten, flaws>>

(***************************************************************************)
(* Submissions.  The tab keeps the request id of a draft until it gets a   *)
(* result, so a submission that got none goes out again under the same id, *)
(* unless the tab has forgotten it.                                        *)
(***************************************************************************)
Used == Range(begun) \cup Range(server.queue) \cup {c.request : c \in calls}
          \cup {r \in Requests : records[r] # NoResult}

Send(p) ==
  LET c == Call([prompt |-> p, id |-> 1], 1) IN
  /\ sending = NoCall
  /\ p \in Prompts \ {r.prompt : r \in Used}
  /\ sending' = c /\ calls' = calls \cup {c}
  /\ UNCHANGED <<server, transcript, records, replies, renewed, wire, tab, snapshot, happened,
                 history, flaws>>

(* The tab does not wait for the end of the call.                          *)
GiveUp ==
  /\ sending \in calls \cup replies /\ Happens("late")
  /\ sending' = Call(sending.request, sending.try + 1) /\ replies' = replies \ {sending}
  /\ UNCHANGED <<server, transcript, records, calls, renewed, wire, tab, snapshot, history, flaws>>

(* stableTurnRequest: the remembered id, or a new one.                     *)
Resend ==
  LET r == sending.request
      c == IF r.prompt \in renewed THEN [sending EXCEPT !.request.id = 2] ELSE sending IN
  /\ sending \notin calls \cup replies \cup {NoCall}
  /\ sending' = c /\ calls' = calls \cup {c}
  /\ UNCHANGED <<server, transcript, records, replies, renewed, wire, tab, snapshot, happened,
                 history, flaws>>

(* withIdempotentTurnRequest: the first call creates the record, the       *)
(* others wait for its result.                                             *)
Remembers(r) == records[r].state # "none"

Accept(c) ==
  /\ c \in calls /\ ~Remembers(c.request)
  /\ records' = [records EXCEPT ![c.request].state = "pending"]
  /\ UNCHANGED <<server, transcript, calls, replies, sending, renewed, wire, tab, snapshot,
                 happened, history, flaws>>

(* startDashboardTurn: the result carries the cursor before the events of  *)
(* the admission.                                                          *)
Admit(r) ==
  LET s == [server EXCEPT !.live = TRUE] IN
  /\ records[r].state = "pending"
  /\ records' = [records EXCEPT ![r] = [state |-> "done", running |-> ~Running(s),
                                        cursor |-> s.seq, before |-> Due,
                                        turn |-> IF Running(s) THEN 0 ELSE s.turns + 1]]
  /\ IF Running(s)
     THEN /\ Publish(Emit(From([s EXCEPT !.queue = Append(@, r)]), "queued"))
          /\ UNCHANGED <<said, begun>>
     ELSE Publish(Begun(From(s))) /\ NotesBegin(r)
  /\ UNCHANGED <<transcript, calls, replies, sending, renewed, tab, snapshot, happened, forgotten,
                 flaws>>

(* A variant: a request is forgotten once its result has gone out.         *)
ReplyAndForget(c) ==
  /\ c \in calls /\ records[c.request].state = "done"
  /\ calls' = calls \ {c}
  /\ records' = [records EXCEPT ![c.request] = NoResult]
  /\ UNCHANGED <<server, transcript, replies, sending, renewed, wire, tab, snapshot, happened,
                 history, flaws>>

Reply(c) ==
  /\ c \in calls /\ records[c.request].state = "done"
  /\ calls' = calls \ {c} /\ replies' = replies \cup ({c} \cap {sending})
  /\ UNCHANGED <<server, transcript, records, sending, renewed, wire, tab, snapshot, happened,
                 history, flaws>>

(* rememberEventCursor: the cursor never goes back.                        *)
Later(cursor, seq) == IF seq > cursor THEN seq ELSE cursor

(* What a replay from this cursor brings.                                  *)
After(s, cursor) == {e \in Range(s.events) : e.seq > cursor}

(* What a stream from this cursor brings although the tab shows it.        *)
ShownAfter(cursor) ==
  {m \in tab.shown : \E e \in After(server, cursor) : m = Message(e.turn, e.kind)}

(* Beyond the cursor, the tab takes the start of the result for granted    *)
(* until an event tells otherwise.  A tab without a stream has no cursor   *)
(* of its own and goes by the one of the result.                           *)
Receive ==
  LET result == records[sending.request]
      cursor == Later(tab.cursor, result.cursor)
      jumps == result.cursor > tab.cursor /\ ~(result.before \subseteq tab.shown)
      skips == tab.conn # "open" /\ jumps
      over == result.running /\ server.turn # result.turn
  IN
  /\ sending \in replies
  /\ replies' = replies \ {sending} /\ sending' = NoCall
  /\ tab' = [tab EXCEPT !.running = tab.running \/ result.running, !.cursor = cursor,
                        !.conn = IF tab.conn = "none" THEN "dial" ELSE tab.conn,
                        !.again = IF tab.conn = "none" THEN ShownAfter(cursor) ELSE tab.again]
  /\ flaws' = flaws \cup Flaw(skips, "skipped") \cup Flaw(over, "overtaken")
  /\ UNCHANGED <<server, transcript, records, calls, renewed, wire, snapshot, happened, history>>

(* The record of a settled request lives TURN_REQUEST_TTL_MS, longer than  *)
(* any call waits for a result.                                            *)
Settled(r) == records[r].state = "done"

Expire(r) ==
  /\ Settled(r) /\ \A c \in calls \cup replies : c.request # r
  /\ Happens("expire")
  /\ records' = [records EXCEPT ![r] = NoResult] /\ forgotten' = forgotten \cup {r}
  /\ UNCHANGED <<server, transcript, calls, replies, sending, renewed, wire, tab, snapshot, said,
                 begun, flaws>>

(***************************************************************************)
(* The stream.  A subscription replays the retained events after the       *)
(* tab's cursor and closes the replay with the current state.              *)
(***************************************************************************)
Gap(s) == s.events # <<>> /\ tab.cursor + 1 < s.events[1].seq

Sync(s) == [kind |-> "sync", seq |-> s.seq, turn |-> s.turn, epoch |-> s.epoch,
            running |-> Running(s), gap |-> Gap(s)]

Subscribe ==
  /\ tab.conn = "dial"
  /\ IF server.live
     THEN /\ wire' = Append(Only(server.events, After(server, tab.cursor)), Sync(server))
          /\ tab' = [tab EXCEPT !.conn = "open"]
     ELSE wire' = <<>> /\ tab' = [tab EXCEPT !.conn = "none", !.running = FALSE]
  /\ UNCHANGED <<server, transcript, messaging, snapshot, happened, history, flaws>>

(* A variant: only a repeat of the same event is found.                    *)
NewAnswer(e) == e.seq = tab.cursor

(* An answer with the signature of the last one is not shown again.        *)
SameAnswer(e) == tab.last = e.turn

Repeated(e) == e.kind = "final" /\ SameAnswer(e)

Shows(e) == e.kind \in {"user", "final"} /\ ~Repeated(e)

(* The turn whose answer the tab got last, if no message came after it.    *)
LastAfter(e) ==
  CASE e.kind = "user" -> 0
    [] e.kind = "final" -> e.turn
    [] OTHER -> tab.last

(* A variant: a sync changes nothing.                                      *)
RunningAfterRunState(e) ==
  CASE e.kind \in {"start", "user"} -> TRUE
    [] e.kind = "stop" -> FALSE
    [] OTHER -> tab.running

RunningAfter(e) ==
  CASE e.kind \in {"start", "user"} -> TRUE
    [] e.kind = "stop" -> FALSE
    [] e.kind = "sync" -> e.running
    [] OTHER -> tab.running

Deliver ==
  LET e == Head(wire)
      id == <<e.epoch, e.seq>>
      fresh == e.kind = "sync" \/ id \notin tab.seen
      m == Message(e.turn, e.kind)
  IN
  /\ tab.conn = "open" /\ wire # <<>>
  /\ wire' = Tail(wire)
  /\ IF fresh
     THEN /\ tab' = [tab EXCEPT
               !.seen = IF e.kind = "sync" THEN tab.seen ELSE tab.seen \cup {id},
               !.cursor = Later(tab.cursor, e.seq),
               !.shown = IF Shows(e) THEN tab.shown \cup {m} ELSE tab.shown,
               !.again = IF Shows(e) THEN tab.again \ {m} ELSE tab.again,
               !.last = LastAfter(e),
               !.running = RunningAfter(e)]
          /\ flaws' = (flaws \cup Flaw(Shows(e) /\ m \in tab.shown \ tab.again, "repeated")
                             \cup Flaw(e.kind = "sync" /\ e.gap, "noticed"))
                      \ Flaw(e.kind \in {"start", "user", "stop", "sync"}, "overtaken")
     ELSE UNCHANGED <<tab, flaws>>
  /\ UNCHANGED <<server, transcript, messaging, snapshot, happened, history>>

(* The connection breaks; the tab dials again by itself.                   *)
Drop ==
  LET lost == \E i \in DOMAIN wire :
        IF wire[i].kind = "sync" THEN wire[i].gap ELSE wire[i].seq <= tab.cursor IN
  /\ tab.conn = "open" /\ Happens("drop")
  /\ tab' = [tab EXCEPT !.conn = "dial"] /\ wire' = <<>>
  /\ flaws' = flaws \cup Flaw(lost, "skipped")
  /\ UNCHANGED <<server, transcript, messaging, snapshot, history>>

(***************************************************************************)
(* Opening the session.  openSession forgets the request id at once.       *)
(* runtimeReadSession takes the transcript, awaits the snapshot of the     *)
(* background work, and then takes the running state and the cursor; the   *)
(* tab starts over from what it gets.                                      *)
(***************************************************************************)
Open ==
  /\ snapshot.at = "none" /\ Happens("open")
  /\ snapshot' = [NoSnapshot EXCEPT !.at = "asked"]
  /\ renewed' = IF sending = NoCall THEN renewed ELSE renewed \cup {sending.request.prompt}
  /\ UNCHANGED <<server, transcript, records, calls, replies, sending, wire, tab, history, flaws>>

(* Of the current turn the transcript is left to the events.               *)
OpenRead ==
  /\ snapshot.at = "asked"
  /\ snapshot' = [NoSnapshot EXCEPT !.at = "read", !.live = server.live, !.turns = server.turns,
                                    !.turn = CurrentTurn(server),
                                    !.shown = IF server.disowned THEN said ELSE transcript]
  /\ UNCHANGED <<server, transcript, messaging, wire, tab, happened, history, flaws>>

(* activeReplayCursor: the current turn is replayed from its first event.  *)
Current(s) == {i \in DOMAIN s.events : s.events[i].turn = s.turn}
First(S) == CHOOSE i \in S : \A j \in S : i <= j

(* A variant: the replay starts at the present.                            *)
ReplayNothing(s) == s.seq

ReplayCursor(s) ==
  LET i == First(Current(s)) IN
  IF CurrentTurn(s) = 0 THEN s.seq
  ELSE IF Current(s) = {} \/ i = 1 THEN 0 ELSE s.events[i - 1].seq

(* The user's message of the current turn has been trimmed, and the replay *)
(* starts behind a retained event of no turn, so that no gap is noticed.   *)
Beheaded(s) ==
  /\ CurrentTurn(s) # 0 /\ ReplayCursor(s) > 0
  /\ \A i \in Current(s) : s.events[i].kind # "user"

(* A turn began, ended or was disowned since the transcript was taken.     *)
Moved(s) == snapshot.turns # s.turns \/ snapshot.turn # CurrentTurn(s)

(* A session that runs or has background work, and that was in memory when *)
(* the request came, gets a stream.                                        *)
OpenReply ==
  \E background \in BOOLEAN :
    /\ snapshot.at = "read"
    /\ snapshot' = [snapshot EXCEPT !.at = "reply",
                      !.running = snapshot.live /\ Running(server),
                      !.stream = snapshot.live /\ (Running(server) \/ background),
                      !.cursor = ReplayCursor(server),
                      !.torn = Moved(server) \/ Beheaded(server)]
    /\ UNCHANGED <<server, transcript, messaging, wire, tab, happened, history, flaws>>

OpenShow ==
  /\ snapshot.at = "reply"
  /\ tab' = [NoView EXCEPT !.shown = snapshot.shown, !.running = snapshot.running,
                           !.cursor = IF snapshot.stream THEN snapshot.cursor ELSE 0,
                           !.conn = IF snapshot.stream THEN "dial" ELSE "none"]
  /\ wire' = <<>> /\ snapshot' = NoSnapshot
  /\ flaws' = (flaws \ {"skipped", "noticed"}) \cup Flaw(snapshot.torn, "skipped")
  /\ UNCHANGED <<server, transcript, messaging, happened, history>>

(***************************************************************************)
(* The server restarts: sessions, events, queues and turn requests are     *)
(* gone, and so is what the interrupted turn had said; the numbers of the  *)
(* events start over.  The tab keeps its cursor.                           *)
(***************************************************************************)
Restart ==
  /\ Happens("restart")
  /\ server' = [NoServer EXCEPT !.turns = server.turns, !.epoch = server.epoch + 1]
  /\ forgotten' = forgotten \cup {r \in Requests : Remembers(r)}
  /\ records' = [r \in Requests |-> NoResult]
  /\ calls' = {} /\ replies' = {} /\ wire' = <<>> /\ snapshot' = NoSnapshot
  /\ tab' = [tab EXCEPT !.conn = IF tab.conn = "open" THEN "dial" ELSE tab.conn]
  /\ said' = transcript
  /\ flaws' = flaws \cup Flaw(tab.cursor > 0 \/ ~(transcript \subseteq tab.shown), "skipped")
  /\ UNCHANGED <<transcript, sending, renewed, begun>>

Serve ==
  \/ Activity \/ Answer \/ Finish \/ GoalSaved \/ Unheard
  \/ \E c \in calls : Accept(c) \/ Reply(c)
  \/ \E r \in Requests : Admit(r)

View == Subscribe \/ Deliver \/ Receive \/ Open \/ OpenShow

Next ==
  \/ Serve \/ View
  \/ \E p \in Prompts : Send(p)
  \/ \E r \in Requests : Expire(r)
  \/ GiveUp \/ Resend \/ Drop \/ OpenRead \/ OpenReply \/ Restart

Spec == Init /\ [][Next]_vars

-----------------------------------------------------------------------------
CaughtUp == tab.conn = "open" /\ wire = <<>>

(* However often a submission is repeated, its request begins one turn, as *)
(* long as the server remembers it; and its prompt is begun under another  *)
(* request only when the tab forgot the first, because the session was     *)
(* opened while the submission was under way.                              *)
StartedOnce ==
  \A i, j \in DOMAIN begun : i # j /\ begun[i].prompt = begun[j].prompt =>
    IF begun[i] = begun[j] THEN begun[i] \in forgotten ELSE begun[i].prompt \in renewed

(* The tab shows no message twice: the turn may repeat its answer when the *)
(* event of the first has been trimmed, and a replay may overlap.  Except  *)
(* once for what a tab without a stream shows already of what came after   *)
(* the submission whose result lets it connect.                            *)
ShownOnce == "repeated" \notin flaws

(* A tab that has got all that was sent to it shows every message of the   *)
(* session, or was told that some are missing; except for the answer of a  *)
(* disowned turn, for a session that was opened while its turn changed or  *)
(* when its turn was beheaded, for a cursor that jumped over events on     *)
(* their way, for a notice that was lost after what it is about had moved  *)
(* the cursor, and for a cursor that outlived the numbering.               *)
Complete ==
  CaughtUp /\ flaws \cap {"skipped", "noticed"} = {} => Due \subseteq tab.shown

(* The run_state of the last turn is out, and did not disown another.      *)
Announced(s) == ~s.disowned /\ (Running(s) \/ s.stops = 0)

(* A tab that has got all that was sent to it knows whether a turn runs,   *)
(* unless a Goal holds the end of the last turn back or has disowned the   *)
(* turn that runs, or the result of a submission came after its turn was   *)
(* over.                                                                   *)
InSync ==
  CaughtUp /\ Announced(server) /\ "overtaken" \notin flaws => tab.running = Running(server)
===============================================================================
