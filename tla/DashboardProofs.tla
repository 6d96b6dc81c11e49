---------------------------- MODULE DashboardProofs ----------------------------
(***************************************************************************)
(* What is proved of a session that the Dashboard serves to a tab, for any *)
(* prompts, any number of retained events and any disturbances.  All of it *)
(* rests on one inductive invariant, IndInv:                               *)
(*                                                                         *)
(*   - the server: its retained events are in order, of the turn that runs *)
(*     the user's message is the first to be trimmed, and only a turn that *)
(*     runs is disowned (Ordered, Headed, Owned)                           *)
(*   - the wire: what is on its way is in the same order and new to the    *)
(*     tab (OnTheWire), and is all that the tab lacks (Streaming)          *)
(*   - requests: who has which result, and that a prompt has a second      *)
(*     request only when the tab forgot the first (Requested, Once,        *)
(*     Recorded, Renewed)                                                  *)
(*   - messages: where each one can still be got from (Saying, Retained),  *)
(*     and that the tab will get it (Coming, Opened, Informed)             *)
(*   - the tab: which message may come next (Fresh)                        *)
(*                                                                         *)
(* The steps of the server are proved together: each appends events and    *)
(* publishes them (Emission), which is all that the tab depends on         *)
(* (Serves).                                                               *)
(***************************************************************************)
EXTENDS Dashboard, SequenceTheorems, WellFoundedInduction, TLAPS

(* The shapes of what the variables hold.                                  *)
Kinds == {"start", "user", "activity", "final", "files", "stop", "queued"}
Event == [kind : Kinds, seq : Nat, epoch : Nat, turn : Nat]
SyncEvent == [kind : {"sync"}, seq : Nat, turn : Nat, epoch : Nat, running : BOOLEAN, gap : BOOLEAN]
Messages == [turn : Nat, kind : {"user", "final", "unsent"}]
Servers == [live : BOOLEAN, seq : Nat, events : Seq(Event), turns : Nat, turn : Nat,
            disowned : BOOLEAN, stops : Nat, answered : BOOLEAN, start : Nat,
            queue : Seq(Requests), ticks : Nat, epoch : Nat]
Results == [state : {"none", "pending", "done"}, running : BOOLEAN, cursor : Nat, turn : Nat,
            before : SUBSET Messages]
Calls == [request : Requests, try : Nat]
Tabs == [conn : {"none", "dial", "open"}, cursor : Nat, seen : SUBSET (Nat \X Nat),
         shown : SUBSET Messages, again : SUBSET Messages, running : BOOLEAN, last : Nat]
Snapshots == [at : {"none", "asked", "read", "reply"}, live : BOOLEAN, shown : SUBSET Messages,
              turns : Nat, turn : Nat, torn : BOOLEAN, running : BOOLEAN, stream : BOOLEAN,
              cursor : Nat]

(* Every variable has its shape.                                           *)
Types ==
  /\ server \in Servers /\ transcript \subseteq Messages
  /\ records \in [Requests -> Results]
  /\ calls \subseteq Calls /\ replies \subseteq Calls
  /\ wire \in Seq(Event \cup SyncEvent)
  /\ tab \in Tabs /\ sending \in Calls \cup {NoCall} /\ renewed \subseteq Prompts
  /\ snapshot \in Snapshots
  /\ said \subseteq Messages /\ begun \in Seq(Requests) /\ forgotten \subseteq Requests
  /\ flaws \subseteq {"repeated", "skipped", "overtaken", "noticed"}

(* The events that carry a message, and the message.                       *)
IsMessage(e) == e.kind \in {"user", "final"}
Says(e) == Message(e.turn, e.kind)

(* What the server appended of what is on the wire.                        *)
Events(w) == {w[i] : i \in {k \in DOMAIN w : w[k].kind # "sync"}}

(* The events are numbered in their order.                                 *)
Sorted(w) ==
  \A i, j \in DOMAIN w : i < j /\ w[i].kind # "sync" /\ w[j].kind # "sync" => w[i].seq < w[j].seq

(* f may come after e: turns follow each other, and in a turn only its     *)
(* answer, perhaps again, follows a message.                               *)
Follows(e, f) ==
  /\ e.turn # 0 /\ f.turn # 0 => e.turn <= f.turn
  /\ IsMessage(e) /\ IsMessage(f) /\ e.turn = f.turn => f.kind = "final"

InOrder(S) == \A e, f \in S : e.seq < f.seq => Follows(e, f)

(* e is an event of this life of the server, of a turn that began.         *)
Of(s, e) ==
  /\ e.epoch = s.epoch /\ e.seq <= s.seq /\ e.turn <= s.turns
  /\ IsMessage(e) => e.turn # 0

(* The retained events of the turn that runs include the user's message,   *)
(* or all that came before the turn has been trimmed: this is why a replay *)
(* that starts at the turn's first event either has its messages or is     *)
(* Beheaded or shows a gap.                                                *)
Headed(s) ==
  Running(s) =>
    \/ \E e \in Range(s.events) : e.turn = s.turn /\ e.kind = "user"
    \/ \A e \in Range(s.events) : e.turn \in {0, s.turn}

(* The retained events are within their limit and in order.                *)
Ordered(s) ==
  /\ s.turn \in {0, s.turns}
  /\ Len(s.events) <= Retain
  /\ Sorted(s.events)
  /\ \A e \in Range(s.events) : Of(s, e)
  /\ InOrder(Range(s.events))

(* Only a turn that runs is disowned.                                      *)
Owned(s) == s.disowned => Running(s)

Sane(s) == Ordered(s) /\ Headed(s) /\ Owned(s)

(* What is on its way to the tab is in order, of the server as it is, and  *)
(* not yet seen; what was seen is behind the cursor.                       *)
OnTheWire ==
  /\ Sorted(wire) /\ InOrder(Events(wire))
  /\ \A e \in Events(wire) : Of(server, e) /\ <<e.epoch, e.seq>> \notin tab.seen
  /\ \A i \in DOMAIN wire : wire[i].seq <= server.seq
  /\ \A x \in tab.seen : /\ x[1] <= server.epoch /\ x[2] <= tab.cursor
                         /\ x[1] = server.epoch => x[2] <= server.seq

(* An open stream carries all retained events that the tab lacks.          *)
Streaming == tab.conn = "open" => After(server, tab.cursor) \subseteq Events(wire)

(* A session with a result is in memory, and a result that went out is     *)
(* remembered until it is received.                                        *)
Requested ==
  /\ server.live \/ \A r \in Requests : records[r].state # "done"
  /\ \A c \in replies : records[c.request].state = "done"

(* A request that is not forgotten is once among those that began and      *)
(* those that wait, and then it has its result.                            *)
Once ==
  \A r \in Requests \ forgotten :
    /\ r \in Range(begun) \cup Range(server.queue) => records[r].state = "done"
    /\ \A i, j \in DOMAIN begun : begun[i] = r /\ begun[j] = r => i = j
    /\ \A i, j \in DOMAIN server.queue : server.queue[i] = r /\ server.queue[j] = r => i = j
    /\ ~(r \in Range(begun) /\ r \in Range(server.queue))

(* A prompt has a second request only when the tab forgot the first.       *)
InUse ==
  Range(begun) \cup Range(server.queue) \cup {r \in Requests : records[r].state # "none"}
    \cup {c.request : c \in calls} \cup {sending.request}
Renewed == \A r \in Requests : r.id = 2 /\ r \in InUse => r.prompt \in renewed

(* The events that tell whether a turn runs, and what they tell.           *)
Telling(e) == e.kind \in {"start", "user", "stop", "sync"}
Tells(e) == IF e.kind = "sync" THEN e.running ELSE e.kind # "stop"

(* The last such event on the wire tells what is the case; without one the *)
(* tab knows already, or a late result told it otherwise.                  *)
Informed ==
  tab.conn = "open" /\ Announced(server) =>
    \/ \E i \in DOMAIN wire :
         /\ Telling(wire[i]) /\ Tells(wire[i]) = Running(server)
         /\ \A j \in DOMAIN wire : j > i => ~Telling(wire[j])
    \/ /\ \A j \in DOMAIN wire : ~Telling(wire[j])
       /\ "overtaken" \in flaws \/ tab.running = Running(server)

(* Messages are those of turns that began; the transcript has those of the *)
(* turns that are over, or disowned.                                       *)
Saying ==
  /\ transcript \subseteq said
  /\ \A m \in said \cup tab.shown \cup tab.again \cup snapshot.shown : m.turn \in 1..server.turns
  /\ \A m \in said \ transcript : m.turn = server.turn
  /\ ~server.disowned => \A m \in transcript \cup snapshot.shown : m.turn # server.turn

(* A replay from q either has m, or the trimming up to q shows as a gap.   *)
AtLeast(s, m, q) ==
  \/ \E e \in Range(s.events) : IsMessage(e) /\ Says(e) = m /\ e.seq >= q
  \/ s.events # <<>> /\ \A e \in Range(s.events) : e.seq > q

(* A message of the turn that runs is retained, or has been trimmed, and   *)
(* then so has the head of the turn.                                       *)
Retained ==
  \A m \in Due : m.turn = server.turn =>
    /\ AtLeast(server, m, 1)
    /\ \/ \E e \in Range(server.events) : IsMessage(e) /\ Says(e) = m
       \/ \A e \in Range(server.events) : e.turn = server.turn => e.kind # "user"

(* What was said after a request got its result is beyond the cursor of    *)
(* that result.                                                            *)
Recorded ==
  \A r \in Requests : records[r].state = "done" =>
    /\ records[r].cursor <= server.seq /\ (records[r].running => records[r].turn # 0)
    /\ \A m \in Due \ records[r].before : AtLeast(server, m, records[r].cursor + 1)

(* A tab that lacks a message has been told so, or is about to be (by a    *)
(* sync with a gap), or the message is on its way or beyond its cursor.    *)
Told == flaws \cap {"skipped", "noticed"} # {}
Coming ==
  /\ "skipped" \notin flaws => tab.cursor <= server.seq
  /\ \/ Told
     \/ /\ tab.conn = "open"
        /\ \/ \E i \in DOMAIN wire : wire[i].kind = "sync" /\ wire[i].gap
           \/ \A m \in Due \ tab.shown :
                \E e \in Events(wire) : IsMessage(e) /\ Says(e) = m /\ AtLeast(server, m, e.seq)
     \/ /\ tab.conn # "open"
        /\ \A m \in Due \ tab.shown : AtLeast(server, m, tab.cursor + 1)

(* What opening the session has read misses only messages of the turn that *)
(* ran, and what it replies with misses only what its cursor will bring.   *)
SnapCursor == IF snapshot.stream THEN snapshot.cursor ELSE 0
Opened ==
  /\ snapshot.at = "read" =>
       /\ snapshot.turns <= server.turns
       /\ snapshot.turns = server.turns /\ CurrentTurn(server) # 0 =>
            snapshot.turn = CurrentTurn(server)
       /\ ~Moved(server) =>
            \A m \in Due \ snapshot.shown : CurrentTurn(server) # 0 /\ m.turn = server.turn
  /\ snapshot.at = "reply" =>
       /\ snapshot.cursor <= server.seq
       /\ ~snapshot.torn => \A m \in Due \ snapshot.shown : AtLeast(server, m, SnapCursor + 1)
       /\ snapshot.stream => \A e \in Range(server.events) :
            IsMessage(e) /\ e.seq > snapshot.cursor => Says(e) \notin snapshot.shown

(* None of these events is behind the answer that the tab saw last, or     *)
(* would show a message again: one that is shown is that answer.           *)
Behind(S) ==
  \A e \in S : IsMessage(e) /\ tab.last # 0 =>
    e.turn > tab.last \/ (e.turn = tab.last /\ e.kind = "final")
Novel(S) ==
  /\ Behind(S)
  /\ \A e \in S : IsMessage(e) /\ Says(e) \in tab.shown \ tab.again =>
       e.kind = "final" /\ tab.last = e.turn

(* This holds of what is on the wire, of what a replay would bring to a    *)
(* tab that dials, and the first of what a result would let it dial for.   *)
Fresh ==
  /\ tab.last <= server.turns
  /\ tab.last # 0 => Message(tab.last, "final") \in tab.shown
  /\ CurrentTurn(server) # 0 /\ Message(server.turn, "final") \in tab.shown =>
       tab.last = server.turn
  /\ tab.conn = "open" => Novel(Events(wire))
  /\ tab.conn = "dial" => Novel(After(server, tab.cursor))
  /\ tab.conn = "none" => \A r \in Requests :
       records[r].state = "done" => Behind(After(server, records[r].cursor))

(* The inductive invariant.                                                *)
IndInv ==
  /\ Types /\ Sane(server) /\ OnTheWire /\ Requested /\ Once /\ Renewed /\ Informed /\ Saying
  /\ Retained /\ Recorded /\ Coming /\ Opened /\ Fresh /\ Streaming /\ ShownOnce

-----------------------------------------------------------------------------
(***************************************************************************)
(* Induction on the length of a queue, as the least element of a set of    *)
(* counterexamples.                                                        *)
(***************************************************************************)
Below == {pair \in Nat \X Nat : pair[1] < pair[2]}

(* The numbers are well founded by their order, given as a set of pairs.   *)
LEMMA BelowIsWellFounded == IsWellFoundedOn(Below, Nat)
  BY NatLessThanWellFounded, Zenon DEF Below, OpToRel

(* A set of numbers that holds each number whose predecessors it holds     *)
(* holds them all.                                                         *)
LEMMA NatSetInduction ==
  ASSUME NEW S, S \subseteq Nat, 0 \in S, \A n \in S : n + 1 \in S
  PROVE  S = Nat
<1>1. SUFFICES ASSUME Nat \ S # {} PROVE FALSE
  OBVIOUS
<1>2. PICK m \in Nat \ S : \A k \in Nat \ S : ~(<<k, m>> \in Below)
  BY <1>1, BelowIsWellFounded, WFMin
<1>3. m \in Nat /\ m # 0
  BY <1>2
<1>4. m - 1 \in Nat /\ <<m - 1, m>> \in Below
  BY <1>3 DEF Below
<1>5. m - 1 \in S
  BY <1>2, <1>4
<1>6. QED
  BY <1>2, <1>3, <1>5

(***************************************************************************)
(* Only.  OnlyStep is the body of its recursive function, so that Kept is  *)
(* the function it evaluates.                                              *)
(***************************************************************************)
OnlyStep(q, S, f, n) ==
  IF n = 0 THEN <<>>
  ELSE IF q[n] \in S THEN Append(f[n - 1], q[n]) ELSE f[n - 1]

Kept(q, S) == CHOOSE f : f = [n \in 0..Len(q) |-> OnlyStep(q, S, f, n)]

(* The recursion defines a function: its equation has a solution.          *)
LEMMA KeptExists ==
  ASSUME NEW E, NEW q \in Seq(E), NEW S
  PROVE  \E f : f = [n \in 0..Len(q) |-> OnlyStep(q, S, f, n)]
<1> DEFINE Solves(f, k) == \A n \in 0..k : f[n] = OnlyStep(q, S, f, n)
           Solved == {k \in Nat : \E f : f = [n \in 0..k |-> f[n]] /\ Solves(f, k)}
<1>1. 0 \in Solved
  <2> DEFINE f == [n \in 0..0 |-> <<>>]
  <2>1. f = [n \in 0..0 |-> f[n]] /\ Solves(f, 0)
    BY DEF OnlyStep
  <2>2. QED
    BY <2>1
<1>2. ASSUME NEW k \in Solved PROVE k + 1 \in Solved
  <2>1. PICK f : f = [n \in 0..k |-> f[n]] /\ Solves(f, k)
    BY <1>2
  <2> DEFINE g == [n \in 0..(k + 1) |-> IF n = k + 1 THEN OnlyStep(q, S, f, n) ELSE f[n]]
  <2>2. g = [n \in 0..(k + 1) |-> g[n]]
    OBVIOUS
  <2>3. ASSUME NEW n \in 0..(k + 1) PROVE g[n] = OnlyStep(q, S, g, n)
    <3>1. n # 0 => n - 1 \in 0..k /\ g[n - 1] = f[n - 1]
      OBVIOUS
    <3>2. OnlyStep(q, S, g, n) = OnlyStep(q, S, f, n)
      BY <3>1 DEF OnlyStep
    <3>3. CASE n = k + 1
      BY <3>2, <3>3
    <3>4. CASE n \in 0..k
      BY <2>1, <3>2, <3>4
    <3>5. QED
      BY <3>3, <3>4
  <2> HIDE DEF g
  <2>4. k + 1 \in Nat /\ Solves(g, k + 1)
    BY <2>3
  <2>5. QED
    BY <2>2, <2>4
<1>3. Solved = Nat
  <2> HIDE DEF Solved
  <2>1. Solved \subseteq Nat
    BY DEF Solved
  <2>2. QED
    BY <1>1, <1>2, <2>1, NatSetInduction
<1>4. Len(q) \in Solved
  BY <1>3
<1>5. PICK f : f = [n \in 0..Len(q) |-> f[n]] /\ Solves(f, Len(q))
  BY <1>4
<1>6. f = [n \in 0..Len(q) |-> OnlyStep(q, S, f, n)]
  BY <1>5
<1>7. QED
  BY <1>6

(* Only(q, S) is the last value of that function.                          *)
LEMMA OnlyIsKept ==
  ASSUME NEW E, NEW q \in Seq(E), NEW S
  PROVE  /\ Only(q, S) = Kept(q, S)[Len(q)]
         /\ \A n \in 0..Len(q) : Kept(q, S)[n] = OnlyStep(q, S, Kept(q, S), n)
<1>1. Only(q, S) = Kept(q, S)[Len(q)]
  BY DEF Only, Kept, OnlyStep
<1>2. Kept(q, S) = [n \in 0..Len(q) |-> OnlyStep(q, S, Kept(q, S), n)]
  BY KeptExists DEF Kept
<1>3. QED
  BY <1>1, <1>2

(* Only keeps the events of S and no others, in their order.               *)
LEMMA OnlyFilters ==
  ASSUME NEW q \in Seq(Event), Sorted(q), NEW S
  PROVE  /\ Only(q, S) \in Seq(Event)
         /\ Len(Only(q, S)) <= Len(q)
         /\ Range(Only(q, S)) = Range(q) \cap S
         /\ Sorted(Only(q, S))
<1> DEFINE Filters(r, n) ==
             /\ r \in Seq(Event)
             /\ Len(r) <= n
             /\ \A i \in DOMAIN r : r[i] \in S /\ \E j \in 1..n : r[i] = q[j]
             /\ \A j \in 1..n : q[j] \in S => \E i \in DOMAIN r : r[i] = q[j]
             /\ \A i, j \in DOMAIN r : i < j => r[i].seq < r[j].seq
           Good == {n \in Nat : n <= Len(q) => Filters(Kept(q, S)[n], n)}
<1>0. \A i, j \in DOMAIN q : i < j => q[i].seq < q[j].seq
  <2>1. \A i \in DOMAIN q : q[i] \in Event
    OBVIOUS
  <2>2. \A e \in Event : e.kind # "sync"
    BY DEF Event, Kinds
  <2>3. QED
    BY <2>1, <2>2 DEF Sorted
<1>1. 0 \in Good
  <2>1. 0 \in 0..Len(q)
    OBVIOUS
  <2>2. Kept(q, S)[0] = <<>>
    BY <2>1, OnlyIsKept DEF OnlyStep
  <2>3. Filters(<<>>, 0)
    OBVIOUS
  <2>4. QED
    BY <2>2, <2>3
<1>2. ASSUME NEW n \in Good PROVE n + 1 \in Good
  <2> SUFFICES ASSUME n + 1 <= Len(q) PROVE Filters(Kept(q, S)[n + 1], n + 1)
    OBVIOUS
  <2> DEFINE r == Kept(q, S)[n]
             s == Kept(q, S)[n + 1]
             e == q[n + 1]
  <2>1. n \in Nat /\ Filters(r, n)
    OBVIOUS
  <2>2. s = IF e \in S THEN Append(r, e) ELSE r
    <3>1. n + 1 \in 0..Len(q) /\ n + 1 # 0 /\ (n + 1) - 1 = n
      BY <2>1
    <3>2. Kept(q, S)[n + 1] = OnlyStep(q, S, Kept(q, S), n + 1)
      BY <3>1, OnlyIsKept
    <3>3. QED
      BY <3>1, <3>2 DEF OnlyStep
  <2>3. e \in Event /\ n + 1 \in DOMAIN q
    BY <2>1
  <2> HIDE DEF r, s
  <2>4. ASSUME e \notin S PROVE Filters(s, n + 1)
    <3>1. s = r /\ Len(r) <= n + 1
      BY <2>1, <2>2, <2>4
    <3>2. \A j \in 1..(n + 1) : q[j] \in S => j \in 1..n
      BY <2>1, <2>4
    <3>3. \A i \in DOMAIN r : r[i] \in S /\ \E j \in 1..(n + 1) : r[i] = q[j]
      BY <2>1
    <3>4. QED
      BY <2>1, <3>1, <3>2, <3>3
  <2>5. ASSUME e \in S PROVE Filters(s, n + 1)
    <3>1. s \in Seq(Event) /\ Len(s) = Len(r) + 1 /\ Len(s) <= n + 1
      BY <2>1, <2>2, <2>3, <2>5
    <3>2. s[Len(s)] = e /\ \A i \in DOMAIN r : i \in DOMAIN s /\ s[i] = r[i]
      BY <2>1, <2>2, <2>3, <2>5
    <3>3. ASSUME NEW i \in DOMAIN s
          PROVE  i \in DOMAIN r \/ i = Len(s)
      BY <2>1, <3>1
    <3>4. ASSUME NEW i \in DOMAIN s
          PROVE  s[i] \in S /\ \E j \in 1..(n + 1) : s[i] = q[j]
      <4>1. CASE i = Len(s)
        BY <2>1, <2>5, <3>2, <4>1
      <4>2. CASE i \in DOMAIN r
        <5>1. r[i] \in S /\ \E j \in 1..n : r[i] = q[j]
          BY <2>1, <4>2
        <5>2. QED
          BY <2>1, <3>2, <4>2, <5>1
      <4>3. QED
        BY <3>3, <4>1, <4>2
    <3>5. ASSUME NEW j \in 1..(n + 1), q[j] \in S
          PROVE  \E i \in DOMAIN s : s[i] = q[j]
      <4>1. CASE j = n + 1
        BY <3>1, <3>2, <4>1
      <4>2. CASE j \in 1..n
        BY <2>1, <3>2, <3>5, <4>2
      <4>3. QED
        BY <2>1, <4>1, <4>2
    <3>6. ASSUME NEW i \in DOMAIN s, NEW j \in DOMAIN s, i < j
          PROVE  s[i].seq < s[j].seq
      <4>1. i \in DOMAIN r
        BY <2>1, <3>1, <3>6
      <4>2. CASE j \in DOMAIN r
        BY <2>1, <3>2, <3>6, <4>1, <4>2
      <4>3. CASE j = Len(s)
        <5>1. PICK k \in 1..n : r[i] = q[k]
          BY <2>1, <4>1
        <5>2. k \in DOMAIN q /\ k < n + 1
          BY <2>1, <2>3
        <5>3. q[k].seq < q[n + 1].seq
          BY <1>0, <2>3, <5>2
        <5>4. QED
          BY <3>2, <4>1, <4>3, <5>1, <5>3
      <4>4. QED
        BY <3>3, <4>2, <4>3
    <3>7. QED
      BY <3>1, <3>4, <3>5, <3>6
  <2>6. QED
    BY <2>4, <2>5 DEF s
<1>3. Good = Nat
  <2> HIDE DEF Good
  <2>1. Good \subseteq Nat
    BY DEF Good
  <2>2. QED
    BY <1>1, <1>2, <2>1, NatSetInduction
<1>4. Len(q) \in Good /\ Len(q) <= Len(q) /\ DOMAIN q = 1..Len(q)
  BY <1>3
<1>5. Filters(Only(q, S), Len(q))
  BY <1>4, OnlyIsKept
<1>6. Only(q, S) \in Seq(Event) /\ Len(Only(q, S)) <= Len(q)
  BY <1>5
<1> DEFINE r == Only(q, S)
<1>7. Sorted(r)
  BY <1>5 DEF Sorted
<1>8. Range(r) \subseteq Range(q) \cap S
  <2>1. \A i \in DOMAIN r : r[i] \in S /\ \E j \in DOMAIN q : r[i] = q[j]
    BY <1>4, <1>5
  <2>2. QED
    BY <2>1 DEF Range
<1>9. Range(q) \cap S \subseteq Range(r)
  <2>1. \A j \in DOMAIN q : q[j] \in S => \E i \in DOMAIN r : r[i] = q[j]
    BY <1>4, <1>5
  <2>2. QED
    BY <2>1 DEF Range
<1>10. QED
  BY <1>6, <1>7, <1>8, <1>9

-----------------------------------------------------------------------------
(***************************************************************************)
(* One event.                                                              *)
(***************************************************************************)
(* The retained events and their limit.                                    *)
LEMMA KeepKeeps ==
  ASSUME NEW events \in Seq(Event), Sorted(events), Len(events) <= Retain,
         NEW e \in Event, \A x \in Range(events) : x.seq < e.seq
  PROVE  /\ Keep(events, e) \in Seq(Event)
         /\ Keep(events, e) # <<>>
         /\ Len(Keep(events, e)) <= Retain
         /\ Sorted(Keep(events, e))
         /\ Range(Keep(events, e)) \subseteq Range(events) \cup {e}
         /\ e \in Range(Keep(events, e))
         /\ \A x \in Range(events) : \/ x \in Range(Keep(events, e))
                                     \/ \A y \in Range(Keep(events, e)) : y.seq > x.seq
<1> DEFINE all == Append(events, e)
           n == Len(events)
<1>1. n \in Nat /\ DOMAIN events = 1..n /\ n <= Retain /\ Retain \in Nat
  BY RetainAssumption
<1>2. all \in Seq(Event) /\ Len(all) = n + 1 /\ DOMAIN all = 1..(n + 1)
  BY <1>1
<1>3. all[n + 1] = e /\ \A i \in 1..n : all[i] = events[i]
  BY <1>1
<1>4. \A x \in Event : x.kind # "sync" /\ x.seq \in Nat
  BY DEF Event, Kinds
<1>5. \A i, j \in 1..n : i < j => events[i].seq < events[j].seq
  BY <1>1, <1>4 DEF Sorted
<1>6. \A i \in 1..n : events[i] \in Event /\ events[i].seq < e.seq
  BY <1>1 DEF Range
<1>7. ASSUME NEW i \in 1..(n + 1), NEW j \in 1..(n + 1), i < j
      PROVE  all[i].seq < all[j].seq
  <2>1. i \in 1..n
    BY <1>1, <1>7
  <2>2. CASE j = n + 1
    BY <1>3, <1>6, <2>1, <2>2
  <2>3. CASE j \in 1..n
    BY <1>3, <1>5, <1>7, <2>1, <2>3
  <2>4. QED
    BY <1>1, <2>2, <2>3
<1>8. Sorted(all)
  BY <1>2, <1>7 DEF Sorted
<1>9. Range(all) = Range(events) \cup {e}
  <2>1. Range(all) \subseteq Range(events) \cup {e}
    BY <1>1, <1>2, <1>3 DEF Range
  <2>2. e \in Range(all)
    BY <1>1, <1>2, <1>3 DEF Range
  <2>3. Range(events) \subseteq Range(all)
    <3>1. \A i \in 1..n : i \in 1..(n + 1)
      BY <1>1
    <3>2. QED
      BY <1>1, <1>2, <1>3, <3>1 DEF Range
  <2>4. QED
    BY <2>1, <2>2, <2>3
<1> DEFINE kept == Keep(events, e)
<1>10. CASE ~(n + 1 > Retain)
  <2>1. kept = all
    BY <1>2, <1>10 DEF Keep
  <2>2. Len(all) <= Retain /\ all # <<>>
    <3> HIDE DEF all, n
    <3>1. QED
      BY <1>1, <1>2, <1>10
  <2> HIDE DEF all
  <2>3. QED
    BY <1>2, <1>8, <1>9, <2>1, <2>2
<1>11. CASE n + 1 > Retain
  <2> DEFINE rest == Tail(all)
  <2>1. kept = rest
    BY <1>2, <1>11 DEF Keep
  <2>2. n = Retain
    <3> HIDE DEF all, n
    <3>1. QED
      BY <1>1, <1>11
  <2> HIDE DEF all
  <2>3. all # <<>>
    BY <1>1, <1>2
  <2>4. rest \in Seq(Event) /\ Len(rest) = n /\ \A i \in 1..n : rest[i] = all[i + 1]
    BY <1>1, <1>2, <2>3, HeadTailProperties
  <2> HIDE DEF rest
  <2>5. DOMAIN rest = 1..n /\ rest # <<>> /\ n \in 1..n
    BY <1>1, <2>2, <2>4, RetainAssumption
  <2>6. Sorted(rest)
    <3>1. ASSUME NEW i \in 1..n, NEW j \in 1..n, i < j
          PROVE  rest[i].seq < rest[j].seq
      <4>1. i + 1 \in 1..(n + 1) /\ j + 1 \in 1..(n + 1) /\ i + 1 < j + 1
        BY <1>1, <3>1
      <4>2. QED
        BY <1>7, <2>4, <4>1
    <3>2. QED
      BY <2>5, <3>1 DEF Sorted
  <2>7. Range(rest) \subseteq Range(all)
    <3>1. \A i \in 1..n : i + 1 \in 1..(n + 1)
      BY <1>1
    <3>2. QED
      BY <1>2, <2>4, <2>5, <3>1 DEF Range
  <2>8. e \in Range(rest)
    BY <1>3, <2>4, <2>5 DEF Range
  <2>9. ASSUME NEW i \in 1..(n + 1)
        PROVE  all[i] \in Range(rest) \/ \A y \in Range(rest) : y.seq > all[i].seq
    <3>1. CASE i = 1
      <4>1. \A j \in 1..n : j + 1 \in 1..(n + 1) /\ 1 < j + 1 /\ 1 \in 1..(n + 1)
        BY <1>1
      <4>2. \A j \in 1..n : all[1].seq < rest[j].seq
        BY <1>7, <2>4, <4>1
      <4>3. all[1] \in Event /\ \A j \in 1..n : rest[j] \in Event
        BY <1>1, <1>2, <2>4, <2>5
      <4>4. \A j \in 1..n : rest[j].seq > all[1].seq
        BY <1>4, <4>2, <4>3
      <4>5. QED
        BY <2>5, <3>1, <4>4 DEF Range
    <3>2. CASE i # 1
      <4>1. i - 1 \in 1..n /\ (i - 1) + 1 = i
        BY <1>1, <3>2
      <4>2. rest[i - 1] = all[i]
        BY <2>4, <4>1
      <4>3. QED
        BY <2>5, <4>1, <4>2 DEF Range
    <3>3. QED
      BY <3>1, <3>2
  <2>10. \A x \in Range(events) : x \in Range(rest) \/ \A y \in Range(rest) : y.seq > x.seq
    <3>1. \A x \in Range(events) : \E i \in 1..(n + 1) : x = all[i]
      BY <1>2, <1>9 DEF Range
    <3>2. QED
      BY <2>9, <3>1
  <2>11. Len(rest) <= Retain
    BY <2>2, <2>4
  <2>12. QED
    BY <1>9, <2>1, <2>4, <2>5, <2>6, <2>7, <2>8, <2>10, <2>11
<1>12. QED
  BY <1>10, <1>11

(***************************************************************************)
(* The events of a step, as they accumulate from the server s0.            *)
(***************************************************************************)
NewEvent(s, kind) ==
  [kind |-> kind, seq |-> s.seq + 1, epoch |-> s.epoch,
   turn |-> IF kind = "queued" THEN 0 ELSE s.turn]

(* The server after one event.                                             *)
OneLater(old, new) == new = [old EXCEPT !.seq = old.seq + 1, !.events = new.events]

(* What may be sent on top of the events of s0.                            *)
Adds(s0, s, e) ==
  /\ Of(s, e) /\ e.seq > s0.seq
  /\ e.kind = "user" => e.turn > s0.turns
  /\ e.kind = "final" => e.turn = s0.turn /\ ~s0.disowned
  /\ e.turn # 0 => e.turn >= s0.turns

(* Every message is retained, or nothing is that was before it.            *)
Retains(S, s) ==
  \A e \in S : IsMessage(e) =>
    \/ e \in Range(s.events)
    \/ \A f \in Range(s.events) : f.seq > e.seq

(* io is s0 after some appends and trims: the events it sends are those it *)
(* appended, and what it retains is the newest.                            *)
Emission(s0, io) ==
  /\ io \in [server : Servers, sent : Seq(Event)]
  /\ Ordered(io.server)
  /\ io.server.epoch = s0.epoch /\ s0.turns <= io.server.turns /\ s0.seq <= io.server.seq
  /\ Sorted(io.sent) /\ InOrder(Range(io.sent))
  /\ \A e \in Range(io.sent) : Adds(s0, io.server, e)
  /\ Range(io.server.events) \subseteq Range(s0.events) \cup Range(io.sent)
  /\ Retains(Range(s0.events) \cup Range(io.sent), io.server)
  /\ io.server.events = <<>> => s0.events = <<>> /\ io.sent = <<>>

(* When an event of this kind may follow.                                  *)
MayEmit(s0, io, kind) ==
  /\ kind \in Kinds
  /\ kind \notin {"queued", "stop"} => io.server.turn # 0
  /\ kind = "user" =>
       /\ io.server.turn > s0.turns
       /\ \A f \in Range(io.server.events) \cup Range(io.sent) : IsMessage(f) => f.turn < io.server.turn
  /\ kind = "final" => io.server.turn = s0.turn /\ ~s0.disowned

(* An append adds its element.                                             *)
LEMMA AppendRange ==
  ASSUME NEW E, NEW q \in Seq(E), NEW e \in E
  PROVE  Append(q, e) \in Seq(E) /\ Range(Append(q, e)) = Range(q) \cup {e}
<1> DEFINE all == Append(q, e)
           n == Len(q)
<1>1. all \in Seq(E) /\ n \in Nat /\ DOMAIN q = 1..n /\ DOMAIN all = 1..(n + 1)
  OBVIOUS
<1>2. all[n + 1] = e /\ \A i \in 1..n : all[i] = q[i]
  OBVIOUS
<1>3. \A i \in 1..(n + 1) : i \in 1..n \/ i = n + 1
  BY <1>1
<1>4. \A i \in 1..n : i \in 1..(n + 1)
  BY <1>1
<1>5. n + 1 \in 1..(n + 1)
  BY <1>1
<1> HIDE DEF all, n
<1>6. QED
  BY <1>1, <1>2, <1>3, <1>4, <1>5 DEF Range, all

(* One more event: everything accumulates as it should.                    *)
LEMMA EmitStep ==
  ASSUME NEW s0 \in Servers, NEW io, Emission(s0, io), NEW kind, MayEmit(s0, io, kind),
         \A e \in Range(s0.events) : e.seq <= s0.seq
  PROVE  LET next == Emit(io, kind)
             s == io.server
             e == NewEvent(s, kind)
         IN  /\ Emission(s0, next)
             /\ next.sent = Append(io.sent, e) /\ e \in Event
             /\ e \in Range(next.server.events)
             /\ OneLater(s, next.server)
             /\ Range(next.server.events) \subseteq Range(s.events) \cup {e}
             /\ Headed(s) \/ kind = "user" => Headed(next.server)
<1> DEFINE s == io.server
           e == NewEvent(s, kind)
           others == Only(s.events, Range(s.events) \ Replaced(s, kind))
           kept == Keep(others, e)
           next == Emit(io, kind)
<1>1. io \in [server : Servers, sent : Seq(Event)] /\ Ordered(s)
  BY DEF Emission
<1>2. s \in Servers /\ io.sent \in Seq(Event)
  BY <1>1
<1>3. /\ s.seq \in Nat /\ s.turn \in Nat /\ s.turns \in Nat /\ s.epoch \in Nat
      /\ s.events \in Seq(Event)
  BY <1>2 DEF Servers
<1>4. s0.seq \in Nat /\ s0.turns \in Nat /\ s0.events \in Seq(Event)
  BY DEF Servers
<1>5. kind \in Kinds /\ e \in Event
  BY <1>3 DEF MayEmit, NewEvent, Event
<1>6. /\ e.kind = kind /\ e.seq = s.seq + 1 /\ e.epoch = s.epoch
      /\ e.turn = IF kind = "queued" THEN 0 ELSE s.turn
  BY DEF NewEvent
<1>7. next = [server |-> [s EXCEPT !.seq = s.seq + 1, !.events = kept], sent |-> Append(io.sent, e)]
  BY DEF Emit, NewEvent
<1>8. /\ others \in Seq(Event) /\ Len(others) <= Len(s.events) /\ Sorted(others)
      /\ Range(others) = Range(s.events) \cap (Range(s.events) \ Replaced(s, kind))
  BY <1>1, <1>3, OnlyFilters DEF Ordered
<1> HIDE DEF e, others, next
<1>9. /\ \A x \in Range(s.events) : x \in Event /\ x.seq \in Nat /\ x.turn \in Nat
      /\ \A x \in Range(s0.events) : x \in Event /\ x.seq \in Nat /\ x.turn \in Nat
      /\ \A x \in Range(io.sent) : x \in Event /\ x.seq \in Nat /\ x.turn \in Nat
  <2>1. ASSUME NEW q \in Seq(Event), NEW x \in Range(q) PROVE x \in Event
    BY <2>1 DEF Range
  <2>2. \A x \in Event : x.seq \in Nat /\ x.turn \in Nat
    BY DEF Event
  <2>3. QED
    BY <1>2, <1>3, <1>4, <2>1, <2>2
<1>10. \A x \in Range(s.events) : Of(s, x) /\ x.seq < e.seq
  BY <1>1, <1>3, <1>6, <1>9 DEF Ordered, Of
<1>11. Len(others) <= Retain
  BY <1>1, <1>3, <1>8, RetainAssumption DEF Ordered
<1>12. /\ kept \in Seq(Event) /\ kept # <<>> /\ Len(kept) <= Retain /\ Sorted(kept)
       /\ Range(kept) \subseteq Range(others) \cup {e} /\ e \in Range(kept)
       /\ \A x \in Range(others) : x \in Range(kept) \/ \A y \in Range(kept) : y.seq > x.seq
  BY <1>5, <1>8, <1>10, <1>11, KeepKeeps
<1> HIDE DEF kept
<1>13. Range(kept) \subseteq Range(s.events) \cup {e}
  BY <1>8, <1>12
<1> DEFINE after == [s EXCEPT !.seq = s.seq + 1, !.events = kept]
<1>14. /\ after \in Servers
       /\ after.seq = s.seq + 1 /\ after.events = kept /\ after.turns = s.turns
       /\ after.turn = s.turn /\ after.epoch = s.epoch
  <2>1. after \in Servers
    <3>1. s.seq + 1 \in Nat
      BY <1>3
    <3> HIDE DEF s
    <3>2. QED
      BY <1>2, <1>12, <3>1 DEF Servers
  <2>2. DOMAIN s = {"live", "seq", "events", "turns", "turn", "disowned", "stops", "answered",
                    "start", "queue", "ticks", "epoch"}
    <3> HIDE DEF s
    <3>1. QED
      BY <1>2 DEF Servers
  <2>3. QED
    BY <2>1, <2>2
<1>15. next.server = after /\ next.sent = Append(io.sent, e)
  BY <1>7
<1> HIDE DEF s, after
<1>16. (kind \notin {"queued", "stop"} => s.turn # 0) /\ (s.turn # 0 => s.turn = s.turns)
  BY <1>1 DEF MayEmit, Ordered, s
<1>17. e.turn <= s.turns /\ (IsMessage(e) => e.turn # 0)
  BY <1>1, <1>3, <1>6, <1>16 DEF IsMessage, Ordered
<1>18. Of(after, e) /\ \A x \in Range(s.events) : Of(after, x)
  BY <1>3, <1>6, <1>9, <1>10, <1>14, <1>17 DEF Of
<1>19. /\ s.epoch = s0.epoch /\ s0.turns <= s.turns /\ s0.seq <= s.seq
       /\ Sorted(io.sent) /\ InOrder(Range(io.sent))
       /\ \A x \in Range(io.sent) : Adds(s0, s, x)
       /\ Range(s.events) \subseteq Range(s0.events) \cup Range(io.sent)
       /\ Retains(Range(s0.events) \cup Range(io.sent), s)
  BY DEF Emission, s
<1>20. \A x \in Range(io.sent) : Adds(s0, after, x) /\ x.seq < e.seq
  BY <1>3, <1>4, <1>6, <1>9, <1>14, <1>19 DEF Adds, Of
<1>21. Adds(s0, after, e)
  BY <1>3, <1>4, <1>6, <1>16, <1>18, <1>19 DEF Adds, MayEmit, s
<1>22. ASSUME NEW x \in Range(s.events) \cup Range(io.sent)
       PROVE  Follows(x, e)
  <2>1. x.turn \in Nat /\ x.turn <= s.turns
    BY <1>9, <1>10, <1>19, <1>22 DEF Of, Adds
  <2>2. e.turn # 0 => e.turn = s.turns
    BY <1>6, <1>16
  <2>3. x.turn # 0 /\ e.turn # 0 => x.turn <= e.turn
    BY <2>1, <2>2
  <2>4. IsMessage(x) /\ IsMessage(e) /\ x.turn = e.turn => e.kind = "final"
    BY <1>3, <1>6, <2>1 DEF IsMessage, MayEmit, s
  <2>5. QED
    BY <2>3, <2>4 DEF Follows
<1>23. \A x, y \in {e} : ~(x.seq < y.seq)
  BY <1>3, <1>6
<1>24. ASSUME NEW S, S \subseteq Range(s.events) \cup Range(io.sent), InOrder(S),
              NEW T, T \subseteq S \cup {e}
       PROVE  InOrder(T)
  <2>1. SUFFICES ASSUME NEW x \in T, NEW y \in T, x.seq < y.seq PROVE Follows(x, y)
    BY DEF InOrder
  <2>2. CASE y = e
    BY <1>22, <1>23, <1>24, <2>1, <2>2
  <2>3. CASE x = e /\ y # e
    <3>1. y \in Range(s.events) \cup Range(io.sent)
      BY <1>24, <2>3
    <3>2. y.seq < e.seq /\ y.seq \in Nat /\ e.seq \in Nat
      BY <1>3, <1>6, <1>9, <1>10, <1>20, <3>1
    <3>3. QED
      BY <2>1, <2>3, <3>2
  <2>4. CASE x # e /\ y # e
    BY <1>24, <2>1, <2>4 DEF InOrder
  <2>5. QED
    BY <2>2, <2>3, <2>4
<1>25. InOrder(Range(s.events)) /\ Sorted(s.events)
  BY <1>1 DEF Ordered, s
<1>26. Ordered(after)
  <2>1. InOrder(Range(kept))
    BY <1>13, <1>24, <1>25
  <2>2. after.turn \in {0, after.turns}
    BY <1>1, <1>14 DEF Ordered, s
  <2>3. QED
    BY <1>12, <1>13, <1>14, <1>18, <2>1, <2>2 DEF Ordered
<1> DEFINE sent == Append(io.sent, e)
<1>27. sent \in Seq(Event) /\ Range(sent) = Range(io.sent) \cup {e}
  BY <1>2, <1>5, AppendRange
<1>28. Sorted(sent)
  <2> DEFINE n == Len(io.sent)
  <2>1. n \in Nat /\ DOMAIN io.sent = 1..n /\ DOMAIN sent = 1..(n + 1)
    BY <1>2
  <2>2. sent[n + 1] = e /\ \A i \in 1..n : sent[i] = io.sent[i]
    BY <1>2
  <2> HIDE DEF n, sent
  <2>3. ASSUME NEW i \in 1..(n + 1), NEW j \in 1..(n + 1), i < j,
               sent[i].kind # "sync", sent[j].kind # "sync"
        PROVE  sent[i].seq < sent[j].seq
    <3>1. i \in 1..n /\ i \in DOMAIN io.sent
      BY <2>1, <2>3
    <3>2. CASE j = n + 1
      <4>1. io.sent[i] \in Range(io.sent)
        BY <3>1 DEF Range
      <4>2. QED
        BY <1>20, <2>2, <3>1, <3>2, <4>1
    <3>3. CASE j \in 1..n
      BY <1>19, <2>1, <2>2, <2>3, <3>1, <3>3 DEF Sorted
    <3>4. QED
      BY <2>1, <3>2, <3>3
  <2>4. QED
    BY <2>1, <2>3 DEF Sorted
<1>29. InOrder(Range(sent))
  BY <1>19, <1>24, <1>27
<1>30. \A x \in Range(kept) : x \in Event /\ x.seq \in Nat
  BY <1>3, <1>5, <1>6, <1>9, <1>13
<1>31. Retains(Range(s0.events) \cup Range(sent), after)
  <2>1. SUFFICES ASSUME NEW x \in Range(s0.events) \cup Range(sent), IsMessage(x), x \notin Range(kept)
                 PROVE  \A f \in Range(kept) : f.seq > x.seq
    BY <1>14 DEF Retains
  <2>2. x # e /\ x \in Range(s0.events) \cup Range(io.sent)
    BY <1>12, <1>27, <2>1
  <2>3. x.seq \in Nat /\ x.seq < e.seq
    BY <1>3, <1>4, <1>6, <1>9, <1>19, <1>20, <2>2
  <2>4. CASE x \in Range(s.events)
    <3>1. x \notin Replaced(s, kind)
      BY <2>1 DEF Replaced, IsMessage
    <3>2. x \in Range(others)
      BY <1>8, <2>4, <3>1
    <3>3. QED
      BY <1>12, <2>1, <3>2
  <2>5. CASE x \notin Range(s.events)
    <3>1. \A f \in Range(s.events) : f.seq > x.seq
      BY <1>19, <2>1, <2>2, <2>5 DEF Retains
    <3>2. QED
      BY <1>3, <1>6, <1>13, <2>3, <3>1
  <2>6. QED
    BY <2>4, <2>5
<1>32. Emission(s0, next)
  <2>1. next \in [server : Servers, sent : Seq(Event)]
    BY <1>7, <1>14, <1>27 DEF after
  <2>2. Range(kept) \subseteq Range(s0.events) \cup Range(sent)
    BY <1>13, <1>19, <1>27
  <2>3. \A x \in Range(sent) : Adds(s0, after, x)
    BY <1>20, <1>21, <1>27
  <2>4. s0.seq <= after.seq
    BY <1>3, <1>4, <1>14, <1>19
  <2> HIDE DEF sent
  <2>5. QED
    BY <1>12, <1>14, <1>15, <1>19, <1>26, <1>28, <1>29, <1>31, <2>1, <2>2, <2>3, <2>4
    DEF Emission, sent
<1>33. Headed(s) \/ kind = "user" => Headed(after)
  <2>1. SUFFICES ASSUME Headed(s) \/ kind = "user", s.turn # 0,
                        NEW x \in Range(kept), x.turn \notin {0, s.turn}
                 PROVE  \E y \in Range(kept) : y.turn = s.turn /\ y.kind = "user"
    BY <1>14 DEF Headed, Running
  <2>2. CASE kind = "user"
    BY <1>6, <1>12, <2>2
  <2>3. CASE kind # "user"
    <3>1. x # e /\ x \in Range(s.events)
      BY <1>6, <1>13, <2>1
    <3>2. PICK y \in Range(s.events) : y.turn = s.turn /\ y.kind = "user"
      BY <2>1, <2>3, <3>1 DEF Headed, Running
    <3>3. y \in Range(others)
      BY <1>8, <3>2 DEF Replaced
    <3>4. SUFFICES ASSUME y \notin Range(kept) PROVE FALSE
      BY <3>2
    <3>5. y.seq < x.seq
      BY <1>9, <1>12, <2>1, <3>1, <3>2, <3>3, <3>4
    <3>6. Follows(y, x)
      BY <1>25, <3>1, <3>2, <3>5 DEF InOrder
    <3>7. x.turn <= s.turn /\ s.turn <= x.turn
      BY <1>1, <1>9, <1>10, <2>1, <3>1, <3>2, <3>6 DEF Follows, Of, Ordered, s
    <3>8. QED
      BY <1>3, <1>9, <2>1, <3>1, <3>7
  <2>4. QED
    BY <2>2, <2>3
<1>34. QED
  BY <1>5, <1>12, <1>13, <1>14, <1>15, <1>32, <1>33 DEF next, e, s, after, OneLater

(* What a sequence of events holds are events.                             *)
LEMMA EventIn ==
  ASSUME NEW q \in Seq(Event), NEW e \in Range(q)
  PROVE  /\ e \in Event /\ e.seq \in Nat /\ e.turn \in Nat /\ e.epoch \in Nat
         /\ e.kind \in Kinds /\ e.kind # "sync"
<1>1. e \in Event
  BY DEF Range
<1>2. QED
  BY <1>1 DEF Event, Kinds

(* A step starts with no event.                                            *)
LEMMA NoEmission ==
  ASSUME NEW s0 \in Servers, Ordered(s0)
  PROVE  Emission(s0, From(s0))
<1>1. From(s0) \in [server : Servers, sent : Seq(Event)]
  BY DEF From
<1>2. From(s0).server = s0 /\ From(s0).sent = <<>> /\ Range(<<>>) = {}
  BY DEF From, Range
<1>3. s0.turns \in Nat /\ s0.seq \in Nat
  BY DEF Servers
<1>4. Sorted(<<>>) /\ InOrder({})
  BY DEF Sorted, InOrder
<1>5. QED
  <2>1. Retains(Range(s0.events) \cup {}, s0)
    BY DEF Retains
  <2>2. s0.turns <= s0.turns /\ s0.seq <= s0.seq
    BY <1>3
  <2>3. QED
    BY <1>1, <1>2, <1>4, <2>1, <2>2 DEF Emission

(* What else a step does to the server does not concern its events.        *)
LEMMA Amended ==
  ASSUME NEW s0 \in Servers, NEW io, Emission(s0, io), NEW s \in Servers,
         s.seq = io.server.seq, s.events = io.server.events, s.epoch = io.server.epoch,
         s.turns >= io.server.turns, s.turn \in {0, s.turns}
  PROVE  Emission(s0, [server |-> s, sent |-> io.sent])
<1> DEFINE new == [server |-> s, sent |-> io.sent]
<1>1. io \in [server : Servers, sent : Seq(Event)] /\ io.server.turns \in Nat
  BY DEF Emission, Servers
<1>2. /\ s.turns \in Nat /\ s0.turns \in Nat /\ s.events \in Seq(Event)
      /\ s.seq \in Nat /\ s0.seq \in Nat
  BY DEF Servers
<1>3. new \in [server : Servers, sent : Seq(Event)] /\ new.server = s /\ new.sent = io.sent
  BY <1>1
<1> HIDE DEF new
<1>4. ASSUME NEW e \in Event, Of(io.server, e) PROVE Of(s, e)
  <2>1. e.turn \in Nat
    BY DEF Event
  <2>2. QED
    BY <1>1, <1>2, <1>4, <2>1 DEF Of
<1>5. \A e \in Range(io.sent) : e \in Event
  BY <1>1 DEF Range
<1>6. \A e \in Range(s.events) : e \in Event
  BY <1>2 DEF Range
<1>7. Ordered(s)
  BY <1>4, <1>6 DEF Emission, Ordered
<1>8. \A e \in Range(io.sent) : Adds(s0, s, e)
  BY <1>4, <1>5 DEF Emission, Adds
<1>9. s0.turns <= s.turns
  BY <1>1, <1>2 DEF Emission
<1>10. Retains(Range(s0.events) \cup Range(io.sent), s)
  BY DEF Emission, Retains
<1>11. QED
  BY <1>3, <1>7, <1>8, <1>9, <1>10 DEF Emission, new

(* Whatever a tab could still get at, it can get at after a step.          *)
LEMMA AtLeastKept ==
  ASSUME NEW s0 \in Servers, NEW io, Emission(s0, io), Ordered(s0),
         NEW m, NEW q \in Nat, AtLeast(s0, m, q)
  PROVE  AtLeast(io.server, m, q)
<1>1. s0.events \in Seq(Event) /\ s0.seq \in Nat
  BY DEF Servers
<1>2. io.server \in Servers /\ io.sent \in Seq(Event) /\ io.server.events \in Seq(Event)
  BY DEF Emission, Servers
<1>3. /\ \A e \in Range(s0.events) : e.seq \in Nat /\ e.seq <= s0.seq
      /\ \A e \in Range(io.sent) : e.seq \in Nat /\ e.seq > s0.seq
  BY <1>1, <1>2, EventIn DEF Ordered, Of, Emission, Adds
<1>4. Range(io.server.events) \subseteq Range(s0.events) \cup Range(io.sent)
  BY DEF Emission
<1>5. CASE \E e \in Range(s0.events) : IsMessage(e) /\ Says(e) = m /\ e.seq >= q
  <2>1. PICK e \in Range(s0.events) : IsMessage(e) /\ Says(e) = m /\ e.seq >= q
    BY <1>5
  <2>2. \/ e \in Range(io.server.events)
        \/ \A f \in Range(io.server.events) : f.seq > e.seq
    BY <2>1 DEF Emission, Retains
  <2>3. s0.events # <<>>
    BY <2>1 DEF Range
  <2>4. io.server.events # <<>>
    BY <2>3 DEF Emission
  <2>5. ASSUME \A f \in Range(io.server.events) : f.seq > e.seq
        PROVE  \A f \in Range(io.server.events) : f.seq > q
    BY <1>3, <1>4, <2>1, <2>5
  <2>6. QED
    BY <2>1, <2>2, <2>4, <2>5 DEF AtLeast
<1>6. CASE s0.events # <<>> /\ \A e \in Range(s0.events) : e.seq > q
  <2>1. s0.events[1] \in Range(s0.events)
    BY <1>1, <1>6 DEF Range
  <2>2. s0.seq > q
    BY <1>1, <1>3, <1>6, <2>1
  <2>3. \A f \in Range(io.server.events) : f.seq > q
    BY <1>1, <1>3, <1>4, <1>6, <2>2
  <2>4. io.server.events # <<>>
    BY <1>6 DEF Emission
  <2>5. QED
    BY <2>3, <2>4 DEF AtLeast
<1>7. QED
  BY <1>5, <1>6 DEF AtLeast

(* What a step sends can be got at.                                        *)
LEMMA AtLeastSent ==
  ASSUME NEW s0, NEW io, Emission(s0, io), NEW e \in Range(io.sent), IsMessage(e)
  PROVE  AtLeast(io.server, Says(e), e.seq)
<1>1. \/ e \in Range(io.server.events)
      \/ \A f \in Range(io.server.events) : f.seq > e.seq
  BY DEF Emission, Retains
<1>2. io.sent # <<>>
  BY DEF Range
<1>3. io.server.events # <<>>
  BY <1>2 DEF Emission
<1>4. e.seq \in Nat
  BY EventIn DEF Emission
<1>5. e.seq >= e.seq
  BY <1>4
<1>6. QED
  BY <1>1, <1>3, <1>5 DEF AtLeast

(* From further back there is at least as much to get at.                  *)
LEMMA AtLeastBefore ==
  ASSUME NEW s \in Servers, NEW m, NEW q \in Nat, NEW r \in Nat, r <= q, AtLeast(s, m, q)
  PROVE  AtLeast(s, m, r)
<1>1. \A e \in Range(s.events) : e.seq \in Nat
  BY EventIn DEF Servers
<1>2. QED
  BY <1>1 DEF AtLeast

-----------------------------------------------------------------------------
(***************************************************************************)
(* A step of the server, as the others see it: io is what it publishes.    *)
(***************************************************************************)
(* The last event that tells whether a turn runs tells what is the case.   *)
Announces(s0, io) ==
  \/ \E i \in DOMAIN io.sent :
       /\ Telling(io.sent[i]) /\ Tells(io.sent[i]) = Running(io.server)
       /\ \A j \in DOMAIN io.sent : j > i => ~Telling(io.sent[j])
  \/ /\ \A j \in DOMAIN io.sent : ~Telling(io.sent[j])
     /\ Running(io.server) = Running(s0) /\ (Announced(io.server) => Announced(s0))

(* A step of the server that publishes io: what the tab, the requests and  *)
(* the snapshot can tell of it.                                            *)
Serves(io) ==
  /\ Emission(server, io) /\ Headed(io.server) /\ Owned(io.server) /\ Publish(io)
  /\ Announced(io.server) => Announces(server, io)
  /\ UNCHANGED <<tab, snapshot, flaws>>
  /\ said \subseteq said'
  /\ \A m \in said' \ said : /\ m.turn = server'.turn /\ ~server'.disowned
                             /\ \E e \in Range(io.sent) : IsMessage(e) /\ Says(e) = m
  /\ \/ /\ server'.turn = server.turn /\ server'.turns = server.turns
        /\ server.disowned => server'.disowned
     \/ /\ server'.turns = server.turns + 1 /\ server'.turn = server'.turns
        /\ ~server.disowned /\ ~server'.disowned
     \/ server'.turns = server.turns /\ server'.turn = 0 /\ CurrentTurn(server) # 0
  /\ \A r \in Requests : records'[r].state = "done" =>
       \/ records'[r] = records[r]
       \/ /\ records'[r].cursor = server.seq /\ records'[r].before = Due
          /\ records'[r].running => records'[r].turn # 0

(* The wire with some more events.                                         *)
LEMMA WireGrows ==
  ASSUME NEW w \in Seq(Event \cup SyncEvent), NEW new \in Seq(Event)
  PROVE  /\ w \o new \in Seq(Event \cup SyncEvent)
         /\ Len(w) \in Nat /\ Len(new) \in Nat
         /\ DOMAIN w = 1..Len(w) /\ DOMAIN new = 1..Len(new)
         /\ DOMAIN (w \o new) = 1..(Len(w) + Len(new))
         /\ \A i \in 1..Len(w) : (w \o new)[i] = w[i]
         /\ \A i \in 1..Len(new) : (w \o new)[Len(w) + i] = new[i]
         /\ \A i \in DOMAIN (w \o new) :
              i \in DOMAIN w \/ \E j \in DOMAIN new : i = Len(w) + j
         /\ Events(w \o new) = Events(w) \cup Range(new)
<1> DEFINE all == w \o new
           n == Len(w)
           k == Len(new)
<1>1. new \in Seq(Event \cup SyncEvent)
  <2>1. Event \subseteq Event \cup SyncEvent
    OBVIOUS
  <2>2. QED
    BY <2>1, SeqMonotonic
<1>2. n \in Nat /\ k \in Nat /\ DOMAIN w = 1..n /\ DOMAIN new = 1..k
  BY LenProperties
<1>3. /\ all \in Seq(Event \cup SyncEvent) /\ Len(all) = n + k
      /\ \A i \in 1..(n + k) : all[i] = IF i <= n THEN w[i] ELSE new[i - n]
  BY <1>1, ConcatProperties
<1>4. DOMAIN all = 1..(n + k)
  BY <1>3, LenProperties
<1> HIDE DEF all, n, k
<1>5. \A i \in 1..n : i \in 1..(n + k) /\ all[i] = w[i]
  BY <1>2, <1>3
<1>6. \A i \in 1..k : n + i \in 1..(n + k) /\ all[n + i] = new[i]
  BY <1>2, <1>3
<1>7. ASSUME NEW i \in 1..(n + k) PROVE i \in 1..n \/ \E j \in 1..k : i = n + j
  <2>1. i > n => i - n \in 1..k /\ i = n + (i - n)
    BY <1>2
  <2>2. QED
    BY <1>2, <2>1
<1>8. \A i \in 1..k : new[i].kind # "sync"
  <2>1. \A i \in 1..k : new[i] \in Range(new)
    BY <1>2 DEF Range
  <2>2. QED
    BY <2>1, EventIn
<1>9. Events(all) = Events(w) \cup Range(new)
  <2>1. Events(all) \subseteq Events(w) \cup Range(new)
    <3>1. ASSUME NEW i \in 1..(n + k), all[i].kind # "sync"
          PROVE  all[i] \in Events(w) \cup Range(new)
      BY <1>2, <1>5, <1>6, <1>7, <3>1 DEF Events, Range
    <3>2. QED
      BY <1>4, <3>1 DEF Events
  <2>2. Events(w) \subseteq Events(all)
    BY <1>2, <1>4, <1>5 DEF Events
  <2>3. Range(new) \subseteq Events(all)
    BY <1>2, <1>4, <1>6, <1>8 DEF Events, Range
  <2>4. QED
    BY <2>1, <2>2, <2>3
<1>10. QED
  BY <1>2, <1>3, <1>4, <1>5, <1>6, <1>7, <1>9 DEF all, n, k

(* What is on the wire is in the wire's types.                             *)
LEMMA OnWire ==
  ASSUME NEW w \in Seq(Event \cup SyncEvent)
  PROVE  /\ \A i \in DOMAIN w : w[i].seq \in Nat /\ (w[i].kind # "sync" => w[i] \in Events(w))
         /\ \A e \in Events(w) : /\ e \in Event /\ e.seq \in Nat /\ e.turn \in Nat
                                 /\ e.epoch \in Nat /\ e.kind # "sync"
<1>1. \A i \in DOMAIN w : w[i] \in Event \cup SyncEvent
  OBVIOUS
<1>2. \A e \in Event : e.seq \in Nat /\ e.turn \in Nat /\ e.epoch \in Nat /\ e.kind # "sync"
  BY DEF Event, Kinds
<1>3. \A e \in SyncEvent : e.seq \in Nat /\ e.kind = "sync"
  BY DEF SyncEvent
<1>4. QED
  BY <1>1, <1>2, <1>3 DEF Events

(* The parts of an emission, with their types.                             *)
LEMMA EmissionTypes ==
  ASSUME NEW s0 \in Servers, NEW io, Emission(s0, io)
  PROVE  /\ io.server \in Servers /\ io.sent \in Seq(Event) /\ io.server.events \in Seq(Event)
         /\ s0.events \in Seq(Event)
         /\ io.server.seq \in Nat /\ s0.seq \in Nat /\ s0.seq <= io.server.seq
         /\ io.server.turns \in Nat /\ s0.turns \in Nat /\ s0.turns <= io.server.turns
         /\ io.server.turn \in Nat /\ s0.turn \in Nat
         /\ io.server.epoch = s0.epoch /\ s0.epoch \in Nat
         /\ \A e \in Range(io.sent) : /\ e \in Event /\ e.seq \in Nat /\ e.turn \in Nat
                                      /\ e.epoch \in Nat /\ e.kind # "sync"
                                      /\ Adds(s0, io.server, e) /\ Of(io.server, e)
<1>1. io.server \in Servers /\ io.sent \in Seq(Event)
  BY DEF Emission
<1>2. /\ io.server.seq \in Nat /\ s0.seq \in Nat /\ io.server.turns \in Nat /\ s0.turns \in Nat
      /\ io.server.turn \in Nat /\ s0.turn \in Nat /\ s0.epoch \in Nat
      /\ io.server.events \in Seq(Event) /\ s0.events \in Seq(Event)
  BY <1>1 DEF Servers
<1>3. \A e \in Range(io.sent) : Adds(s0, io.server, e) /\ Of(io.server, e)
  BY DEF Emission, Adds
<1>4. QED
  BY <1>1, <1>2, <1>3, EventIn DEF Emission

(* The stream stays in order, and what is new on it has not been seen.     *)
LEMMA ServesWire ==
  ASSUME Types, Sane(server), OnTheWire, NEW io, Serves(io)
  PROVE  OnTheWire'
<1> DEFINE sent == io.sent
           s == io.server
<1>1. server \in Servers /\ wire \in Seq(Event \cup SyncEvent) /\ tab \in Tabs
  BY DEF Types
<1>2. /\ Emission(server, io) /\ server' = s /\ tab' = tab
      /\ wire' = IF tab.conn = "open" THEN wire \o sent ELSE wire
  BY DEF Serves, Publish
<1>3. /\ sent \in Seq(Event) /\ s.seq \in Nat /\ server.seq \in Nat /\ server.seq <= s.seq
      /\ s.turns \in Nat /\ server.turns \in Nat /\ server.turns <= s.turns
      /\ s.epoch = server.epoch /\ server.epoch \in Nat
      /\ \A e \in Range(sent) : /\ e.seq \in Nat /\ e.turn \in Nat /\ e.kind # "sync"
                                /\ Adds(server, s, e) /\ Of(s, e)
  BY <1>1, <1>2, EmissionTypes
<1>4. Sorted(sent) /\ InOrder(Range(sent))
  BY <1>2 DEF Emission
<1> HIDE DEF sent, s
<1>5. \A e \in Events(wire) : /\ e.seq \in Nat /\ e.turn \in Nat /\ Of(server, e)
                              /\ <<e.epoch, e.seq>> \notin tab.seen
  BY <1>1, OnWire DEF OnTheWire
<1>6. ASSUME NEW e \in Events(wire) PROVE Of(s, e)
  <2>1. e.seq \in Nat /\ e.turn \in Nat /\ Of(server, e)
    BY <1>5
  <2>2. QED
    BY <1>3, <2>1 DEF Of
<1>7. \A x \in tab.seen : x \in Nat \X Nat
  BY <1>1 DEF Tabs
<1>8. \A x \in tab.seen : /\ x[1] <= server.epoch /\ x[2] <= tab.cursor
                          /\ x[1] = s.epoch => x[2] <= s.seq
  BY <1>3, <1>7 DEF OnTheWire
<1>9. CASE tab.conn # "open"
  <2>1. wire' = wire
    BY <1>2, <1>9
  <2>2. \A i \in DOMAIN wire : wire[i].seq <= s.seq
    BY <1>1, <1>3, OnWire DEF OnTheWire
  <2>3. QED
    BY <1>2, <1>3, <1>5, <1>6, <1>8, <2>1, <2>2 DEF OnTheWire
<1>10. CASE tab.conn = "open"
  <2> DEFINE all == wire \o sent
             n == Len(wire)
             k == Len(sent)
  <2>1. /\ n \in Nat /\ k \in Nat /\ DOMAIN wire = 1..n /\ DOMAIN sent = 1..k
        /\ DOMAIN all = 1..(n + k)
        /\ \A i \in 1..n : all[i] = wire[i]
        /\ \A i \in 1..k : all[n + i] = sent[i]
        /\ \A i \in DOMAIN all : i \in DOMAIN wire \/ \E j \in DOMAIN sent : i = n + j
        /\ Events(all) = Events(wire) \cup Range(sent)
    BY <1>1, <1>3, WireGrows
  <2>2. wire' = all
    BY <1>2, <1>10
  <2> HIDE DEF all, n, k
  <2>3. \A i \in DOMAIN wire : wire[i].seq \in Nat /\ wire[i].seq <= server.seq
    BY <1>1, OnWire DEF OnTheWire
  <2>4. \A j \in DOMAIN sent : sent[j].seq > server.seq /\ sent[j].seq \in Nat /\ sent[j].seq <= s.seq
    <3>1. \A j \in DOMAIN sent : sent[j] \in Range(sent)
      BY DEF Range
    <3>2. QED
      BY <1>3, <3>1 DEF Adds, Of
  <2>5. Sorted(all)
    <3>1. SUFFICES ASSUME NEW i \in DOMAIN all, NEW j \in DOMAIN all, i < j,
                          all[i].kind # "sync", all[j].kind # "sync"
                   PROVE  all[i].seq < all[j].seq
      BY DEF Sorted
    <3>2. CASE i \in DOMAIN wire /\ j \in DOMAIN wire
      BY <2>1, <3>1, <3>2 DEF OnTheWire, Sorted
    <3>3. CASE i \in DOMAIN wire /\ j \notin DOMAIN wire
      <4>1. PICK b \in DOMAIN sent : j = n + b
        BY <2>1, <3>3
      <4>2. all[i] = wire[i] /\ all[j] = sent[b]
        BY <2>1, <3>3, <4>1
      <4>3. QED
        BY <1>3, <2>3, <2>4, <3>3, <4>2
    <3>4. CASE i \notin DOMAIN wire
      <4>1. PICK a \in DOMAIN sent : i = n + a
        BY <2>1, <3>4
      <4>2. j \notin DOMAIN wire
        BY <2>1, <3>1, <3>4, <4>1
      <4>3. PICK b \in DOMAIN sent : j = n + b
        BY <2>1, <4>2
      <4>4. all[i] = sent[a] /\ all[j] = sent[b] /\ a < b
        BY <2>1, <3>1, <4>1, <4>3
      <4>5. QED
        BY <1>4, <3>1, <4>4 DEF Sorted
    <3>5. QED
      BY <3>2, <3>3, <3>4
  <2>6. InOrder(Events(all))
    <3>1. SUFFICES ASSUME NEW e \in Events(all), NEW f \in Events(all), e.seq < f.seq
                   PROVE  Follows(e, f)
      BY DEF InOrder
    <3>2. CASE e \in Events(wire) /\ f \in Events(wire)
      BY <3>1, <3>2 DEF OnTheWire, InOrder
    <3>3. CASE e \in Range(sent) /\ f \in Range(sent)
      BY <1>4, <3>1, <3>3 DEF InOrder
    <3>4. CASE e \in Events(wire) /\ f \in Range(sent)
      <4>1. e.turn <= server.turns /\ (f.turn # 0 => server.turns <= f.turn)
        BY <1>3, <1>5, <3>4 DEF Of, Adds
      <4>2. f.kind = "user" => f.turn > server.turns
        BY <1>3, <3>4 DEF Adds
      <4>3. e.turn \in Nat /\ f.turn \in Nat
        BY <1>3, <1>5, <3>4
      <4>4. e.turn # 0 /\ f.turn # 0 => e.turn <= f.turn
        BY <1>3, <4>1, <4>3
      <4>5. f.kind = "user" => e.turn # f.turn
        BY <1>3, <4>1, <4>2, <4>3
      <4>6. QED
        BY <4>4, <4>5 DEF Follows, IsMessage
    <3>5. CASE e \in Range(sent) /\ f \in Events(wire)
      <4>1. e.seq > server.seq /\ f.seq <= server.seq
        BY <1>3, <1>5, <3>5 DEF Adds, Of
      <4>2. e.seq \in Nat /\ f.seq \in Nat
        BY <1>3, <1>5, <3>5
      <4>3. QED
        BY <1>3, <3>1, <4>1, <4>2
    <3>6. QED
      BY <2>1, <3>2, <3>3, <3>4, <3>5
  <2>7. \A e \in Range(sent) : <<e.epoch, e.seq>> \notin tab.seen
    <3>1. SUFFICES ASSUME NEW e \in Range(sent), <<e.epoch, e.seq>> \in tab.seen PROVE FALSE
      OBVIOUS
    <3>2. e.epoch = s.epoch /\ e.seq > server.seq /\ e.seq \in Nat
      BY <1>3 DEF Adds, Of
    <3>3. e.seq <= server.seq
      BY <1>3, <3>1, <3>2 DEF OnTheWire
    <3>4. QED
      BY <1>3, <3>2, <3>3
  <2>8. \A i \in DOMAIN all : all[i].seq <= s.seq
    <3>1. SUFFICES ASSUME NEW i \in DOMAIN all PROVE all[i].seq <= s.seq
      OBVIOUS
    <3>2. CASE i \in DOMAIN wire
      BY <1>3, <2>1, <2>3, <3>2
    <3>3. CASE \E j \in DOMAIN sent : i = n + j
      BY <2>1, <2>4, <3>3
    <3>4. QED
      BY <2>1, <3>2, <3>3
  <2>9. QED
    BY <1>2, <1>3, <1>5, <1>6, <1>8, <2>1, <2>2, <2>5, <2>6, <2>7, <2>8 DEF OnTheWire
<1>11. QED
  BY <1>9, <1>10

(* What the other invariants need of a step of the server.                 *)
LEMMA ServesFacts ==
  ASSUME Types, Sane(server), Saying, NEW io, Serves(io)
  PROVE  /\ server' = io.server /\ tab' = tab /\ wire \in Seq(Event \cup SyncEvent)
         /\ wire' = IF tab.conn = "open" THEN wire \o io.sent ELSE wire
         /\ io.sent \in Seq(Event) /\ server.events \in Seq(Event)
         /\ server.seq \in Nat /\ server'.seq \in Nat /\ server.seq <= server'.seq
         /\ server.turns \in Nat /\ server'.turns \in Nat /\ server.turns <= server'.turns
         /\ server.turn \in Nat /\ server'.turn \in Nat
         /\ \A m, q : q \in Nat /\ AtLeast(server, m, q) => AtLeast(server', m, q)
         /\ \A e \in Range(io.sent) :
              /\ e.seq \in Nat /\ e.turn \in Nat /\ e.kind # "sync" /\ e.seq > server.seq
              /\ e.kind = "user" => e.turn > server.turns
              /\ e.kind = "final" => e.turn = server.turn /\ e.turn # 0 /\ ~server.disowned
              /\ IsMessage(e) => AtLeast(server', Says(e), e.seq)
         /\ Due \subseteq Due' /\ Due \subseteq said
         /\ \A m \in Due' \ Due : /\ m.turn = server'.turn /\ ~server'.disowned
                                  /\ \E e \in Range(io.sent) : IsMessage(e) /\ Says(e) = m
         /\ Range(server'.events) \subseteq Range(server.events) \cup Range(io.sent)
         /\ \A m \in said \cup tab.shown \cup snapshot.shown :
              m.turn \in Nat /\ m.turn # 0 /\ m.turn <= server.turns
<1>1. server \in Servers /\ Ordered(server) /\ wire \in Seq(Event \cup SyncEvent)
  BY DEF Types, Sane
<1>2. Emission(server, io) /\ server' = io.server /\ tab' = tab
  BY DEF Serves, Publish
<1>3. wire' = IF tab.conn = "open" THEN wire \o io.sent ELSE wire
  BY DEF Serves, Publish
<1>4. \A m, q : q \in Nat /\ AtLeast(server, m, q) => AtLeast(server', m, q)
  BY <1>1, <1>2, AtLeastKept
<1>5. ASSUME NEW e \in Range(io.sent)
      PROVE  /\ e.seq \in Nat /\ e.turn \in Nat /\ e.kind # "sync" /\ e.seq > server.seq
             /\ e.kind = "user" => e.turn > server.turns
             /\ e.kind = "final" => e.turn = server.turn /\ e.turn # 0 /\ ~server.disowned
             /\ IsMessage(e) => AtLeast(server', Says(e), e.seq)
  <2>1. IsMessage(e) => AtLeast(server', Says(e), e.seq)
    BY <1>2, AtLeastSent
  <2>2. Adds(server, io.server, e) /\ e.seq \in Nat /\ e.turn \in Nat /\ e.kind # "sync"
    BY <1>1, <1>2, EmissionTypes
  <2>3. QED
    BY <2>1, <2>2 DEF Adds, Of, IsMessage
<1>6. /\ Due \subseteq Due' /\ Due \subseteq said
      /\ \A m \in Due' \ Due : /\ m.turn = server'.turn /\ ~server'.disowned
                               /\ \E e \in Range(io.sent) : IsMessage(e) /\ Says(e) = m
  BY DEF Serves, Due
<1>7. \A m \in said \cup tab.shown \cup snapshot.shown :
        m.turn \in Nat /\ m.turn # 0 /\ m.turn <= server.turns
  <2>1. server.turns \in Nat
    BY <1>1 DEF Servers
  <2>2. QED
    BY <2>1 DEF Saying
<1>8. Range(server'.events) \subseteq Range(server.events) \cup Range(io.sent)
  BY <1>2 DEF Emission
<1> HIDE DEF Types, Sane, Saying, Serves
<1>9. QED
  BY <1>1, <1>2, <1>3, <1>4, <1>5, <1>6, <1>7, <1>8, EmissionTypes

(* The tab's knowledge of whether a turn runs.                             *)
LEMMA ServesInformed ==
  ASSUME Types, Sane(server), Saying, Informed, NEW io, Serves(io)
  PROVE  Informed'
<1> SUFFICES ASSUME tab'.conn = "open", Announced(server)' PROVE Informed'
  BY DEF Informed
<1>1. /\ server' = io.server /\ tab' = tab /\ flaws' = flaws /\ tab.conn = "open"
      /\ wire' = wire \o io.sent /\ wire \in Seq(Event \cup SyncEvent) /\ io.sent \in Seq(Event)
      /\ Announced(io.server) /\ Announces(server, io)
  <2>1. server' = io.server /\ Announced(io.server)
    BY DEF Serves, Publish, Announced, Running
  <2>2. QED
    BY <2>1, ServesFacts DEF Serves
<1> DEFINE all == wire \o io.sent
           sent == io.sent
           n == Len(wire)
           k == Len(sent)
<1>2. /\ n \in Nat /\ k \in Nat /\ DOMAIN wire = 1..n /\ DOMAIN sent = 1..k
      /\ DOMAIN all = 1..(n + k)
      /\ \A i \in 1..n : all[i] = wire[i]
      /\ \A i \in 1..k : all[n + i] = sent[i]
      /\ \A i \in DOMAIN all : i \in DOMAIN wire \/ \E j \in DOMAIN sent : i = n + j
  BY <1>1, WireGrows
<1> HIDE DEF all, sent, n, k
<1>3. wire' = all
  BY <1>1 DEF all
<1>4. ASSUME NEW i \in DOMAIN sent, Telling(sent[i]), Tells(sent[i]) = Running(io.server),
             \A j \in DOMAIN sent : j > i => ~Telling(sent[j])
      PROVE  Informed'
  <2>1. n + i \in DOMAIN all /\ all[n + i] = sent[i]
    BY <1>2
  <2>2. ASSUME NEW j \in DOMAIN all, j > n + i PROVE ~Telling(all[j])
    <3>1. j \notin DOMAIN wire
      BY <1>2, <2>2
    <3>2. PICK b \in DOMAIN sent : j = n + b
      BY <1>2, <3>1
    <3>3. b > i /\ all[j] = sent[b]
      BY <1>2, <2>2, <3>2
    <3>4. QED
      BY <1>4, <3>3
  <2>3. QED
    BY <1>1, <1>3, <1>4, <2>1, <2>2 DEF Informed
<1>5. ASSUME \A j \in DOMAIN sent : ~Telling(sent[j]), Running(io.server) = Running(server),
             Announced(server)
      PROVE  Informed'
  <2>1. ASSUME NEW j \in DOMAIN all, j \notin DOMAIN wire PROVE ~Telling(all[j])
    BY <1>2, <1>5, <2>1
  <2>2. \A j \in DOMAIN wire : j \in DOMAIN all /\ all[j] = wire[j]
    BY <1>2
  <2>3. ASSUME NEW i \in DOMAIN wire, Telling(wire[i]), Tells(wire[i]) = Running(server),
               \A j \in DOMAIN wire : j > i => ~Telling(wire[j])
        PROVE  Informed'
    <3>1. \A j \in DOMAIN all : j > i => ~Telling(all[j])
      BY <2>1, <2>2, <2>3
    <3>2. QED
      BY <1>1, <1>3, <1>5, <2>2, <2>3, <3>1 DEF Informed
  <2>4. ASSUME \A j \in DOMAIN wire : ~Telling(wire[j]),
               "overtaken" \in flaws \/ tab.running = Running(server)
        PROVE  Informed'
    <3>1. \A j \in DOMAIN all : ~Telling(all[j])
      BY <2>1, <2>2, <2>4
    <3>2. QED
      BY <1>1, <1>3, <1>5, <2>4, <3>1 DEF Informed
  <2>5. QED
    BY <1>1, <1>5, <2>3, <2>4 DEF Informed
<1>6. QED
  BY <1>1, <1>4, <1>5 DEF Announces, sent

(* What the running turn has said is retained, or nothing before it is.    *)
LEMMA ServesRetained ==
  ASSUME Types, Sane(server), Saying, Retained, NEW io, Serves(io)
  PROVE  Retained'
<1>1. /\ server' = io.server /\ Emission(server, io)
      /\ Range(server'.events) \subseteq Range(server.events) \cup Range(io.sent)
      /\ server.events \in Seq(Event) /\ io.sent \in Seq(Event)
      /\ server.turns \in Nat /\ server.seq \in Nat
  BY ServesFacts DEF Serves
<1>2. \A e \in Range(server.events) : e.seq \in Nat /\ e.seq <= server.seq /\ e.turn \in Nat
  BY <1>1, EventIn DEF Sane, Ordered, Of
<1>3. \A e \in Range(io.sent) :
        /\ e.seq \in Nat /\ e.turn \in Nat /\ e.seq > server.seq
        /\ e.kind = "user" => e.turn > server.turns
        /\ IsMessage(e) => AtLeast(server', Says(e), e.seq)
  BY ServesFacts
<1>4. SUFFICES ASSUME NEW m \in Due', m.turn = server'.turn
               PROVE  /\ AtLeast(server', m, 1)
                      /\ \/ \E e \in Range(server'.events) : IsMessage(e) /\ Says(e) = m
                         \/ \A e \in Range(server'.events) :
                              e.turn = server'.turn => e.kind # "user"
  BY DEF Retained
<1>5. CASE m \in Due
  <2>1. m.turn \in Nat /\ m.turn # 0 /\ m.turn <= server.turns
    BY <1>5, ServesFacts
  <2>2. server'.turn = server.turn
    BY <1>1, <1>4, <2>1 DEF Serves
  <2>3. AtLeast(server, m, 1)
    BY <1>4, <1>5, <2>2 DEF Retained
  <2>4. AtLeast(server', m, 1)
    BY <2>3, ServesFacts
  <2>5. \A e \in Range(io.sent) : e.turn = server.turn => e.kind # "user"
    BY <1>1, <1>3, <1>4, <2>1, <2>2
  <2>6. ASSUME NEW x \in Range(server.events), IsMessage(x), Says(x) = m,
               x \notin Range(server'.events),
               NEW e \in Range(server'.events), e.turn = server.turn, e.kind = "user"
        PROVE  FALSE
    <3>1. e \in Range(server.events)
      BY <1>1, <2>5, <2>6
    <3>2. e.seq > x.seq
      BY <1>1, <2>6 DEF Emission, Retains
    <3>3. Follows(x, e)
      BY <1>2, <2>6, <3>1, <3>2 DEF Sane, Ordered, InOrder
    <3>4. x.turn = e.turn
      BY <1>4, <2>2, <2>6 DEF Says, Message
    <3>5. QED
      BY <2>6, <3>3, <3>4 DEF Follows, IsMessage
  <2>7. ASSUME \A e \in Range(server.events) : e.turn = server.turn => e.kind # "user"
        PROVE  \A e \in Range(server'.events) : e.turn = server'.turn => e.kind # "user"
    BY <1>1, <2>2, <2>5, <2>7
  <2>8. \/ \E e \in Range(server.events) : IsMessage(e) /\ Says(e) = m
        \/ \A e \in Range(server.events) : e.turn = server.turn => e.kind # "user"
    BY <1>4, <1>5, <2>2 DEF Retained
  <2>9. QED
    BY <2>2, <2>4, <2>6, <2>7, <2>8
<1>6. CASE m \notin Due
  <2>1. PICK x \in Range(io.sent) : IsMessage(x) /\ Says(x) = m
    BY <1>4, <1>6, ServesFacts
  <2>2. AtLeast(server', m, x.seq) /\ 1 <= x.seq /\ x.seq \in Nat
    BY <1>1, <1>3, <2>1
  <2>3. server' \in Servers
    BY <1>1 DEF Emission
  <2>4. AtLeast(server', m, 1)
    BY <2>2, <2>3, AtLeastBefore
  <2>5. ASSUME x \notin Range(server'.events),
               NEW e \in Range(server'.events), e.turn = server'.turn, e.kind = "user"
        PROVE  FALSE
    <3>1. e.seq > x.seq
      BY <1>1, <2>1, <2>5 DEF Emission, Retains
    <3>2. e \in Range(io.sent)
      BY <1>1, <1>2, <1>3, <2>1, <2>5, <3>1
    <3>3. Follows(x, e)
      BY <1>1, <1>3, <2>1, <3>1, <3>2 DEF Emission, InOrder
    <3>4. x.turn = e.turn
      BY <1>4, <2>1, <2>5 DEF Says, Message
    <3>5. QED
      BY <2>1, <2>5, <3>3, <3>4 DEF Follows, IsMessage
  <2>6. QED
    BY <2>1, <2>4, <2>5
<1>7. QED
  BY <1>5, <1>6

(* What a result was given before can still be got at beyond its cursor.   *)
LEMMA ServesRecorded ==
  ASSUME Types, Sane(server), Saying, Recorded, NEW io, Serves(io)
  PROVE  Recorded'
<1>1. /\ server.seq \in Nat /\ server'.seq \in Nat /\ server.seq <= server'.seq
      /\ server' \in Servers
  BY ServesFacts DEF Serves, Emission
<1>2. SUFFICES ASSUME NEW p \in Requests, records'[p].state = "done"
               PROVE  /\ records'[p].cursor <= server'.seq
                      /\ records'[p].running => records'[p].turn # 0
                      /\ \A m \in Due' \ records'[p].before :
                           AtLeast(server', m, records'[p].cursor + 1)
  BY DEF Recorded
<1>3. ASSUME NEW m \in Due', m \notin Due, NEW c \in Nat, c <= server.seq
      PROVE  AtLeast(server', m, c + 1)
  <2>1. PICK x \in Range(io.sent) : IsMessage(x) /\ Says(x) = m
    BY <1>3, ServesFacts
  <2>2. AtLeast(server', m, x.seq) /\ x.seq \in Nat /\ c + 1 <= x.seq /\ c + 1 \in Nat
    BY <1>1, <1>3, <2>1, ServesFacts
  <2>3. QED
    BY <1>1, <2>2, AtLeastBefore
<1>4. CASE records'[p] = records[p]
  <2>1. records[p] \in Results
    BY DEF Types
  <2>2. records[p].cursor \in Nat
    BY <2>1 DEF Results
  <2>3. /\ records[p].cursor <= server.seq
        /\ records[p].running => records[p].turn # 0
        /\ \A m \in Due \ records[p].before : AtLeast(server, m, records[p].cursor + 1)
    BY <1>2, <1>4 DEF Recorded
  <2>4. records[p].cursor <= server'.seq
    BY <1>1, <2>2, <2>3
  <2>5. \A m \in Due \ records[p].before : AtLeast(server', m, records[p].cursor + 1)
    BY <2>2, <2>3, ServesFacts
  <2>6. QED
    BY <1>3, <1>4, <2>2, <2>3, <2>4, <2>5
<1>5. CASE /\ records'[p].cursor = server.seq /\ records'[p].before = Due
           /\ records'[p].running => records'[p].turn # 0
  <2>1. server.seq <= server.seq
    BY <1>1
  <2>2. QED
    BY <1>1, <1>3, <1>5, <2>1
<1>6. QED
  BY <1>2, <1>4, <1>5 DEF Serves

(* Whatever the tab does not show is on its way or can be got at.          *)
LEMMA ServesComing ==
  ASSUME Types, Sane(server), Saying, Coming, NEW io, Serves(io)
  PROVE  Coming'
<1>1. /\ server' = io.server /\ tab' = tab /\ flaws' = flaws
      /\ wire' = IF tab.conn = "open" THEN wire \o io.sent ELSE wire
      /\ wire \in Seq(Event \cup SyncEvent) /\ io.sent \in Seq(Event)
      /\ server.seq \in Nat /\ server'.seq \in Nat /\ server.seq <= server'.seq
      /\ server' \in Servers
  BY ServesFacts DEF Serves, Emission
<1>2. tab.cursor \in Nat
  BY DEF Types, Tabs
<1>3. "skipped" \notin flaws' => tab'.cursor <= server'.seq
  BY <1>1, <1>2 DEF Coming
<1>4. CASE Told
  BY <1>1, <1>3, <1>4 DEF Coming, Told
<1>5. CASE ~Told /\ tab.conn = "open"
  <2> DEFINE all == wire \o io.sent
             n == Len(wire)
  <2>1. /\ Events(all) = Events(wire) \cup Range(io.sent)
        /\ \A i \in DOMAIN wire : i \in DOMAIN all /\ all[i] = wire[i]
    <3> DEFINE k == Len(io.sent)
    <3>1. /\ Events(all) = Events(wire) \cup Range(io.sent) /\ n \in Nat /\ k \in Nat
          /\ DOMAIN wire = 1..n /\ DOMAIN all = 1..(n + k) /\ \A i \in 1..n : all[i] = wire[i]
      BY <1>1, WireGrows
    <3> HIDE DEF all, n, k
    <3>2. QED
      BY <3>1
  <2> HIDE DEF all
  <2>2. wire' = all /\ tab'.conn = "open"
    BY <1>1, <1>5 DEF all
  <2>3. CASE \E i \in DOMAIN wire : wire[i].kind = "sync" /\ wire[i].gap
    <3>1. \E i \in DOMAIN all : all[i].kind = "sync" /\ all[i].gap
      BY <2>1, <2>3
    <3>2. QED
      BY <1>3, <2>2, <3>1 DEF Coming
  <2>4. CASE \A m \in Due \ tab.shown :
               \E e \in Events(wire) : IsMessage(e) /\ Says(e) = m /\ AtLeast(server, m, e.seq)
    <3>1. ASSUME NEW m \in Due' \ tab.shown
          PROVE  \E e \in Events(all) : IsMessage(e) /\ Says(e) = m /\ AtLeast(server', m, e.seq)
      <4>1. CASE m \in Due
        <5>1. PICK e \in Events(wire) : IsMessage(e) /\ Says(e) = m /\ AtLeast(server, m, e.seq)
          BY <2>4, <3>1, <4>1
        <5>2. e.seq \in Nat
          BY <1>1, OnWire
        <5>3. AtLeast(server', m, e.seq)
          BY <5>1, <5>2, ServesFacts
        <5>4. QED
          BY <2>1, <5>1, <5>3
      <4>2. CASE m \notin Due
        <5>1. PICK e \in Range(io.sent) : IsMessage(e) /\ Says(e) = m
          BY <3>1, <4>2, ServesFacts
        <5>2. AtLeast(server', m, e.seq)
          BY <5>1, ServesFacts
        <5>3. QED
          BY <2>1, <5>1, <5>2
      <4>3. QED
        BY <4>1, <4>2
    <3>2. QED
      BY <1>1, <1>3, <2>2, <3>1 DEF Coming
  <2>5. QED
    BY <1>5, <2>3, <2>4 DEF Coming
<1>6. CASE ~Told /\ tab.conn # "open"
  <2>1. tab.cursor <= server.seq
    BY <1>6 DEF Coming, Told
  <2>2. ASSUME NEW m \in Due' \ tab.shown PROVE AtLeast(server', m, tab.cursor + 1)
    <3>1. CASE m \in Due
      <4>1. AtLeast(server, m, tab.cursor + 1) /\ tab.cursor + 1 \in Nat
        BY <1>2, <1>6, <2>2, <3>1 DEF Coming
      <4>2. QED
        BY <4>1, ServesFacts
    <3>2. CASE m \notin Due
      <4>1. PICK e \in Range(io.sent) : IsMessage(e) /\ Says(e) = m
        BY <2>2, <3>2, ServesFacts
      <4>2. /\ AtLeast(server', m, e.seq) /\ e.seq \in Nat /\ tab.cursor + 1 <= e.seq
            /\ tab.cursor + 1 \in Nat
        BY <1>1, <1>2, <2>1, <4>1, ServesFacts
      <4>3. QED
        BY <1>1, <4>2, AtLeastBefore
    <3>3. QED
      BY <3>1, <3>2
  <2>2a. tab'.conn # "open" /\ tab'.cursor = tab.cursor /\ tab'.shown = tab.shown
    BY <1>1, <1>6
  <2>3. QED
    BY <1>3, <2>2, <2>2a DEF Coming
<1>7. QED
  BY <1>4, <1>5, <1>6

(* A snapshot under way misses nothing that it does not replay.            *)
LEMMA ServesOpened ==
  ASSUME Types, Sane(server), Saying, Opened, NEW io, Serves(io)
  PROVE  Opened'
<1>1. /\ server' = io.server /\ snapshot' = snapshot /\ Due \subseteq Due'
      /\ server.seq \in Nat /\ server'.seq \in Nat /\ server.seq <= server'.seq
      /\ server.turns \in Nat /\ server'.turns \in Nat /\ server.turns <= server'.turns
      /\ server' \in Servers
  BY ServesFacts DEF Serves, Emission
<1>2. /\ snapshot.turn \in Nat /\ snapshot.turns \in Nat /\ snapshot.cursor \in Nat
      /\ SnapCursor \in Nat
  BY DEF Types, Snapshots, SnapCursor
<1>2a. server.disowned \in BOOLEAN /\ server'.disowned \in BOOLEAN
  BY <1>1 DEF Types, Servers
<1>3. SnapCursor' = SnapCursor
  BY <1>1 DEF SnapCursor
<1>4. ASSUME snapshot.at = "read"
      PROVE  /\ snapshot.turns <= server'.turns
             /\ snapshot.turns = server'.turns /\ CurrentTurn(server') # 0 =>
                  snapshot.turn = CurrentTurn(server')
             /\ snapshot.turns = server'.turns /\ snapshot.turn = CurrentTurn(server') =>
                  \A m \in Due' \ snapshot.shown :
                    CurrentTurn(server') # 0 /\ m.turn = server'.turn
  <2>1. /\ snapshot.turns <= server.turns
        /\ snapshot.turns = server.turns /\ CurrentTurn(server) # 0 =>
             snapshot.turn = CurrentTurn(server)
        /\ snapshot.turns = server.turns /\ snapshot.turn = CurrentTurn(server) =>
             \A m \in Due \ snapshot.shown : CurrentTurn(server) # 0 /\ m.turn = server.turn
    BY <1>4 DEF Opened, Moved
  <2>2. snapshot.turns <= server'.turns
    BY <1>1, <1>2, <2>1
  <2>3. ASSUME snapshot.turns = server'.turns
        PROVE  /\ snapshot.turns = server.turns
               /\ \/ server'.turn = server.turn /\ (server.disowned => server'.disowned)
                  \/ server'.turn = 0 /\ CurrentTurn(server) # 0
    <3>1. snapshot.turns = server.turns /\ server'.turns # server.turns + 1
      BY <1>1, <1>2, <2>1, <2>3
    <3>2. QED
      BY <3>1 DEF Serves
  <2>4. ASSUME snapshot.turns = server'.turns, CurrentTurn(server') # 0
        PROVE  snapshot.turn = CurrentTurn(server') /\ CurrentTurn(server) # 0
    <3>1. server'.turn = server.turn /\ ~server'.disowned /\ ~server.disowned
      BY <1>2a, <2>3, <2>4 DEF CurrentTurn
    <3>2. QED
      BY <2>1, <2>3, <2>4, <3>1 DEF CurrentTurn
  <2>5. ASSUME snapshot.turns = server'.turns, snapshot.turn = CurrentTurn(server'),
               NEW m \in Due' \ snapshot.shown
        PROVE  CurrentTurn(server') # 0 /\ m.turn = server'.turn
    <3>1. CASE m \in Due
      <4>1. CASE CurrentTurn(server') # 0
        BY <2>1, <2>3, <2>4, <2>5, <3>1, <4>1 DEF CurrentTurn
      <4>2. CASE CurrentTurn(server') = 0
        <5>1. snapshot.turns = server.turns /\ snapshot.turn = CurrentTurn(server)
          BY <2>1, <2>3, <2>5, <4>2 DEF CurrentTurn
        <5>2. CurrentTurn(server) # 0
          BY <2>1, <2>5, <3>1, <5>1
        <5>3. QED
          BY <2>5, <4>2, <5>1, <5>2
      <4>3. QED
        BY <4>1, <4>2
    <3>2. CASE m \notin Due
      <4>1. /\ m.turn = server'.turn /\ ~server'.disowned
            /\ \E e \in Range(io.sent) : IsMessage(e) /\ Says(e) = m
        BY <2>5, <3>2, ServesFacts
      <4>2. PICK e \in Range(io.sent) : IsMessage(e) /\ Says(e) = m
        BY <4>1
      <4>3. e.turn = m.turn
        BY <4>2 DEF Says, Message
      <4>4. e.turn # 0
        BY <1>1, <4>2, ServesFacts DEF IsMessage
      <4>5. QED
        BY <4>1, <4>3, <4>4 DEF CurrentTurn
    <3>3. QED
      BY <3>1, <3>2
  <2>6. QED
    BY <2>2, <2>4, <2>5
<1>5. ASSUME snapshot.at = "reply"
      PROVE  /\ snapshot.cursor <= server'.seq
             /\ ~snapshot.torn => \A m \in Due' \ snapshot.shown : AtLeast(server', m, SnapCursor + 1)
  <2>1. snapshot.cursor <= server.seq /\ SnapCursor <= server.seq
    BY <1>1, <1>2, <1>5 DEF Opened, SnapCursor
  <2>2. ASSUME ~snapshot.torn, NEW m \in Due' \ snapshot.shown PROVE AtLeast(server', m, SnapCursor + 1)
    <3>1. CASE m \in Due
      <4>1. AtLeast(server, m, SnapCursor + 1) /\ SnapCursor + 1 \in Nat
        BY <1>2, <1>5, <2>2, <3>1 DEF Opened
      <4>2. QED
        BY <4>1, ServesFacts
    <3>2. CASE m \notin Due
      <4>1. PICK e \in Range(io.sent) : IsMessage(e) /\ Says(e) = m
        BY <2>2, <3>2, ServesFacts
      <4>2. /\ AtLeast(server', m, e.seq) /\ e.seq \in Nat /\ SnapCursor + 1 <= e.seq
            /\ SnapCursor + 1 \in Nat
        BY <1>1, <1>2, <2>1, <4>1, ServesFacts
      <4>3. QED
        BY <1>1, <4>2, AtLeastBefore
    <3>3. QED
      BY <3>1, <3>2
  <2>3. QED
    BY <1>1, <1>2, <2>1, <2>2
<1>6. ASSUME snapshot.at = "reply", snapshot.stream,
             NEW e \in Range(server'.events), IsMessage(e), e.seq > snapshot.cursor
      PROVE  Says(e) \notin snapshot.shown
  <2>1. CASE e \in Range(server.events)
    BY <1>6, <2>1 DEF Opened
  <2>2. CASE e \in Range(io.sent)
    <3>1. /\ e.turn \in Nat
          /\ e.kind = "user" => e.turn > server.turns
          /\ e.kind = "final" => e.turn = server.turn /\ ~server.disowned
      BY <2>2, ServesFacts
    <3>2. \A m \in snapshot.shown : /\ m.turn \in Nat /\ m.turn <= server.turns
                                    /\ ~server.disowned => m.turn # server.turn
      BY ServesFacts DEF Saying
    <3>3. Says(e).turn = e.turn
      BY DEF Says, Message
    <3>4. CASE e.kind = "user"
      BY <1>1, <3>1, <3>2, <3>3, <3>4
    <3>5. CASE e.kind = "final"
      <4>1. ~server.disowned /\ e.turn = server.turn
        BY <3>1, <3>5
      <4>2. QED
        BY <3>2, <3>3, <4>1
    <3>6. QED
      BY <1>6, <3>4, <3>5 DEF IsMessage
  <2>3. QED
    BY <1>6, <2>1, <2>2, ServesFacts
<1>7. QED
  BY <1>1, <1>3, <1>4, <1>5, <1>6 DEF Opened, Moved, CurrentTurn

(* What is to come is new to the tab, or repeats the last answer.          *)
LEMMA ServesFresh ==
  ASSUME Types, Sane(server), Saying, Fresh, NEW io, Serves(io)
  PROVE  Fresh'
<1>1. /\ server' = io.server /\ tab' = tab
      /\ wire' = IF tab.conn = "open" THEN wire \o io.sent ELSE wire
      /\ wire \in Seq(Event \cup SyncEvent) /\ io.sent \in Seq(Event)
      /\ server.seq \in Nat /\ server'.seq \in Nat /\ server.seq <= server'.seq
      /\ server.turns \in Nat /\ server'.turns \in Nat /\ server.turns <= server'.turns
      /\ server.turn \in Nat /\ server'.turn \in Nat
      /\ Range(server'.events) \subseteq Range(server.events) \cup Range(io.sent)
  BY ServesFacts DEF Serves
<1>2. tab.last \in Nat /\ tab.last <= server.turns
  BY DEF Types, Tabs, Fresh
<1>3. \A m \in tab.shown : m.turn \in Nat /\ m.turn # 0 /\ m.turn <= server.turns
  BY ServesFacts
<1>4. server.turn \in {0, server.turns}
  BY DEF Sane, Ordered
<1>5. ASSUME NEW e \in Range(io.sent), IsMessage(e)
      PROVE  /\ Says(e) \in tab.shown => e.kind = "final" /\ tab.last = e.turn
             /\ tab.last # 0 => e.turn > tab.last \/ (e.turn = tab.last /\ e.kind = "final")
  <2>1. /\ e.turn \in Nat
        /\ e.kind = "user" => e.turn > server.turns
        /\ e.kind = "final" => e.turn = server.turn /\ e.turn # 0 /\ ~server.disowned
    BY ServesFacts
  <2>2. Says(e).turn = e.turn
    BY DEF Says, Message
  <2>3. CASE e.kind = "user"
    BY <1>1, <1>2, <1>3, <2>1, <2>2, <2>3
  <2>4. CASE e.kind = "final"
    <3>1. /\ Says(e) = Message(server.turn, "final") /\ e.turn = server.turns
          /\ CurrentTurn(server) # 0
      BY <1>4, <2>1, <2>4 DEF Says, CurrentTurn
    <3>2. QED
      BY <1>1, <1>2, <2>1, <2>4, <3>1 DEF Fresh
  <2>5. QED
    BY <1>5, <2>3, <2>4 DEF IsMessage
<1>6. ASSUME NEW S, NEW T, T \subseteq S \cup Range(io.sent)
      PROVE  (Behind(S) => Behind(T)) /\ (Novel(S) => Novel(T))
  <2>1. Behind(S) => Behind(T)
    BY <1>5, <1>6 DEF Behind
  <2>2. QED
    BY <1>5, <1>6, <2>1 DEF Novel
<1>7. Behind({})
  BY DEF Behind
<1>8. ASSUME tab.conn = "open" PROVE Novel(Events(wire'))
  <2>1. Events(wire') \subseteq Events(wire) \cup Range(io.sent)
    BY <1>1, <1>8, WireGrows
  <2>2. Novel(Events(wire))
    BY <1>8 DEF Fresh
  <2>3. QED
    BY <1>6, <2>1, <2>2
<1>9. ASSUME NEW c PROVE After(server', c) \subseteq After(server, c) \cup Range(io.sent)
  BY <1>1 DEF After
<1>10. ASSUME NEW c, c = server.seq PROVE After(server, c) = {}
  <2>1. \A e \in Range(server.events) : e.seq \in Nat /\ e.seq <= server.seq
    BY EventIn, ServesFacts DEF Sane, Ordered, Of
  <2>2. QED
    BY <1>1, <1>10, <2>1 DEF After
<1>11. ASSUME tab.conn = "dial" PROVE Novel(After(server', tab.cursor))
  <2>1. Novel(After(server, tab.cursor))
    BY <1>11 DEF Fresh
  <2>2. QED
    BY <1>6, <1>9, <2>1
<1>12. ASSUME tab.conn = "none", NEW p \in Requests, records'[p].state = "done"
       PROVE  Behind(After(server', records'[p].cursor))
  <2>1. CASE records'[p] = records[p]
    <3>1. Behind(After(server, records[p].cursor))
      BY <1>12, <2>1 DEF Fresh
    <3>2. QED
      BY <1>6, <1>9, <2>1, <3>1
  <2>2. CASE records'[p].cursor = server.seq
    <3>1. After(server, records'[p].cursor) = {}
      BY <1>10, <2>2
    <3>2. QED
      BY <1>6, <1>7, <1>9, <3>1
  <2>3. QED
    BY <1>12, <2>1, <2>2 DEF Serves
<1>13. tab.last <= server'.turns
  BY <1>1, <1>2
<1>14. ASSUME CurrentTurn(server') # 0, Message(server'.turn, "final") \in tab.shown
       PROVE  tab.last = server'.turn
  <2>1. server'.turn \in Nat /\ server'.turn # 0 /\ server'.turn <= server.turns
    BY <1>3, <1>14 DEF Message
  <2>2. server'.turn = server.turn /\ (server.disowned => server'.disowned)
    BY <1>1, <2>1 DEF Serves
  <2>3. CurrentTurn(server) # 0
    BY <1>14, <2>2 DEF CurrentTurn
  <2>4. QED
    BY <1>14, <2>2, <2>3 DEF Fresh
<1>15. tab.last # 0 => Message(tab.last, "final") \in tab.shown
  BY DEF Fresh
<1>16. /\ tab'.conn = tab.conn /\ tab'.last = tab.last /\ tab'.shown = tab.shown
       /\ tab'.again = tab.again /\ tab'.cursor = tab.cursor
  BY <1>1
<1>17. (tab.conn = "open" => Novel(Events(wire)))'
  BY <1>8, <1>16 DEF Novel, Behind
<1>18. (tab.conn = "dial" => Novel(After(server, tab.cursor)))'
  BY <1>11, <1>16 DEF Novel, Behind
<1>19. (tab.conn = "none" => \A r \in Requests :
          records[r].state = "done" => Behind(After(server, records[r].cursor)))'
  BY <1>1, <1>12, <1>16 DEF Behind
<1>20. (/\ tab.last <= server.turns
        /\ tab.last # 0 => Message(tab.last, "final") \in tab.shown
        /\ CurrentTurn(server) # 0 /\ Message(server.turn, "final") \in tab.shown =>
             tab.last = server.turn)'
  BY <1>1, <1>13, <1>14, <1>15, <1>16
<1>21. QED
  BY <1>17, <1>18, <1>19, <1>20 DEF Fresh

-----------------------------------------------------------------------------
(***************************************************************************)
(* What the steps of the server publish.                                   *)
(***************************************************************************)
(* One more event and the last word on whether a turn runs.                *)
LEMMA AppendAnnounces ==
  ASSUME NEW w \in Seq(Event), NEW e \in Event, NEW runs
  PROVE  LET all == Append(w, e) IN
         /\ Telling(e) /\ Tells(e) = runs =>
              \E i \in DOMAIN all : /\ Telling(all[i]) /\ Tells(all[i]) = runs
                                    /\ \A j \in DOMAIN all : j > i => ~Telling(all[j])
         /\ ~Telling(e) /\ (\A j \in DOMAIN w : ~Telling(w[j])) =>
              \A j \in DOMAIN all : ~Telling(all[j])
         /\ ~Telling(e) /\ (\E i \in DOMAIN w : /\ Telling(w[i]) /\ Tells(w[i]) = runs
                                                /\ \A j \in DOMAIN w : j > i => ~Telling(w[j])) =>
              \E i \in DOMAIN all : /\ Telling(all[i]) /\ Tells(all[i]) = runs
                                    /\ \A j \in DOMAIN all : j > i => ~Telling(all[j])
<1> DEFINE all == Append(w, e)
           n == Len(w)
<1>1. n \in Nat /\ DOMAIN w = 1..n /\ DOMAIN all = 1..(n + 1)
  OBVIOUS
<1>2. all[n + 1] = e /\ \A i \in 1..n : all[i] = w[i]
  OBVIOUS
<1> HIDE DEF all, n
<1>3. n + 1 \in DOMAIN all /\ \A j \in DOMAIN all : ~(j > n + 1)
  BY <1>1
<1>4. \A j \in DOMAIN all : j \in DOMAIN w \/ j = n + 1
  BY <1>1
<1>5. \A i \in DOMAIN w : i \in DOMAIN all /\ all[i] = w[i]
  BY <1>1, <1>2
<1>6. QED
  BY <1>2, <1>3, <1>4, <1>5 DEF all

(* Another event leaves the last announcement in force, or is one.         *)
LEMMA AnnounceNext ==
  ASSUME NEW s0 \in Servers, NEW io, Emission(s0, io), NEW kind, MayEmit(s0, io, kind),
         \A e \in Range(s0.events) : e.seq <= s0.seq
  PROVE  /\ kind \in {"activity", "final", "files", "queued"} /\ Announces(s0, io)
              => Announces(s0, Emit(io, kind))
         /\ kind \in {"start", "user"} => Announces(s0, Emit(io, kind))
         /\ kind = "stop" /\ ~Running(io.server) => Announces(s0, Emit(io, kind))
         /\ kind = "stop" =>
              Announces(s0, [Emit(io, kind) EXCEPT !.server = [@ EXCEPT !.turn = 0]])
<1> DEFINE next == Emit(io, kind)
           e == NewEvent(io.server, kind)
<1>1. /\ next.sent = Append(io.sent, e) /\ e \in Event
      /\ OneLater(io.server, next.server)
      /\ Emission(s0, next)
  BY EmitStep
<1>2. /\ io.server \in Servers /\ io.sent \in Seq(Event) /\ next.server \in Servers
      /\ next \in [server : Servers, sent : Seq(Event)]
  BY <1>1 DEF Emission
<1>3. e.kind = kind
  BY DEF NewEvent
<1> HIDE DEF next, e
<1>4. /\ next.server.turn = io.server.turn
      /\ next.server.disowned = io.server.disowned /\ next.server.stops = io.server.stops
  BY <1>1, <1>2 DEF Servers, OneLater
<1>5. CASE kind \in {"activity", "final", "files", "queued"}
  <2>1. ~Telling(e)
    BY <1>3, <1>5 DEF Telling
  <2>2. SUFFICES ASSUME Announces(s0, io) PROVE Announces(s0, next)
    BY <1>5 DEF next
  <2>3. /\ Running(next.server) = Running(io.server)
        /\ Announced(next.server) = Announced(io.server)
    BY <1>4 DEF Running, Announced
  <2>4. CASE \A j \in DOMAIN io.sent : ~Telling(io.sent[j])
    <3>1. \A j \in DOMAIN next.sent : ~Telling(next.sent[j])
      BY <1>1, <1>2, <2>1, <2>4, AppendAnnounces
    <3>2. Running(io.server) = Running(s0) /\ (Announced(io.server) => Announced(s0))
      BY <2>2, <2>4 DEF Announces
    <3>3. QED
      BY <2>3, <3>1, <3>2 DEF Announces
  <2>5. CASE ~\A j \in DOMAIN io.sent : ~Telling(io.sent[j])
    <3> DEFINE runs == Running(io.server)
    <3>1. \E i \in DOMAIN io.sent : /\ Telling(io.sent[i]) /\ Tells(io.sent[i]) = runs
                                    /\ \A j \in DOMAIN io.sent : j > i => ~Telling(io.sent[j])
      BY <2>2, <2>5 DEF Announces
    <3> HIDE DEF runs
    <3>2. \E i \in DOMAIN next.sent : /\ Telling(next.sent[i]) /\ Tells(next.sent[i]) = runs
                                      /\ \A j \in DOMAIN next.sent : j > i => ~Telling(next.sent[j])
      BY <1>1, <1>2, <2>1, <3>1, AppendAnnounces
    <3>3. QED
      BY <2>3, <3>2 DEF Announces, runs
  <2>6. QED
    BY <2>4, <2>5
<1>6. CASE kind \in {"start", "user"}
  <2>1. Telling(e) /\ Tells(e) = TRUE
    BY <1>3, <1>6 DEF Telling, Tells
  <2>2. Running(next.server) = TRUE
    BY <1>4, <1>6 DEF Running, MayEmit
  <2>3. \E i \in DOMAIN next.sent : /\ Telling(next.sent[i]) /\ Tells(next.sent[i]) = TRUE
                                    /\ \A j \in DOMAIN next.sent : j > i => ~Telling(next.sent[j])
    BY <1>1, <1>2, <2>1, AppendAnnounces
  <2>4. Announces(s0, next)
    BY <2>2, <2>3 DEF Announces
  <2>5. QED
    BY <1>6, <2>4 DEF next
<1>7. CASE kind = "stop"
  <2>1. Telling(e) /\ Tells(e) = FALSE
    BY <1>3, <1>7 DEF Telling, Tells
  <2> DEFINE last == [next EXCEPT !.server = [@ EXCEPT !.turn = 0]]
  <2>2. last.sent = next.sent /\ last.server.turn = 0
    BY <1>2 DEF Servers
  <2> HIDE DEF last
  <2>3. Running(last.server) = FALSE
    BY <2>2 DEF Running
  <2>4. \E i \in DOMAIN next.sent : /\ Telling(next.sent[i]) /\ Tells(next.sent[i]) = FALSE
                                    /\ \A j \in DOMAIN next.sent : j > i => ~Telling(next.sent[j])
    <3>1. next.sent = Append(io.sent, e) /\ e \in Event /\ io.sent \in Seq(Event)
      BY <1>1, <1>2
    <3>2. QED
      BY <2>1, <3>1, AppendAnnounces
  <2>5. Announces(s0, last)
    BY <2>2, <2>3, <2>4 DEF Announces
  <2>6. ~Running(io.server) => Announces(s0, next)
    BY <1>4, <2>4 DEF Announces, Running
  <2>7. QED
    BY <1>7, <2>5, <2>6 DEF next, last
<1>8. QED
  BY <1>5, <1>6, <1>7 DEF MayEmit, Kinds

(* A step may first set what concerns no event.                            *)
LEMMA FromAmended ==
  ASSUME NEW s0 \in Servers, Ordered(s0), NEW s \in Servers,
         s.seq = s0.seq, s.events = s0.events, s.epoch = s0.epoch, s.turns = s0.turns, s.turn = s0.turn,
         s.disowned = s0.disowned, s.stops = s0.stops
  PROVE  /\ Emission(s0, From(s)) /\ Announces(s0, From(s)) /\ (Headed(s0) => Headed(s))
         /\ From(s).server = s /\ From(s).sent = <<>>
         /\ \A e \in Range(s0.events) : e.seq <= s0.seq
<1>1. Emission(s0, From(s0)) /\ From(s0).server = s0 /\ From(s0).sent = <<>>
  BY NoEmission DEF From
<1>2. From(s).server = s /\ From(s).sent = <<>> /\ From(s) = [server |-> s, sent |-> <<>>]
  BY DEF From
<1>3. s.turns >= s0.turns /\ s.turn \in {0, s.turns}
  BY DEF Ordered, Servers
<1>4. Emission(s0, [server |-> s, sent |-> From(s0).sent])
  BY <1>1, <1>3, Amended
<1>5. Announces(s0, From(s))
  BY <1>2 DEF Announces, Running, Announced
<1>6. Headed(s0) => Headed(s)
  BY DEF Headed, Running
<1>7. \A e \in Range(s0.events) : e.seq <= s0.seq
  BY DEF Ordered, Of
<1>8. QED
  BY <1>1, <1>2, <1>4, <1>5, <1>6, <1>7

(* beginPrompt: the turn is announced, and its first message is sent.      *)
LEMMA BegunStep ==
  ASSUME NEW s0 \in Servers, Ordered(s0), NEW io, Emission(s0, io), io.server.turns = s0.turns
  PROVE  LET out == Begun(io) IN
         /\ Emission(s0, out) /\ Headed(out.server) /\ Announces(s0, out)
         /\ out.server.turns = s0.turns + 1 /\ out.server.turn = out.server.turns
         /\ out.server.queue = io.server.queue /\ out.server.live = io.server.live
         /\ out.server.disowned = io.server.disowned /\ out.server.stops = io.server.stops
         /\ \E e \in Range(out.sent) : IsMessage(e) /\ Says(e) = Message(s0.turns + 1, "user")
<1> DEFINE s == NextTurn(io.server)
           io0 == [io EXCEPT !.server = s]
           io1 == Emit(io0, "start")
           io2 == Emit(io1, "user")
           out == [io2 EXCEPT !.server.start = Len(io2.server.events)]
<1>0. Begun(io) = out
  BY DEF Begun
<1>1. /\ io \in [server : Servers, sent : Seq(Event)] /\ Ordered(io.server)
      /\ s0.turns \in Nat
  BY DEF Emission, Servers
<1>2. /\ s \in Servers /\ s.turns = s0.turns + 1 /\ s.turn = s0.turns + 1
      /\ s.seq = io.server.seq /\ s.events = io.server.events /\ s.epoch = io.server.epoch
      /\ s.queue = io.server.queue /\ s.live = io.server.live
      /\ s.disowned = io.server.disowned /\ s.stops = io.server.stops
  <2>1. io.server \in Servers
    BY <1>1
  <2>2. io.server.turns \in Nat /\ s0.turns + 1 \in Nat
    BY <1>1
  <2>3. s = [io.server EXCEPT !.turns = s0.turns + 1, !.turn = s0.turns + 1, !.answered = FALSE]
    BY DEF NextTurn
  <2> HIDE DEF s
  <2>4. QED
    BY <2>1, <2>2, <2>3 DEF Servers
<1> HIDE DEF s
<1>3. io0 = [server |-> s, sent |-> io.sent] /\ io0.server = s /\ io0.sent = io.sent
  BY <1>1
<1>4. s.turns >= io.server.turns /\ s.turn \in {0, s.turns} /\ s.turn # 0
  BY <1>1, <1>2
<1>5. Emission(s0, io0)
  <2>1. Emission(s0, [server |-> s, sent |-> io.sent])
    BY <1>2, <1>4, Amended
  <2>2. QED
    BY <1>3, <2>1
<1> HIDE DEF io0
<1>6. \A e \in Range(s0.events) : e.seq <= s0.seq
  BY DEF Ordered, Of
<1>7. MayEmit(s0, io0, "start")
  BY <1>3, <1>4 DEF MayEmit, Kinds
<1> DEFINE start == NewEvent(s, "start")
           user == NewEvent(io1.server, "user")
<1>8. /\ Emission(s0, io1) /\ io1.sent = Append(io.sent, start) /\ start \in Event
      /\ OneLater(s, io1.server)
      /\ Range(io1.server.events) \subseteq Range(s.events) \cup {start}
  <2>1. /\ Emission(s0, io1) /\ io1.sent = Append(io0.sent, NewEvent(io0.server, "start"))
        /\ NewEvent(io0.server, "start") \in Event
        /\ OneLater(io0.server, io1.server)
        /\ Range(io1.server.events)
             \subseteq Range(io0.server.events) \cup {NewEvent(io0.server, "start")}
    BY <1>5, <1>6, <1>7, EmitStep
  <2> HIDE DEF io1
  <2>2. QED
    BY <1>3, <2>1
<1>9. start.kind = "start"
  BY DEF NewEvent
<1> HIDE DEF start, io1
<1>10. io1.server \in Servers /\ io1.sent \in Seq(Event) /\ io.sent \in Seq(Event)
  BY <1>1, <1>8 DEF Emission
<1>11. /\ io1.server.turn = s.turn /\ io1.server.turns = s.turns
       /\ io1.server.queue = s.queue /\ io1.server.live = s.live
       /\ io1.server.disowned = s.disowned /\ io1.server.stops = s.stops
  BY <1>2, <1>8 DEF Servers, OneLater
<1>12. Range(io1.sent) = Range(io.sent) \cup {start}
  BY <1>8, <1>10, AppendRange
<1>13. ASSUME NEW f \in Range(io1.server.events) \cup Range(io1.sent), IsMessage(f)
       PROVE  f.turn < s.turn
  <2>1. f # start
    BY <1>9, <1>13 DEF IsMessage
  <2>2. f \in Range(io.server.events) \cup Range(io.sent)
    BY <1>2, <1>8, <1>12, <1>13, <2>1
  <2>3. Of(io.server, f)
    BY <1>1, <2>2 DEF Emission, Adds, Ordered
  <2>4. f.turn \in Nat
    <3>1. io.server.events \in Seq(Event)
      BY <1>1 DEF Servers
    <3>2. QED
      BY <1>10, <2>2, <3>1, EventIn
  <2>5. QED
    BY <1>1, <1>2, <2>3, <2>4 DEF Of
<1>14. MayEmit(s0, io1, "user")
  BY <1>1, <1>2, <1>4, <1>11, <1>13 DEF MayEmit, Kinds
<1>15. /\ Emission(s0, io2) /\ io2.sent = Append(io1.sent, user) /\ user \in Event
       /\ OneLater(io1.server, io2.server)
       /\ Headed(io2.server)
  <2> HIDE DEF start
  <2>1. QED
    BY <1>6, <1>8, <1>14, EmitStep
<1>16. Announces(s0, io2)
  BY <1>6, <1>8, <1>14, AnnounceNext
<1>17. user.kind = "user" /\ user.turn = s.turn
  BY <1>11 DEF NewEvent
<1> HIDE DEF user, io2
<1>18. io2 \in [server : Servers, sent : Seq(Event)]
  BY <1>15 DEF Emission
<1>19. /\ io2.server.turn = s.turn /\ io2.server.turns = s.turns
       /\ io2.server.queue = s.queue /\ io2.server.live = s.live
       /\ io2.server.disowned = s.disowned /\ io2.server.stops = s.stops
  BY <1>10, <1>11, <1>15 DEF Servers, OneLater
<1> DEFINE s2 == [io2.server EXCEPT !.start = Len(io2.server.events)]
<1>20. out.server = s2 /\ out.sent = io2.sent /\ out = [server |-> s2, sent |-> io2.sent]
  BY <1>18
<1>21. /\ s2 \in Servers /\ s2.turns = s.turns /\ s2.turn = s.turn
       /\ s2.queue = s.queue /\ s2.live = s.live
       /\ s2.disowned = s.disowned /\ s2.stops = s.stops
       /\ s2.seq = io2.server.seq /\ s2.events = io2.server.events /\ s2.epoch = io2.server.epoch
  <2>1. io2.server.events \in Seq(Event)
    BY <1>18 DEF Servers
  <2>2. Len(io2.server.events) \in Nat
    BY <2>1
  <2>3. QED
    BY <1>18, <1>19, <2>2 DEF Servers
<1> HIDE DEF s2
<1>22. s2.turns >= io2.server.turns /\ s2.turn \in {0, s2.turns}
  BY <1>1, <1>2, <1>19, <1>21
<1>23. Emission(s0, out)
  <2>1. Emission(s0, [server |-> s2, sent |-> io2.sent])
    BY <1>15, <1>21, <1>22, Amended
  <2>2. QED
    BY <1>20, <2>1
<1>24. Headed(out.server) /\ Announces(s0, out)
  <2>1. Headed(out.server)
    BY <1>15, <1>19, <1>20, <1>21 DEF Headed, Running
  <2>2. Running(s2) = Running(io2.server) /\ Announced(s2) = Announced(io2.server)
    BY <1>19, <1>21 DEF Running, Announced
  <2>3. out.server = s2 /\ out.sent = io2.sent
    BY <1>20
  <2> HIDE DEF out
  <2>4. Announces(s0, out)
    BY <1>16, <2>2, <2>3 DEF Announces
  <2>5. QED
    BY <2>1, <2>4 DEF out
<1>25. user \in Range(out.sent) /\ IsMessage(user) /\ Says(user) = Message(s0.turns + 1, "user")
  <2>1. user \in Range(out.sent)
    <3>1. Range(Append(io1.sent, user)) = Range(io1.sent) \cup {user}
      BY <1>10, <1>15, AppendRange
    <3> HIDE DEF out
    <3>2. QED
      BY <1>15, <1>20, <3>1
  <2>2. QED
    BY <1>2, <1>17, <2>1 DEF IsMessage, Says
<1> HIDE DEF out
<1>26. QED
  BY <1>0, <1>2, <1>20, <1>21, <1>23, <1>24, <1>25

(***************************************************************************)
(* What a step of the server publishes, as the lemmas above have it.       *)
(***************************************************************************)
Sound(s0, io) == Emission(s0, io) /\ Headed(io.server) /\ Announces(s0, io)

(* A step may add an event that tells nothing of whether a turn runs.      *)
LEMMA EmitNext ==
  ASSUME NEW s0 \in Servers, Ordered(s0), NEW io, Sound(s0, io),
         NEW kind \in {"activity", "final", "files", "queued"}, MayEmit(s0, io, kind)
  PROVE  LET next == Emit(io, kind)
         IN  /\ Sound(s0, next)
             /\ next.server.turn = io.server.turn /\ next.server.turns = io.server.turns
             /\ next.server.queue = io.server.queue /\ next.server.live = io.server.live
             /\ next.server.disowned = io.server.disowned /\ next.server.stops = io.server.stops
             /\ NewEvent(io.server, kind) \in Range(next.sent)
             /\ \A e \in Range(next.sent) : e \in Range(io.sent) \/ e.kind = kind
<1> DEFINE next == Emit(io, kind)
           e == NewEvent(io.server, kind)
<1>1. \A x \in Range(s0.events) : x.seq <= s0.seq
  BY DEF Ordered, Of
<1>2. /\ Emission(s0, next) /\ next.sent = Append(io.sent, e) /\ e \in Event
      /\ OneLater(io.server, next.server) /\ Headed(next.server)
  BY <1>1, EmitStep DEF Sound
<1>3. Announces(s0, next)
  BY <1>1, AnnounceNext DEF Sound
<1> HIDE DEF next
<1>4. io.server \in Servers /\ io.sent \in Seq(Event) /\ next.server \in Servers
  BY <1>2 DEF Sound, Emission
<1>5. /\ next.server.turn = io.server.turn /\ next.server.turns = io.server.turns
      /\ next.server.queue = io.server.queue /\ next.server.live = io.server.live
      /\ next.server.disowned = io.server.disowned /\ next.server.stops = io.server.stops
  BY <1>2, <1>4 DEF OneLater, Servers
<1>6. e.kind = kind
  BY DEF NewEvent
<1> HIDE DEF e
<1>7. Range(next.sent) = Range(io.sent) \cup {e}
  BY <1>2, <1>4, AppendRange
<1>8. QED
  BY <1>2, <1>3, <1>5, <1>6, <1>7 DEF Sound, next, e

(* What is retained beyond the cursor is on the wire of an open stream.    *)
LEMMA ServesStreaming ==
  ASSUME Types, Sane(server), Saying, Streaming, NEW io, Serves(io)
  PROVE  Streaming'
<1>1. /\ server' = io.server /\ tab' = tab
      /\ wire' = IF tab.conn = "open" THEN wire \o io.sent ELSE wire
      /\ wire \in Seq(Event \cup SyncEvent) /\ io.sent \in Seq(Event)
      /\ Range(server'.events) \subseteq Range(server.events) \cup Range(io.sent)
  BY ServesFacts DEF Serves
<1>2. SUFFICES ASSUME tab.conn = "open"
      PROVE  After(server', tab.cursor) \subseteq Events(wire')
  BY <1>1 DEF Streaming
<1>3. Events(wire') = Events(wire) \cup Range(io.sent)
  BY <1>1, <1>2, WireGrows
<1>4. After(server', tab.cursor) \subseteq After(server, tab.cursor) \cup Range(io.sent)
  BY <1>1 DEF After
<1>5. QED
  BY <1>2, <1>3, <1>4 DEF Streaming

(* What a step of the server keeps, given what it does to the messages.    *)
LEMMA ServesKeeps ==
  ASSUME IndInv, \E io : Serves(io), Types', Saying', Requested', Once', Renewed'
  PROVE  IndInv'
<1>1. PICK io : Serves(io)
  OBVIOUS
<1>2. /\ Types /\ Sane(server) /\ OnTheWire /\ Informed /\ Saying /\ Retained
      /\ Recorded /\ Coming /\ Opened /\ Fresh /\ Streaming /\ ShownOnce
  BY DEF IndInv
<1>3. OnTheWire'
  BY <1>1, <1>2, ServesWire
<1>4. Informed'
  BY <1>1, <1>2, ServesInformed
<1>5. Retained'
  BY <1>1, <1>2, ServesRetained
<1>6. Recorded'
  BY <1>1, <1>2, ServesRecorded
<1>7. Coming'
  BY <1>1, <1>2, ServesComing
<1>8. Opened'
  BY <1>1, <1>2, ServesOpened
<1>9. Fresh'
  BY <1>1, <1>2, ServesFresh
<1>10. Sane(server)'
  BY <1>1 DEF Serves, Sane, Emission, Publish
<1>11. ShownOnce'
  BY <1>1, <1>2 DEF Serves, ShownOnce
<1>12. Streaming'
  BY <1>1, <1>2, ServesStreaming
<1>13. QED
  BY <1>3, <1>4, <1>5, <1>6, <1>7, <1>8, <1>9, <1>10, <1>11, <1>12 DEF IndInv

(* What the step leaves alone, or changes within the types.                *)
LEMMA ServesTypes ==
  ASSUME Types, \E io : Serves(io),
         transcript' \in SUBSET said, records' \in [Requests -> Results],
         UNCHANGED <<calls, replies, sending, renewed, forgotten>>,
         begun' \in Seq(Requests), said' \subseteq Messages
  PROVE  Types'
<1>1. PICK io : Serves(io)
  OBVIOUS
<1>2. io.server \in Servers /\ io.sent \in Seq(Event)
  BY <1>1 DEF Serves, Emission
<1>3. wire \in Seq(Event \cup SyncEvent) /\ said \subseteq Messages
  BY DEF Types
<1>4. wire' \in Seq(Event \cup SyncEvent)
  BY <1>1, <1>2, <1>3, WireGrows DEF Serves, Publish
<1>5. server' \in Servers /\ UNCHANGED <<tab, snapshot, flaws>>
  BY <1>1, <1>2 DEF Serves, Publish
<1>6. QED
  BY <1>3, <1>4, <1>5 DEF Types

(* Either the turn goes on, or all it has said becomes the transcript.     *)
LEMMA ServesSaying ==
  ASSUME Types, Sane(server), Saying, \E io : Serves(io),
         \/ transcript' = transcript /\ server'.turn = server.turn
         \/ transcript' = said /\ server'.turn # server.turn
  PROVE  Saying'
<1>1. PICK io : Serves(io)
  OBVIOUS
<1>2. /\ server' = io.server /\ tab' = tab /\ snapshot' = snapshot
      /\ server.turns \in Nat /\ server'.turns \in Nat /\ server.turns <= server'.turns
      /\ server.turn \in Nat /\ server'.turn \in Nat
  BY <1>1, ServesFacts DEF Serves
<1>3. server.turn \in {0, server.turns} /\ server'.turn \in {0, server'.turns}
  BY <1>1, <1>2 DEF Sane, Serves, Emission, Ordered
<1>4. \A m \in said' \ said : m.turn = server'.turn /\ m.turn # 0
  <2>1. ASSUME NEW m \in said' \ said PROVE m.turn = server'.turn /\ m.turn # 0
    <3>1. PICK e \in Range(io.sent) : IsMessage(e) /\ Says(e) = m
      BY <1>1 DEF Serves
    <3>2. Of(io.server, e)
      BY <1>1 DEF Serves, Emission, Adds
    <3>3. m.turn = e.turn
      BY <3>1 DEF Says, Message
    <3>4. QED
      BY <1>1, <3>1, <3>2, <3>3 DEF Serves, Of
  <2>2. QED
    BY <2>1
<1>5. \A m \in said \cup tab.shown \cup tab.again \cup snapshot.shown :
        m.turn \in Nat /\ m.turn # 0 /\ m.turn <= server.turns
  BY <1>2 DEF Saying
<1>6. said \subseteq said'
  BY <1>1 DEF Serves
<1>7. transcript' \subseteq said'
  BY <1>6 DEF Saying
<1>8. \A m \in said' \cup tab'.shown \cup tab'.again \cup snapshot'.shown : m.turn \in 1..server'.turns
  <2>1. ASSUME NEW m \in said' \cup tab'.shown \cup tab'.again \cup snapshot'.shown
        PROVE  m.turn \in Nat /\ m.turn # 0 /\ m.turn <= server'.turns
    <3>1. CASE m \in said' \ said
      BY <1>2, <1>3, <1>4, <3>1
    <3>2. CASE m \in said \cup tab.shown \cup tab.again \cup snapshot.shown
      BY <1>2, <1>5, <3>2
    <3>3. QED
      BY <1>2, <2>1, <3>1, <3>2
  <2>2. QED
    BY <1>2, <2>1
<1>9. \A m \in said' \ transcript' : m.turn = server'.turn
  <2>1. CASE transcript' = transcript /\ server'.turn = server.turn
    BY <1>4, <2>1 DEF Saying
  <2>2. CASE transcript' = said
    BY <1>4, <2>2
  <2>3. QED
    BY <2>1, <2>2
<1>10. ASSUME ~server'.disowned, NEW m \in transcript' \cup snapshot'.shown
       PROVE  m.turn # server'.turn
  <2>1. CASE transcript' = transcript /\ server'.turn = server.turn
    <3>2. ~server.disowned
      BY <1>1, <1>2, <1>3, <1>10, <2>1 DEF Serves, CurrentTurn
    <3>3. QED
      BY <1>2, <1>10, <2>1, <3>2 DEF Saying
  <2>2. CASE transcript' = said /\ server'.turn # server.turn
    <3>1. server'.turn = 0 \/ server'.turn > server.turns
      BY <1>1, <1>2, <2>2 DEF Serves
    <3>2. QED
      BY <1>2, <1>5, <1>10, <2>2, <3>1
  <2>3. QED
    BY <2>1, <2>2
<1>11. QED
  BY <1>7, <1>8, <1>9, <1>10 DEF Saying

(* A second request comes into use only where the first was forgotten.     *)
LEMMA RenewedKept ==
  ASSUME Renewed, renewed \subseteq renewed',
         \A r \in InUse' : r \in Requests /\ r.id = 2 => r \in InUse \/ r.prompt \in renewed'
  PROVE  Renewed'
BY DEF Renewed

(* An activity of the turn.                                                *)
LEMMA ActivityKeeps == ASSUME IndInv, Activity PROVE IndInv'
<1> DEFINE s == [server EXCEPT !.ticks = server.ticks + 1]
           io == Emit(From(s), "activity")
<1>1. /\ Types /\ Sane(server) /\ Saying /\ Requested /\ Once /\ Renewed /\ Ordered(server)
      /\ Headed(server) /\ Owned(server)
      /\ server \in Servers
  BY DEF IndInv, Sane, Types
<1>2. /\ s \in Servers /\ s.seq = server.seq /\ s.events = server.events
      /\ s.epoch = server.epoch /\ s.turns = server.turns /\ s.turn = server.turn
      /\ s.disowned = server.disowned /\ s.stops = server.stops
      /\ s.queue = server.queue /\ s.live = server.live
  BY <1>1 DEF Servers
<1>3. Publish(io) /\ Running(server) /\ ~server.disowned
  BY DEF Activity, CurrentTurn, Running
<1> HIDE DEF s
<1>4. Sound(server, From(s)) /\ From(s).server = s /\ From(s).sent = <<>>
  BY <1>1, <1>2, FromAmended DEF Sound
<1>5. MayEmit(server, From(s), "activity")
  BY <1>2, <1>3, <1>4 DEF MayEmit, Kinds, Running
<1>6. /\ Sound(server, io) /\ io.server.turn = server.turn /\ io.server.turns = server.turns
      /\ io.server.queue = server.queue /\ io.server.live = server.live
      /\ io.server.disowned = server.disowned /\ io.server.stops = server.stops
  BY <1>1, <1>2, <1>4, <1>5, EmitNext
<1> HIDE DEF io
<1>7. Serves(io)
  BY <1>3, <1>6 DEF Serves, Sound, Activity, messaging, history, Publish, Owned, Running
<1>8. Types'
  BY <1>1, <1>7, ServesTypes DEF Activity, messaging, history, Types, Saying
<1>9. Saying'
  BY <1>1, <1>3, <1>6, <1>7, ServesSaying DEF Activity, Publish
<1>10. Requested' /\ Once' /\ Renewed'
  <2>1. /\ server'.queue = server.queue /\ server'.live = server.live
        /\ UNCHANGED <<messaging, begun, forgotten>>
    BY <1>3, <1>6 DEF Activity, messaging, history, Publish
  <2>2. QED
    BY <1>1, <2>1 DEF Requested, Once, Renewed, InUse, messaging
<1>11. QED
  BY <1>7, <1>8, <1>9, <1>10, ServesKeeps

(* The turn's answer.                                                      *)
LEMMA AnswerKeeps == ASSUME IndInv, Answer PROVE IndInv'
<1> DEFINE s == [server EXCEPT !.answered = TRUE]
           io == Emit(From(s), "final")
           m == Message(server.turn, "final")
<1>1. /\ Types /\ Sane(server) /\ Saying /\ Requested /\ Once /\ Renewed /\ Ordered(server)
      /\ Headed(server) /\ Owned(server)
      /\ server \in Servers
  BY DEF IndInv, Sane, Types
<1>2. /\ s \in Servers /\ s.seq = server.seq /\ s.events = server.events
      /\ s.epoch = server.epoch /\ s.turns = server.turns /\ s.turn = server.turn
      /\ s.disowned = server.disowned /\ s.stops = server.stops
      /\ s.queue = server.queue /\ s.live = server.live /\ server.turn \in Nat
  BY <1>1 DEF Servers
<1>3. Publish(io) /\ Running(server) /\ ~server.disowned /\ said' = said \cup {m}
  BY DEF Answer, CurrentTurn, Running
<1> HIDE DEF s
<1>4. Sound(server, From(s)) /\ From(s).server = s /\ From(s).sent = <<>>
  BY <1>1, <1>2, FromAmended DEF Sound
<1>5. MayEmit(server, From(s), "final")
  BY <1>2, <1>3, <1>4 DEF MayEmit, Kinds, Running
<1> DEFINE e == NewEvent(s, "final")
<1>6. /\ Sound(server, io) /\ io.server.turn = server.turn /\ io.server.turns = server.turns
      /\ io.server.queue = server.queue /\ io.server.live = server.live
      /\ io.server.disowned = server.disowned /\ io.server.stops = server.stops
      /\ e \in Range(io.sent)
  BY <1>1, <1>2, <1>4, <1>5, EmitNext
<1>7. IsMessage(e) /\ Says(e) = m /\ m.turn = server.turn
  BY <1>2 DEF NewEvent, IsMessage, Says, Message
<1> HIDE DEF io, e, m
<1>8. Serves(io)
  BY <1>3, <1>6, <1>7 DEF Serves, Sound, Answer, messaging, Publish, Owned, Running
<1>9. m \in Messages
  BY <1>2 DEF m, Message, Messages
<1>10. Types'
  BY <1>1, <1>3, <1>8, <1>9, ServesTypes DEF Answer, messaging, Types, Saying
<1>11. Saying'
  BY <1>1, <1>3, <1>6, <1>8, ServesSaying DEF Answer, Publish
<1>12. Requested' /\ Once' /\ Renewed'
  <2>1. /\ server'.queue = server.queue /\ server'.live = server.live
        /\ UNCHANGED <<messaging, begun, forgotten>>
    BY <1>3, <1>6 DEF Answer, messaging, Publish
  <2>2. QED
    BY <1>1, <2>1 DEF Requested, Once, Renewed, InUse, messaging
<1>13. QED
  BY <1>8, <1>10, <1>11, <1>12, ServesKeeps

(* What a turn sends at its end: its answer again, when it does not find   *)
(* it among the retained events, and the changed files.                    *)
LEMMA EndedStep ==
  ASSUME NEW s0 \in Servers, Sane(s0), Running(s0), ~s0.disowned
  PROVE  LET answered == IF Missed(s0) THEN Emit(From(s0), "final") ELSE From(s0)
             ended == Emit(answered, "files")
         IN  /\ Sound(s0, ended)
             /\ ended.server.turn = s0.turn /\ ended.server.turns = s0.turns
             /\ ended.server.queue = s0.queue /\ ended.server.live = s0.live
             /\ ended.server.disowned = s0.disowned /\ ended.server.stops = s0.stops
<1> DEFINE answered == IF Missed(s0) THEN Emit(From(s0), "final") ELSE From(s0)
           ended == Emit(answered, "files")
<1>1. Ordered(s0) /\ Headed(s0) /\ s0.turn # 0
  BY DEF Sane, Running
<1>2. Sound(s0, From(s0)) /\ From(s0).server = s0
  BY <1>1, FromAmended DEF Sound
<1>3. MayEmit(s0, From(s0), "final")
  BY <1>1, <1>2 DEF MayEmit, Kinds
<1>4. /\ Sound(s0, answered) /\ answered.server.turn = s0.turn
      /\ answered.server.turns = s0.turns /\ answered.server.queue = s0.queue
      /\ answered.server.live = s0.live /\ answered.server.disowned = s0.disowned
      /\ answered.server.stops = s0.stops
  <2>1. CASE Missed(s0)
    <3>1. LET next == Emit(From(s0), "final")
          IN  /\ Sound(s0, next) /\ next.server.turn = From(s0).server.turn
              /\ next.server.turns = From(s0).server.turns
              /\ next.server.queue = From(s0).server.queue
              /\ next.server.live = From(s0).server.live
              /\ next.server.disowned = From(s0).server.disowned
              /\ next.server.stops = From(s0).server.stops
      BY <1>1, <1>2, <1>3, EmitNext
    <3>2. QED
      BY <1>2, <2>1, <3>1
  <2>2. CASE ~Missed(s0)
    BY <1>2, <2>2
  <2>3. QED
    BY <2>1, <2>2
<1> HIDE DEF answered
<1>5. MayEmit(s0, answered, "files")
  BY <1>1, <1>4 DEF MayEmit, Kinds
<1>6. LET next == Emit(answered, "files")
      IN  /\ Sound(s0, next) /\ next.server.turn = answered.server.turn
          /\ next.server.turns = answered.server.turns
          /\ next.server.queue = answered.server.queue
          /\ next.server.live = answered.server.live
          /\ next.server.disowned = answered.server.disowned
          /\ next.server.stops = answered.server.stops
  BY <1>1, <1>4, <1>5, EmitNext
<1>7. QED
  BY <1>4, <1>6 DEF answered

(* The queue's prompts begin once each, whatever moves from it.            *)
LEMMA BeginsQueued ==
  ASSUME Types, Once, server.queue # <<>>, UNCHANGED <<records, forgotten>>,
         server'.queue = Tail(server.queue), begun' = Append(begun, Head(server.queue))
  PROVE  Once'
<1> DEFINE q == server.queue
           r == Tail(server.queue)
           b == Append(begun, Head(server.queue))
           n == Len(server.queue)
           k == Len(begun)
<1>1. q \in Seq(Requests) /\ begun \in Seq(Requests) /\ q # <<>>
  BY DEF Types, Servers
<1>2. n \in Nat /\ n # 0 /\ DOMAIN q = 1..n /\ k \in Nat /\ DOMAIN begun = 1..k
  BY <1>1
<1>3. r \in Seq(Requests) /\ Len(r) = n - 1 /\ \A i \in 1..Len(r) : r[i] = q[i + 1]
  BY <1>1, HeadTailProperties
<1>4. DOMAIN r = 1..(n - 1)
  BY <1>2, <1>3
<1>5. Head(q) = q[1] /\ 1 \in DOMAIN q /\ q[1] \in Requests
  BY <1>1, <1>2
<1>6. DOMAIN b = 1..(k + 1) /\ b[k + 1] = q[1] /\ \A i \in 1..k : b[i] = begun[i]
  BY <1>1, <1>2, <1>5
<1> HIDE DEF q, r, b, n, k
<1>7. \A i \in DOMAIN b : i \in DOMAIN begun \/ i = k + 1
  BY <1>2, <1>6
<1>8. SUFFICES ASSUME NEW p \in Requests \ forgotten
      PROVE  /\ p \in Range(b) \cup Range(r) => records[p].state = "done"
             /\ \A i, j \in DOMAIN b : b[i] = p /\ b[j] = p => i = j
             /\ \A i, j \in DOMAIN r : r[i] = p /\ r[j] = p => i = j
             /\ ~(p \in Range(b) /\ p \in Range(r))
  BY DEF Once, q, r, b
<1>9. /\ p \in Range(begun) \cup Range(q) => records[p].state = "done"
      /\ \A i, j \in DOMAIN begun : begun[i] = p /\ begun[j] = p => i = j
      /\ \A i, j \in DOMAIN q : q[i] = p /\ q[j] = p => i = j
      /\ ~(p \in Range(begun) /\ p \in Range(q))
  BY DEF Once, q
<1>10. \A i \in DOMAIN r : i + 1 \in DOMAIN q /\ i + 1 # 1 /\ r[i] = q[i + 1]
  BY <1>2, <1>3, <1>4
<1>11. p \in Range(r) => p \in Range(q) /\ q[1] # p
  BY <1>5, <1>9, <1>10 DEF Range
<1>12. p \in Range(b) => p \in Range(begun) \/ p = q[1]
  BY <1>2, <1>6, <1>7 DEF Range
<1>13. q[1] \in Range(q)
  BY <1>5 DEF Range
<1>14. \A i, j \in DOMAIN r : r[i] = p /\ r[j] = p => i = j
  BY <1>2, <1>4, <1>9, <1>10
<1>15. ASSUME NEW i \in DOMAIN b, NEW j \in DOMAIN b, b[i] = p, b[j] = p PROVE i = j
  <2>1. CASE i \in DOMAIN begun /\ j \in DOMAIN begun
    BY <1>2, <1>6, <1>9, <1>15, <2>1
  <2>2. CASE i = k + 1 /\ j = k + 1
    BY <2>2
  <2>3. ASSUME NEW h \in DOMAIN begun, b[h] = p, q[1] = p PROVE FALSE
    <3>1. p \in Range(begun) /\ p \in Range(q)
      BY <1>2, <1>6, <1>13, <2>3 DEF Range
    <3>2. QED
      BY <1>9, <3>1
  <2>4. QED
    BY <1>6, <1>7, <1>15, <2>1, <2>2, <2>3
<1>16. QED
  BY <1>9, <1>11, <1>12, <1>13, <1>14, <1>15

(* The turn ends, and the next one begins if any is queued.                *)
LEMMA FinishKeeps == ASSUME IndInv, Finish PROVE IndInv'
<1> DEFINE answered == IF Missed(server) THEN Emit(From(server), "final") ELSE From(server)
           ended == Emit(answered, "files")
           stopped == Emit(ended, "stop")
           s1 == [stopped.server EXCEPT !.turn = 0]
           last == [stopped EXCEPT !.server = s1]
           held == [ended EXCEPT !.server.turn = 0, !.server.stops = server.stops + 1]
           s3 == [ended.server EXCEPT !.turn = 0, !.stops = server.stops + 1]
           s2 == [ended.server EXCEPT !.queue = Tail(server.queue)]
           moved == [ended EXCEPT !.server = s2]
           next == Begun(moved)
           m == Message(server.turns + 1, "user")
           Ends(io) == /\ Serves(io) /\ io.server.turn = 0
                       /\ io.server.queue = server.queue /\ io.server.live = server.live
<1>1. /\ Types /\ Sane(server) /\ Saying /\ Requested /\ Once /\ Renewed /\ Ordered(server)
      /\ Owned(server) /\ server.stops \in Nat /\ server \in Servers /\ server.turn \in Nat /\ server.turns \in Nat
  BY DEF IndInv, Sane, Types, Servers
<1>2. Running(server) /\ server.turn # 0 /\ ~server.disowned /\ CurrentTurn(server) # 0
  BY DEF Finish, Running, CurrentTurn
<1>3. \A e \in Range(server.events) : e.seq <= server.seq
  BY <1>1 DEF Ordered, Of
<1>4. /\ Sound(server, ended)
      /\ ended.server.turn = server.turn /\ ended.server.turns = server.turns
      /\ ended.server.queue = server.queue /\ ended.server.live = server.live
      /\ ended.server.disowned = server.disowned /\ ended.server.stops = server.stops
  BY <1>1, <1>2, EndedStep
<1>5. transcript' = said
  BY <1>1 DEF Finish, Saying
<1>6. \/ /\ server.queue = <<>> /\ (Publish(last) \/ Publish(held))
         /\ UNCHANGED <<said, begun>>
      \/ /\ server.queue # <<>> /\ Publish(next)
         /\ said' = said \cup {m} /\ begun' = Append(begun, Head(server.queue))
  BY DEF Finish, NotesBegin
<1>7. UNCHANGED <<records, calls, replies, sending, renewed, tab, snapshot, forgotten, flaws>>
  BY DEF Finish, messaging
<1>8. ended \in [server : Servers, sent : Seq(Event)] /\ ended.server \in Servers
  BY <1>4 DEF Sound, Emission
<1> HIDE DEF ended
<1>8a. \A io : Publish(io) => server' = io.server
  BY DEF Publish
<1>9. ASSUME Publish(last), server.queue = <<>>
      PROVE  Ends(last)
  <2>1. MayEmit(server, ended, "stop")
    BY DEF MayEmit, Kinds
  <2>2. /\ Emission(server, stopped) /\ OneLater(ended.server, stopped.server)
    BY <1>1, <1>3, <1>4, <2>1, EmitStep DEF Sound
  <2>3. Announces(server, last)
    BY <1>1, <1>3, <1>4, <2>1, AnnounceNext DEF Sound
  <2> HIDE DEF stopped
  <2>4. stopped \in [server : Servers, sent : Seq(Event)] /\ stopped.server \in Servers
    BY <2>2 DEF Emission
  <2>5. /\ stopped.server.turns = server.turns /\ stopped.server.queue = server.queue
        /\ stopped.server.live = server.live /\ stopped.server.disowned = server.disowned
    BY <1>4, <1>8, <2>2 DEF OneLater, Servers
  <2>6. /\ s1 \in Servers /\ s1.turn = 0 /\ s1.turns = server.turns
        /\ s1.queue = server.queue /\ s1.live = server.live /\ s1.disowned = server.disowned
        /\ s1.seq = stopped.server.seq /\ s1.events = stopped.server.events
        /\ s1.epoch = stopped.server.epoch
    BY <2>4, <2>5 DEF Servers
  <2> HIDE DEF s1
  <2>7. last = [server |-> s1, sent |-> stopped.sent] /\ last.server = s1
    BY <2>4
  <2>8. Emission(server, last)
    <3>1. s1.turns >= stopped.server.turns /\ s1.turn \in {0, s1.turns}
      BY <1>1, <2>5, <2>6
    <3>2. Emission(server, [server |-> s1, sent |-> stopped.sent])
      BY <1>1, <2>2, <2>6, <3>1, Amended
    <3>3. QED
      BY <2>7, <3>2
  <2> HIDE DEF last
  <2>9. Headed(last.server) /\ Owned(last.server)
    BY <1>2, <2>6, <2>7 DEF Headed, Owned, Running
  <2>10. QED
    BY <1>2, <1>6, <1>7, <1>8a, <1>9, <2>3, <2>6, <2>7, <2>8, <2>9 DEF Serves
<1>9a. ASSUME Publish(held), server.queue = <<>>
       PROVE  Ends(held)
  <2>1. /\ s3 \in Servers /\ s3.turn = 0 /\ s3.turns = server.turns
        /\ s3.queue = server.queue /\ s3.live = server.live /\ s3.disowned = server.disowned
        /\ s3.stops = server.stops + 1
        /\ s3.seq = ended.server.seq /\ s3.events = ended.server.events
        /\ s3.epoch = ended.server.epoch
    <3>1. server.stops + 1 \in Nat
      BY <1>1
    <3>2. QED
      BY <1>4, <1>8, <3>1 DEF Servers
  <2>2. held = [server |-> s3, sent |-> ended.sent]
    <3>1. /\ ended = [server |-> ended.server, sent |-> ended.sent]
          /\ "stops" \in DOMAIN ended.server /\ "turn" \in DOMAIN ended.server
      BY <1>8 DEF Servers
    <3> HIDE DEF s3, held
    <3>2. held = [ended EXCEPT !.server = s3]
      BY <3>1 DEF s3, held
    <3>3. QED
      BY <3>1, <3>2
  <2> HIDE DEF s3
  <2>3. held.server = s3 /\ held.sent = ended.sent
    BY <2>2
  <2>4. Emission(server, held)
    <3>1. s3.turns >= ended.server.turns /\ s3.turn \in {0, s3.turns}
      BY <1>1, <1>4, <2>1
    <3>2. Emission(server, [server |-> s3, sent |-> ended.sent])
      BY <1>1, <1>4, <2>1, <3>1, Amended DEF Sound
    <3>3. QED
      BY <2>2, <3>2
  <2> HIDE DEF held
  <2>5. Headed(held.server) /\ Owned(held.server) /\ ~Announced(held.server)
    BY <1>1, <1>2, <2>1, <2>3 DEF Headed, Owned, Running, Announced
  <2>6. QED
    BY <1>2, <1>6, <1>7, <1>8a, <1>9a, <2>1, <2>3, <2>4, <2>5 DEF Serves
<1>10. CASE server.queue = <<>>
  <2>1. \E io : Ends(io)
    <3> HIDE DEF last, held, Ends
    <3>1. QED
      BY <1>6, <1>9, <1>9a, <1>10
  <2> HIDE DEF last, held
  <2>2. PICK io : Ends(io)
    BY <2>1
  <2>3. /\ server'.turn = 0 /\ server'.queue = server.queue /\ server'.live = server.live
        /\ UNCHANGED <<said, begun>>
    BY <1>6, <1>10, <2>2 DEF Serves, Publish
  <2>4. Types'
    BY <1>1, <1>5, <1>7, <2>2, <2>3, ServesTypes DEF Types
  <2>5. Saying'
    BY <1>1, <1>2, <1>5, <2>2, <2>3, ServesSaying
  <2>6. Requested' /\ Once' /\ Renewed'
    BY <1>1, <1>7, <2>3 DEF Requested, Once, Renewed, InUse
  <2>7. QED
    BY <2>2, <2>4, <2>5, <2>6, ServesKeeps
<1>11. CASE server.queue # <<>>
  <2>1. server.queue \in Seq(Requests) /\ Tail(server.queue) \in Seq(Requests)
        /\ Head(server.queue) \in Requests
    BY <1>1, <1>11, HeadTailProperties DEF Servers
  <2>2. /\ s2 \in Servers /\ s2.turn = server.turn /\ s2.turns = server.turns
        /\ s2.queue = Tail(server.queue) /\ s2.live = server.live
        /\ s2.disowned = server.disowned
        /\ s2.seq = ended.server.seq /\ s2.events = ended.server.events
        /\ s2.epoch = ended.server.epoch
    BY <1>4, <1>8, <2>1 DEF Servers
  <2> HIDE DEF s2
  <2>3. moved = [server |-> s2, sent |-> ended.sent] /\ moved.server = s2
    BY <1>8
  <2>4. Emission(server, moved)
    <3>1. s2.turns >= ended.server.turns /\ s2.turn \in {0, s2.turns}
      BY <1>1, <1>4, <2>2 DEF Ordered
    <3>2. Emission(server, [server |-> s2, sent |-> ended.sent])
      BY <1>1, <1>4, <2>2, <3>1, Amended DEF Sound
    <3>3. QED
      BY <2>3, <3>2
  <2> HIDE DEF moved
  <2>5. /\ Emission(server, next) /\ Headed(next.server) /\ Announces(server, next)
        /\ next.server.turns = server.turns + 1 /\ next.server.turn = next.server.turns
        /\ next.server.queue = Tail(server.queue) /\ next.server.live = server.live
        /\ ~next.server.disowned
        /\ \E e \in Range(next.sent) : IsMessage(e) /\ Says(e) = m
    BY <1>1, <1>2, <2>2, <2>3, <2>4, BegunStep
  <2> HIDE DEF next
  <2>6. /\ Publish(next) /\ server' = next.server
        /\ said' = said \cup {m} /\ begun' = Append(begun, Head(server.queue))
    BY <1>6, <1>11 DEF Publish
  <2>7. m.turn = server.turns + 1 /\ m \in Messages
    BY <1>1 DEF Message, Messages
  <2> HIDE DEF m
  <2>8. Serves(next)
    BY <1>1, <1>2, <1>7, <2>5, <2>6, <2>7 DEF Serves, Owned
  <2>9. Types'
    BY <1>1, <1>5, <1>7, <2>1, <2>6, <2>7, <2>8, ServesTypes DEF Types
  <2>10. Saying'
    <3>1. server'.turn # server.turn
      BY <1>1, <2>5, <2>6 DEF Ordered
    <3>2. QED
      BY <1>1, <1>5, <2>8, <3>1, ServesSaying
  <2>11. Requested'
    BY <1>1, <1>7, <2>5, <2>6 DEF Requested
  <2>12. Once'
    BY <1>1, <1>7, <1>11, <2>5, <2>6, BeginsQueued
  <2>13. Renewed'
    <3>1. Range(begun') = Range(begun) \cup {Head(server.queue)}
      BY <1>1, <2>1, <2>6, AppendRange DEF Types
    <3>2. Head(server.queue) \in Range(server.queue) /\ Range(server'.queue) \subseteq Range(server.queue)
      <4>1. \A i \in DOMAIN Tail(server.queue) :
              i + 1 \in DOMAIN server.queue /\ Tail(server.queue)[i] = server.queue[i + 1]
        BY <1>11, <2>1
      <4>2. Head(server.queue) = server.queue[1] /\ 1 \in DOMAIN server.queue
        BY <1>11, <2>1
      <4>3. server'.queue = Tail(server.queue)
        BY <2>5, <2>6
      <4>4. QED
        BY <4>1, <4>2, <4>3 DEF Range
    <3>3. InUse' \subseteq InUse
      BY <1>7, <3>1, <3>2 DEF InUse
    <3>4. QED
      BY <1>1, <1>7, <3>3, RenewedKept
  <2>14. QED
    BY <2>8, <2>9, <2>10, <2>11, <2>12, <2>13, ServesKeeps
<1>12. QED
  BY <1>10, <1>11

(* A prompt that waits for its admission is nowhere yet: it can be queued, *)
(* or begin.                                                               *)
LEMMA AdmitsOnce ==
  ASSUME Types, Once, NEW q \in Requests, records[q].state = "pending",
         \A p \in Requests : p # q => records'[p] = records[p],
         records'[q].state = "done", forgotten' = forgotten,
         \/ server'.queue = Append(server.queue, q) /\ begun' = begun
         \/ server'.queue = server.queue /\ begun' = Append(begun, q)
  PROVE  Once'
<1>1. server.queue \in Seq(Requests) /\ begun \in Seq(Requests)
  BY DEF Types, Servers
<1>2. ASSUME NEW s \in Seq(Requests)
      PROVE  /\ Range(Append(s, q)) = Range(s) \cup {q}
             /\ \A p : p # q =>
                  ((\A i, j \in DOMAIN s : s[i] = p /\ s[j] = p => i = j) =>
                   \A i, j \in DOMAIN Append(s, q) : Append(s, q)[i] = p /\ Append(s, q)[j] = p => i = j)
             /\ q \notin Range(s) =>
                  \A i, j \in DOMAIN Append(s, q) : Append(s, q)[i] = q /\ Append(s, q)[j] = q => i = j
  <2> DEFINE t == Append(s, q)
             n == Len(s)
  <2>1. n \in Nat /\ DOMAIN s = 1..n /\ DOMAIN t = 1..(n + 1)
    OBVIOUS
  <2>2. t[n + 1] = q /\ \A i \in 1..n : t[i] = s[i]
    OBVIOUS
  <2> HIDE DEF t, n
  <2>3. \A i \in DOMAIN t : i \in DOMAIN s \/ i = n + 1
    BY <2>1
  <2>4. ASSUME NEW p, p # q, \A i, j \in DOMAIN s : s[i] = p /\ s[j] = p => i = j
        PROVE  \A i, j \in DOMAIN t : t[i] = p /\ t[j] = p => i = j
    BY <2>1, <2>2, <2>3, <2>4
  <2>5. ASSUME q \notin Range(s)
        PROVE  \A i, j \in DOMAIN t : t[i] = q /\ t[j] = q => i = j
    <3>1. \A i \in DOMAIN s : s[i] # q
      BY <2>5 DEF Range
    <3>2. QED
      BY <2>1, <2>2, <2>3, <3>1
  <2>6. Range(t) = Range(s) \cup {q}
    BY AppendRange DEF t
  <2>7. QED
    BY <2>4, <2>5, <2>6 DEF t
<1>3. SUFFICES ASSUME NEW p \in Requests \ forgotten
      PROVE  /\ p \in Range(begun') \cup Range(server'.queue) => records'[p].state = "done"
             /\ \A i, j \in DOMAIN begun' : begun'[i] = p /\ begun'[j] = p => i = j
             /\ \A i, j \in DOMAIN server'.queue : server'.queue[i] = p /\ server'.queue[j] = p => i = j
             /\ ~(p \in Range(begun') /\ p \in Range(server'.queue))
  BY DEF Once
<1>4. /\ p \in Range(begun) \cup Range(server.queue) => records[p].state = "done"
      /\ \A i, j \in DOMAIN begun : begun[i] = p /\ begun[j] = p => i = j
      /\ \A i, j \in DOMAIN server.queue : server.queue[i] = p /\ server.queue[j] = p => i = j
      /\ ~(p \in Range(begun) /\ p \in Range(server.queue))
  BY DEF Once
<1>5. p = q => p \notin Range(begun) /\ p \notin Range(server.queue)
  BY <1>4
<1>6. ASSUME NEW s \in Seq(Requests),
             \A i, j \in DOMAIN s : s[i] = p /\ s[j] = p => i = j, p = q => p \notin Range(s)
      PROVE  \A i, j \in DOMAIN Append(s, q) : Append(s, q)[i] = p /\ Append(s, q)[j] = p => i = j
  BY <1>2, <1>6
<1>7. CASE server'.queue = Append(server.queue, q) /\ begun' = begun
  <2>1. Range(server'.queue) = Range(server.queue) \cup {q} /\ Range(begun') = Range(begun)
    BY <1>1, <1>2, <1>7
  <2>2. \A i, j \in DOMAIN server'.queue : server'.queue[i] = p /\ server'.queue[j] = p => i = j
    BY <1>1, <1>4, <1>5, <1>6, <1>7
  <2>3. QED
    BY <1>4, <1>5, <1>7, <2>1, <2>2
<1>8. CASE server'.queue = server.queue /\ begun' = Append(begun, q)
  <2>1. Range(begun') = Range(begun) \cup {q} /\ Range(server'.queue) = Range(server.queue)
    BY <1>1, <1>2, <1>8
  <2>2. \A i, j \in DOMAIN begun' : begun'[i] = p /\ begun'[j] = p => i = j
    BY <1>1, <1>4, <1>5, <1>6, <1>8
  <2>3. QED
    BY <1>4, <1>5, <1>8, <2>1, <2>2
<1>9. QED
  BY <1>7, <1>8

(* A prompt is admitted: it is queued behind the turn, or begins one.      *)
LEMMA AdmitKeeps == ASSUME IndInv, NEW p \in Requests, Admit(p) PROVE IndInv'
<1> DEFINE s == [server EXCEPT !.live = TRUE]
           s1 == [s EXCEPT !.queue = Append(@, p)]
           queued == Emit(From(s1), "queued")
           next == Begun(From(s))
           m == Message(server.turns + 1, "user")
           result == [state |-> "done", running |-> ~Running(s), cursor |-> s.seq,
                      before |-> Due, turn |-> IF Running(s) THEN 0 ELSE s.turns + 1]
<1>1. /\ Types /\ Sane(server) /\ Saying /\ Requested /\ Once /\ Renewed /\ Ordered(server)
      /\ Headed(server) /\ Owned(server)
      /\ server \in Servers /\ server.turn \in Nat /\ server.turns \in Nat /\ server.seq \in Nat
      /\ server.queue \in Seq(Requests) /\ said \subseteq Messages
      /\ records \in [Requests -> Results] /\ Due \subseteq Messages
  BY DEF IndInv, Sane, Types, Servers, Due
<1>2. /\ s \in Servers /\ s.seq = server.seq /\ s.events = server.events
      /\ s.epoch = server.epoch /\ s.turns = server.turns /\ s.turn = server.turn
      /\ s.queue = server.queue /\ s.live = TRUE
      /\ s.disowned = server.disowned /\ s.stops = server.stops
  BY <1>1 DEF Servers
<1>3. /\ records[p].state = "pending" /\ records' = [records EXCEPT ![p] = result]
      /\ \/ /\ Running(s) /\ Publish(queued) /\ UNCHANGED <<said, begun>>
         \/ /\ ~Running(s) /\ Publish(next)
            /\ said' = said \cup {m} /\ begun' = Append(begun, p)
      /\ UNCHANGED <<transcript, calls, replies, sending, renewed, tab, snapshot, forgotten, flaws>>
  BY DEF Admit, NotesBegin
<1> HIDE DEF s
<1>4. Running(s) = Running(server)
  BY <1>2 DEF Running
<1>5. /\ result.state = "done" /\ result.cursor = server.seq /\ result.before = Due
      /\ result.running => result.turn # 0
  <2>1. result.state = "done" /\ result.cursor = server.seq /\ result.before = Due
    BY <1>2
  <2>2. s.turns + 1 # 0
    BY <1>1, <1>2
  <2>3. result.running = ~Running(s) /\ result.turn = IF Running(s) THEN 0 ELSE s.turns + 1
    OBVIOUS
  <2> HIDE DEF result
  <2>4. QED
    BY <2>1, <2>2, <2>3
<1>6. result \in Results
  <2>1. s.turns + 1 \in Nat /\ Running(s) \in BOOLEAN /\ s.seq \in Nat
    BY <1>1, <1>2 DEF Running
  <2>2. QED
    BY <1>1, <2>1 DEF result, Results
<1> HIDE DEF result
<1>7. /\ records' \in [Requests -> Results] /\ records'[p] = result
      /\ \A q \in Requests : q # p => records'[q] = records[q]
  BY <1>1, <1>3, <1>6
<1>8. \A q \in Requests : records'[q].state = "done" =>
        \/ records'[q] = records[q]
        \/ /\ records'[q].cursor = server.seq /\ records'[q].before = Due
           /\ records'[q].running => records'[q].turn # 0
  BY <1>5, <1>7
<1>9. ASSUME Range(begun') \cup Range(server'.queue)
               \subseteq Range(begun) \cup Range(server.queue) \cup {p}
      PROVE  Renewed'
  <2>1. p \in InUse
    BY <1>3 DEF InUse
  <2>2. \A q \in Requests : q # p => records'[q] = records[q]
    BY <1>7
  <2>3. InUse' \subseteq InUse
    BY <1>3, <1>9, <2>1, <2>2 DEF InUse
  <2>4. QED
    BY <1>1, <1>3, <2>3, RenewedKept
<1>10. ASSUME server'.live PROVE Requested'
  <2>2. \A q \in Requests : records[q].state = "done" => records'[q].state = "done"
    BY <1>5, <1>7
  <2>3. \A c \in calls \cup replies : c.request \in Requests
    BY <1>1 DEF Types, Calls
  <2>4. QED
    BY <1>1, <1>3, <1>10, <2>2, <2>3 DEF Requested
<1>11. CASE Running(s)
  <2>1. Append(server.queue, p) \in Seq(Requests)
    BY <1>1
  <2>2. /\ s1 \in Servers /\ s1.seq = server.seq /\ s1.events = server.events
        /\ s1.epoch = server.epoch /\ s1.turns = server.turns /\ s1.turn = server.turn
        /\ s1.queue = Append(server.queue, p) /\ s1.live = TRUE
        /\ s1.disowned = server.disowned /\ s1.stops = server.stops
    BY <1>2, <2>1 DEF Servers
  <2> HIDE DEF s1
  <2>3. Sound(server, From(s1)) /\ From(s1).server = s1
    BY <1>1, <2>2, FromAmended DEF Sound
  <2>4. MayEmit(server, From(s1), "queued")
    BY <2>3 DEF MayEmit, Kinds
  <2>5. /\ Sound(server, queued) /\ queued.server.turn = server.turn
        /\ queued.server.turns = server.turns /\ queued.server.queue = Append(server.queue, p)
        /\ queued.server.live = TRUE /\ queued.server.disowned = server.disowned
    BY <1>1, <2>2, <2>3, <2>4, EmitNext
  <2> HIDE DEF queued
  <2>6. server' = queued.server /\ Publish(queued) /\ UNCHANGED <<said, begun>>
    BY <1>3, <1>11 DEF Publish
  <2>7. Serves(queued)
    BY <1>1, <1>3, <1>8, <2>5, <2>6 DEF Serves, Sound, Owned, Running
  <2>8. Types'
    BY <1>1, <1>3, <1>7, <2>6, <2>7, ServesTypes DEF Types, Saying
  <2>9. Saying'
    BY <1>1, <1>3, <2>5, <2>6, <2>7, ServesSaying
  <2>10. Once'
    BY <1>1, <1>3, <1>5, <1>7, <2>5, <2>6, AdmitsOnce
  <2>11. Renewed'
    <3>1. Range(Append(server.queue, p)) = Range(server.queue) \cup {p}
      BY <1>1, AppendRange
    <3>1a. server'.queue = Append(server.queue, p) /\ begun' = begun
      BY <2>5, <2>6
    <3>2. QED
      BY <1>9, <3>1, <3>1a
  <2>12. QED
    BY <1>10, <2>5, <2>6, <2>7, <2>8, <2>9, <2>10, <2>11, ServesKeeps
<1>12. CASE ~Running(s)
  <2>1. Emission(server, From(s)) /\ From(s).server = s
    BY <1>1, <1>2, FromAmended
  <2>2. /\ Emission(server, next) /\ Headed(next.server) /\ Announces(server, next)
        /\ next.server.turns = server.turns + 1 /\ next.server.turn = next.server.turns
        /\ next.server.queue = server.queue /\ next.server.live = TRUE
        /\ next.server.disowned = server.disowned
        /\ \E e \in Range(next.sent) : IsMessage(e) /\ Says(e) = m
    BY <1>1, <1>2, <2>1, BegunStep
  <2> HIDE DEF next
  <2>3. /\ Publish(next) /\ server' = next.server
        /\ said' = said \cup {m} /\ begun' = Append(begun, p)
    BY <1>3, <1>12 DEF Publish
  <2>4. m.turn = server.turns + 1 /\ m \in Messages
    BY <1>1 DEF Message, Messages
  <2> HIDE DEF m
  <2>5. Serves(next)
    <3>1. ~server.disowned
      BY <1>1, <1>4, <1>12 DEF Owned
    <3>2. QED
      BY <1>3, <1>8, <2>2, <2>3, <2>4, <3>1 DEF Serves, Owned
  <2>6. begun \in Seq(Requests) /\ Append(begun, p) \in Seq(Requests)
    BY <1>1 DEF Types
  <2>7. Types'
    BY <1>1, <1>3, <1>7, <2>3, <2>4, <2>5, <2>6, ServesTypes DEF Types, Saying
  <2>8. Saying'
    <3>1. server.turn = 0
      BY <1>4, <1>12 DEF Running
    <3>2. ASSUME NEW n \in said \ transcript PROVE FALSE
      <4>1. n.turn = 0 /\ n.turn \in 1..server.turns
        BY <1>1, <3>1 DEF Saying
      <4>2. QED
        BY <1>1, <4>1
    <3>3. transcript' = said
      <4>1. transcript \subseteq said
        BY <1>1 DEF Saying
      <4>2. QED
        BY <1>3, <3>2, <4>1
    <3>4. server'.turn # server.turn
      BY <1>1, <2>2, <2>3, <3>1
    <3>5. QED
      BY <1>1, <2>5, <3>3, <3>4, ServesSaying
  <2>9. Once'
    BY <1>1, <1>3, <1>5, <1>7, <2>2, <2>3, AdmitsOnce
  <2>10. Renewed'
    <3>1. Range(begun') = Range(begun) \cup {p} /\ server'.queue = server.queue
      BY <1>1, <2>2, <2>3, <2>6, AppendRange
    <3>2. QED
      BY <1>9, <3>1
  <2>11. QED
    BY <1>10, <2>2, <2>3, <2>5, <2>7, <2>8, <2>9, <2>10, ServesKeeps
<1>13. QED
  BY <1>11, <1>12

(* The Goal is saved, and the late event goes out.                         *)
LEMMA GoalSavedKeeps == ASSUME IndInv, GoalSaved PROVE IndInv'
<1> DEFINE s == [server EXCEPT !.stops = server.stops - 1, !.disowned = Running(server)]
           io == Emit(From(s), "stop")
<1>1. /\ Types /\ Sane(server) /\ Saying /\ Requested /\ Once /\ Renewed /\ Ordered(server)
      /\ Headed(server) /\ Owned(server)
      /\ server \in Servers /\ server.stops \in Nat /\ server.turns \in Nat
  BY DEF IndInv, Sane, Types, Servers
<1>2. Publish(io) /\ server.stops > 0
  BY DEF GoalSaved
<1>3. /\ s \in Servers /\ s.seq = server.seq /\ s.events = server.events
      /\ s.epoch = server.epoch /\ s.turns = server.turns /\ s.turn = server.turn
      /\ s.disowned = Running(server)
      /\ s.queue = server.queue /\ s.live = server.live
  <2>1. server.stops - 1 \in Nat /\ Running(server) \in BOOLEAN
    BY <1>1, <1>2 DEF Running
  <2>2. QED
    BY <1>1, <2>1 DEF Servers
<1> HIDE DEF s
<1>4. Emission(server, From(s)) /\ From(s).server = s /\ From(s).sent = <<>>
  <2>1. Emission(server, From(server)) /\ From(server).server = server /\ From(server).sent = <<>>
    BY <1>1, NoEmission DEF From
  <2>2. From(s).server = s /\ From(s).sent = <<>> /\ From(s) = [server |-> s, sent |-> <<>>]
    BY DEF From
  <2>3. s.turns >= server.turns /\ s.turn \in {0, s.turns}
    BY <1>1, <1>3 DEF Ordered
  <2>4. Emission(server, [server |-> s, sent |-> From(server).sent])
    BY <1>1, <1>3, <2>1, <2>3, Amended
  <2>5. QED
    BY <2>1, <2>2, <2>4
<1>5. MayEmit(server, From(s), "stop") /\ \A e \in Range(server.events) : e.seq <= server.seq
  BY <1>1 DEF MayEmit, Kinds, Ordered, Of
<1>6. Headed(s)
  BY <1>1, <1>3 DEF Headed, Running
<1>7. /\ Emission(server, io) /\ OneLater(s, io.server) /\ Headed(io.server)
  BY <1>1, <1>4, <1>5, <1>6, EmitStep
<1>8. ~Running(s) => Announces(server, io)
  BY <1>1, <1>4, <1>5, AnnounceNext
<1> HIDE DEF io
<1>9. /\ io.server.turn = server.turn /\ io.server.turns = server.turns
      /\ io.server.queue = server.queue /\ io.server.live = server.live
      /\ io.server.disowned = Running(server)
  BY <1>3, <1>7 DEF OneLater, Servers
<1>10. server' = io.server /\ UNCHANGED <<transcript, messaging, tab, snapshot, history, flaws>>
  BY <1>2 DEF GoalSaved, Publish
<1>11. Announced(io.server) => Announces(server, io)
  BY <1>3, <1>8, <1>9 DEF Announced, Running
<1>12. Owned(io.server) /\ (server.disowned => io.server.disowned)
  BY <1>1, <1>9 DEF Owned, Running
<1>13. Serves(io)
  BY <1>2, <1>7, <1>9, <1>10, <1>11, <1>12 DEF Serves, messaging, history
<1>14. Types'
  BY <1>1, <1>10, <1>13, ServesTypes DEF messaging, history, Types, Saying
<1>15. Saying'
  BY <1>1, <1>9, <1>10, <1>13, ServesSaying
<1>16. Requested' /\ Once' /\ Renewed'
  BY <1>1, <1>9, <1>10 DEF Requested, Once, Renewed, InUse, messaging, history
<1>17. QED
  BY <1>13, <1>14, <1>15, <1>16, ServesKeeps

(* A disowned turn answers: it is saved, and nobody hears of it.           *)
LEMMA UnheardKeeps == ASSUME IndInv, Unheard PROVE IndInv'
<1>1. /\ Types /\ Sane(server) /\ OnTheWire /\ Requested /\ Once /\ Renewed /\ Saying
      /\ Retained /\ Recorded /\ Coming /\ Opened /\ Fresh /\ Streaming /\ ShownOnce
      /\ server \in Servers /\ server.turn \in Nat /\ server.turns \in Nat
  BY DEF IndInv, Types, Servers
<1>2. /\ server.disowned /\ server' = [server EXCEPT !.answered = TRUE]
      /\ transcript' = transcript \cup {m \in said' : m.turn = server.turn}
      /\ UNCHANGED <<messaging, wire, tab, snapshot, begun, forgotten, flaws>>
  BY DEF Unheard
<1>3. /\ server' \in Servers /\ server'.seq = server.seq /\ server'.events = server.events
      /\ server'.epoch = server.epoch /\ server'.turns = server.turns
      /\ server'.turn = server.turn /\ server'.disowned /\ server'.live = server.live
      /\ server'.queue = server.queue
  BY <1>1, <1>2 DEF Servers
<1> DEFINE m == Message(server.turn, "unsent")
<1>4. /\ said \subseteq said' /\ said' \subseteq said \cup {m}
      /\ m \in Messages /\ m.turn = server.turn /\ m.kind = "unsent"
  BY <1>1 DEF Unheard, Message, Messages
<1> HIDE DEF m
<1>5. Due' = Due
  BY <1>4 DEF Due
<1>6. Types'
  BY <1>1, <1>2, <1>3, <1>4 DEF Types, messaging
<1>7. Sane(server)'
  <2>1. Ordered(server')
    <3>1. \A e : Of(server, e) => Of(server', e)
      BY <1>3 DEF Of
    <3>2. QED
      BY <1>1, <1>3, <3>1 DEF Sane, Ordered
  <2>2. Headed(server')
    BY <1>1, <1>3 DEF Sane, Headed, Running
  <2>3. Owned(server')
    BY <1>1, <1>2, <1>3 DEF Sane, Owned, Running
  <2>4. QED
    BY <2>1, <2>2, <2>3 DEF Sane
<1>8. Saying'
  <2>1. m.turn \in 1..server.turns
    <3>1. m.turn # 0 /\ m.turn \in {0, server.turns}
      BY <1>1, <1>2, <1>4 DEF Sane, Owned, Running, Ordered
    <3>2. QED
      BY <1>1, <3>1
  <2>2. transcript' \subseteq said'
    BY <1>1, <1>2, <1>4 DEF Saying
  <2>3. \A x \in said' \ transcript' : x.turn = server'.turn
    BY <1>1, <1>2, <1>3, <1>4 DEF Saying
  <2>4. \A x \in said' \cup tab'.shown \cup tab'.again \cup snapshot'.shown :
          x.turn \in 1..server'.turns
    BY <1>1, <1>2, <1>3, <1>4, <2>1 DEF Saying
  <2>5. QED
    BY <1>3, <2>2, <2>3, <2>4 DEF Saying
<1>9. \A x, q : AtLeast(server', x, q) <=> AtLeast(server, x, q)
  BY <1>3 DEF AtLeast
<1>10. OnTheWire' /\ Requested' /\ Once' /\ Renewed' /\ Streaming' /\ ShownOnce'
  <2>1. OnTheWire'
    BY <1>1, <1>2, <1>3 DEF OnTheWire, Of
  <2>2. Requested' /\ Once' /\ Renewed'
    BY <1>1, <1>2, <1>3 DEF Requested, Once, Renewed, InUse, messaging
  <2>3. Streaming' /\ ShownOnce'
    BY <1>1, <1>2, <1>3 DEF Streaming, ShownOnce, After
  <2>4. QED
    BY <2>1, <2>2, <2>3
<1>11. Informed'
  BY <1>3 DEF Informed, Announced
<1>12. Retained'
  BY <1>1, <1>3, <1>5, <1>9 DEF Retained
<1>13. Recorded'
  BY <1>1, <1>2, <1>3, <1>5, <1>9 DEF Recorded, messaging
<1>14. Coming'
  BY <1>1, <1>2, <1>3, <1>5, <1>9 DEF Coming, Told
<1>15. Opened'
  BY <1>1, <1>2, <1>3, <1>5, <1>9 DEF Opened, Moved, CurrentTurn, SnapCursor
<1>16. Fresh'
  <2>1. \A S : (Behind(S) => Behind(S)') /\ (Novel(S) => Novel(S)')
    BY <1>2 DEF Behind, Novel
  <2>2. \A c : After(server', c) = After(server, c)
    BY <1>3 DEF After
  <2>3. QED
    BY <1>1, <1>2, <1>3, <2>2 DEF Fresh, Novel, Behind, messaging, CurrentTurn
<1>17. QED
  BY <1>6, <1>7, <1>8, <1>10, <1>11, <1>12, <1>13, <1>14, <1>15, <1>16 DEF IndInv

-----------------------------------------------------------------------------
(***************************************************************************)
(* Submissions.                                                            *)
(***************************************************************************)
(* What a step of the messaging keeps, given what it does to the requests. *)
LEMMA MessagingKeeps ==
  ASSUME IndInv, UNCHANGED <<server, transcript, wire, tab, snapshot, said, begun, flaws>>,
         Types', Requested', Once', Renewed',
         \A r \in Requests : records'[r].state = "done" => records'[r] = records[r]
  PROVE  IndInv'
<1>1. /\ Sane(server) /\ OnTheWire /\ Informed /\ Saying /\ Retained
      /\ Recorded /\ Coming /\ Opened /\ Fresh /\ Streaming /\ ShownOnce
  BY DEF IndInv
<1>2. /\ Sane(server)' /\ Saying' /\ Retained' /\ ShownOnce' /\ Informed' /\ OnTheWire'
      /\ Streaming'
  BY <1>1 DEF Saying, Retained, ShownOnce, Informed, OnTheWire, Streaming, Due
<1>3. Coming' /\ Opened'
  BY <1>1 DEF Coming, Opened, Told, SnapCursor, Due, Moved
<1>4. Recorded'
  BY <1>1 DEF Recorded, Due
<1>5. Fresh'
  <2>1. tab' = tab /\ server' = server /\ wire' = wire
    OBVIOUS
  <2>2. ASSUME tab.conn = "none", NEW r \in Requests, records'[r].state = "done"
        PROVE  Behind(After(server, records'[r].cursor))
    BY <1>1, <2>2 DEF Fresh
  <2>3. QED
    BY <1>1, <2>1, <2>2 DEF Fresh, Novel, Behind
<1>6. QED
  BY <1>2, <1>3, <1>4, <1>5 DEF IndInv

(* The parts of the invariant about the requests, and the types.           *)
LEMMA MessagingFacts ==
  ASSUME IndInv
  PROVE  /\ Types /\ Requested /\ Once /\ Renewed /\ renewed \subseteq Prompts
         /\ records \in [Requests -> Results]
         /\ calls \subseteq Calls /\ replies \subseteq Calls /\ sending \in Calls \cup {NoCall}
         /\ \A c \in Calls : c.request \in Requests /\ c.try \in Nat /\ c # NoCall
         /\ NoCall.request \notin Requests
         /\ \A p \in Requests, n \in Nat : Call(p, n) \in Calls /\ Call(p, n).request = p
         /\ \A r \in Requests : r.prompt \in Prompts
<1>1. Types /\ Requested /\ Once /\ Renewed
  BY DEF IndInv
<1>2. NoCall.request \notin Requests
  BY NoRequestAssumption DEF NoCall, Call
<1>3. \A c \in Calls : c.request \in Requests /\ c.try \in Nat
  BY DEF Calls
<1>4. \A p \in Requests, n \in Nat : Call(p, n) \in Calls /\ Call(p, n).request = p
  BY DEF Calls, Call
<1>5. \A r \in Requests : r.prompt \in Prompts
  BY DEF Requests
<1>6. QED
  BY <1>1, <1>2, <1>3, <1>4, <1>5 DEF Types

(* A call creates the record of its request.                               *)
LEMMA AcceptKeeps == ASSUME IndInv, NEW c \in calls, Accept(c) PROVE IndInv'
<1>1. /\ Types /\ Requested /\ Once /\ Renewed /\ c \in Calls /\ c.request \in Requests
      /\ records \in [Requests -> Results] /\ calls \subseteq Calls /\ replies \subseteq Calls
      /\ \A d \in Calls : d.request \in Requests
  BY MessagingFacts
<1>2. /\ records[c.request].state = "none"
      /\ records' = [records EXCEPT ![c.request].state = "pending"]
      /\ UNCHANGED <<server, transcript, calls, replies, sending, renewed, wire, tab, snapshot,
                     said, begun, forgotten, flaws>>
  BY DEF Accept, Remembers, history
<1> DEFINE result == [records[c.request] EXCEPT !.state = "pending"]
<1>3. result \in Results /\ result.state = "pending"
  BY <1>1 DEF Results
<1>4. records' = [records EXCEPT ![c.request] = result]
  BY <1>1, <1>2
<1> HIDE DEF result
<1>5. /\ records' \in [Requests -> Results] /\ records'[c.request].state = "pending"
      /\ \A p \in Requests : p # c.request => records'[p] = records[p]
  BY <1>1, <1>3, <1>4
<1>6. Types'
  BY <1>1, <1>2, <1>5 DEF Types
<1>7. Requested'
  BY <1>1, <1>2, <1>5 DEF Requested
<1>8. Once'
  BY <1>1, <1>2, <1>5 DEF Once
<1>9. Renewed'
  <2>1. c.request \in InUse
    BY DEF InUse
  <2>2. InUse' \subseteq InUse
    BY <1>1, <1>2, <1>5, <2>1 DEF InUse
  <2>3. QED
    BY <1>1, <1>2, <2>2, RenewedKept
<1>10. QED
  BY <1>2, <1>5, <1>6, <1>7, <1>8, <1>9, MessagingKeeps

(* A call returns with the result of its request.                          *)
LEMMA ReplyKeeps == ASSUME IndInv, NEW c \in calls, Reply(c) PROVE IndInv'
<1>1. Types /\ Requested /\ Once /\ Renewed /\ calls \subseteq Calls /\ replies \subseteq Calls
  BY MessagingFacts
<1>2. /\ records[c.request].state = "done" /\ calls' \subseteq calls /\ replies' \subseteq replies \cup {c}
      /\ UNCHANGED <<server, transcript, records, sending, renewed, wire, tab, snapshot, said,
                     begun, forgotten, flaws>>
  BY DEF Reply, history
<1>3. Types'
  BY <1>1, <1>2 DEF Types
<1>4. Requested' /\ Once' /\ Renewed'
  <2>1. InUse' \subseteq InUse
    BY <1>2 DEF InUse
  <2>2. QED
    BY <1>1, <1>2, <2>1, RenewedKept DEF Requested, Once
<1>5. QED
  BY <1>2, <1>3, <1>4, MessagingKeeps

(* A draft is submitted.                                                   *)
LEMMA SendKeeps == ASSUME IndInv, NEW p \in Prompts, Send(p) PROVE IndInv'
<1> DEFINE r == [prompt |-> p, id |-> 1]
<1>1. /\ Types /\ Requested /\ Once /\ Renewed /\ calls \subseteq Calls
      /\ \A q \in Requests, n \in Nat : Call(q, n) \in Calls /\ Call(q, n).request = q
  BY MessagingFacts
<1>2. r \in Requests /\ r.id = 1
  BY DEF Requests
<1>3. /\ sending' = Call(r, 1) /\ calls' = calls \cup {Call(r, 1)}
      /\ UNCHANGED <<server, transcript, records, replies, renewed, wire, tab, snapshot, said,
                     begun, forgotten, flaws>>
  BY DEF Send, history
<1> HIDE DEF r
<1>4. Call(r, 1) \in Calls /\ Call(r, 1).request = r
  BY <1>1, <1>2
<1>5. Types'
  BY <1>1, <1>3, <1>4 DEF Types
<1>6. Requested' /\ Once'
  BY <1>1, <1>3 DEF Requested, Once
<1>7. Renewed'
  <2>1. InUse' \subseteq InUse \cup {r}
    BY <1>3, <1>4 DEF InUse
  <2>2. QED
    BY <1>1, <1>2, <1>3, <2>1, RenewedKept
<1>8. QED
  BY <1>3, <1>5, <1>6, <1>7, MessagingKeeps

(* The tab gives up on a call and will try again under the same id.        *)
LEMMA GiveUpKeeps == ASSUME IndInv, GiveUp PROVE IndInv'
<1>1. /\ Types /\ Requested /\ Once /\ Renewed /\ calls \subseteq Calls /\ replies \subseteq Calls
      /\ \A c \in Calls : c.request \in Requests /\ c.try \in Nat /\ c # NoCall
      /\ \A q \in Requests, n \in Nat : Call(q, n) \in Calls /\ Call(q, n).request = q
  BY MessagingFacts
<1>2. /\ sending \in calls \cup replies
      /\ sending' = Call(sending.request, sending.try + 1) /\ replies' \subseteq replies
      /\ UNCHANGED <<server, transcript, records, calls, renewed, wire, tab, snapshot, said, begun,
                     forgotten, flaws>>
  BY DEF GiveUp, history
<1>3. sending' \in Calls /\ sending'.request = sending.request /\ sending # NoCall
  BY <1>1, <1>2
<1>4. Types'
  BY <1>1, <1>2, <1>3 DEF Types
<1>5. Requested' /\ Once' /\ Renewed'
  <2>1. InUse' \subseteq InUse
    BY <1>2, <1>3 DEF InUse
  <2>2. QED
    BY <1>1, <1>2, <1>3, <2>1, RenewedKept DEF Requested, Once
<1>6. QED
  BY <1>2, <1>3, <1>4, <1>5, MessagingKeeps

(* The tab tries again.                                                    *)
LEMMA ResendKeeps == ASSUME IndInv, Resend PROVE IndInv'
<1> DEFINE r == sending.request
           c == IF r.prompt \in renewed THEN [sending EXCEPT !.request.id = 2] ELSE sending
<1>1. /\ Types /\ Requested /\ Once /\ Renewed /\ calls \subseteq Calls
      /\ sending \in Calls \cup {NoCall}
  BY MessagingFacts
<1>2. /\ sending # NoCall /\ sending' = c /\ calls' = calls \cup {c}
      /\ UNCHANGED <<server, transcript, records, replies, renewed, wire, tab, snapshot, said,
                     begun, forgotten, flaws>>
  BY DEF Resend, history
<1>3. r \in Requests /\ r.prompt \in Prompts /\ sending.try \in Nat
  BY <1>1, <1>2, MessagingFacts
<1>4. c \in Calls /\ (c.request = r \/ (r.prompt \in renewed /\ c.request.prompt = r.prompt))
  <2>1. CASE r.prompt \notin renewed
    BY <1>1, <1>2, <2>1
  <2>2. CASE r.prompt \in renewed
    <3>1. sending = [request |-> r, try |-> sending.try] /\ r = [prompt |-> r.prompt, id |-> r.id]
      BY <1>1, <1>2, <1>3 DEF Calls, Requests
    <3>2. c = [request |-> [prompt |-> r.prompt, id |-> 2], try |-> sending.try]
      BY <2>2, <3>1
    <3>3. [prompt |-> r.prompt, id |-> 2] \in Requests
      BY <1>3 DEF Requests
    <3> HIDE DEF c, r
    <3>4. QED
      BY <1>3, <2>2, <3>2, <3>3 DEF Calls
  <2>3. QED
    BY <2>1, <2>2
<1> HIDE DEF c
<1>5. Types'
  BY <1>1, <1>2, <1>4 DEF Types
<1>6. Requested' /\ Once'
  BY <1>1, <1>2 DEF Requested, Once
<1>7. Renewed'
  <2>1. InUse' \subseteq InUse \cup {c.request} /\ r \in InUse
    BY <1>2 DEF InUse
  <2>2. QED
    BY <1>1, <1>2, <1>4, <2>1, RenewedKept
<1>8. QED
  BY <1>2, <1>5, <1>6, <1>7, MessagingKeeps

(* The record of a settled request lapses.                                 *)
LEMMA ExpireKeeps == ASSUME IndInv, NEW p \in Requests, Expire(p) PROVE IndInv'
<1>1. /\ Types /\ Requested /\ Once /\ Renewed /\ records \in [Requests -> Results]
      /\ calls \subseteq Calls /\ replies \subseteq Calls
      /\ \A c \in Calls : c.request \in Requests
  BY MessagingFacts
<1>2. /\ \A c \in calls \cup replies : c.request # p
      /\ records' = [records EXCEPT ![p] = NoResult] /\ forgotten' = forgotten \cup {p}
      /\ UNCHANGED <<server, transcript, calls, replies, sending, renewed, wire, tab, snapshot,
                     said, begun, flaws>>
  BY DEF Expire, Settled
<1>3. NoResult \in Results /\ NoResult.state = "none"
  BY DEF NoResult, Results
<1>4. /\ records' \in [Requests -> Results] /\ records'[p].state = "none"
      /\ \A q \in Requests : q # p => records'[q] = records[q]
  BY <1>1, <1>2, <1>3
<1>5. Types'
  BY <1>1, <1>2, <1>4 DEF Types
<1>6. Requested'
  BY <1>1, <1>2, <1>4 DEF Requested
<1>7. Once'
  BY <1>1, <1>2, <1>4 DEF Once
<1>8. Renewed'
  <2>1. InUse' \subseteq InUse
    BY <1>2, <1>4 DEF InUse
  <2>2. QED
    BY <1>1, <1>2, <2>1, RenewedKept
<1>9. QED
  BY <1>2, <1>4, <1>5, <1>6, <1>7, <1>8, MessagingKeeps

-----------------------------------------------------------------------------
(***************************************************************************)
(* The stream.                                                             *)
(***************************************************************************)
(* The invariant's parts, with the types the steps of the tab need.        *)
LEMMA TabFacts ==
  ASSUME IndInv
  PROVE  /\ Types /\ Sane(server) /\ OnTheWire /\ Requested /\ Once /\ Renewed /\ Informed
         /\ Saying /\ Retained /\ Recorded /\ Coming /\ Opened /\ Fresh /\ Streaming /\ ShownOnce
         /\ Ordered(server) /\ Headed(server) /\ Owned(server) /\ Running(server) \in BOOLEAN
         /\ server \in Servers /\ server.seq \in Nat /\ server.turns \in Nat /\ server.turn \in Nat
         /\ server.epoch \in Nat /\ server.events \in Seq(Event) /\ server.turn \in {0, server.turns}
         /\ \A e \in Range(server.events) :
              /\ e \in Event /\ e.seq \in Nat /\ e.turn \in Nat /\ e.epoch \in Nat /\ e.kind # "sync"
              /\ Of(server, e) /\ e.seq <= server.seq
         /\ tab \in Tabs /\ tab.cursor \in Nat /\ tab.last \in Nat /\ tab.running \in BOOLEAN
         /\ tab.shown \subseteq Messages /\ tab.again \subseteq Messages
         /\ wire \in Seq(Event \cup SyncEvent)
<1>1. /\ Types /\ Sane(server) /\ OnTheWire /\ Requested /\ Once /\ Renewed /\ Informed
      /\ Saying /\ Retained /\ Recorded /\ Coming /\ Opened /\ Fresh /\ Streaming /\ ShownOnce
  BY DEF IndInv
<1>2. /\ Ordered(server) /\ Headed(server) /\ Owned(server) /\ server.turn \in {0, server.turns}
      /\ Running(server) \in BOOLEAN
  BY <1>1 DEF Sane, Ordered, Running
<1>3. server \in Servers /\ tab \in Tabs /\ wire \in Seq(Event \cup SyncEvent)
  BY <1>1 DEF Types
<1>4. /\ server.seq \in Nat /\ server.turns \in Nat /\ server.turn \in Nat
      /\ server.epoch \in Nat /\ server.events \in Seq(Event)
  BY <1>3 DEF Servers
<1>5. /\ tab.cursor \in Nat /\ tab.last \in Nat /\ tab.running \in BOOLEAN
      /\ tab.shown \subseteq Messages /\ tab.again \subseteq Messages
  BY <1>3 DEF Tabs
<1>6. ASSUME NEW e \in Range(server.events)
      PROVE  /\ e \in Event /\ e.seq \in Nat /\ e.turn \in Nat /\ e.epoch \in Nat /\ e.kind # "sync"
             /\ Of(server, e) /\ e.seq <= server.seq
  BY <1>2, <1>4, EventIn DEF Ordered, Of
<1>7. QED
  BY <1>1, <1>2, <1>3, <1>4, <1>5, <1>6

(* What a step of the tab leaves alone.                                    *)
LEMMA TabKeeps ==
  ASSUME IndInv, UNCHANGED <<server, transcript, records, calls, said, begun, forgotten>>,
         sending' \in {sending, NoCall}, renewed \subseteq renewed',
         Types', OnTheWire', Requested', Informed', Saying', Coming', Opened', Fresh', Streaming',
         ShownOnce'
  PROVE  IndInv'
<1>1. Sane(server) /\ Once /\ Renewed /\ Retained /\ Recorded
  BY DEF IndInv
<1>2. Sane(server)' /\ Once' /\ Retained' /\ Recorded'
  BY <1>1 DEF Once, Retained, Recorded, Due
<1>3. Renewed'
  <2>1. \A r \in InUse' : r \in InUse \/ r = NoCall.request
    BY DEF InUse
  <2>2. NoCall.request \notin Requests
    BY MessagingFacts
  <2>3. QED
    BY <1>1, <2>1, <2>2 DEF Renewed
<1>4. QED
  BY <1>2, <1>3 DEF IndInv

(* What is retained after the tab's cursor, as the replay has it.          *)
LEMMA ReplayFacts ==
  ASSUME IndInv
  PROVE  LET r == Only(server.events, After(server, tab.cursor))
             w == Append(r, Sync(server))
         IN  /\ w \in Seq(Event \cup SyncEvent)
             /\ Events(w) = After(server, tab.cursor)
             /\ Sorted(w)
             /\ Len(w) \in DOMAIN w /\ w[Len(w)] = Sync(server)
             /\ \A i \in DOMAIN w : i <= Len(w) /\ w[i].seq <= server.seq
<1> DEFINE S == After(server, tab.cursor)
           r == Only(server.events, S)
           sync == Sync(server)
           w == Append(r, sync)
           n == Len(r)
<1>1. /\ server \in Servers /\ server.seq \in Nat /\ server.turn \in Nat /\ server.epoch \in Nat
      /\ server.events \in Seq(Event) /\ Ordered(server) /\ tab.cursor \in Nat
      /\ \A e \in Range(server.events) : e.kind # "sync" /\ e.seq <= server.seq
  BY TabFacts
<1>2. S \subseteq Range(server.events)
  BY DEF After
<1>3. r \in Seq(Event) /\ Range(r) = S /\ Sorted(r)
  <2>1. Sorted(server.events)
    BY <1>1 DEF Ordered
  <2> HIDE DEF S
  <2>2. r \in Seq(Event) /\ Range(r) = Range(server.events) \cap S /\ Sorted(r)
    BY <1>1, <2>1, OnlyFilters
  <2>3. QED
    BY <1>2, <2>2
<1>4. sync \in SyncEvent /\ sync.kind = "sync" /\ sync.seq = server.seq
  <2>1. Running(server) \in BOOLEAN /\ Gap(server) \in BOOLEAN
    BY DEF Running, Gap
  <2>2. QED
    BY <1>1, <2>1 DEF Sync, SyncEvent
<1> HIDE DEF S, r, sync
<1>5. r \in Seq(Event \cup SyncEvent) /\ w \in Seq(Event \cup SyncEvent)
  BY <1>3, <1>4
<1>6. /\ n \in Nat /\ DOMAIN r = 1..n /\ DOMAIN w = 1..(n + 1) /\ Len(w) = n + 1
      /\ w[n + 1] = sync /\ \A i \in 1..n : w[i] = r[i]
  BY <1>3
<1>7. ASSUME NEW i \in DOMAIN r PROVE r[i] \in Range(r) /\ r[i].kind # "sync" /\ r[i].seq <= server.seq
  BY <1>1, <1>2, <1>3 DEF Range
<1> HIDE DEF w, n
<1>8. Events(w) = S
  <2>1. \A i \in DOMAIN w : w[i].kind # "sync" => i \in DOMAIN r /\ w[i] = r[i]
    BY <1>4, <1>6
  <2>2. \A i \in DOMAIN r : i \in DOMAIN w /\ w[i] = r[i] /\ w[i].kind # "sync"
    BY <1>6, <1>7
  <2>3. Events(w) = Range(r)
    BY <2>1, <2>2 DEF Events, Range
  <2>4. QED
    BY <1>3, <2>3
<1>9. Sorted(w)
  BY <1>3, <1>4, <1>6 DEF Sorted
<1>10. \A i \in DOMAIN w : i <= Len(w) /\ w[i].seq <= server.seq
  BY <1>1, <1>4, <1>6, <1>7
<1>11. QED
  BY <1>5, <1>6, <1>8, <1>9, <1>10 DEF w, S, r, sync

(* A dial: the replay and its sync, or the end of the stream.              *)
LEMMA SubscribeKeeps == ASSUME IndInv, Subscribe PROVE IndInv'
<1>1. /\ Types /\ OnTheWire /\ Requested /\ Informed /\ Saying /\ Coming /\ Opened /\ Fresh
      /\ ShownOnce /\ Sane(server) /\ Ordered(server) /\ tab \in Tabs /\ tab.cursor \in Nat
      /\ server.seq \in Nat /\ server.events \in Seq(Event)
      /\ \A e \in Range(server.events) : e.seq \in Nat /\ Of(server, e)
  BY TabFacts
<1>2. /\ tab.conn = "dial"
      /\ UNCHANGED <<server, transcript, records, calls, replies, sending, renewed, snapshot,
                     said, begun, forgotten, flaws>>
  BY DEF Subscribe, messaging, history
<1>3. Requested'
  BY <1>1, <1>2 DEF Requested
<1>4. Opened' /\ ShownOnce'
  BY <1>1, <1>2 DEF Opened, SnapCursor, ShownOnce, Due, Moved
<1>5. ASSUME NEW S, Novel(S), tab'.shown = tab.shown, tab'.last = tab.last,
             tab'.again = tab.again
      PROVE  Novel(S)'
  BY <1>5 DEF Novel, Behind
<1>6. CASE server.live
  <2> DEFINE w == Append(Only(server.events, After(server, tab.cursor)), Sync(server))
             n == Len(w)
  <2>1. wire' = w /\ tab' = [tab EXCEPT !.conn = "open"]
    BY <1>6 DEF Subscribe
  <2>2. /\ tab' \in Tabs /\ tab'.conn = "open" /\ tab'.cursor = tab.cursor /\ tab'.seen = tab.seen
        /\ tab'.shown = tab.shown /\ tab'.running = tab.running /\ tab'.last = tab.last
        /\ tab'.again = tab.again
    BY <1>1, <2>1 DEF Tabs
  <2>3. /\ w \in Seq(Event \cup SyncEvent) /\ Events(w) = After(server, tab.cursor) /\ Sorted(w)
        /\ n \in DOMAIN w /\ w[n] = Sync(server)
        /\ \A i \in DOMAIN w : i <= n /\ w[i].seq <= server.seq
    BY ReplayFacts
  <2>4. n \in Nat /\ DOMAIN w = 1..n
    BY <2>3
  <2> HIDE DEF w, n
  <2>5. Types'
    BY <1>1, <1>2, <2>1, <2>2, <2>3 DEF Types
  <2>6. Saying'
    BY <1>1, <1>2, <2>2 DEF Saying
  <2>7. OnTheWire'
    <3>1. InOrder(Events(w))
      BY <1>1, <2>3 DEF Ordered, InOrder, After
    <3>2. ASSUME NEW e \in Events(w) PROVE Of(server, e) /\ <<e.epoch, e.seq>> \notin tab.seen
      <4>1. e \in Range(server.events) /\ e.seq > tab.cursor /\ e.seq \in Nat /\ Of(server, e)
        BY <1>1, <2>3 DEF After
      <4>2. <<e.epoch, e.seq>> \in tab.seen => e.seq <= tab.cursor
        BY <1>1 DEF OnTheWire
      <4>3. QED
        BY <1>1, <4>1, <4>2
    <3>3. QED
      BY <1>1, <1>2, <2>1, <2>2, <2>3, <3>1, <3>2 DEF OnTheWire
  <2>8. Informed'
    <3>1. Telling(w[n]) /\ Tells(w[n]) = Running(server)
      BY <2>3 DEF Telling, Tells, Sync
    <3>2. \A j \in DOMAIN w : ~(j > n)
      BY <2>3, <2>4
    <3>3. QED
      BY <1>2, <2>1, <2>3, <3>1, <3>2 DEF Informed
  <2>9. Streaming'
    BY <1>2, <2>1, <2>2, <2>3 DEF Streaming
  <2>10. Fresh'
    <3>1. Novel(Events(w))
      BY <1>1, <1>2, <2>3 DEF Fresh
    <3>2. Novel(Events(wire))'
      BY <1>5, <2>1, <2>2, <3>1
    <3>3. QED
      BY <1>1, <1>2, <2>2, <3>2 DEF Fresh
  <2>11. Coming'
    <3>1. "skipped" \notin flaws => tab.cursor <= server.seq
      BY <1>1 DEF Coming
    <3>2. CASE Told
      BY <1>2, <2>2, <3>1, <3>2 DEF Coming, Told
    <3>3. CASE Gap(server)
      <4>1. w[n].kind = "sync" /\ w[n].gap
        BY <2>3, <3>3 DEF Sync
      <4>2. QED
        BY <1>2, <2>1, <2>2, <2>3, <3>1, <4>1 DEF Coming
    <3>4. CASE ~Told /\ ~Gap(server)
      <4>1. \A m \in Due \ tab.shown : AtLeast(server, m, tab.cursor + 1)
        BY <1>1, <1>2, <3>4 DEF Coming
      <4>2. ASSUME NEW m \in Due \ tab.shown
            PROVE  \E e \in Events(w) : IsMessage(e) /\ Says(e) = m /\ AtLeast(server, m, e.seq)
        <5>1. CASE \E e \in Range(server.events) : IsMessage(e) /\ Says(e) = m /\ e.seq >= tab.cursor + 1
          <6>1. PICK e \in Range(server.events) : IsMessage(e) /\ Says(e) = m /\ e.seq >= tab.cursor + 1
            BY <5>1
          <6>2. e \in After(server, tab.cursor) /\ e.seq >= e.seq
            BY <1>1, <6>1 DEF After
          <6>3. QED
            BY <2>3, <6>1, <6>2 DEF AtLeast
        <5>2. CASE server.events # <<>> /\ \A e \in Range(server.events) : e.seq > tab.cursor + 1
          <6>1. server.events[1] \in Range(server.events)
            BY <1>1, <5>2 DEF Range
          <6>2. QED
            BY <1>1, <3>4, <5>2, <6>1 DEF Gap
        <5>3. QED
          BY <4>1, <5>1, <5>2 DEF AtLeast
      <4>3. QED
        BY <1>2, <2>1, <2>2, <3>1, <4>2 DEF Coming, Due
    <3>5. QED
      BY <3>2, <3>3, <3>4
  <2>12. QED
    BY <1>2, <1>3, <1>4, <2>5, <2>6, <2>7, <2>8, <2>9, <2>10, <2>11, TabKeeps
<1>7. CASE ~server.live
  <2>1. wire' = <<>> /\ tab' = [tab EXCEPT !.conn = "none", !.running = FALSE]
    BY <1>7 DEF Subscribe
  <2>2. /\ tab' \in Tabs /\ tab'.conn = "none" /\ tab'.cursor = tab.cursor /\ tab'.seen = tab.seen
        /\ tab'.shown = tab.shown /\ tab'.last = tab.last /\ tab'.again = tab.again
    BY <1>1, <2>1 DEF Tabs
  <2>3. Events(<<>>) = {} /\ Sorted(<<>>) /\ InOrder({}) /\ DOMAIN <<>> = {}
    BY DEF Events, Sorted, InOrder
  <2>4. Types'
    BY <1>1, <1>2, <2>1, <2>2 DEF Types
  <2>5. Saying'
    BY <1>1, <1>2, <2>2 DEF Saying
  <2>6. OnTheWire'
    <3>1. \A x \in tab'.seen : /\ x[1] <= server.epoch /\ x[2] <= tab'.cursor
                               /\ x[1] = server.epoch => x[2] <= server.seq
      BY <1>1, <2>2 DEF OnTheWire
    <3>2. Sorted(wire') /\ Events(wire') = {} /\ DOMAIN wire' = {} /\ InOrder(Events(wire'))
      BY <2>1, <2>3
    <3>3. server' = server
      BY <1>2
    <3>4. QED
      BY <3>1, <3>2, <3>3 DEF OnTheWire
  <2>7. Informed' /\ Streaming'
    BY <2>2 DEF Informed, Streaming
  <2>8. Fresh'
    BY <1>1, <1>2, <1>7, <2>2 DEF Fresh, Requested
  <2>9. Coming'
    BY <1>1, <1>2, <2>2 DEF Coming, Told, Due
  <2>10. QED
    BY <1>2, <1>3, <1>4, <2>4, <2>5, <2>6, <2>7, <2>8, <2>9, TabKeeps
<1>8. QED
  BY <1>6, <1>7

(* An empty wire is in order.                                              *)
LEMMA EmptyWire ==
  ASSUME wire' = <<>>,
         \A x \in tab'.seen : /\ x[1] <= server'.epoch /\ x[2] <= tab'.cursor
                              /\ x[1] = server'.epoch => x[2] <= server'.seq
  PROVE  OnTheWire' /\ wire' \in Seq(Event \cup SyncEvent)
<1>1. Events(<<>>) = {} /\ Sorted(<<>>) /\ InOrder({}) /\ DOMAIN <<>> = {}
  BY DEF Events, Sorted, InOrder
<1>2. Sorted(wire') /\ Events(wire') = {} /\ DOMAIN wire' = {} /\ InOrder(Events(wire'))
  BY <1>1
<1>3. QED
  BY <1>2 DEF OnTheWire

(* Further back there is no less that is new.                              *)
LEMMA LaterFacts ==
  ASSUME NEW cursor \in Nat, NEW seq \in Nat
  PROVE  Later(cursor, seq) \in Nat /\ Later(cursor, seq) >= cursor /\ Later(cursor, seq) >= seq
         /\ Later(cursor, seq) \in {cursor, seq}
BY DEF Later

(* What was on the wire can be got at from the cursor, or its loss shows.  *)
LEMMA DropKeeps == ASSUME IndInv, Drop PROVE IndInv'
<1> DEFINE lost == \E i \in DOMAIN wire :
                     IF wire[i].kind = "sync" THEN wire[i].gap ELSE wire[i].seq <= tab.cursor
<1>1. /\ Types /\ OnTheWire /\ Requested /\ Informed /\ Saying /\ Coming /\ Opened /\ Fresh
      /\ Streaming /\ ShownOnce /\ tab \in Tabs /\ tab.cursor \in Nat /\ server \in Servers
      /\ server.seq \in Nat /\ wire \in Seq(Event \cup SyncEvent)
  BY TabFacts
<1>2. /\ tab.conn = "open" /\ tab' = [tab EXCEPT !.conn = "dial"] /\ wire' = <<>>
      /\ flaws' = flaws \cup Flaw(lost, "skipped")
      /\ UNCHANGED <<server, transcript, records, calls, replies, sending, renewed, snapshot,
                     said, begun, forgotten>>
  BY DEF Drop, messaging, history
<1> HIDE DEF lost
<1>3. /\ tab' \in Tabs /\ tab'.conn = "dial" /\ tab'.cursor = tab.cursor /\ tab'.seen = tab.seen
      /\ tab'.shown = tab.shown /\ tab'.last = tab.last /\ tab'.again = tab.again
  BY <1>1, <1>2 DEF Tabs
<1>4. flaws' \subseteq {"repeated", "skipped", "overtaken", "noticed"} /\ flaws \subseteq flaws'
      /\ ("repeated" \in flaws' => "repeated" \in flaws) /\ (lost => "skipped" \in flaws')
  BY <1>1, <1>2 DEF Types, Flaw
<1>5. OnTheWire' /\ wire' \in Seq(Event \cup SyncEvent)
  BY <1>1, <1>2, <1>3, EmptyWire DEF OnTheWire
<1>6. Types'
  BY <1>1, <1>2, <1>3, <1>4, <1>5 DEF Types
<1>7. Requested' /\ Opened' /\ ShownOnce'
  BY <1>1, <1>2, <1>4 DEF Requested, Opened, SnapCursor, ShownOnce, Due, Moved
<1>8. Saying'
  BY <1>1, <1>2, <1>3 DEF Saying
<1>9. Informed' /\ Streaming'
  BY <1>3 DEF Informed, Streaming
<1>10. Fresh'
  <2>1. Novel(After(server, tab.cursor))
    BY <1>1, <1>2 DEF Fresh, Streaming, Novel, Behind
  <2>2. Novel(After(server, tab.cursor))'
    BY <1>2, <1>3, <2>1 DEF Novel, Behind
  <2>3. QED
    BY <1>1, <1>2, <1>3, <2>2 DEF Fresh
<1>11. Coming'
  <2>1. "skipped" \notin flaws' => tab'.cursor <= server.seq
    BY <1>1, <1>3, <1>4 DEF Coming
  <2>2. CASE Told'
    BY <1>2, <2>1, <2>2 DEF Coming
  <2>3. CASE ~Told'
    <3>1. ~Told /\ ~lost
      BY <1>4, <2>3 DEF Told
    <3>2. ~\E i \in DOMAIN wire : wire[i].kind = "sync" /\ wire[i].gap
      BY <3>1 DEF lost
    <3>3. \A m \in Due \ tab.shown :
            \E e \in Events(wire) : IsMessage(e) /\ Says(e) = m /\ AtLeast(server, m, e.seq)
      BY <1>1, <1>2, <3>1, <3>2 DEF Coming
    <3>4. ASSUME NEW e \in Events(wire) PROVE e.seq \in Nat /\ tab.cursor + 1 <= e.seq
      <4>1. PICK i \in DOMAIN wire : wire[i] = e /\ e.kind # "sync"
        BY DEF Events
      <4>2. e.seq \in Nat /\ ~(e.seq <= tab.cursor)
        BY <1>1, <3>1, <4>1, OnWire DEF lost
      <4>3. QED
        BY <1>1, <4>2
    <3>5. ASSUME NEW m \in Due \ tab.shown PROVE AtLeast(server, m, tab.cursor + 1)
      <4>1. PICK e \in Events(wire) : IsMessage(e) /\ Says(e) = m /\ AtLeast(server, m, e.seq)
        BY <3>3
      <4>2. tab.cursor + 1 \in Nat /\ e.seq \in Nat /\ tab.cursor + 1 <= e.seq
        BY <1>1, <3>4
      <4>3. QED
        BY <1>1, <4>1, <4>2, AtLeastBefore
    <3>6. QED
      BY <1>2, <1>3, <2>1, <3>5 DEF Coming, Due
  <2>4. QED
    BY <2>2, <2>3
<1>12. QED
  BY <1>2, <1>5, <1>6, <1>7, <1>8, <1>9, <1>10, <1>11, TabKeeps

(* The result of a submission: what the cursor passes over is shown, or    *)
(* the jump shows.                                                         *)
LEMMA ReceiveKeeps == ASSUME IndInv, Receive PROVE IndInv'
<1> DEFINE p == sending.request
           result == records[p]
           jumps == result.cursor > tab.cursor /\ ~(result.before \subseteq tab.shown)
           skips == tab.conn # "open" /\ jumps
           over == result.running /\ server.turn # result.turn
           cursor == Later(tab.cursor, result.cursor)
           again == IF tab.conn = "none" THEN ShownAfter(cursor) ELSE tab.again
<1>1. /\ Types /\ OnTheWire /\ Requested /\ Informed /\ Saying /\ Coming /\ Opened /\ Fresh
      /\ Recorded
      /\ Streaming /\ ShownOnce /\ tab \in Tabs /\ tab.cursor \in Nat /\ server \in Servers
      /\ server.seq \in Nat /\ wire \in Seq(Event \cup SyncEvent) /\ tab.running \in BOOLEAN
      /\ \A e \in Range(server.events) : e.seq \in Nat
  BY TabFacts
<1>2. /\ sending \in replies /\ replies' = replies \ {sending} /\ sending' = NoCall
      /\ tab' = [tab EXCEPT !.running = tab.running \/ result.running,
                            !.cursor = cursor,
                            !.conn = IF tab.conn = "none" THEN "dial" ELSE tab.conn,
                            !.again = again]
      /\ flaws' = flaws \cup Flaw(skips, "skipped") \cup Flaw(over, "overtaken")
      /\ UNCHANGED <<server, transcript, records, calls, renewed, wire, snapshot, said, begun,
                     forgotten>>
  BY DEF Receive, history
<1>3. p \in Requests /\ result \in Results /\ result.state = "done" /\ replies \subseteq Calls
      /\ calls \subseteq Calls
      /\ \A c \in Calls : c.request \in Requests
  <2>1. replies \subseteq Calls /\ records \in [Requests -> Results] /\ calls \subseteq Calls
    BY MessagingFacts
  <2>2. p \in Requests
    BY <1>2, <2>1 DEF Calls
  <2>3. result.state = "done"
    BY <1>1, <1>2 DEF Requested
  <2>4. QED
    BY <2>1, <2>2, <2>3 DEF Calls
<1>4. result.cursor \in Nat /\ result.running \in BOOLEAN
  BY <1>3 DEF Results
<1>5. cursor \in Nat /\ cursor >= tab.cursor /\ cursor >= result.cursor
      /\ cursor \in {tab.cursor, result.cursor}
  BY <1>1, <1>4, LaterFacts
<1>6. /\ result.cursor <= server.seq
      /\ result.running => result.turn # 0
      /\ \A m \in Due \ result.before : AtLeast(server, m, result.cursor + 1)
  BY <1>1, <1>3 DEF Recorded
<1> HIDE DEF result, p, skips, over, cursor, jumps, again
<1>7. again \subseteq tab.shown \cup tab.again /\ again \subseteq Messages
  <2>1. tab.shown \subseteq Messages /\ tab.again \subseteq Messages
    BY <1>1 DEF Tabs
  <2>2. ShownAfter(cursor) \subseteq tab.shown
    BY DEF ShownAfter
  <2>3. QED
    BY <2>1, <2>2 DEF again
<1>8. /\ tab' \in Tabs /\ tab'.cursor = cursor /\ tab'.seen = tab.seen
      /\ tab'.conn = IF tab.conn = "none" THEN "dial" ELSE tab.conn
      /\ tab'.running = (tab.running \/ result.running)
      /\ tab'.shown = tab.shown /\ tab'.last = tab.last /\ tab'.again = again
  BY <1>1, <1>2, <1>4, <1>5, <1>7 DEF Tabs
<1>9. /\ flaws' \subseteq {"repeated", "skipped", "overtaken", "noticed"} /\ flaws \subseteq flaws'
      /\ ("repeated" \in flaws' => "repeated" \in flaws)
      /\ (skips => "skipped" \in flaws') /\ (over => "overtaken" \in flaws')
  BY <1>1, <1>2 DEF Types, Flaw
<1>10. Types'
  BY <1>1, <1>2, <1>8, <1>9 DEF Types
<1>11. Requested'
  BY <1>1, <1>2 DEF Requested
<1>12. Opened' /\ ShownOnce'
  BY <1>1, <1>2, <1>9 DEF Opened, SnapCursor, ShownOnce, Due, Moved
<1>13. Saying'
  BY <1>1, <1>2, <1>8, <1>7 DEF Saying
<1>14. OnTheWire'
  <2>1. \A x \in tab.seen : x \in Nat \X Nat
    BY <1>1 DEF Tabs
  <2>2. \A x \in tab.seen : x[2] <= cursor
    BY <1>1, <1>5, <2>1 DEF OnTheWire
  <2>3. QED
    BY <1>1, <1>2, <1>8, <2>2 DEF OnTheWire
<1>15. Informed'
  <2>1. SUFFICES ASSUME tab.conn = "open", Announced(server) PROVE Informed'
    BY <1>2, <1>8 DEF Informed
  <2>2. CASE \E i \in DOMAIN wire :
               /\ Telling(wire[i]) /\ Tells(wire[i]) = Running(server)
               /\ \A j \in DOMAIN wire : j > i => ~Telling(wire[j])
    BY <1>2, <2>2 DEF Informed
  <2>3. CASE /\ \A j \in DOMAIN wire : ~Telling(wire[j])
             /\ "overtaken" \in flaws \/ tab.running = Running(server)
    <3>1. CASE "overtaken" \in flaws'
      BY <1>2, <2>3, <3>1 DEF Informed
    <3>2. CASE "overtaken" \notin flaws'
      <4>1. ~over /\ tab.running = Running(server)
        BY <1>9, <2>3, <3>2
      <4>2. result.running => Running(server)
        BY <1>6, <4>1 DEF over, Running
      <4>3. tab'.running = Running(server)
        <5>1. Running(server) \in BOOLEAN
          BY DEF Running
        <5>2. CASE result.running
          BY <1>8, <4>2, <5>1, <5>2
        <5>3. CASE ~result.running
          BY <1>1, <1>8, <4>1, <5>3
        <5>4. QED
          BY <5>2, <5>3
      <4>4. QED
        BY <1>2, <2>3, <4>3 DEF Informed
    <3>3. QED
      BY <3>1, <3>2
  <2>4. QED
    BY <1>1, <2>1, <2>2, <2>3 DEF Informed
<1>16. After(server, cursor) \subseteq After(server, tab.cursor)
       /\ After(server, cursor) \subseteq After(server, result.cursor)
  BY <1>1, <1>4, <1>5 DEF After
<1>17. Streaming'
  BY <1>1, <1>2, <1>8, <1>16 DEF Streaming
<1>18. Fresh'
  <2>1. ASSUME NEW S, NEW T, T \subseteq S
        PROVE  (Behind(S) => Behind(T)) /\ (Novel(S) => Novel(T))
    BY <2>1 DEF Novel, Behind
  <2>2. ASSUME tab.conn = "open" PROVE Novel(Events(wire))'
    <3>1. Novel(Events(wire))
      BY <1>1, <2>2 DEF Fresh
    <3>2. QED
      BY <1>2, <1>8, <2>2, <3>1 DEF Novel, Behind, again
  <2>3. ASSUME tab.conn # "open" PROVE Novel(After(server, tab.cursor))'
    <3>1. CASE tab.conn = "dial"
      <4>1. Novel(After(server, cursor))
        BY <1>1, <1>16, <2>1, <3>1 DEF Fresh
      <4>2. QED
        BY <1>2, <1>8, <3>1, <4>1 DEF Novel, Behind, again
    <3>2. CASE tab.conn = "none"
      <4>1. Behind(After(server, cursor))
        <5>1. Behind(After(server, result.cursor))
          BY <1>1, <1>3, <3>2 DEF Fresh, result
        <5>2. QED
          BY <1>16, <2>1, <5>1
      <4>2. ASSUME NEW e \in After(server, cursor), Says(e) \in tab.shown PROVE Says(e) \in again
        BY <3>2, <4>2 DEF again, ShownAfter, Says
      <4>3. QED
        BY <1>2, <1>8, <4>1, <4>2 DEF Novel, Behind
    <3>3. QED
      BY <1>1, <2>3, <3>1, <3>2 DEF Tabs
  <2>4. QED
    BY <1>1, <1>2, <1>8, <2>2, <2>3 DEF Fresh
<1>19. Coming'
  <2>1. "skipped" \notin flaws' => cursor <= server.seq
    BY <1>1, <1>5, <1>6, <1>9 DEF Coming
  <2>2. CASE Told'
    BY <1>2, <1>8, <2>1, <2>2 DEF Coming
  <2>3. CASE ~Told' /\ tab.conn = "open"
    <3>1. ~Told
      BY <1>9, <2>3 DEF Told
    <3>2. QED
      BY <1>1, <1>2, <1>8, <2>1, <2>3, <3>1 DEF Coming, Due
  <2>4. CASE ~Told' /\ tab.conn # "open"
    <3>1. ~Told /\ ~skips
      BY <1>9, <2>4 DEF Told
    <3>2. ~jumps
      BY <2>4, <3>1 DEF skips
    <3>3. ASSUME NEW m \in Due \ tab.shown PROVE AtLeast(server, m, cursor + 1)
      <4>1. CASE result.cursor > tab.cursor
        <5>1. m \notin result.before
          BY <3>2, <4>1 DEF jumps
        <5>2. cursor = result.cursor
          BY <1>1, <1>4, <1>5, <4>1
        <5>3. QED
          BY <1>6, <5>1, <5>2
      <4>2. CASE ~(result.cursor > tab.cursor)
        <5>1. cursor = tab.cursor
          BY <1>1, <1>4, <1>5, <4>2
        <5>2. QED
          BY <1>1, <2>4, <3>1, <5>1 DEF Coming
      <4>3. QED
        BY <4>1, <4>2
    <3>4. QED
      BY <1>2, <1>8, <2>1, <2>4, <3>3 DEF Coming, Due
  <2>5. QED
    BY <2>2, <2>3, <2>4
<1>20. QED
  BY <1>2, <1>10, <1>11, <1>12, <1>13, <1>14, <1>15, <1>17, <1>18, <1>19, TabKeeps

-----------------------------------------------------------------------------
(***************************************************************************)
(* Opening the session.                                                    *)
(***************************************************************************)
(* The tab asks for the session, and forgets the request under way.        *)
LEMMA OpenKeeps == ASSUME IndInv, Open PROVE IndInv'
<1>1. /\ Types /\ OnTheWire /\ Requested /\ Informed /\ Saying /\ Coming /\ Fresh
      /\ Streaming /\ ShownOnce
  BY TabFacts
<1>2. /\ snapshot' = [NoSnapshot EXCEPT !.at = "asked"]
      /\ renewed' = IF sending = NoCall THEN renewed ELSE renewed \cup {sending.request.prompt}
      /\ UNCHANGED <<server, transcript, records, calls, replies, sending, wire, tab, said, begun,
                     forgotten, flaws>>
  BY DEF Open, history
<1>3. snapshot' \in Snapshots /\ snapshot'.at = "asked" /\ snapshot'.shown = {}
  BY <1>2 DEF NoSnapshot, Snapshots
<1>4. renewed' \subseteq Prompts /\ renewed \subseteq renewed'
  <2>1. sending # NoCall => sending.request \in Requests
    BY <1>1 DEF Types, Calls
  <2>2. QED
    BY <1>1, <1>2, <2>1, MessagingFacts
<1>5. Types'
  BY <1>1, <1>2, <1>3, <1>4 DEF Types
<1>6. OnTheWire' /\ Informed' /\ Streaming' /\ ShownOnce' /\ Coming'
  BY <1>1, <1>2 DEF OnTheWire, Informed, Streaming, ShownOnce, Coming, Told, Due
<1>7. Requested' /\ Saying' /\ Opened'
  BY <1>1, <1>2, <1>3 DEF Requested, Saying, Opened
<1>8. Fresh'
  BY <1>1, <1>2 DEF Fresh, Novel, Behind
<1>9. QED
  BY <1>2, <1>4, <1>5, <1>6, <1>7, <1>8, TabKeeps

(* The transcript is taken.                                                *)
LEMMA OpenReadKeeps == ASSUME IndInv, OpenRead PROVE IndInv'
<1>1. /\ Types /\ OnTheWire /\ Requested /\ Informed /\ Saying /\ Coming /\ Fresh
      /\ Streaming /\ ShownOnce /\ Owned(server) /\ server \in Servers /\ server.turn \in Nat
      /\ server.turns \in Nat /\ server.turn \in {0, server.turns}
  BY TabFacts
<1> DEFINE shown == IF server.disowned THEN said ELSE transcript
<1>2. /\ snapshot' = [NoSnapshot EXCEPT !.at = "read", !.live = server.live,
                         !.turns = server.turns, !.turn = CurrentTurn(server), !.shown = shown]
      /\ UNCHANGED <<server, transcript, records, calls, replies, sending, renewed, wire, tab, said,
                     begun, forgotten, flaws>>
  BY DEF OpenRead, messaging, history
<1>3. /\ CurrentTurn(server) \in Nat /\ server.live \in BOOLEAN /\ shown \subseteq Messages
      /\ CurrentTurn(server) # 0 => ~server.disowned
      /\ server.disowned => CurrentTurn(server) = 0
      /\ ~server.disowned => CurrentTurn(server) = server.turn
  BY <1>1 DEF CurrentTurn, Servers, Types
<1> HIDE DEF shown
<1>4. /\ snapshot' \in Snapshots /\ snapshot'.at = "read" /\ snapshot'.shown = shown
      /\ snapshot'.turns = server.turns /\ snapshot'.turn = CurrentTurn(server)
  BY <1>1, <1>2, <1>3 DEF NoSnapshot, Snapshots
<1>5. Types'
  BY <1>1, <1>2, <1>4 DEF Types
<1>6. OnTheWire' /\ Informed' /\ Streaming' /\ ShownOnce' /\ Coming'
  BY <1>1, <1>2 DEF OnTheWire, Informed, Streaming, ShownOnce, Coming, Told, Due
<1>7. Requested'
  BY <1>1, <1>2 DEF Requested
<1>8. Saying'
  <2>1. shown \subseteq said /\ (~server.disowned => shown = transcript)
    BY <1>1 DEF shown, Saying
  <2>2. QED
    BY <1>1, <1>2, <1>4, <2>1 DEF Saying
<1>9. Opened'
  <2>1. ASSUME NEW m \in Due \ shown PROVE CurrentTurn(server) # 0 /\ m.turn = server.turn
    <3>1. m \in said \ shown
      BY DEF Due
    <3>2. ~server.disowned /\ m \in said \ transcript
      BY <3>1 DEF shown
    <3>3. m.turn = server.turn /\ m.turn # 0
      BY <1>1, <3>2 DEF Saying
    <3>4. QED
      BY <1>3, <3>2, <3>3
  <2>2. QED
    BY <1>1, <1>2, <1>4, <2>1 DEF Opened, Due, Moved
<1>10. Fresh'
  BY <1>1, <1>2 DEF Fresh, Novel, Behind
<1>11. QED
  BY <1>2, <1>5, <1>6, <1>7, <1>8, <1>9, <1>10, TabKeeps

(* Where a replay starts, the running turn starts, if its head is there.   *)
LEMMA CursorFacts ==
  ASSUME IndInv
  PROVE  /\ ReplayCursor(server) \in Nat /\ ReplayCursor(server) <= server.seq
         /\ CurrentTurn(server) = 0 => ReplayCursor(server) = server.seq
         /\ CurrentTurn(server) # 0 => \A e \in Range(server.events) :
              /\ e.turn = server.turn => e.seq > ReplayCursor(server) \/ ReplayCursor(server) = 0
              /\ IsMessage(e) /\ e.seq > ReplayCursor(server) => e.turn = server.turn
         /\ Current(server) \subseteq DOMAIN server.events
         /\ \A i \in Current(server) : server.events[i].turn = server.turn
<1> DEFINE C == Current(server)
           i == First(C)
           c == ReplayCursor(server)
<1>1. /\ Ordered(server) /\ Headed(server) /\ server.seq \in Nat /\ server.turns \in Nat
      /\ server.turn \in {0, server.turns} /\ server.events \in Seq(Event)
      /\ \A e \in Range(server.events) :
           /\ e.seq \in Nat /\ e.turn \in Nat /\ e.kind # "sync" /\ e.seq <= server.seq
           /\ Of(server, e)
  BY TabFacts
<1>2. C \subseteq DOMAIN server.events /\ \A k \in C : server.events[k].turn = server.turn
  BY DEF Current
<1>3. DOMAIN server.events = 1..Len(server.events) /\ Len(server.events) \in Nat
  BY <1>1
<1>4. \A k \in DOMAIN server.events : server.events[k] \in Range(server.events)
  BY DEF Range
<1>5. C # {} => i \in C /\ \A k \in C : i <= k
  <2>1. SUFFICES ASSUME C # {} PROVE \E k \in C : \A j \in C : k <= j
    BY DEF First
  <2>2. C \subseteq Nat
    BY <1>2, <1>3
  <2> HIDE DEF C
  <2>3. PICK k \in C : \A j \in C : ~(<<j, k>> \in Below)
    BY <2>1, <2>2, BelowIsWellFounded, WFMin
  <2>4. ASSUME NEW j \in C PROVE k <= j
    <3>1. j \in Nat /\ k \in Nat /\ ~(<<j, k>> \in Below)
      BY <2>2, <2>3
    <3>2. ~(j < k)
      BY <3>1 DEF Below
    <3>3. QED
      BY <3>1, <3>2
  <2>5. QED
    BY <2>4
<1>6. C # {} => i \in DOMAIN server.events /\ server.events[i].turn = server.turn
                /\ server.events[i] \in Range(server.events)
  BY <1>2, <1>4, <1>5
<1>7. /\ c = IF CurrentTurn(server) = 0 THEN server.seq
             ELSE IF C = {} \/ i = 1 THEN 0 ELSE server.events[i - 1].seq
      /\ CurrentTurn(server) # 0 => Running(server)
  BY DEF ReplayCursor, CurrentTurn, Running
<1> HIDE DEF C, i, c
<1>8. C # {} /\ i # 1 => i - 1 \in DOMAIN server.events /\ i - 1 < i
  BY <1>3, <1>6
<1>9. c \in Nat /\ c <= server.seq
  BY <1>1, <1>4, <1>7, <1>8
<1>10. \A j, k \in DOMAIN server.events : j < k => server.events[j].seq < server.events[k].seq
  BY <1>1, <1>4 DEF Ordered, Sorted
<1>11. ASSUME CurrentTurn(server) # 0, NEW e \in Range(server.events), e.turn = server.turn
       PROVE  e.seq > c \/ c = 0
  <2>1. PICK k \in DOMAIN server.events : server.events[k] = e
    BY DEF Range
  <2>2. k \in C
    BY <1>11, <2>1 DEF C, Current
  <2>3. CASE i = 1
    BY <1>7, <1>11, <2>3
  <2>4. CASE i # 1
    <3>1. i - 1 < k /\ i - 1 \in DOMAIN server.events
      BY <1>3, <1>5, <1>6, <1>8, <2>1, <2>2, <2>4
    <3>2. c = server.events[i - 1].seq
      BY <1>7, <1>11, <2>2, <2>4
    <3>3. QED
      BY <1>1, <1>4, <1>10, <2>1, <3>1, <3>2
  <2>5. QED
    BY <2>3, <2>4
<1>12. ASSUME CurrentTurn(server) # 0, NEW e \in Range(server.events), IsMessage(e), e.seq > c
       PROVE  e.turn = server.turn
  <2>1. e.turn # 0 /\ e.turn <= server.turns /\ server.turn = server.turns /\ server.turn # 0
    BY <1>1, <1>7, <1>12 DEF Of, Running
  <2>2. CASE C = {}
    <3>1. \A x \in Range(server.events) : x.turn # server.turn
      BY <2>2 DEF C, Current, Range
    <3>2. \A x \in Range(server.events) : x.turn \in {0, server.turn}
      BY <1>1, <1>7, <1>12, <3>1 DEF Headed
    <3>3. QED
      BY <2>1, <3>2
  <2>3. CASE C # {}
    <3>1. PICK k \in DOMAIN server.events : server.events[k] = e
      BY DEF Range
    <3>2. k >= i
      <4>1. CASE i = 1
        BY <1>3, <3>1, <4>1
      <4>2. CASE i # 1
        <5>1. c = server.events[i - 1].seq /\ i - 1 \in DOMAIN server.events
          BY <1>7, <1>8, <1>12, <2>3, <4>2
        <5>2. k > i - 1
          <6>1. SUFFICES ASSUME k <= i - 1 PROVE FALSE
            BY <1>3, <3>1, <5>1
          <6>2. k = i - 1 \/ k < i - 1
            BY <1>3, <3>1, <5>1, <6>1
          <6>3. server.events[k].seq <= server.events[i - 1].seq
            BY <1>1, <1>4, <1>10, <3>1, <5>1, <6>2
          <6>4. QED
            BY <1>1, <1>4, <1>9, <1>12, <3>1, <5>1, <6>3
        <5>3. QED
          BY <1>3, <1>6, <2>3, <3>1, <5>2
      <4>3. QED
        BY <4>1, <4>2
    <3>3. CASE k = i
      BY <1>6, <2>3, <3>1, <3>3
    <3>4. CASE k # i
      <4>1. i < k
        BY <1>3, <1>6, <2>3, <3>1, <3>2, <3>4
      <4>2. server.events[i].seq < e.seq
        BY <1>6, <1>10, <2>3, <3>1, <4>1
      <4>3. Follows(server.events[i], e)
        BY <1>1, <1>6, <2>3, <4>2 DEF Ordered, InOrder
      <4>4. server.turn <= e.turn
        BY <1>6, <2>1, <2>3, <4>3 DEF Follows
      <4>5. QED
        BY <1>1, <2>1, <4>4
    <3>5. QED
      BY <3>3, <3>4
  <2>4. QED
    BY <2>2, <2>3
<1>13. QED
  BY <1>2, <1>7, <1>9, <1>11, <1>12 DEF C, c

(* The running state and the cursor are taken.                             *)
LEMMA OpenReplyKeeps == ASSUME IndInv, OpenReply PROVE IndInv'
<1> DEFINE c == ReplayCursor(server)
           torn == Moved(server) \/ Beheaded(server)
<1>1. /\ Types /\ OnTheWire /\ Requested /\ Informed /\ Saying /\ Coming /\ Fresh /\ Opened
      /\ Retained /\ Streaming /\ ShownOnce /\ server \in Servers /\ server.turn \in Nat
      /\ server.turns \in Nat /\ server.turn \in {0, server.turns} /\ server.seq \in Nat
      /\ server.events \in Seq(Event) /\ snapshot \in Snapshots
      /\ \A e \in Range(server.events) : e.seq \in Nat /\ e.seq <= server.seq
  BY TabFacts DEF Types
<1>2. PICK background \in BOOLEAN :
        /\ snapshot.at = "read"
        /\ snapshot' = [snapshot EXCEPT !.at = "reply",
                          !.running = snapshot.live /\ Running(server),
                          !.stream = snapshot.live /\ (Running(server) \/ background),
                          !.cursor = c, !.torn = torn]
        /\ UNCHANGED <<server, transcript, records, calls, replies, sending, renewed, wire, tab,
                       said, begun, forgotten, flaws>>
  BY DEF OpenReply, messaging, history
<1> DEFINE stream == snapshot.live /\ (Running(server) \/ background)
<1>3. /\ c \in Nat /\ c <= server.seq
      /\ CurrentTurn(server) = 0 => c = server.seq
      /\ CurrentTurn(server) # 0 => \A e \in Range(server.events) :
           /\ e.turn = server.turn => e.seq > c \/ c = 0
           /\ IsMessage(e) /\ e.seq > c => e.turn = server.turn
      /\ Current(server) \subseteq DOMAIN server.events
      /\ \A i \in Current(server) : server.events[i].turn = server.turn
  BY CursorFacts
<1>4. /\ (snapshot.live /\ Running(server)) \in BOOLEAN /\ torn \in BOOLEAN
      /\ stream \in BOOLEAN
  <2>1. snapshot.live \in BOOLEAN /\ Running(server) \in BOOLEAN
    BY <1>1 DEF Snapshots, Running
  <2>2. QED
    BY <2>1 DEF Beheaded, Moved
<1> HIDE DEF c, torn, stream
<1>5. /\ snapshot' \in Snapshots /\ snapshot'.at = "reply" /\ snapshot'.torn = torn
      /\ snapshot'.shown = snapshot.shown /\ snapshot'.cursor = c /\ snapshot'.stream = stream
  BY <1>1, <1>2, <1>3, <1>4 DEF Snapshots, stream
<1>6. Types'
  BY <1>1, <1>2, <1>5 DEF Types
<1>7. OnTheWire' /\ Informed' /\ Streaming' /\ ShownOnce' /\ Coming'
  BY <1>1, <1>2 DEF OnTheWire, Informed, Streaming, ShownOnce, Coming, Told, Due
<1>8. Requested'
  BY <1>1, <1>2 DEF Requested
<1>9. Saying'
  BY <1>1, <1>2, <1>5 DEF Saying
<1>10. Fresh'
  BY <1>1, <1>2 DEF Fresh, Novel, Behind
<1>11. ASSUME ~torn, NEW m \in Due \ snapshot.shown
       PROVE  AtLeast(server, m, (IF stream THEN c ELSE 0) + 1)
  <2>1. m.turn = server.turn /\ CurrentTurn(server) # 0
    BY <1>1, <1>2, <1>11 DEF Opened, torn
  <2>2. /\ AtLeast(server, m, 1)
        /\ \/ \E e \in Range(server.events) : IsMessage(e) /\ Says(e) = m
           \/ \A e \in Range(server.events) : e.turn = server.turn => e.kind # "user"
    BY <1>1, <2>1 DEF Retained
  <2>3. CASE ~stream \/ c = 0
    <3>1. (IF stream THEN c ELSE 0) + 1 = 1
      BY <2>3
    <3>2. QED
      BY <2>2, <3>1
  <2>4. CASE stream /\ c # 0
    <3>1. ~Beheaded(server) /\ c > 0
      BY <1>3, <1>11, <2>4 DEF torn
    <3>2. PICK i \in Current(server) : server.events[i].kind = "user"
      BY <2>1, <3>1 DEF Beheaded, c
    <3>3. server.events[i] \in Range(server.events) /\ server.events[i].turn = server.turn
      BY <1>3, <3>2 DEF Range
    <3>4. PICK e \in Range(server.events) : IsMessage(e) /\ Says(e) = m
      BY <2>2, <3>2, <3>3
    <3>5. e.turn = server.turn
      BY <2>1, <3>4 DEF Says, Message
    <3>6. e.seq \in Nat /\ e.seq >= c + 1
      BY <1>1, <1>3, <2>1, <2>4, <3>5
    <3>7. QED
      BY <2>4, <3>4, <3>6 DEF AtLeast
  <2>5. QED
    BY <2>3, <2>4
<1>12. ASSUME NEW e \in Range(server.events), IsMessage(e), e.seq > c
       PROVE  Says(e) \notin snapshot.shown
  <2>1. CurrentTurn(server) # 0
    BY <1>1, <1>3, <1>12
  <2>2. ~server.disowned
    BY <2>1 DEF CurrentTurn
  <2>3. Says(e).turn = server.turn
    BY <1>3, <1>12, <2>1 DEF Says, Message
  <2>4. QED
    BY <1>1, <2>2, <2>3 DEF Saying
<1>13. Opened'
  BY <1>2, <1>3, <1>5, <1>11, <1>12 DEF Opened, SnapCursor, Due
<1>14. QED
  BY <1>2, <1>6, <1>7, <1>8, <1>9, <1>10, <1>13, TabKeeps

(* The tab shows what opening the session has read.                        *)
LEMMA OpenShowKeeps == ASSUME IndInv, OpenShow PROVE IndInv'
<1> DEFINE c == IF snapshot.stream THEN snapshot.cursor ELSE 0
<1>1. /\ Types /\ Requested /\ Saying /\ Opened /\ ShownOnce
      /\ server \in Servers /\ server.seq \in Nat /\ server.turns \in Nat /\ server.turn \in Nat
      /\ snapshot \in Snapshots
  BY TabFacts DEF Types
<1>2. /\ snapshot.at = "reply"
      /\ tab' = [NoView EXCEPT !.shown = snapshot.shown, !.running = snapshot.running, !.cursor = c,
                               !.conn = IF snapshot.stream THEN "dial" ELSE "none"]
      /\ wire' = <<>> /\ snapshot' = NoSnapshot
      /\ flaws' = (flaws \ {"skipped", "noticed"}) \cup Flaw(snapshot.torn, "skipped")
      /\ UNCHANGED <<server, transcript, records, calls, replies, sending, renewed, said, begun,
                     forgotten>>
  BY DEF OpenShow, messaging, history
<1>3. /\ snapshot.shown \subseteq Messages /\ snapshot.running \in BOOLEAN
      /\ snapshot.stream \in BOOLEAN
      /\ snapshot.cursor \in Nat /\ c \in Nat /\ c = SnapCursor
  BY <1>1 DEF Snapshots, SnapCursor
<1> HIDE DEF c
<1>4. /\ tab' \in Tabs /\ tab'.seen = {} /\ tab'.shown = snapshot.shown /\ tab'.cursor = c
      /\ tab'.conn = IF snapshot.stream THEN "dial" ELSE "none"
      /\ tab'.last = 0 /\ tab'.again = {}
  BY <1>2, <1>3 DEF NoView, Tabs
<1>5. NoSnapshot \in Snapshots /\ NoSnapshot.at = "none" /\ NoSnapshot.shown = {}
  BY DEF NoSnapshot, Snapshots
<1>6. /\ flaws' \subseteq {"repeated", "skipped", "overtaken", "noticed"}
      /\ ("repeated" \in flaws' => "repeated" \in flaws)
      /\ (snapshot.torn => "skipped" \in flaws')
  BY <1>1, <1>2 DEF Types, Flaw
<1>7. OnTheWire' /\ wire' \in Seq(Event \cup SyncEvent)
  BY <1>2, <1>4, EmptyWire
<1>8. Types'
  BY <1>1, <1>2, <1>4, <1>5, <1>6, <1>7 DEF Types
<1>9. Requested' /\ ShownOnce' /\ Informed' /\ Streaming'
  BY <1>1, <1>2, <1>4, <1>5, <1>6 DEF Requested, ShownOnce, Informed, Streaming
<1>10. Saying'
  <2>1. \A m \in tab'.shown \cup tab'.again : m \in snapshot.shown
    BY <1>4
  <2>2. QED
    BY <1>1, <1>2, <1>5, <2>1 DEF Saying
<1>11. Opened'
  BY <1>2, <1>5 DEF Opened
<1>12. Coming'
  <2>1. c <= server.seq
    BY <1>1, <1>2, <1>3 DEF Opened, SnapCursor
  <2>2. CASE snapshot.torn
    BY <1>2, <1>4, <1>6, <2>1, <2>2 DEF Coming, Told
  <2>3. CASE ~snapshot.torn
    <3>1. \A m \in Due \ snapshot.shown : AtLeast(server, m, c + 1)
      BY <1>1, <1>2, <1>3, <2>3 DEF Opened
    <3>2. tab'.conn # "open" /\ server' = server /\ Due' = Due
      BY <1>2, <1>4 DEF Due
    <3>3. QED
      BY <1>4, <2>1, <3>1, <3>2 DEF Coming
  <2>4. QED
    BY <2>2, <2>3
<1>13. Fresh'
  <2>1. ASSUME CurrentTurn(server) # 0 PROVE Message(server.turn, "final") \notin tab'.shown
    <3>1. Message(server.turn, "final").turn = server.turn
      BY DEF Message
    <3>2. ~server.disowned
      BY <2>1 DEF CurrentTurn
    <3>3. QED
      BY <1>1, <1>4, <3>1, <3>2 DEF Saying
  <2>2. \A S : Behind(S)'
    BY <1>4 DEF Behind
  <2>3. ASSUME snapshot.stream PROVE Novel(After(server, tab.cursor))'
    <3>1. \A e \in Range(server.events) :
            IsMessage(e) /\ e.seq > snapshot.cursor => Says(e) \notin snapshot.shown
      BY <1>1, <1>2, <2>3 DEF Opened
    <3>2. c = snapshot.cursor
      BY <2>3 DEF c
    <3>3. server' = server
      BY <1>2
    <3>4. QED
      BY <1>4, <2>2, <3>1, <3>2, <3>3 DEF Novel, After
  <2>4. QED
    BY <1>1, <1>2, <1>4, <2>1, <2>2, <2>3 DEF Fresh
<1>14. QED
  BY <1>2, <1>8, <1>9, <1>10, <1>11, <1>12, <1>13, <1>7, TabKeeps

(* The server restarts with nothing but the transcript.                    *)
LEMMA RestartKeeps == ASSUME IndInv, Restart PROVE IndInv'
<1> DEFINE jumped == tab.cursor > 0 \/ ~(transcript \subseteq tab.shown)
           s == [NoServer EXCEPT !.turns = server.turns, !.epoch = server.epoch + 1]
           blank == [p \in Requests |-> NoResult]
<1>1. /\ Types /\ Requested /\ Once /\ Renewed /\ OnTheWire /\ Saying /\ Fresh /\ ShownOnce
      /\ server \in Servers /\ server.turns \in Nat /\ server.epoch \in Nat
      /\ tab \in Tabs /\ tab.cursor \in Nat /\ tab.last \in Nat
      /\ records \in [Requests -> Results]
  BY TabFacts DEF Types
<1>2. /\ server' = s
      /\ forgotten' = forgotten \cup {p \in Requests : Remembers(p)}
      /\ records' = blank
      /\ calls' = {} /\ replies' = {} /\ wire' = <<>> /\ snapshot' = NoSnapshot
      /\ tab' = [tab EXCEPT !.conn = IF tab.conn = "open" THEN "dial" ELSE tab.conn]
      /\ said' = transcript
      /\ flaws' = flaws \cup Flaw(jumped, "skipped")
      /\ UNCHANGED <<transcript, sending, renewed, begun>>
  BY DEF Restart
<1>3. /\ s \in Servers /\ s.turns = server.turns /\ s.epoch = server.epoch + 1 /\ s.seq = 0
      /\ s.events = <<>> /\ s.turn = 0 /\ s.queue = <<>> /\ ~s.live /\ ~s.disowned
  <2>1. <<>> \in Seq(Event) /\ <<>> \in Seq(Requests) /\ server.epoch + 1 \in Nat
    BY <1>1
  <2>2. NoServer \in Servers
    BY <2>1 DEF NoServer, Servers
  <2>3. /\ NoServer.seq = 0 /\ NoServer.events = <<>> /\ NoServer.turn = 0
        /\ NoServer.queue = <<>> /\ ~NoServer.live /\ ~NoServer.disowned
    BY DEF NoServer
  <2>4. QED
    BY <1>1, <2>1, <2>2, <2>3 DEF Servers
<1>4. NoResult \in Results /\ NoResult.state = "none"
  BY DEF NoResult, Results
<1>5. /\ blank \in [Requests -> Results]
      /\ \A p \in Requests : blank[p].state = "none"
  BY <1>4
<1> HIDE DEF s, blank, jumped
<1>6. /\ tab' \in Tabs /\ tab'.conn # "open" /\ tab'.cursor = tab.cursor /\ tab'.seen = tab.seen
      /\ tab'.shown = tab.shown /\ tab'.last = tab.last /\ tab'.again = tab.again
  BY <1>1, <1>2 DEF Tabs
<1>7. NoSnapshot \in Snapshots /\ NoSnapshot.at = "none" /\ NoSnapshot.shown = {}
  BY DEF NoSnapshot, Snapshots
<1>8. /\ flaws' \subseteq {"repeated", "skipped", "overtaken", "noticed"}
      /\ ("repeated" \in flaws' => "repeated" \in flaws)
      /\ (jumped => "skipped" \in flaws')
  BY <1>1, <1>2 DEF Types, Flaw
<1>9. OnTheWire' /\ wire' \in Seq(Event \cup SyncEvent)
  <2>1. \A x \in tab.seen : x[1] \in Nat /\ x[1] <= server.epoch /\ x[2] <= tab.cursor
    BY <1>1 DEF OnTheWire, Tabs
  <2>2. ASSUME NEW x \in tab.seen
        PROVE  /\ x[1] <= s.epoch /\ x[2] <= tab.cursor
               /\ x[1] = s.epoch => x[2] <= s.seq
    BY <1>1, <1>3, <2>1
  <2>3. QED
    BY <1>2, <1>6, <2>2, EmptyWire
<1>10. Types'
  BY <1>1, <1>2, <1>3, <1>5, <1>6, <1>7, <1>8, <1>9 DEF Types, Saying
<1>11. Range(<<>>) = {} /\ DOMAIN <<>> = {} /\ Sorted(<<>>) /\ Len(<<>>) = 0 /\ InOrder({})
  BY DEF Range, Sorted, InOrder
<1>12. Sane(server)'
  <2>1. Ordered(s) /\ Headed(s)
    <3>1. s.turn = 0 /\ s.events = <<>>
      BY <1>3
    <3>2. Len(s.events) <= Retain /\ Range(s.events) = {} /\ Sorted(s.events)
      BY <1>11, <3>1, RetainAssumption
    <3>3. QED
      BY <1>11, <3>1, <3>2 DEF Ordered, Headed, Running
  <2>2. QED
    BY <1>2, <1>3, <2>1 DEF Sane, Owned
<1>13. Requested' /\ ShownOnce' /\ Informed' /\ Streaming' /\ Opened' /\ Recorded'
  BY <1>1, <1>2, <1>5, <1>6, <1>7, <1>8
     DEF Requested, ShownOnce, Informed, Streaming, Opened, Recorded
<1>14. Once'
  <2>1. SUFFICES ASSUME NEW p \in Requests \ forgotten'
        PROVE  /\ p \notin Range(begun) \cup Range(s.queue)
               /\ \A i, j \in DOMAIN begun : begun[i] = p /\ begun[j] = p => i = j
               /\ \A i, j \in DOMAIN s.queue : s.queue[i] = p /\ s.queue[j] = p => i = j
    BY <1>2 DEF Once
  <2>2. p \notin forgotten /\ records[p].state = "none"
    BY <1>2, <2>1 DEF Remembers
  <2>3. p \notin Range(begun) /\ \A i, j \in DOMAIN begun : begun[i] = p /\ begun[j] = p => i = j
    BY <1>1, <2>2 DEF Once
  <2>4. QED
    BY <1>3, <1>11, <2>3
<1>15. \A m \in transcript \cup tab.shown \cup tab.again : m.turn \in Nat /\ m.turn # 0 /\ m.turn <= server.turns
  BY <1>1 DEF Saying
<1>16. Saying'
  BY <1>1, <1>2, <1>3, <1>6, <1>7, <1>15 DEF Saying
<1>17. Retained'
  BY <1>2, <1>3, <1>15 DEF Retained, Due
<1>18. Coming'
  <2>1. CASE jumped
    BY <1>2, <1>6, <1>8, <2>1 DEF Coming, Told
  <2>2. CASE ~jumped
    <3>1. tab.cursor = 0 /\ transcript \subseteq tab.shown
      BY <1>1, <2>2 DEF jumped
    <3>2. tab'.cursor <= server'.seq /\ Due' \ tab'.shown = {}
      BY <1>2, <1>3, <1>6, <3>1 DEF Due
    <3>3. QED
      BY <1>6, <3>2 DEF Coming
  <2>3. QED
    BY <2>1, <2>2
<1>19. Fresh'
  <2>1. After(s, tab.cursor) = {}
    BY <1>3, <1>11 DEF After
  <2>2. Novel(After(server, tab.cursor))'
    BY <1>2, <1>6, <2>1 DEF Novel, Behind
  <2>3. Message(s.turn, "final") \notin tab.shown
    BY <1>3, <1>15 DEF Message
  <2>4. tab.last <= s.turns
    BY <1>1, <1>3 DEF Fresh
  <2>5. \A p \in Requests : records'[p].state # "done"
    BY <1>2, <1>5
  <2>6. QED
    BY <1>1, <1>2, <1>6, <2>2, <2>3, <2>4, <2>5 DEF Fresh
<1>20. Renewed'
  <2>1. InUse' \subseteq InUse
    <3>1. calls' = {} /\ server'.queue = <<>> /\ \A r \in Requests : records'[r].state = "none"
      BY <1>2, <1>3, <1>5
    <3>2. QED
      BY <1>2, <1>11, <3>1 DEF InUse
  <2>2. QED
    BY <1>1, <1>2, <2>1, RenewedKept
<1>21. QED
  BY <1>20, <1>9, <1>10, <1>12, <1>13, <1>14, <1>16, <1>17, <1>18, <1>19 DEF IndInv

-----------------------------------------------------------------------------
(***************************************************************************)
(* The head of the wire arrives.                                           *)
(***************************************************************************)
(* The head of the wire and the rest.                                      *)
LEMMA HeadFacts ==
  ASSUME NEW w \in Seq(Event \cup SyncEvent), w # <<>>
  PROVE  /\ Tail(w) \in Seq(Event \cup SyncEvent)
         /\ Head(w) = w[1] /\ 1 \in DOMAIN w /\ Head(w) \in Event \cup SyncEvent
         /\ \A i \in DOMAIN Tail(w) : i + 1 \in DOMAIN w /\ i + 1 > 1 /\ Tail(w)[i] = w[i + 1]
         /\ \A i \in DOMAIN w : i # 1 =>
              i > 1 /\ i - 1 \in DOMAIN Tail(w) /\ Tail(w)[i - 1] = w[i]
         /\ \A i, j \in DOMAIN Tail(w) : i < j => i + 1 < j + 1
         /\ \A i \in DOMAIN w : \A j \in DOMAIN Tail(w) : j > i - 1 => j + 1 > i
         /\ Events(Tail(w)) \subseteq Events(w)
         /\ Events(w) \subseteq Events(Tail(w)) \cup {Head(w)}
<1> DEFINE n == Len(w)
           t == Tail(w)
<1>1. n \in Nat /\ n # 0 /\ DOMAIN w = 1..n
  OBVIOUS
<1>2. t \in Seq(Event \cup SyncEvent) /\ Len(t) = n - 1 /\ \A i \in 1..Len(t) : t[i] = w[i + 1]
  BY HeadTailProperties
<1>3. DOMAIN t = 1..(n - 1)
  BY <1>1, <1>2
<1>4. Head(w) = w[1] /\ 1 \in DOMAIN w /\ Head(w) \in Event \cup SyncEvent
  BY <1>1
<1> HIDE DEF n, t
<1>5. \A i \in DOMAIN t : i + 1 \in DOMAIN w /\ i + 1 > 1 /\ t[i] = w[i + 1]
  BY <1>1, <1>2, <1>3
<1>6. ASSUME NEW i \in DOMAIN w, i # 1 PROVE i > 1 /\ i - 1 \in DOMAIN t /\ t[i - 1] = w[i]
  <2>1. i > 1 /\ i - 1 \in DOMAIN t /\ (i - 1) + 1 = i
    BY <1>1, <1>3, <1>6
  <2>2. QED
    BY <1>5, <2>1
<1>7. \A i, j \in DOMAIN t : i < j => i + 1 < j + 1
  BY <1>1, <1>3
<1>8. \A i \in DOMAIN w : \A j \in DOMAIN t : j > i - 1 => j + 1 > i
  BY <1>1, <1>3
<1>9. Events(t) \subseteq Events(w)
  BY <1>5 DEF Events
<1>10. Events(w) \subseteq Events(t) \cup {Head(w)}
  <2>1. ASSUME NEW i \in DOMAIN w, w[i].kind # "sync" PROVE w[i] \in Events(t) \cup {Head(w)}
    <3>1. CASE i = 1
      BY <1>4, <3>1
    <3>2. CASE i # 1
      BY <1>6, <2>1, <3>2 DEF Events
    <3>3. QED
      BY <3>1, <3>2
  <2>2. QED
    BY <2>1 DEF Events
<1>11. QED
  BY <1>2, <1>4, <1>5, <1>6, <1>7, <1>8, <1>9, <1>10 DEF t

(* The delivery of e, in the terms of the invariant.                       *)
Delivers(e) ==
  /\ tab.conn = "open" /\ wire # <<>> /\ e = Head(wire) /\ wire' = Tail(wire)
  /\ UNCHANGED <<server, transcript, records, calls, replies, sending, renewed, snapshot, said,
                 begun, forgotten>>
  /\ tab' \in Tabs /\ tab'.conn = "open"
  /\ tab'.seen = IF e.kind = "sync" THEN tab.seen ELSE tab.seen \cup {<<e.epoch, e.seq>>}
  /\ tab'.cursor = Later(tab.cursor, e.seq)
  /\ tab'.shown = IF Shows(e) THEN tab.shown \cup {Says(e)} ELSE tab.shown
  /\ tab'.again = IF Shows(e) THEN tab.again \ {Says(e)} ELSE tab.again
  /\ tab'.last = LastAfter(e)
  /\ tab'.running = RunningAfter(e)
  /\ flaws' = (flaws \cup Flaw(Shows(e) /\ Says(e) \in tab.shown \ tab.again, "repeated")
                     \cup Flaw(e.kind = "sync" /\ e.gap, "noticed"))
              \ Flaw(Telling(e), "overtaken")

(* The head of the wire has its types, and is of the server's.             *)
LEMMA HeadIs ==
  ASSUME IndInv, wire # <<>>, NEW e, e = Head(wire)
  PROVE  /\ e \in Event \cup SyncEvent
         /\ e.seq \in Nat /\ e.turn \in Nat /\ e.epoch \in Nat /\ e.seq <= server.seq
         /\ e.kind = "sync" => e.running \in BOOLEAN /\ e.gap \in BOOLEAN
         /\ e.kind # "sync" => /\ e \in Events(wire) /\ Of(server, e)
                               /\ <<e.epoch, e.seq>> \notin tab.seen
         /\ ~IsMessage(e) <=> e.kind \notin {"user", "final"}
<1>1. wire \in Seq(Event \cup SyncEvent) /\ OnTheWire
  BY TabFacts
<1>2. e = wire[1] /\ 1 \in DOMAIN wire /\ e \in Event \cup SyncEvent
  BY <1>1, HeadFacts
<1>3. e.seq \in Nat /\ e.turn \in Nat /\ e.epoch \in Nat
  BY <1>2 DEF Event, SyncEvent
<1>4. e.kind = "sync" => e.running \in BOOLEAN /\ e.gap \in BOOLEAN
  BY <1>2 DEF Event, SyncEvent, Kinds
<1>5. e.seq <= server.seq
  BY <1>1, <1>2 DEF OnTheWire
<1>6. e.kind # "sync" => e \in Events(wire)
  BY <1>2 DEF Events
<1>7. QED
  BY <1>1, <1>2, <1>3, <1>4, <1>5, <1>6 DEF OnTheWire, IsMessage

(* Every delivery is one: nothing on the wire has been seen.               *)
LEMMA DeliverDelivers ==
  ASSUME IndInv, Deliver
  PROVE  Delivers(Head(wire))
<1> DEFINE e == Head(wire)
           id == <<e.epoch, e.seq>>
           m == Message(e.turn, e.kind)
           seen == IF e.kind = "sync" THEN tab.seen ELSE tab.seen \cup {id}
           shown == IF Shows(e) THEN tab.shown \cup {m} ELSE tab.shown
           again == IF Shows(e) THEN tab.again \ {m} ELSE tab.again
           cursor == Later(tab.cursor, e.seq)
           last == LastAfter(e)
           running == RunningAfter(e)
<1>1. /\ tab.conn = "open" /\ wire # <<>> /\ wire' = Tail(wire)
      /\ UNCHANGED <<server, transcript, records, calls, replies, sending, renewed, snapshot, said,
                     begun, forgotten>>
  BY DEF Deliver, messaging, history
<1>2. /\ e.seq \in Nat /\ e.turn \in Nat /\ e.epoch \in Nat
      /\ e.kind = "sync" => e.running \in BOOLEAN
      /\ e.kind # "sync" => id \notin tab.seen
  BY <1>1, HeadIs
<1>3. e.kind = "sync" \/ id \notin tab.seen
  BY <1>2
<1>4. /\ tab' = [tab EXCEPT !.seen = seen, !.cursor = cursor, !.shown = shown, !.again = again,
                            !.last = last, !.running = running]
      /\ flaws' = (flaws \cup Flaw(Shows(e) /\ m \in tab.shown \ tab.again, "repeated")
                         \cup Flaw(e.kind = "sync" /\ e.gap, "noticed"))
                  \ Flaw(e.kind \in {"start", "user", "stop", "sync"}, "overtaken")
  BY <1>3 DEF Deliver
<1>5. tab \in Tabs /\ tab.cursor \in Nat /\ tab.last \in Nat /\ tab.running \in BOOLEAN
      /\ tab.seen \subseteq Nat \X Nat /\ tab.shown \subseteq Messages
      /\ tab.again \subseteq Messages
  BY TabFacts DEF Tabs
<1>6. cursor \in Nat
  BY <1>2, <1>5, LaterFacts
<1>7. last \in Nat
  BY <1>2, <1>5 DEF LastAfter
<1>8. running \in BOOLEAN
  BY <1>2, <1>5 DEF RunningAfter
<1>9. seen \subseteq Nat \X Nat
  BY <1>2, <1>5
<1>10. shown \subseteq Messages
  <2>1. Shows(e) => m \in Messages
    BY <1>2 DEF Shows, Message, Messages
  <2>2. QED
    BY <1>5, <2>1
<1>11. again \subseteq Messages
  BY <1>5
<1> HIDE DEF e, id, m, seen, shown, again, cursor, last, running
<1>12. /\ tab' \in Tabs /\ tab'.conn = "open" /\ tab'.seen = seen /\ tab'.cursor = cursor
       /\ tab'.shown = shown /\ tab'.again = again /\ tab'.last = last /\ tab'.running = running
  BY <1>1, <1>4, <1>5, <1>6, <1>7, <1>8, <1>9, <1>10, <1>11 DEF Tabs
<1>13. QED
  BY <1>1, <1>4, <1>12
     DEF Delivers, Says, Telling, e, id, m, seen, shown, again, cursor, last, running

(* What a delivery is about, in one place.                                 *)
LEMMA DeliversFacts ==
  ASSUME IndInv, NEW e, Delivers(e)
  PROVE  /\ wire \in Seq(Event \cup SyncEvent) /\ wire # <<>> /\ e = Head(wire)
         /\ wire' = Tail(wire) /\ wire' \in Seq(Event \cup SyncEvent)
         /\ tab.conn = "open" /\ tab'.conn = "open"
         /\ e.seq \in Nat /\ e.turn \in Nat /\ e.epoch \in Nat /\ e.seq <= server.seq
         /\ e.kind # "sync" => /\ e \in Events(wire) /\ Of(server, e)
                               /\ <<e.epoch, e.seq>> \notin tab.seen
         /\ tab.cursor \in Nat /\ tab'.cursor \in Nat
         /\ tab'.cursor >= tab.cursor /\ tab'.cursor >= e.seq /\ tab'.cursor \in {tab.cursor, e.seq}
         /\ Events(wire') \subseteq Events(wire) /\ Events(wire) \subseteq Events(wire') \cup {e}
         /\ \A f \in Events(wire') :
              /\ f.seq \in Nat /\ f.turn \in Nat /\ f.epoch \in Nat /\ Of(server, f)
              /\ <<f.epoch, f.seq>> \notin tab.seen
              /\ e.kind # "sync" => e.seq < f.seq /\ Follows(e, f)
<1>1. /\ OnTheWire /\ wire \in Seq(Event \cup SyncEvent) /\ tab.cursor \in Nat
  BY TabFacts
<1>2. wire # <<>> /\ e = Head(wire) /\ wire' = Tail(wire) /\ tab.conn = "open" /\ tab'.conn = "open"
      /\ tab'.cursor = Later(tab.cursor, e.seq)
  BY DEF Delivers
<1>3. /\ e.seq \in Nat /\ e.turn \in Nat /\ e.epoch \in Nat /\ e.seq <= server.seq
      /\ e.kind # "sync" => /\ e \in Events(wire) /\ Of(server, e)
                            /\ <<e.epoch, e.seq>> \notin tab.seen
  BY <1>2, HeadIs
<1>4. /\ tab'.cursor \in Nat /\ tab'.cursor >= tab.cursor /\ tab'.cursor >= e.seq
      /\ tab'.cursor \in {tab.cursor, e.seq}
  BY <1>1, <1>2, <1>3, LaterFacts
<1>5. /\ wire' \in Seq(Event \cup SyncEvent)
      /\ Events(wire') \subseteq Events(wire) /\ Events(wire) \subseteq Events(wire') \cup {e}
      /\ e = wire[1] /\ 1 \in DOMAIN wire
      /\ \A i \in DOMAIN wire' : i + 1 \in DOMAIN wire /\ i + 1 > 1 /\ wire'[i] = wire[i + 1]
  BY <1>1, <1>2, HeadFacts
<1>6. ASSUME NEW f \in Events(wire')
      PROVE  /\ f.seq \in Nat /\ f.turn \in Nat /\ f.epoch \in Nat /\ Of(server, f)
             /\ <<f.epoch, f.seq>> \notin tab.seen
             /\ e.kind # "sync" => e.seq < f.seq /\ Follows(e, f)
  <2>1. f \in Events(wire)
    BY <1>5
  <2>2. /\ f.seq \in Nat /\ f.turn \in Nat /\ f.epoch \in Nat /\ Of(server, f)
        /\ <<f.epoch, f.seq>> \notin tab.seen
    BY <1>1, <2>1, OnWire DEF OnTheWire
  <2>3. ASSUME e.kind # "sync" PROVE e.seq < f.seq /\ Follows(e, f)
    <3>1. PICK i \in DOMAIN wire' : f = wire'[i] /\ f.kind # "sync"
      BY DEF Events
    <3>2. e.seq < f.seq
      <4>1. i + 1 \in DOMAIN wire /\ 1 < i + 1 /\ wire[i + 1] = f
        BY <1>5, <3>1
      <4>2. QED
        BY <1>1, <1>5, <2>3, <3>1, <4>1 DEF OnTheWire, Sorted
    <3>3. QED
      BY <1>1, <1>3, <2>1, <2>3, <3>2 DEF OnTheWire, InOrder
  <2>4. QED
    BY <2>2, <2>3
<1>7. QED
  BY <1>1, <1>2, <1>3, <1>4, <1>5, <1>6

(* The rest of the wire is still in order, and has not been seen.          *)
LEMMA DeliversWire ==
  ASSUME IndInv, NEW e, Delivers(e)
  PROVE  OnTheWire' /\ Streaming'
<1>1. /\ OnTheWire /\ Streaming /\ wire \in Seq(Event \cup SyncEvent) /\ tab.cursor \in Nat
      /\ tab \in Tabs /\ \A f \in Range(server.events) : f.seq \in Nat
  BY TabFacts
<1>2. /\ wire # <<>> /\ wire' = Tail(wire) /\ server' = server /\ tab.conn = "open"
      /\ tab'.seen = IF e.kind = "sync" THEN tab.seen ELSE tab.seen \cup {<<e.epoch, e.seq>>}
  BY DEF Delivers
<1>3. /\ e.seq \in Nat /\ e.seq <= server.seq
      /\ e.kind # "sync" => Of(server, e)
      /\ tab'.cursor \in Nat /\ tab'.cursor >= tab.cursor /\ tab'.cursor >= e.seq
      /\ Events(wire') \subseteq Events(wire) /\ Events(wire) \subseteq Events(wire') \cup {e}
      /\ \A f \in Events(wire') : /\ f.seq \in Nat /\ Of(server, f) /\ <<f.epoch, f.seq>> \notin tab.seen
                                  /\ e.kind # "sync" => e.seq < f.seq
  BY DeliversFacts
<1>4. /\ \A i \in DOMAIN wire' : i + 1 \in DOMAIN wire /\ wire'[i] = wire[i + 1]
      /\ \A i, j \in DOMAIN wire' : i < j => i + 1 < j + 1
  BY <1>1, <1>2, HeadFacts
<1>5. Sorted(wire')
  BY <1>1, <1>4 DEF OnTheWire, Sorted
<1>6. InOrder(Events(wire'))
  BY <1>1, <1>3 DEF OnTheWire, InOrder
<1>7. ASSUME NEW f \in Events(wire') PROVE <<f.epoch, f.seq>> \notin tab'.seen
  <2>1. <<f.epoch, f.seq>> \notin tab.seen /\ (e.kind # "sync" => e.seq # f.seq)
    BY <1>3
  <2>2. QED
    BY <1>2, <2>1
<1>8. \A i \in DOMAIN wire' : wire'[i].seq <= server.seq
  BY <1>1, <1>4 DEF OnTheWire
<1>9. ASSUME NEW x \in tab'.seen
      PROVE  /\ x[1] <= server.epoch /\ x[2] <= tab'.cursor
             /\ x[1] = server.epoch => x[2] <= server.seq
  <2>1. CASE x \in tab.seen
    <3>1. x \in Nat \X Nat
      BY <1>1, <2>1 DEF Tabs
    <3>2. QED
      BY <1>1, <1>3, <2>1, <3>1 DEF OnTheWire
  <2>2. CASE e.kind # "sync" /\ x = <<e.epoch, e.seq>>
    <3>1. e.epoch = server.epoch /\ server.epoch \in Nat
      BY <1>3, <2>2, TabFacts DEF Of
    <3>2. QED
      BY <1>3, <2>2, <3>1
  <2>3. QED
    BY <1>2, <1>9, <2>1, <2>2
<1>10. OnTheWire'
  BY <1>2, <1>3, <1>5, <1>6, <1>7, <1>8, <1>9 DEF OnTheWire
<1>11. ASSUME NEW f \in After(server, tab'.cursor) PROVE f \in Events(wire')
  <2>1. f \in Range(server.events) /\ f.seq > tab'.cursor /\ f.seq \in Nat
    BY <1>1, <1>11 DEF After
  <2>2. f.seq > tab.cursor /\ f.seq > e.seq
    BY <1>1, <1>3, <2>1
  <2>3. f \in Events(wire)
    BY <1>1, <1>2, <2>1, <2>2 DEF Streaming, After
  <2>4. f # e
    BY <1>3, <2>2
  <2>5. QED
    BY <1>3, <2>3, <2>4
<1>12. QED
  BY <1>2, <1>10, <1>11 DEF Streaming

(* What the tab shows comes from turns that began, and is of their kinds.  *)
LEMMA DeliversSaying ==
  ASSUME IndInv, NEW e, Delivers(e)
  PROVE  Types' /\ Saying' /\ Requested' /\ Opened'
<1>1. Types /\ Saying /\ Requested /\ Opened /\ server.turns \in Nat
  BY TabFacts
<1>2. /\ UNCHANGED <<server, transcript, records, calls, replies, sending, renewed, snapshot, said,
                     begun, forgotten>>
      /\ tab' \in Tabs
      /\ tab'.shown = IF Shows(e) THEN tab.shown \cup {Says(e)} ELSE tab.shown
      /\ tab'.again = IF Shows(e) THEN tab.again \ {Says(e)} ELSE tab.again
      /\ flaws' = (flaws \cup Flaw(Shows(e) /\ Says(e) \in tab.shown \ tab.again, "repeated")
                     \cup Flaw(e.kind = "sync" /\ e.gap, "noticed"))
              \ Flaw(Telling(e), "overtaken")
  BY DEF Delivers
<1>3. /\ wire' \in Seq(Event \cup SyncEvent) /\ e.turn \in Nat
      /\ e.kind # "sync" => Of(server, e)
  BY DeliversFacts
<1>4. flaws' \subseteq {"repeated", "skipped", "overtaken", "noticed"}
  BY <1>1, <1>2 DEF Types, Flaw
<1>5. Types'
  BY <1>1, <1>2, <1>3, <1>4 DEF Types
<1>6. Shows(e) => Says(e).turn \in 1..server.turns
  <2>1. Shows(e) => IsMessage(e) /\ e.kind # "sync"
    BY DEF Shows, IsMessage
  <2>2. IsMessage(e) /\ e.kind # "sync" => e.turn # 0 /\ e.turn <= server.turns
    BY <1>3 DEF Of
  <2>3. Says(e).turn = e.turn
    BY DEF Says, Message
  <2>4. QED
    BY <1>1, <1>3, <2>1, <2>2, <2>3
<1>7. Saying'
  BY <1>1, <1>2, <1>6 DEF Saying
<1>8. Requested' /\ Opened'
  BY <1>1, <1>2 DEF Requested, Opened, SnapCursor, Due, Moved
<1>9. QED
  BY <1>5, <1>7, <1>8

(* The tab knows, or is about to learn, whether a turn runs.               *)
LEMMA DeliversInformed ==
  ASSUME IndInv, NEW e, Delivers(e)
  PROVE  Informed'
<1>1. /\ Informed /\ Types /\ wire \in Seq(Event \cup SyncEvent) /\ tab.running \in BOOLEAN
  BY TabFacts
<1>2. /\ wire # <<>> /\ wire' = Tail(wire) /\ server' = server /\ tab.conn = "open"
      /\ e = Head(wire) /\ tab'.running = RunningAfter(e)
      /\ flaws' = (flaws \cup Flaw(Shows(e) /\ Says(e) \in tab.shown \ tab.again, "repeated")
                     \cup Flaw(e.kind = "sync" /\ e.gap, "noticed"))
              \ Flaw(Telling(e), "overtaken")
  BY DEF Delivers
<1>3. /\ e = wire[1] /\ 1 \in DOMAIN wire
      /\ \A i \in DOMAIN wire' : i + 1 \in DOMAIN wire /\ i + 1 > 1 /\ wire'[i] = wire[i + 1]
      /\ \A i \in DOMAIN wire : i # 1 =>
           i > 1 /\ i - 1 \in DOMAIN wire' /\ wire'[i - 1] = wire[i]
      /\ \A i \in DOMAIN wire : \A j \in DOMAIN wire' : j > i - 1 => j + 1 > i
  BY <1>1, <1>2, HeadFacts
<1>4. CASE \E i \in DOMAIN wire :
             /\ Telling(wire[i]) /\ Tells(wire[i]) = Running(server)
             /\ \A j \in DOMAIN wire : j > i => ~Telling(wire[j])
  <2>1. PICK i \in DOMAIN wire :
             /\ Telling(wire[i]) /\ Tells(wire[i]) = Running(server)
             /\ \A j \in DOMAIN wire : j > i => ~Telling(wire[j])
    BY <1>4
  <2>2. CASE i = 1
    <3>1. \A j \in DOMAIN wire' : ~Telling(wire'[j])
      BY <1>3, <2>1, <2>2
    <3>2. tab'.running = Tells(e)
      BY <1>2, <1>3, <2>1, <2>2 DEF RunningAfter, Tells, Telling
    <3>3. QED
      BY <1>2, <1>3, <2>1, <2>2, <3>1, <3>2 DEF Informed
  <2>3. CASE i # 1
    <3>1. /\ i - 1 \in DOMAIN wire' /\ wire'[i - 1] = wire[i]
          /\ \A j \in DOMAIN wire' : j > i - 1 => ~Telling(wire'[j])
      BY <1>3, <2>1, <2>3
    <3>2. QED
      BY <1>2, <2>1, <3>1 DEF Informed
  <2>4. QED
    BY <2>2, <2>3
<1>5. CASE /\ \A j \in DOMAIN wire : ~Telling(wire[j])
           /\ "overtaken" \in flaws \/ tab.running = Running(server)
  <2>1. ~Telling(e)
    BY <1>3, <1>5
  <2>2. tab'.running = tab.running
    BY <1>2, <2>1 DEF RunningAfter, Telling
  <2>3. "overtaken" \in flaws => "overtaken" \in flaws'
    BY <1>2, <2>1 DEF Flaw
  <2>4. \A j \in DOMAIN wire' : ~Telling(wire'[j])
    BY <1>3, <1>5
  <2>5. QED
    BY <1>2, <1>5, <2>2, <2>3, <2>4 DEF Informed
<1>6. QED
  BY <1>1, <1>2, <1>4, <1>5 DEF Informed

(* Nothing new is repeated, and nothing repeated is shown.                 *)
LEMMA NovelFacts ==
  ASSUME IndInv, NEW e, Delivers(e)
  PROVE  /\ IsMessage(e) => e \in Events(wire) /\ e.turn # 0 /\ e.turn <= server.turns
         /\ IsMessage(e) /\ Says(e) \in tab.shown \ tab.again => ~Shows(e)
         /\ IsMessage(e) => Says(e) \in tab'.shown
         /\ tab.last # 0 /\ IsMessage(e) =>
              e.turn > tab.last \/ (e.turn = tab.last /\ e.kind = "final")
         /\ Novel(Events(wire))
         /\ ~IsMessage(e) => /\ tab'.shown = tab.shown /\ tab'.last = tab.last
                             /\ tab'.again = tab.again
         /\ IsMessage(e) =>
              /\ tab'.shown \subseteq tab.shown \cup {Says(e)}
              /\ tab'.shown \ tab'.again \subseteq (tab.shown \ tab.again) \cup {Says(e)}
         /\ e.kind = "user" => tab'.last = 0
         /\ e.kind = "final" => tab'.last = e.turn
<1>1. Fresh /\ tab.last \in Nat
  BY TabFacts
<1>2. /\ tab.conn = "open"
      /\ tab'.shown = IF Shows(e) THEN tab.shown \cup {Says(e)} ELSE tab.shown
      /\ tab'.again = IF Shows(e) THEN tab.again \ {Says(e)} ELSE tab.again
      /\ tab'.last = LastAfter(e)
  BY DEF Delivers
<1>3. e.turn \in Nat /\ (e.kind # "sync" => e \in Events(wire) /\ Of(server, e))
  BY DeliversFacts
<1>4. IsMessage(e) => e \in Events(wire) /\ e.turn # 0 /\ e.turn <= server.turns
  BY <1>3 DEF IsMessage, Of
<1>5. Novel(Events(wire))
  BY <1>1, <1>2 DEF Fresh
<1>6. IsMessage(e) /\ Says(e) \in tab.shown \ tab.again => ~Shows(e)
  <2>1. IsMessage(e) /\ Says(e) \in tab.shown \ tab.again => e.kind = "final" /\ tab.last = e.turn
    BY <1>4, <1>5 DEF Novel, Behind
  <2>2. QED
    BY <2>1 DEF Shows, Repeated, SameAnswer
<1>7. IsMessage(e) => Says(e) \in tab'.shown
  <2>1. SUFFICES ASSUME IsMessage(e), ~Shows(e) PROVE Says(e) \in tab'.shown
    BY <1>2
  <2>2. e.kind = "final" /\ tab.last = e.turn /\ e.turn # 0
    BY <1>4, <2>1 DEF Shows, Repeated, SameAnswer, IsMessage
  <2>3. Says(e) = Message(tab.last, "final")
    BY <2>2 DEF Says
  <2>4. QED
    BY <1>1, <1>2, <2>2, <2>3 DEF Fresh
<1>8. tab.last # 0 /\ IsMessage(e) =>
        e.turn > tab.last \/ (e.turn = tab.last /\ e.kind = "final")
  BY <1>4, <1>5 DEF Novel, Behind
<1>9. /\ ~IsMessage(e) => /\ tab'.shown = tab.shown /\ tab'.last = tab.last
                          /\ tab'.again = tab.again
      /\ IsMessage(e) =>
           /\ tab'.shown \subseteq tab.shown \cup {Says(e)}
           /\ tab'.shown \ tab'.again \subseteq (tab.shown \ tab.again) \cup {Says(e)}
      /\ e.kind = "user" => tab'.last = 0
      /\ e.kind = "final" => tab'.last = e.turn
  BY <1>2 DEF Shows, LastAfter, IsMessage
<1>10. QED
  BY <1>4, <1>5, <1>6, <1>7, <1>8, <1>9

(* The tab has got what is shown now, and the rest is still to come.       *)
LEMMA DeliversComing ==
  ASSUME IndInv, NEW e, Delivers(e)
  PROVE  Coming' /\ ShownOnce'
<1>1. Coming /\ ShownOnce /\ tab.cursor \in Nat /\ server.seq \in Nat
      /\ wire \in Seq(Event \cup SyncEvent)
  BY TabFacts
<1>2. /\ tab.conn = "open" /\ wire # <<>> /\ e = Head(wire) /\ wire' = Tail(wire)
      /\ server' = server /\ said' = said /\ tab'.conn = "open"
      /\ tab'.shown = IF Shows(e) THEN tab.shown \cup {Says(e)} ELSE tab.shown
      /\ flaws' = (flaws \cup Flaw(Shows(e) /\ Says(e) \in tab.shown \ tab.again, "repeated")
                     \cup Flaw(e.kind = "sync" /\ e.gap, "noticed"))
              \ Flaw(Telling(e), "overtaken")
  BY DEF Delivers
<1>3. /\ e.seq \in Nat /\ e.seq <= server.seq /\ tab'.cursor \in {tab.cursor, e.seq}
      /\ Events(wire) \subseteq Events(wire') \cup {e}
  BY DeliversFacts
<1>4. /\ IsMessage(e) /\ Says(e) \in tab.shown \ tab.again => ~Shows(e)
      /\ IsMessage(e) => Says(e) \in tab'.shown
  BY NovelFacts
<1>5. /\ "skipped" \in flaws' <=> "skipped" \in flaws
      /\ "noticed" \in flaws => "noticed" \in flaws'
      /\ e.kind = "sync" /\ e.gap => "noticed" \in flaws'
  BY <1>2 DEF Flaw
<1>6. ShownOnce'
  <2>1. ~(Shows(e) /\ Says(e) \in tab.shown \ tab.again)
    BY <1>4 DEF Shows, IsMessage
  <2>2. "repeated" \notin flaws'
    BY <1>1, <1>2, <2>1 DEF Flaw, ShownOnce
  <2>3. QED
    BY <2>2 DEF ShownOnce
<1>7. "skipped" \notin flaws' => tab'.cursor <= server.seq
  BY <1>1, <1>3, <1>5 DEF Coming
<1>8. server' = server /\ Due' = Due /\ tab'.conn = "open"
  BY <1>2 DEF Due
<1>9. CASE Told'
  BY <1>6, <1>7, <1>8, <1>9 DEF Coming
<1>10. CASE ~Told'
  <2>1. ~Told /\ ~(e.kind = "sync" /\ e.gap)
    BY <1>5, <1>10 DEF Told
  <2>2. /\ e = wire[1]
        /\ \A i \in DOMAIN wire : i # 1 => i - 1 \in DOMAIN wire' /\ wire'[i - 1] = wire[i]
    BY <1>1, <1>2, HeadFacts
  <2>3. CASE \E i \in DOMAIN wire : wire[i].kind = "sync" /\ wire[i].gap
    <3>1. \E i \in DOMAIN wire' : wire'[i].kind = "sync" /\ wire'[i].gap
      BY <2>1, <2>2, <2>3
    <3>2. QED
      BY <1>6, <1>7, <1>8, <3>1 DEF Coming
  <2>4. CASE \A m \in Due \ tab.shown :
               \E f \in Events(wire) : IsMessage(f) /\ Says(f) = m /\ AtLeast(server, m, f.seq)
    <3>1. ASSUME NEW m \in Due \ tab'.shown
          PROVE  \E f \in Events(wire') : IsMessage(f) /\ Says(f) = m /\ AtLeast(server, m, f.seq)
      <4>1. m \in Due \ tab.shown
        BY <1>2
      <4>2. PICK f \in Events(wire) : IsMessage(f) /\ Says(f) = m /\ AtLeast(server, m, f.seq)
        BY <2>4, <4>1
      <4>3. f # e
        BY <1>4, <4>2
      <4>4. QED
        BY <1>3, <4>2, <4>3
    <3>2. QED
      BY <1>6, <1>7, <1>8, <3>1 DEF Coming
  <2>5. QED
    BY <1>1, <1>2, <2>1, <2>3, <2>4 DEF Coming
<1>11. QED
  BY <1>9, <1>10

(* What is still on the wire is new to the tab.                            *)
LEMMA DeliversFresh ==
  ASSUME IndInv, NEW e, Delivers(e)
  PROVE  Fresh'
<1>1. Fresh /\ tab.last \in Nat /\ server.turn \in Nat /\ server.turns \in Nat
      /\ server.turn \in {0, server.turns} /\ Saying
  BY TabFacts
<1>2. server' = server /\ tab'.conn = "open" /\ tab.conn = "open"
  BY DEF Delivers
<1>3. /\ e.turn \in Nat /\ Events(wire') \subseteq Events(wire)
      /\ \A f \in Events(wire') :
           f.turn \in Nat /\ Of(server, f) /\ (e.kind # "sync" => Follows(e, f))
  BY DeliversFacts
<1>4. /\ IsMessage(e) => e \in Events(wire) /\ e.turn # 0 /\ e.turn <= server.turns
      /\ IsMessage(e) => Says(e) \in tab'.shown
      /\ tab.last # 0 /\ IsMessage(e) =>
           e.turn > tab.last \/ (e.turn = tab.last /\ e.kind = "final")
      /\ Novel(Events(wire))
      /\ ~IsMessage(e) => /\ tab'.shown = tab.shown /\ tab'.last = tab.last
                          /\ tab'.again = tab.again
      /\ IsMessage(e) =>
           /\ tab'.shown \subseteq tab.shown \cup {Says(e)}
           /\ tab'.shown \ tab'.again \subseteq (tab.shown \ tab.again) \cup {Says(e)}
      /\ e.kind = "user" => tab'.last = 0
      /\ e.kind = "final" => tab'.last = e.turn
  BY NovelFacts
<1>5. IsMessage(e) <=> e.kind \in {"user", "final"}
  BY DEF IsMessage
<1>6. tab.shown \subseteq tab'.shown
  BY DEF Delivers
<1>7. tab'.last <= server.turns
  BY <1>1, <1>4, <1>5 DEF Fresh
<1>8. tab'.last # 0 => Message(tab'.last, "final") \in tab'.shown
  <2>1. CASE e.kind = "final"
    BY <1>4, <1>5, <2>1 DEF Says
  <2>2. CASE e.kind # "final"
    BY <1>1, <1>4, <1>5, <1>6, <2>2 DEF Fresh
  <2>3. QED
    BY <2>1, <2>2
<1>9. ASSUME CurrentTurn(server) # 0, Message(server.turn, "final") \in tab'.shown 
      PROVE  tab'.last = server.turn
  <2> DEFINE m == Message(server.turn, "final")
  <2>1. m.turn = server.turn /\ m.kind = "final" /\ Says(e).turn = e.turn /\ Says(e).kind = e.kind
    BY DEF Message, Says
  <2> HIDE DEF m
  <2>2. m \in tab.shown => tab.last = server.turn /\ server.turn # 0 /\ server.turn = server.turns
    BY <1>1, <1>9, <2>1 DEF Fresh, Saying, CurrentTurn, m
  <2>3. CASE ~IsMessage(e)
    BY <1>4, <1>9, <2>2, <2>3 DEF m
  <2>4. CASE e.kind = "user"
    <3>1. m \in tab.shown
      BY <1>4, <1>5, <1>9, <2>1, <2>4 DEF m
    <3>2. e.turn > server.turns /\ e.turn <= server.turns
      BY <1>4, <1>5, <2>2, <2>4, <3>1
    <3>3. QED
      BY <1>1, <1>3, <3>2
  <2>5. CASE e.kind = "final"
    <3>1. CASE m \in tab.shown
      <4>1. (e.turn > server.turns \/ e.turn = server.turn) /\ e.turn <= server.turns
        BY <1>4, <1>5, <2>2, <2>5, <3>1
      <4>2. QED
        BY <1>1, <1>3, <1>4, <2>5, <4>1
    <3>2. CASE m \notin tab.shown
      <4>1. m = Says(e)
        BY <1>4, <1>5, <1>9, <2>5, <3>2 DEF m
      <4>2. QED
        BY <1>4, <2>1, <2>5, <4>1
    <3>3. QED
      BY <3>1, <3>2
  <2>6. QED
    BY <1>5, <2>3, <2>4, <2>5
<1> DEFINE U == tab.shown \ tab.again
           V == tab'.shown \ tab'.again
<1>10. (IsMessage(e) => V \subseteq U \cup {Says(e)}) /\ (~IsMessage(e) => V = U)
  BY <1>4
<1>11. \A f \in Events(wire') : IsMessage(f) /\ Says(f) \in U => f.kind = "final" /\ tab.last = f.turn
  BY <1>3, <1>4 DEF Novel
<1>12. \A f \in Events(wire') : IsMessage(f) /\ tab.last # 0 =>
         f.turn > tab.last \/ (f.turn = tab.last /\ f.kind = "final")
  BY <1>3, <1>4 DEF Novel, Behind
<1> HIDE DEF U, V
<1>13. ASSUME NEW f \in Events(wire'), IsMessage(f)
       PROVE  /\ Says(f) \in V => f.kind = "final" /\ tab'.last = f.turn
              /\ tab'.last # 0 => f.turn > tab'.last \/ (f.turn = tab'.last /\ f.kind = "final")
  <2>1. /\ f \in Events(wire) /\ f.turn \in Nat /\ f.turn # 0
        /\ Says(f) \in U => f.kind = "final" /\ tab.last = f.turn
        /\ tab.last # 0 => f.turn > tab.last \/ (f.turn = tab.last /\ f.kind = "final")
    BY <1>3, <1>13, <1>11, <1>12 DEF Of
  <2>2. CASE ~IsMessage(e)
    BY <1>4, <1>10, <2>1, <2>2
  <2>3. CASE IsMessage(e)
    <3>1. e.turn <= f.turn /\ (e.turn = f.turn => f.kind = "final")
      BY <1>3, <1>4, <1>5, <1>13, <2>1, <2>3 DEF Follows
    <3>2. Says(f) = Says(e) => f.turn = e.turn /\ f.kind = e.kind
      BY DEF Says, Message
    <3>3. CASE e.kind = "user"
      <4>1. Says(f) # Says(e)
        BY <3>1, <3>2, <3>3
      <4>2. Says(f) \notin U
        <5>1. SUFFICES ASSUME Says(f) \in U PROVE FALSE
          OBVIOUS
        <5>2. tab.last = f.turn /\ e.turn > f.turn
          BY <1>4, <2>1, <2>3, <3>3, <5>1
        <5>3. QED
          BY <1>3, <2>1, <3>1, <5>2
      <4>3. QED
        BY <1>4, <1>10, <2>3, <3>3, <4>1, <4>2
    <3>4. CASE e.kind = "final"
      <4>1. tab'.last = e.turn
        BY <1>4, <3>4
      <4>2. e.turn # f.turn => f.turn > e.turn
        BY <1>3, <2>1, <3>1
      <4>3. Says(f) \in U => f.kind = "final" /\ e.turn = f.turn
        <5>1. SUFFICES ASSUME Says(f) \in U PROVE f.kind = "final" /\ e.turn = f.turn
          OBVIOUS
        <5>2. f.kind = "final" /\ (e.turn > f.turn \/ e.turn = f.turn)
          BY <1>4, <2>1, <2>3, <5>1
        <5>3. QED
          BY <1>3, <2>1, <3>1, <5>2
      <4>4. Says(f) \in V => f.kind = "final" /\ e.turn = f.turn
        BY <1>10, <2>3, <3>2, <3>4, <4>3
      <4>5. QED
        BY <3>1, <4>1, <4>2, <4>4
    <3>5. QED
      BY <1>5, <2>3, <3>3, <3>4
  <2>4. QED
    BY <2>2, <2>3
<1>14. Novel(Events(wire))'
  BY <1>13 DEF Novel, Behind, V
<1>15. QED
  BY <1>2, <1>7, <1>8, <1>9, <1>14 DEF Fresh

(* The tab gets an event.                                                  *)
LEMMA DeliverKeeps == ASSUME IndInv, Deliver PROVE IndInv'
<1>1. PICK e : Delivers(e)
  BY DeliverDelivers
<1>2. OnTheWire' /\ Streaming'
  BY <1>1, DeliversWire
<1>3. Types' /\ Saying' /\ Requested' /\ Opened'
  BY <1>1, DeliversSaying
<1>4. Informed'
  BY <1>1, DeliversInformed
<1>5. Coming' /\ ShownOnce'
  BY <1>1, DeliversComing
<1>6. Fresh'
  BY <1>1, DeliversFresh
<1>7. QED
  BY <1>1, <1>2, <1>3, <1>4, <1>5, <1>6, TabKeeps DEF Delivers

-----------------------------------------------------------------------------
(***************************************************************************)
(* The invariant, and what it says.                                        *)
(***************************************************************************)
(* A session starts with nothing.                                          *)
LEMMA InitOK == Init => IndInv
<1> SUFFICES ASSUME Init PROVE IndInv
  OBVIOUS
<1> DEFINE s == [NoServer EXCEPT !.live = TRUE]
           blank == [p \in Requests |-> NoResult]
<1>1. /\ server = s /\ transcript = {} /\ records = blank /\ calls = {} /\ replies = {}
      /\ wire = <<>> /\ tab = NoView /\ sending = NoCall /\ renewed = {}
      /\ snapshot = NoSnapshot
      /\ said = {} /\ begun = <<>> /\ forgotten = {} /\ flaws = {}
  BY DEF Init
<1>2. /\ s \in Servers /\ s.live /\ s.turns = 0 /\ s.turn = 0 /\ s.seq = 0 /\ ~s.disowned
      /\ s.events = <<>> /\ s.queue = <<>>
  <2>1. <<>> \in Seq(Event) /\ <<>> \in Seq(Requests)
    OBVIOUS
  <2>2. NoServer \in Servers
    BY <2>1 DEF NoServer, Servers
  <2>3. /\ NoServer.turns = 0 /\ NoServer.seq = 0 /\ NoServer.events = <<>> /\ NoServer.turn = 0
        /\ NoServer.queue = <<>> /\ ~NoServer.disowned
    BY DEF NoServer
  <2>4. QED
    BY <2>2, <2>3 DEF Servers
<1>3. blank \in [Requests -> Results] /\ \A p \in Requests : blank[p].state = "none"
  BY DEF NoResult, Results
<1>4. /\ NoView \in Tabs /\ NoView.conn = "none" /\ NoView.cursor = 0 /\ NoView.seen = {}
      /\ NoView.shown = {} /\ NoView.again = {} /\ NoView.last = 0
      /\ NoView.running = FALSE
  BY DEF NoView, Tabs
<1>5. NoSnapshot \in Snapshots /\ NoSnapshot.at = "none" /\ NoSnapshot.shown = {}
  BY DEF NoSnapshot, Snapshots
<1>6. /\ Range(<<>>) = {} /\ DOMAIN <<>> = {} /\ Sorted(<<>>) /\ Len(<<>>) = 0 /\ InOrder({})
      /\ Events(<<>>) = {}
  BY DEF Range, Sorted, InOrder, Events
<1> HIDE DEF s, blank
<1>7. Types
  BY <1>1, <1>2, <1>3, <1>4, <1>5 DEF Types
<1>8. Sane(server)
  <2>1. Len(s.events) <= Retain /\ Range(s.events) = {} /\ Sorted(s.events)
    BY <1>2, <1>6, RetainAssumption
  <2>2. Ordered(s) /\ Headed(s)
    BY <1>2, <1>6, <2>1 DEF Ordered, Headed, Running
  <2>3. QED
    BY <1>1, <1>2, <2>2 DEF Sane, Owned
<1>9. OnTheWire
  BY <1>1, <1>4, <1>6 DEF OnTheWire
<1>10. Requested /\ Recorded /\ Opened /\ ShownOnce
  BY <1>1, <1>2, <1>3, <1>5 DEF Requested, Recorded, Opened, ShownOnce, Due
<1>11. Once
  <2>1. /\ Range(begun) = {} /\ DOMAIN begun = {} /\ Range(server.queue) = {}
        /\ DOMAIN server.queue = {}
    BY <1>1, <1>2, <1>6
  <2>2. QED
    BY <2>1 DEF Once
<1>12. Informed /\ Streaming /\ Saying /\ Retained
  BY <1>1, <1>2, <1>4, <1>5 DEF Informed, Streaming, Saying, Retained, Due
<1>13. Coming
  BY <1>1, <1>2, <1>4 DEF Coming, Due
<1>14. Fresh
  BY <1>1, <1>2, <1>3, <1>4 DEF Fresh, CurrentTurn
<1>15. Renewed
  <2>1. NoCall.request \notin Requests
    BY NoRequestAssumption DEF NoCall, Call
  <2>2. \A r \in InUse : r = NoCall.request \/ (r \in Requests /\ blank[r].state # "none")
    BY <1>1, <1>2, <1>6 DEF InUse
  <2>3. QED
    BY <1>3, <2>1, <2>2 DEF Renewed
<1>16. QED
  BY <1>15, <1>7, <1>8, <1>9, <1>10, <1>11, <1>12, <1>13, <1>14 DEF IndInv

(* Every step keeps the invariant.                                         *)
LEMMA NextKeeps == IndInv /\ [Next]_vars => IndInv'
<1> SUFFICES ASSUME IndInv, [Next]_vars PROVE IndInv'
  OBVIOUS
<1>1. CASE Serve
  <2>1. CASE \E c \in calls : Accept(c) \/ Reply(c)
    BY <2>1, AcceptKeeps, ReplyKeeps
  <2>2. CASE \E r \in Requests : Admit(r)
    BY <2>2, AdmitKeeps
  <2>3. CASE GoalSaved \/ Unheard
    BY <2>3, GoalSavedKeeps, UnheardKeeps
  <2>4. QED
    BY <1>1, <2>1, <2>2, <2>3, ActivityKeeps, AnswerKeeps, FinishKeeps DEF Serve
<1>2. CASE View
  BY <1>2, SubscribeKeeps, DeliverKeeps, ReceiveKeeps, OpenKeeps, OpenShowKeeps DEF View
<1>3. CASE (\E p \in Prompts : Send(p)) \/ (\E r \in Requests : Expire(r))
  BY <1>3, SendKeeps, ExpireKeeps
<1>4. CASE GiveUp \/ Resend \/ Drop
  BY <1>4, GiveUpKeeps, ResendKeeps, DropKeeps
<1>5. CASE OpenRead \/ OpenReply \/ Restart
  BY <1>5, OpenReadKeeps, OpenReplyKeeps, RestartKeeps
<1>6. CASE UNCHANGED vars
  <2>1. UNCHANGED <<server, transcript, records, calls, replies, wire, tab, sending, renewed,
                    snapshot, said, begun, forgotten, flaws>>
    BY <1>6 DEF vars, messaging, history
  <2>2. Types /\ Requested /\ Once /\ Renewed
    BY DEF IndInv
  <2>3. Types' /\ Requested' /\ Once' /\ Renewed'
    BY <2>1, <2>2 DEF Types, Requested, Once, Renewed, InUse
  <2>4. QED
    BY <2>1, <2>3, MessagingKeeps
<1>7. QED
  BY <1>1, <1>2, <1>3, <1>4, <1>5, <1>6 DEF Next

(* The inductive invariant holds throughout.                               *)
THEOREM DashboardInvariance == Spec => []IndInv
  BY InitOK, NextKeeps, PTL DEF Spec

(* Every variable has its shape, and the events stay in order and within   *)
(* their limit.                                                            *)
THEOREM TypeCorrect == Spec => []TypeOK
<1>1. IndInv => TypeOK
  <2> SUFFICES ASSUME IndInv PROVE TypeOK
    OBVIOUS
  <2>1. /\ Types /\ Saying /\ Ordered(server) /\ Owned(server) /\ server \in Servers /\ server.seq \in Nat
        /\ server.turns \in Nat /\ server.turn \in {0, server.turns}
        /\ server.events \in Seq(Event) /\ tab \in Tabs /\ tab.running \in BOOLEAN
        /\ \A e \in Range(server.events) : e.kind # "sync"
    BY TabFacts
  <2>2. \A i \in 1..Len(server.events) - 1 : server.events[i].seq < server.events[i + 1].seq
    <3>1. ASSUME NEW i \in 1..Len(server.events) - 1
          PROVE  server.events[i].seq < server.events[i + 1].seq
      <4>1. i \in DOMAIN server.events /\ i + 1 \in DOMAIN server.events /\ i < i + 1
        BY <2>1
      <4>2. server.events[i].kind # "sync" /\ server.events[i + 1].kind # "sync"
        BY <2>1, <4>1 DEF Range
      <4>3. QED
        BY <2>1, <4>1, <4>2 DEF Ordered, Sorted
    <3>2. QED
      BY <3>1
  <2>3. server.stops \in Nat /\ (server.disowned => server.turn # 0)
    BY <2>1 DEF Servers, Owned, Running
  <2>4. server.turn \in 0..server.turns /\ Len(server.events) <= Retain
    BY <2>1 DEF Ordered
  <2>5. \A p \in Requests : records[p].state \in {"none", "pending", "done"}
    BY <2>1 DEF Types, Results
  <2>6. calls \cup replies \subseteq [request : Requests, try : Nat]
    BY <2>1 DEF Types, Calls
  <2>7. sending.request \in Requests \cup {NoRequest}
    BY <2>1 DEF Types, Calls, NoCall, Call
  <2>8. renewed \subseteq Prompts
    BY <2>1 DEF Types
  <2>9. /\ tab.conn \in {"none", "dial", "open"}
        /\ snapshot.at \in {"none", "asked", "read", "reply"}
    BY <2>1 DEF Types, Tabs, Snapshots
  <2>10. \A m \in tab.shown \cup tab.again : m.turn \in 1..server.turns
    BY <2>1 DEF Saying
  <2>11. flaws \subseteq {"repeated", "skipped", "overtaken", "noticed"}
    BY <2>1 DEF Types
  <2>12. QED
    BY <2>1, <2>2, <2>4, <2>5, <2>6, <2>7, <2>9, <2>10, <2>11, <2>3, <2>8 DEF TypeOK
<1>2. QED
  BY <1>1, DashboardInvariance, PTL

(* However often a submission is repeated, its request begins one turn     *)
(* while the server remembers it (withIdempotentTurnRequest); another      *)
(* request begins its prompt again only when the tab forgot the first      *)
(* while it was under way (openSession).                                   *)
THEOREM PromptsBeginOnce == Spec => []StartedOnce
<1>1. IndInv => StartedOnce
  <2> SUFFICES ASSUME IndInv, NEW i \in DOMAIN begun, NEW j \in DOMAIN begun, i # j,
                      begun[i].prompt = begun[j].prompt
               PROVE  IF begun[i] = begun[j] THEN begun[i] \in forgotten
                      ELSE begun[i].prompt \in renewed
    BY DEF StartedOnce
  <2>1. Once /\ Renewed /\ begun \in Seq(Requests)
    BY TabFacts DEF Types
  <2>2. /\ begun[i] \in Requests /\ begun[j] \in Requests
        /\ begun[i] \in Range(begun) /\ begun[j] \in Range(begun)
    BY <2>1 DEF Range
  <2>3. begun[i] = begun[j] => begun[i] \in forgotten
    BY <2>1, <2>2 DEF Once
  <2>4. ASSUME begun[i] # begun[j] PROVE begun[i].prompt \in renewed
    <3>1. begun[i].id = 2 \/ begun[j].id = 2
      BY <2>2, <2>4 DEF Requests
    <3>2. begun[i] \in InUse /\ begun[j] \in InUse
      BY <2>2 DEF InUse
    <3>3. QED
      BY <2>1, <2>2, <3>1, <3>2 DEF Renewed
  <2>5. QED
    BY <2>3, <2>4
<1>2. QED
  BY <1>1, DashboardInvariance, PTL

(* No message is shown twice, although a turn may send its answer again    *)
(* and a replay may overlap what was delivered; except for what a tab      *)
(* without a stream already shows beyond the cursor of a late result.      *)
THEOREM NothingShownTwice == Spec => []ShownOnce
<1>1. IndInv => ShownOnce
  BY DEF IndInv
<1>2. QED
  BY <1>1, DashboardInvariance, PTL

(* A tab that has caught up shows all that was announced, or has been told *)
(* of a gap, whatever was dropped, trimmed, resent or replayed; the        *)
(* exceptions are those that Complete names.                               *)
THEOREM NothingMissed == Spec => []Complete
<1>1. IndInv => Complete
  <2> SUFFICES ASSUME IndInv, CaughtUp, flaws \cap {"skipped", "noticed"} = {}
               PROVE  Due \subseteq tab.shown
    BY DEF Complete
  <2>1. Coming /\ ~Told /\ tab.conn = "open" /\ DOMAIN wire = {} /\ Events(wire) = {}
    BY DEF IndInv, CaughtUp, Told, Events
  <2>2. \A m \in Due \ tab.shown : FALSE
    BY <2>1 DEF Coming
  <2>3. QED
    BY <2>2
<1>2. QED
  BY <1>1, DashboardInvariance, PTL

(* A tab that has caught up knows whether a turn runs, unless a late       *)
(* result told it otherwise, or the run_state of the last turn is held     *)
(* back by a Goal or has disowned the turn that runs.                      *)
THEOREM RunningIsKnown == Spec => []InSync
<1>1. IndInv => InSync
  <2> SUFFICES ASSUME IndInv, CaughtUp, Announced(server), "overtaken" \notin flaws
               PROVE  tab.running = Running(server)
    BY DEF InSync
  <2>1. Informed /\ tab.conn = "open" /\ DOMAIN wire = {}
    BY DEF IndInv, CaughtUp
  <2>2. QED
    BY <2>1 DEF Informed
<1>2. QED
  BY <1>1, DashboardInvariance, PTL
=============================================================================
