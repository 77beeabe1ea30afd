------------------------------ MODULE Playback ------------------------------
(***************************************************************************)
(* The browser's flow buffer (web/src/flowStream.ts) as App.tsx drives it: *)
(* one live WebSocket, requests for recent and for historical flows whose  *)
(* answers arrive in any order, and replay timers.  JavaScript runs one    *)
(* callback at a time, so every callback is one step; what interleaves is  *)
(* the order of the callbacks.                                             *)
(*                                                                         *)
(* Flows are numbered by receive time.  A flow is one particle: the clones *)
(* that make a large flow a longer comet, and flows without coordinates,   *)
(* which make none, are left out.                                          *)
(***************************************************************************)
EXTENDS Integers, Sequences, FiniteSets

CONSTANTS
  MaxFlows,    \* bound: flows the server publishes
  MaxActs,     \* bound: what the user does
  MaxFetches,  \* bound: requests made
  MaxDrops,    \* bound: times the socket closes or fails to open
  RecentMax,   \* flows /api/recent returns (400 in the code)
  BufMax,      \* MAX_FLOWS (4000 in the code)
  Brushing     \* whether the user brushes the timeline

ASSUME PlaybackAssumption ==
  /\ RecentMax \in Nat \ {0} /\ BufMax \in Nat \ {0}
  /\ Brushing \in BOOLEAN

VARIABLES
  sent,        \* the server: flows published so far
  acts, drops, \* the bounds' counters
  range,       \* App: the selected range, "live" or "past"
  live,        \* liveRef
  seq,         \* replaySeq
  buf,         \* flowsRef: particles, oldest first
  fetches,     \* requests whose callbacks have not run
  asked,       \* requests made so far
  timers,      \* replay timeouts that have not fired
  stage,       \* the async start-up: "loading", "config", "recent", "started"
  ws, next     \* the socket, and the first flow it has not delivered

env == <<sent, acts, drops>>
view == <<live, seq, buf>>
socket == <<ws, next>>
vars == <<env, range, view, fetches, asked, timers, stage, socket>>

Least(a, b) == IF a < b THEN a ELSE b
Most(a, b) == IF a > b THEN a ELSE b

\* The flows i .. j as particles that came the way w.
Particles(i, j, w) ==
  [k \in 1..(j - i + 1) |-> [flow |-> i + k - 1, via |-> w, seq |-> seq]]

\* push, for each of ps: the buffer keeps the newest BufMax.
Pushed_Unbounded(ps) == buf \o ps                                \* mutant
Pushed(ps) ==
  LET all == buf \o ps IN SubSeq(all, Most(1, Len(all) - BufMax + 1), Len(all))

Ask(kind) ==
  /\ asked < MaxFetches
  /\ asked' = asked + 1
  /\ fetches' = fetches \cup {[id |-> asked, kind |-> kind, since |-> sent]}

\* What /api/recent can answer: the last flows of the stream at some moment
\* between the request and now.
Recents(r) == {Particles(Most(1, s - RecentMax + 1), s, "recent") : s \in r.since..sent}

----------------------------------------------------------------------------
(* The effect of App.tsx that follows the range and the refresh interval.  *)

GoLive_KeepSeq ==                                                 \* mutant
  /\ live' = TRUE /\ buf' = <<>>
  /\ Ask("recent")
  /\ UNCHANGED <<seq, timers>>

\* goLive: cancel the replay, clear the buffer, ask for recent flows.
GoLive ==
  /\ seq' = seq + 1 /\ live' = TRUE /\ buf' = <<>>
  /\ Ask("recent")
  /\ UNCHANGED timers

RunEffect ==
  IF range' = "live" THEN GoLive ELSE Ask("history") /\ UNCHANGED <<view, timers>>

\* The user selects another range or refresh interval; requests already made
\* are not aborted.
Select ==
  /\ acts < MaxActs /\ acts' = acts + 1
  /\ range' \in {"live", "past"}
  /\ RunEffect
  /\ UNCHANGED <<sent, drops, stage, socket>>

\* The refresh interval of a past range.
Poll ==
  /\ range = "past"
  /\ Ask("history")
  /\ UNCHANGED <<env, range, view, timers, stage, socket>>

\* onBrush: the user drags over the timeline, whatever the range.
Brush ==
  /\ Brushing /\ acts < MaxActs /\ acts' = acts + 1
  /\ Ask("history")
  /\ UNCHANGED <<sent, drops, range, view, timers, stage, socket>>

----------------------------------------------------------------------------
(* Answers.                                                                *)

\* mutant: the buffer is not cleared
Replay_KeepBuf(first, last) ==
  /\ live' = FALSE /\ seq' = seq + 1
  /\ timers' = timers \cup {[seq |-> seq + 1, flow |-> f] : f \in first..last}
  /\ UNCHANGED buf

\* replay: gate off live, clear the buffer, one timeout for each flow.
Replay(first, last) ==
  /\ live' = FALSE /\ buf' = <<>> /\ seq' = seq + 1
  /\ timers' = timers \cup {[seq |-> seq + 1, flow |-> f] : f \in first..last}

\* The rows of the window that are stored by now are any of those published.
HistoryAnswer(r) ==
  /\ r.kind = "history"
  /\ \E first \in 1..(sent + 1), last \in 0..sent : Replay(first, last)
  /\ fetches' = fetches \ {r}
  /\ UNCHANGED <<env, range, asked, stage, socket>>

\* goLive's .then: pushes what it got.
RecentAnswer(r) ==
  /\ r.kind = "recent"
  /\ \E ps \in Recents(r) : buf' = Pushed(ps)
  /\ fetches' = fetches \ {r}
  /\ UNCHANGED <<env, range, live, seq, asked, timers, stage, socket>>

\* A request fails: its .catch does nothing.
FetchFails(r) ==
  /\ r.kind # "start"
  /\ fetches' = fetches \ {r}
  /\ UNCHANGED <<env, range, view, asked, timers, stage, socket>>

Fires_Always(t) == TRUE                                           \* mutant
Fires(t) == seq = t.seq

\* A replay timeout; those of one replay fire in the order of their delays.
Timeout(t) ==
  /\ \A u \in timers : u.seq = t.seq => t.flow <= u.flow
  /\ timers' = timers \ {t}
  /\ buf' = IF Fires(t) THEN Pushed(<<[flow |-> t.flow, via |-> "replay", seq |-> t.seq]>>)
                        ELSE buf
  /\ UNCHANGED <<env, range, live, seq, fetches, asked, stage, socket>>

----------------------------------------------------------------------------
(* Start-up, one async function: load the map data, then the config, then  *)
(* the recent flows, then connect.  A failure of any await is caught.      *)

\* The map data is there: what was pushed on provisional paths is dropped.
Loaded ==
  /\ stage = "loading"
  /\ stage' = "config" /\ buf' = <<>>
  /\ UNCHANGED <<env, range, live, seq, fetches, asked, timers, socket>>

AskRecent ==
  /\ stage = "config"
  /\ stage' = "recent"
  /\ fetches' = fetches \cup {[id |-> MaxFetches, kind |-> "start", since |-> sent]}
  /\ UNCHANGED <<env, range, view, asked, timers, socket>>

\* The first recent flows, or none, and then the socket is opened.
StartAnswer(r) ==
  /\ r.kind = "start"
  /\ \/ buf' = buf
     \/ live /\ \E ps \in Recents(r) : buf' = Pushed(ps)
  /\ fetches' = fetches \ {r}
  /\ stage' = "started" /\ ws' = "connecting"
  /\ UNCHANGED <<env, range, live, seq, asked, timers, next>>

----------------------------------------------------------------------------
(* The socket.                                                             *)

\* onopen: the server forwards what it gets from now on.
Open ==
  /\ ws = "connecting"
  /\ ws' = "open" /\ next' = sent + 1
  /\ UNCHANGED <<env, range, view, fetches, asked, timers, stage>>

\* onmessage; a client that lags behind the broadcast misses flows.
Message ==
  /\ ws = "open"
  /\ \E f \in next..sent :
       /\ next' = f + 1
       /\ buf' = IF live THEN Pushed(Particles(f, f, "ws")) ELSE buf
  /\ UNCHANGED <<env, range, live, seq, fetches, asked, timers, stage, ws>>

\* mutant: no reconnect is scheduled
Close_Forget ==
  /\ ws \in {"connecting", "open"}
  /\ drops < MaxDrops /\ drops' = drops + 1
  /\ ws' = "none"
  /\ UNCHANGED <<sent, acts, range, view, fetches, asked, timers, stage, next>>

\* onclose, also of a socket that never opened: connect again in 2 s.
Close ==
  /\ ws \in {"connecting", "open"}
  /\ drops < MaxDrops /\ drops' = drops + 1
  /\ ws' = "waiting"
  /\ UNCHANGED <<sent, acts, range, view, fetches, asked, timers, stage, next>>

Reconnect ==
  /\ ws = "waiting"
  /\ ws' = "connecting"
  /\ UNCHANGED <<env, range, view, fetches, asked, timers, stage, next>>

----------------------------------------------------------------------------
\* The server publishes a flow.
Publish ==
  /\ sent < MaxFlows
  /\ sent' = sent + 1
  /\ UNCHANGED <<acts, drops, range, view, fetches, asked, timers, stage, socket>>

\* The page has just rendered: the start-up is under way and the effect of
\* the default range has run goLive.
Init ==
  /\ sent \in 0..MaxFlows /\ acts = 0 /\ drops = 0
  /\ range = "live" /\ live = TRUE /\ seq = 1 /\ buf = <<>>
  /\ fetches = {[id |-> 0, kind |-> "recent", since |-> sent]} /\ asked = 1
  /\ timers = {} /\ stage = "loading" /\ ws = "none" /\ next = 0

Answer ==
  \E r \in fetches : HistoryAnswer(r) \/ RecentAnswer(r) \/ StartAnswer(r) \/ FetchFails(r)

Next ==
  \/ Select \/ Poll \/ Brush
  \/ Answer
  \/ \E t \in timers : Timeout(t)
  \/ Loaded \/ AskRecent
  \/ Open \/ Message \/ Close \/ Reconnect
  \/ Publish

Spec == Init /\ [][Next]_vars

\* A request is answered or fails in the end, the start-up goes on, an opening
\* socket opens or closes, and setTimeout fires.
Fairness ==
  /\ WF_vars(Answer) /\ WF_vars(Loaded) /\ WF_vars(AskRecent)
  /\ WF_vars(\E t \in timers : Timeout(t))
  /\ WF_vars(Open) /\ WF_vars(Reconnect) /\ WF_vars(Message)

FairSpec == Spec /\ Fairness

----------------------------------------------------------------------------
(* Properties.                                                             *)

Via(w) == {k \in DOMAIN buf : buf[k].via = w}

\* The buffer is bounded and holds flows that were published.
TypeOK ==
  /\ range \in {"live", "past"} /\ live \in BOOLEAN
  /\ Len(buf) <= BufMax
  /\ \A k \in DOMAIN buf : buf[k].flow \in 1..sent /\ buf[k].seq <= seq
  /\ \A t \in timers : t.flow \in 1..sent /\ t.seq <= seq
  /\ ws \in {"none", "connecting", "open", "waiting"}
  /\ ws = "none" <=> stage # "started"

\* Nothing of a replay that was cancelled, by another replay or by going
\* live, is on the map, in whatever order timeouts and answers run
\* (flowStream.ts:185-195, 202).
NoStaleReplay ==
  \A k \in Via("replay") : ~live /\ buf[k].seq = seq

\* The socket's flows stay off the map during playback, those that were on
\* it when the playback began included (flowStream.ts:183-184, 245).
SocketGated == ~live => Via("ws") = {}

\* A replay shows each flow of its window at most once, in the order of
\* receive times, and the socket never shows a flow again, across reconnects
\* (flowStream.ts:187-196, 238-256).
InOrder ==
  \A w \in {"ws", "replay"} :
    \A j, k \in Via(w) : j < k => buf[j].flow < buf[k].flow

\* Once started, the socket comes back after every close (flowStream.ts:252-255).
Reconnects == [](stage = "started" => <>(ws = "open"))

\* "Replay a historical window: gate off live" (flowStream.ts:180, also
\* 146): during playback only flows of the replay are on the map.
PlaybackIsPure == ~live => Via("recent") = {} /\ Via("ws") = {}

\* "Time range: 'live' uses the WebSocket; a look-back window queries history
\* and replays it" (App.tsx:275-276): in the live range, the timeline not
\* brushed, the socket is not gated off.
LiveRangeIsLive == range = "live" => live
=============================================================================
