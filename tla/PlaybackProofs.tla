--------------------------- MODULE PlaybackProofs ---------------------------
(***************************************************************************)
(* Proofs about Playback, for every value of its constants: the buffer is  *)
(* bounded, a cancelled replay leaves nothing behind, the socket is gated  *)
(* off during playback, and flows are shown in order and once.             *)
(***************************************************************************)
EXTENDS Playback, SequenceTheorems, TLAPS

Particle == [flow : Nat, via : {"recent", "ws", "replay"}, seq : Nat]

(***************************************************************************)
(* The strengthening that makes the safety properties inductive.           *)
(***************************************************************************)

\* The types of what TypeOK takes for granted.
Shapes ==
  /\ sent \in Nat /\ seq \in Nat /\ next \in Nat
  /\ ws = "open" => next > 0
  /\ buf \in Seq(Particle)
  /\ \A r \in fetches : r.since \in 0..sent
  /\ \A t \in timers : t \in [seq : Nat, flow : Nat]

\* The start-up makes its request once, and waits for it.
StartOnce ==
  /\ \A r \in fetches : r.kind = "start" => stage = "recent"
  /\ \A q, r \in fetches : q.kind = "start" /\ r.kind = "start" => q = r

\* The timeouts that can still fire belong to a replay that is on.
TimersGated == \A t \in timers : t.seq = seq => ~live

\* What the socket has shown is behind its cursor.
SocketBehind == \A k \in Via("ws") : buf[k].flow < next

\* What the replay has shown is behind its timeouts.
ReplayBehind ==
  \A k \in Via("replay") : \A t \in timers :
    t.seq = seq => buf[k].flow < t.flow

IInv ==
  /\ TypeOK
  /\ Shapes
  /\ StartOnce
  /\ TimersGated
  /\ SocketBehind
  /\ ReplayBehind
  /\ NoStaleReplay
  /\ SocketGated
  /\ InOrder

----------------------------------------------------------------------------
(***************************************************************************)
(* What is pushed.                                                         *)
(***************************************************************************)

\* The buffer after a push: the end of what was there and what came, in that
\* order.
LEMMA PushedIs ==
  ASSUME buf \in Seq(Particle), NEW ps \in Seq(Particle)
  PROVE  /\ Pushed(ps) \in Seq(Particle)
         /\ Len(Pushed(ps)) <= BufMax
         /\ \E d \in Nat : \A k \in 1..Len(Pushed(ps)) :
              /\ k + d \in 1..(Len(buf) + Len(ps))
              /\ Pushed(ps)[k] = IF k + d <= Len(buf) THEN buf[k + d]
                                 ELSE ps[(k + d) - Len(buf)]
<1> DEFINE all == buf \o ps
           m == Most(1, Len(all) - BufMax + 1)
<1>0. BufMax \in Nat \ {0} /\ Len(buf) \in Nat /\ Len(ps) \in Nat
  BY PlaybackAssumption, LenProperties
<1>1. /\ all \in Seq(Particle) /\ Len(all) = Len(buf) + Len(ps)
      /\ \A i \in 1..(Len(buf) + Len(ps)) :
           all[i] = IF i <= Len(buf) THEN buf[i] ELSE ps[i - Len(buf)]
  BY ConcatProperties
<1>2. \A i \in 1..Len(all) : all[i] \in Particle
  BY <1>1, ElementOfSeq
<1>3. m \in Nat \ {0} /\ m >= Len(all) - BufMax + 1 /\ (m = 1 \/ m = Len(all) - BufMax + 1)
  BY <1>0, <1>1 DEF Most
<1> HIDE DEF all, m
<1>4. /\ SubSeq(all, m, Len(all)) \in Seq(Particle)
      /\ Len(SubSeq(all, m, Len(all))) = IF m <= Len(all) THEN Len(all) - m + 1 ELSE 0
      /\ \A i \in 1..(Len(all) - m + 1) : SubSeq(all, m, Len(all))[i] = all[m + i - 1]
  <2>1. \A i \in m..Len(all) : all[i] \in Particle
    BY <1>0, <1>1, <1>2, <1>3
  <2>2. m \in Int /\ Len(all) \in Int
    BY <1>0, <1>1, <1>3
  <2> QED
    BY <2>1, <2>2, SubSeqProperties
<1>5. Pushed(ps) = SubSeq(all, m, Len(all))
  BY DEF Pushed, all, m
<1>6. Len(Pushed(ps)) <= BufMax
  BY <1>0, <1>1, <1>3, <1>4, <1>5
<1> DEFINE d == m - 1
<1>7. d \in Nat /\ m = d + 1
  BY <1>3
<1> HIDE DEF d
<1>8. \A k \in 1..Len(Pushed(ps)) :
        /\ k + d \in 1..(Len(buf) + Len(ps))
        /\ Pushed(ps)[k] = IF k + d <= Len(buf) THEN buf[k + d] ELSE ps[(k + d) - Len(buf)]
  <2> TAKE k \in 1..Len(Pushed(ps))
  <2>0. Len(all) \in Nat
    BY <1>0, <1>1
  <2>1. k \in Nat /\ k >= 1 /\ k <= Len(all) - d
    BY <1>4, <1>5, <1>7, <2>0
  <2>2. m + k - 1 = k + d /\ k + d \in 1..Len(all) /\ k \in 1..(Len(all) - m + 1)
    BY <1>7, <2>0, <2>1
  <2>3. Pushed(ps)[k] = all[k + d]
    BY <1>4, <1>5, <2>2
  <2>4. k + d \in 1..(Len(buf) + Len(ps))
    BY <1>1, <2>2
  <2>5. all[k + d] = IF k + d <= Len(buf) THEN buf[k + d] ELSE ps[(k + d) - Len(buf)]
    BY <1>1, <2>4
  <2> QED
    BY <2>3, <2>4, <2>5
<1> QED
  BY <1>4, <1>5, <1>6, <1>7, <1>8

\* Flows that came one way.
LEMMA ParticlesAre ==
  ASSUME seq \in Nat, NEW i \in Nat, NEW j \in Int,
         NEW w \in {"recent", "ws", "replay"}
  PROVE  /\ Particles(i, j, w) \in Seq(Particle)
         /\ Len(Particles(i, j, w)) = IF i <= j THEN j - i + 1 ELSE 0
         /\ \A k \in 1..Len(Particles(i, j, w)) :
              /\ Particles(i, j, w)[k] = [flow |-> i + k - 1, via |-> w, seq |-> seq]
              /\ i + k - 1 \in i..j
<1> DEFINE n == IF i <= j THEN j - i + 1 ELSE 0
<1>1. n \in Nat /\ 1..(j - i + 1) = 1..n
  OBVIOUS
<1>2. \A k \in 1..n : [flow |-> i + k - 1, via |-> w, seq |-> seq] \in Particle
  BY DEF Particle
<1>3. Particles(i, j, w) = [k \in 1..n |-> [flow |-> i + k - 1, via |-> w, seq |-> seq]]
  BY <1>1 DEF Particles
<1> HIDE DEF n
<1>4. Particles(i, j, w) \in Seq(Particle) /\ Len(Particles(i, j, w)) = n
  <2>1. Particles(i, j, w) \in [1..n -> Particle]
    BY <1>2, <1>3
  <2>2. Particles(i, j, w) \in Seq(Particle)
    BY <1>1, <2>1, SeqDef
  <2>3. 1..Len(Particles(i, j, w)) = 1..n /\ Len(Particles(i, j, w)) \in Nat
    BY <2>1, <2>2, LenProperties
  <2> QED
    BY <1>1, <2>2, <2>3
<1>5. \A k \in 1..n : i + k - 1 \in i..j
  BY DEF n
<1> QED
  BY <1>1, <1>3, <1>4, <1>5 DEF n

----------------------------------------------------------------------------
(***************************************************************************)
(* What the steps do to the buffer and to the timeouts.                    *)
(***************************************************************************)

\* The part of the invariant that is about the buffer.
BufferInv ==
  /\ buf \in Seq(Particle) /\ Len(buf) <= BufMax
  /\ \A k \in DOMAIN buf : buf[k].flow \in 1..sent /\ buf[k].seq <= seq
  /\ SocketBehind
  /\ ReplayBehind
  /\ NoStaleReplay
  /\ SocketGated
  /\ InOrder

\* An empty buffer is as good as any.
LEMMA EmptyBuffer == buf = <<>> => BufferInv
<1> SUFFICES ASSUME buf = <<>> PROVE BufferInv
  OBVIOUS
<1>1. buf \in Seq(Particle) /\ Len(buf) = 0 /\ DOMAIN buf = {}
  BY EmptySeq
<1>2. 0 <= BufMax
  BY PlaybackAssumption
<1> QED
  BY <1>1, <1>2 DEF BufferInv, SocketBehind, ReplayBehind, NoStaleReplay,
                    SocketGated, InOrder, Via

LEMMA EmptiedBuffer == buf' = <<>> => BufferInv'
<1>1. (buf = <<>> => BufferInv)'
  BY EmptyBuffer, PTL
<1> QED
  BY <1>1

\* A step that keeps what is on the map, and adds no timeout of this replay.
LEMMA SameBuffer ==
  ASSUME IInv, buf' = buf, live' = live, seq' = seq, sent' >= sent, sent' \in Nat,
         next' >= next, next' \in Nat,
         \A t \in timers' : t \in timers
  PROVE  BufferInv'
<1>1. DOMAIN buf' = DOMAIN buf
  OBVIOUS
<1>2. \A w : Via(w)' = Via(w)
  BY <1>1 DEF Via
<1>3. \A k \in DOMAIN buf : buf[k].flow \in 1..sent'
  BY DEF IInv, TypeOK, Shapes
<1>4. /\ buf' \in Seq(Particle) /\ Len(buf') <= BufMax
      /\ \A k \in DOMAIN buf' : buf'[k].flow \in 1..sent' /\ buf'[k].seq <= seq'
  BY <1>3 DEF IInv, TypeOK, Shapes
<1>5. SocketBehind'
  <2> SUFFICES ASSUME NEW k \in Via("ws")
               PROVE  buf[k].flow < next'
    BY <1>2 DEF SocketBehind
  <2>1. buf[k].flow < next /\ buf[k].flow \in Int /\ next \in Nat
    BY DEF IInv, SocketBehind, Via, TypeOK, Shapes
  <2> QED
    BY <2>1
<1>6. ReplayBehind'
  BY <1>2 DEF IInv, ReplayBehind
<1>7. NoStaleReplay' /\ SocketGated' /\ InOrder'
  BY <1>2 DEF IInv, NoStaleReplay, SocketGated, InOrder
<1> QED
  BY <1>4, <1>5, <1>6, <1>7 DEF BufferInv

\* What may be pushed: flows of any age that came from /api/recent, or one
\* flow of the socket or of a replay that is newer than those shown.
Pushable(ps) ==
  /\ \A k \in 1..Len(ps) : ps[k].flow \in 1..sent /\ ps[k].seq <= seq
  /\ \/ \A k \in 1..Len(ps) : ps[k].via = "recent"
     \/ /\ Len(ps) = 1 /\ ps[1].via = "ws"
        /\ live /\ next <= ps[1].flow /\ ps[1].flow < next'
     \/ /\ Len(ps) = 1 /\ ps[1].via = "replay"
        /\ ~live /\ ps[1].seq = seq
        /\ \A k \in Via("replay") : buf[k].flow < ps[1].flow
        /\ \A t \in timers' : t.seq = seq => ps[1].flow < t.flow

LEMMA PushedBuffer ==
  ASSUME IInv, NEW ps \in Seq(Particle), Pushable(ps), buf' = Pushed(ps),
         live' = live, seq' = seq, sent' = sent, next' >= next, next' \in Nat,
         \A t \in timers' : t \in timers
  PROVE  BufferInv'
<1>0. /\ buf \in Seq(Particle) /\ sent \in Nat /\ seq \in Nat /\ next \in Nat
      /\ DOMAIN buf = 1..Len(buf) /\ Len(buf) \in Nat /\ Len(ps) \in Nat
      /\ \A k \in 1..Len(buf) : buf[k] \in Particle /\ buf[k].flow \in 1..sent
      /\ \A k \in 1..Len(ps) : ps[k] \in Particle
  BY LenProperties, ElementOfSeq DEF IInv, TypeOK, Shapes
<1>1. /\ buf' \in Seq(Particle) /\ Len(buf') <= BufMax
      /\ \E d \in Nat : \A k \in 1..Len(buf') :
           /\ k + d \in 1..(Len(buf) + Len(ps))
           /\ buf'[k] = IF k + d <= Len(buf) THEN buf[k + d]
                        ELSE ps[(k + d) - Len(buf)]
  BY <1>0, PushedIs, ZenonT(30)
<1>2. PICK d \in Nat : \A k \in 1..Len(buf') :
        /\ k + d \in 1..(Len(buf) + Len(ps))
        /\ buf'[k] = IF k + d <= Len(buf) THEN buf[k + d] ELSE ps[(k + d) - Len(buf)]
  BY <1>1
<1>3. DOMAIN buf' = 1..Len(buf') /\ Len(buf') \in Nat
  BY <1>1, LenProperties
<1> DEFINE Old(k) == k + d \in 1..Len(buf) /\ buf'[k] = buf[k + d]
           New(k) == /\ k + d > Len(buf)
                     /\ (k + d) - Len(buf) \in 1..Len(ps)
                     /\ buf'[k] = ps[(k + d) - Len(buf)]
<1>4. \A k \in DOMAIN buf' : k \in Nat /\ (Old(k) \/ New(k))
  BY <1>0, <1>2, <1>3
<1> HIDE DEF Old, New
<1>5. \A k \in DOMAIN buf' : buf'[k].flow \in 1..sent /\ buf'[k].seq <= seq
  <2> TAKE k \in DOMAIN buf'
  <2>1. CASE Old(k)
    BY <1>0, <2>1 DEF Old, IInv, TypeOK
  <2>2. CASE New(k)
    BY <2>2 DEF New, Pushable
  <2> QED
    BY <1>4, <2>1, <2>2
\* What is new came last, and one at a time if not from /api/recent.
<1>6. ASSUME NEW w \in {"ws", "replay"}, NEW k \in Via(w)', New(k)
      PROVE  /\ Len(ps) = 1 /\ ps[1].via = w /\ buf'[k] = ps[1] /\ k + d = Len(buf) + 1
             /\ \A j \in Via(w)' : j < k => Old(j)
  <2>1. k \in DOMAIN buf' /\ buf'[k].via = w
    BY <1>6 DEF Via
  <2>2. Len(ps) = 1 /\ (k + d) - Len(buf) = 1 /\ buf'[k] = ps[1]
    BY <1>0, <1>4, <1>6, <2>1 DEF New, Pushable
  <2>3. \A j \in Via(w)' : j < k => Old(j)
    BY <1>0, <1>4, <2>1, <2>2 DEF New, Via
  <2> QED
    BY <1>0, <1>4, <2>1, <2>2, <2>3
<1>7. ASSUME NEW w \in {"ws", "replay"}, NEW k \in Via(w)', Old(k)
      PROVE  k + d \in Via(w) /\ buf'[k] = buf[k + d]
  BY <1>0, <1>7 DEF Old, Via
<1>8. SocketBehind'
  <2> SUFFICES ASSUME NEW k \in Via("ws")'
               PROVE  buf'[k].flow < next'
    BY DEF SocketBehind
  <2>1. CASE Old(k)
    <3>1. k + d \in Via("ws") /\ buf'[k] = buf[k + d]
      BY <1>7, <2>1
    <3>2. buf[k + d].flow < next /\ buf[k + d].flow \in Int
      BY <1>0, <3>1 DEF IInv, SocketBehind, Via
    <3> QED
      BY <1>0, <3>1, <3>2
  <2>2. CASE New(k)
    BY <1>6, <2>2 DEF Pushable
  <2> QED
    BY <1>4, <2>1, <2>2 DEF Via
<1>9. ReplayBehind'
  <2> SUFFICES ASSUME NEW k \in Via("replay")', NEW t \in timers', t.seq = seq
               PROVE  buf'[k].flow < t.flow
    BY DEF ReplayBehind
  <2>1. CASE Old(k)
    BY <1>7, <2>1 DEF IInv, ReplayBehind
  <2>2. CASE New(k)
    BY <1>6, <2>2 DEF Pushable
  <2> QED
    BY <1>4, <2>1, <2>2 DEF Via
<1>10. NoStaleReplay'
  <2> SUFFICES ASSUME NEW k \in Via("replay")'
               PROVE  ~live /\ buf'[k].seq = seq
    BY DEF NoStaleReplay
  <2>1. CASE Old(k)
    BY <1>7, <2>1 DEF IInv, NoStaleReplay
  <2>2. CASE New(k)
    BY <1>6, <2>2 DEF Pushable
  <2> QED
    BY <1>4, <2>1, <2>2 DEF Via
<1>11. SocketGated'
  <2> SUFFICES ASSUME ~live, NEW k \in Via("ws")'
               PROVE  FALSE
    BY DEF SocketGated
  <2>1. CASE Old(k)
    BY <1>7, <2>1 DEF IInv, SocketGated
  <2>2. CASE New(k)
    BY <1>6, <2>2 DEF Pushable
  <2> QED
    BY <1>4, <2>1, <2>2 DEF Via
<1>12. InOrder'
  <2> SUFFICES ASSUME NEW w \in {"ws", "replay"},
                      NEW j \in Via(w)', NEW k \in Via(w)', j < k
               PROVE  buf'[j].flow < buf'[k].flow
    BY DEF InOrder
  <2>1. CASE Old(k)
    <3>1. Old(j)
      BY <1>4, <2>1 DEF Old, New, Via
    <3>2. j + d < k + d
      BY <1>4 DEF Via
    <3> QED
      BY <1>7, <2>1, <3>1, <3>2 DEF IInv, InOrder
  <2>2. CASE New(k)
    <3>1. Old(j) /\ buf'[k] = ps[1] /\ ps[1].via = w
      BY <1>6, <2>2
    <3>2. j + d \in Via(w) /\ buf'[j] = buf[j + d]
      BY <1>7, <3>1
    <3>3. CASE w = "ws"
      <4>1. buf[j + d].flow < next /\ buf[j + d].flow \in Int
        BY <1>0, <3>2, <3>3 DEF IInv, SocketBehind, Via
      <4>2. next <= ps[1].flow /\ ps[1].flow \in Int
        BY <1>0, <1>6, <2>2, <3>1, <3>3 DEF Pushable
      <4> QED
        BY <1>0, <3>1, <3>2, <4>1, <4>2
    <3>4. CASE w = "replay"
      BY <1>6, <2>2, <3>1, <3>2, <3>4 DEF Pushable
    <3> QED
      BY <3>3, <3>4
  <2> QED
    BY <1>4, <2>1, <2>2 DEF Via
<1> QED
  BY <1>1, <1>5, <1>8, <1>9, <1>10, <1>11, <1>12 DEF BufferInv

----------------------------------------------------------------------------
(***************************************************************************)
(* The invariant.                                                          *)
(***************************************************************************)

\* What is not about the buffer, in the terms of the variables it is about.
RestInv ==
  /\ range \in {"live", "past"} /\ live \in BOOLEAN
  /\ sent \in Nat /\ seq \in Nat /\ next \in Nat
  /\ ws \in {"none", "connecting", "open", "waiting"}
  /\ ws = "none" <=> stage # "started"
  /\ ws = "open" => next > 0
  /\ \A r \in fetches : r.since \in 0..sent
  /\ StartOnce
  /\ \A t \in timers : /\ t \in [seq : Nat, flow : Nat]
                       /\ t.flow \in 1..sent /\ t.seq <= seq
                       /\ t.seq = seq => ~live

LEMMA IInvParts == IInv <=> BufferInv /\ RestInv
  BY DEF IInv, BufferInv, RestInv, TypeOK, Shapes, TimersGated

LEMMA IInvPartsNext == BufferInv' /\ RestInv' => IInv'
<1>1. (BufferInv /\ RestInv => IInv)'
  BY IInvParts, PTL
<1> QED
  BY <1>1

LEMMA InvInit == Init => IInv
<1> SUFFICES ASSUME Init PROVE IInv
  OBVIOUS
<1>1. sent \in Nat
  BY DEF Init
<1>2. RestInv
  BY <1>1 DEF Init, RestInv, StartOnce
<1> QED
  BY <1>2, EmptyBuffer, IInvParts DEF Init

\* A request made for the range or the brush.
LEMMA AskKeeps ==
  ASSUME RestInv, NEW kind \in {"recent", "history"}, Ask(kind),
         stage' = stage, sent' = sent
  PROVE  (\A r \in fetches' : r.since \in 0..sent') /\ StartOnce'
  BY DEF RestInv, Ask, StartOnce

\* goLive: the timeouts that are left belong to a replay that is over.
LEMMA GoLiveKeeps ==
  ASSUME IInv, GoLive, range' \in {"live", "past"},
         UNCHANGED <<sent, stage, socket>>
  PROVE  IInv'
<1>0. RestInv
  BY IInvParts
<1>1. BufferInv'
  BY EmptiedBuffer DEF GoLive
<1>2. (\A r \in fetches' : r.since \in 0..sent') /\ StartOnce'
  BY <1>0, AskKeeps DEF GoLive
<1>3. RestInv'
  BY <1>0, <1>2 DEF RestInv, GoLive, socket
<1> QED
  BY <1>1, <1>3, IInvPartsNext

\* Steps that leave the map and the timeouts alone.
LEMMA QuietKeeps ==
  ASSUME IInv, UNCHANGED <<view, timers>>, sent' = sent, range' \in {"live", "past"},
         next' >= next, next' \in Nat,
         ws' \in {"none", "connecting", "open", "waiting"},
         ws' = "none" <=> stage' # "started",
         ws' = "open" => next' > 0,
         \A r \in fetches' : r.since \in 0..sent,
         StartOnce'
  PROVE  IInv'
<1>0. RestInv
  BY IInvParts
<1>1. BufferInv'
  <2>1. sent \in Nat /\ next \in Nat
    BY <1>0 DEF RestInv
  <2> QED
    BY <2>1, SameBuffer DEF view
<1>2. RestInv'
  BY <1>0 DEF RestInv, view
<1> QED
  BY <1>1, <1>2, IInvPartsNext

\* Some requests are answered or lost, and no other is made.
LEMMA FewerRequests ==
  ASSUME RestInv, NEW r \in fetches, fetches' = fetches \ {r}, sent' = sent,
         stage' = stage \/ r.kind = "start"
  PROVE  (\A q \in fetches' : q.since \in 0..sent') /\ StartOnce'
  BY DEF RestInv, StartOnce

LEMMA InvStep == IInv /\ [Next]_vars => IInv'
<1> SUFFICES ASSUME IInv, [Next]_vars
             PROVE  IInv'
  OBVIOUS
<1>0. BufferInv /\ RestInv /\ sent \in Nat /\ seq \in Nat /\ next \in Nat
  BY IInvParts DEF RestInv
<1>1. CASE Select
  <2>1. CASE range' = "live"
    BY <1>1, <2>1, GoLiveKeeps DEF Select, RunEffect
  <2>2. CASE range' # "live"
    <3>1. Ask("history") /\ UNCHANGED <<view, timers, sent, stage, socket>>
      BY <1>1, <2>2 DEF Select, RunEffect
    <3>2. (\A r \in fetches' : r.since \in 0..sent') /\ StartOnce'
      BY <1>0, <3>1, AskKeeps
    <3> QED
      BY <1>0, <1>1, <3>1, <3>2, QuietKeeps DEF Select, socket, RestInv
  <2> QED
    BY <2>1, <2>2
<1>2. CASE Poll
  <2>1. (\A r \in fetches' : r.since \in 0..sent') /\ StartOnce'
    BY <1>0, <1>2, AskKeeps DEF Poll, env
  <2> QED
    BY <1>0, <1>2, <2>1, QuietKeeps DEF Poll, env, socket, RestInv
<1>3. CASE Brush
  <2>1. (\A r \in fetches' : r.since \in 0..sent') /\ StartOnce'
    BY <1>0, <1>3, AskKeeps DEF Brush
  <2> QED
    BY <1>0, <1>3, <2>1, QuietKeeps DEF Brush, socket, RestInv
<1>4. ASSUME NEW r \in fetches, HistoryAnswer(r)
      PROVE  IInv'
  <2>1. BufferInv'
    BY <1>4, EmptiedBuffer DEF HistoryAnswer, Replay
  <2>2. /\ live' = FALSE /\ seq' = seq + 1
        /\ \A t \in timers' : \/ t \in timers
                              \/ \E f \in 1..sent : t = [seq |-> seq + 1, flow |-> f]
    BY <1>0, <1>4 DEF HistoryAnswer, Replay
  <2>3. (\A q \in fetches' : q.since \in 0..sent') /\ StartOnce'
    BY <1>0, <1>4, FewerRequests DEF HistoryAnswer, env
  <2>4. \A t \in timers' : /\ t \in [seq : Nat, flow : Nat]
                            /\ t.flow \in 1..sent /\ t.seq <= seq' /\ ~live'
    BY <1>0, <2>2 DEF RestInv
  <2>5. live' \in BOOLEAN
    BY <2>2, Zenon
  <2>6. UNCHANGED <<sent, range, stage, ws, next>>
    BY <1>4 DEF HistoryAnswer, env, socket
  <2>7. RestInv'
    BY <1>0, <2>2, <2>3, <2>4, <2>5, <2>6 DEF RestInv
  <2> QED
    BY <2>1, <2>7, IInvPartsNext
<1>5. ASSUME NEW r \in fetches, NEW ps \in Recents(r), r.since \in 0..sent,
             buf' = Pushed(ps),
             UNCHANGED <<sent, range, live, seq, timers, next>>,
             ws' \in {"none", "connecting", "open", "waiting"},
             ws' = "none" <=> stage' # "started",
             ws' = "open" => next' > 0,
             fetches' = fetches \ {r}, stage' = stage \/ r.kind = "start"
      PROVE  IInv'
  <2>1. PICK s \in r.since..sent : ps = Particles(Most(1, s - RecentMax + 1), s, "recent")
    BY <1>5 DEF Recents
  <2>2. s \in Nat /\ s <= sent /\ Most(1, s - RecentMax + 1) \in Nat \ {0}
    BY <1>0, <1>5, <2>1, PlaybackAssumption DEF Most
  <2>3. /\ ps \in Seq(Particle) /\ Len(ps) \in Nat
        /\ \A k \in 1..Len(ps) : /\ ps[k].via = "recent" /\ ps[k].seq = seq
                                 /\ ps[k].flow \in 1..sent
    <3> DEFINE i == Most(1, s - RecentMax + 1)
    <3>1. i \in Nat \ {0} /\ ps = Particles(i, s, "recent")
      BY <2>1, <2>2
    <3> HIDE DEF i
    <3>2. /\ Particles(i, s, "recent") \in Seq(Particle)
          /\ \A k \in 1..Len(Particles(i, s, "recent")) :
               /\ Particles(i, s, "recent")[k]
                    = [flow |-> i + k - 1, via |-> "recent", seq |-> seq]
               /\ i + k - 1 \in i..s
      <4>1. i \in Nat /\ s \in Int /\ "recent" \in {"recent", "ws", "replay"}
        BY <2>2, <3>1
      <4> QED
        BY <1>0, <4>1, ParticlesAre
    <3>3. i..s \subseteq 1..sent
      BY <1>0, <2>2, <3>1
    <3> QED
      <4>1. ps \in Seq(Particle) /\ Len(ps) \in Nat
        BY <3>1, <3>2, LenProperties
      <4>2. \A k \in 1..Len(ps) :
              /\ ps[k] = [flow |-> i + k - 1, via |-> "recent", seq |-> seq]
              /\ i + k - 1 \in 1..sent
        BY <3>1, <3>2, <3>3
      <4>3. \A k \in 1..Len(ps) :
              ps[k].via = "recent" /\ ps[k].seq = seq /\ ps[k].flow = i + k - 1
        <5> TAKE k \in 1..Len(ps)
        <5>1. ps[k] = [flow |-> i + k - 1, via |-> "recent", seq |-> seq]
          BY <4>2
        <5> QED
          BY <5>1
      <4> QED
        BY <1>0, <4>1, <4>2, <4>3
  <2>4. Pushable(ps)
    BY <1>0, <2>3 DEF Pushable
  <2>5. BufferInv'
    BY <1>0, <1>5, <2>3, <2>4, PushedBuffer
  <2>6. (\A q \in fetches' : q.since \in 0..sent') /\ StartOnce'
    BY <1>0, <1>5, FewerRequests
  <2>7. RestInv'
    BY <1>0, <1>5, <2>6 DEF RestInv
  <2> QED
    BY <2>5, <2>7, IInvPartsNext
<1>6. ASSUME NEW r \in fetches, RecentAnswer(r)
      PROVE  IInv'
  BY <1>0, <1>5, <1>6 DEF RecentAnswer, RestInv, env, socket
<1>7. ASSUME NEW r \in fetches, StartAnswer(r)
      PROVE  IInv'
  <2>1. /\ (\A q \in fetches' : q.since \in 0..sent') /\ StartOnce'
        /\ stage' = "started" /\ ws' = "connecting"
    BY <1>0, <1>7, FewerRequests DEF StartAnswer, env
  <2>2. CASE buf' = buf
    BY <1>0, <1>7, <2>1, <2>2, QuietKeeps DEF StartAnswer, RestInv, env, view
  <2>3. ASSUME NEW ps \in Recents(r), buf' = Pushed(ps)
        PROVE  IInv'
    BY <1>0, <1>5, <1>7, <2>3 DEF StartAnswer, RestInv, env
  <2> QED
    BY <1>7, <2>2, <2>3 DEF StartAnswer
<1>8. ASSUME NEW r \in fetches, FetchFails(r)
      PROVE  IInv'
  <2>1. (\A q \in fetches' : q.since \in 0..sent') /\ StartOnce'
    BY <1>0, <1>8, FewerRequests DEF FetchFails, env
  <2> QED
    BY <1>0, <1>8, <2>1, QuietKeeps DEF FetchFails, RestInv, env, socket
<1>9. ASSUME NEW t \in timers, Timeout(t)
      PROVE  IInv'
  <2>0. /\ t \in [seq : Nat, flow : Nat] /\ t.flow \in 1..sent /\ t.seq <= seq
        /\ \A u \in timers' : u \in timers /\ (u.seq = t.seq => t.flow < u.flow)
    <3>1. \A u \in timers : u \in [seq : Nat, flow : Nat]
      BY <1>0 DEF RestInv
    <3>2. ASSUME NEW u \in timers', u.seq = t.seq
          PROVE  t.flow < u.flow
      <4>1. u \in timers /\ u # t /\ t.flow <= u.flow
        BY <1>9, <3>2 DEF Timeout
      <4>2. u.flow # t.flow
        BY <3>1, <3>2, <4>1
      <4> QED
        BY <3>1, <4>1, <4>2
    <3> QED
      BY <1>0, <1>9, <3>2 DEF RestInv, Timeout
  <2> DEFINE p == [flow |-> t.flow, via |-> "replay", seq |-> t.seq]
  <2>1. BufferInv'
    <3>1. CASE Fires(t)
      <4>1. <<p>> \in Seq(Particle) /\ Len(<<p>>) = 1 /\ <<p>>[1] = p
        BY <2>0 DEF Particle
      <4>2. ~live /\ \A k \in Via("replay") : buf[k].flow < t.flow
        BY <1>0, <3>1 DEF RestInv, BufferInv, ReplayBehind, Fires
      <4>3. Pushable(<<p>>)
        BY <2>0, <3>1, <4>1, <4>2 DEF Pushable, Fires
      <4>4. buf' = Pushed(<<p>>)
        BY <1>9, <3>1 DEF Timeout
      <4> DEFINE ps == <<p>>
      <4>5. ps \in Seq(Particle) /\ Pushable(ps) /\ buf' = Pushed(ps)
        BY <4>1, <4>3, <4>4
      <4> HIDE DEF ps
      <4> QED
        BY <1>0, <1>9, <2>0, <4>5, PushedBuffer DEF Timeout, env, socket
    <3>2. CASE ~Fires(t)
      BY <1>0, <1>9, <3>2, SameBuffer DEF Timeout, env, socket
    <3> QED
      BY <3>1, <3>2
  <2>2. RestInv'
    BY <1>0, <1>9 DEF Timeout, RestInv, StartOnce, env, socket
  <2> QED
    BY <2>1, <2>2, IInvPartsNext
<1>10. CASE Loaded
  <2>1. BufferInv'
    BY <1>10, EmptiedBuffer DEF Loaded
  <2>2. RestInv'
    BY <1>0, <1>10 DEF Loaded, RestInv, StartOnce, env, socket
  <2> QED
    BY <2>1, <2>2, IInvPartsNext
<1>11. CASE AskRecent
  <2>1. (\A r \in fetches' : r.since \in 0..sent) /\ StartOnce'
    BY <1>0, <1>11 DEF AskRecent, RestInv, StartOnce
  <2> QED
    BY <1>0, <1>11, <2>1, QuietKeeps DEF AskRecent, RestInv, env, socket
<1>12. CASE Open
  <2>1. next' = sent + 1 /\ next' \in Nat
    BY <1>0, <1>12 DEF Open
  <2>2. BufferInv'
    <3>1. /\ DOMAIN buf' = DOMAIN buf /\ buf' = buf /\ live' = live /\ seq' = seq
          /\ sent' = sent /\ timers' = timers
      BY <1>12 DEF Open, env, view
    <3>2. \A w : Via(w)' = Via(w)
      BY <3>1 DEF Via
    <3>3. SocketBehind'
      BY <1>0, <2>1, <3>1, <3>2 DEF BufferInv, SocketBehind, Via
    <3> QED
      BY <1>0, <3>1, <3>2, <3>3
         DEF BufferInv, ReplayBehind, NoStaleReplay, SocketGated, InOrder
  <2>3. RestInv'
    BY <1>0, <1>12, <2>1 DEF Open, RestInv, StartOnce, env, view
  <2> QED
    BY <2>2, <2>3, IInvPartsNext
<1>13. CASE Message
  <2>1. PICK f \in next..sent :
          /\ next' = f + 1
          /\ buf' = IF live THEN Pushed(Particles(f, f, "ws")) ELSE buf
    BY <1>13 DEF Message
  <2>2. f \in Nat /\ next' \in Nat /\ next' >= next
    BY <1>0, <2>1
  <2>3. BufferInv'
    <3>1. CASE live
      <4> DEFINE ps == Particles(f, f, "ws")
      <4>1. ps \in Seq(Particle) /\ Len(ps) = 1 /\ ps[1] = [flow |-> f, via |-> "ws", seq |-> seq]
        <5>1. "ws" \in {"recent", "ws", "replay"} /\ f \in Int
          BY <2>2
        <5>2. /\ ps \in Seq(Particle)
              /\ Len(ps) = IF f <= f THEN f - f + 1 ELSE 0
              /\ \A k \in 1..Len(ps) : ps[k] = [flow |-> f + k - 1, via |-> "ws", seq |-> seq]
          BY <1>0, <2>2, <5>1, ParticlesAre
        <5>3. f - f + 1 = 1 /\ f <= f /\ f + 1 - 1 = f
          BY <2>2
        <5> HIDE DEF ps
        <5>4. Len(ps) = 1
          BY <5>2, <5>3
        <5>5. 1 \in 1..Len(ps)
          BY <5>4
        <5> QED
          BY <5>2, <5>3, <5>4, <5>5
      <4>2. f \in 1..sent
        BY <1>0, <1>13, <2>1, <2>2 DEF RestInv, Message
      <4> HIDE DEF ps
      <4>3. Pushable(ps)
        BY <1>0, <2>1, <2>2, <3>1, <4>1, <4>2 DEF Pushable
      <4> QED
        BY <1>0, <1>13, <2>1, <2>2, <3>1, <4>1, <4>3, PushedBuffer DEF Message, env, ps
    <3>2. CASE ~live
      BY <1>0, <1>13, <2>1, <2>2, <3>2, SameBuffer DEF Message, env
    <3> QED
      BY <3>1, <3>2
  <2>4. RestInv'
    BY <1>0, <1>13, <2>2 DEF Message, RestInv, StartOnce, env
  <2> QED
    BY <2>3, <2>4, IInvPartsNext
<1>14. CASE Close
  BY <1>0, <1>14, QuietKeeps DEF Close, RestInv, StartOnce
<1>15. CASE Reconnect
  BY <1>0, <1>15, QuietKeeps DEF Reconnect, RestInv, StartOnce, env
<1>16. CASE Publish
  <2>1. sent' = sent + 1 /\ sent' \in Nat /\ sent' >= sent
    BY <1>0, <1>16 DEF Publish
  <2>2. BufferInv'
    BY <1>0, <1>16, <2>1, SameBuffer DEF Publish, view, socket
  <2>3. RestInv'
    BY <1>0, <1>16, <2>1 DEF Publish, RestInv, StartOnce, view, socket
  <2> QED
    BY <2>2, <2>3, IInvPartsNext
<1>17. CASE UNCHANGED vars
  BY <1>0, <1>17, QuietKeeps DEF vars, env, view, socket, RestInv, StartOnce
<1> QED
  BY <1>1, <1>2, <1>3, <1>4, <1>6, <1>7, <1>8, <1>9, <1>10, <1>11, <1>12, <1>13,
     <1>14, <1>15, <1>16, <1>17 DEF Next, Answer

\* The strengthened invariant holds in every state, whatever the order of
\* answers, timeouts and messages.
THEOREM Invariance == Spec => []IInv
  BY InvInit, InvStep, PTL DEF Spec

----------------------------------------------------------------------------
(***************************************************************************)
(* What follows from it.                                                   *)
(***************************************************************************)

\* The buffer never holds more than MAX_FLOWS particles, all of flows that were
\* published, and the socket exists once the start-up is over
\* (flowStream.ts:93, 159-170).
THEOREM TypeCorrect == Spec => []TypeOK
<1>1. IInv => TypeOK
  BY DEF IInv
<1> QED
  BY <1>1, Invariance, PTL

\* A replay that was cancelled leaves nothing on the map, whatever timeouts and
\* answers come late (flowStream.ts:185-195, 202).
THEOREM CancelledIsGone == Spec => []NoStaleReplay
<1>1. IInv => NoStaleReplay
  BY DEF IInv
<1> QED
  BY <1>1, Invariance, PTL

\* During playback no flow of the socket is on the map (flowStream.ts:183-184,
\* 245).
THEOREM PlaybackGatesSocket == Spec => []SocketGated
<1>1. IInv => SocketGated
  BY DEF IInv
<1> QED
  BY <1>1, Invariance, PTL

\* A replay shows its flows in order and once, and so does the socket, across
\* any number of reconnects (flowStream.ts:187-196, 238-256).
THEOREM ShownInOrder == Spec => []InOrder
<1>1. IInv => InOrder
  BY DEF IInv
<1> QED
  BY <1>1, Invariance, PTL
=============================================================================
