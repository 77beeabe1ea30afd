--------------------------- MODULE LiveFeedProofs ---------------------------
(***************************************************************************)
(* Proofs about LiveFeed, for any set of clients, capacity of the          *)
(* broadcast and number of messages: the aggregator records what is sent,  *)
(* and a client misses a message only when it lags.                        *)
(***************************************************************************)
EXTENDS LiveFeed, SequenceTheorems, FiniteSetTheorems, TLAPS

Flow == [ip : Ips, corrected : BOOLEAN, app : BOOLEAN]
Message == Flow \cup {Garbage}

(***************************************************************************)
(* The strengthening that makes the safety properties inductive.           *)
(***************************************************************************)

\* The types of what TypeOK takes for granted.
Shapes ==
  /\ inbox \in Seq(Payloads)
  /\ work \in [ip : Ips, corrected : BOOLEAN] \cup {Idle}
  /\ fresh \in [Maps -> (SUBSET Ips) \cup {NotLoaded}]
  /\ out \in Seq(Message) /\ counted \in Seq(Flow)
  /\ cursor \in [Clients -> Nat]
  /\ got \in [Clients -> Seq(Nat)]

\* What a client was sent is behind its cursor, just behind it unless the
\* client has lagged since.
Behind ==
  \A c \in Clients :
    /\ cursor[c] = 0 => got[c] = <<>>
    /\ got[c] # <<>> =>
         LET last == got[c][Len(got[c])] IN
         /\ last < cursor[c]
         /\ cursor[c] # last + 1 => Len(out) - last > Cap

IInv ==
  /\ TypeOK
  /\ Shapes
  /\ Behind
  /\ CountedIsSent
  /\ MissesOnlyWhenLagging

----------------------------------------------------------------------------
(***************************************************************************)
(* What was sent and what was recorded.                                    *)
(***************************************************************************)

\* CountedIsSent of any sequence sent and any sequence recorded.
FlowsOf(o) == {k \in DOMAIN o : o[k] # Garbage}
PlaceIn(o, k) == Cardinality({j \in FlowsOf(o) : j <= k})

Tally(o, r) ==
  /\ Len(r) = Cardinality(FlowsOf(o))
  /\ \A k \in FlowsOf(o) : r[PlaceIn(o, k)] = o[k]

LEMMA CountedIsTally == CountedIsSent <=> Tally(out, counted)
BY DEF CountedIsSent, Tally, FlowsOf, PlaceIn

\* The flows among what was sent are finitely many, and each has a place.
LEMMA FlowsFinite ==
  ASSUME NEW o \in Seq(Message)
  PROVE  /\ FlowsOf(o) \subseteq 1..Len(o)
         /\ IsFiniteSet(FlowsOf(o)) /\ Cardinality(FlowsOf(o)) \in Nat
         /\ \A k \in FlowsOf(o) : PlaceIn(o, k) \in 1..Cardinality(FlowsOf(o))
<1>1. Len(o) \in Nat /\ DOMAIN o = 1..Len(o)
  BY LenProperties
<1>2. FlowsOf(o) \subseteq 1..Len(o)
  BY <1>1 DEF FlowsOf
<1>3. IsFiniteSet(1..Len(o))
  BY <1>1, FS_Interval
<1>4. IsFiniteSet(FlowsOf(o))
  BY <1>2, <1>3, FS_Subset
<1>5. Cardinality(FlowsOf(o)) \in Nat
  BY <1>4, FS_CardinalityType
<1>6. ASSUME NEW k \in FlowsOf(o)
      PROVE  PlaceIn(o, k) \in 1..Cardinality(FlowsOf(o))
  <2> DEFINE upTo == {j \in FlowsOf(o) : j <= k}
  <2>1. upTo \in SUBSET FlowsOf(o) /\ k \in upTo
    BY <1>1, <1>2, <1>6
  <2> HIDE DEF upTo
  <2>2. IsFiniteSet(upTo) /\ Cardinality(upTo) <= Cardinality(FlowsOf(o))
    BY <1>4, <2>1, FS_Subset
  <2>3. Cardinality(upTo) \in Nat /\ Cardinality(upTo) # 0
    BY <2>1, <2>2, FS_CardinalityType, FS_EmptySet
  <2>4. PlaceIn(o, k) = Cardinality(upTo)
    BY DEF PlaceIn, upTo
  <2> QED
    BY <1>5, <2>2, <2>3, <2>4
<1> QED
  BY <1>2, <1>4, <1>5, <1>6

\* What did not parse is sent and not recorded.
LEMMA RawKeepsTally ==
  ASSUME NEW o \in Seq(Message), NEW r \in Seq(Flow), Tally(o, r)
  PROVE  Tally(Append(o, Garbage), r)
<1> DEFINE o2 == Append(o, Garbage)
<1>1. /\ Len(o) \in Nat /\ DOMAIN o = 1..Len(o) /\ DOMAIN o2 = 1..(Len(o) + 1)
      /\ o2[Len(o) + 1] = Garbage /\ \A k \in 1..Len(o) : o2[k] = o[k]
  <2>1. Garbage \in Message
    BY DEF Message
  <2> QED
    BY <2>1, LenProperties, AppendProperties
<1> HIDE DEF o2
<1>2. FlowsOf(o2) = FlowsOf(o)
  BY <1>1 DEF FlowsOf
<1>3. \A k : PlaceIn(o2, k) = PlaceIn(o, k)
  BY <1>2 DEF PlaceIn
<1>4. \A k \in FlowsOf(o) : o2[k] = o[k]
  BY <1>1, FlowsFinite
<1>5. Tally(o2, r)
  BY <1>2, <1>3, <1>4 DEF Tally
<1> QED
  BY <1>5 DEF o2

\* A flow is sent and recorded, with the same correction and label.
LEMMA FlowKeepsTally ==
  ASSUME NEW o \in Seq(Message), NEW r \in Seq(Flow), NEW f \in Flow, Tally(o, r)
  PROVE  Tally(Append(o, f), Append(r, f))
<1> DEFINE o2 == Append(o, f)
           r2 == Append(r, f)
           new == Len(o) + 1
           n == Cardinality(FlowsOf(o))
<1>1. /\ Len(o) \in Nat /\ DOMAIN o = 1..Len(o) /\ DOMAIN o2 = 1..new
      /\ o2[new] = f /\ \A k \in 1..Len(o) : o2[k] = o[k]
  <2>1. f \in Message
    BY DEF Message
  <2> QED
    BY <2>1, LenProperties, AppendProperties
<1>2. /\ Len(r) = n /\ n \in Nat /\ Len(r2) = n + 1
      /\ r2[n + 1] = f /\ \A k \in 1..n : r2[k] = r[k]
  BY LenProperties, AppendProperties DEF Tally
<1>3. f # Garbage
  BY FeedAssumption DEF Flow
<1>4. /\ FlowsOf(o) \subseteq 1..Len(o) /\ IsFiniteSet(FlowsOf(o))
      /\ \A k \in FlowsOf(o) : PlaceIn(o, k) \in 1..n
  BY FlowsFinite
<1> HIDE DEF o2, r2, n
<1>5. FlowsOf(o2) = FlowsOf(o) \cup {new}
  BY <1>1, <1>3 DEF FlowsOf
<1>6. new \notin FlowsOf(o)
  BY <1>1, <1>4
<1>7. Cardinality(FlowsOf(o2)) = n + 1
  BY <1>4, <1>5, <1>6, FS_AddElement DEF n
<1>8. \A k \in FlowsOf(o) : PlaceIn(o2, k) = PlaceIn(o, k)
  <2> TAKE k \in FlowsOf(o)
  <2>1. {j \in FlowsOf(o2) : j <= k} = {j \in FlowsOf(o) : j <= k}
    BY <1>1, <1>4, <1>5
  <2> QED
    BY <2>1 DEF PlaceIn
<1>9. PlaceIn(o2, new) = n + 1
  <2>1. {j \in FlowsOf(o2) : j <= new} = FlowsOf(o2)
    BY <1>1, <1>4, <1>5
  <2> QED
    BY <1>7, <2>1 DEF PlaceIn
<1>10. \A k \in FlowsOf(o2) : r2[PlaceIn(o2, k)] = o2[k]
  <2>1. ASSUME NEW k \in FlowsOf(o)
        PROVE  r2[PlaceIn(o2, k)] = o2[k]
    BY <1>1, <1>2, <1>4, <1>8, <2>1 DEF Tally
  <2>2. r2[PlaceIn(o2, new)] = o2[new]
    BY <1>1, <1>2, <1>9
  <2> QED
    BY <1>5, <2>1, <2>2
<1>11. Tally(o2, r2)
  BY <1>2, <1>7, <1>10 DEF Tally
<1> QED
  BY <1>11 DEF o2, r2

----------------------------------------------------------------------------
(***************************************************************************)
(* The invariant.                                                          *)
(***************************************************************************)

\* What the tasks of the API keep, and what each connection does.
ServerInv ==
  /\ table \in [Maps -> SUBSET Ips] /\ map \in [Maps -> SUBSET Ips]
  /\ bridge \in {"down", "up", "ending"}
  /\ bridge = "down" => inbox = <<>> /\ work = Idle
  /\ inbox \in Seq(Payloads)
  /\ work \in [ip : Ips, corrected : BOOLEAN] \cup {Idle}
  /\ fresh \in [Maps -> (SUBSET Ips) \cup {NotLoaded}]
  /\ out \in Seq(Message) /\ counted \in Seq(Flow)
  /\ CountedIsSent

ClientInv ==
  /\ \A c \in Clients : cursor[c] \in 0..(Len(out) + 1)
  /\ cursor \in [Clients -> Nat]
  /\ got \in [Clients -> Seq(Nat)]
  /\ Behind
  /\ MissesOnlyWhenLagging

LEMMA IInvParts == IInv <=> ServerInv /\ ClientInv
  BY DEF IInv, TypeOK, Shapes, ServerInv, ClientInv

LEMMA IInvPartsNext == ServerInv' /\ ClientInv' => IInv'
<1>1. (ServerInv /\ ClientInv => IInv)'
  BY IInvParts, PTL
<1> QED
  BY <1>1

LEMMA TallyNext == Tally(out', counted') => CountedIsSent'
<1>1. (CountedIsSent <=> Tally(out, counted))'
  BY CountedIsTally, PTL
<1> QED
  BY <1>1 DEF Tally, FlowsOf, PlaceIn

LEMMA InvInit == Init => IInv
<1> SUFFICES ASSUME Init PROVE IInv
  OBVIOUS
<1>1. /\ out = <<>> /\ counted = <<>> /\ inbox = <<>> /\ work = Idle
      /\ Len(out) = 0 /\ Len(counted) = 0 /\ DOMAIN out = {}
      /\ out \in Seq(Message) /\ counted \in Seq(Flow)
  BY EmptySeq DEF Init
<1>2. CountedIsSent
  <2>1. FlowsOf(out) = {}
    BY <1>1 DEF FlowsOf
  <2>2. Tally(out, counted)
    BY <1>1, <2>1, FS_EmptySet DEF Tally
  <2> QED
    BY <2>2, CountedIsTally
<1>3. inbox \in Seq(Payloads)
  BY <1>1
<1>4. map \in [Maps -> SUBSET Ips] /\ table \in [Maps -> SUBSET Ips]
  BY DEF Init
<1>5. fresh \in [Maps -> (SUBSET Ips) \cup {NotLoaded}]
  BY DEF Init
<1>6. bridge \in {"down", "up", "ending"}
  BY DEF Init
<1>7. work \in [ip : Ips, corrected : BOOLEAN] \cup {Idle}
  BY <1>1
<1>8. ServerInv
  BY <1>1, <1>2, <1>3, <1>4, <1>5, <1>6, <1>7 DEF ServerInv
<1>9. /\ \A c \in Clients : cursor[c] = 0 /\ got[c] = <<>> /\ Len(got[c]) = 0
      /\ cursor \in [Clients -> Nat] /\ got \in [Clients -> Seq(Nat)]
  BY EmptySeq DEF Init
<1>10. ClientInv
  BY <1>1, <1>9 DEF ClientInv, Behind, MissesOnlyWhenLagging
<1> QED
  BY <1>8, <1>10, IInvParts

\* What is sent does not concern a client until it reads it: the distances
\* to the newest message only grow.
LEMMA ClientsWait ==
  ASSUME ServerInv, ClientInv, UNCHANGED clients,
         Len(out') \in Nat, Len(out') >= Len(out)
  PROVE  ClientInv'
<1>1. Len(out) \in Nat /\ cursor' = cursor /\ got' = got
  BY LenProperties DEF ServerInv, clients
<1>2. /\ \A c \in Clients : cursor'[c] \in 0..(Len(out') + 1)
      /\ cursor' \in [Clients -> Nat] /\ got' \in [Clients -> Seq(Nat)]
  BY <1>1 DEF ClientInv
<1>3. Behind'
  <2> SUFFICES ASSUME NEW c \in Clients, got[c] # <<>>
               PROVE  LET last == got[c][Len(got[c])] IN
                      /\ last < cursor[c]
                      /\ cursor[c] # last + 1 => Len(out') - last > Cap
    BY <1>1 DEF ClientInv, Behind
  <2>1. got[c] \in Seq(Nat) /\ got[c][Len(got[c])] \in Nat
    <3>1. got[c] \in Seq(Nat)
      BY DEF ClientInv
    <3>2. Len(got[c]) \in 1..Len(got[c])
      BY <3>1, LenProperties, EmptySeq
    <3> QED
      BY <3>1, <3>2, ElementOfSeq
  <2> QED
    BY <1>1, <2>1, FeedAssumption DEF ClientInv, Behind
<1>4. MissesOnlyWhenLagging'
  <2> SUFFICES ASSUME NEW c \in Clients, NEW k \in 2..Len(got[c])
               PROVE  /\ got[c][k - 1] < got[c][k]
                      /\ got[c][k] # got[c][k - 1] + 1 => Len(out') - got[c][k - 1] > Cap
    BY <1>1 DEF MissesOnlyWhenLagging
  <2>1. got[c] \in Seq(Nat) /\ Len(got[c]) \in Nat
    BY LenProperties DEF ClientInv
  <2>2. k - 1 \in 1..Len(got[c]) /\ k \in 1..Len(got[c])
    BY <2>1
  <2>3. got[c][k - 1] \in Nat /\ got[c][k] \in Nat
    BY <2>1, <2>2, ElementOfSeq
  <2>4. /\ got[c][k - 1] < got[c][k]
        /\ got[c][k] # got[c][k - 1] + 1 => Len(out) - got[c][k - 1] > Cap
    BY DEF ClientInv, MissesOnlyWhenLagging
  <2> QED
    BY <1>1, <2>3, <2>4, FeedAssumption
<1> QED
  BY <1>2, <1>3, <1>4 DEF ClientInv

\* A step of client c leaves it behind its cursor, and what it was sent in order.
LEMMA ClientSteps ==
  ASSUME ServerInv, ClientInv, out' = out, NEW c \in Clients,
         NEW n \in 0..(Len(out) + 1), cursor' = [cursor EXCEPT ![c] = n],
         NEW s \in Seq(Nat), got' = [got EXCEPT ![c] = s],
         n = 0 => s = <<>>,
         s # <<>> => LET last == s[Len(s)] IN
                     last < n /\ (n # last + 1 => Len(out) - last > Cap),
         \A k \in 2..Len(s) :
           /\ s[k - 1] < s[k]
           /\ s[k] # s[k - 1] + 1 => Len(out) - s[k - 1] > Cap
  PROVE  ClientInv'
<1>1. Len(out) \in Nat
  BY LenProperties DEF ServerInv
<1>2. \A d \in Clients : /\ cursor'[d] = IF d = c THEN n ELSE cursor[d]
                         /\ got'[d] = IF d = c THEN s ELSE got[d]
  BY DEF ClientInv
<1>3. cursor' \in [Clients -> Nat] /\ got' \in [Clients -> Seq(Nat)]
  BY <1>1 DEF ClientInv
<1>4. \A d \in Clients : cursor'[d] \in 0..(Len(out') + 1)
  BY <1>2 DEF ClientInv
<1>5. Behind'
  BY <1>2 DEF ClientInv, Behind
<1>6. MissesOnlyWhenLagging'
  BY <1>2 DEF ClientInv, MissesOnlyWhenLagging
<1> QED
  BY <1>3, <1>4, <1>5, <1>6 DEF ClientInv

LEMMA ClientsKeep ==
  ASSUME ServerInv, ClientInv, out' = out, NEW c \in Clients,
         Connect(c) \/ Forward(c) \/ Lagged(c) \/ Leave(c)
  PROVE  ClientInv'
<1>0. /\ Len(out) \in Nat /\ cursor[c] \in 0..(Len(out) + 1)
      /\ got[c] \in Seq(Nat) /\ Len(got[c]) \in Nat /\ got = [got EXCEPT ![c] = got[c]]
  <2>1. got[c] \in Seq(Nat) /\ got = [got EXCEPT ![c] = got[c]]
    BY DEF ClientInv
  <2> QED
    BY <2>1, LenProperties DEF ServerInv, ClientInv
<1>1. /\ got[c] # <<>> => LET last == got[c][Len(got[c])] IN
         /\ last \in Nat /\ last < cursor[c]
         /\ cursor[c] # last + 1 => Len(out) - last > Cap
      /\ \A k \in 2..Len(got[c]) :
           /\ got[c][k - 1] < got[c][k]
           /\ got[c][k] # got[c][k - 1] + 1 => Len(out) - got[c][k - 1] > Cap
  <2>1. got[c] # <<>> => got[c][Len(got[c])] \in Nat
    <3> SUFFICES ASSUME got[c] # <<>> PROVE got[c][Len(got[c])] \in Nat
      OBVIOUS
    <3>1. Len(got[c]) \in 1..Len(got[c])
      BY <1>0, EmptySeq
    <3> QED
      BY <1>0, <3>1, ElementOfSeq
  <2> QED
    BY <2>1 DEF ClientInv, Behind, MissesOnlyWhenLagging
<1>2. CASE Connect(c)
  <2>1. got[c] = <<>>
    BY <1>2 DEF Connect, ClientInv, Behind
  <2>2. Len(out) + 1 \in 0..(Len(out) + 1)
    BY <1>0
  <2>3. /\ cursor' = [cursor EXCEPT ![c] = Len(out) + 1]
        /\ got' = [got EXCEPT ![c] = got[c]]
    BY <1>0, <1>2 DEF Connect
  <2> QED
    BY <1>0, <1>1, <2>1, <2>2, <2>3, ClientSteps
<1>3. CASE Forward(c)
  <2> DEFINE s == Append(got[c], cursor[c])
             n == cursor[c] + 1
  <2>1. /\ s \in Seq(Nat) /\ Len(s) = Len(got[c]) + 1 /\ s[Len(got[c]) + 1] = cursor[c]
        /\ \A k \in 1..Len(got[c]) : s[k] = got[c][k]
    BY <1>0, AppendProperties
  <2>2. /\ cursor[c] # 0 /\ n \in 0..(Len(out) + 1) /\ n # 0
        /\ cursor' = [cursor EXCEPT ![c] = n] /\ got' = [got EXCEPT ![c] = s]
    BY <1>0, <1>3 DEF Forward, ClientInv
  <2> HIDE DEF s
  <2>3. LET last == s[Len(s)] IN last < n /\ (n # last + 1 => Len(out) - last > Cap)
    BY <1>0, <2>1
  <2>4. ASSUME NEW k \in 2..Len(s)
        PROVE  /\ s[k - 1] < s[k]
               /\ s[k] # s[k - 1] + 1 => Len(out) - s[k - 1] > Cap
    <3>1. CASE k \in 2..Len(got[c])
      <4>0. k - 1 \in 1..Len(got[c]) /\ k \in 1..Len(got[c])
        BY <1>0, <3>1
      <4>1. s[k - 1] = got[c][k - 1] /\ s[k] = got[c][k]
        BY <2>1, <4>0
      <4> QED
        BY <1>1, <3>1, <4>1
    <3>2. CASE k = Len(got[c]) + 1
      <4>1. got[c] # <<>>
        BY <1>0, <2>1, <2>4, <3>2, EmptySeq
      <4>2. s[k - 1] = got[c][Len(got[c])] /\ s[k] = cursor[c]
        <5>1. k - 1 = Len(got[c]) /\ Len(got[c]) \in 1..Len(got[c])
          BY <1>0, <2>1, <2>4, <3>2
        <5> QED
          BY <2>1, <3>2, <5>1
      <4> QED
        BY <1>1, <4>1, <4>2
    <3> QED
      BY <1>0, <2>1, <2>4, <3>1, <3>2
  <2> HIDE DEF n
  <2> QED
    BY <2>1, <2>2, <2>3, <2>4, ClientSteps
<1>4. CASE Lagged(c)
  <2>1. Oldest \in 0..(Len(out) + 1) /\ Oldest # 0 /\ cursor[c] < Oldest
    BY <1>0, <1>4, FeedAssumption DEF Lagged, Oldest
  <2>2. cursor' = [cursor EXCEPT ![c] = Oldest] /\ got' = [got EXCEPT ![c] = got[c]]
    BY <1>0, <1>4 DEF Lagged
  <2>3. got[c] # <<>> =>
          LET last == got[c][Len(got[c])] IN
          last < Oldest /\ (Oldest # last + 1 => Len(out) - last > Cap)
    BY <1>0, <1>1, <2>1, FeedAssumption, SMTT(30) DEF Oldest
  <2> QED
    BY <1>0, <1>1, <2>1, <2>2, <2>3, ClientSteps
<1>5. CASE Leave(c)
  <2>1. 0 \in 0..(Len(out) + 1) /\ <<>> \in Seq(Nat) /\ Len(<<>>) = 0
    BY <1>0, EmptySeq
  <2>2. cursor' = [cursor EXCEPT ![c] = 0] /\ got' = [got EXCEPT ![c] = <<>>]
    BY <1>5 DEF Leave
  <2> DEFINE none == <<>>
  <2>3. /\ none \in Seq(Nat) /\ none = <<>> /\ got' = [got EXCEPT ![c] = none]
        /\ \A k \in 2..Len(none) : FALSE
    BY <2>1, <2>2
  <2> HIDE DEF none
  <2> QED
    BY <2>1, <2>2, <2>3, ClientSteps
<1> QED
  BY <1>2, <1>3, <1>4, <1>5

\* Steps that neither send nor record.
LEMMA NothingSent ==
  ASSUME ServerInv, feed' = feed
  PROVE  /\ out' \in Seq(Message) /\ counted' \in Seq(Flow) /\ CountedIsSent'
         /\ out' = out /\ Len(out') \in Nat /\ Len(out') >= Len(out)
<1>1. out' = out /\ counted' = counted
  BY DEF feed
<1>2. CountedIsSent'
  BY <1>1, Zenon DEF ServerInv, CountedIsSent
<1>3. out \in Seq(Message) /\ counted \in Seq(Flow)
  BY Zenon DEF ServerInv
<1>4. Len(out) \in Nat
  BY <1>3, LenProperties
<1> QED
  BY <1>1, <1>2, <1>3, <1>4

LEMMA InvStep == IInv /\ [Next]_vars => IInv'
<1> SUFFICES ASSUME IInv, [Next]_vars
             PROVE  IInv'
  OBVIOUS
<1>0. ServerInv /\ ClientInv
  BY IInvParts
<1>1. ASSUME NEW p \in Payloads, Publish(p)
      PROVE  IInv'
  <2>1. inbox' \in Seq(Payloads)
    BY <1>0, <1>1, AppendProperties DEF Publish, ServerInv
  <2>2. ServerInv'
    BY <1>0, <1>1, <2>1, NothingSent DEF Publish, ServerInv, refresh
  <2> QED
    BY <1>0, <1>1, <2>2, NothingSent, ClientsWait, IInvPartsNext DEF Publish
<1>2. CASE Disconnect
  <2>1. inbox' \in Seq(Payloads)
    <3>1. PICK n \in 0..Len(inbox) : inbox' = SubSeq(inbox, 1, n)
      BY <1>2 DEF Disconnect
    <3>2. inbox \in Seq(Payloads) /\ Len(inbox) \in Nat
      BY <1>0, LenProperties DEF ServerInv
    <3>3. \A i \in 1..n : inbox[i] \in Payloads
      BY <3>1, <3>2, ElementOfSeq
    <3> QED
      BY <3>1, <3>2, <3>3, SubSeqProperties
  <2>2. ServerInv'
    BY <1>0, <1>2, <2>1, NothingSent DEF Disconnect, ServerInv, refresh
  <2> QED
    BY <1>0, <1>2, <2>2, NothingSent, ClientsWait, IInvPartsNext DEF Disconnect
<1>3. CASE Subscribe
  <2>1. ServerInv'
    BY <1>0, <1>3, NothingSent DEF Subscribe, ServerInv, refresh
  <2> QED
    BY <1>0, <1>3, <2>1, NothingSent, ClientsWait, IInvPartsNext DEF Subscribe
<1>4. CASE Ended
  <2>1. ServerInv'
    BY <1>0, <1>4, NothingSent DEF Ended, ServerInv, refresh
  <2> QED
    BY <1>0, <1>4, <2>1, NothingSent, ClientsWait, IInvPartsNext DEF Ended
<1>5. CASE Take
  <2>1. /\ inbox' \in Seq(Payloads) /\ Head(inbox) \in Ips
    <3>1. Head(inbox) \in Payloads /\ Tail(inbox) \in Seq(Payloads)
      BY <1>0, <1>5, HeadTailProperties DEF Take, ServerInv
    <3> QED
      BY <1>5, <3>1 DEF Take
  <2>2. work' \in [ip : Ips, corrected : BOOLEAN] \cup {Idle}
    BY <1>5, <2>1 DEF Take
  <2>3. bridge' # "down"
    BY <1>0, <1>5 DEF Take, ServerInv
  <2>4. ServerInv'
    BY <1>0, <1>5, <2>1, <2>2, <2>3, NothingSent DEF Take, ServerInv, refresh
  <2> QED
    BY <1>0, <1>5, <2>4, NothingSent, ClientsWait, IInvPartsNext DEF Take
<1>6. CASE Send
  <2> DEFINE f == Stamp(work)
  <2>1. f \in Flow
    BY <1>0, <1>6 DEF Send, ServerInv, Stamp, Flow
  <2>2. out' = Append(out, f) /\ counted' = Append(counted, f)
    BY <1>6 DEF Send, Counted
  <2> HIDE DEF f
  <2>3. /\ out' \in Seq(Message) /\ counted' \in Seq(Flow)
        /\ Len(out) \in Nat /\ Len(out') = Len(out) + 1
    BY <1>0, <2>1, <2>2, AppendProperties, LenProperties DEF ServerInv, Message
  <2>4. CountedIsSent'
    <3>1. Tally(Append(out, f), Append(counted, f))
      BY <1>0, <2>1, FlowKeepsTally, CountedIsTally DEF ServerInv
    <3> QED
      BY <2>2, <3>1, TallyNext
  <2>5. work' \in [ip : Ips, corrected : BOOLEAN] \cup {Idle} /\ work' = Idle
    BY <1>6 DEF Send
  <2>6. ServerInv'
    BY <1>0, <1>6, <2>3, <2>4, <2>5 DEF Send, ServerInv, refresh
  <2>7. ClientInv'
    BY <1>0, <1>6, <2>3, ClientsWait DEF Send
  <2> QED
    BY <2>6, <2>7, IInvPartsNext
<1>7. CASE SendRaw
  <2>1. inbox' \in Seq(Payloads)
    BY <1>0, <1>7, HeadTailProperties DEF SendRaw, ServerInv
  <2>2. /\ out' \in Seq(Message) /\ Len(out) \in Nat /\ Len(out') = Len(out) + 1
    BY <1>0, <1>7, AppendProperties, LenProperties DEF SendRaw, ServerInv, Message
  <2>3. CountedIsSent'
    <3>1. Tally(Append(out, Garbage), counted)
      BY <1>0, RawKeepsTally, CountedIsTally DEF ServerInv
    <3> QED
      BY <1>7, <3>1, TallyNext DEF SendRaw
  <2>4. bridge' # "down"
    BY <1>0, <1>7 DEF SendRaw, ServerInv
  <2>5. ServerInv'
    BY <1>0, <1>7, <2>1, <2>2, <2>3, <2>4 DEF SendRaw, ServerInv, refresh
  <2>6. ClientInv'
    BY <1>0, <1>7, <2>2, ClientsWait DEF SendRaw
  <2> QED
    BY <2>5, <2>6, IInvPartsNext
<1>8. CASE Drop
  <2>1. inbox' \in Seq(Payloads) /\ bridge' # "down"
    BY <1>0, <1>8, HeadTailProperties DEF Drop, ServerInv
  <2>2. ServerInv'
    BY <1>0, <1>8, <2>1, NothingSent DEF Drop, ServerInv, refresh
  <2> QED
    BY <1>0, <1>8, <2>2, NothingSent, ClientsWait, IInvPartsNext DEF Drop
<1>9. ASSUME NEW c \in Clients, Connect(c) \/ Forward(c) \/ Lagged(c) \/ Leave(c)
      PROVE  IInv'
  <2>1. UNCHANGED <<refresh, bridge, inbox, work, feed>>
    BY <1>9 DEF Connect, Forward, Lagged, Leave
  <2>2. ServerInv'
    BY <1>0, <2>1, NothingSent DEF ServerInv, refresh
  <2> QED
    BY <1>0, <1>9, <2>1, <2>2, NothingSent, ClientsKeep, IInvPartsNext
<1>10. ASSUME NEW m \in Maps, Load(m) \/ LoadFails(m)
      PROVE  IInv'
  <2>1. PICK S \in SUBSET Ips : fresh' = [fresh EXCEPT ![m] = S]
    BY <1>0, <1>10 DEF Load, LoadFails, ServerInv
  <2>2. fresh' \in [Maps -> (SUBSET Ips) \cup {NotLoaded}]
    BY <1>0, <2>1 DEF ServerInv
  <2>3. UNCHANGED <<table, map, bridge, inbox, work, feed, clients>>
    BY <1>10 DEF Load, LoadFails
  <2>4. ServerInv'
    BY <1>0, <2>2, <2>3, NothingSent DEF ServerInv
  <2> QED
    BY <1>0, <2>3, <2>4, NothingSent, ClientsWait, IInvPartsNext
<1>11. ASSUME NEW m \in Maps, Store(m)
       PROVE  IInv'
  <2>1. fresh[m] \in SUBSET Ips
    BY <1>0, <1>11 DEF Store, ServerInv
  <2>2. /\ map' \in [Maps -> SUBSET Ips]
        /\ fresh' \in [Maps -> (SUBSET Ips) \cup {NotLoaded}]
    BY <1>0, <1>11, <2>1 DEF Store, Stored, ServerInv
  <2>3. ServerInv'
    BY <1>0, <1>11, <2>2, NothingSent DEF Store, ServerInv
  <2> QED
    BY <1>0, <1>11, <2>3, NothingSent, ClientsWait, IInvPartsNext DEF Store
<1>12. ASSUME NEW m \in Maps, Edit(m)
       PROVE  IInv'
  <2>1. table' \in [Maps -> SUBSET Ips]
    BY <1>0, <1>12 DEF Edit, ServerInv
  <2>2. ServerInv'
    BY <1>0, <1>12, <2>1, NothingSent DEF Edit, ServerInv
  <2> QED
    BY <1>0, <1>12, <2>2, NothingSent, ClientsWait, IInvPartsNext DEF Edit
<1>13. CASE UNCHANGED vars
  <2>1. ServerInv'
    BY <1>0, <1>13, NothingSent DEF vars, ServerInv, refresh
  <2> QED
    BY <1>0, <1>13, <2>1, NothingSent, ClientsWait, IInvPartsNext DEF vars
<1> QED
  BY <1>1, <1>2, <1>3, <1>4, <1>5, <1>6, <1>7, <1>8, <1>9, <1>10, <1>11, <1>12, <1>13
  DEF Next, Bridge, Reload

----------------------------------------------------------------------------
(***************************************************************************)
(* The theorems.                                                           *)
(***************************************************************************)

\* Every reachable state satisfies the strengthening.
THEOREM Invariance == Spec => []IInv
  BY InvInit, InvStep, PTL DEF Spec

\* The stores hold what they should, and no cursor is past the newest message.
THEOREM TypeCorrect == Spec => []TypeOK
<1>1. IInv => TypeOK
  BY DEF IInv
<1> QED
  BY <1>1, Invariance, PTL

\* Whatever fails or reloads between the reads of the two maps, the aggregator
\* has recorded exactly the flows that were sent, in their order and as they
\* were sent (main.rs:309-321).
THEOREM PanelsAgree == Spec => []CountedIsSent
<1>1. IInv => CountedIsSent
  BY DEF IInv
<1> QED
  BY <1>1, Invariance, PTL

\* However far behind a client falls and however often it comes back, it is
\* sent messages in order and once, and misses one only when the broadcast
\* had dropped it (main.rs:341-353).
THEOREM ClientsInOrder == Spec => []MissesOnlyWhenLagging
<1>1. IInv => MissesOnlyWhenLagging
  BY DEF IInv
<1> QED
  BY <1>1, Invariance, PTL
=============================================================================
