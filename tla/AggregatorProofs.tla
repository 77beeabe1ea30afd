-------------------------- MODULE AggregatorProofs --------------------------
(***************************************************************************)
(* Proofs about Aggregator for a ring of any size: the cap on remote       *)
(* peers; that the ring with its moving cursor implements the sliding      *)
(* window; and that what it adds up is what the history of flows says.     *)
(***************************************************************************)
EXTENDS Aggregator, BasicTheorems, SequenceTheorems, FiniteSetTheorems, TLAPS

----------------------------------------------------------------------------
(***************************************************************************)
(* Arithmetic of the ring.                                                 *)
(***************************************************************************)

\* The remainder of a number below twice the modulus.
LEMMA ModOnce ==
  ASSUME NEW n \in Nat \ {0}, NEW x \in 0..(2 * n - 1)
  PROVE  x % n = IF x < n THEN x ELSE x - n
  OBVIOUS

\* The slot of the bucket that is a seconds old when the cursor is at c.
Slot(c, a) == (c + N - a) % N

\* Where the cursor is next, and where the bucket of each age is.
LEMMA SlotArithmetic ==
  ASSUME NEW c \in Slots, NEW a \in Slots
  PROVE  /\ (c + 1) % N = IF c = N - 1 THEN 0 ELSE c + 1
         /\ Slot(c, a) = IF a <= c THEN c - a ELSE c + N - a
         /\ Slot(c, a) \in Slots
         /\ Slot(c, a) = c <=> a = 0
<1>1. N \in Nat \ {0} /\ c \in 0..(N - 1) /\ a \in 0..(N - 1)
  BY RingAssumption DEF Slots
<1>2. (c + 1) % N = IF c = N - 1 THEN 0 ELSE c + 1
  BY <1>1
<1>3. (c + N - a) % N = IF a <= c THEN c - a ELSE c + N - a
  <2> DEFINE x == c + N - a
  <2>1. x \in 0..(2 * N - 1)
    BY <1>1
  <2>2. x % N = IF x < N THEN x ELSE x - N
    <3> HIDE DEF x
    <3> QED
      BY <1>1, <2>1, ModOnce
  <2> QED
    BY <1>1, <2>2
<1>4. Slot(c, a) \in Slots /\ (Slot(c, a) = c <=> a = 0)
  <2>1. Slot(c, a) = IF a <= c THEN c - a ELSE c + N - a
    BY <1>3 DEF Slot
  <2> QED
    BY <1>1, <2>1 DEF Slots
<1> QED
  BY <1>2, <1>3, <1>4 DEF Slot

----------------------------------------------------------------------------
(***************************************************************************)
(* The ring implements the window.                                         *)
(***************************************************************************)

\* The cursor stays in the ring and the ring keeps its slots.
RingInv == cur \in Slots /\ ring = [s \in Slots |-> ring[s]]

LEMMA RingInvariant == Spec => []RingInv
<1>0. 0 \in Slots
  BY RingAssumption DEF Slots
<1>1. Init => RingInv
  BY <1>0 DEF Init, RingInv
<1>2. RingInv /\ [Next]_vars => RingInv'
  <2> SUFFICES ASSUME RingInv, [Next]_vars
               PROVE  RingInv'
    OBVIOUS
  <2>1. CASE Tick
    <3>1. (cur + 1) % N \in Slots
      BY SlotArithmetic, RingAssumption DEF RingInv, Slots
    <3> QED
      BY <2>1, <3>1 DEF Tick, Rolled, RingInv
  <2>2. ASSUME NEW f \in Flows, Record(f)
        PROVE  RingInv'
    BY <2>2 DEF Record, RingInv
  <2>3. CASE UNCHANGED vars
    BY <2>3 DEF vars, RingInv
  <2> QED
    BY <2>1, <2>2, <2>3 DEF Next
<1> QED
  BY <1>1, <1>2, PTL DEF Spec

\* The window folds flows into buckets as the ring does.
LEMMA SameBuckets ==
  /\ W!EmptyBucket = EmptyBucket
  /\ \A b, f : W!Folded(b, f) = Folded(b, f)
<1>1. W!EmptyBucket = EmptyBucket
  BY DEF W!EmptyBucket, EmptyBucket, W!Zero, Zero, W!Empty, Empty
<1>2. \A f : W!Info(f) = Info(f) /\ W!LanHosts(f) = LanHosts(f) /\ W!Peers(f) = Peers(f)
  BY DEF W!Info, Info, W!Incoming, Incoming, W!LanHosts, LanHosts,
         W!Peers, Peers, W!Internal, Internal
<1>3. \A x, K, d : W!Bump(x, K, d) = Bump(x, K, d)
  BY DEF W!Plus, Plus, W!Bump, Bump, W!At, At, W!Zero, Zero
<1>4. \A b, f : W!Admitted(b, f) = Admitted(b, f)
  <2> TAKE b, f
  <2>1. \A p : p \in W!Admitted(b, f) <=> p \in Admitted(b, f)
    BY <1>2 DEF W!Admitted, Admitted, W!Cardinality, Cardinality
  <2> QED
    BY <2>1
<1>5. \A c, A : W!Countries(c, A) = Countries(c, A)
  BY DEF W!Countries, Countries
<1>6. \A d, e : W!Plus(d, e) = Plus(d, e)
  BY DEF W!Plus, Plus
<1>7. \A f, p : W!Label(f, p) = Label(f, p)
  BY DEF W!Label, Label
<1>8. ASSUME NEW b, NEW f
      PROVE  W!Folded(b, f) = Folded(b, f)
  <2>1. {<<W!Label(f, p), p.country>> : p \in W!Peers(f)}
          = {<<Label(f, p), p.country>> : p \in Peers(f)}
    BY <1>2, <1>7
  <2> QED
    BY <1>2, <1>3, <1>4, <1>5, <1>6, <2>1 DEF W!Folded, Folded
<1> QED
  BY <1>1, <1>8

\* A tick ages every bucket by a second.
LEMMA TickAges ==
  ASSUME RingInv, Tick, NEW a \in Slots
  PROVE  /\ a # 0 => a - 1 \in Slots
         /\ ring'[Slot(cur', a)] = IF a = 0 THEN EmptyBucket ELSE ring[Slot(cur, a - 1)]
<1>1. /\ cur \in Slots /\ N \in Nat \ {0} /\ Slots = 0..(N - 1)
      /\ ring = [s \in Slots |-> ring[s]]
  BY RingAssumption DEF RingInv, Slots
<1>2. cur' = IF cur = N - 1 THEN 0 ELSE cur + 1
  BY <1>1, SlotArithmetic DEF Tick
<1>3. cur' \in Slots
  BY <1>1, <1>2
<1>4. Slot(cur', a) = IF a <= cur' THEN cur' - a ELSE cur' + N - a
  BY <1>3, SlotArithmetic
<1>5. CASE a = 0
  <2>1. Slot(cur', a) = cur'
    BY <1>1, <1>3, <1>4, <1>5
  <2>2. ring'[cur'] = EmptyBucket
    BY <1>1, <1>3 DEF Tick, Rolled
  <2> QED
    BY <1>5, <2>1, <2>2
<1>6. CASE a # 0
  <2>1. a - 1 \in Slots
    BY <1>1, <1>6
  <2>2. Slot(cur, a - 1) = IF a - 1 <= cur THEN cur - (a - 1) ELSE cur + N - (a - 1)
    BY <1>1, <2>1, SlotArithmetic
  <2>3. Slot(cur', a) = Slot(cur, a - 1)
    BY <1>1, <1>2, <1>4, <1>6, <2>1, <2>2
  <2>4. Slot(cur', a) \in Slots /\ Slot(cur', a) # cur'
    BY <1>1, <1>3, <1>4, <1>6
  <2>5. ring'[Slot(cur', a)] = ring[Slot(cur', a)]
    BY <1>1, <2>4 DEF Tick, Rolled
  <2> QED
    BY <1>6, <2>1, <2>3, <2>5
<1> QED
  BY <1>5, <1>6

\* A flow is folded into the youngest bucket.
LEMMA RecordYoungest ==
  ASSUME RingInv, NEW f \in Flows, Record(f), NEW a \in Slots
  PROVE  ring'[Slot(cur', a)] =
           IF a = 0 THEN Folded(ring[Slot(cur, 0)], f) ELSE ring[Slot(cur, a)]
<1>1. /\ cur \in Slots /\ 0 \in Slots /\ ring = [s \in Slots |-> ring[s]]
  BY RingAssumption DEF RingInv, Slots
<1>2. cur' = cur /\ ring' = [ring EXCEPT ![cur] = Folded(ring[cur], f)]
  BY DEF Record
<1>3. /\ Slot(cur, 0) = cur /\ Slot(cur, a) \in Slots
      /\ a # 0 => Slot(cur, a) # cur
  BY <1>1, SlotArithmetic
<1>4. CASE a = 0
  BY <1>1, <1>2, <1>3, <1>4
<1>5. CASE a # 0
  BY <1>1, <1>2, <1>3, <1>5
<1> QED
  BY <1>4, <1>5

\* Whatever the size of the ring, recording a flow is recording it in the
\* youngest bucket and a tick ages every bucket by one second: the slot that
\* is cleared is the one that held the oldest (aggregator.rs:83-97).
THEOREM RingIsWindow == Spec => RefinesSlidingWindow
<1> DEFINE aged == [a \in Slots |-> ring[Slot(cur, a)]]
<1>1. Init => W!Init
  <2> SUFFICES ASSUME Init
               PROVE  \A a \in Slots : ring[Slot(cur, a)] = EmptyBucket
    BY SameBuckets DEF W!Init, W!Ages, Slots, Slot
  <2> TAKE a \in Slots
  <2>1. cur \in Slots
    BY RingAssumption DEF Init, Slots
  <2>2. Slot(cur, a) \in Slots
    BY <2>1, SlotArithmetic
  <2> QED
    BY <2>2 DEF Init
<1>2. ASSUME RingInv, [Next]_vars
      PROVE  [W!Next]_aged
  <2>0. /\ cur \in Slots /\ N \in Nat \ {0} /\ Slots = 0..(N - 1)
        /\ ring = [s \in Slots |-> ring[s]]
    BY <1>2, RingAssumption DEF RingInv, Slots
  <2>1. CASE Tick
    <3>3. \A a \in Slots : ring'[Slot(cur', a)]
                             = IF a = 0 THEN EmptyBucket ELSE aged[a - 1]
      BY <1>2, <2>1, TickAges
    <3>4. aged' = [a \in Slots |-> IF a = 0 THEN EmptyBucket ELSE aged[a - 1]]
      BY <3>3
    <3>5. W!Tick
      BY <3>4, SameBuckets DEF W!Tick, W!Ages, Slots, Slot
    <3> QED
      BY <3>5 DEF W!Next
  <2>2. ASSUME NEW f \in Flows, Record(f)
        PROVE  W!Next
    <3>2. \A a \in Slots : ring'[Slot(cur', a)]
                             = IF a = 0 THEN Folded(aged[0], f) ELSE aged[a]
      BY <1>2, <2>0, <2>2, RecordYoungest
    <3>3. aged' = [aged EXCEPT ![0] = Folded(aged[0], f)]
      BY <3>2
    <3>4. W!Record(f)
      BY <3>3, SameBuckets DEF W!Record, Slot
    <3> QED
      BY <3>4 DEF W!Next
  <2>3. CASE UNCHANGED vars
    BY <2>3 DEF vars, Slot
  <2> QED
    BY <1>2, <2>1, <2>2, <2>3 DEF Next
<1> QED
  <2>1. RingInv /\ [Next]_vars => [W!Next]_[a \in Slots |-> ring[(cur + N - a) % N]]
    BY <1>2 DEF Slot
  <2> QED
    BY <1>1, <2>1, RingInvariant, PTL DEF Spec, RefinesSlidingWindow, W!Spec

----------------------------------------------------------------------------
(***************************************************************************)
(* The cap on remote peers.                                                *)
(***************************************************************************)

\* A bucket within the cap, its two peer maps in step.
Capped(b) ==
  /\ IsFiniteSet(DOMAIN b.dst)
  /\ Cardinality(DOMAIN b.dst) <= DstCap
  /\ DOMAIN b.dstCountry = DOMAIN b.dst

\* A flow adds at most one peer, and none that is new to a full bucket.
LEMMA FoldedCapped ==
  ASSUME NEW b, NEW f, Capped(b)
  PROVE  Capped(Folded(b, f))
<1> DEFINE A == Admitted(b, f)
           K == {p.ip : p \in A}
<1>1. CASE f.bytes = 0
  BY <1>1 DEF Folded
<1>2. CASE f.bytes # 0
  <2>1. /\ DOMAIN Folded(b, f).dst = DOMAIN b.dst \cup K
        /\ DOMAIN Folded(b, f).dstCountry = DOMAIN b.dst \cup K
    BY <1>2 DEF Folded, Bump, Countries, Capped
  <2>2. \E e : Peers(f) \subseteq {e}
    BY DEF Peers
  <2>3. PICK e : A \subseteq {e}
    BY <2>2 DEF Admitted
  <2>4. CASE A = {}
    BY <2>1, <2>4 DEF Capped
  <2>5. CASE A = {e}
    <3>1. K = {e.ip}
      BY <2>5
    <3>2. Cardinality(DOMAIN b.dst) < DstCap \/ e.ip \in DOMAIN b.dst
      BY <2>5 DEF Admitted
    <3>3. /\ IsFiniteSet(DOMAIN b.dst \cup {e.ip})
          /\ Cardinality(DOMAIN b.dst \cup {e.ip})
               = IF e.ip \in DOMAIN b.dst THEN Cardinality(DOMAIN b.dst)
                                          ELSE Cardinality(DOMAIN b.dst) + 1
      BY FS_AddElement DEF Capped
    <3>4. Cardinality(DOMAIN b.dst) \in Nat
      BY FS_CardinalityType DEF Capped
    <3>5. Cardinality(DOMAIN b.dst \cup {e.ip}) <= DstCap
      BY <3>2, <3>3, <3>4, DstCapAssumption DEF Capped
    <3> QED
      BY <2>1, <3>1, <3>3, <3>5 DEF Capped
  <2> QED
    BY <2>3, <2>4, <2>5
<1> QED
  BY <1>1, <1>2

\* No second ever holds more than DST_CAP remote peers, whatever the flows,
\* and each of them has its bytes and its country (aggregator.rs:153-163).
THEOREM CapHolds == Spec => []TypeOK
<1> DEFINE Inv == RingInv /\ \A s \in Slots : Capped(ring[s])
<1>1. Capped(EmptyBucket)
  BY FS_EmptySet, DstCapAssumption DEF Capped, EmptyBucket, Empty
<1>2. Init => Inv
  <2>1. 0 \in Slots
    BY RingAssumption DEF Slots
  <2> QED
    BY <1>1, <2>1 DEF Init, RingInv
<1>3. Inv /\ [Next]_vars => Inv'
  <2> SUFFICES ASSUME Inv, [Next]_vars
               PROVE  Inv'
    OBVIOUS
  <2>1. CASE Tick
    <3>1. (cur + 1) % N \in Slots
      BY SlotArithmetic, RingAssumption DEF RingInv, Slots
    <3> QED
      BY <1>1, <2>1, <3>1 DEF Tick, Rolled, RingInv
  <2>2. ASSUME NEW f \in Flows, Record(f)
        PROVE  Inv'
    <3>1. Capped(Folded(ring[cur], f))
      BY FoldedCapped DEF RingInv
    <3> QED
      BY <2>2, <3>1 DEF Record, RingInv
  <2>3. CASE UNCHANGED vars
    BY <2>3 DEF vars, RingInv
  <2> QED
    BY <2>1, <2>2, <2>3 DEF Next
<1>4. Inv => TypeOK
  BY DEF RingInv, Capped, TypeOK
<1> QED
  BY <1>2, <1>3, <1>4, PTL DEF Spec

----------------------------------------------------------------------------
(***************************************************************************)
(* What a bucket says of the flows of its second.                          *)
(***************************************************************************)

\* The flows of a second are a sequence fs; those with bytes are at Moving(fs).
Bytes(fs) == [k \in DOMAIN fs |-> fs[k].bytes]
Moving(fs) == {k \in DOMAIN fs : fs[k].bytes > 0}
Into(fs, K) == {k \in K : Incoming(fs[k])}

\* The bytes of the flows at K, in and out.
Carried(fs, K) ==
  [in  |-> SumFunctionOnSet(Bytes(fs), Into(fs, K)),
   out |-> SumFunctionOnSet(Bytes(fs), K \ Into(fs, K))]

\* The keys of a flow on each axis; the cap concerns the last one.
Axes == {"service", "src", "country", "host"}
KeysOf(n, f) ==
  CASE n = "service" -> {f.service} \ {None}
    [] n = "src"     -> LanHosts(f)
    [] n = "country" -> {p.country : p \in Peers(f)} \ {None}
    [] n = "host"    -> {<<Label(f, p), p.country>> : p \in Peers(f)}
    [] n = "dst"     -> {p.ip : p \in Peers(f)}

Keys(n, fs) == UNION {KeysOf(n, fs[k]) : k \in Moving(fs)}
With(n, key, fs) == {k \in Moving(fs) : key \in KeysOf(n, fs[k])}

\* The total and the uncapped axes of a bucket are those of its flows.
Counts(b, fs) ==
  /\ b.total = Carried(fs, Moving(fs))
  /\ \A n \in Axes :
       /\ DOMAIN b[n] = Keys(n, fs)
       /\ \A key \in DOMAIN b[n] : b[n][key] = Carried(fs, With(n, key, fs))

\* The peers it has are counted whole; it lacks one only if it is full.
CountsPeers(b, fs) ==
  /\ Capped(b)
  /\ DOMAIN b.dst \subseteq Keys("dst", fs)
  /\ \A ip \in DOMAIN b.dst : b.dst[ip] = Carried(fs, With("dst", ip, fs))
  /\ DOMAIN b.dst # Keys("dst", fs) => Cardinality(DOMAIN b.dst) = DstCap

\* The countries the flows of a peer had, and the one the bucket has for it.
Had(ip, fs) ==
  (UNION {{e.country : e \in {p \in Peers(fs[k]) : p.ip = ip}} : k \in Moving(fs)}) \ {None}

KnowsCountries(b, fs) ==
  \A ip \in DOMAIN b.dst :
    IF Had(ip, fs) = {} THEN b.dstCountry[ip] = None ELSE b.dstCountry[ip] \in Had(ip, fs)

\* One more flow.
LEMMA OneMore ==
  ASSUME NEW fs \in Seq(Flows), NEW f \in Flows
  PROVE  LET g   == Append(fs, f)
             new == Len(fs) + 1
         IN  /\ g \in Seq(Flows)
             /\ DOMAIN fs = 1..Len(fs) /\ IsFiniteSet(DOMAIN fs) /\ Len(fs) \in Nat
             /\ DOMAIN g = DOMAIN fs \cup {new} /\ new \notin DOMAIN fs
             /\ g[new] = f /\ \A k \in DOMAIN fs : g[k] = fs[k]
             /\ \A k \in DOMAIN fs : fs[k] \in Flows
<1>1. /\ Append(fs, f) \in Seq(Flows) /\ Len(Append(fs, f)) = Len(fs) + 1
      /\ \A k \in 1..Len(fs) : Append(fs, f)[k] = fs[k]
      /\ Append(fs, f)[Len(fs) + 1] = f
  BY AppendProperties
<1>2. /\ Len(fs) \in Nat /\ DOMAIN fs = 1..Len(fs)
      /\ DOMAIN Append(fs, f) = 1..(Len(fs) + 1)
  BY <1>1, LenProperties
<1>3. IsFiniteSet(1..Len(fs))
  BY <1>2, FS_Interval
<1>4. \A k \in 1..Len(fs) : fs[k] \in Flows
  BY ElementOfSeq
<1> QED
  BY <1>1, <1>2, <1>3, <1>4

\* What the flows of a second carried are sums of naturals.
LEMMA CarriedNat ==
  ASSUME NEW fs \in Seq(Flows), NEW K \in SUBSET DOMAIN fs
  PROVE  /\ IsFiniteSet(K) /\ IsFiniteSet(Into(fs, K)) /\ IsFiniteSet(K \ Into(fs, K))
         /\ \A k \in K : Bytes(fs)[k] \in Nat
         /\ Carried(fs, K).in \in Nat /\ Carried(fs, K).out \in Nat
<1>1. IsFiniteSet(DOMAIN fs) /\ \A k \in DOMAIN fs : fs[k] \in Flows
  <2>1. Len(fs) \in Nat /\ DOMAIN fs = 1..Len(fs) /\ \A k \in 1..Len(fs) : fs[k] \in Flows
    BY LenProperties, ElementOfSeq
  <2> QED
    BY <2>1, FS_Interval
<1>2. \A k \in DOMAIN fs : Bytes(fs)[k] \in Nat
  BY <1>1, FlowsAssumption DEF Bytes
<1>3. Into(fs, K) \in SUBSET K /\ K \ Into(fs, K) \in SUBSET K
  BY DEF Into
<1>4. IsFiniteSet(K)
  BY <1>1, FS_Subset
<1>5. IsFiniteSet(Into(fs, K)) /\ IsFiniteSet(K \ Into(fs, K))
  BY <1>3, <1>4, FS_Subset
<1>6. /\ SumFunctionOnSet(Bytes(fs), Into(fs, K)) \in Nat
      /\ SumFunctionOnSet(Bytes(fs), K \ Into(fs, K)) \in Nat
  BY <1>2, <1>3, <1>5, SumNat
<1> QED
  BY <1>2, <1>4, <1>5, <1>6 DEF Carried

LEMMA CarriedNone == \A fs : Carried(fs, {}) = Zero
<1> TAKE fs
<1>1. Into(fs, {}) = {}
  BY DEF Into
<1> QED
  BY <1>1, SumEmpty DEF Carried, Zero

\* One more flow adds its bytes in its direction.
LEMMA CarriedGrows ==
  ASSUME NEW fs \in Seq(Flows), NEW f \in Flows, NEW K \in SUBSET DOMAIN fs
  PROVE  /\ Carried(Append(fs, f), K) = Carried(fs, K)
         /\ Carried(Append(fs, f), K \cup {Len(fs) + 1}) = Plus(Carried(fs, K), Info(f))
<1> DEFINE g   == Append(fs, f)
           new == Len(fs) + 1
           in  == Into(fs, K)
           out == K \ Into(fs, K)
<1>1. /\ g \in Seq(Flows)
      /\ DOMAIN g = DOMAIN fs \cup {new} /\ new \notin DOMAIN fs
      /\ g[new] = f /\ \A k \in DOMAIN fs : g[k] = fs[k]
  BY OneMore
<1>2. /\ f.bytes \in Nat /\ \A k \in DOMAIN g : Bytes(g)[k] \in Nat
      /\ Bytes(g)[new] = f.bytes /\ \A k \in DOMAIN fs : Bytes(g)[k] = Bytes(fs)[k]
  <2>1. \A k \in DOMAIN g : Bytes(g)[k] \in Nat
    BY <1>1, CarriedNat
  <2> QED
    BY <1>1, <2>1, FlowsAssumption DEF Bytes
<1>3. Into(g, K) = in
  BY <1>1 DEF Into
<1>4. IsFiniteSet(in) /\ IsFiniteSet(out) /\ in \subseteq K /\ out \subseteq K
  BY CarriedNat DEF Into
<1>5. /\ SumFunctionOnSet(Bytes(g), in) = SumFunctionOnSet(Bytes(fs), in)
      /\ SumFunctionOnSet(Bytes(g), out) = SumFunctionOnSet(Bytes(fs), out)
  BY <1>2, <1>4, SumSame
<1>6. Carried(g, K) = Carried(fs, K)
  BY <1>3, <1>5 DEF Carried
<1>7. Carried(g, K \cup {new}) = Plus(Carried(fs, K), Info(f))
  <2>1. new \notin K /\ new \notin in /\ new \notin out
    BY <1>1, <1>4
  <2>2. /\ \A k \in in \cup {new} : Bytes(g)[k] \in Nat
        /\ \A k \in out \cup {new} : Bytes(g)[k] \in Nat
    BY <1>1, <1>2, <1>4
  <2>3. /\ SumFunctionOnSet(Bytes(fs), in) \in Nat /\ SumFunctionOnSet(Bytes(fs), out) \in Nat
        /\ Carried(fs, K).in = SumFunctionOnSet(Bytes(fs), in)
        /\ Carried(fs, K).out = SumFunctionOnSet(Bytes(fs), out)
    BY CarriedNat DEF Carried
  <2>4. CASE Incoming(f)
    <3>1. Into(g, K \cup {new}) = in \cup {new} /\ (K \cup {new}) \ (in \cup {new}) = out
      BY <1>1, <2>1, <2>4 DEF Into
    <3> HIDE DEF in, out, g, new
    <3>2. SumFunctionOnSet(Bytes(g), in \cup {new}) = SumFunctionOnSet(Bytes(g), in) + f.bytes
      BY <1>2, <1>4, <2>1, <2>2, SumAdd
    <3>3. Carried(g, K \cup {new}) = [in |-> SumFunctionOnSet(Bytes(fs), in) + f.bytes,
                                       out |-> SumFunctionOnSet(Bytes(fs), out)]
      BY <1>5, <3>1, <3>2 DEF Carried
    <3>4. Info(f) = [in |-> f.bytes, out |-> 0]
      BY <2>4 DEF Info
    <3> QED
      BY <2>3, <3>3, <3>4 DEF Plus
  <2>5. CASE ~Incoming(f)
    <3>1. /\ Into(g, K \cup {new}) = in
          /\ (K \cup {new}) \ in = out \cup {new}
      BY <1>1, <2>1, <2>5 DEF Into
    <3> HIDE DEF in, out, g, new
    <3>2. SumFunctionOnSet(Bytes(g), out \cup {new}) = SumFunctionOnSet(Bytes(g), out) + f.bytes
      BY <1>2, <1>4, <2>1, <2>2, SumAdd
    <3>3. Carried(g, K \cup {new}) = [in |-> SumFunctionOnSet(Bytes(fs), in),
                                       out |-> SumFunctionOnSet(Bytes(fs), out) + f.bytes]
      BY <1>5, <3>1, <3>2 DEF Carried
    <3>4. Info(f) = [in |-> 0, out |-> f.bytes]
      BY <2>5 DEF Info
    <3> QED
      BY <2>3, <3>3, <3>4 DEF Plus
  <2> QED
    BY <2>4, <2>5
<1> QED
  BY <1>6, <1>7

\* Which flows have a key when one more came.
LEMMA KeysGrow ==
  ASSUME NEW fs \in Seq(Flows), NEW f \in Flows, f.bytes # 0, NEW n
  PROVE  LET g   == Append(fs, f)
             new == Len(fs) + 1
         IN  /\ Moving(fs) \subseteq DOMAIN fs /\ Moving(g) = Moving(fs) \cup {new}
             /\ Keys(n, g) = Keys(n, fs) \cup KeysOf(n, f)
             /\ \A key : With(n, key, g) =
                  With(n, key, fs) \cup (IF key \in KeysOf(n, f) THEN {new} ELSE {})
<1> DEFINE g == Append(fs, f)
           new == Len(fs) + 1
<1>1. /\ DOMAIN g = DOMAIN fs \cup {new} /\ new \notin DOMAIN fs
      /\ g[new] = f /\ \A k \in DOMAIN fs : g[k] = fs[k]
  BY OneMore
<1>2. f.bytes > 0
  BY FlowsAssumption
<1> HIDE DEF g, new
<1>3. Moving(fs) \subseteq DOMAIN fs /\ Moving(g) = Moving(fs) \cup {new}
  BY <1>1, <1>2 DEF Moving
<1>4. Keys(n, g) = Keys(n, fs) \cup KeysOf(n, f)
  BY <1>1, <1>3 DEF Keys
<1>5. ASSUME NEW key
      PROVE  With(n, key, g) =
               With(n, key, fs) \cup (IF key \in KeysOf(n, f) THEN {new} ELSE {})
  BY <1>1, <1>3 DEF With
<1> QED
  BY <1>3, <1>4, <1>5 DEF g, new

\* Flows without bytes leave no trace.
LEMMA NoBytes ==
  ASSUME NEW fs \in Seq(Flows), NEW f \in Flows, f.bytes = 0
  PROVE  LET g == Append(fs, f)
         IN  /\ Moving(g) = Moving(fs) /\ Moving(fs) \subseteq DOMAIN fs
             /\ \A k \in DOMAIN fs : g[k] = fs[k]
             /\ \A n : /\ Keys(n, g) = Keys(n, fs)
                       /\ \A key : With(n, key, g) = With(n, key, fs)
<1> DEFINE g == Append(fs, f)
<1>1. /\ DOMAIN g = DOMAIN fs \cup {Len(fs) + 1} /\ Len(fs) + 1 \notin DOMAIN fs
      /\ g[Len(fs) + 1] = f /\ \A k \in DOMAIN fs : g[k] = fs[k]
  BY OneMore
<1> HIDE DEF g
<1>2. Moving(g) = Moving(fs) /\ Moving(fs) \subseteq DOMAIN fs
  BY <1>1 DEF Moving
<1>3. \A n : /\ Keys(n, g) = Keys(n, fs)
             /\ \A key : With(n, key, g) = With(n, key, fs)
  BY <1>1, <1>2 DEF Keys, With
<1> QED
  BY <1>1, <1>2, <1>3 DEF g

\* An axis that has counted its keys goes on doing so.
LEMMA BumpCounts ==
  ASSUME NEW fs \in Seq(Flows), NEW f \in Flows, f.bytes # 0, NEW n, NEW axis, NEW K,
         \A key \in DOMAIN axis : axis[key] = Carried(fs, With(n, key, fs)),
         \A key \in K : key \notin DOMAIN axis => key \notin Keys(n, fs),
         \A key \in DOMAIN axis \cup K : key \in K <=> key \in KeysOf(n, f)
  PROVE  \A key \in DOMAIN axis \cup K :
           Bump(axis, K, Info(f))[key] = Carried(Append(fs, f), With(n, key, Append(fs, f)))
<1> DEFINE g   == Append(fs, f)
           new == Len(fs) + 1
<1> TAKE key \in DOMAIN axis \cup K
<1>1. With(n, key, fs) \in SUBSET DOMAIN fs
  BY DEF With, Moving
<1>2. With(n, key, g) = With(n, key, fs) \cup (IF key \in K THEN {new} ELSE {})
  BY KeysGrow
<1>3. CASE key \notin K
  <2>1. With(n, key, g) = With(n, key, fs)
    BY <1>2, <1>3
  <2>2. Carried(g, With(n, key, fs)) = Carried(fs, With(n, key, fs))
    BY <1>1, CarriedGrows
  <2>3. Bump(axis, K, Info(f))[key] = axis[key]
    BY <1>3 DEF Bump
  <2> QED
    BY <1>3, <2>1, <2>2, <2>3
<1>4. CASE key \in K
  <2>1. Carried(g, With(n, key, g)) = Plus(Carried(fs, With(n, key, fs)), Info(f))
    BY <1>1, <1>2, <1>4, CarriedGrows
  <2>2. Bump(axis, K, Info(f))[key] = Plus(At(axis, key), Info(f))
    BY <1>4 DEF Bump
  <2>3. At(axis, key) = Carried(fs, With(n, key, fs))
    <3>1. CASE key \in DOMAIN axis
      BY <3>1 DEF At
    <3>2. CASE key \notin DOMAIN axis
      <4>1. With(n, key, fs) = {}
        BY <1>4, <3>2 DEF Keys, With
      <4> QED
        BY <3>2, <4>1, CarriedNone DEF At
    <3> QED
      BY <3>1, <3>2
  <2> QED
    BY <2>1, <2>2, <2>3
<1> QED
  BY <1>3, <1>4

\* Folding a flow into a bucket keeps its total and its axes those of its flows.
LEMMA FoldedCounts ==
  ASSUME NEW fs \in Seq(Flows), NEW f \in Flows, NEW b, Counts(b, fs)
  PROVE  Counts(Folded(b, f), Append(fs, f))
<1> DEFINE g == Append(fs, f)
           c == Folded(b, f)
<1>1. CASE f.bytes = 0
  <2>1. c = b
    BY <1>1 DEF Folded
  <2>2. /\ Moving(g) = Moving(fs) /\ Moving(fs) \subseteq DOMAIN fs
        /\ \A n : /\ Keys(n, g) = Keys(n, fs)
                  /\ \A key : With(n, key, g) = With(n, key, fs)
    BY <1>1, NoBytes
  <2>3. \A n, key : With(n, key, fs) \in SUBSET DOMAIN fs
    BY <2>2 DEF With
  <2>4. /\ Carried(g, Moving(fs)) = Carried(fs, Moving(fs))
        /\ \A n, key : Carried(g, With(n, key, fs)) = Carried(fs, With(n, key, fs))
    BY <2>2, <2>3, CarriedGrows, ZenonT(30)
  <2> QED
    BY <2>1, <2>2, <2>4 DEF Counts
<1>2. CASE f.bytes # 0
  <2>1. c.total = Carried(g, Moving(g))
    <3>1. Moving(g) = Moving(fs) \cup {Len(fs) + 1} /\ Moving(fs) \in SUBSET DOMAIN fs
      BY <1>2, KeysGrow
    <3>2. c.total = Plus(b.total, Info(f))
      BY <1>2 DEF Folded
    <3> QED
      BY <3>1, <3>2, CarriedGrows DEF Counts
  <2>2. ASSUME NEW n \in Axes
        PROVE  /\ DOMAIN c[n] = Keys(n, g)
               /\ \A key \in DOMAIN c[n] : c[n][key] = Carried(g, With(n, key, g))
    <3> DEFINE K == KeysOf(n, f)
               axis == b[n]
    <3>1. c[n] = Bump(axis, K, Info(f))
      BY <1>2, <2>2 DEF Folded, Axes, KeysOf
    <3>2. DOMAIN axis = Keys(n, fs)
          /\ \A key \in DOMAIN axis : axis[key] = Carried(fs, With(n, key, fs))
      BY <2>2 DEF Counts
    <3>3. DOMAIN c[n] = DOMAIN axis \cup K
      BY <3>1 DEF Bump
    <3>4. Keys(n, g) = Keys(n, fs) \cup K
      BY <1>2, KeysGrow
    <3>5. \A key \in DOMAIN axis \cup K : key \in K => key \in KeysOf(n, f)
      OBVIOUS
    <3> HIDE DEF axis
    <3>6. \A key \in DOMAIN axis \cup K :
            Bump(axis, K, Info(f))[key] = Carried(g, With(n, key, g))
      BY <1>2, <3>2, BumpCounts
    <3> QED
      BY <3>1, <3>2, <3>3, <3>4, <3>6
  <2> QED
    BY <2>1, <2>2 DEF Counts
<1> QED
  BY <1>1, <1>2

\* A flow's peer is admitted if it was or there is room; one admitted for the
\* first time was in no flow before.
LEMMA Admission ==
  ASSUME NEW fs \in Seq(Flows), NEW f \in Flows, NEW b, CountsPeers(b, fs)
  PROVE  LET K == {p.ip : p \in Admitted(b, f)}
         IN  /\ KeysOf("dst", f) = {p.ip : p \in Peers(f)} /\ K \subseteq KeysOf("dst", f)
             /\ \A ip \in KeysOf("dst", f) :
                  ip \in K <=> ip \in DOMAIN b.dst \/ Cardinality(DOMAIN b.dst) < DstCap
             /\ \A ip \in K : ip \notin DOMAIN b.dst => ip \notin Keys("dst", fs)
             /\ \A ip \in DOMAIN b.dst \cup K : ip \in K <=> ip \in KeysOf("dst", f)
<1> DEFINE K == {p.ip : p \in Admitted(b, f)}
<1>1. /\ Cardinality(DOMAIN b.dst) \in Nat /\ DstCap \in Nat
  BY FS_CardinalityType, DstCapAssumption DEF CountsPeers, Capped
<1>2. KeysOf("dst", f) = {p.ip : p \in Peers(f)} /\ K \subseteq KeysOf("dst", f)
  BY DEF KeysOf, Admitted
<1>3. \A ip \in KeysOf("dst", f) :
        ip \in K <=> ip \in DOMAIN b.dst \/ Cardinality(DOMAIN b.dst) < DstCap
  BY <1>2 DEF Admitted
<1>4. \A ip \in K : ip \notin DOMAIN b.dst => ip \notin Keys("dst", fs)
  BY <1>1, <1>2, <1>3 DEF CountsPeers
<1>5. \A ip \in DOMAIN b.dst \cup K : ip \in K <=> ip \in KeysOf("dst", f)
  BY <1>2, <1>3
<1> QED
  BY <1>2, <1>3, <1>4, <1>5

\* And its peers counted whole: the flow of a peer that is new to a bucket
\* with room is the first of that peer.
LEMMA FoldedCountsPeers ==
  ASSUME NEW fs \in Seq(Flows), NEW f \in Flows, NEW b, CountsPeers(b, fs)
  PROVE  CountsPeers(Folded(b, f), Append(fs, f))
<1> DEFINE g == Append(fs, f)
           c == Folded(b, f)
           A == Admitted(b, f)
           K == {p.ip : p \in A}
<1>1. Capped(c)
  BY FoldedCapped DEF CountsPeers
<1>2. CASE f.bytes = 0
  <2>1. c = b
    BY <1>2 DEF Folded
  <2>2. /\ Moving(fs) \subseteq DOMAIN fs
        /\ \A n : /\ Keys(n, g) = Keys(n, fs)
                  /\ \A key : With(n, key, g) = With(n, key, fs)
    BY <1>2, NoBytes
  <2>3. \A n, key : With(n, key, fs) \in SUBSET DOMAIN fs
    BY <2>2 DEF With
  <2>4. \A n, key : Carried(g, With(n, key, fs)) = Carried(fs, With(n, key, fs))
    BY <2>3, CarriedGrows
  <2> QED
    BY <2>1, <2>2, <2>4 DEF CountsPeers
<1>3. CASE f.bytes # 0
  <2>0. /\ IsFiniteSet(DOMAIN b.dst) /\ Cardinality(DOMAIN b.dst) \in Nat
        /\ Cardinality(DOMAIN b.dst) <= DstCap /\ DstCap \in Nat
    BY FS_CardinalityType, DstCapAssumption DEF CountsPeers, Capped
  <2>1. c.dst = Bump(b.dst, K, Info(f)) /\ DOMAIN c.dst = DOMAIN b.dst \cup K
    BY <1>3 DEF Folded, Bump
  <2>2. Keys("dst", g) = Keys("dst", fs) \cup KeysOf("dst", f)
    BY <1>3, KeysGrow
  <2>3. /\ KeysOf("dst", f) = {p.ip : p \in Peers(f)} /\ K \subseteq KeysOf("dst", f)
        /\ \A ip \in KeysOf("dst", f) :
             ip \in K <=> ip \in DOMAIN b.dst \/ Cardinality(DOMAIN b.dst) < DstCap
        /\ \A ip \in K : ip \notin DOMAIN b.dst => ip \notin Keys("dst", fs)
        /\ \A ip \in DOMAIN b.dst \cup K : ip \in K <=> ip \in KeysOf("dst", f)
    BY Admission
  <2>4. \A ip \in KeysOf("dst", f) :
          ip \in K <=> ip \in DOMAIN b.dst \/ Cardinality(DOMAIN b.dst) < DstCap
    BY <2>3
  <2>5. \A ip \in K : ip \notin DOMAIN b.dst => ip \notin Keys("dst", fs)
    BY <2>3
  <2>6. \A ip \in DOMAIN b.dst \cup K : ip \in K <=> ip \in KeysOf("dst", f)
    BY <2>3
  <2>7. \A ip \in DOMAIN b.dst : b.dst[ip] = Carried(fs, With("dst", ip, fs))
    BY DEF CountsPeers
  <2>8. \A ip \in DOMAIN c.dst : c.dst[ip] = Carried(g, With("dst", ip, g))
    <3> DEFINE n == "dst"
               axis == b.dst
               d == c.dst
    <3>1. d = Bump(axis, K, Info(f)) /\ DOMAIN d = DOMAIN axis \cup K
      BY <2>1
    <3>2. /\ \A ip \in DOMAIN axis : axis[ip] = Carried(fs, With(n, ip, fs))
          /\ \A ip \in K : ip \notin DOMAIN axis => ip \notin Keys(n, fs)
          /\ \A ip \in DOMAIN axis \cup K : ip \in K <=> ip \in KeysOf(n, f)
      BY <2>5, <2>6, <2>7
    <3> HIDE DEF n, axis, K, d
    <3>3. \A ip \in DOMAIN axis \cup K :
            Bump(axis, K, Info(f))[ip] = Carried(g, With(n, ip, g))
      BY <1>3, <3>2, BumpCounts, ZenonT(30)
    <3>4. \A ip \in DOMAIN d : d[ip] = Carried(g, With(n, ip, g))
      BY <3>1, <3>3
    <3> QED
      BY <3>4 DEF n, d
  <2>9. DOMAIN c.dst # Keys("dst", g) => Cardinality(DOMAIN c.dst) = DstCap
    <3> SUFFICES ASSUME DOMAIN c.dst # Keys("dst", g)
                 PROVE  Cardinality(DOMAIN c.dst) = DstCap
      OBVIOUS
    <3>1. Cardinality(DOMAIN b.dst) = DstCap
      <4>1. CASE DOMAIN b.dst # Keys("dst", fs)
        BY <4>1 DEF CountsPeers
      <4>2. CASE DOMAIN b.dst = Keys("dst", fs)
        <5>1. K # KeysOf("dst", f)
          BY <2>1, <2>2, <4>2
        <5>2. ~(Cardinality(DOMAIN b.dst) < DstCap)
          BY <2>3, <2>4, <5>1
        <5> QED
          BY <2>0, <5>2
      <4> QED
        BY <4>1, <4>2
    <3>2. K \subseteq DOMAIN b.dst
      BY <2>0, <2>3, <2>4, <3>1
    <3> QED
      BY <2>1, <3>1, <3>2
  <2>10. DOMAIN c.dst \subseteq Keys("dst", g)
    BY <2>1, <2>2, <2>3 DEF CountsPeers
  <2> QED
    BY <1>1, <2>8, <2>9, <2>10 DEF CountsPeers
<1> QED
  BY <1>2, <1>3

\* And each peer's country one that its flows had.
LEMMA FoldedKnows ==
  ASSUME NEW fs \in Seq(Flows), NEW f \in Flows, NEW b,
         CountsPeers(b, fs), KnowsCountries(b, fs)
  PROVE  KnowsCountries(Folded(b, f), Append(fs, f))
<1> DEFINE g == Append(fs, f)
           c == Folded(b, f)
           A == Admitted(b, f)
           K == {p.ip : p \in A}
<1>1. CASE f.bytes = 0
  <2>1. c = b
    BY <1>1 DEF Folded
  <2>2. /\ Moving(g) = Moving(fs) /\ Moving(fs) \subseteq DOMAIN fs
        /\ \A k \in DOMAIN fs : g[k] = fs[k]
    BY <1>1, NoBytes
  <2>3. \A ip : Had(ip, g) = Had(ip, fs)
    BY <2>2 DEF Had
  <2> QED
    BY <2>1, <2>3 DEF KnowsCountries
<1>2. CASE f.bytes # 0
  <2>1. /\ DOMAIN c.dst = DOMAIN b.dst \cup K
        /\ DOMAIN b.dstCountry = DOMAIN b.dst
        /\ c.dstCountry = Countries(b.dstCountry, A)
    BY <1>2 DEF Folded, Bump, CountsPeers, Capped
  <2>2. /\ KeysOf("dst", f) = {p.ip : p \in Peers(f)}
        /\ \A ip \in K : ip \notin DOMAIN b.dst => ip \notin Keys("dst", fs)
        /\ \A ip \in DOMAIN b.dst \cup K : ip \in K <=> ip \in KeysOf("dst", f)
    BY Admission
  <2>3. /\ Moving(fs) \subseteq DOMAIN fs /\ Moving(g) = Moving(fs) \cup {Len(fs) + 1}
        /\ g[Len(fs) + 1] = f /\ \A k \in DOMAIN fs : g[k] = fs[k]
    BY <1>2, KeysGrow, OneMore
  <2>4. \A ip : Had(ip, g) =
          Had(ip, fs) \cup ({e.country : e \in {p \in Peers(f) : p.ip = ip}} \ {None})
    <3> DEFINE new == Len(fs) + 1
               At1(j, ip) == {e.country : e \in {p \in Peers(j) : p.ip = ip}}
    <3> HIDE DEF g, new
    <3>1. /\ Moving(g) = Moving(fs) \cup {new}
          /\ \A ip : At1(g[new], ip) = At1(f, ip)
          /\ \A k \in Moving(fs) : \A ip : At1(g[k], ip) = At1(fs[k], ip)
      BY <2>3 DEF new
    <3> HIDE DEF At1
    <3>2. ASSUME NEW ip
          PROVE  UNION {At1(g[k], ip) : k \in Moving(g)}
                   = (UNION {At1(fs[k], ip) : k \in Moving(fs)}) \cup At1(f, ip)
      <4>1. At1(g[new], ip) = At1(f, ip) /\ \A k \in Moving(fs) : At1(g[k], ip) = At1(fs[k], ip)
        BY <3>1
      <4>2. ASSUME NEW x
            PROVE  (\E k \in Moving(g) : x \in At1(g[k], ip))
                     <=> (\E k \in Moving(fs) : x \in At1(fs[k], ip)) \/ x \in At1(f, ip)
        BY <3>1, <4>1
      <4> QED
        BY <4>2
    <3>3. ASSUME NEW ip
          PROVE  /\ Had(ip, g) = (UNION {At1(g[k], ip) : k \in Moving(g)}) \ {None}
                 /\ Had(ip, fs) = (UNION {At1(fs[k], ip) : k \in Moving(fs)}) \ {None}
      BY DEF Had, At1
    <3>4. ASSUME NEW ip
          PROVE  Had(ip, g) = Had(ip, fs) \cup (At1(f, ip) \ {None})
      BY <3>2, <3>3, ZenonT(30)
    <3> QED
      BY <3>4 DEF At1
  <2>5. \A ip : ip \notin Keys("dst", fs) => Had(ip, fs) = {}
    BY DEF Keys, KeysOf, Had
  <2>6. ASSUME NEW j
        PROVE  None \notin Had(j, fs)
    <3> DEFINE all == UNION {{e.country : e \in {p \in Peers(fs[k]) : p.ip = j}} : k \in Moving(fs)}
    <3>1. Had(j, fs) = all \ {None}
      BY DEF Had
    <3> HIDE DEF all
    <3> QED
      BY <3>1
  <2> SUFFICES ASSUME NEW ip \in DOMAIN b.dst \cup K
               PROVE  IF Had(ip, g) = {} THEN c.dstCountry[ip] = None
                      ELSE c.dstCountry[ip] \in Had(ip, g)
    BY <2>1 DEF KnowsCountries
  <2>7. CASE ip \notin K
    <3>1. ip \in DOMAIN b.dst /\ Had(ip, g) = Had(ip, fs)
      BY <2>2, <2>4, <2>7, ZenonT(30)
    <3>2. c.dstCountry[ip] = b.dstCountry[ip]
      BY <2>1, <2>7, <3>1 DEF Countries
    <3> QED
      BY <3>1, <3>2 DEF KnowsCountries
  <2>8. CASE ip \in K
    <3>1. PICK e \in A : e.ip = ip
      BY <2>8
    <3>2. A = {e} /\ Peers(f) = {e}
      BY <3>1 DEF Admitted, Peers
    <3>3. (CHOOSE p \in A : p.ip = ip) = e
      BY <3>1, <3>2
    <3>4. Had(ip, g) = Had(ip, fs) \cup ({e.country} \ {None})
      BY <2>4, <3>1, <3>2
    <3>5. c.dstCountry[ip] = IF ip \in DOMAIN b.dst /\ b.dstCountry[ip] # None
                             THEN b.dstCountry[ip] ELSE e.country
      BY <2>1, <2>8, <3>3 DEF Countries
    <3>6. CASE ip \in DOMAIN b.dst /\ b.dstCountry[ip] # None
      <4>1. b.dstCountry[ip] \in Had(ip, fs)
        BY <3>6 DEF KnowsCountries
      <4> QED
        BY <3>4, <3>5, <3>6, <4>1
    <3>7. CASE ~(ip \in DOMAIN b.dst /\ b.dstCountry[ip] # None)
      <4>1. Had(ip, fs) = {}
        <5>1. CASE ip \in DOMAIN b.dst
          BY <2>6, <3>7, <5>1 DEF KnowsCountries
        <5>2. CASE ip \notin DOMAIN b.dst
          BY <2>2, <2>5, <2>8, <5>2
        <5> QED
          BY <5>1, <5>2
      <4>2. c.dstCountry[ip] = e.country /\ Had(ip, g) = {e.country} \ {None}
        BY <3>4, <3>5, <3>7, <4>1
      <4> QED
        BY <4>2
    <3> QED
      BY <3>6, <3>7
  <2> QED
    BY <2>7, <2>8
<1> QED
  BY <1>1, <1>2

----------------------------------------------------------------------------
(***************************************************************************)
(* The ring says the same of the last N seconds as their flows do.         *)
(***************************************************************************)

\* The flows of the second that is a seconds old.
Second(a) == IF a < Len(seconds) THEN seconds[Len(seconds) - a] ELSE <<>>

Faithful(b, fs) == Counts(b, fs) /\ CountsPeers(b, fs) /\ KnowsCountries(b, fs)

\* Every bucket of the ring is the flows of its second folded.
HistoryInv ==
  /\ RingInv
  /\ seconds \in Seq(Seq(Flows)) /\ Len(seconds) > 0
  /\ \A a \in Slots : Faithful(ring[Slot(cur, a)], Second(a))

\* A new bucket says of no flows what there is to say.
LEMMA EmptyFaithful == Faithful(EmptyBucket, <<>>)
<1>1. /\ DOMAIN << >> = {} /\ Moving(<< >>) = {}
      /\ \A n : Keys(n, << >>) = {}
  BY DEF Moving, Keys
<1>2. Counts(EmptyBucket, <<>>)
  <2>1. EmptyBucket.total = Carried(<<>>, Moving(<<>>))
    BY <1>1, CarriedNone DEF EmptyBucket
  <2>2. \A n \in Axes : EmptyBucket[n] = Empty
    BY DEF EmptyBucket, Axes
  <2> QED
    BY <1>1, <2>1, <2>2 DEF Counts, Empty
<1>3. CountsPeers(EmptyBucket, <<>>)
  BY <1>1, FS_EmptySet, DstCapAssumption DEF CountsPeers, Capped, EmptyBucket, Empty
<1>4. KnowsCountries(EmptyBucket, <<>>)
  BY DEF KnowsCountries, EmptyBucket, Empty
<1> QED
  BY <1>2, <1>3, <1>4 DEF Faithful

\* One more flow in a second.
LEMMA FoldedFaithful ==
  ASSUME NEW fs \in Seq(Flows), NEW f \in Flows, NEW b, Faithful(b, fs)
  PROVE  Faithful(Folded(b, f), Append(fs, f))
<1>1. Counts(Folded(b, f), Append(fs, f))
  BY FoldedCounts DEF Faithful
<1>2. CountsPeers(Folded(b, f), Append(fs, f))
  BY FoldedCountsPeers DEF Faithful
<1>3. KnowsCountries(Folded(b, f), Append(fs, f))
  BY FoldedKnows DEF Faithful
<1> QED
  BY <1>1, <1>2, <1>3 DEF Faithful

\* The flows of each second after a step.
LEMMA SecondsAge ==
  ASSUME seconds \in Seq(Seq(Flows)), Len(seconds) > 0, Tick, NEW a \in Nat
  PROVE  /\ seconds' \in Seq(Seq(Flows)) /\ Len(seconds') > 0
         /\ Second(a)' = IF a = 0 THEN <<>> ELSE Second(a - 1)
<1>1. seconds' = Append(seconds, <<>>) /\ <<>> \in Seq(Flows)
  BY DEF Tick
<1>2. /\ seconds' \in Seq(Seq(Flows)) /\ Len(seconds') = Len(seconds) + 1
      /\ \A s \in 1..Len(seconds) : seconds'[s] = seconds[s]
      /\ seconds'[Len(seconds) + 1] = <<>>
  BY <1>1, AppendProperties
<1>3. Len(seconds) \in Nat
  BY LenProperties
<1>4. CASE a = 0
  BY <1>2, <1>3, <1>4 DEF Second
<1>5. CASE a # 0
  <2>1. a - 1 \in Nat /\ (a < Len(seconds') <=> a - 1 < Len(seconds))
    BY <1>2, <1>3, <1>5, SMTT(30)
  <2>2. a < Len(seconds') => /\ Len(seconds) - (a - 1) \in 1..Len(seconds)
                             /\ Len(seconds') - a = Len(seconds) - (a - 1)
    BY <1>2, <1>3, <1>5
  <2>3. Second(a)' = Second(a - 1)
    <3>1. CASE a < Len(seconds')
      BY <1>2, <2>1, <2>2, <3>1 DEF Second
    <3>2. CASE ~(a < Len(seconds'))
      BY <2>1, <3>2 DEF Second
    <3> QED
      BY <3>1, <3>2
  <2> QED
    BY <1>2, <1>3, <1>5, <2>3
<1> QED
  BY <1>2, <1>3, <1>4, <1>5

LEMMA SecondsRecord ==
  ASSUME seconds \in Seq(Seq(Flows)), Len(seconds) > 0, NEW f \in Flows, Record(f), NEW a \in Nat
  PROVE  /\ seconds' \in Seq(Seq(Flows)) /\ Len(seconds') > 0
         /\ Second(0) \in Seq(Flows)
         /\ Second(a)' = IF a = 0 THEN Append(Second(0), f) ELSE Second(a)
<1> DEFINE last == Len(seconds)
           longer == Append(seconds[last], f)
<1>1. last \in Nat \ {0} /\ last \in 1..Len(seconds) /\ seconds[last] \in Seq(Flows)
  BY LenProperties, ElementOfSeq
<1>2. longer \in Seq(Flows)
  BY <1>1, AppendProperties
<1>3. seconds' = [seconds EXCEPT ![last] = longer]
  BY DEF Record
<1> HIDE DEF longer
<1>4. seconds' \in Seq(Seq(Flows)) /\ Len(seconds') = last
  BY <1>1, <1>2, <1>3, ExceptSeq
<1>5. \A s \in 1..last : seconds'[s] = IF s = last THEN longer ELSE seconds[s]
  BY <1>1, <1>3
<1>6. Second(0) = seconds[last] /\ (a = 0 => Second(a)' = longer)
  <2>1. last - 0 = last /\ 0 < last /\ Len(seconds') = last
    BY <1>1, <1>4
  <2>2. seconds'[last] = longer
    BY <1>1, <1>5
  <2> QED
    BY <2>1, <2>2 DEF Second
<1>7. a # 0 => Second(a)' = Second(a)
  <2> SUFFICES ASSUME a # 0
               PROVE  Second(a)' = Second(a)
    OBVIOUS
  <2>1. CASE a < last
    <3>1. last - a \in 1..last /\ last - a # last
      BY <1>1, <2>1
    <3> QED
      BY <1>4, <1>5, <2>1, <3>1 DEF Second
  <2>2. CASE ~(a < last)
    BY <1>4, <2>2 DEF Second
  <2> QED
    BY <2>1, <2>2
<1> QED
  BY <1>1, <1>4, <1>6, <1>7 DEF longer

LEMMA HistoryInvariant == Spec => []HistoryInv
<1>0. 0 \in Slots /\ Slots \subseteq Nat
  BY RingAssumption DEF Slots
<1>1. Init => HistoryInv
  <2> SUFFICES ASSUME Init
               PROVE  HistoryInv
    OBVIOUS
  <2>1. RingInv
    BY <1>0 DEF Init, RingInv
  <2>2. seconds = << <<>> >> /\ <<>> \in Seq(Flows)
    BY DEF Init
  <2>3. seconds \in Seq(Seq(Flows)) /\ Len(seconds) = 1 /\ seconds[1] = <<>>
    BY <2>2
  <2>4. ASSUME NEW a \in Slots
        PROVE  Second(a) = <<>>
    <3>1. a \in Nat
      BY <1>0
    <3> QED
      BY <2>3, <3>1 DEF Second
  <2>5. ASSUME NEW a \in Slots
        PROVE  ring[Slot(cur, a)] = EmptyBucket
    <3>1. Slot(cur, a) \in Slots
      BY <2>1, SlotArithmetic DEF RingInv
    <3> QED
      BY <3>1 DEF Init
  <2> QED
    BY <2>1, <2>3, <2>4, <2>5, EmptyFaithful DEF HistoryInv
<1>2. HistoryInv /\ RingInv' /\ [Next]_vars => HistoryInv'
  <2> SUFFICES ASSUME HistoryInv, RingInv', [Next]_vars
               PROVE  HistoryInv'
    OBVIOUS
  <2>0. RingInv /\ seconds \in Seq(Seq(Flows)) /\ Len(seconds) > 0
    BY DEF HistoryInv
  <2>1. CASE Tick
    <3>1. seconds' \in Seq(Seq(Flows)) /\ Len(seconds') > 0
      BY <1>0, <2>0, <2>1, SecondsAge
    <3>2. ASSUME NEW a \in Slots
          PROVE  Faithful(ring[Slot(cur, a)], Second(a))'
      <4>1. /\ a # 0 => a - 1 \in Slots
            /\ ring'[Slot(cur', a)] = IF a = 0 THEN EmptyBucket ELSE ring[Slot(cur, a - 1)]
        BY <2>0, <2>1, TickAges
      <4>2. Second(a)' = IF a = 0 THEN <<>> ELSE Second(a - 1)
        BY <1>0, <2>0, <2>1, SecondsAge
      <4>3. Faithful(ring'[Slot(cur', a)], Second(a)')
        <5>1. CASE a = 0
          BY <4>1, <4>2, <5>1, EmptyFaithful
        <5>2. CASE a # 0
          BY <4>1, <4>2, <5>2 DEF HistoryInv
        <5> QED
          BY <5>1, <5>2
      <4> QED
        BY <4>3 DEF Faithful, Slot
    <3> QED
      BY <3>1, <3>2 DEF HistoryInv
  <2>2. ASSUME NEW f \in Flows, Record(f)
        PROVE  HistoryInv'
    <3>1. seconds' \in Seq(Seq(Flows)) /\ Len(seconds') > 0 /\ Second(0) \in Seq(Flows)
      BY <1>0, <2>0, <2>2, SecondsRecord
    <3>2. ASSUME NEW a \in Slots
          PROVE  Faithful(ring[Slot(cur, a)], Second(a))'
      <4>1. ring'[Slot(cur', a)] =
              IF a = 0 THEN Folded(ring[Slot(cur, 0)], f) ELSE ring[Slot(cur, a)]
        BY <2>0, <2>2, RecordYoungest
      <4>2. Second(a)' = IF a = 0 THEN Append(Second(0), f) ELSE Second(a)
        BY <1>0, <2>0, <2>2, SecondsRecord
      <4>3. Faithful(ring'[Slot(cur', a)], Second(a)')
        <5>1. CASE a = 0
          <6>1. Faithful(ring[Slot(cur, 0)], Second(0))
            BY <1>0 DEF HistoryInv
          <6> QED
            BY <3>1, <4>1, <4>2, <5>1, <6>1, FoldedFaithful
        <5>2. CASE a # 0
          BY <4>1, <4>2, <5>2 DEF HistoryInv
        <5> QED
          BY <5>1, <5>2
      <4> QED
        BY <4>3 DEF Faithful, Slot
    <3> QED
      BY <3>1, <3>2 DEF HistoryInv
  <2>3. CASE UNCHANGED vars
    <3>1. /\ ring' = ring /\ cur' = cur /\ seconds' = seconds
      BY <2>3 DEF vars
    <3>2. \A a \in Slots : Second(a)' = Second(a)
      BY <3>1 DEF Second
    <3> QED
      BY <3>1, <3>2 DEF HistoryInv, RingInv
  <2> QED
    BY <2>1, <2>2, <2>3 DEF Next
<1> QED
  BY <1>1, <1>2, RingInvariant, PTL DEF Spec

----------------------------------------------------------------------------
(***************************************************************************)
(* Sums over the history, second by second.                                *)
(***************************************************************************)

\* Where the flows with bytes of the last w seconds are.
LEMMA PastIs ==
  ASSUME seconds \in Seq(Seq(Flows)), NEW w \in 1..N
  PROVE  /\ \A x \in Past(w) :
              LET a == Len(seconds) - x[1]
              IN  /\ x = <<x[1], x[2]>> /\ x[1] \in 1..Len(seconds) /\ a \in 0..(w - 1)
                  /\ Second(a) = seconds[x[1]] /\ x[2] \in Moving(Second(a))
                  /\ FlowAt(x) = Second(a)[x[2]] /\ FlowAt(x) \in Flows
         /\ \A a \in 0..(w - 1) : \A k : k \in Moving(Second(a)) =>
              /\ Len(seconds) - a \in 1..Len(seconds)
              /\ <<Len(seconds) - a, k>> \in Past(w)
<1>1. /\ Len(seconds) \in Nat /\ DOMAIN seconds = 1..Len(seconds)
      /\ \A s \in 1..Len(seconds) :
           seconds[s] \in Seq(Flows) /\ \A k \in DOMAIN seconds[s] : seconds[s][k] \in Flows
  <2>1. /\ Len(seconds) \in Nat /\ DOMAIN seconds = 1..Len(seconds)
        /\ \A s \in 1..Len(seconds) : seconds[s] \in Seq(Flows)
    BY LenProperties, ElementOfSeq
  <2>2. ASSUME NEW s \in 1..Len(seconds), NEW k \in DOMAIN seconds[s]
        PROVE  seconds[s][k] \in Flows
    BY <2>1, LenProperties, ElementOfSeq
  <2> QED
    BY <2>1, <2>2
<1>2. w \in Nat /\ N \in Nat
  BY RingAssumption
<1>3. ASSUME NEW x \in Past(w)
      PROVE  LET a == Len(seconds) - x[1]
             IN  /\ x = <<x[1], x[2]>> /\ x[1] \in 1..Len(seconds) /\ a \in 0..(w - 1)
                 /\ Second(a) = seconds[x[1]] /\ x[2] \in Moving(Second(a))
                 /\ FlowAt(x) = Second(a)[x[2]] /\ FlowAt(x) \in Flows
  <2> DEFINE a == Len(seconds) - x[1]
  <2>1. PICK s \in DOMAIN seconds : \E k \in DOMAIN seconds[s] : x = <<s, k>>
    BY DEF Past
  <2> PICK k \in DOMAIN seconds[s] : x = <<s, k>>
    BY <2>1
  <2>2. /\ x[1] = s /\ x[2] = k /\ s > Len(seconds) - w /\ seconds[s][k].bytes > 0
    BY <2>1 DEF Past
  <2>3. a \in 0..(w - 1) /\ a < Len(seconds) /\ Len(seconds) - a = s
    BY <1>1, <1>2, <2>2
  <2>4. Second(a) = seconds[s]
    BY <2>3 DEF Second
  <2>5. k \in Moving(seconds[s])
    BY <2>2 DEF Moving
  <2>6. FlowAt(x) = seconds[s][k] /\ FlowAt(x) \in Flows
    BY <1>1, <2>2 DEF FlowAt
  <2> QED
    BY <1>1, <2>1, <2>2, <2>3, <2>4, <2>5, <2>6
<1>4. ASSUME NEW a \in 0..(w - 1), NEW k \in Moving(Second(a))
      PROVE  /\ Len(seconds) - a \in 1..Len(seconds)
             /\ <<Len(seconds) - a, k>> \in Past(w)
  <2> DEFINE s == Len(seconds) - a
  <2>1. a < Len(seconds)
    BY DEF Moving, Second
  <2>2. s \in 1..Len(seconds) /\ s > Len(seconds) - w /\ Second(a) = seconds[s]
    BY <1>1, <1>2, <2>1 DEF Second
  <2> HIDE DEF s
  <2>3. k \in DOMAIN seconds[s] /\ seconds[s][k].bytes > 0
    BY <2>2 DEF Moving
  <2>4. <<s, k>> \in {s} \X DOMAIN seconds[s]
    BY <2>3
  <2>5. <<s, k>> \in UNION {{t} \X DOMAIN seconds[t] : t \in DOMAIN seconds}
    BY <1>1, <2>2, <2>4
  <2>6. <<s, k>> \in Past(w)
    BY <2>2, <2>3, <2>5 DEF Past
  <2> QED
    BY <2>2, <2>6 DEF s
<1> QED
  BY <1>3, <1>4

\* There are finitely many.
LEMMA PastFinite ==
  ASSUME seconds \in Seq(Seq(Flows)), NEW w
  PROVE  IsFiniteSet(Past(w))
<1> DEFINE At2(s) == {s} \X DOMAIN seconds[s]
           all == {At2(s) : s \in DOMAIN seconds}
<1>1. IsFiniteSet(DOMAIN seconds)
  <2>1. Len(seconds) \in Nat /\ DOMAIN seconds = 1..Len(seconds)
    BY LenProperties
  <2> QED
    BY <2>1, FS_Interval
<1>2. ASSUME NEW s \in DOMAIN seconds
      PROVE  IsFiniteSet(At2(s))
  <2>1. seconds[s] \in Seq(Flows)
    BY LenProperties, ElementOfSeq
  <2>2. Len(seconds[s]) \in Nat /\ DOMAIN seconds[s] = 1..Len(seconds[s])
    BY <2>1, LenProperties
  <2>3. IsFiniteSet(1..Len(seconds[s]))
    BY <2>2, FS_Interval
  <2>4. IsFiniteSet({s})
    BY FS_Singleton
  <2> QED
    BY <2>2, <2>3, <2>4, FS_Product
<1>3. IsFiniteSet(all)
  <2> DEFINE at == [s \in DOMAIN seconds |-> At2(s)]
  <2>1. at \in Surjection(DOMAIN seconds, all)
    BY DEF Surjection
  <2> HIDE DEF at, all
  <2> QED
    BY <1>1, <2>1, FS_Surjection
<1>4. \A T \in all : IsFiniteSet(T)
  BY <1>2
<1>5. IsFiniteSet(UNION all)
  <2> HIDE DEF all
  <2> QED
    BY <1>3, <1>4, FS_UNION
<1>6. Past(w) \subseteq UNION all
  BY DEF Past
<1> QED
  BY <1>5, <1>6, FS_Subset

\* A sum over flows of one second is the sum over their places in it.
LEMMA SecondSum ==
  ASSUME NEW fs \in Seq(Flows), NEW s, NEW U \in SUBSET DOMAIN fs,
         NEW R, R = Range(Row(s, U)),
         NEW B, \A k \in U : B[<<s, k>>] = Bytes(fs)[k]
  PROVE  SumFunctionOnSet(B, R) = SumFunctionOnSet(Bytes(fs), U)
<1> DEFINE f == Bytes(fs)
<1>1. IsFiniteSet(U) /\ \A k \in U : f[k] \in Nat
  BY CarriedNat
<1>2. \A k \in U : B[Row(s, U)[k]] = f[k]
  BY DEF Row
<1> HIDE DEF f
<1>3. SumFunctionOnSet(B, Range(Row(s, U))) = SumFunctionOnSet(f, U)
  BY <1>1, <1>2, SumRow
<1> QED
  BY <1>3 DEF f

\* Flows of the last w seconds, those at U[a] in the second that is a old.
Selects(w, U) == \A a \in 0..(w - 1) : U[a] \subseteq Moving(Second(a))
Selected(w, U) == {x \in Past(w) : x[2] \in U[Len(seconds) - x[1]]}

\* A sum over flows of the last w seconds is the sum of those of each second.
LEMMA HistorySum ==
  ASSUME seconds \in Seq(Seq(Flows)), NEW w \in 1..N, NEW U, Selects(w, U)
  PROVE  LET B == [x \in Past(w) |-> FlowAt(x).bytes]
             D == Selected(w, U)
             of == [a \in 0..(w - 1) |-> SumFunctionOnSet(Bytes(Second(a)), U[a])]
         IN  /\ IsFiniteSet(D) /\ \A x \in D : B[x] \in Nat
             /\ SumFunctionOnSet(B, D) = SumFunctionOnSet(of, 0..(w - 1))
<1> DEFINE L == Len(seconds)
           C == 0..(w - 1)
           B == [x \in Past(w) |-> FlowAt(x).bytes]
           D == Selected(w, U)
           of == [a \in C |-> SumFunctionOnSet(Bytes(Second(a)), U[a])]
           class == [x \in D |-> L - x[1]]
           Group(a) == {x \in D : class[x] = a}
           grouped == [a \in C |-> SumFunctionOnSet(B, Group(a))]
<1>0. w \in Nat /\ L \in Nat
  BY RingAssumption, LenProperties
<1>1. IsFiniteSet(D) /\ IsFiniteSet(C)
  <2>1. IsFiniteSet(D)
    BY PastFinite, FS_Subset DEF Selected
  <2>2. IsFiniteSet(C)
    BY <1>0, FS_Interval
  <2> QED
    BY <2>1, <2>2
<1>2. \A x \in Past(w) : /\ x = <<x[1], x[2]>> /\ L - x[1] \in C /\ x[1] \in 1..L
                        /\ Second(L - x[1]) = seconds[x[1]]
                        /\ x[2] \in Moving(Second(L - x[1]))
                        /\ FlowAt(x) = Second(L - x[1])[x[2]] /\ FlowAt(x) \in Flows
  BY PastIs
<1>3. \A a \in C : \A k : k \in Moving(Second(a)) => <<L - a, k>> \in Past(w) /\ L - a \in 1..L
  BY PastIs
<1>4. class \in [D -> C]
  BY <1>2 DEF Selected
<1>5. \A x \in D : B[x] \in Nat
  BY <1>2, FlowsAssumption DEF Selected
<1>6. ASSUME NEW a \in C
      PROVE  SumFunctionOnSet(B, Group(a)) = SumFunctionOnSet(Bytes(Second(a)), U[a])
  <2> DEFINE fs == Second(a)
             R == Range(Row(L - a, U[a]))
  <2>1. L - (L - a) = a /\ \A x \in D : L - x[1] = a => x[1] = L - a
    BY <1>0, <1>2 DEF Selected
  <2>2. \A k \in U[a] : <<L - a, k>> \in D
    BY <1>3, <2>1 DEF Selected, Selects
  <2>3. Group(a) = R
    <3>1. R = {<<L - a, k>> : k \in U[a]}
      BY DEF Row, Range
    <3>2. \A x \in Group(a) : x = <<L - a, x[2]>> /\ x[2] \in U[a]
      BY <1>2, <2>1 DEF Selected
    <3>3. \A k \in U[a] : <<L - a, k>> \in Group(a)
      BY <2>1, <2>2
    <3> HIDE DEF Group, R
    <3> QED
      BY <3>1, <3>2, <3>3
  <2>4. fs \in Seq(Flows) /\ U[a] \in SUBSET DOMAIN fs
    <3>1. fs \in Seq(Flows)
      <4>1. a < L => L - a \in 1..L
        BY <1>0
      <4>2. CASE a < L
        BY <4>1, <4>2, ElementOfSeq DEF Second
      <4>3. CASE ~(a < L)
        BY <4>3 DEF Second
      <4> QED
        BY <4>2, <4>3
    <3> QED
      BY <3>1 DEF Moving, Selects
  <2>5. \A k \in U[a] : B[<<L - a, k>>] = Bytes(fs)[k]
    <3> TAKE k \in U[a]
    <3>1. <<L - a, k>> \in Past(w)
      BY <2>2 DEF Selected
    <3>2. FlowAt(<<L - a, k>>) = fs[k]
      BY <1>2, <2>1, <3>1
    <3> QED
      BY <2>4, <3>1, <3>2 DEF Bytes
  <2> HIDE DEF R, fs, B, Group
  <2>6. SumFunctionOnSet(B, R) = SumFunctionOnSet(Bytes(fs), U[a])
    <3> DEFINE V == U[a]
               s == L - a
    <3>1. /\ fs \in Seq(Flows) /\ V \in SUBSET DOMAIN fs /\ R = Range(Row(s, V))
          /\ \A k \in V : B[<<s, k>>] = Bytes(fs)[k]
      BY <2>4, <2>5 DEF R
    <3> HIDE DEF V, s
    <3>2. SumFunctionOnSet(B, R) = SumFunctionOnSet(Bytes(fs), V)
      BY <3>1, SecondSum
    <3> QED
      BY <3>2 DEF V
  <2> QED
    BY <2>3, <2>6 DEF fs
<1>7. SumFunctionOnSet(grouped, C) = SumFunctionOnSet(of, C)
  <2>1. \A a \in C : grouped[a] = of[a]
    BY <1>6
  <2> HIDE DEF grouped, of, C
  <2> QED
    BY <1>1, <2>1, SumSame
<1>8. SumFunctionOnSet(B, D) = SumFunctionOnSet(grouped, C)
  <2> DEFINE group == [a \in C |-> Group(a)]
  <2>1. group \in [C -> SUBSET D] /\ \A x \in D : \E a \in C : x \in group[a]
    BY <1>4
  <2>2. \A a, b \in C : a # b => group[a] \cap group[b] = {}
    OBVIOUS
  <2>3. \A a \in C : grouped[a] = SumFunctionOnSet(B, group[a])
    <3> HIDE DEF Group
    <3> QED
      OBVIOUS
  <2> HIDE DEF B, C, D, group, grouped, L
  <2>4. IsFiniteSet(D) /\ IsFiniteSet(C)
    BY <1>1
  <2>5. group \in [C -> SUBSET D]
    BY <2>1
  <2>6. \A x \in D : \E a \in C : x \in group[a]
    BY <2>1
  <2> QED
    BY <1>5, <2>2, <2>3, <2>4, <2>5, <2>6, SumByGroup
<1> QED
  BY <1>1, <1>5, <1>7, <1>8

\* What selected flows moved is what those of each second carried, added up.
LEMMA MovedIs ==
  ASSUME seconds \in Seq(Seq(Flows)), NEW w \in 1..N, NEW T, Selects(w, T)
  PROVE  Moved(Selected(w, T)) =
           [in  |-> SumFunction([a \in 0..(w - 1) |-> Carried(Second(a), T[a]).in]),
            out |-> SumFunction([a \in 0..(w - 1) |-> Carried(Second(a), T[a]).out])]
<1> DEFINE C == 0..(w - 1)
           B == [x \in Past(w) |-> FlowAt(x).bytes]
           X == Selected(w, T)
           I == [a \in C |-> Into(Second(a), T[a])]
           O == [a \in C |-> T[a] \ Into(Second(a), T[a])]
           down == {x \in X : FlowAt(x).dst.home /\ ~FlowAt(x).src.home}
           Total(U) == SumFunctionOnSet([a \in C |-> SumFunctionOnSet(Bytes(Second(a)), U[a])], C)
<1>1. Selects(w, I) /\ Selects(w, O)
  BY DEF Selects, Into
<1>2. \A x \in Past(w) : /\ Len(seconds) - x[1] \in C
                        /\ FlowAt(x) = Second(Len(seconds) - x[1])[x[2]]
  BY PastIs
<1>3. down = Selected(w, I) /\ X \ down = Selected(w, O)
  <2>1. ASSUME NEW x \in X
        PROVE  /\ x \in down <=> x[2] \in I[Len(seconds) - x[1]]
               /\ x \in X \ down <=> x[2] \in O[Len(seconds) - x[1]]
    <3>1. x[2] \in T[Len(seconds) - x[1]] /\ x \in Past(w)
      BY DEF Selected
    <3> QED
      BY <1>2, <3>1 DEF Into, Incoming
  <2>2. Selected(w, I) \subseteq X /\ Selected(w, O) \subseteq X /\ X \subseteq Past(w)
    BY <1>2 DEF Selected, Into
  <2> QED
    BY <2>1, <2>2 DEF Selected
<1>4. ASSUME NEW U, Selects(w, U)
      PROVE  SumFunction([x \in Selected(w, U) |-> FlowAt(x).bytes]) = Total(U)
  <2> DEFINE D == Selected(w, U)
             b == [x \in D |-> FlowAt(x).bytes]
  <2>1. IsFiniteSet(D) /\ SumFunctionOnSet(B, D) = Total(U)
    BY <1>4, HistorySum
  <2>2. \A x \in D : b[x] = B[x]
    BY DEF Selected
  <2>3. SumFunction(b) = SumFunctionOnSet(b, D)
    BY DEF SumFunction
  <2> HIDE DEF b, B, D, Total
  <2>4. SumFunctionOnSet(b, D) = SumFunctionOnSet(B, D)
    BY <2>1, <2>2, SumSame
  <2>5. SumFunction(b) = Total(U)
    BY <2>1, <2>3, <2>4
  <2> QED
    BY <2>5 DEF b, D
<1>5. /\ [a \in C |-> Carried(Second(a), T[a]).in]
           = [a \in C |-> SumFunctionOnSet(Bytes(Second(a)), I[a])]
      /\ [a \in C |-> Carried(Second(a), T[a]).out]
           = [a \in C |-> SumFunctionOnSet(Bytes(Second(a)), O[a])]
  BY DEF Carried
<1>6. /\ SumFunction([a \in C |-> Carried(Second(a), T[a]).in]) = Total(I)
      /\ SumFunction([a \in C |-> Carried(Second(a), T[a]).out]) = Total(O)
  <2>1. /\ SumFunction([a \in C |-> SumFunctionOnSet(Bytes(Second(a)), I[a])]) = Total(I)
        /\ SumFunction([a \in C |-> SumFunctionOnSet(Bytes(Second(a)), O[a])]) = Total(O)
    BY DEF SumFunction
  <2> HIDE DEF Total
  <2> QED
    BY <1>5, <2>1
<1>7. Moved(X) = [in |-> SumFunction([x \in down |-> FlowAt(x).bytes]),
                  out |-> SumFunction([x \in X \ down |-> FlowAt(x).bytes])]
  BY DEF Moved
<1>8. /\ SumFunction([x \in down |-> FlowAt(x).bytes]) = Total(I)
      /\ SumFunction([x \in X \ down |-> FlowAt(x).bytes]) = Total(O)
  <2> HIDE DEF down, X, I, O, Total
  <2> QED
    BY <1>1, <1>3, <1>4
<1> QED
  BY <1>6, <1>7, <1>8

\* What the ring knows of the last w seconds.
LEMMA RingKnows ==
  ASSUME HistoryInv, NEW w \in 1..N, NEW a \in 0..(w - 1)
  PROVE  Faithful(ring[SlotOf(a)], Second(a))
<1>1. a \in Slots
  BY RingAssumption DEF Slots
<1> QED
  BY <1>1 DEF HistoryInv, SlotOf, Slot

\* The total of the snapshot.
LEMMA TotalIs ==
  ASSUME HistoryInv, NEW w \in 1..N
  PROVE  Sum(w, LAMBDA b : b.total) = Moved(Past(w))
<1> DEFINE C == 0..(w - 1)
           T == [a \in C |-> Moving(Second(a))]
<1>1. seconds \in Seq(Seq(Flows))
  BY DEF HistoryInv
<1>2. Selects(w, T)
  BY DEF Selects
<1>3. Selected(w, T) = Past(w)
  <2>1. \A x \in Past(w) : x[2] \in T[Len(seconds) - x[1]]
    BY <1>1, PastIs
  <2> QED
    BY <2>1 DEF Selected
<1>4. \A a \in C : ring[SlotOf(a)].total = Carried(Second(a), T[a])
  BY RingKnows DEF Faithful, Counts
<1>5. /\ [a \in C |-> ring[SlotOf(a)].total.in] = [a \in C |-> Carried(Second(a), T[a]).in]
      /\ [a \in C |-> ring[SlotOf(a)].total.out] = [a \in C |-> Carried(Second(a), T[a]).out]
  BY <1>4
<1>6. Sum(w, LAMBDA b : b.total) =
        [in  |-> SumFunction([a \in C |-> ring[SlotOf(a)].total.in]),
         out |-> SumFunction([a \in C |-> ring[SlotOf(a)].total.out])]
  BY DEF Sum
<1> HIDE DEF T
<1>7. Moved(Selected(w, T)) =
        [in  |-> SumFunction([a \in C |-> Carried(Second(a), T[a]).in]),
         out |-> SumFunction([a \in C |-> Carried(Second(a), T[a]).out])]
  BY <1>1, <1>2, MovedIs
<1> QED
  BY <1>3, <1>5, <1>6, <1>7

\* The flows of the last w seconds under each key of an axis.
Shown(w, n) ==
  [key \in UNION {KeysOf(n, FlowAt(x)) : x \in Past(w)} |->
     Moved({x \in Past(w) : key \in KeysOf(n, FlowAt(x))})]

\* Those of one key, second by second.
LEMMA KeySelected ==
  ASSUME seconds \in Seq(Seq(Flows)), NEW w \in 1..N, NEW n, NEW key,
         NEW T, T = [a \in 0..(w - 1) |-> With(n, key, Second(a))]
  PROVE  /\ Selects(w, T)
         /\ Selected(w, T) = {x \in Past(w) : key \in KeysOf(n, FlowAt(x))}
<1>1. Selects(w, T)
  BY DEF Selects, With
<1>2. ASSUME NEW x \in Past(w)
      PROVE  x[2] \in T[Len(seconds) - x[1]] <=> key \in KeysOf(n, FlowAt(x))
  <2> DEFINE a == Len(seconds) - x[1]
  <2>1. a \in 0..(w - 1) /\ x[2] \in Moving(Second(a)) /\ FlowAt(x) = Second(a)[x[2]]
    BY PastIs
  <2> HIDE DEF a
  <2>2. x[2] \in T[a] <=> key \in KeysOf(n, FlowAt(x))
    BY <2>1 DEF With
  <2> QED
    BY <2>2 DEF a
<1> QED
  BY <1>1, <1>2 DEF Selected

\* The panel of an uncapped axis.
LEMMA PanelIs ==
  ASSUME HistoryInv, NEW w \in 1..N, NEW n \in Axes
  PROVE  Panel(w, n) = Shown(w, n)
<1> DEFINE C == 0..(w - 1)
           Buckets == UNION {DOMAIN ring[SlotOf(a)][n] : a \in C}
           Past1 == UNION {KeysOf(n, FlowAt(x)) : x \in Past(w)}
<1>1. seconds \in Seq(Seq(Flows))
  BY DEF HistoryInv
<1>2. \A a \in C : /\ DOMAIN ring[SlotOf(a)][n] = Keys(n, Second(a))
                  /\ \A key \in Keys(n, Second(a)) :
                       ring[SlotOf(a)][n][key] = Carried(Second(a), With(n, key, Second(a)))
  <2> TAKE a \in C
  <2>1. Counts(ring[SlotOf(a)], Second(a))
    BY RingKnows DEF Faithful
  <2> QED
    BY <2>1 DEF Counts
<1>3. Buckets = Past1
  <2>1. ASSUME NEW key
        PROVE  (\E a \in C : key \in Keys(n, Second(a)))
                 <=> (\E x \in Past(w) : key \in KeysOf(n, FlowAt(x)))
    <3>1. ASSUME NEW a \in C, key \in Keys(n, Second(a))
          PROVE  \E x \in Past(w) : key \in KeysOf(n, FlowAt(x))
      <4>1. PICK k \in Moving(Second(a)) : key \in KeysOf(n, Second(a)[k])
        BY <3>1 DEF Keys
      <4>2. <<Len(seconds) - a, k>> \in Past(w) /\ Len(seconds) - a \in 1..Len(seconds)
        BY <1>1, PastIs
      <4>3. FlowAt(<<Len(seconds) - a, k>>) = Second(a)[k]
        <5>1. Second(a) = seconds[Len(seconds) - a]
          BY <1>1, <4>2, LenProperties DEF Second
        <5> QED
          BY <5>1 DEF FlowAt
      <4> QED
        BY <4>1, <4>2, <4>3
    <3>2. ASSUME NEW x \in Past(w), key \in KeysOf(n, FlowAt(x))
          PROVE  \E a \in C : key \in Keys(n, Second(a))
      <4> DEFINE a == Len(seconds) - x[1]
      <4>1. a \in C /\ x[2] \in Moving(Second(a)) /\ FlowAt(x) = Second(a)[x[2]]
        BY <1>1, PastIs
      <4> HIDE DEF a
      <4>2. key \in Keys(n, Second(a))
        BY <3>2, <4>1 DEF Keys
      <4> QED
        BY <4>1, <4>2
    <3> QED
      BY <3>1, <3>2
  <2> QED
    BY <1>2, <2>1
<1>4. ASSUME NEW key
      PROVE  Sum(w, LAMBDA b : At(b[n], key)) =
               Moved({x \in Past(w) : key \in KeysOf(n, FlowAt(x))})
  <2> DEFINE T == [a \in C |-> With(n, key, Second(a))]
  <2>1. \A a \in C : At(ring[SlotOf(a)][n], key) = Carried(Second(a), T[a])
    <3> TAKE a \in C
    <3>1. CASE key \in Keys(n, Second(a))
      BY <1>2, <3>1 DEF At
    <3>2. CASE key \notin Keys(n, Second(a))
      <4>1. T[a] = {}
        BY <3>2 DEF With, Keys
      <4>2. At(ring[SlotOf(a)][n], key) = Zero
        BY <1>2, <3>2 DEF At
      <4> QED
        BY <4>1, <4>2, CarriedNone
    <3> QED
      BY <3>1, <3>2
  <2>2. /\ [a \in C |-> At(ring[SlotOf(a)][n], key).in]
             = [a \in C |-> Carried(Second(a), T[a]).in]
        /\ [a \in C |-> At(ring[SlotOf(a)][n], key).out]
             = [a \in C |-> Carried(Second(a), T[a]).out]
    BY <2>1
  <2>3. Sum(w, LAMBDA b : At(b[n], key)) =
          [in  |-> SumFunction([a \in C |-> At(ring[SlotOf(a)][n], key).in]),
           out |-> SumFunction([a \in C |-> At(ring[SlotOf(a)][n], key).out])]
    BY DEF Sum
  <2>4. T = [a \in 0..(w - 1) |-> With(n, key, Second(a))]
    OBVIOUS
  <2> HIDE DEF T
  <2>5. /\ Selects(w, T)
        /\ Selected(w, T) = {x \in Past(w) : key \in KeysOf(n, FlowAt(x))}
    BY <1>1, <2>4, KeySelected, ZenonT(30)
  <2>6. Moved(Selected(w, T)) =
          [in  |-> SumFunction([a \in C |-> Carried(Second(a), T[a]).in]),
           out |-> SumFunction([a \in C |-> Carried(Second(a), T[a]).out])]
    BY <1>1, <2>5, MovedIs
  <2> QED
    BY <2>2, <2>3, <2>5, <2>6
<1>5. Panel(w, n) = [key \in Buckets |-> Sum(w, LAMBDA b : At(b[n], key))]
  BY DEF Panel
<1> QED
  BY <1>3, <1>4, <1>5 DEF Shown

\* The remote ends of a flow are its peers.
LEMMA RemotePeers ==
  ASSUME NEW f \in Flows
  PROVE  Remote(f) = Peers(f)
<1>1. f.src.home \in BOOLEAN /\ f.dst.home \in BOOLEAN
  BY FlowsAssumption
<1> QED
  BY <1>1 DEF Remote, Peers, Internal, Incoming

\* A snapshot of w seconds counts every flow that arrived in the last w seconds
\* once, in its direction, under the key of each axis, with all its bytes, and
\* nothing else, whatever the ring's size, the flows and where the cursor is
\* (aggregator.rs:192-226).
THEOREM SnapshotCounts == Spec => []SnapshotMatchesHistory
<1>1. ASSUME HistoryInv, NEW w \in 1..N
      PROVE  LET S == Past(w) IN
             /\ Sum(w, LAMBDA b : b.total) = Moved(S)
             /\ Panel(w, "service") = ByKey(S, LAMBDA f : {f.service} \ {None})
             /\ Panel(w, "src") = ByKey(S, LAMBDA f : LanHosts(f))
             /\ Panel(w, "country") = ByKey(S, LAMBDA f : {e.country : e \in Remote(f)} \ {None})
             /\ Panel(w, "host") =
                  ByKey(S, LAMBDA f : {<<Label(f, e), e.country>> : e \in Remote(f)})
  <2> DEFINE S == Past(w)
  <2>1. \A x \in S : FlowAt(x) \in Flows
    BY <1>1, PastIs DEF HistoryInv
  <2>2. \A x \in S : Remote(FlowAt(x)) = Peers(FlowAt(x))
    BY <2>1, RemotePeers
  <2>3. Panel(w, "service") = ByKey(S, LAMBDA f : {f.service} \ {None})
    <3>1. Panel(w, "service") = Shown(w, "service")
      BY <1>1, PanelIs DEF Axes
    <3> HIDE DEF S
    <3>2. ASSUME NEW x \in S
          PROVE  KeysOf("service", FlowAt(x)) = {FlowAt(x).service} \ {None}
      BY <2>2 DEF KeysOf
    <3>3. UNION {KeysOf("service", FlowAt(x)) : x \in S}
            = UNION {{FlowAt(x).service} \ {None} : x \in S}
      BY <3>2
    <3>4. ASSUME NEW key
          PROVE  {x \in S : key \in KeysOf("service", FlowAt(x))}
                   = {x \in S : key \in {FlowAt(x).service} \ {None}}
      BY <3>2
    <3>5. Shown(w, "service") = ByKey(S, LAMBDA f : {f.service} \ {None})
      BY <3>3, <3>4 DEF Shown, ByKey, S
    <3> QED
      BY <3>1, <3>5
  <2>4. Panel(w, "src") = ByKey(S, LAMBDA f : LanHosts(f))
    <3>1. Panel(w, "src") = Shown(w, "src")
      BY <1>1, PanelIs DEF Axes
    <3> HIDE DEF S
    <3>2. ASSUME NEW x \in S
          PROVE  KeysOf("src", FlowAt(x)) = LanHosts(FlowAt(x))
      BY <2>2 DEF KeysOf
    <3>3. UNION {KeysOf("src", FlowAt(x)) : x \in S}
            = UNION {LanHosts(FlowAt(x)) : x \in S}
      BY <3>2
    <3>4. ASSUME NEW key
          PROVE  {x \in S : key \in KeysOf("src", FlowAt(x))}
                   = {x \in S : key \in LanHosts(FlowAt(x))}
      BY <3>2
    <3>5. Shown(w, "src") = ByKey(S, LAMBDA f : LanHosts(f))
      BY <3>3, <3>4 DEF Shown, ByKey, S
    <3> QED
      BY <3>1, <3>5
  <2>5. Panel(w, "country") = ByKey(S, LAMBDA f : {e.country : e \in Remote(f)} \ {None})
    <3>1. Panel(w, "country") = Shown(w, "country")
      BY <1>1, PanelIs DEF Axes
    <3> HIDE DEF S
    <3>2. ASSUME NEW x \in S
          PROVE  KeysOf("country", FlowAt(x)) = {e.country : e \in Remote(FlowAt(x))} \ {None}
      BY <2>2 DEF KeysOf
    <3>3. UNION {KeysOf("country", FlowAt(x)) : x \in S}
            = UNION {{e.country : e \in Remote(FlowAt(x))} \ {None} : x \in S}
      BY <3>2
    <3>4. ASSUME NEW key
          PROVE  {x \in S : key \in KeysOf("country", FlowAt(x))}
                   = {x \in S : key \in {e.country : e \in Remote(FlowAt(x))} \ {None}}
      BY <3>2
    <3>5. Shown(w, "country") = ByKey(S, LAMBDA f : {e.country : e \in Remote(f)} \ {None})
      BY <3>3, <3>4 DEF Shown, ByKey, S
    <3> QED
      BY <3>1, <3>5
  <2>6. Panel(w, "host") = ByKey(S, LAMBDA f : {<<Label(f, e), e.country>> : e \in Remote(f)})
    <3>1. Panel(w, "host") = Shown(w, "host")
      BY <1>1, PanelIs DEF Axes
    <3> HIDE DEF S
    <3>2. ASSUME NEW x \in S
          PROVE  KeysOf("host", FlowAt(x)) = {<<Label(FlowAt(x), e), e.country>> : e \in Remote(FlowAt(x))}
      BY <2>2 DEF KeysOf
    <3>3. UNION {KeysOf("host", FlowAt(x)) : x \in S}
            = UNION {{<<Label(FlowAt(x), e), e.country>> : e \in Remote(FlowAt(x))} : x \in S}
      BY <3>2
    <3>4. ASSUME NEW key
          PROVE  {x \in S : key \in KeysOf("host", FlowAt(x))}
                   = {x \in S : key \in {<<Label(FlowAt(x), e), e.country>> : e \in Remote(FlowAt(x))}}
      BY <3>2
    <3>5. Shown(w, "host") = ByKey(S, LAMBDA f : {<<Label(f, e), e.country>> : e \in Remote(f)})
      BY <3>3, <3>4 DEF Shown, ByKey, S
    <3> QED
      BY <3>1, <3>5
  <2> QED
    BY <1>1, <2>3, <2>4, <2>5, <2>6, TotalIs
<1>2. HistoryInv => SnapshotMatchesHistory
  BY <1>1 DEF SnapshotMatchesHistory
<1> QED
  BY <1>2, HistoryInvariant, PTL

\* What flows of one second moved is what the second carried.
LEMMA MovedInSecond ==
  ASSUME seconds \in Seq(Seq(Flows)), NEW a \in Slots, NEW K \in SUBSET Moving(Second(a)),
         NEW X, X = {x \in Past(N) : Len(seconds) - x[1] = a /\ x[2] \in K}
  PROVE  Moved(X) = Carried(Second(a), K)
<1> DEFINE C == 0..(N - 1)
           T == [b \in C |-> IF b = a THEN K ELSE {}]
           in == [b \in C |-> Carried(Second(b), T[b]).in]
           out == [b \in C |-> Carried(Second(b), T[b]).out]
<1>1. N \in 1..N /\ a \in C /\ IsFiniteSet(C)
  BY RingAssumption, FS_Interval DEF Slots
<1>2. Selects(N, T)
  BY DEF Selects
<1>3. Selected(N, T) = X
  <2>1. \A x \in Past(N) : Len(seconds) - x[1] \in C
    BY <1>1, PastIs
  <2> QED
    BY <2>1 DEF Selected
<1>4. Moved(X) = [in |-> SumFunction(in), out |-> SumFunction(out)]
  <2> HIDE DEF T
  <2> QED
    BY <1>1, <1>2, <1>3, MovedIs
<1>5. /\ in[a] = Carried(Second(a), K).in /\ out[a] = Carried(Second(a), K).out
      /\ in[a] \in Nat /\ out[a] \in Nat
  <2>1. Second(a) \in Seq(Flows)
    <3>1. Len(seconds) \in Nat /\ a \in Nat
      BY <1>1, LenProperties
    <3>2. a < Len(seconds) => Len(seconds) - a \in 1..Len(seconds)
      BY <3>1
    <3>3. CASE a < Len(seconds)
      BY <3>2, <3>3, ElementOfSeq DEF Second
    <3>4. CASE ~(a < Len(seconds))
      BY <3>4 DEF Second
    <3> QED
      BY <3>3, <3>4
  <2>2. K \in SUBSET DOMAIN Second(a)
    BY DEF Moving
  <2>3. Carried(Second(a), K).in \in Nat /\ Carried(Second(a), K).out \in Nat
    BY <2>1, <2>2, CarriedNat
  <2> QED
    BY <1>1, <2>3
<1>6. \A b \in C : b # a => in[b] = 0 /\ out[b] = 0
  BY CarriedNone DEF Zero
<1>7. SumFunction(in) = in[a] /\ SumFunction(out) = out[a]
  <2>1. SumFunction(in) = SumFunctionOnSet(in, C) /\ SumFunction(out) = SumFunctionOnSet(out, C)
    BY DEF SumFunction
  <2> HIDE DEF in, out, C
  <2> QED
    BY <1>1, <1>5, <1>6, <2>1, SumOnly
<1> QED
  BY <1>4, <1>5, <1>7 DEF Carried

\* The cap never splits a peer: each second counts all of a peer's bytes or
\* none, and lacks a peer only when it holds DST_CAP others, whatever the cap
\* and the flows (aggregator.rs:153-163).
THEOREM PeersWhole == Spec => []DstAllOrNothing
<1>1. ASSUME HistoryInv, NEW s \in DOMAIN seconds, s > Len(seconds) - N
      PROVE  LET dst == ring[SlotOf(Len(seconds) - s)].dst
                 all == ByKey({x \in Past(N) : x[1] = s}, LAMBDA f : {e.ip : e \in Remote(f)})
             IN  /\ \A ip \in DOMAIN dst : ip \in DOMAIN all /\ dst[ip] = all[ip]
                 /\ DOMAIN dst # DOMAIN all => Cardinality(DOMAIN dst) = DstCap
  <2> DEFINE L == Len(seconds)
             a == L - s
             fs == Second(a)
             b == ring[SlotOf(a)]
             P == {x \in Past(N) : x[1] = s}
             Ips(f) == {e.ip : e \in Remote(f)}
             all == ByKey(P, LAMBDA f : {e.ip : e \in Remote(f)})
  <2>1. /\ seconds \in Seq(Seq(Flows)) /\ L \in Nat /\ s \in 1..L
        /\ N \in 1..N /\ a \in Slots /\ a \in 0..(N - 1) /\ L - a = s
    <3>1. seconds \in Seq(Seq(Flows)) /\ L \in Nat /\ s \in 1..L
      BY <1>1, LenProperties DEF HistoryInv
    <3> QED
      BY <1>1, <3>1, RingAssumption DEF Slots
  <2>2. CountsPeers(b, fs)
    BY <1>1, <2>1, RingKnows DEF Faithful
  <2>3. \A x \in P : /\ L - x[1] = a /\ x[2] \in Moving(fs) /\ x = <<s, x[2]>>
                     /\ FlowAt(x) = fs[x[2]] /\ FlowAt(x) \in Flows
    BY <2>1, PastIs
  <2>4. ASSUME NEW k \in Moving(fs)
        PROVE  <<s, k>> \in P /\ FlowAt(<<s, k>>) = fs[k]
    <3>1. <<s, k>> \in P
      BY <2>1, PastIs
    <3> QED
      BY <2>3, <3>1
  <2>5. ASSUME NEW x \in P
        PROVE  Ips(FlowAt(x)) = KeysOf("dst", fs[x[2]])
    BY <2>3, RemotePeers DEF KeysOf
  <2>6. /\ DOMAIN all = UNION {Ips(FlowAt(x)) : x \in P}
        /\ \A ip \in DOMAIN all : all[ip] = Moved({x \in P : ip \in Ips(FlowAt(x))})
    BY DEF ByKey
  <2> HIDE DEF all, Ips, P, fs, a, b
  <2>7. DOMAIN all = Keys("dst", fs)
    <3>1. ASSUME NEW ip
          PROVE  (\E x \in P : ip \in Ips(FlowAt(x)))
                   <=> (\E k \in Moving(fs) : ip \in KeysOf("dst", fs[k]))
      <4>1. ASSUME NEW x \in P, ip \in Ips(FlowAt(x))
            PROVE  \E k \in Moving(fs) : ip \in KeysOf("dst", fs[k])
        BY <2>3, <2>5, <4>1
      <4>2. ASSUME NEW k \in Moving(fs), ip \in KeysOf("dst", fs[k])
            PROVE  \E x \in P : ip \in Ips(FlowAt(x))
        <5>1. <<s, k>> \in P /\ <<s, k>>[2] = k
          BY <2>4
        <5>2. ip \in Ips(FlowAt(<<s, k>>))
          BY <2>5, <4>2, <5>1
        <5> QED
          BY <5>1, <5>2
      <4> QED
        BY <4>1, <4>2
    <3> QED
      BY <2>6, <3>1 DEF Keys
  <2>8. ASSUME NEW ip \in DOMAIN all
        PROVE  all[ip] = Carried(fs, With("dst", ip, fs))
    <3> DEFINE K == With("dst", ip, fs)
               X == {x \in P : ip \in Ips(FlowAt(x))}
    <3>1. K \in SUBSET Moving(fs)
      BY DEF With
    <3>2. X = {x \in Past(N) : L - x[1] = a /\ x[2] \in K}
      <4>1. \A x \in P : x \in X <=> x[2] \in K
        BY <2>3, <2>5 DEF With
      <4>2. \A x \in Past(N) : x \in P <=> L - x[1] = a
        <5>1. \A x \in Past(N) : x[1] \in 1..L
          BY <2>1, PastIs
        <5> QED
          BY <2>1, <5>1 DEF P
      <4>3. P \subseteq Past(N)
        BY DEF P
      <4> QED
        BY <4>1, <4>2, <4>3
    <3> HIDE DEF K, X
    <3>3. Moved(X) = Carried(fs, K)
      BY <2>1, <3>1, <3>2, MovedInSecond DEF fs
    <3>4. all[ip] = Moved(X)
      BY <2>6 DEF X
    <3> QED
      BY <3>3, <3>4 DEF K
  <2>9. /\ \A ip \in DOMAIN b.dst : ip \in DOMAIN all /\ b.dst[ip] = all[ip]
        /\ DOMAIN b.dst # DOMAIN all => Cardinality(DOMAIN b.dst) = DstCap
    BY <2>2, <2>7, <2>8 DEF CountsPeers
  <2> QED
    BY <2>9 DEF all, P, a, b
<1>2. HistoryInv => DstAllOrNothing
  BY <1>1 DEF DstAllOrNothing
<1> QED
  BY <1>2, HistoryInvariant, PTL

\* A set of ages has a youngest.
LEMMA MinIn ==
  ASSUME NEW T \in SUBSET Slots, T # {}
  PROVE  Min(T) \in T
<1> DEFINE Q == {U \in SUBSET Slots : U # {} => \E x \in U : \A y \in U : x =< y}
<1>1. {} \in Q
  OBVIOUS
<1>2. ASSUME NEW U \in SUBSET Slots, NEW x \in Slots \ U, U \in Q
      PROVE  U \cup {x} \in Q
  <2>1. Slots \subseteq Nat
    BY RingAssumption DEF Slots
  <2>2. CASE U = {}
    BY <2>1, <2>2
  <2>3. CASE U # {}
    <3>1. PICK y \in U : \A z \in U : y =< z
      BY <1>2, <2>3
    <3>2. CASE x =< y
      <4>1. \A z \in U \cup {x} : x =< z
        BY <2>1, <3>1, <3>2
      <4> QED
        BY <4>1
    <3>3. CASE ~(x =< y)
      <4>1. \A z \in U \cup {x} : y =< z
        BY <2>1, <3>1, <3>3
      <4> QED
        BY <4>1
    <3> QED
      BY <3>2, <3>3
  <2> QED
    BY <2>2, <2>3
<1>3. IsFiniteSet(Slots)
  BY RingAssumption, FS_Interval DEF Slots
<1> HIDE DEF Q
<1>4. T \in Q
  BY <1>1, <1>2, <1>3, ElementInduction
<1>5. \E x \in T : \A y \in T : x =< y
  BY <1>4 DEF Q
<1> QED
  BY <1>5 DEF Min

\* A peer is shown without a country only when none of its counted flows in
\* the window had one, and else with one they had (aggregator.rs:160-162,
\* 208-214).
THEOREM CountriesKept == Spec => []PeerCountryKept
<1>1. ASSUME HistoryInv, NEW w \in 1..N, NEW ip
      PROVE  LET counted == {x \in Past(w) : ip \in DOMAIN ring[SlotOf(Len(seconds) - x[1])].dst}
                 had == (UNION {{e.country : e \in {e \in Remote(FlowAt(x)) : e.ip = ip}} :
                                  x \in counted}) \ {None}
             IN  IF had = {} THEN PeerCountry(w, ip) = None ELSE PeerCountry(w, ip) \in had
  <2> DEFINE C == 0..(w - 1)
             B(a) == ring[SlotOf(a)]
             Of(f) == {e.country : e \in {e \in Remote(f) : e.ip = ip}}
             counted == {x \in Past(w) : ip \in DOMAIN ring[SlotOf(Len(seconds) - x[1])].dst}
             had == (UNION {{e.country : e \in {e \in Remote(FlowAt(x)) : e.ip = ip}} :
                              x \in counted}) \ {None}
             known == {a \in C : ip \in DOMAIN B(a).dst /\ B(a).dstCountry[ip] # None}
  <2>1. seconds \in Seq(Seq(Flows)) /\ C \subseteq Slots
    BY <1>1, RingAssumption DEF HistoryInv, Slots
  <2>2. \A a \in C : KnowsCountries(B(a), Second(a))
    BY <1>1, RingKnows DEF Faithful
  <2>3. ASSUME NEW a \in C, ip \in DOMAIN B(a).dst
        PROVE  IF Had(ip, Second(a)) = {} THEN B(a).dstCountry[ip] = None
               ELSE B(a).dstCountry[ip] \in Had(ip, Second(a))
    BY <2>2, <2>3 DEF KnowsCountries
  <2>4. ASSUME NEW c
        PROVE  c \in had <=> c # None /\ \E x \in counted : c \in Of(FlowAt(x))
    OBVIOUS
  <2>5. ASSUME NEW c, NEW a
        PROVE  c \in Had(ip, Second(a)) <=>
                 c # None /\ \E k \in Moving(Second(a)) :
                   c \in {e.country : e \in {p \in Peers(Second(a)[k]) : p.ip = ip}}
    BY DEF Had
  <2>6. ASSUME NEW c
        PROVE  c \in had <=> \E a \in C : ip \in DOMAIN B(a).dst /\ c \in Had(ip, Second(a))
    <3>1. ASSUME NEW x \in counted, c \in Of(FlowAt(x)), c # None
          PROVE  \E a \in C : ip \in DOMAIN B(a).dst /\ c \in Had(ip, Second(a))
      <4> DEFINE a == Len(seconds) - x[1]
      <4>1. /\ a \in C /\ x[2] \in Moving(Second(a)) /\ FlowAt(x) = Second(a)[x[2]]
            /\ FlowAt(x) \in Flows /\ ip \in DOMAIN B(a).dst
        BY <2>1, PastIs
      <4>2. c \in {e.country : e \in {p \in Peers(FlowAt(x)) : p.ip = ip}}
        BY <3>1, <4>1, RemotePeers
      <4> HIDE DEF a
      <4>3. c \in Had(ip, Second(a))
        BY <2>5, <3>1, <4>1, <4>2
      <4> QED
        BY <4>1, <4>3
    <3>2. ASSUME NEW a \in C, ip \in DOMAIN B(a).dst, c \in Had(ip, Second(a))
          PROVE  c # None /\ \E x \in counted : c \in Of(FlowAt(x))
      <4>1. PICK k \in Moving(Second(a)) :
              c \in {e.country : e \in {p \in Peers(Second(a)[k]) : p.ip = ip}}
        BY <2>5, <3>2
      <4> DEFINE x == <<Len(seconds) - a, k>>
      <4>2. x \in Past(w) /\ Len(seconds) - a \in 1..Len(seconds)
        BY <2>1, PastIs
      <4>3. /\ FlowAt(x) = Second(a)[k] /\ FlowAt(x) \in Flows
            /\ Len(seconds) - x[1] = a
        <5>1. Len(seconds) - (Len(seconds) - a) = a
          BY <2>1, LenProperties
        <5> QED
          BY <2>1, <4>2, <5>1, PastIs
      <4>4. x \in counted
        BY <3>2, <4>2, <4>3
      <4>5. c \in Of(FlowAt(x))
        BY <4>1, <4>3, RemotePeers
      <4> QED
        BY <2>5, <3>2, <4>4, <4>5
    <3> QED
      BY <2>4, <3>1, <3>2
  <2>7. PeerCountry(w, ip) = IF known = {} THEN None ELSE B(Min(known)).dstCountry[ip]
    BY DEF PeerCountry
  <2>8. CASE known = {}
    <3>1. \A a \in C : ip \in DOMAIN B(a).dst => Had(ip, Second(a)) = {}
      <4> TAKE a \in C
      <4>1. ip \in DOMAIN B(a).dst => B(a).dstCountry[ip] = None
        BY <2>8
      <4>2. None \notin Had(ip, Second(a))
        BY <2>5
      <4> HIDE DEF B
      <4> QED
        BY <2>3, <4>1, <4>2
    <3> HIDE DEF had, known, B
    <3>2. had = {}
      BY <2>6, <3>1
    <3> QED
      BY <2>7, <2>8, <3>2 DEF had
  <2>9. CASE known # {}
    <3> DEFINE m == Min(known)
    <3>1. m \in known
      <4>1. known \in SUBSET Slots
        BY <2>1
      <4> HIDE DEF known
      <4> QED
        BY <2>9, <4>1, MinIn
    <3>2. m \in C /\ ip \in DOMAIN B(m).dst /\ B(m).dstCountry[ip] # None
      BY <3>1
    <3> HIDE DEF had, known, B, m
    <3>3. B(m).dstCountry[ip] \in Had(ip, Second(m))
      BY <2>3, <3>2
    <3>4. B(m).dstCountry[ip] \in had
      BY <2>6, <3>2, <3>3
    <3>5. PeerCountry(w, ip) \in had
      BY <2>7, <2>9, <3>4 DEF m
    <3> QED
      BY <3>5 DEF had
  <2> QED
    BY <2>8, <2>9
<1>2. HistoryInv => PeerCountryKept
  BY <1>1 DEF PeerCountryKept
<1> QED
  BY <1>2, HistoryInvariant, PTL
=============================================================================
