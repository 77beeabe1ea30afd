----------------------------- MODULE Aggregator -----------------------------
(***************************************************************************)
(* crates/api/src/aggregator.rs: the ring of one-second buckets behind     *)
(* /api/stats.  The bridge records flows, a timer task ticks and requests  *)
(* take snapshots, each under the one mutex, so every operation is a step. *)
(***************************************************************************)
EXTENDS Buckets, Sequences, FiniteSetsExt

CONSTANTS
  N,         \* BUCKETS: slots of the ring (600 in the code)
  Flows,     \* the flows that may arrive
  MaxTicks,  \* bound: seconds that pass
  MaxFlows   \* bound: flows recorded

ASSUME RingAssumption == N \in Nat \ {0}

ASSUME FlowsAssumption ==
  \A f \in Flows : /\ f.bytes \in Nat
                   /\ f.src.home \in BOOLEAN /\ f.dst.home \in BOOLEAN

VARIABLES
  ring,      \* slot -> bucket
  cur,       \* the slot of the current second
  seconds    \* history: the flows of every second since the start, in order

vars == <<ring, cur, seconds>>

Slots == 0..(N - 1)

\* The slot of the bucket that is a seconds old.
SlotOf_Forward(a) == (cur + a) % N                               \* mutant
SlotOf(a) == (cur + N - a) % N

\* The contract this module is shown to implement.
W == INSTANCE SlidingWindow
       WITH recent <- [a \in Slots |-> ring[(cur + N - a) % N]]

----------------------------------------------------------------------------
Init ==
  /\ ring = [s \in Slots |-> EmptyBucket]
  /\ cur = 0
  /\ seconds = << <<>> >>

\* Aggregator::record, called by the Redis bridge for every flow it gets.
Record(f) ==
  /\ MapThenSumSet(LAMBDA s : Len(seconds[s]), DOMAIN seconds) < MaxFlows
  /\ ring' = [ring EXCEPT ![cur] = Folded(@, f)]
  /\ seconds' = [seconds EXCEPT ![Len(seconds)] = Append(@, f)]
  /\ UNCHANGED cur

\* mutant: the slot rolled onto is not cleared
Rolled_Kept(s) == ring
Rolled(s) == [ring EXCEPT ![s] = EmptyBucket]

\* Aggregator::tick, once a second.
Tick ==
  /\ Len(seconds) <= MaxTicks
  /\ cur' = (cur + 1) % N
  /\ ring' = Rolled(cur')
  /\ seconds' = Append(seconds, <<>>)

Next == Tick \/ \E f \in Flows : Record(f)

Spec == Init /\ [][Next]_vars

----------------------------------------------------------------------------
(* Aggregator::snapshot over the last w seconds.  The ranking that keeps   *)
(* the largest rows of each panel, and the division that makes a rate of a *)
(* total, are left out.                                                    *)

Sum(w, d(_)) ==
  [in |-> SumFunction([a \in 0..(w - 1) |-> d(ring[SlotOf(a)]).in]),
   out |-> SumFunction([a \in 0..(w - 1) |-> d(ring[SlotOf(a)]).out])]

Panel(w, axis) ==
  [k \in UNION {DOMAIN ring[SlotOf(a)][axis] : a \in 0..(w - 1)} |->
     Sum(w, LAMBDA b : At(b[axis], k))]

\* The newest bucket that knows the peer's country gives it.
PeerCountry(w, ip) ==
  LET known == {a \in 0..(w - 1) : /\ ip \in DOMAIN ring[SlotOf(a)].dst
                                   /\ ring[SlotOf(a)].dstCountry[ip] # None}
  IN  IF known = {} THEN None ELSE ring[SlotOf(Min(known))].dstCountry[ip]

----------------------------------------------------------------------------
(* The history, as the properties read it.                                 *)

\* Where the flows of the last w seconds are; those without bytes carry no
\* information.
Past(w) ==
  {x \in UNION {{s} \X DOMAIN seconds[s] : s \in DOMAIN seconds} :
     x[1] > Len(seconds) - w /\ seconds[x[1]][x[2]].bytes > 0}

FlowAt(x) == seconds[x[1]][x[2]]

\* The end of the flow that is not at home; the destination when neither is.
Remote(f) == IF ~f.dst.home THEN {f.dst} ELSE {e \in {f.src} : ~e.home}

\* The bytes of the flows at S, into and out of the home network.
Moved(S) ==
  LET down == {x \in S : FlowAt(x).dst.home /\ ~FlowAt(x).src.home}
      Bytes(T) == SumFunction([x \in T |-> FlowAt(x).bytes])
  IN  [in |-> Bytes(down), out |-> Bytes(S \ down)]

ByKey(S, K(_)) ==
  [k \in UNION {K(FlowAt(x)) : x \in S} |-> Moved({x \in S : k \in K(FlowAt(x))})]

----------------------------------------------------------------------------
(* Properties.                                                             *)

\* The ring keeps its shape and the per-second cap on remote peers holds
\* (aggregator.rs:20-21, 154).
TypeOK ==
  /\ DOMAIN ring = Slots /\ cur \in Slots
  /\ \A s \in Slots :
       /\ DOMAIN ring[s].dstCountry = DOMAIN ring[s].dst
       /\ Cardinality(DOMAIN ring[s].dst) <= DstCap

\* The ring with a moving cursor is the sliding window: nothing older than N
\* seconds survives a tick, nothing younger is lost (aggregator.rs:83-86).
RefinesSlidingWindow == W!Spec

\* A snapshot of w seconds counts every flow that arrived in the last w seconds
\* once, in the direction the home network sees, under the key of each axis, and
\* nothing else, wherever the cursor is in the ring (aggregator.rs:88-109,
\* 192-226).  All bytes of a flow count in the second it arrives, however long it
\* was under way; README.md:34-35 promises a gauge that is weighted by duration,
\* which the code does not do.
SnapshotMatchesHistory ==
  \A w \in 1..N :
    LET S == Past(w) IN
    /\ Sum(w, LAMBDA b : b.total) = Moved(S)
    /\ Panel(w, "service") = ByKey(S, LAMBDA f : {f.service} \ {None})
    /\ Panel(w, "src") = ByKey(S, LAMBDA f : LanHosts(f))
    /\ Panel(w, "country") = ByKey(S, LAMBDA f : {e.country : e \in Remote(f)} \ {None})
    /\ Panel(w, "host") =
         ByKey(S, LAMBDA f : {<<Label(f, e), e.country>> : e \in Remote(f)})

\* The cap never splits a peer: within a second a peer's bytes are all
\* counted or none are, and a peer is missing only when the second is full
\* (aggregator.rs:153-163).
DstAllOrNothing ==
  \A s \in DOMAIN seconds :
    s > Len(seconds) - N =>
      LET dst == ring[SlotOf(Len(seconds) - s)].dst
          all == ByKey({x \in Past(N) : x[1] = s}, LAMBDA f : {e.ip : e \in Remote(f)})
      IN  /\ \A ip \in DOMAIN dst : ip \in DOMAIN all /\ dst[ip] = all[ip]
          /\ DOMAIN dst # DOMAIN all => Cardinality(DOMAIN dst) = DstCap

\* A peer of the panel is shown without a country only if no flow counted for
\* it in the window had one, and else with one it had (aggregator.rs:160-162,
\* 208-214).
PeerCountryKept ==
  \A w \in 1..N :
    \A ip \in DOMAIN Panel(w, "dst") :
      LET counted == {x \in Past(w) : ip \in DOMAIN ring[SlotOf(Len(seconds) - x[1])].dst}
          had == (UNION {{e.country : e \in {e \in Remote(FlowAt(x)) : e.ip = ip}} :
                          x \in counted}) \ {None}
      IN  IF had = {} THEN PeerCountry(w, ip) = None ELSE PeerCountry(w, ip) \in had
=============================================================================
