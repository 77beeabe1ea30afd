------------------------------ MODULE Buckets ------------------------------
(***************************************************************************)
(* One second of traffic in crates/api/src/aggregator.rs: a bucket folds   *)
(* every flow into parallel keyed axes (remote peer, country, LAN host,    *)
(* service, labelled host), each counting bytes in and out as seen from    *)
(* the home network.  Packets follow bytes and are left out, as is the AS  *)
(* number, which only refines the key of the host axis.                    *)
(***************************************************************************)
EXTENDS Integers, FiniteSets

CONSTANTS
  DstCap,    \* DST_CAP: distinct peers one second may hold (4000 in the code)
  None       \* an absent country, service or app (serde null)

ASSUME DstCapAssumption == DstCap \in Nat

\* An endpoint is [ip, home, country]; a flow is
\* [bytes, src, dst : endpoint, service, app].
Incoming(f) == f.dst.home /\ ~f.src.home
Internal(f) == f.src.home /\ f.dst.home

\* DataInfo, and what one flow adds to it: outgoing, internal and transit
\* traffic all count as out.
Zero == [in |-> 0, out |-> 0]
Plus(d, e) == [in |-> d.in + e.in, out |-> d.out + e.out]
Info(f) == IF Incoming(f) THEN [in |-> f.bytes, out |-> 0]
                          ELSE [in |-> 0, out |-> f.bytes]

\* Axes are functions whose domain is the keys seen so far.
Empty == [k \in {} |-> Zero]
At(axis, k) == IF k \in DOMAIN axis THEN axis[k] ELSE Zero

\* entry(k).or_default().add(..) for each key in K, which has at most one.
Bump(axis, K, d) ==
  [k \in DOMAIN axis \cup K |-> IF k \in K THEN Plus(At(axis, k), d) ELSE axis[k]]

\* The home end of a flow: src when outgoing or internal, dst when incoming.
LanHosts(f) ==
  IF f.src.home THEN {f.src.ip} ELSE IF f.dst.home THEN {f.dst.ip} ELSE {}

\* The remote end: src when incoming, dst when outgoing or in transit.
Peers(f) == IF Internal(f) THEN {} ELSE IF Incoming(f) THEN {f.src} ELSE {f.dst}

Label(f, p) == IF f.app = None THEN p.ip ELSE f.app

\* The soft cap: a peer that is not counted yet needs room.
Admitted_NoRecheck(b, f) ==                                       \* mutant
  {p \in Peers(f) : Cardinality(DOMAIN b.dst) < DstCap}
Admitted_OffByOne(b, f) ==                                        \* mutant
  {p \in Peers(f) : Cardinality(DOMAIN b.dst) <= DstCap \/ p.ip \in DOMAIN b.dst}
Admitted(b, f) ==
  {p \in Peers(f) : Cardinality(DOMAIN b.dst) < DstCap \/ p.ip \in DOMAIN b.dst}

EmptyBucket ==
  [total |-> Zero, service |-> Empty, src |-> Empty, dst |-> Empty,
   dstCountry |-> [ip \in {} |-> None], country |-> Empty, host |-> Empty]

\* mutant: the first country seen for a peer is kept even if it is null
Countries_FirstOnly(c, A) ==
  [ip \in DOMAIN c \cup {p.ip : p \in A} |->
     IF ip \in DOMAIN c THEN c[ip] ELSE (CHOOSE p \in A : p.ip = ip).country]

\* A peer's country is the first one that is not null.
Countries(c, A) ==
  [ip \in DOMAIN c \cup {p.ip : p \in A} |->
     IF ip \in DOMAIN c /\ (c[ip] # None \/ ip \notin {p.ip : p \in A})
       THEN c[ip]
       ELSE (CHOOSE p \in A : p.ip = ip).country]

\* Aggregator::record on the current bucket.
Folded(b, f) ==
  LET d == Info(f)
      A == Admitted(b, f)
  IN  IF f.bytes = 0
        THEN b
        ELSE [total |-> Plus(b.total, d),
              service |-> Bump(b.service, {f.service} \ {None}, d),
              src |-> Bump(b.src, LanHosts(f), d),
              dst |-> Bump(b.dst, {p.ip : p \in A}, d),
              dstCountry |-> Countries(b.dstCountry, A),
              country |-> Bump(b.country, {p.country : p \in Peers(f)} \ {None}, d),
              host |-> Bump(b.host, {<<Label(f, p), p.country>> : p \in Peers(f)}, d)]
=============================================================================
