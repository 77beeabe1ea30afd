---------------------------- MODULE RoutingProofs ----------------------------
(***************************************************************************)
(* Proofs about LandGraph and Routing for any data and any order of its    *)
(* files: the graphs are well made and connect what they should, the ways  *)
(* found are the shortest and lead from end to end, what is kept is what   *)
(* the complete data decides, and the overlay shows the POPs that take     *)
(* part in routing.                                                        *)
(***************************************************************************)
EXTENDS Routing, CableProofs, FiniteSetTheorems, TLAPS

----------------------------------------------------------------------------

(***************************************************************************)
(* The backbone on land.                                                   *)
(***************************************************************************)

\* The edges two hubs may have between them.
HubEdge(coord, a, b, r) ==
  [from |-> a, to |-> b, line |-> 0, rev |-> r,
   w |-> IF r THEN haversineKm(coord[b], coord[a]) ELSE haversineKm(coord[a], coord[b])]

HubPairs(coord) == (1..Len(coord)) \X (1..Len(coord))

HubEdges(coord) ==
  {HubEdge(coord, p[1], p[2], FALSE) : p \in HubPairs(coord)}
    \cup {HubEdge(coord, p[1], p[2], TRUE) : p \in HubPairs(coord)}

\* With every edge the same one the other way.
TwoWay(edge) == \A e \in edge : \E f \in edge : f.from = e.to /\ f.to = e.from

\* There are finitely many, between hubs, of natural lengths, along no cable.
LEMMA HubEdgesAre ==
  ASSUME NEW coord \in Seq(Point)
  PROVE  /\ IsFiniteSet(HubEdges(coord))
         /\ \A e \in HubEdges(coord) : /\ e.from \in 1..Len(coord) /\ e.to \in 1..Len(coord)
                                       /\ e.w \in Nat /\ e.line = 0
<1> DEFINE N == Len(coord)
           P == HubPairs(coord)
<1>1. N \in Nat /\ \A n \in 1..N : coord[n] \in Point
  OBVIOUS
<1>2. IsFiniteSet(P)
  <2>1. IsFiniteSet(1..N)
    BY <1>1, FS_Interval
  <2> HIDE DEF N
  <2>2. IsFiniteSet((1..N) \X (1..N))
    BY <2>1, FS_Product
  <2> QED
    BY <2>2 DEF HubPairs, N
<1>3. ASSUME NEW r \in BOOLEAN
      PROVE  IsFiniteSet({HubEdge(coord, p[1], p[2], r) : p \in P})
  <2> DEFINE S == {HubEdge(coord, p[1], p[2], r) : p \in P}
             g == [p \in P |-> HubEdge(coord, p[1], p[2], r)]
  <2> HIDE DEF P
  <2>1. g \in [P -> S]
    OBVIOUS
  <2>2. \A y \in S : \E p \in P : g[p] = y
    OBVIOUS
  <2> HIDE DEF g, S
  <2>3. g \in Surjection(P, S)
    BY <2>1, <2>2 DEF Surjection
  <2> QED
    BY <1>2, <2>3, FS_Surjection DEF S
<1>4. IsFiniteSet(HubEdges(coord))
  BY <1>3, FS_Union DEF HubEdges
<1>5. ASSUME NEW e \in HubEdges(coord)
      PROVE  /\ e.from \in 1..Len(coord) /\ e.to \in 1..Len(coord)
             /\ e.w \in Nat /\ e.line = 0
  <2>1. PICK p \in P, r \in BOOLEAN : e = HubEdge(coord, p[1], p[2], r)
    BY DEF HubEdges
  <2>2. p[1] \in 1..N /\ p[2] \in 1..N
    BY DEF HubPairs
  <2>3. coord[p[1]] \in Point /\ coord[p[2]] \in Point
    BY <1>1, <2>2
  <2>4. haversineKm(coord[p[2]], coord[p[1]]) \in Nat /\ haversineKm(coord[p[1]], coord[p[2]]) \in Nat
    BY <2>3, DistanceIs
  <2>5. e.w \in Nat
    BY <2>1, <2>4 DEF HubEdge
  <2> QED
    BY <2>1, <2>2, <2>5 DEF HubEdge
<1> QED
  BY <1>4, <1>5

\* The two edges of a pair of hubs.
LEMMA UndirectedIs ==
  ASSUME NEW coord \in Seq(Point), NEW a \in 1..Len(coord), NEW b \in 1..Len(coord)
  PROVE  Undirected(coord, a, b) = {HubEdge(coord, a, b, FALSE), HubEdge(coord, b, a, TRUE)}
         /\ Undirected(coord, a, b) \in SUBSET HubEdges(coord)
         /\ TwoWay(Undirected(coord, a, b))
<1> DEFINE there == HubEdge(coord, a, b, FALSE)
           back == HubEdge(coord, b, a, TRUE)
<1>1. Undirected(coord, a, b) = {there, back}
  BY DEF Undirected, Both, HubEdge
<1>2. there \in HubEdges(coord) /\ back \in HubEdges(coord)
  <2>1. <<a, b>> \in HubPairs(coord) /\ <<b, a>> \in HubPairs(coord)
    BY DEF HubPairs
  <2>2. there = HubEdge(coord, <<a, b>>[1], <<a, b>>[2], FALSE)
        /\ back = HubEdge(coord, <<b, a>>[1], <<b, a>>[2], TRUE)
    OBVIOUS
  <2> HIDE DEF there, back
  <2> QED
    BY <2>1, <2>2 DEF HubEdges
<1>3. there.from = a /\ there.to = b /\ back.from = b /\ back.to = a
  BY DEF HubEdge
<1> HIDE DEF there, back
<1>4. TwoWay(Undirected(coord, a, b))
  BY <1>1, <1>3 DEF TwoWay
<1> QED
  BY <1>1, <1>2, <1>4 DEF there, back

\* Edges of both ways together are of both ways.
LEMMA TwoWays ==
  ASSUME NEW E, \A edge \in E : TwoWay(edge)
  PROVE  TwoWay(UNION E)
  BY DEF TwoWay

\* An edge one of whose ways no zone blocks: the code tests only one.
Tested(coord, zones, e) ==
  \/ ~zonesBlock(coord[e.from], coord[e.to], zones)
  \/ ~zonesBlock(coord[e.to], coord[e.from], zones)

\* Pairs of hubs that may be linked.
Links(h, zones) ==
  {p \in SUBSET (1..Len(h.hubs)) :
     \E i, j \in 1..Len(h.hubs) : p = {i, j} /\ ~zonesBlock(h.hubs[i], h.hubs[j], zones)}

\* Both directions of a link that is open one way are tested.
LEMMA UndirectedTested ==
  ASSUME NEW coord \in Seq(Point), NEW a \in 1..Len(coord), NEW b \in 1..Len(coord), NEW zones,
         \/ ~zonesBlock(coord[a], coord[b], zones)
         \/ ~zonesBlock(coord[b], coord[a], zones)
  PROVE  \A e \in Undirected(coord, a, b) : Tested(coord, zones, e)
<1>1. ASSUME NEW e \in Undirected(coord, a, b)
      PROVE  (e.from = a /\ e.to = b) \/ (e.from = b /\ e.to = a)
  BY UndirectedIs DEF HubEdge
<1> QED
  BY <1>1 DEF Tested

\* Linking one hub to its nearest neighbours keeps them that.
LEMMA LinkKeeps ==
  ASSUME NEW h, h.hubs \in Seq(Point), NEW polys, NEW topo,
         NEW linked \in SUBSET Links(h, zonesOf(polys, topo)), NEW i \in 1..Len(h.hubs)
  PROVE  LinkHub(h, polys, topo, linked, i) \in SUBSET Links(h, zonesOf(polys, topo))
<1>1. Len(h.hubs) \in Nat /\ DOMAIN h.hubs = 1..Len(h.hubs)
  OBVIOUS
<1>2. Candidates(h.hubs, i) \subseteq 1..Len(h.hubs)
  BY <1>1 DEF Candidates
<1>3. \A j \in Eligible(h, polys, topo, i) :
        j \in 1..Len(h.hubs) /\ ~zonesBlock(h.hubs[i], h.hubs[j], zonesOf(polys, topo))
  BY <1>2, Zenon DEF Eligible
<1> DEFINE E == Eligible(h, polys, topo, i)
<1>4. \A p \in LinkHub(h, polys, topo, linked, i) :
        p \in linked \/ \E j \in E : p = {i, j}
  BY DEF LinkHub
<1>5. \A j \in E : {i, j} \in Links(h, zonesOf(polys, topo))
  BY <1>3 DEF Links
<1> QED
  BY <1>4, <1>5

\* The linking of all the hubs, an operator of its own.
AllLinked(h, polys, topo, base, all) ==
  FoldLeft(LAMBDA linked, i : LinkHub(h, polys, topo, linked, i), base, all)

\* Linking all of them does.
LEMMA LinksFold ==
  ASSUME NEW h, h.hubs \in Seq(Point), NEW polys, NEW topo,
         NEW base \in SUBSET Links(h, zonesOf(polys, topo)),
         NEW all \in Seq(1..Len(h.hubs))
  PROVE  AllLinked(h, polys, topo, base, all) \in SUBSET Links(h, zonesOf(polys, topo))
<1> DEFINE n == Len(all)
           V == SUBSET Links(h, zonesOf(polys, topo))
           R(f) == f = [T \in SUBSET (DOMAIN all) |->
                          IF T = {} THEN base
                          ELSE LinkHub(h, polys, topo, f[T \ {Max(T)}], all[Max(T)])]
           F == CHOOSE f : R(f)
           step == [a \in (1..n) \X V |-> LinkHub(h, polys, topo, a[2], all[a[1]])]
<1>1. AllLinked(h, polys, topo, base, all) = F[DOMAIN all]
  BY Zenon DEF AllLinked, FoldLeft, MapThenFoldSet
<1>2. n \in Nat /\ DOMAIN all = 1..n /\ \A i \in 1..n : all[i] \in 1..Len(h.hubs)
  OBVIOUS
<1>3. R(F)
  <2>1. \A a \in (1..n) \X V : LinkHub(h, polys, topo, a[2], all[a[1]]) \in V
    BY <1>2, LinkKeeps
  <2>2. step \in [(1..n) \X V -> V]
    BY <2>1
  <2>3. \A i \in 1..n, v \in V : step[<<i, v>>] = LinkHub(h, polys, topo, v, all[i])
    OBVIOUS
  <2> HIDE DEF step, V, n
  <2>4. PICK f \in [SUBSET (1..n) -> V] : Folds(f, n, base, step)
    <3>1. base \in V
      BY DEF V
    <3>2. CanFold(n, V, base, step)
      BY <1>2, <2>2, <3>1, FoldExists
    <3> QED
      BY <3>2, Zenon DEF CanFold
  <2>5. ASSUME NEW T \in SUBSET (1..n), T # {}
        PROVE  f[T] = LinkHub(h, polys, topo, f[T \ {Max(T)}], all[Max(T)])
    <3>1. Max(T) \in 1..n /\ f[T \ {Max(T)}] \in V
      BY <1>2, <2>5, MaxIs
    <3>2. f[T] = step[<<Max(T), f[T \ {Max(T)}]>>]
      BY <2>4, <2>5 DEF Folds
    <3> QED
      BY <2>3, <3>1, <3>2
  <2>6. f[{}] = base
    BY <2>4 DEF Folds
  <2>7. R(f)
    BY <1>2, <2>4, <2>5, <2>6
  <2> QED
    BY <2>7
<1> HIDE DEF F
<1>4. F[{}] = base
  BY <1>3
<1>5. ASSUME NEW k \in 1..n
      PROVE  F[1..k] = LinkHub(h, polys, topo, F[1..k - 1], all[k])
  <2>1. /\ 1..k \in SUBSET (DOMAIN all) /\ 1..k # {}
        /\ Max(1..k) = k /\ (1..k) \ {k} = 1..k - 1
    BY <1>2, UpTo
  <2> HIDE DEF n
  <2> QED
    BY <1>3, <2>1
<1>6. \A k \in 1..n : F[1..k - 1] \in V => F[1..k] \in V
  BY <1>2, <1>5, LinkKeeps
<1> HIDE DEF V, n
<1>7. \A k \in 0..n : F[1..k] \in V
  BY <1>2, <1>4, <1>6, FoldInduction DEF V
<1>8. AllLinked(h, polys, topo, base, all) = F[1..n]
  BY <1>1, <1>2
<1>9. F[1..n] \in V
  BY <1>2, <1>7
<1> QED
  BY <1>8, <1>9, Zenon DEF V

\* So the neighbour links are pairs of hubs.
LEMMA NeighboursAre ==
  ASSUME NEW h, h.hubs \in Seq(Point), NEW polys, NEW topo
  PROVE  Neighbours(h, polys, topo) \in SUBSET Links(h, zonesOf(polys, topo))
<1> DEFINE all == [i \in DOMAIN h.hubs |-> i]
           base == {}
<1>1. all \in Seq(1..Len(h.hubs)) /\ base \in SUBSET Links(h, zonesOf(polys, topo))
  OBVIOUS
<1>2. Neighbours(h, polys, topo) =
        AllLinked(h, polys, topo, base, all)
  BY Zenon DEF AllLinked, Neighbours
<1> HIDE DEF all, base
<1> QED
  BY <1>1, <1>2, LinksFold

\* The edges of linked pairs are between hubs, both ways, and tested.
LEMMA PairEdgesAre ==
  ASSUME NEW h, h.hubs \in Seq(Point), NEW zones, NEW pairs \in SUBSET Links(h, zones)
  PROVE  /\ PairEdges(h.hubs, pairs) \in SUBSET HubEdges(h.hubs)
         /\ TwoWay(PairEdges(h.hubs, pairs))
         /\ \A e \in PairEdges(h.hubs, pairs) : Tested(h.hubs, zones, e)
<1> DEFINE E == {Undirected(h.hubs, Min(p), Max(p)) : p \in pairs}
<1>1. ASSUME NEW p \in pairs
      PROVE  /\ Min(p) \in 1..Len(h.hubs) /\ Max(p) \in 1..Len(h.hubs)
             /\ \E i, j \in 1..Len(h.hubs) :
                  /\ ~zonesBlock(h.hubs[i], h.hubs[j], zones)
                  /\ \/ i = Min(p) /\ j = Max(p)
                     \/ i = Max(p) /\ j = Min(p)
  <2>1. PICK i \in 1..Len(h.hubs), j \in 1..Len(h.hubs) :
          p = {i, j} /\ ~zonesBlock(h.hubs[i], h.hubs[j], zones)
    BY DEF Links
  <2>2. p \in SUBSET (1..Len(h.hubs)) /\ p \in SUBSET Nat /\ p # {} /\ Len(h.hubs) \in Nat
    BY <2>1
  <2>3. /\ Min(p) \in p /\ \A y \in p : Min(p) <= y
        /\ Max(p) \in p /\ \A y \in p : Max(p) >= y
    BY <2>2, MinIs, MaxIs
  <2>4. (i = Min(p) /\ j = Max(p)) \/ (i = Max(p) /\ j = Min(p))
    <3>1. i \in p /\ j \in p /\ (Min(p) = i \/ Min(p) = j) /\ (Max(p) = i \/ Max(p) = j)
      BY <2>1, <2>3
    <3>2. i \in Nat /\ j \in Nat /\ Min(p) <= i /\ Min(p) <= j /\ Max(p) >= i /\ Max(p) >= j
      BY <2>3, <3>1
    <3> QED
      BY <3>1, <3>2
  <2> QED
    BY <2>1, <2>2, <2>3, <2>4
<1>2. ASSUME NEW p \in pairs
      PROVE  /\ Undirected(h.hubs, Min(p), Max(p)) \in SUBSET HubEdges(h.hubs)
             /\ TwoWay(Undirected(h.hubs, Min(p), Max(p)))
             /\ \A e \in Undirected(h.hubs, Min(p), Max(p)) : Tested(h.hubs, zones, e)
  BY <1>1, UndirectedIs, UndirectedTested
<1>3. \A edge \in E : /\ edge \in SUBSET HubEdges(h.hubs) /\ TwoWay(edge)
                      /\ \A e \in edge : Tested(h.hubs, zones, e)
  BY <1>2
<1>4. PairEdges(h.hubs, pairs) = UNION E
  BY DEF PairEdges
<1> HIDE DEF E
<1> QED
  BY <1>3, <1>4, TwoWays

\* What hubs.ts holds: the hubs, and the configured edges as pairs of numbers.
HubsOK(h) ==
  /\ h.hubs \in Seq(Point) /\ h.landings \in Seq(Point)
  /\ h.corridorStart \in Nat \cup {NoCorridor}
  /\ h.corridorEdges \in Seq((Nat \ {0}) \X (Nat \ {0}))
  /\ h.trunkEdges \in Seq((Nat \ {0}) \X (Nat \ {0}))

\* So are those of the corridors and the trunks.
LEMMA ForcedEdgesAre ==
  ASSUME NEW h, HubsOK(h)
  PROVE  ForcedEdges(h) \in SUBSET HubEdges(h.hubs) /\ TwoWay(ForcedEdges(h))
<1> DEFINE N == Len(h.hubs)
           corridor == IF h.corridorStart = NoCorridor THEN {}
                       ELSE {<<h.corridorStart + e[1], h.corridorStart + e[2]>> :
                               e \in ToSet(h.corridorEdges)}
           F == {f \in corridor \cup ToSet(h.trunkEdges) : f[1] <= N /\ f[2] <= N}
           E == {Undirected(h.hubs, e[1], e[2]) : e \in F}
<1>1. h.hubs \in Seq(Point) /\ N \in Nat
  BY DEF HubsOK
<1>2. ASSUME NEW e \in ToSet(h.trunkEdges) \cup ToSet(h.corridorEdges)
      PROVE  e[1] \in Nat \ {0} /\ e[2] \in Nat \ {0}
  BY SMTT(30) DEF HubsOK, ToSet
<1>3. ASSUME NEW e \in corridor
      PROVE  e[1] \in Nat \ {0} /\ e[2] \in Nat \ {0}
  <2>1. h.corridorStart \in Nat
    BY <1>3 DEF HubsOK
  <2>2. PICK f \in ToSet(h.corridorEdges) :
          e = <<h.corridorStart + f[1], h.corridorStart + f[2]>>
    BY <1>3
  <2>3. f[1] \in Nat \ {0} /\ f[2] \in Nat \ {0}
    BY <1>2
  <2> QED
    BY <2>1, <2>2, <2>3
<1>4. \A e \in F : e[1] \in 1..N /\ e[2] \in 1..N
  <2> TAKE e \in F
  <2>1. e \in corridor \cup ToSet(h.trunkEdges) /\ e[1] <= N /\ e[2] <= N
    OBVIOUS
  <2> HIDE DEF corridor, F
  <2>2. e[1] \in Nat \ {0} /\ e[2] \in Nat \ {0}
    BY <1>2, <1>3, <2>1
  <2> QED
    BY <1>1, <2>1, <2>2
<1>5. ForcedEdges(h) = UNION E
  BY DEF ForcedEdges
<1> HIDE DEF F, corridor
<1>6. \A e \in F : /\ Undirected(h.hubs, e[1], e[2]) \in SUBSET HubEdges(h.hubs)
                   /\ TwoWay(Undirected(h.hubs, e[1], e[2]))
  BY <1>1, <1>4, UndirectedIs
<1>7. \A edge \in E : edge \in SUBSET HubEdges(h.hubs) /\ TwoWay(edge)
  BY <1>6
<1> HIDE DEF E
<1> QED
  BY <1>5, <1>7, TwoWays

----------------------------------------------------------------------------
(***************************************************************************)
(* Union-find.                                                             *)
(***************************************************************************)

\* The sets part the numbers 1..N; each is tied together by edges; an edge lies
\* within one of them.
Partition(pieces, N) ==
  /\ pieces \in SUBSET SUBSET (1..N) /\ {} \notin pieces
  /\ \A x \in 1..N : \E c \in pieces : x \in c
  /\ \A c, d \in pieces : c # d => c \cap d = {}

AllTied(pieces, edge) == \A c \in pieces : OneTied(edge, c)

Holds(pieces, e) == \E c \in pieces : e.from \in c /\ e.to \in c

\* A union along an edge keeps the classes a partition, tied together, and no
\* edge that lay within a class leads out of one.
LEMMA UnionIs ==
  ASSUME NEW N \in Nat, NEW pieces, Partition(pieces, N), NEW a \in 1..N, NEW b \in 1..N,
         NEW edge, AllTied(pieces, edge),
         \E e \in edge : e.from = a /\ e.to = b,
         \E e \in edge : e.from = b /\ e.to = a
  PROVE  LET r == union(pieces, a, b)
         IN  /\ Partition(r, N) /\ AllTied(r, edge)
             /\ \E c \in r : a \in c /\ b \in c
             /\ \A e : Holds(pieces, e) => Holds(r, e)
<1> DEFINE r == union(pieces, a, b)
           both == {c \in pieces : a \in c \/ b \in c}
<1>1. PICK A \in pieces : a \in A
  BY DEF Partition
<1>2. PICK B \in pieces : b \in B
  BY DEF Partition
<1>3. both = {A, B}
  BY <1>1, <1>2 DEF Partition
<1>4. UNION both = A \cup B
  BY <1>3
<1>5. r = (pieces \ {A, B}) \cup {A \cup B}
  BY <1>3, <1>4 DEF union
<1> HIDE DEF r, both
<1>6. Partition(r, N)
  <2>1. A \cup B \in SUBSET (1..N) /\ A \cup B # {}
    BY <1>1 DEF Partition
  <2>2. r \in SUBSET SUBSET (1..N) /\ {} \notin r
    BY <1>5, <2>1 DEF Partition
  <2>3. ASSUME NEW x \in 1..N
        PROVE  \E c \in r : x \in c
    <3>1. PICK c \in pieces : x \in c
      BY DEF Partition
    <3> QED
      BY <1>5, <3>1
  <2>4. ASSUME NEW c \in pieces \ {A, B}
        PROVE  c \cap (A \cup B) = {}
    BY <1>1, <1>2 DEF Partition
  <2>5. ASSUME NEW c \in r, NEW d \in r, c # d
        PROVE  c \cap d = {}
    <3>1. CASE c = A \cup B
      BY <1>5, <2>4, <2>5, <3>1
    <3>2. CASE d = A \cup B
      BY <1>5, <2>4, <2>5, <3>2
    <3>3. CASE c # A \cup B /\ d # A \cup B
      <4>1. c \in pieces /\ d \in pieces
        BY <1>5, <3>3
      <4> QED
        BY <2>5, <4>1 DEF Partition
    <3> QED
      BY <3>1, <3>2, <3>3
  <2> QED
    BY <2>2, <2>3, <2>5 DEF Partition
<1>7. OneTied(edge, A \cup B)
  <2>1. OneTied(edge, A) /\ OneTied(edge, B) /\ edge \subseteq edge
    BY <1>1, <1>2 DEF AllTied
  <2> QED
    BY <1>1, <1>2, <2>1, TieOne
<1>8. AllTied(r, edge)
  BY <1>5, <1>7 DEF AllTied
<1>9. \A e : Holds(pieces, e) => Holds(r, e)
  BY <1>5 DEF Holds
<1>10. \E c \in r : a \in c /\ b \in c
  BY <1>1, <1>2, <1>5
<1> QED
  BY <1>6, <1>8, <1>9, <1>10 DEF r
\* The partitions whose pieces the edges tie together.
TiedPartitions(edge, N) == {p \in SUBSET SUBSET (1..N) : Partition(p, N) /\ AllTied(p, edge)}

\* The fold of PiecesOf, an operator of its own.
UnionAll(base, edge) == FoldSet(LAMBDA e, pieces : union(pieces, e.from, e.to), base, edge)

\* After the unions along all the edges each edge lies within a class.
LEMMA UnionsFold ==
  ASSUME NEW N \in Nat, NEW edge, IsFiniteSet(edge), Within(edge, N), TwoWay(edge),
         NEW base \in TiedPartitions(edge, N)
  PROVE  /\ UnionAll(base, edge) \in TiedPartitions(edge, N)
         /\ \A e \in edge : Holds(UnionAll(base, edge), e)
<1> DEFINE V == TiedPartitions(edge, N)
           R(f) == f = [T \in SUBSET edge |->
                          IF T = {} THEN base
                          ELSE union(f[T \ {Pick(T)}], Pick(T).from, Pick(T).to)]
           F == CHOOSE f : R(f)
           step == [a \in edge \X V |-> union(a[2], a[1].from, a[1].to)]
<1>1. UnionAll(base, edge) = F[edge]
  BY Zenon DEF UnionAll, FoldSet, MapThenFoldSet, Pick
<1>2. ASSUME NEW e \in edge, NEW p \in V
      PROVE  /\ union(p, e.from, e.to) \in V
             /\ Holds(union(p, e.from, e.to), e)
             /\ \A x : Holds(p, x) => Holds(union(p, e.from, e.to), x)
  <2>1. e.from \in 1..N /\ e.to \in 1..N
    BY DEF Within
  <2>2. /\ \E x \in edge : x.from = e.from /\ x.to = e.to
        /\ \E x \in edge : x.from = e.to /\ x.to = e.from
    BY DEF TwoWay
  <2>3. Partition(p, N) /\ AllTied(p, edge)
    BY DEF TiedPartitions
  <2> DEFINE r == union(p, e.from, e.to)
  <2>4. /\ Partition(r, N) /\ AllTied(r, edge)
        /\ \E c \in r : e.from \in c /\ e.to \in c
        /\ \A x : Holds(p, x) => Holds(r, x)
    BY <2>1, <2>2, <2>3, UnionIs
  <2> HIDE DEF r
  <2>5. r \in V /\ Holds(r, e)
    BY <2>4 DEF TiedPartitions, Partition, Holds
  <2> QED
    BY <2>4, <2>5 DEF r
<1>3. R(F)
  <2>1. \A a \in edge \X V : union(a[2], a[1].from, a[1].to) \in V
    BY <1>2
  <2>2. step \in [edge \X V -> V]
    BY <2>1
  <2>3. \A e \in edge, v \in V : step[<<e, v>>] = union(v, e.from, e.to)
    OBVIOUS
  <2> HIDE DEF step, V
  <2>4. PICK f \in [SUBSET edge -> V] : SetFolds(f, SUBSET edge, base, step)
    <3>1. base \in V
      BY DEF V
    <3>2. CanSetFold(SUBSET edge, V, base, step)
      BY <2>2, <3>1, SetFoldExists
    <3> QED
      BY <3>2, Zenon DEF CanSetFold
  <2>5. ASSUME NEW T \in SUBSET edge, T # {}
        PROVE  f[T] = union(f[T \ {Pick(T)}], Pick(T).from, Pick(T).to)
    <3>1. Pick(T) \in edge /\ f[T \ {Pick(T)}] \in V
      BY <2>5, PickIn
    <3>2. f[T] = step[<<Pick(T), f[T \ {Pick(T)}]>>]
      BY <2>4, <2>5 DEF SetFolds
    <3> QED
      BY <2>3, <3>1, <3>2
  <2>6. f[{}] = base
    BY <2>4 DEF SetFolds
  <2>7. R(f)
    BY <2>4, <2>5, <2>6
  <2> QED
    BY <2>7
<1> HIDE DEF F, V
<1>4. F[{}] = base
  BY <1>3
<1> DEFINE Q == {T \in SUBSET edge : F[T] \in V /\ \A e \in T : Holds(F[T], e)}
<1>5. ASSUME NEW T \in SUBSET edge, \A U \in SUBSET T : U # T => U \in Q
      PROVE  T \in Q
  <2>1. CASE T = {}
    BY <1>4, <2>1 DEF V
  <2>2. CASE T # {}
    <3> DEFINE x == Pick(T)
               U == T \ {x}
    <3>1. x \in T
      BY <2>2, PickIn
    <3>2. F[T] = union(F[U], x.from, x.to)
      BY <1>3, <2>2
    <3> HIDE DEF x
    <3>3. F[U] \in V /\ \A e \in U : Holds(F[U], e)
      BY <1>5, <3>1
    <3>4. x \in edge /\ T = U \cup {x}
      BY <3>1
    <3> HIDE DEF U
    <3>5. /\ F[T] \in V /\ Holds(F[T], x)
          /\ \A e : Holds(F[U], e) => Holds(F[T], e)
      BY <1>2, <3>2, <3>3, <3>4
    <3>6. \A e \in T : Holds(F[T], e)
      BY <3>3, <3>4, <3>5
    <3> QED
      BY <3>5, <3>6
  <2> QED
    BY <2>1, <2>2
<1> HIDE DEF Q
<1>6. edge \in Q
  BY <1>5, SubsetInduction
<1>7. F[edge] \in V /\ \A e \in edge : Holds(F[edge], e)
  BY <1>6 DEF Q
<1> QED
  BY <1>1, <1>7 DEF V

\* The classes of the union-find are the pieces the edges make: they part the
\* hubs, each is tied together by edges, and no edge leads from one to another.
LEMMA PiecesOfAre ==
  ASSUME NEW N \in Nat, NEW edge, IsFiniteSet(edge), Within(edge, N), TwoWay(edge)
  PROVE  /\ PiecesOf(N, edge) \in TiedPartitions(edge, N)
         /\ \A e \in edge : Holds(PiecesOf(N, edge), e)
<1> DEFINE base == {{i} : i \in 1..N}
<1>1. PiecesOf(N, edge) = UnionAll(base, edge)
  BY Zenon DEF PiecesOf, UnionAll
<1>2. Partition(base, N)
  BY DEF Partition
<1>3. AllTied(base, edge)
  BY DEF AllTied, OneTied
<1>4. base \in TiedPartitions(edge, N)
  BY <1>2, <1>3 DEF TiedPartitions, Partition
<1> HIDE DEF base
<1> QED
  BY <1>1, <1>4, UnionsFold

(***************************************************************************)
(* The pieces, largest first.                                              *)
(***************************************************************************)

Ahead(pieces, s) ==
  {t \in pieces : \/ Cardinality(t) > Cardinality(s)
                  \/ /\ Cardinality(t) = Cardinality(s)
                     /\ Min(t) < Min(s)}

\* Each place of the list holds a piece.
LEMMA GroupsAre ==
  ASSUME NEW N \in Nat \ {0}, NEW pieces, Partition(pieces, N)
  PROVE  /\ GroupsOf(pieces) \in Seq(pieces)
         /\ Len(GroupsOf(pieces)) \in Nat \ {0}
<1> DEFINE before == [s \in pieces |-> Ahead(pieces, s)]
           n == Cardinality(pieces)
<1>1. IsFiniteSet(pieces)
  <2>1. IsFiniteSet(1..N)
    BY FS_Interval
  <2>2. IsFiniteSet(SUBSET (1..N))
    BY <2>1, FS_SUBSET
  <2> QED
    BY <2>2, FS_Subset DEF Partition
<1>2. ASSUME NEW s \in pieces
      PROVE  Cardinality(s) \in Nat /\ Min(s) \in s /\ Min(s) \in Nat
  <2>1. s \in SUBSET (1..N) /\ s # {}
    BY DEF Partition
  <2>2. IsFiniteSet(s)
    <3>1. IsFiniteSet(1..N)
      BY FS_Interval
    <3> QED
      BY <2>1, <3>1, FS_Subset
  <2>3. Cardinality(s) \in Nat
    BY <2>2, FS_CardinalityType
  <2>4. s \in SUBSET Nat
    BY <2>1
  <2>5. Min(s) \in s
    BY <2>1, <2>4, MinIs
  <2> QED
    BY <2>3, <2>4, <2>5
<1>3. ASSUME NEW s \in pieces, NEW t \in pieces
      PROVE  t \in before[s] <=> \/ Cardinality(t) > Cardinality(s)
                                 \/ /\ Cardinality(t) = Cardinality(s)
                                    /\ Min(t) < Min(s)
  BY DEF Ahead
<1>4. before \in [pieces -> SUBSET pieces]
  BY DEF Ahead
<1>5. ASSUME NEW s \in pieces, NEW t \in pieces, s # t
      PROVE  Min(s) # Min(t)
  BY <1>2, <1>5 DEF Partition
<1> HIDE DEF before
<1>6. \A x \in pieces : x \notin before[x]
  BY <1>2, <1>3
<1>7. \A x, y \in pieces : x # y => x \in before[y] \/ y \in before[x]
  BY <1>2, <1>3, <1>5
<1>8. ASSUME NEW x \in pieces, NEW y \in pieces, x \in before[y]
      PROVE  before[x] \subseteq before[y]
  <2> SUFFICES ASSUME NEW z \in before[x]
               PROVE  z \in before[y]
    OBVIOUS
  <2>1. z \in pieces
    BY <1>4
  <2> QED
    BY <1>2, <1>3, <1>8, <2>1
<1>9. /\ n \in Nat
      /\ \A k \in 1..n : \E x \in pieces : Cardinality(before[x]) = k - 1
  BY <1>1, <1>4, <1>6, <1>7, <1>8, RankExists
<1>10. pieces # {}
  BY DEF Partition
<1>11. n # 0
  BY <1>1, <1>10, FS_EmptySet
<1>12. \A x \in pieces : before[x] = Ahead(pieces, x)
  BY DEF before
<1> HIDE DEF n
<1>13. \A k \in 1..n : (CHOOSE s \in pieces : Cardinality(Ahead(pieces, s)) = k - 1) \in pieces
  <2> TAKE k \in 1..n
  <2>1. \E s \in pieces : Cardinality(Ahead(pieces, s)) = k - 1
    BY <1>9, <1>12
  <2> QED
    BY <2>1, Zenon
<1>14. GroupsOf(pieces) =
         [k \in 1..n |-> CHOOSE s \in pieces : Cardinality(Ahead(pieces, s)) = k - 1]
  BY Zenon DEF GroupsOf, Ahead, n
<1> QED
  BY <1>9, <1>11, <1>13, <1>14

(***************************************************************************)
(* Joining one piece to the main one.                                      *)
(***************************************************************************)

\* The state of the bridging of pieces.
Merging(coord) ==
  [main : SUBSET (1..Len(coord)), edge : SUBSET HubEdges(coord),
   pieces : SUBSET SUBSET (1..Len(coord))]

\* The classes are the pieces the edges make.
Agreeing(coord, edge, pieces) ==
  /\ edge \in SUBSET HubEdges(coord) /\ TwoWay(edge)
  /\ Partition(pieces, Len(coord)) /\ AllTied(pieces, edge)
  /\ \A e \in edge : Holds(pieces, e)

\* The states in which they are, and every edge is given or tested.
Merges(coord, zones, given) ==
  {s \in Merging(coord) : /\ Agreeing(coord, s.edge, s.pieces)
                          /\ \A e \in s.edge : e \in given \/ Tested(coord, zones, e)}

\* More edges leave tied what was tied.
LEMMA TiedStill ==
  ASSUME NEW edge, NEW more, edge \subseteq more, NEW pieces, AllTied(pieces, edge)
  PROVE  AllTied(pieces, more)
  BY DEF AllTied, OneTied, Closed

\* An edge both ways and the union of its ends keep the classes the pieces.
LEMMA MergeAgrees ==
  ASSUME NEW coord \in Seq(Point), NEW edge, NEW pieces, Agreeing(coord, edge, pieces),
         NEW a \in 1..Len(coord), NEW b \in 1..Len(coord)
  PROVE  Agreeing(coord, edge \cup Undirected(coord, a, b), union(pieces, a, b))
<1> DEFINE U == Undirected(coord, a, b)
           more == edge \cup U
           r == union(pieces, a, b)
<1>1. U \in SUBSET HubEdges(coord) /\ TwoWay(U)
  BY UndirectedIs
<1>2. ASSUME NEW e \in U
      PROVE  (e.from = a /\ e.to = b) \/ (e.from = b /\ e.to = a)
  BY UndirectedIs DEF HubEdge
<1>3. /\ \E e \in U : e.from = a /\ e.to = b
      /\ \E e \in U : e.from = b /\ e.to = a
  <2> DEFINE there == HubEdge(coord, a, b, FALSE)
             back == HubEdge(coord, b, a, TRUE)
  <2>1. there.from = a /\ there.to = b /\ back.from = b /\ back.to = a
    BY DEF HubEdge
  <2> HIDE DEF there, back
  <2>2. U = {there, back}
    BY UndirectedIs DEF there, back
  <2> HIDE DEF U
  <2> QED
    BY <2>1, <2>2
<1> HIDE DEF U
<1>4. more \in SUBSET HubEdges(coord) /\ TwoWay(more)
  BY <1>1 DEF Agreeing, TwoWay
<1>5. /\ \E e \in more : e.from = a /\ e.to = b
      /\ \E e \in more : e.from = b /\ e.to = a
  BY <1>3
<1>6. Len(coord) \in Nat /\ Partition(pieces, Len(coord)) /\ edge \subseteq more
  BY DEF Agreeing
<1>7. AllTied(pieces, more)
  BY <1>6, TiedStill DEF Agreeing
<1> HIDE DEF more
<1>8. /\ Partition(r, Len(coord)) /\ AllTied(r, more)
      /\ \E c \in r : a \in c /\ b \in c
      /\ \A e : Holds(pieces, e) => Holds(r, e)
  BY <1>5, <1>6, <1>7, UnionIs
<1> HIDE DEF r
<1>9. ASSUME NEW e \in more
      PROVE  Holds(r, e)
  <2>1. CASE e \in edge
    BY <1>8, <2>1 DEF Agreeing
  <2>2. CASE e \in U
    BY <1>2, <1>8, <2>2 DEF Holds
  <2> QED
    BY <2>1, <2>2 DEF more
<1>10. Agreeing(coord, more, r)
  BY <1>4, <1>8, <1>9 DEF Agreeing
<1> QED
  BY <1>10 DEF more, U, r

\* The pairs that may be joined, and the nearest of them.
OpenPairs(h, zones, acc, group) ==
  {p \in group \X acc.main : ~zonesBlock(h.hubs[p[1]], h.hubs[p[2]], zones)}

BestOpen(h, zones, acc, group) ==
  CHOOSE p \in OpenPairs(h, zones, acc, group) :
    \A q \in OpenPairs(h, zones, acc, group) :
      haversineKm(h.hubs[p[1]], h.hubs[p[2]]) <= haversineKm(h.hubs[q[1]], h.hubs[q[2]])

\* It is a pair of hubs, and open.
LEMMA BestOpenIs ==
  ASSUME NEW h, h.hubs \in Seq(Point), NEW zones, NEW given,
         NEW acc \in Merges(h.hubs, zones, given),
         NEW group \in SUBSET (1..Len(h.hubs)), OpenPairs(h, zones, acc, group) # {}
  PROVE  LET best == BestOpen(h, zones, acc, group)
         IN  /\ best[1] \in 1..Len(h.hubs) /\ best[2] \in 1..Len(h.hubs)
             /\ ~zonesBlock(h.hubs[best[1]], h.hubs[best[2]], zones)
<1> DEFINE P == OpenPairs(h, zones, acc, group)
           far == [p \in P |-> haversineKm(h.hubs[p[1]], h.hubs[p[2]])]
           W == {far[p] : p \in P}
<1>1. ASSUME NEW p \in P
      PROVE  p[1] \in 1..Len(h.hubs) /\ p[2] \in 1..Len(h.hubs)
  BY DEF OpenPairs, Merges, Merging
<1>2. ASSUME NEW p \in P
      PROVE  far[p] \in Nat
  <2>1. h.hubs[p[1]] \in Point /\ h.hubs[p[2]] \in Point
    BY <1>1
  <2> QED
    BY <2>1, DistanceIs
<1> HIDE DEF P
<1>3. P # {}
  BY DEF P
<1>4. \E m \in W : \A n \in W : m <= n
  <2>1. W \in SUBSET Nat /\ W # {}
    BY <1>2, <1>3
  <2> HIDE DEF W
  <2> QED
    BY <2>1, LeastNatural
<1>5. \E p \in P : \A q \in P : far[p] <= far[q]
  <2> HIDE DEF far
  <2> QED
    BY <1>4
<1>6. \E p \in P : \A q \in P :
        haversineKm(h.hubs[p[1]], h.hubs[p[2]]) <= haversineKm(h.hubs[q[1]], h.hubs[q[2]])
  BY <1>5
<1>7. BestOpen(h, zones, acc, group) \in P
  BY <1>6, Zenon DEF BestOpen, P
<1>8. \A p \in P : ~zonesBlock(h.hubs[p[1]], h.hubs[p[2]], zones)
  BY Zenon DEF P, OpenPairs
<1> QED
  BY <1>1, <1>7, <1>8

\* Joining one piece, or leaving it, keeps the classes the pieces.
LEMMA MergeKeeps ==
  ASSUME NEW h, h.hubs \in Seq(Point), NEW polys, NEW zones, NEW given,
         NEW acc \in Merges(h.hubs, zones, given), NEW group \in SUBSET (1..Len(h.hubs))
  PROVE  MergePiece(h, polys, zones, acc, group) \in Merges(h.hubs, zones, given)
<1> DEFINE best == BestOpen(h, zones, acc, group)
           m == [main  |-> acc.main \cup group,
                 edge  |-> acc.edge \cup Undirected(h.hubs, best[1], best[2]),
                 pieces |-> union(acc.pieces, best[1], best[2])]
           r == MergePiece(h, polys, zones, acc, group)
<1>1. r = acc \/ (OpenPairs(h, zones, acc, group) # {} /\ r = m)
  BY Zenon DEF MergePiece, BestOpen, OpenPairs
<1>2. CASE OpenPairs(h, zones, acc, group) # {} /\ r = m
  <2>1. /\ best[1] \in 1..Len(h.hubs) /\ best[2] \in 1..Len(h.hubs)
        /\ ~zonesBlock(h.hubs[best[1]], h.hubs[best[2]], zones)
    BY <1>2, BestOpenIs
  <2> DEFINE a == best[1]
             b == best[2]
             edge == acc.edge \cup Undirected(h.hubs, a, b)
             pieces == union(acc.pieces, a, b)
  <2> HIDE DEF best
  <2>2. Agreeing(h.hubs, acc.edge, acc.pieces) /\ acc.main \in SUBSET (1..Len(h.hubs))
    BY DEF Merges, Merging
  <2>3. Agreeing(h.hubs, edge, pieces)
    BY <2>1, <2>2, MergeAgrees
  <2>9. \A e \in edge : e \in given \/ Tested(h.hubs, zones, e)
    <3>1. \A e \in Undirected(h.hubs, a, b) : Tested(h.hubs, zones, e)
      BY <2>1, UndirectedTested
    <3> QED
      BY <3>1 DEF Merges
  <2>4. r = [main |-> acc.main \cup group, edge |-> edge, pieces |-> pieces]
    BY <1>2
  <2> HIDE DEF edge, pieces, r
  <2>5. edge \in SUBSET HubEdges(h.hubs) /\ pieces \in SUBSET SUBSET (1..Len(h.hubs))
    BY <2>3 DEF Agreeing, Partition
  <2>6. r \in Merging(h.hubs)
    BY <2>2, <2>4, <2>5 DEF Merging
  <2>7. r.edge = edge /\ r.pieces = pieces
    BY <2>4
  <2>8. r \in Merges(h.hubs, zones, given)
    BY <2>3, <2>6, <2>7, <2>9 DEF Merges
  <2> QED
    BY <2>8 DEF r
<1> QED
  BY <1>1, <1>2
\* One pass over the pieces, an operator of its own.
MergeAll(h, polys, zones, base, groups) ==
  FoldLeft(LAMBDA a, g : MergePiece(h, polys, zones, a, g), base, groups)

\* So does one pass over all of them.
LEMMA MergesFold ==
  ASSUME NEW h, h.hubs \in Seq(Point), NEW polys, NEW zones, NEW given,
         NEW base \in Merges(h.hubs, zones, given),
         NEW groups \in Seq(SUBSET (1..Len(h.hubs)))
  PROVE  MergeAll(h, polys, zones, base, groups) \in Merges(h.hubs, zones, given)
<1> DEFINE n == Len(groups)
           V == Merges(h.hubs, zones, given)
           R(f) == f = [T \in SUBSET (DOMAIN groups) |->
                          IF T = {} THEN base
                          ELSE MergePiece(h, polys, zones, f[T \ {Max(T)}], groups[Max(T)])]
           F == CHOOSE f : R(f)
           step == [a \in (1..n) \X V |-> MergePiece(h, polys, zones, a[2], groups[a[1]])]
<1>1. MergeAll(h, polys, zones, base, groups) = F[DOMAIN groups]
  BY Zenon DEF MergeAll, FoldLeft, MapThenFoldSet
<1>2. n \in Nat /\ DOMAIN groups = 1..n /\ \A i \in 1..n : groups[i] \in SUBSET (1..Len(h.hubs))
  OBVIOUS
<1>3. R(F)
  <2>1. \A a \in (1..n) \X V : MergePiece(h, polys, zones, a[2], groups[a[1]]) \in V
    BY <1>2, MergeKeeps
  <2>2. step \in [(1..n) \X V -> V]
    BY <2>1
  <2>3. \A i \in 1..n, v \in V : step[<<i, v>>] = MergePiece(h, polys, zones, v, groups[i])
    OBVIOUS
  <2> HIDE DEF step, V, n
  <2>4. PICK f \in [SUBSET (1..n) -> V] : Folds(f, n, base, step)
    <3>1. base \in V
      BY DEF V
    <3>2. CanFold(n, V, base, step)
      BY <1>2, <2>2, <3>1, FoldExists
    <3> QED
      BY <3>2, Zenon DEF CanFold
  <2>5. ASSUME NEW T \in SUBSET (1..n), T # {}
        PROVE  f[T] = MergePiece(h, polys, zones, f[T \ {Max(T)}], groups[Max(T)])
    <3>1. Max(T) \in 1..n /\ f[T \ {Max(T)}] \in V
      BY <1>2, <2>5, MaxIs
    <3>2. f[T] = step[<<Max(T), f[T \ {Max(T)}]>>]
      BY <2>4, <2>5 DEF Folds
    <3> QED
      BY <2>3, <3>1, <3>2
  <2>6. f[{}] = base
    BY <2>4 DEF Folds
  <2>7. R(f)
    BY <1>2, <2>4, <2>5, <2>6
  <2> QED
    BY <2>7
<1> HIDE DEF F
<1>4. F[{}] = base
  BY <1>3
<1>5. ASSUME NEW k \in 1..n
      PROVE  F[1..k] = MergePiece(h, polys, zones, F[1..k - 1], groups[k])
  <2>1. /\ 1..k \in SUBSET (DOMAIN groups) /\ 1..k # {}
        /\ Max(1..k) = k /\ (1..k) \ {k} = 1..k - 1
    BY <1>2, UpTo
  <2> HIDE DEF n
  <2> QED
    BY <1>3, <2>1
<1>6. \A k \in 1..n : F[1..k - 1] \in V => F[1..k] \in V
  <2>1. \A a \in V, g \in SUBSET (1..Len(h.hubs)) : MergePiece(h, polys, zones, a, g) \in V
    BY MergeKeeps
  <2>2. \A k \in 1..n : groups[k] \in SUBSET (1..Len(h.hubs))
    BY <1>2
  <2> HIDE DEF V, n
  <2> QED
    BY <1>5, <2>1, <2>2
<1> HIDE DEF V, n
<1>7. \A k \in 0..n : F[1..k] \in V
  BY <1>2, <1>4, <1>6, FoldInduction DEF V
<1>8. MergeAll(h, polys, zones, base, groups) = F[1..n]
  BY <1>1, <1>2
<1>9. F[1..n] \in V
  BY <1>2, <1>7
<1> QED
  BY <1>8, <1>9, Zenon DEF V

\* And so do the passes until nothing changes: after the bridging the classes
\* are still the pieces the edges make, and every edge is given or tested.
LEMMA BridgePiecesAre ==
  ASSUME NEW h, h.hubs \in Seq(Point), h.hubs # <<>>, NEW polys, NEW topo,
         NEW edge \in SUBSET HubEdges(h.hubs), TwoWay(edge), NEW given,
         \A e \in edge : e \in given \/ Tested(h.hubs, zonesOf(polys, topo), e)
  PROVE  BridgePieces(h, polys, topo, edge) \in Merges(h.hubs, zonesOf(polys, topo), given)
<1> DEFINE N == Len(h.hubs)
           pieces == PiecesOf(N, edge)
           groups == GroupsOf(pieces)
           rest == Tail(groups)
           n == Len(groups)
           zones == zonesOf(polys, topo)
           first == [main |-> Head(groups), edge |-> edge, pieces |-> pieces]
           V == Merges(h.hubs, zones, given)
           pass(a) == MergeAll(h, polys, zones, a, rest)
           step == [a \in V |-> pass(a)]
           R(f) == f = [k \in 0..n |-> IF k = 0 THEN first ELSE pass(f[k - 1])]
           F == CHOOSE f : R(f)
<1>1. N \in Nat \ {0}
  BY EmptySeq
<1>2. IsFiniteSet(edge) /\ Within(edge, N)
  <2>1. /\ IsFiniteSet(HubEdges(h.hubs))
        /\ \A e \in HubEdges(h.hubs) : e.from \in 1..N /\ e.to \in 1..N
    BY HubEdgesAre
  <2> QED
    BY <2>1, FS_Subset DEF Within
<1> HIDE DEF N
<1>3. Partition(pieces, N) /\ AllTied(pieces, edge) /\ \A e \in edge : Holds(pieces, e)
  <2>1. /\ PiecesOf(N, edge) \in TiedPartitions(edge, N)
        /\ \A e \in edge : Holds(PiecesOf(N, edge), e)
    BY <1>1, <1>2, PiecesOfAre
  <2> QED
    BY <2>1 DEF TiedPartitions
<1> HIDE DEF pieces
<1>4. groups \in Seq(pieces) /\ n \in Nat \ {0}
  BY <1>1, <1>3, GroupsAre
<1> HIDE DEF groups
<1>5. pieces \subseteq SUBSET (1..N)
  BY <1>3 DEF Partition
<1>6. groups \in Seq(SUBSET (1..N)) /\ groups # <<>>
  <2>1. \A k \in 1..n : groups[k] \in pieces
    BY <1>4, ElementOfSeq
  <2>2. \A k \in 1..n : groups[k] \in SUBSET (1..N)
    BY <1>5, <2>1
  <2>3. groups = [k \in 1..n |-> groups[k]]
    BY <1>4
  <2>4. groups # <<>>
    BY <1>4
  <2> HIDE DEF n
  <2> QED
    BY <1>4, <2>2, <2>3, <2>4
<1>7. Head(groups) \in SUBSET (1..N) /\ rest \in Seq(SUBSET (1..N))
  BY <1>6, HeadTailProperties
<1>8. first \in V
  <2>1. Agreeing(h.hubs, edge, pieces)
    BY <1>3 DEF Agreeing, N
  <2>2. first \in Merging(h.hubs)
    BY <1>3, <1>7 DEF Merging, Partition, N
  <2> QED
    BY <2>1, <2>2 DEF Merges
<1>9. BridgePieces(h, polys, topo, edge) = F[n]
  BY Zenon DEF BridgePieces, MergeAll, F, groups, pieces, N
<1> HIDE DEF first, zones, rest
<1>10. step \in [V -> V]
  <2>1. \A a \in V : pass(a) \in V
    BY <1>7, MergesFold DEF N
  <2> QED
    BY <2>1
<1>11. \A a \in V : step[a] = pass(a)
  OBVIOUS
<1> HIDE DEF V, step, pass, n
<1>12. PICK f \in [0..n -> V] : Iterates(f, n, first, step)
  BY <1>4, <1>8, <1>10, IterationExists
<1>13. R(f)
  <2>1. f[0] = first
    BY <1>12 DEF Iterates
  <2>2. ASSUME NEW k \in 0..n, k # 0
        PROVE  f[k] = pass(f[k - 1])
    <3>1. k \in 1..n /\ k - 1 \in 0..n
      BY <1>4, <2>2
    <3>2. f[k] = step[f[k - 1]] /\ f[k - 1] \in V
      BY <1>12, <3>1 DEF Iterates
    <3> QED
      BY <1>11, <3>2
  <2> QED
    BY <1>12, <2>1, <2>2
<1>14. R(F)
  BY <1>13
<1> HIDE DEF F
<1> DEFINE Q == {k \in Nat : k <= n => F[k] \in V}
<1>15. 0 \in Q
  BY <1>4, <1>8, <1>14
<1>16. ASSUME NEW k \in Nat, k >= 0, k \in Q
       PROVE  k + 1 \in Q
  <2> SUFFICES ASSUME k + 1 <= n
               PROVE  F[k + 1] \in V
    OBVIOUS
  <2>1. k + 1 \in 0..n /\ k + 1 # 0 /\ (k + 1) - 1 = k /\ k <= n
    BY <1>4
  <2>2. F[k + 1] = pass(F[k])
    BY <1>14, <2>1
  <2>3. F[k] \in V
    BY <1>16, <2>1
  <2> QED
    BY <1>10, <1>11, <2>2, <2>3
<1> HIDE DEF Q
<1>17. n \in Nat /\ n >= 0
  BY <1>4
<1>18. n \in Q
  BY <1>15, <1>16, <1>17, UpwardInduction
<1>19. F[n] \in V
  BY <1>17, <1>18 DEF Q
<1> QED
  BY <1>9, <1>19 DEF V, zones

(***************************************************************************)
(* The land graph.                                                         *)
(***************************************************************************)

\* Graphs between hubs, with their classes the pieces of their edges.
LandGraphs ==
  {g \in [coord : Seq(Point), line : {<<>>}, edge : SUBSET UNION {HubEdges(c) : c \in Seq(Point)},
          pieces : SUBSET SUBSET Nat] :
     /\ g.coord # <<>>
     /\ Agreeing(g.coord, g.edge, g.pieces)}

\* buildLandGraph makes one of any hubs, with no edges but the configured ones
\* and tested ones.
LEMMA LandGraphBuilt ==
  ASSUME NEW h, HubsOK(h), h.hubs # <<>>, NEW polys, NEW topo
  PROVE  /\ buildLandGraph(h, polys, topo) \in LandGraphs
         /\ \A e \in buildLandGraph(h, polys, topo).edge :
              /\ e \in HubEdges(h.hubs)
              /\ e \in ForcedEdges(h) \/ Tested(h.hubs, zonesOf(polys, topo), e)
<1> DEFINE near == PairEdges(h.hubs, Neighbours(h, polys, topo))
           edge == near \cup ForcedEdges(h)
           all == BridgePieces(h, polys, topo, edge)
           g == [coord |-> h.hubs, line |-> <<>>, edge |-> all.edge, pieces |-> all.pieces]
<1>1. h.hubs \in Seq(Point)
  BY DEF HubsOK
<1>2. /\ near \in SUBSET HubEdges(h.hubs) /\ TwoWay(near)
      /\ \A e \in near : Tested(h.hubs, zonesOf(polys, topo), e)
  BY <1>1, NeighboursAre, PairEdgesAre
<1>3. ForcedEdges(h) \in SUBSET HubEdges(h.hubs) /\ TwoWay(ForcedEdges(h))
  BY ForcedEdgesAre
<1> HIDE DEF near
<1>4. edge \in SUBSET HubEdges(h.hubs) /\ TwoWay(edge)
  BY <1>2, <1>3 DEF TwoWay
<1>5. buildLandGraph(h, polys, topo) = g
  BY Zenon DEF buildLandGraph, near
<1>12. \A e \in edge : e \in ForcedEdges(h) \/ Tested(h.hubs, zonesOf(polys, topo), e)
  BY <1>2
<1> HIDE DEF edge
<1>6. all \in Merges(h.hubs, zonesOf(polys, topo), ForcedEdges(h))
  BY <1>1, <1>4, <1>12, BridgePiecesAre
<1> HIDE DEF all
<1>7. /\ Agreeing(h.hubs, all.edge, all.pieces)
      /\ all.edge \in SUBSET HubEdges(h.hubs)
      /\ all.pieces \in SUBSET SUBSET (1..Len(h.hubs))
      /\ \A e \in all.edge : e \in ForcedEdges(h) \/ Tested(h.hubs, zonesOf(polys, topo), e)
  BY <1>6 DEF Merges, Merging
<1>8. all.edge \in SUBSET UNION {HubEdges(c) : c \in Seq(Point)}
  BY <1>1, <1>7
<1>9. all.pieces \in SUBSET SUBSET Nat
  BY <1>1, <1>7
<1>10. /\ g.coord = h.hubs /\ g.edge = all.edge /\ g.pieces = all.pieces
       /\ g \in [coord : Seq(Point), line : {<<>>},
                 edge : SUBSET UNION {HubEdges(c) : c \in Seq(Point)}, pieces : SUBSET SUBSET Nat]
  BY <1>1, <1>8, <1>9
<1> HIDE DEF g
<1>11. g \in LandGraphs
  BY <1>7, <1>10 DEF LandGraphs
<1> QED
  BY <1>5, <1>7, <1>10, <1>11
\* A cable network is a graph, in the sense the routes are found in.
LEMMA CableIsGraph ==
  ASSUME NEW g \in CableGraphs
  PROVE  /\ IsGraph(g)
         /\ \A c \in ToSet(g.coord) : c[1] \in -Half..Half - 1
<1>1. /\ g.coord \in Seq(Place) /\ Len(g.coord) \in Nat /\ DOMAIN g.coord = 1..Len(g.coord)
      /\ \A n \in 1..Len(g.coord) : g.coord[n] \in Place
      /\ g.line \in Seq(Lines) /\ Len(g.line) \in Nat
      /\ g.edge \in SUBSET CableEdges /\ Wired(g.edge, Len(g.coord), Len(g.line))
  BY CableGraphIs
<1>2. g.coord \in Seq(Point)
  <2>1. \A n \in 1..Len(g.coord) : g.coord[n] \in Point
    BY <1>1, PlaceIsPoint
  <2> QED
    BY <1>1, <2>1
<1>3. \A i \in 1..Len(g.line) : g.line[i] \in Seq(Point) /\ Len(g.line[i]) >= 2
  <2> TAKE i \in 1..Len(g.line)
  <2>1. g.line[i] \in Lines
    BY <1>1, ElementOfSeq
  <2>2. g.line[i] \in Seq((-Half..3 * Half) \X Int) /\ Len(g.line[i]) >= 2
    BY <2>1 DEF Lines
  <2> DEFINE line == g.line[i]
  <2> HIDE DEF line
  <2>3. line \in Seq((-Half..3 * Half) \X Int) => line \in Seq(Point)
    <3>1. (-Half..3 * Half) \X Int \subseteq Point
      BY GeographyAssumption DEF Point
    <3> DEFINE S == (-Half..3 * Half) \X Int
    <3> HIDE DEF S
    <3>2. line \in Seq(S) => \A k \in 1..Len(line) : line[k] \in S
      OBVIOUS
    <3>3. line \in Seq(S) => line \in Seq(Point)
      BY <3>1, <3>2 DEF S
    <3> QED
      BY <3>3 DEF S
  <2> QED
    BY <2>2, <2>3 DEF line
<1>4. g.line \in Seq(Seq(Point)) /\ \A line \in ToSet(g.line) : Len(line) >= 2
  <2>1. g.line = [i \in 1..Len(g.line) |-> g.line[i]]
    BY <1>1
  <2>2. \A line \in ToSet(g.line) : \E i \in 1..Len(g.line) : line = g.line[i]
    BY <1>1 DEF ToSet
  <2>3. \A line \in ToSet(g.line) : Len(line) >= 2
    BY <1>3, <2>2
  <2>4. \A i \in 1..Len(g.line) : g.line[i] \in Seq(Point)
    BY <1>3
  <2>5. g.line \in Seq(Seq(Point))
    BY <1>1, <2>1, <2>4
  <2> QED
    BY <2>3, <2>5
<1>5. ASSUME NEW e \in g.edge
      PROVE  {e.from, e.to} \subseteq DOMAIN g.coord /\ e.line \in 0..Len(g.line) /\ e.w \in Nat
  <2>1. e \in CableEdges
    BY <1>1
  <2>2. e.w \in Nat
    BY <2>1 DEF CableEdges
  <2> QED
    BY <1>1, <2>2 DEF Wired
<1>6. \A c \in ToSet(g.coord) : c[1] \in -Half..Half - 1
  <2>1. \A c \in ToSet(g.coord) : c \in Place
    BY <1>1 DEF ToSet
  <2> QED
    BY <2>1 DEF Place
<1> QED
  BY <1>2, <1>4, <1>5, <1>6 DEF IsGraph

\* So is the land graph.
LEMMA LandIsGraph ==
  ASSUME NEW g \in LandGraphs
  PROVE  /\ IsGraph(g) /\ g.coord # <<>> /\ g.coord \in Seq(Point)
         /\ Agreeing(g.coord, g.edge, g.pieces)
         /\ Len(g.coord) \in Nat \ {0} /\ DOMAIN g.coord = 1..Len(g.coord)
         /\ \A e \in g.edge : /\ e.from \in 1..Len(g.coord) /\ e.to \in 1..Len(g.coord)
                              /\ e.w \in Nat /\ e.line = 0
<1>1. /\ g.coord \in Seq(Point) /\ g.line = <<>> /\ g.coord # <<>>
      /\ Agreeing(g.coord, g.edge, g.pieces)
  BY DEF LandGraphs
<1>2. Len(g.coord) \in Nat \ {0} /\ DOMAIN g.coord = 1..Len(g.coord)
  BY <1>1, EmptySeq
<1>3. \A e \in g.edge : /\ e.from \in 1..Len(g.coord) /\ e.to \in 1..Len(g.coord)
                        /\ e.w \in Nat /\ e.line = 0
  BY <1>1, HubEdgesAre DEF Agreeing
<1>4. g.line \in Seq(Seq(Point)) /\ Len(g.line) = 0 /\ ToSet(g.line) = {}
  BY <1>1, EmptySeq DEF ToSet
<1>5. IsGraph(g)
  BY <1>1, <1>2, <1>3, <1>4 DEF IsGraph
<1> QED
  BY <1>1, <1>2, <1>3, <1>5

\* So is none.
LEMMA NoGraphIsGraph == IsGraph(NoGraph)
  BY NoGraphIs, CableIsGraph

\* The joint graph is one, with a hub, every landing tied to a hub.
LEMMA JointIsGraph ==
  ASSUME NEW land \in LandGraphs, NEW g \in CableGraphs
  PROVE  /\ IsGraph(JointOf(land, g)) /\ JointOf(land, g).coord # <<>>
         /\ Weighed(JointOf(land, g))
<1> DEFINE H == Len(land.coord)
           L == Len(g.coord)
           tie(j) == nearestNode(land.coord, g.coord[j])
           far(j) == haversineKm(g.coord[j], land.coord[tie(j)])
           Haul(j) == Both(H + j, tie(j), far(j), 0)
           moved == {[e EXCEPT !.from = @ + H, !.to = @ + H] : e \in g.edge}
           tied == UNION {Haul(j) : j \in DOMAIN g.coord}
           coord == land.coord \o g.coord
           r == JointOf(land, g)
<1>1. r = [coord |-> coord, line |-> g.line, edge |-> land.edge \cup moved \cup tied, pieces |-> {}]
  BY Zenon DEF JointOf
<1>2. /\ IsGraph(land) /\ land.coord # <<>> /\ land.coord \in Seq(Point)
      /\ H \in Nat \ {0} /\ DOMAIN land.coord = 1..H
      /\ \A e \in land.edge : /\ e.from \in 1..H /\ e.to \in 1..H
                              /\ e.w \in Nat /\ e.line = 0
  BY LandIsGraph
<1>3. /\ IsGraph(g) /\ g.edge \in SUBSET CableEdges /\ L \in Nat /\ DOMAIN g.coord = 1..L
      /\ g.coord \in Seq(Point) /\ Weighed(g)
  BY CableIsGraph, CableGraphIs DEF IsGraph
<1>4. /\ coord \in Seq(Point) /\ Len(coord) = H + L /\ DOMAIN coord = 1..H + L
      /\ coord # <<>>
      /\ \A n \in 1..H : coord[n] = land.coord[n]
      /\ \A n \in 1..L : coord[n + H] = g.coord[n]
  <2>1. coord \in Seq(Point) /\ Len(coord) = H + L
    BY <1>2, <1>3
  <2>4. \A k \in 1..H + L : coord[k] = IF k <= H THEN land.coord[k] ELSE g.coord[k - H]
    BY <1>2, <1>3, ConcatProperties
  <2> HIDE DEF H, L
  <2>5. \A n \in 1..H : coord[n] = land.coord[n]
    <3> TAKE n \in 1..H
    <3>1. n \in 1..H + L /\ n <= H
      BY <1>2, <1>3
    <3> QED
      BY <2>4, <3>1
  <2>6. \A n \in 1..L : coord[n + H] = g.coord[n]
    <3> TAKE n \in 1..L
    <3>1. n + H \in 1..H + L /\ ~(n + H <= H) /\ (n + H) - H = n
      BY <1>2, <1>3
    <3> QED
      BY <2>4, <3>1
  <2>2. H + L \in Nat \ {0}
    BY <1>2, <1>3
  <2> HIDE DEF coord
  <2>3. DOMAIN coord = 1..Len(coord) /\ Len(coord) # 0
    BY <2>1, <2>2
  <2> QED
    BY <2>1, <2>3, <2>5, <2>6
<1> HIDE DEF H, L
<1>5. ASSUME NEW j \in 1..L
      PROVE  tie(j) \in 1..H /\ far(j) \in Nat
  <2>1. g.coord[j] \in Point
    BY <1>3
  <2>2. tie(j) \in 1..H
    BY <1>2, <2>1, NearestNodeIs
  <2>3. land.coord[tie(j)] \in Point
    BY <1>2, <2>2
  <2> HIDE DEF tie
  <2> QED
    BY <2>1, <2>2, <2>3, DistanceIs
<1> HIDE DEF tie, far
<1> DEFINE ok(e) == /\ e.from \in 1..H + L /\ e.to \in 1..H + L
                    /\ e.line \in 0..Len(g.line) /\ e.w \in Nat
<1>0. Len(g.line) \in Nat
  BY <1>3 DEF IsGraph
<1>6. ASSUME NEW e \in land.edge
      PROVE  ok(e)
  BY <1>0, <1>2, <1>3
<1>7. ASSUME NEW e \in moved
      PROVE  ok(e)
  <2>1. PICK f \in g.edge : e = [f EXCEPT !.from = @ + H, !.to = @ + H]
    OBVIOUS
  <2> HIDE DEF moved
  <2>2. f \in CableEdges
    BY <1>3
  <2>3. e.from = f.from + H /\ e.to = f.to + H /\ e.line = f.line /\ e.w = f.w
    BY <2>1, <2>2 DEF CableEdges
  <2>4. f.from \in 1..L /\ f.to \in 1..L /\ f.line \in 0..Len(g.line) /\ f.w \in Nat
    BY <1>3 DEF IsGraph
  <2>5. H \in Nat /\ L \in Nat
    BY <1>2, <1>3
  <2>6. f.from + H \in 1..H + L /\ f.to + H \in 1..H + L
    BY <2>4, <2>5
  <2> QED
    BY <2>3, <2>4, <2>6
<1>8. ASSUME NEW e \in tied
      PROVE  ok(e)
  <2>1. PICK j \in 1..L : e \in Haul(j)
    BY <1>3
  <2>2. tie(j) \in 1..H /\ far(j) \in Nat
    BY <1>5
  <2>3. /\ e.line = 0 /\ e.w = far(j)
        /\ (e.from = H + j /\ e.to = tie(j)) \/ (e.from = tie(j) /\ e.to = H + j)
    BY <2>1 DEF Both
  <2> QED
    BY <1>0, <1>2, <1>3, <2>2, <2>3
<1>12. ASSUME NEW e \in land.edge
       PROVE  Measured(coord, g.line, e)
  <2>1. e \in HubEdges(land.coord)
    BY LandIsGraph DEF Agreeing
  <2>2. PICK q \in HubPairs(land.coord) :
          e = HubEdge(land.coord, q[1], q[2], FALSE) \/ e = HubEdge(land.coord, q[1], q[2], TRUE)
    BY <2>1 DEF HubEdges
  <2> DEFINE a == q[1]
             b == q[2]
  <2>3. /\ e.from = a /\ e.to = b /\ e.line = 0
        /\ e.w \in {haversineKm(land.coord[a], land.coord[b]),
                    haversineKm(land.coord[b], land.coord[a])}
    BY <2>2 DEF HubEdge
  <2>4. a \in 1..H /\ b \in 1..H
    BY DEF HubPairs, H
  <2> HIDE DEF a, b, coord
  <2>5. land.coord[a] \in Point /\ land.coord[b] \in Point
    BY <1>2, <2>4
  <2>6. haversineKm(land.coord[a], land.coord[b]) = haversineKm(land.coord[b], land.coord[a])
    BY <2>5, DistanceBack
  <2> QED
    BY <1>4, <2>3, <2>4, <2>6 DEF Measured
<1>13. ASSUME NEW e \in moved
       PROVE  Measured(coord, g.line, e)
  <2>1. PICK f \in g.edge : e = [f EXCEPT !.from = @ + H, !.to = @ + H]
    OBVIOUS
  <2> HIDE DEF moved, coord
  <2>2. f \in CableEdges
    BY <1>3
  <2>3. /\ e.from = f.from + H /\ e.to = f.to + H /\ e.line = f.line /\ e.w = f.w
        /\ e.rev = f.rev
    BY <2>1, <2>2 DEF CableEdges
  <2>4. f.from \in 1..L /\ f.to \in 1..L /\ Measured(g.coord, g.line, f)
    BY <1>3 DEF IsGraph, Weighed
  <2>5. coord[e.from] = g.coord[f.from] /\ coord[e.to] = g.coord[f.to]
    BY <1>4, <2>3, <2>4
  <2> QED
    BY <2>3, <2>4, <2>5 DEF Measured
<1>14. ASSUME NEW e \in tied
       PROVE  Measured(coord, g.line, e)
  <2>1. PICK j \in 1..L : e \in Haul(j)
    BY <1>3
  <2>2. tie(j) \in 1..H
    BY <1>5
  <2> DEFINE i == tie(j)
             w == far(j)
  <2>3. H + j = j + H /\ H + j \in 1..H + L /\ i \in 1..H + L
    BY <1>2, <1>3, <2>2
  <2>4. coord[H + j] = g.coord[j] /\ coord[i] = land.coord[i]
    BY <1>4, <2>2, <2>3
  <2>5. w = haversineKm(coord[H + j], coord[i])
    BY <2>4 DEF far
  <2> HIDE DEF i, coord, w
  <2>6. coord[H + j] \in Point /\ coord[i] \in Point
    BY <1>4, <2>3
  <2>7. Measured(coord, g.line, There(H + j, i, w, 0))
    BY <2>5 DEF Measured, There
  <2>8. e \in Both(H + j, i, w, 0)
    BY <2>1 DEF i, w
  <2> QED
    BY <2>6, <2>7, <2>8, MeasuredBack
<1> HIDE DEF r, moved, tied, coord
<1>9. /\ r.coord = coord /\ r.line = g.line
      /\ r.edge = land.edge \cup moved \cup tied
  BY <1>1
<1>10. \A e \in r.edge : ok(e)
  BY <1>6, <1>7, <1>8, <1>9
<1>11. IsGraph(r)
  <2>1. g.line \in Seq(Seq(Point)) /\ \A line \in ToSet(g.line) : Len(line) >= 2
    BY <1>3 DEF IsGraph
  <2> HIDE DEF coord
  <2> QED
    BY <1>4, <1>9, <1>10, <2>1 DEF IsGraph
<1>15. Weighed(r)
  BY <1>9, <1>12, <1>13, <1>14 DEF Weighed
<1> QED
  BY <1>4, <1>9, <1>11, <1>15 DEF r

----------------------------------------------------------------------------
(***************************************************************************)
(* What segmentPath keeps.                                                 *)
(***************************************************************************)

\* The links whose paths are ever asked for.
Asked ==
  world.links \cup {<<Places(world.hops)[i], Places(world.hops)[i + 1]>> :
                      i \in 1..Len(Places(world.hops)) - 1}

\* There is no joint graph to build that is not built.
JointBuilt(m) ==
  \/ m.joint # NoGraph \/ m.land = NoGraph \/ cables.g.coord = <<>>
  \/ m.joint = JointOf(m.land, cables.g)

\* A kept path is what m decides for a link of its key, now and from now on.
Decided(m, k) ==
  \E l \in Asked :
    /\ Key(l[1], l[2]) = k
    /\ m.cache[k] = Decide(m, l[1], l[2], overland(m, l[1], l[2]))
    /\ overland(m, l[1], l[2]) = NoRoute => JointBuilt(m)

\* There is no land graph to build that is not built.
LandBuilt(m) == hubs.hubs = <<>> \/ m.land # NoGraph

\* The graphs are well made, and the land graph's classes are its pieces.
GraphsRight(m) ==
  /\ m.land = NoGraph \/ m.land \in LandGraphs
  /\ IsGraph(m.joint) /\ (m.joint # NoGraph => m.joint.coord # <<>>)
  /\ Weighed(m.joint)

\* The land graph is built from complete data, and is the one these data make
\* now, if the hubs were read with the topology.
LandFinal(m) ==
  m.land # NoGraph =>
    /\ Loaded
    /\ hubs.corridorStart # NoCorridor =>
         m.land = buildLandGraph(hubs, landmass.polys, topology.value)

\* What is kept is right: graphs, classes, and every path.
KeptRight(m) ==
  /\ m = [land |-> m.land, joint |-> m.joint, cache |-> m.cache]
  /\ GraphsRight(m) /\ LandFinal(m)
  /\ DOMAIN m.cache # {} => Loaded /\ LandBuilt(m)
  /\ \A k \in DOMAIN m.cache : Decided(m, k)

\* The way over land depends on the land graph alone, and so does the path of a
\* link that has one; that of another link depends on the joint graph.
LEMMA DecideBy ==
  ASSUME NEW m, NEW n, m.land = n.land, NEW a, NEW b
  PROVE  /\ overland(m, a, b) = overland(n, a, b)
         /\ \A lr : lr # NoRoute \/ m.joint = n.joint =>
              Decide(m, a, b, lr) = Decide(n, a, b, lr)
<1>1. overland(m, a, b) = overland(n, a, b)
  BY DEF overland
<1>2. ASSUME NEW lr, lr # NoRoute \/ m.joint = n.joint
      PROVE  Decide(m, a, b, lr) = Decide(n, a, b, lr)
  BY <1>2, Zenon DEF Decide
<1> QED
  BY <1>1, <1>2

\* What the graphs are built from.
SourcesRight == HubsOK(hubs) /\ cables.g \in CableGraphs

\* landBackbone builds what there is to build and leaves what is kept right.
LEMMA BackboneRight ==
  ASSUME NEW m, KeptRight(m), Loaded, SourcesRight
  PROVE  LET p == landBackbone(m)
         IN  KeptRight(p) /\ LandBuilt(p) /\ p.cache = m.cache
<1> DEFINE g == buildLandGraph(hubs, landmass.polys, topology.value)
<1>1. g.coord = hubs.hubs
  BY DEF buildLandGraph
<1>0. hubs.hubs # <<>> => g \in LandGraphs
  BY LandGraphBuilt DEF SourcesRight
<1> HIDE DEF g
<1>2. hubs.ready
  BY DEF Loaded
<1>3. CASE LandBuilt(m)
  <2>1. landBackbone(m) = m
    BY <1>3 DEF landBackbone, LandBuilt
  <2> QED
    BY <1>3, <2>1
<1>4. CASE ~LandBuilt(m)
  <2> DEFINE p == [land |-> g, joint |-> m.joint, cache |-> m.cache]
  <2>1. landBackbone(m) = [m EXCEPT !.land = g]
    BY <1>2, <1>4 DEF landBackbone, LandBuilt, g
  <2>2. m = [land |-> m.land, joint |-> m.joint, cache |-> m.cache]
    BY DEF KeptRight
  <2>3. landBackbone(m) = p
    BY <2>1, <2>2
  <2>4. g # NoGraph
    BY <1>1, <1>4 DEF LandBuilt, NoGraph
  <2>5. DOMAIN m.cache = {}
    BY <1>4 DEF KeptRight
  <2>6. GraphsRight(p)
    BY <1>0, <1>4 DEF KeptRight, GraphsRight, LandBuilt
  <2>8. LandFinal(p)
    BY DEF LandFinal, g
  <2>7. KeptRight(p) /\ LandBuilt(p)
    BY <2>4, <2>5, <2>6, <2>8 DEF KeptRight, LandBuilt
  <2> QED
    BY <2>3, <2>7
<1> QED
  BY <1>3, <1>4

\* So does buildJointGraph.
LEMMA JointRight ==
  ASSUME NEW p, KeptRight(p), LandBuilt(p), SourcesRight
  PROVE  LET q == buildJointGraph(p)
         IN  /\ KeptRight(q) /\ LandBuilt(q) /\ JointBuilt(q)
             /\ q.cache = p.cache /\ q.land = p.land
<1> DEFINE j == JointOf(p.land, cables.g)
<1> HIDE DEF j
<1>0. p = [land |-> p.land, joint |-> p.joint, cache |-> p.cache]
  BY DEF KeptRight
<1>1. CASE JointBuilt(p)
  <2>1. buildJointGraph(p) = p
    BY <1>0, <1>1 DEF buildJointGraph, JointBuilt
  <2> QED
    BY <1>1, <2>1
<1>2. CASE ~JointBuilt(p)
  <2> DEFINE q == [land |-> p.land, joint |-> j, cache |-> p.cache]
  <2>1. buildJointGraph(p) = q
    BY <1>0, <1>2 DEF buildJointGraph, JointBuilt, j
  <2>2. JointBuilt(q)
    BY DEF JointBuilt, j
  <2>3. LandBuilt(q)
    BY DEF LandBuilt
  <2>4. ASSUME NEW k \in DOMAIN q.cache
        PROVE  Decided(q, k)
    <3>1. PICK l \in Asked :
            /\ Key(l[1], l[2]) = k
            /\ p.cache[k] = Decide(p, l[1], l[2], overland(p, l[1], l[2]))
            /\ overland(p, l[1], l[2]) = NoRoute => JointBuilt(p)
      BY DEF KeptRight, Decided
    <3>2. q.land = p.land /\ q.cache = p.cache
      OBVIOUS
    <3> HIDE DEF q
    <3>3. overland(q, l[1], l[2]) = overland(p, l[1], l[2])
      BY <3>2, DecideBy
    <3>4. overland(p, l[1], l[2]) # NoRoute
      BY <1>2, <3>1
    <3>5. Decide(q, l[1], l[2], overland(p, l[1], l[2]))
            = Decide(p, l[1], l[2], overland(p, l[1], l[2]))
      BY <3>2, <3>4, DecideBy
    <3> QED
      BY <2>2, <3>1, <3>2, <3>3, <3>5 DEF Decided
  <2>5. DOMAIN p.cache # {} => Loaded
    BY DEF KeptRight
  <2>7. GraphsRight(q)
    <3>1. p.land \in LandGraphs /\ cables.g \in CableGraphs
      BY <1>2 DEF JointBuilt, KeptRight, GraphsRight, SourcesRight
    <3>2. IsGraph(j) /\ j.coord # <<>> /\ Weighed(j)
      BY <3>1, JointIsGraph DEF j
    <3> QED
      BY <3>1, <3>2 DEF GraphsRight
  <2>8. LandFinal(q)
    BY DEF KeptRight, LandFinal
  <2>6. KeptRight(q)
    BY <2>3, <2>4, <2>5, <2>7, <2>8 DEF KeptRight
  <2> QED
    BY <2>1, <2>2, <2>3, <2>6
<1> QED
  BY <1>1, <1>2

\* One more path is kept.
LEMMA OneMoreRight ==
  ASSUME NEW q, KeptRight(q), LandBuilt(q), Loaded,
         NEW a, NEW b, <<a, b>> \in Asked,
         overland(q, a, b) = NoRoute => JointBuilt(q)
  PROVE  KeptRight(Kept(q, a, b, overland(q, a, b)))
<1> DEFINE d == Decide(q, a, b, overland(q, a, b))
           key == Key(a, b)
           c == Over([k \in {key} |-> d], q.cache)
           r == [land |-> q.land, joint |-> q.joint, cache |-> c]
<1>1. Kept(q, a, b, overland(q, a, b)) = r
  <2>1. q = [land |-> q.land, joint |-> q.joint, cache |-> q.cache]
    BY DEF KeptRight
  <2> HIDE DEF d, key
  <2>2. Kept(q, a, b, overland(q, a, b)) = [q EXCEPT !.cache = Over([k \in {key} |-> d], @)]
    BY Zenon DEF Kept, d, key
  <2> QED
    BY <2>1, <2>2
<1>2. /\ DOMAIN c = DOMAIN q.cache \cup {key}
      /\ c[key] = d
      /\ \A k \in DOMAIN q.cache : k # key => c[k] = q.cache[k]
  <2> HIDE DEF d, key
  <2> QED
    BY DEF Over
<1>3. r.land = q.land /\ r.joint = q.joint /\ r.cache = c
      /\ r = [land |-> r.land, joint |-> r.joint, cache |-> r.cache]
  OBVIOUS
<1> HIDE DEF c, r
<1>4. LandBuilt(r) /\ (JointBuilt(q) => JointBuilt(r))
  BY <1>3 DEF LandBuilt, JointBuilt
<1>5. \A x, y : /\ overland(r, x, y) = overland(q, x, y)
                /\ \A lr : Decide(r, x, y, lr) = Decide(q, x, y, lr)
  BY <1>3, DecideBy
<1>6. ASSUME NEW k \in DOMAIN c
      PROVE  Decided(r, k)
  <2>1. CASE k = key
    <3> DEFINE l == <<a, b>>
    <3>1. l \in Asked /\ l[1] = a /\ l[2] = b
      OBVIOUS
    <3> HIDE DEF l
    <3>2. /\ Key(l[1], l[2]) = k
          /\ r.cache[k] = Decide(r, l[1], l[2], overland(r, l[1], l[2]))
          /\ overland(r, l[1], l[2]) = NoRoute => JointBuilt(r)
      BY <1>2, <1>3, <1>4, <1>5, <2>1, <3>1
    <3> QED
      BY <3>1, <3>2 DEF Decided
  <2>2. CASE k # key
    <3>1. PICK l \in Asked :
            /\ Key(l[1], l[2]) = k
            /\ q.cache[k] = Decide(q, l[1], l[2], overland(q, l[1], l[2]))
            /\ overland(q, l[1], l[2]) = NoRoute => JointBuilt(q)
      BY <1>2, <2>2 DEF KeptRight, Decided
    <3>2. r.cache[k] = q.cache[k]
      BY <1>2, <1>3, <2>2
    <3> QED
      BY <1>4, <1>5, <3>1, <3>2 DEF Decided
  <2> QED
    BY <2>1, <2>2
<1>7. GraphsRight(r)
  BY <1>3 DEF KeptRight, GraphsRight
<1>9. LandFinal(r)
  BY <1>3 DEF KeptRight, LandFinal
<1>8. KeptRight(r)
  BY <1>3, <1>4, <1>6, <1>7, <1>9 DEF KeptRight
<1> QED
  BY <1>1, <1>8

\* Answering one link leaves what is kept right.
LEMMA LinkedRight ==
  ASSUME NEW m, KeptRight(m), SourcesRight, NEW a, NEW b, <<a, b>> \in Asked
  PROVE  KeptRight(Linked(m, a, b))
<1>1. CASE Key(a, b) \in DOMAIN m.cache \/ ~Loaded
  BY <1>1 DEF Linked
<1>2. CASE ~(Key(a, b) \in DOMAIN m.cache \/ ~Loaded)
  <2> DEFINE p == landBackbone(m)
             lr == overland(p, a, b)
             q == IF lr # NoRoute THEN p ELSE buildJointGraph(p)
  <2>1. KeptRight(p) /\ LandBuilt(p)
    BY <1>2, BackboneRight
  <2>2. Linked(m, a, b) = Kept(q, a, b, lr)
    BY <1>2, Zenon DEF Linked, OnLandGraph, Settled
  <2> HIDE DEF p
  <2>3. KeptRight(q) /\ LandBuilt(q) /\ q.land = p.land /\ (lr = NoRoute => JointBuilt(q))
    <3>1. CASE lr # NoRoute
      BY <2>1, <3>1
    <3>2. CASE lr = NoRoute
      <4>1. q = buildJointGraph(p)
        BY <3>2
      <4> HIDE DEF q
      <4> QED
        BY <2>1, <4>1, JointRight
    <3> QED
      BY <3>1, <3>2
  <2> HIDE DEF q
  <2>4. lr = overland(q, a, b)
    BY <2>3, DecideBy
  <2> HIDE DEF lr
  <2>5. KeptRight(Kept(q, a, b, overland(q, a, b)))
    BY <1>2, <2>3, <2>4, OneMoreRight
  <2> QED
    BY <2>2, <2>4, <2>5
<1> QED
  BY <1>1, <1>2

----------------------------------------------------------------------------
(***************************************************************************)
(* What is decided for a link.                                             *)
(***************************************************************************)

\* The way over land begins and ends where it is asked to, and there is one
\* exactly when the search comes to the other end.
LEMMA LandWayIs ==
  ASSUME NEW land, IsGraph(land), land.coord # <<>>, NEW S, land.coord \in Seq(S),
         NEW a \in Point \cap S, NEW b \in Point \cap S
  PROVE  LET t == ShortestTree(land.edge, Len(land.coord),
                               [n \in {nearestHub(land, a)} |-> 0], nearestHub(land, b))
         IN  /\ landRoute(land, a, b) # NoRoute => Spans(S, landRoute(land, a, b), a, b)
             /\ landRoute(land, a, b) # NoRoute <=> nearestHub(land, b) \in DOMAIN t.dist
<1> DEFINE ia == nearestHub(land, a)
           ib == nearestHub(land, b)
           N  == Len(land.coord)
           t  == ShortestTree(land.edge, N, [n \in {ia} |-> 0], ib)
           path  == PathTo(t, ib)
           chain == [i \in DOMAIN path |-> land.coord[path[i].from]]
           last  == <<land.coord[ib], b>>
<1>1. landRoute(land, a, b) =
        IF ib \notin DOMAIN t.dist THEN NoRoute ELSE <<a>> \o chain \o last
  BY Zenon DEF landRoute
<1>2. /\ land.coord \in Seq(Point) /\ DOMAIN land.coord = 1..N
      /\ \A n \in 1..N : land.coord[n] \in S
      /\ \A e \in land.edge : e.from \in 1..N
  BY GraphIs DEF IsGraph
<1>3. ia \in 1..N
  BY <1>2, NearestNodeIs DEF nearestHub
<1> HIDE DEF ia, ib
<1>4. \A x \in DOMAIN t.dist : x \in 1..N /\ PathTo(t, x) \in Seq(land.edge)
  BY <1>3, NodesWay
<1> HIDE DEF t, N
<1>5. ASSUME ib \in DOMAIN t.dist
      PROVE  Spans(S, <<a>> \o chain \o last, a, b) /\ <<a>> \o chain \o last # NoRoute
  <2>1. path \in Seq(land.edge) /\ land.coord[ib] \in S
    BY <1>2, <1>4, <1>5
  <2>2. chain \in Seq(S)
    <3> HIDE DEF path
    <3>1. \A i \in DOMAIN path : path[i] \in land.edge
      BY <2>1
    <3>2. \A i \in DOMAIN path : land.coord[path[i].from] \in S
      BY <1>2, <3>1
    <3> QED
      BY <2>1, <3>2
  <2>3. last \in Seq(S) /\ Len(last) = 2 /\ last[2] = b
    BY <2>1
  <2> HIDE DEF chain, last
  <2>4. Len(last) >= 1 /\ last[Len(last)] = b
    BY <2>3
  <2>5. <<a>> \o chain \o last # NoRoute
    <3>1. Len(<<a>> \o chain \o last) # 0
      BY <2>2, <2>3
    <3>2. Len(NoRoute) = 0
      BY EmptySeq DEF NoRoute
    <3> QED
      BY <3>1, <3>2
  <2> QED
    BY <2>2, <2>3, <2>4, <2>5, BetweenSpans
<1> HIDE DEF chain, last
<1>6. /\ landRoute(land, a, b) # NoRoute => Spans(S, landRoute(land, a, b), a, b)
      /\ landRoute(land, a, b) # NoRoute <=> ib \in DOMAIN t.dist
  BY <1>1, <1>5
<1> QED
  BY <1>6, Zenon DEF t, N, ia, ib

\* So does the way over land and cable.
LEMMA JointWayIs ==
  ASSUME NEW j, IsGraph(j), j # NoGraph => j.coord # <<>>,
         NEW S, StaysIn(j, S), NEW a \in Point \cap S, NEW b \in Point \cap S
  PROVE  jointRoute(j, a, b) # NoRoute => Spans(S, jointRoute(j, a, b), a, b)
<1> DEFINE ia == nearestNode(j.coord, a)
           ib == nearestNode(j.coord, b)
           N  == Len(j.coord)
           t  == ShortestTree(j.edge, N, [n \in {ia} |-> 0], ib)
           path == PathTo(t, ib)
           leg(e) == IF e.line = 0 THEN <<j.coord[e.from]>> ELSE Front(DrawEdge(j, e))
           legs == [i \in DOMAIN path |-> leg(path[i])]
           last == <<j.coord[ib], b>>
<1>1. jointRoute(j, a, b) =
        IF j = NoGraph \/ ib \notin DOMAIN t.dist THEN NoRoute
        ELSE <<a>> \o FlattenSeq(legs) \o last
  BY Zenon DEF jointRoute
<1>2. /\ j.coord \in Seq(Point) /\ DOMAIN j.coord = 1..N
      /\ \A n \in 1..N : j.coord[n] \in S
      /\ \A e \in j.edge : e.from \in 1..N
  BY GraphIs DEF IsGraph, StaysIn
<1>3. CASE j = NoGraph
  BY <1>1, <1>3
<1>4. CASE j # NoGraph
  <2>1. ia \in 1..N
    BY <1>2, <1>4, NearestNodeIs
  <2> HIDE DEF ia, ib
  <2>2. \A x \in DOMAIN t.dist : x \in 1..N /\ PathTo(t, x) \in Seq(j.edge)
    BY <2>1, NodesWay
  <2> HIDE DEF t, N
  <2>3. ASSUME ib \in DOMAIN t.dist
        PROVE  Spans(S, <<a>> \o FlattenSeq(legs) \o last, a, b)
    <3>1. path \in Seq(j.edge) /\ j.coord[ib] \in S
      BY <1>2, <2>2, <2>3
    <3> HIDE DEF path
    <3>2. ASSUME NEW e \in j.edge
          PROVE  leg(e) \in Seq(S)
      <4>1. DrawEdge(j, e) \in Seq(S) /\ DrawEdge(j, e) # <<>>
        BY EdgeDrawn
      <4> DEFINE line == DrawEdge(j, e)
      <4> HIDE DEF line
      <4>2. line \in Seq(S) => Front(line) \in Seq(S)
        BY DEF Front
      <4>3. j.coord[e.from] \in S
        BY <1>2
      <4> QED
        BY <4>1, <4>2, <4>3 DEF line
    <3> HIDE DEF leg
    <3>3. legs \in Seq(Seq(S))
      <4>1. \A i \in DOMAIN path : leg(path[i]) \in Seq(S)
        BY <3>1, <3>2
      <4> QED
        BY <3>1, <4>1, SMTT(30)
    <3> HIDE DEF legs
    <3>4. FlattenSeq(legs) \in Seq(S)
      BY <3>3, FlattenIs
    <3> DEFINE mid == FlattenSeq(legs)
    <3>5. last \in Seq(S) /\ Len(last) = 2 /\ last[2] = b
      BY <3>1
    <3> HIDE DEF last
    <3>6. mid \in Seq(S) /\ Len(last) >= 1 /\ last[Len(last)] = b
      BY <3>4, <3>5
    <3> HIDE DEF mid
    <3>7. Spans(S, <<a>> \o mid \o last, a, b)
      BY <3>5, <3>6, BetweenSpans
    <3> QED
      BY <3>7 DEF mid
  <2> HIDE DEF legs, last
  <2> QED
    BY <1>1, <2>3
<1> QED
  BY <1>3, <1>4

\* The graphs a path is decided by are in order, and stay in S.
GraphsStay(m, S) ==
  /\ \A g \in {m.land, m.joint, cables.g} : IsGraph(g) /\ StaysIn(g, S)
  /\ \A g \in {m.land, m.joint} : g # NoGraph => g.coord # <<>>

\* They stay in the plane.
LEMMA GraphsInPlane ==
  ASSUME NEW m, GraphsRight(m), cables.g \in CableGraphs
  PROVE  GraphsStay(m, Point)
<1>1. /\ IsGraph(cables.g) /\ IsGraph(m.land) /\ IsGraph(m.joint)
      /\ m.land # NoGraph => m.land.coord # <<>>
      /\ m.joint # NoGraph => m.joint.coord # <<>>
  BY CableIsGraph, LandIsGraph, NoGraphIsGraph DEF GraphsRight
<1>2. StaysIn(cables.g, Point) /\ StaysIn(m.land, Point) /\ StaysIn(m.joint, Point)
  BY <1>1, StaysInPlane
<1> QED
  BY <1>1, <1>2 DEF GraphsStay

\* What is decided for a link is a straight line, or a way in S from its one end
\* to the other with its legs filled in.
LEMMA DecideIs ==
  ASSUME NEW m, NEW S, GraphsStay(m, S), NEW a \in Point \cap S, NEW b \in Point \cap S
  PROVE  LET path == Decide(m, a, b, overland(m, a, b)).path
         IN  \/ path = densifyGreatCircle(a, b)
             \/ \E pts : Spans(S, pts, a, b) /\ path = densifyPath(pts)
<1> DEFINE lr == overland(m, a, b)
           jr == jointRoute(m.joint, a, b)
           cr == cableRoute(cables.g, a, b)
<1>1. /\ IsGraph(cables.g) /\ IsGraph(m.land) /\ IsGraph(m.joint)
      /\ StaysIn(cables.g, S) /\ StaysIn(m.land, S) /\ StaysIn(m.joint, S)
      /\ m.land # NoGraph => m.land.coord # <<>>
      /\ m.joint # NoGraph => m.joint.coord # <<>>
  BY DEF GraphsStay
<1>2. CASE lr # NoRoute
  <2>1. Spans(S, lr, a, b)
    <3>1. m.land # NoGraph /\ lr = landRoute(m.land, a, b)
      BY <1>2, Zenon DEF overland
    <3>2. m.land.coord \in Seq(S)
      BY <1>1 DEF StaysIn
    <3> HIDE DEF lr
    <3> QED
      BY <1>1, <1>2, <3>1, <3>2, LandWayIs
  <2>2. Decide(m, a, b, lr).path = densifyPath(lr)
    BY <1>2 DEF Decide
  <2> QED
    BY <2>1, <2>2
<1>3. CASE lr = NoRoute
  <2>1. Decide(m, a, b, lr) = viaCable(a, b, jr)
    BY <1>3, Zenon DEF Decide
  <2>2. CASE jr # NoRoute
    <3>1. viaCable(a, b, jr).path = densifyPath(jr)
      BY <2>2 DEF viaCable
    <3>2. Spans(S, jr, a, b)
      BY <1>1, <2>2, JointWayIs
    <3> QED
      BY <2>1, <3>1, <3>2
  <2>3. CASE jr = NoRoute /\ Len(cr) >= 2
    <3>1. viaCable(a, b, jr).path = densifyPath(<<a>> \o cr \o <<b>>)
      BY <2>3 DEF viaCable
    <3>2. cr \in Seq(S)
      BY <1>1, CableRouteIs
    <3> HIDE DEF cr
    <3>3. <<b>> \in Seq(S) /\ Len(<<b>>) >= 1 /\ <<b>>[Len(<<b>>)] = b
      OBVIOUS
    <3>4. Spans(S, <<a>> \o cr \o <<b>>, a, b)
      BY <3>2, <3>3, BetweenSpans
    <3> QED
      BY <2>1, <3>1, <3>4
  <2>4. CASE jr = NoRoute /\ ~(Len(cr) >= 2)
    <3>1. viaCable(a, b, jr).path = densifyGreatCircle(a, b)
      BY <2>4 DEF viaCable
    <3> QED
      BY <2>1, <3>1
  <2> QED
    BY <2>2, <2>3, <2>4
<1> QED
  BY <1>2, <1>3

\* So it leads from its one end to the other.
LEMMA DecideLeads ==
  ASSUME NEW m, GraphsRight(m), cables.g \in CableGraphs, NEW a \in Point, NEW b \in Point
  PROVE  Leads(Decide(m, a, b, overland(m, a, b)).path, a, b)
<1> DEFINE path == Decide(m, a, b, overland(m, a, b)).path
<1>1. GraphsStay(m, Point) /\ a \in Point \cap Point /\ b \in Point \cap Point
  BY GraphsInPlane
<1>2. \/ path = densifyGreatCircle(a, b)
      \/ \E pts : Spans(Point, pts, a, b) /\ path = densifyPath(pts)
  BY <1>1, DecideIs
<1> HIDE DEF path
<1>3. path = densifyGreatCircle(a, b) => Leads(path, a, b)
  BY DirectLeads
<1>4. ASSUME NEW pts, Spans(Point, pts, a, b), path = densifyPath(pts)
      PROVE  Leads(path, a, b)
  BY <1>4, SpansLead
<1>5. Leads(path, a, b)
  BY <1>2, <1>3, <1>4
<1> QED
  BY <1>5 DEF path

----------------------------------------------------------------------------
(***************************************************************************)
(* The measured route: its places, and what drawing it keeps.              *)
(***************************************************************************)

PlaceStep(f, hops, i) ==
  IF i = 0 THEN <<>>
  ELSE LET pts == f[i - 1]
       IN  IF hops[i] = <<>> \/ (pts # <<>> /\ Last(pts) = hops[i]) THEN pts
           ELSE Append(pts, hops[i])

\* The places a trace is drawn between are points.
LEMMA PlacesAre ==
  ASSUME NEW hops \in Seq(Point \cup {<<>>})
  PROVE  Places(hops) \in Seq(Point)
<1> DEFINE N == Len(hops)
           Q == {n \in Nat : \E f : f = [i \in 0..n |-> PlaceStep(f, hops, i)]}
           F == CHOOSE f : f = [i \in 0..N |-> PlaceStep(f, hops, i)]
<1>1. N \in Nat
  OBVIOUS
<1>2. Places(hops) = F[N]
  BY Zenon DEF Places, PlaceStep
<1> HIDE DEF N
<1>3. 0 \in Q
  <2> DEFINE f == [i \in 0..0 |-> <<>>]
  <2>1. f = [i \in 0..0 |-> PlaceStep(f, hops, i)]
    BY DEF PlaceStep
  <2> QED
    BY <2>1
<1>4. ASSUME NEW n \in Nat, n >= 0, n \in Q
      PROVE  n + 1 \in Q
  <2>1. PICK f : f = [i \in 0..n |-> PlaceStep(f, hops, i)]
    BY <1>4
  <2> DEFINE g == [i \in 0..n + 1 |-> PlaceStep(f, hops, i)]
  <2>2. \A i \in 0..n : g[i] = f[i]
    BY <2>1
  <2>3. \A i \in 0..n + 1 : PlaceStep(g, hops, i) = PlaceStep(f, hops, i)
    <3> TAKE i \in 0..n + 1
    <3>1. i # 0 => i - 1 \in 0..n
      OBVIOUS
    <3>2. i # 0 => g[i - 1] = f[i - 1]
      BY <2>2, <3>1
    <3> HIDE DEF g
    <3> QED
      BY <3>2 DEF PlaceStep
  <2>4. g = [i \in 0..n + 1 |-> PlaceStep(g, hops, i)]
    <3> DEFINE h == [i \in 0..n + 1 |-> PlaceStep(g, hops, i)]
    <3>1. \A i \in 0..n + 1 : g[i] = h[i]
      <4> TAKE i \in 0..n + 1
      <4>1. g[i] = PlaceStep(f, hops, i)
        OBVIOUS
      <4> HIDE DEF g
      <4> QED
        BY <2>3, <4>1
    <3>2. g = [i \in 0..n + 1 |-> g[i]]
      OBVIOUS
    <3>3. h = [i \in 0..n + 1 |-> h[i]]
      OBVIOUS
    <3> HIDE DEF g, h
    <3>4. g = h
      BY <3>1, <3>2, <3>3
    <3> QED
      BY <3>4 DEF h
  <2>5. \E h : h = [i \in 0..n + 1 |-> PlaceStep(h, hops, i)]
    <3> HIDE DEF g
    <3> QED
      BY <2>4
  <2> QED
    BY <2>5
<1> HIDE DEF Q
<1>5. N \in Q
  BY <1>1, <1>3, <1>4, UpwardInduction, SMTT(30)
<1>6. F = [i \in 0..N |-> PlaceStep(F, hops, i)]
  BY <1>5, Zenon DEF Q
<1> HIDE DEF F
<1> DEFINE R == {n \in Nat : n <= N => F[n] \in Seq(Point)}
<1>7. 0 \in R
  BY <1>1, <1>6 DEF PlaceStep
<1>8. ASSUME NEW n \in Nat, n >= 0, n \in R
      PROVE  n + 1 \in R
  <2> SUFFICES ASSUME n + 1 <= N
               PROVE  F[n + 1] \in Seq(Point)
    OBVIOUS
  <2>1. F[n] \in Seq(Point)
    BY <1>1, <1>8
  <2>2. F[n + 1] = PlaceStep(F, hops, n + 1)
    BY <1>1, <1>6
  <2>3. hops[n + 1] = <<>> \/ hops[n + 1] \in Point
    BY <1>1 DEF N
  <2> DEFINE c == hops[n + 1] = <<>> \/ (F[n] # <<>> /\ Last(F[n]) = hops[n + 1])
  <2>4. F[n + 1] = IF c THEN F[n] ELSE Append(F[n], hops[n + 1])
    <3>1. n + 1 # 0 /\ (n + 1) - 1 = n
      OBVIOUS
    <3> QED
      BY <2>2, <3>1, Zenon DEF PlaceStep
  <2>5. CASE c
    <3> HIDE DEF c
    <3> QED
      BY <2>1, <2>4, <2>5
  <2>6. CASE ~c
    <3>1. hops[n + 1] \in Point
      BY <2>3, <2>6
    <3> HIDE DEF c
    <3> QED
      BY <2>1, <2>4, <2>6, <3>1, AppendProperties
  <2> QED
    BY <2>5, <2>6
<1> HIDE DEF R
<1>9. N \in R
  BY <1>1, <1>7, <1>8, UpwardInduction, SMTT(30)
<1> QED
  BY <1>1, <1>2, <1>9 DEF R

\* Every link that was asked for lies between points.
LEMMA AskedPoints ==
  ASSUME world \in Worlds, NEW l \in Asked
  PROVE  l[1] \in Point /\ l[2] \in Point
<1> DEFINE pts == Places(world.hops)
<1>1. world.links \subseteq Point \X Point /\ world.hops \in Seq(Point \cup {<<>>})
  BY RoutingAssumption
<1>2. pts \in Seq(Point)
  BY <1>1, PlacesAre
<1> HIDE DEF pts
<1>3. CASE l \in world.links
  BY <1>1, <1>3
<1>4. CASE \E i \in 1..Len(pts) - 1 : l = <<pts[i], pts[i + 1]>>
  <2>1. PICK i \in 1..Len(pts) - 1 : l = <<pts[i], pts[i + 1]>>
    BY <1>4
  <2>2. i \in 1..Len(pts) /\ i + 1 \in 1..Len(pts)
    BY <1>2
  <2>3. pts[i] \in Point /\ pts[i + 1] \in Point
    BY <1>2, <2>2
  <2> QED
    BY <2>1, <2>3
<1> QED
  BY <1>3, <1>4 DEF Asked, pts

\* The drawing of a trace, hop by hop.
TraceStep(f, pts, i) ==
  IF i = 1 THEN [memo |-> memo, full |-> <<pts[1]>>]
  ELSE Hop(f[i - 1], pts[i - 1], pts[i])

\* It is put together hop by hop.
LEMMA TracedBy ==
  ASSUME NEW pts \in Seq(Point), Len(pts) >= 2
  PROVE  \E F : /\ Traced(pts) = F[Len(pts)]
                /\ \A i \in 1..Len(pts) : F[i] = TraceStep(F, pts, i)
<1> DEFINE N == Len(pts)
           Q == {n \in Nat : \E f : f = [i \in 1..n |-> TraceStep(f, pts, i)]}
           F == CHOOSE f : f = [i \in 1..N |-> TraceStep(f, pts, i)]
<1>1. N \in Nat /\ N >= 2
  OBVIOUS
<1>2. Traced(pts) = F[N]
  BY Zenon DEF Traced, TraceStep
<1> HIDE DEF N
<1>3. 1 \in Q
  <2> DEFINE f == [i \in 1..1 |-> [memo |-> memo, full |-> <<pts[1]>>]]
  <2>1. f = [i \in 1..1 |-> TraceStep(f, pts, i)]
    BY DEF TraceStep
  <2> QED
    BY <2>1
<1>4. ASSUME NEW n \in Nat, n >= 1, n \in Q
      PROVE  n + 1 \in Q
  <2>1. PICK f : f = [i \in 1..n |-> TraceStep(f, pts, i)]
    BY <1>4
  <2> DEFINE g == [i \in 1..n + 1 |-> TraceStep(f, pts, i)]
  <2>2. \A i \in 1..n : g[i] = f[i]
    BY <2>1
  <2>3. \A i \in 1..n + 1 : TraceStep(g, pts, i) = TraceStep(f, pts, i)
    <3> TAKE i \in 1..n + 1
    <3>1. i # 1 => i - 1 \in 1..n
      OBVIOUS
    <3>2. i # 1 => g[i - 1] = f[i - 1]
      BY <2>2, <3>1
    <3> HIDE DEF g
    <3> QED
      BY <3>2, Zenon DEF TraceStep
  <2>4. g = [i \in 1..n + 1 |-> TraceStep(g, pts, i)]
    <3> DEFINE h == [i \in 1..n + 1 |-> TraceStep(g, pts, i)]
    <3>1. \A i \in 1..n + 1 : g[i] = h[i]
      <4> TAKE i \in 1..n + 1
      <4>1. g[i] = TraceStep(f, pts, i)
        OBVIOUS
      <4> HIDE DEF g
      <4> QED
        BY <2>3, <4>1
    <3>2. g = [i \in 1..n + 1 |-> g[i]]
      OBVIOUS
    <3>3. h = [i \in 1..n + 1 |-> h[i]]
      OBVIOUS
    <3> HIDE DEF g, h
    <3>4. g = h
      BY <3>1, <3>2, <3>3
    <3> QED
      BY <3>4 DEF h
  <2>5. \E h : h = [i \in 1..n + 1 |-> TraceStep(h, pts, i)]
    <3> HIDE DEF g
    <3> QED
      BY <2>4
  <2> QED
    BY <2>5
<1> HIDE DEF Q
<1>5. N \in Q
  BY <1>1, <1>3, <1>4, UpwardInduction
<1>6. F = [i \in 1..N |-> TraceStep(F, pts, i)]
  BY <1>5, Zenon DEF Q
<1> HIDE DEF F
<1>7. \A i \in 1..N : F[i] = TraceStep(F, pts, i)
  BY <1>6
<1> QED
  BY <1>2, <1>7 DEF N

\* What was kept is still kept.
CacheKept(m, n) ==
  \A k \in DOMAIN m.cache : k \in DOMAIN n.cache /\ n.cache[k] = m.cache[k]

\* The lines that may be parts of a measured route, and their points.
Bits(m) ==
  {m.cache[k].path : k \in DOMAIN m.cache} \cup {<<l[1]>> : l \in Asked}
    \cup {densifyGreatCircle(l[1], l[2]) : l \in Asked}
Drawn(m) == UNION {ToSet(line) : line \in Bits(m)}

\* They become more.
LEMMA DrawnGrows ==
  ASSUME NEW m, NEW n, CacheKept(m, n)
  PROVE  Drawn(m) \subseteq Drawn(n)
<1>1. Bits(m) \subseteq Bits(n)
  <2>1. \A k \in DOMAIN m.cache :
          m.cache[k].path \in {n.cache[i].path : i \in DOMAIN n.cache}
    BY DEF CacheKept
  <2> QED
    BY <2>1 DEF Bits
<1> QED
  BY <1>1 DEF Drawn

\* Answering a link changes no path that is kept.
LEMMA LinkedGrows ==
  ASSUME NEW m, KeptRight(m), NEW a, NEW b
  PROVE  CacheKept(m, Linked(m, a, b))
<1>1. CASE Key(a, b) \in DOMAIN m.cache \/ ~Loaded
  BY <1>1 DEF Linked, CacheKept
<1>2. CASE ~(Key(a, b) \in DOMAIN m.cache \/ ~Loaded)
  <2> DEFINE p == landBackbone(m)
             lr == overland(p, a, b)
             q == IF lr # NoRoute THEN p ELSE buildJointGraph(p)
             d == Decide(q, a, b, lr)
             key == Key(a, b)
             c == Over([k \in {key} |-> d], q.cache)
  <2>1. m = [land |-> m.land, joint |-> m.joint, cache |-> m.cache]
    BY DEF KeptRight
  <2>2. Linked(m, a, b) = Kept(q, a, b, lr)
    BY <1>2, Zenon DEF Linked, OnLandGraph, Settled
  <2>3. p \in {[land |-> g, joint |-> m.joint, cache |-> m.cache] :
                 g \in {m.land, buildLandGraph(hubs, landmass.polys, topology.value)}}
    BY <2>1 DEF landBackbone
  <2> HIDE DEF p
  <2>4. q \in {[land |-> p.land, joint |-> g, cache |-> m.cache] :
                 g \in {m.joint, JointOf(p.land, cables.g)}}
    BY <2>3 DEF buildJointGraph
  <2> HIDE DEF q, lr
  <2>5. q.cache = m.cache /\ q = [land |-> q.land, joint |-> q.joint, cache |-> m.cache]
    BY <2>4
  <2> HIDE DEF d, key
  <2>6. Kept(q, a, b, lr) = [q EXCEPT !.cache = Over([k \in {key} |-> d], @)]
    BY Zenon DEF Kept, d, key
  <2>7. Kept(q, a, b, lr).cache = c
    BY <2>5, <2>6
  <2>8. \A k \in DOMAIN m.cache : k # key => k \in DOMAIN c /\ c[k] = m.cache[k]
    BY <2>5 DEF Over
  <2>9. key \notin DOMAIN m.cache
    BY <1>2 DEF key
  <2> QED
    BY <2>2, <2>7, <2>8, <2>9 DEF CacheKept
<1> QED
  BY <1>1, <1>2

\* The answer to a link is a line of them, and not empty.
LEMMA AnswerDrawn ==
  ASSUME NEW m, KeptRight(m), SourcesRight, world \in Worlds,
         NEW a, NEW b, <<a, b>> \in Asked
  PROVE  Tail(segmentPath(m, a, b).path) \in Seq(Drawn(m))
<1> DEFINE path == segmentPath(m, a, b).path
           key  == Key(a, b)
<1>1. path \in Bits(m) /\ path \in Seq(Point) /\ path # <<>>
  <2>1. CASE key \in DOMAIN m.cache
    <3>1. path = m.cache[key].path
      BY <2>1, Zenon DEF segmentPath
    <3>2. PICK o \in Asked : m.cache[key] = Decide(m, o[1], o[2], overland(m, o[1], o[2]))
      BY <2>1 DEF KeptRight, Decided
    <3>3. o[1] \in Point /\ o[2] \in Point
      BY AskedPoints
    <3>4. Leads(m.cache[key].path, o[1], o[2])
      BY <3>2, <3>3, DecideLeads DEF KeptRight, SourcesRight
    <3> HIDE DEF path, key
    <3> QED
      BY <2>1, <3>1, <3>4 DEF Bits, Leads
  <2>2. CASE key \notin DOMAIN m.cache
    <3> DEFINE l == <<a, b>>
    <3>1. path = densifyGreatCircle(l[1], l[2])
      BY <2>2 DEF segmentPath
    <3>2. l \in Asked /\ l[1] \in Point /\ l[2] \in Point
      BY AskedPoints
    <3> HIDE DEF path, l
    <3>3. Leads(path, l[1], l[2])
      BY <3>1, <3>2, DirectLeads
    <3> QED
      BY <3>1, <3>2, <3>3 DEF Bits, Leads
  <2> QED
    BY <2>1, <2>2
<1> HIDE DEF path
<1>2. \A i \in 1..Len(path) : path[i] \in Drawn(m)
  BY <1>1 DEF Drawn, ToSet
<1>3. path \in Seq(Drawn(m))
  BY <1>1, <1>2
<1>4. Tail(path) \in Seq(Drawn(m))
  BY <1>1, <1>3
<1> QED
  BY <1>4 DEF path

\* Each hop drawn leaves what is kept right and adds to it, and to the route a
\* part of what is drawn.
LEMMA TracedRight ==
  ASSUME KeptRight(memo), SourcesRight, world \in Worlds,
         NEW pts \in Seq(Point), Len(pts) >= 2,
         \A i \in 1..Len(pts) - 1 : <<pts[i], pts[i + 1]>> \in Asked
  PROVE  /\ KeptRight(Traced(pts).memo) /\ CacheKept(memo, Traced(pts).memo)
         /\ Traced(pts).full \in Seq(Drawn(Traced(pts).memo))
<1> DEFINE N == Len(pts)
           Right(f) == /\ KeptRight(f.memo) /\ CacheKept(memo, f.memo)
                       /\ f.full \in Seq(Drawn(f.memo))
<1>1. N \in Nat /\ N >= 2
  OBVIOUS
<1>2. PICK F : Traced(pts) = F[N] /\ \A i \in 1..N : F[i] = TraceStep(F, pts, i)
  BY TracedBy
<1>3. \A i \in 1..N - 1 : <<pts[i], pts[i + 1]>> \in Asked
  OBVIOUS
<1> HIDE DEF N
<1> DEFINE R == {n \in 1..N : Right(F[n])}
<1>4. ASSUME NEW n \in 1..N, n = 1 \/ n - 1 \in R
      PROVE  n \in R
  <2>1. F[n] = TraceStep(F, pts, n)
    BY <1>2
  <2>2. CASE n = 1
    <3>1. F[n] = [memo |-> memo, full |-> <<pts[1]>>]
      BY <2>1, <2>2 DEF TraceStep
    <3>2. pts[1] \in Drawn(memo)
      <4>1. <<pts[1], pts[1 + 1]>> \in Asked
        BY <1>1, <1>3
      <4>2. <<pts[1]>> \in {<<l[1]>> : l \in Asked}
        <5> DEFINE l == <<pts[1], pts[1 + 1]>>
        <5>1. l \in Asked /\ l[1] = pts[1]
          BY <4>1
        <5> HIDE DEF l
        <5> QED
          BY <5>1
      <4>3. pts[1] \in ToSet(<<pts[1]>>)
        BY DEF ToSet
      <4> QED
        BY <4>2, <4>3 DEF Drawn, Bits
    <3>3. CacheKept(memo, memo) /\ <<pts[1]>> \in Seq(Drawn(memo))
      BY <3>2 DEF CacheKept
    <3>4. F[n].memo = memo /\ F[n].full = <<pts[1]>>
      BY <3>1
    <3> QED
      BY <3>3, <3>4
  <2>3. CASE n # 1
    <3> DEFINE i == n - 1
               f == F[i]
               a == pts[i]
               b == pts[n]
               m == Linked(f.memo, a, b)
               more == Tail(segmentPath(m, a, b).path)
    <3>1. i \in 1..N /\ i \in 1..N - 1 /\ i + 1 = n /\ i \in R
      BY <1>1, <1>4, <2>3
    <3>2. Right(f)
      BY <3>1
    <3>3. <<a, b>> \in Asked
      BY <1>3, <3>1
    <3>4. F[n] = [memo |-> m, full |-> f.full \o more]
      BY <2>1, <2>3, Zenon DEF TraceStep, Hop, Extended
    <3> HIDE DEF f, a, b, R, i
    <3>5. KeptRight(m) /\ CacheKept(f.memo, m)
      BY <3>2, <3>3, LinkedRight, LinkedGrows
    <3> HIDE DEF m
    <3>6. more \in Seq(Drawn(m))
      BY <3>3, <3>5, AnswerDrawn
    <3>7. Drawn(f.memo) \subseteq Drawn(m)
      BY <3>5, DrawnGrows
    <3>8. f.full \in Seq(Drawn(m))
      <4>1. f.full \in Seq(Drawn(f.memo))
        BY <3>2
      <4> QED
        BY <3>7, <4>1
    <3> HIDE DEF more
    <3>9. f.full \o more \in Seq(Drawn(m))
      BY <3>6, <3>8, ConcatProperties
    <3>10. CacheKept(memo, m)
      BY <3>2, <3>5 DEF CacheKept
    <3>11. F[n].memo = m /\ F[n].full = f.full \o more
      BY <3>4
    <3> QED
      BY <3>5, <3>9, <3>10, <3>11 DEF R
  <2> QED
    BY <2>2, <2>3
<1> HIDE DEF R
<1>5. \A n \in 1..N : n \in R
  BY <1>1, <1>4, IndexInduction
<1>6. N \in R
  BY <1>1, <1>5
<1> QED
  BY <1>2, <1>6 DEF R

----------------------------------------------------------------------------
(***************************************************************************)
(* The invariant: what is read of the files is final once it is used.      *)
(***************************************************************************)

\* The topology does not change once it is answered.
TopologyInv ==
  /\ world \in Worlds
  /\ topology.answered \in BOOLEAN
  /\ ~topology.answered => topology.value = NoTopology
  /\ topology.value \in {NoTopology, world.topology}

\* loadHubs has finished when the hubs are ready, and trunks come with the POPs.
HubsRecord(h) ==
  DOMAIN h = {"landings", "hubs", "corridorStart", "corridorEdges", "trunkEdges", "ready"}

\* The hubs are in order; a trunk means that the topology has answered.
HubsInv ==
  /\ HubsRecord(hubs) /\ HubsOK(hubs)
  /\ hubs.ready \in BOOLEAN /\ file \in 1..3
  /\ hubs.ready => file = 3
  /\ hubs.trunkEdges # <<>> => topology.answered /\ topology.value = world.topology
  /\ hubs.corridorStart # NoCorridor => topology.answered

\* Where POPs are.
Positions(pops) == {p.position : p \in ToSet(pops)}

\* The overlay was loaded with the answered topology.
InfraInv ==
  /\ {infra.ready, infra.loaded} \subseteq BOOLEAN
  /\ infra.ready \/ infra.loaded =>
       /\ topology.answered
       /\ Positions(topology.value.pops) \subseteq ToSet(infra.nodes)

\* The cable graph is none, or one piece.
CablesInv ==
  /\ cables.g \in CableGraphs /\ CablesConnected
  /\ {cables.state, landmass.state} \subseteq {"loading", "ready", "failed"}

\* The rings of the landmasses are lists of points.
LandmassInv == \A pl \in ToSet(landmass.polys) : pl.ring \in Seq(Point)

\* The inductive invariant.
IInv == /\ TopologyInv /\ HubsInv /\ InfraInv /\ CablesInv /\ LandmassInv
        /\ KeptRight(memo)

----------------------------------------------------------------------------

\* What is known of the topology is lists of points and of pairs.
TopologyRight(topo) ==
  /\ topo.pops \in Seq([name : STRING, position : Point])
  /\ topo.trunks \in Seq(STRING \X STRING)
  /\ topo.corridorHubs \in Seq(Point)
  /\ topo.corridorEdges \in Seq((Nat \ {0}) \X (Nat \ {0}))
  /\ topo.noTransitZones \subseteq Seq(Point)

\* The topology that is held, none or the answer, is in order.
LEMMA TopologyIs ==
  ASSUME TopologyInv
  PROVE  TopologyRight(topology.value)
<1>1. CASE topology.value = NoTopology
  <2>1. /\ topology.value.pops = <<>> /\ topology.value.trunks = <<>>
        /\ topology.value.corridorHubs = <<>> /\ topology.value.corridorEdges = <<>>
        /\ topology.value.noTransitZones = {}
    BY <1>1 DEF NoTopology
  <2> QED
    BY <2>1, EmptySeq DEF TopologyRight
<1>2. CASE topology.value = world.topology
  BY <1>2, RoutingAssumption DEF TopologyInv, TopologyRight
<1> QED
  BY <1>1, <1>2 DEF TopologyInv

\* The positions the POPs are put at.
Spots(topo) == [i \in DOMAIN topo.pops |-> topo.pops[i].position]

\* They are points, one for each POP.
LEMMA SpotsAre ==
  ASSUME NEW topo, TopologyRight(topo)
  PROVE  /\ Spots(topo) \in Seq(Point) /\ Len(Spots(topo)) = Len(topo.pops)
         /\ \A i \in 1..Len(topo.pops) : Spots(topo)[i] = topo.pops[i].position
<1> DEFINE pops == topo.pops
           P == [name : STRING, position : Point]
<1>1. pops \in Seq(P)
  BY DEF TopologyRight
<1> HIDE DEF P, pops
<1>2. Len(pops) \in Nat /\ DOMAIN pops = 1..Len(pops)
  BY <1>1
<1>3. \A i \in 1..Len(pops) : pops[i].position \in Point
  <2> TAKE i \in 1..Len(pops)
  <2>1. pops[i] \in P
    BY <1>1, ElementOfSeq
  <2> HIDE DEF Point
  <2> QED
    BY <2>1 DEF P
<1>4. Spots(topo) = [i \in 1..Len(pops) |-> pops[i].position]
  BY <1>2 DEF Spots, pops
<1>5. /\ Spots(topo) \in Seq(Point) /\ Len(Spots(topo)) = Len(pops)
      /\ \A i \in 1..Len(pops) : Spots(topo)[i] = pops[i].position
  BY <1>2, <1>3, <1>4
<1> QED
  BY <1>5 DEF pops

\* The last POP of a name; the trunks both of whose ends are POPs.
PopAt(topo, name) ==
  CHOOSE i \in DOMAIN topo.pops :
    /\ topo.pops[i].name = name
    /\ \A k \in i + 1..Len(topo.pops) : topo.pops[k].name # name

\* The trunks between POPs that are there.
Known(topo) ==
  Sublist(topo.trunks, {i \in DOMAIN topo.trunks :
    ToSet(topo.trunks[i]) \subseteq {p.name : p \in ToSet(topo.pops)}})

\* The same by the numbers of hubs, n of them being there before the POPs.
TrunkPairs(n, topo) ==
  [i \in DOMAIN Known(topo) |->
     <<n + PopAt(topo, Known(topo)[i][1]), n + PopAt(topo, Known(topo)[i][2])>>]

\* A POP that is there has a number.
LEMMA PopAtIs ==
  ASSUME NEW topo, TopologyRight(topo), NEW name,
         name \in {p.name : p \in ToSet(topo.pops)}
  PROVE  PopAt(topo, name) \in Nat \ {0}
<1> DEFINE pops == topo.pops
           T == {i \in 1..Len(pops) : pops[i].name = name}
<1>1. Len(pops) \in Nat /\ DOMAIN pops = 1..Len(pops)
  BY DEF TopologyRight
<1>2. T # {}
  BY <1>1 DEF ToSet
<1> DEFINE m == Max(T)
<1>3. m \in T /\ \A y \in T : m >= y
  BY <1>1, <1>2, MaxIs
<1> HIDE DEF m
<1>4. \A k \in m + 1..Len(pops) : pops[k].name # name
  <2> SUFFICES ASSUME NEW k \in m + 1..Len(pops), pops[k].name = name
               PROVE  FALSE
    OBVIOUS
  <2>1. m \in 1..Len(pops) /\ k \in Int /\ k >= m + 1 /\ k <= Len(pops)
    BY <1>1, <1>3
  <2>2. k \in T
    BY <1>1, <2>1
  <2>3. m >= k
    BY <1>3, <2>2
  <2> QED
    BY <2>1, <2>3
<1>5. \E i \in DOMAIN topo.pops : /\ topo.pops[i].name = name
                                  /\ \A k \in i + 1..Len(topo.pops) : topo.pops[k].name # name
  BY <1>1, <1>3, <1>4
<1>6. PopAt(topo, name) \in DOMAIN topo.pops
  BY <1>5, Zenon DEF PopAt
<1> QED
  BY <1>1, <1>6

\* So the trunks are pairs of numbers.
LEMMA TrunkPairsAre ==
  ASSUME NEW topo, TopologyRight(topo), NEW n \in Nat
  PROVE  TrunkPairs(n, topo) \in Seq((Nat \ {0}) \X (Nat \ {0}))
<1> DEFINE I == {i \in DOMAIN topo.trunks :
                   ToSet(topo.trunks[i]) \subseteq {p.name : p \in ToSet(topo.pops)}}
           known == Sublist(topo.trunks, I)
<1>1. topo.trunks \in Seq(STRING \X STRING)
  BY DEF TopologyRight
<1>2. I \in SUBSET (DOMAIN topo.trunks)
  OBVIOUS
<1>3. ASSUME NEW i \in I
      PROVE  /\ topo.trunks[i][1] \in {p.name : p \in ToSet(topo.pops)}
             /\ topo.trunks[i][2] \in {p.name : p \in ToSet(topo.pops)}
  <2>1. topo.trunks[i] \in STRING \X STRING
    BY <1>1, <1>2
  <2>2. PICK x, y : topo.trunks[i] = <<x, y>>
    BY <2>1
  <2>3. x \in ToSet(topo.trunks[i]) /\ y \in ToSet(topo.trunks[i])
    BY <2>2 DEF ToSet
  <2> QED
    BY <2>2, <2>3
<1>4. Known(topo) = known
  BY DEF Known
<1> HIDE DEF I
<1>5. /\ known \in Seq(STRING \X STRING)
      /\ \A k \in 1..Len(known) : known[k] = topo.trunks[Nth(I, k)] /\ Nth(I, k) \in I
  BY <1>1, <1>2, SublistIs
<1> HIDE DEF known
<1> DEFINE at(k, e) == n + PopAt(topo, known[k][e])
<1>6. ASSUME NEW k \in 1..Len(known)
      PROVE  at(k, 1) \in Nat \ {0} /\ at(k, 2) \in Nat \ {0}
  <2>1. PopAt(topo, known[k][1]) \in Nat \ {0} /\ PopAt(topo, known[k][2]) \in Nat \ {0}
    BY <1>3, <1>5, PopAtIs
  <2> QED
    BY <2>1
<1>7. TrunkPairs(n, topo) = [k \in 1..Len(known) |-> <<at(k, 1), at(k, 2)>>]
  BY <1>4, <1>5 DEF TrunkPairs
<1> HIDE DEF at
<1>8. \A k \in 1..Len(known) : <<at(k, 1), at(k, 2)>> \in (Nat \ {0}) \X (Nat \ {0})
  BY <1>6
<1> QED
  BY <1>5, <1>7, <1>8

\* Reading the features of a file and the topology leaves the hubs in order, and
\* the trunks as they are or with POPs, and no corridor but of the topology.
LEMMA FileRead ==
  ASSUME HubsRecord(hubs), HubsOK(hubs), TopologyRight(topology.value),
         NEW f, f.landings \in Seq(Point), f.hubs \in Seq(Point), file \in 1..2,
         FinishFile(ReadFeatures(hubs, f), topology.value)
  PROVE  /\ HubsRecord(hubs') /\ HubsOK(hubs')
         /\ hubs'.ready \in BOOLEAN /\ file' \in 1..3
         /\ hubs'.ready => file' = 3
         /\ hubs'.trunkEdges # <<>> =>
              hubs.trunkEdges # <<>> \/ topology.value.pops # <<>>
         /\ hubs'.corridorStart # NoCorridor =>
              \/ hubs.corridorStart # NoCorridor
              \/ topology.value.corridorHubs # <<>>
<1> DEFINE a == ReadFeatures(hubs, f)
           topo == topology.value
           b == AddCorridor(a, topo)
           all == AddPops(b, topo)
<1>0. /\ hubs' = [all EXCEPT !.ready = all.landings # <<>>]
      /\ file' = IF all.landings # <<>> THEN 3 ELSE file + 1
  BY Zenon DEF FinishFile
<1>1. /\ HubsRecord(a) /\ HubsOK(a) /\ a.trunkEdges = hubs.trunkEdges
      /\ a.corridorStart = hubs.corridorStart
  <2> DEFINE x == hubs.landings \o f.landings
             y == hubs.hubs \o f.hubs
  <2>1. a = [hubs EXCEPT !.landings = x, !.hubs = y]
    BY DEF ReadFeatures
  <2>2. x \in Seq(Point) /\ y \in Seq(Point)
    BY DEF HubsOK
  <2> HIDE DEF a, x, y
  <2>3. /\ HubsRecord(a) /\ a.landings = x /\ a.hubs = y
        /\ a.trunkEdges = hubs.trunkEdges /\ a.corridorStart = hubs.corridorStart
        /\ a.corridorEdges = hubs.corridorEdges
    BY <2>1, SMT DEF HubsRecord
  <2> QED
    BY <2>2, <2>3 DEF HubsOK
<1> HIDE DEF a
<1>2. /\ HubsRecord(b) /\ HubsOK(b) /\ b.trunkEdges = a.trunkEdges
      /\ b.corridorStart # NoCorridor =>
           a.corridorStart # NoCorridor \/ topo.corridorHubs # <<>>
  <2>1. CASE topo.corridorHubs = <<>>
    BY <1>1, <2>1 DEF AddCorridor
  <2>2. CASE topo.corridorHubs # <<>>
    <3> DEFINE x == Len(a.hubs)
               z == a.hubs \o topo.corridorHubs
    <3>1. b = [a EXCEPT !.corridorStart = x, !.corridorEdges = topo.corridorEdges, !.hubs = z]
      BY <2>2, Zenon DEF AddCorridor
    <3>2. x \in Nat /\ z \in Seq(Point)
      BY <1>1 DEF HubsOK, TopologyRight
    <3> HIDE DEF b, x, z
    <3>3. /\ HubsRecord(b) /\ b.corridorStart = x /\ b.hubs = z
          /\ b.corridorEdges = topo.corridorEdges
          /\ b.trunkEdges = a.trunkEdges /\ b.landings = a.landings
      BY <1>1, <3>1, SMT DEF HubsRecord
    <3> QED
      BY <1>1, <2>2, <3>2, <3>3 DEF HubsOK, TopologyRight
  <2> QED
    BY <2>1, <2>2
<1> HIDE DEF b
<1>3. all = AddPops(b, topo)
  OBVIOUS
<1> HIDE DEF all
<1>4. /\ HubsRecord(all) /\ HubsOK(all)
      /\ all.trunkEdges # <<>> => b.trunkEdges # <<>> \/ topo.pops # <<>>
      /\ all.corridorStart = b.corridorStart
  <2>1. CASE topo.pops = <<>>
    BY <1>2, <1>3, <2>1 DEF AddPops
  <2>2. CASE topo.pops # <<>>
    <3> DEFINE n == Len(b.hubs)
               x == b.hubs \o Spots(topo)
               y == TrunkPairs(n, topo)
    <3>1. all = [b EXCEPT !.hubs = x, !.trunkEdges = y]
      BY <1>3, <2>2, Zenon DEF AddPops, Spots, TrunkPairs, Known, PopAt
    <3>2. n \in Nat /\ Spots(topo) \in Seq(Point)
      BY <1>2, SpotsAre DEF HubsOK
    <3>3. x \in Seq(Point)
      BY <1>2, <3>2 DEF HubsOK
    <3> HIDE DEF n, x, topo
    <3>4. y \in Seq((Nat \ {0}) \X (Nat \ {0}))
      BY <3>2, TrunkPairsAre DEF topo
    <3> HIDE DEF y
    <3>5. /\ HubsRecord(all) /\ all.hubs = x /\ all.trunkEdges = y
          /\ all.corridorStart = b.corridorStart /\ all.corridorEdges = b.corridorEdges
          /\ all.landings = b.landings
      BY <1>2, <3>1, SMT DEF HubsRecord
    <3> QED
      BY <1>2, <2>2, <3>3, <3>4, <3>5 DEF HubsOK
  <2> QED
    BY <2>1, <2>2
<1>5. /\ HubsRecord(hubs') /\ hubs'.trunkEdges = all.trunkEdges
      /\ hubs'.ready = (all.landings # <<>>)
      /\ hubs'.hubs = all.hubs /\ hubs'.landings = all.landings
      /\ hubs'.corridorStart = all.corridorStart /\ hubs'.corridorEdges = all.corridorEdges
  BY <1>0, <1>4, SMT DEF HubsRecord
<1>6. HubsOK(hubs')
  BY <1>4, <1>5 DEF HubsOK
<1>7. file' \in 1..3
  BY <1>0
<1> QED
  BY <1>0, <1>1, <1>2, <1>4, <1>5, <1>6, <1>7

\* What is right about the new memo is right in the new state, the data it was
\* decided by being the same.
LEMMA SameData ==
  ASSUME UNCHANGED <<world, hubs, cables, landmass>>, KeptRight(memo'),
         hubs.corridorStart # NoCorridor => UNCHANGED topology
  PROVE  KeptRight(memo)'
<1>1. \A a, b : sameLandmass(a, b)' = sameLandmass(a, b)
  BY DEF sameLandmass
<1>2. \A a, b, j : viaCable(a, b, j)' = viaCable(a, b, j)
  BY Zenon DEF viaCable
<1>3. \A a, b : overland(memo, a, b)' = overland(memo', a, b)
  BY <1>1, Zenon DEF overland
<1>4. \A a, b, lr : Decide(memo, a, b, lr)' = Decide(memo', a, b, lr)
  BY <1>2, Zenon DEF Decide
<1>5. Asked' = Asked
  BY DEF Asked
<1>6. /\ JointBuilt(memo)' <=> JointBuilt(memo')
      /\ LandBuilt(memo)' <=> LandBuilt(memo')
      /\ Loaded' <=> Loaded
  BY DEF JointBuilt, LandBuilt, Loaded
<1>7. ASSUME NEW k, Decided(memo', k)
      PROVE  Decided(memo, k)'
  <2>1. PICK l \in Asked :
          /\ Key(l[1], l[2]) = k
          /\ memo'.cache[k] = Decide(memo', l[1], l[2], overland(memo', l[1], l[2]))
          /\ overland(memo', l[1], l[2]) = NoRoute => JointBuilt(memo')
    BY <1>7, Zenon DEF Decided
  <2>2. /\ memo'.cache[k] = Decide(memo, l[1], l[2], overland(memo, l[1], l[2]))'
        /\ overland(memo, l[1], l[2])' = NoRoute => JointBuilt(memo)'
    BY <1>3, <1>4, <1>6, <2>1
  <2> QED
    BY <1>5, <2>1, <2>2 DEF Decided
<1>8. LandFinal(memo')  => LandFinal(memo)'
  BY <1>6 DEF LandFinal
<1>9. GraphsRight(memo') => GraphsRight(memo)'
  BY DEF GraphsRight
<1> QED
  BY <1>6, <1>7, <1>8, <1>9 DEF KeptRight

\* So a step that only reads data, before everything is loaded, changes nothing.
LEMMA KeptStays ==
  ASSUME KeptRight(memo), UNCHANGED <<world, memo>>,
         Loaded => UNCHANGED <<hubs, cables, landmass>>,
         hubs.corridorStart # NoCorridor => UNCHANGED topology
  PROVE  KeptRight(memo)'
<1>1. CASE ~Loaded
  <2>1. DOMAIN memo.cache = {} /\ memo.land = NoGraph
    BY <1>1 DEF KeptRight, LandFinal
  <2>2. memo' = [land |-> memo'.land, joint |-> memo'.joint, cache |-> memo'.cache]
    BY DEF KeptRight
  <2>3. GraphsRight(memo)' /\ LandFinal(memo)'
    BY <2>1 DEF KeptRight, GraphsRight, LandFinal
  <2>4. DOMAIN memo'.cache = {}
    BY <2>1
  <2> QED
    BY <2>2, <2>3, <2>4 DEF KeptRight
<1>2. CASE Loaded
  <2>1. UNCHANGED <<hubs, cables, landmass>> /\ memo' = memo
    BY <1>2
  <2> QED
    BY <2>1, SameData
<1> QED
  BY <1>1, <1>2

\* The cables that are built into the graph: the lines of two points or more, of
\* the systems that have one.
Segments(lines) == Sublist(lines, {k \in DOMAIN lines : Len(lines[k]) >= 2})

\* The systems the network is built from.
Systems ==
  LET segs == [i \in DOMAIN world.systems |-> Segments(world.systems[i])]
  IN  Sublist(segs, {i \in DOMAIN segs : segs[i] # <<>>})

\* They are lists of lines, as the data has them.
LEMMA SystemsAre ==
  ASSUME world \in Worlds
  PROVE  Systems \in Seq(Seq(RawLines))
<1> DEFINE All == Seq((-Half..Half) \X Int)
           systems == world.systems
           segs == [i \in DOMAIN systems |-> Segments(systems[i])]
<1>1. systems \in Seq(Seq(All))
  BY RoutingAssumption
<1>2. ASSUME NEW lines \in Seq(All)
      PROVE  Segments(lines) \in Seq(RawLines)
  <2> DEFINE I == {k \in DOMAIN lines : Len(lines[k]) >= 2}
             r == Sublist(lines, I)
  <2>1. I \in SUBSET (DOMAIN lines)
    OBVIOUS
  <2>2. \A i \in I : lines[i] \in RawLines
    BY DEF RawLines
  <2> HIDE DEF I
  <2>3. /\ r \in Seq(All)
        /\ \A k \in 1..Len(r) : r[k] = lines[Nth(I, k)] /\ Nth(I, k) \in I
    BY <2>1, SublistIs
  <2>4. \A k \in 1..Len(r) : r[k] \in RawLines
    BY <2>2, <2>3
  <2> HIDE DEF r, All
  <2>5. r \in Seq(RawLines)
    BY <2>3, <2>4
  <2> QED
    BY <2>5 DEF Segments, r, I
<1> HIDE DEF All
<1>3. segs \in Seq(Seq(RawLines))
  <2>1. Len(systems) \in Nat /\ DOMAIN systems = 1..Len(systems)
    BY <1>1
  <2>2. \A i \in 1..Len(systems) : systems[i] \in Seq(All)
    BY <1>1, ElementOfSeq
  <2>3. \A i \in 1..Len(systems) : Segments(systems[i]) \in Seq(RawLines)
    BY <1>2, <2>2
  <2>4. segs = [i \in 1..Len(systems) |-> Segments(systems[i])]
    BY <2>1
  <2> HIDE DEF segs, systems
  <2> QED
    BY <2>1, <2>3, <2>4
<1>4. Systems = Sublist(segs, {i \in DOMAIN segs : segs[i] # <<>>})
  BY DEF Systems
<1> HIDE DEF segs
<1> QED
  BY <1>3, <1>4, SublistIs

\* The landmasses are made of the rings in the data.
LEMMA LandmassRead ==
  ASSUME world \in Worlds, LoadLandmass
  PROVE  LandmassInv'
<1> DEFINE F == [group : STRING, admin : STRING, ring : Seq(Point)]
           I == {i \in DOMAIN world.polys : Len(world.polys[i].ring) >= 4}
           rings == Sublist(world.polys, I)
           polys == [i \in DOMAIN rings |-> Polygon(rings[i])]
<1>1. landmass' \in {[state |-> "failed", polys |-> <<>>],
                     [state |-> IF polys # <<>> THEN "ready" ELSE "failed", polys |-> polys]}
  BY Zenon DEF LoadLandmass
<1>2. world.polys \in Seq(F) /\ I \in SUBSET (DOMAIN world.polys)
  BY RoutingAssumption
<1> HIDE DEF F, I
<1>3. rings \in Seq(F)
  BY <1>2, SublistIs
<1> HIDE DEF rings
<1>4. \A i \in DOMAIN rings : Polygon(rings[i]).ring \in Seq(Point)
  <2> TAKE i \in DOMAIN rings
  <2>1. rings[i] \in F
    BY <1>3
  <2>2. rings[i].ring \in Seq(Point)
    BY <2>1 DEF F
  <2>3. Polygon(rings[i]).ring = rings[i].ring
    BY DEF Polygon, makeZone
  <2> QED
    BY <2>2, <2>3
<1>5. ASSUME NEW pl \in ToSet(polys)
      PROVE  pl.ring \in Seq(Point)
  <2>1. PICK i \in DOMAIN polys : pl = polys[i]
    BY Zenon DEF ToSet
  <2>2. i \in DOMAIN rings /\ pl = Polygon(rings[i])
    BY <2>1
  <2> QED
    BY <1>4, <2>2
<1> HIDE DEF polys
<1>6. landmass'.polys = <<>> \/ landmass'.polys = polys
  BY <1>1
<1>7. ToSet(<<>>) = {}
  BY DEF ToSet
<1> QED
  BY <1>5, <1>6, <1>7 DEF LandmassInv

\* It holds in the beginning.
THEOREM Initially == Init => IInv
<1> SUFFICES ASSUME Init
             PROVE  IInv
  OBVIOUS
<1>1. TopologyInv
  BY DEF Init, TopologyInv
<1>2. HubsInv
  <2>1. /\ hubs.landings = <<>> /\ hubs.hubs = <<>> /\ hubs.corridorStart = NoCorridor
        /\ hubs.corridorEdges = <<>> /\ hubs.trunkEdges = <<>> /\ hubs.ready = FALSE
        /\ HubsRecord(hubs) /\ file = 1
    BY SMT DEF Init, HubsRecord, NoHubs
  <2>2. HubsOK(hubs)
    BY <2>1, EmptySeq DEF HubsOK
  <2>3. hubs.ready \in BOOLEAN /\ ~hubs.ready
    BY <2>1
  <2>4. file \in 1..3
    BY <2>1
  <2>5. ~(hubs.trunkEdges # <<>>) /\ ~(hubs.corridorStart # NoCorridor)
    BY <2>1
  <2> QED
    BY <2>1, <2>2, <2>3, <2>4, <2>5, Zenon DEF HubsInv
<1>3. InfraInv
  BY DEF Init, InfraInv
<1>5. CablesInv
  <2>1. cables.g = NoGraph /\ NoGraph \in CableGraphs /\ Len(NoGraph.coord) = 0
    BY NoGraphIs, EmptySeq DEF Init, NoGraph
  <2>2. CablesConnected
    BY <2>1 DEF CablesConnected
  <2> QED
    BY <2>1, <2>2 DEF Init, CablesInv
<1>6. LandmassInv
  BY DEF Init, LandmassInv, ToSet
<1>4. KeptRight(memo)
  <2>1. /\ memo = [land |-> memo.land, joint |-> memo.joint, cache |-> memo.cache]
        /\ DOMAIN memo.cache = {}
        /\ memo.land = NoGraph /\ memo.joint = NoGraph
    BY DEF Init, NoMemo
  <2>2. GraphsRight(memo)
    BY <2>1, NoGraphIsGraph, NoGraphIs, CableGraphIs DEF GraphsRight
  <2>3. LandFinal(memo)
    BY <2>1 DEF LandFinal
  <2> QED
    BY <2>1, <2>2, <2>3 DEF KeptRight
<1> QED
  BY <1>1, <1>2, <1>3, <1>4, <1>5, <1>6 DEF IInv

\* Every step keeps it: reading the files in any order, building each graph
\* when it is first asked for, keeping a path, drawing the overlay.
THEOREM Inductive == IInv /\ [Next]_vars => IInv'
<1> SUFFICES ASSUME IInv, [Next]_vars
             PROVE  IInv'
  OBVIOUS
<1> USE DEF IInv
<1>0. SourcesRight
  BY DEF SourcesRight, HubsInv, CablesInv
<1>1. CASE LoadCables
  <2>1. UNCHANGED <<world, topology, hubs, file, landmass, infra, memo>> /\ ~Loaded
    BY <1>1 DEF LoadCables, Loaded
  <2>2. TopologyInv' /\ HubsInv' /\ InfraInv' /\ LandmassInv'
    BY <2>1 DEF TopologyInv, HubsInv, InfraInv, LandmassInv
  <2>3. cables' \in {[state |-> "failed", g |-> NoGraph],
                     [state |-> "ready", g |-> buildCableGraph(Systems)]}
    BY <1>1, Zenon DEF LoadCables, Systems, Segments
  <2>4. cables'.g \in {NoGraph, buildCableGraph(Systems)} /\ cables'.state \in {"ready", "failed"}
    BY <2>3
  <2>5. cables'.g \in CableGraphs /\ CablesConnected'
    <3>1. CASE cables'.g = NoGraph
      <4>1. NoGraph \in CableGraphs /\ Len(NoGraph.coord) = 0
        BY NoGraphIs, EmptySeq DEF NoGraph
      <4> QED
        BY <3>1, <4>1 DEF CablesConnected
    <3>2. CASE cables'.g = buildCableGraph(Systems)
      <4>1. Systems \in Seq(Seq(RawLines))
        BY SystemsAre DEF TopologyInv
      <4>2. LET g == buildCableGraph(Systems)
                N == Len(g.coord)
            IN  g \in CableGraphs /\ (N > 0 => Reachable(g.edge, 1, N) = 1..N)
        BY <4>1, NetworkIsOne
      <4> QED
        BY <3>2, <4>2 DEF CablesConnected
    <3> QED
      BY <2>4, <3>1, <3>2
  <2>6. CablesInv'
    BY <2>1, <2>4, <2>5 DEF CablesInv
  <2> QED
    BY <2>1, <2>2, <2>6, KeptStays
<1>2. CASE LoadLandmass
  <2>1. UNCHANGED <<world, topology, hubs, file, cables, infra, memo>> /\ ~Loaded
    BY <1>2 DEF LoadLandmass, Loaded
  <2>2. TopologyInv' /\ HubsInv' /\ InfraInv'
    BY <2>1 DEF TopologyInv, HubsInv, InfraInv
  <2>3. landmass'.state \in {"ready", "failed"}
    <3>1. PICK polys : landmass' \in
            {[state |-> "failed", polys |-> <<>>],
             [state |-> IF polys # <<>> THEN "ready" ELSE "failed", polys |-> polys]}
      BY <1>2, Zenon DEF LoadLandmass
    <3> QED
      BY <3>1
  <2>4. CablesInv'
    BY <2>1, <2>3 DEF CablesInv, CablesConnected
  <2>5. LandmassInv'
    BY <1>2, LandmassRead DEF TopologyInv
  <2> QED
    BY <2>1, <2>2, <2>4, <2>5, KeptStays
<1>3. CASE ReadHubs
  <2>1. UNCHANGED <<world, topology, cables, landmass, infra, memo>> /\ file \in 1..2
    BY <1>3 DEF ReadHubs
  <2>2. ~hubs.ready /\ ~Loaded
    BY <2>1 DEF HubsInv, Loaded
  <2>3. TopologyInv' /\ InfraInv' /\ CablesInv' /\ LandmassInv'
    BY <2>1 DEF TopologyInv, InfraInv, CablesInv, CablesConnected, LandmassInv
  <2>4. HubsInv'
    <3>1. CASE UNCHANGED hubs /\ file' = file + 1
      BY <2>1, <2>2, <3>1 DEF HubsInv
    <3>2. CASE /\ world.files[file].found
               /\ FinishFile(ReadFeatures(hubs, world.files[file]), topology.value)
      <4> DEFINE f == world.files[file]
      <4>1. /\ HubsRecord(hubs) /\ HubsOK(hubs) /\ file \in 1..2
            /\ FinishFile(ReadFeatures(hubs, f), topology.value)
        BY <2>1, <3>2 DEF HubsInv
      <4>3. f.landings \in Seq(Point) /\ f.hubs \in Seq(Point)
        BY <2>1, <3>2, RoutingAssumption DEF TopologyInv
      <4> HIDE DEF f
      <4>2. /\ HubsRecord(hubs') /\ HubsOK(hubs')
            /\ hubs'.ready \in BOOLEAN /\ file' \in 1..3
            /\ hubs'.ready => file' = 3
            /\ hubs'.trunkEdges # <<>> =>
                 hubs.trunkEdges # <<>> \/ topology.value.pops # <<>>
            /\ hubs'.corridorStart # NoCorridor =>
                 \/ hubs.corridorStart # NoCorridor
                 \/ topology.value.corridorHubs # <<>>
        BY <4>1, <4>3, TopologyIs, FileRead
      <4>4. /\ topology.value.pops # <<>> =>
                 topology.answered /\ topology.value = world.topology
            /\ topology.value.corridorHubs # <<>> => topology.answered
        BY DEF TopologyInv, NoTopology
      <4>5. hubs'.trunkEdges # <<>> =>
              topology'.answered /\ topology'.value = world'.topology
        BY <2>1, <4>2, <4>4 DEF HubsInv
      <4>6. hubs'.corridorStart # NoCorridor => topology'.answered
        BY <2>1, <4>2, <4>4 DEF HubsInv
      <4> QED
        BY <4>2, <4>5, <4>6 DEF HubsInv
    <3> QED
      BY <1>3, <3>1, <3>2 DEF ReadHubs
  <2> QED
    BY <2>1, <2>2, <2>3, <2>4, KeptStays
<1>4. CASE loadTopology
  <2>1. UNCHANGED <<world, hubs, file, cables, landmass, infra, memo>> /\ ~topology.answered
    BY <1>4 DEF loadTopology
  <2>2. PICK value \in {world.topology, NoTopology} :
          topology' = [answered |-> TRUE, value |-> value]
    BY <1>4 DEF loadTopology
  <2>3. TopologyInv' /\ HubsInv' /\ InfraInv' /\ CablesInv' /\ LandmassInv'
    BY <2>1, <2>2 DEF TopologyInv, HubsInv, InfraInv, CablesInv, CablesConnected, LandmassInv
  <2>4. hubs.corridorStart = NoCorridor
    BY <2>1 DEF HubsInv
  <2> QED
    BY <2>1, <2>3, <2>4, KeptStays
<1>5. CASE loadInfra
  <2>1. UNCHANGED <<world, topology, hubs, file, cables, landmass, memo>>
        /\ topology.answered
    BY <1>5 DEF loadInfra
  <2>2. TopologyInv' /\ HubsInv' /\ CablesInv' /\ LandmassInv'
    BY <2>1 DEF TopologyInv, HubsInv, CablesInv, CablesConnected, LandmassInv
  <2> DEFINE pops == topology.value.pops
             at == [i \in DOMAIN pops |-> pops[i].position]
  <2>3. PICK nodes \in InfraNodes :
          infra' = [loaded |-> TRUE, nodes |-> nodes \o at, ready |-> nodes \o at # <<>>]
    BY <1>5 DEF loadInfra
  <2>4. nodes \in Seq(Point)
    <3>1. CASE nodes = <<>>
      BY <3>1
    <3>2. CASE nodes # <<>>
      <4>1. PICK i \in {k \in 1..2 : world.files[k].found} :
              nodes = world.files[i].landings \o world.files[i].hubs
        BY <3>2 DEF InfraNodes
      <4>2. world.files[i].landings \in Seq(Point) /\ world.files[i].hubs \in Seq(Point)
        BY <4>1, RoutingAssumption DEF TopologyInv
      <4> QED
        BY <4>1, <4>2
    <3> QED
      BY <3>1, <3>2
  <2>5. at = Spots(topology.value)
    BY DEF Spots
  <2>10. pops \in Seq([name : STRING, position : Point])
    BY TopologyIs DEF TopologyRight
  <2>6. /\ at \in Seq(Point) /\ Len(at) = Len(pops)
        /\ \A i \in 1..Len(pops) : at[i] = pops[i].position
    BY <2>5, TopologyIs, SpotsAre
  <2> HIDE DEF pops
  <2> HIDE DEF at
  <2>7. Positions(pops) \subseteq ToSet(nodes \o at)
    <3> SUFFICES ASSUME NEW p \in ToSet(pops)
                 PROVE  p.position \in ToSet(nodes \o at)
      BY DEF Positions
    <3>1. PICK i \in 1..Len(pops) : p = pops[i]
      BY <2>10 DEF ToSet
    <3>2. Len(nodes) + i \in DOMAIN (nodes \o at)
          /\ (nodes \o at)[Len(nodes) + i] = at[i]
      BY <2>4, <2>6
    <3> QED
      BY <2>6, <3>1, <3>2 DEF ToSet
  <2>8. infra'.nodes = nodes \o at /\ {infra'.ready, infra'.loaded} \subseteq BOOLEAN
    BY <2>3
  <2>9. InfraInv'
    BY <2>1, <2>7, <2>8 DEF InfraInv, pops
  <2> QED
    BY <2>1, <2>2, <2>9, KeptStays
<1>6. CASE flowPath
  <2>1. UNCHANGED <<world, topology, hubs, file, cables, landmass, infra>>
    BY <1>6 DEF flowPath
  <2>2. TopologyInv' /\ HubsInv' /\ InfraInv' /\ CablesInv' /\ LandmassInv'
    BY <2>1 DEF TopologyInv, HubsInv, InfraInv, CablesInv, CablesConnected, LandmassInv
  <2>3. PICK l \in world.links : memo' = Linked(memo, l[1], l[2])
    BY <1>6 DEF flowPath
  <2>4. KeptRight(memo')
    <3>1. world.links \subseteq Point \X Point
      BY RoutingAssumption DEF TopologyInv
    <3>2. l = <<l[1], l[2]>>
      BY <3>1
    <3>3. <<l[1], l[2]>> \in Asked
      BY <3>2, Zenon DEF Asked
    <3> QED
      BY <1>0, <2>3, <3>3, LinkedRight
  <2>5. KeptRight(memo)'
    BY <2>1, <2>4, SameData
  <2> QED
    BY <2>2, <2>5
<1>7. CASE fetchRoutes
  <2>1. UNCHANGED <<world, topology, hubs, file, cables, landmass, infra>>
    BY <1>7 DEF fetchRoutes
  <2>2. TopologyInv' /\ HubsInv' /\ InfraInv' /\ CablesInv' /\ LandmassInv'
    BY <2>1 DEF TopologyInv, HubsInv, InfraInv, CablesInv, CablesConnected, LandmassInv
  <2>3. KeptRight(memo')
    <3>1. CASE UNCHANGED memo
      BY <3>1
    <3>2. CASE Len(Places(world.hops)) >= 2 /\ memo' = Traced(Places(world.hops)).memo
      <4> DEFINE pts == Places(world.hops)
      <4>1. pts \in Seq(Point)
        BY PlacesAre, RoutingAssumption DEF TopologyInv
      <4>2. \A i \in 1..Len(pts) - 1 : <<pts[i], pts[i + 1]>> \in Asked
        BY DEF Asked
      <4>3. world \in Worlds
        BY DEF TopologyInv
      <4> HIDE DEF pts
      <4> QED
        BY <1>0, <3>2, <4>1, <4>2, <4>3, TracedRight DEF pts
    <3> QED
      BY <1>7, <3>1, <3>2 DEF fetchRoutes
  <2>4. KeptRight(memo)'
    BY <2>1, <2>3, SameData
  <2> QED
    BY <2>2, <2>4
<1>8. CASE UNCHANGED vars
  <2>1. UNCHANGED <<world, topology, hubs, file, cables, landmass, infra, memo>>
    BY <1>8 DEF vars
  <2>2. TopologyInv' /\ HubsInv' /\ InfraInv' /\ CablesInv' /\ LandmassInv'
    BY <2>1 DEF TopologyInv, HubsInv, InfraInv, CablesInv, CablesConnected, LandmassInv
  <2> QED
    BY <2>1, <2>2, KeptStays
<1> QED
  BY <1>1, <1>2, <1>3, <1>4, <1>5, <1>6, <1>7, <1>8 DEF Next

\* The invariant holds in every reachable state.
THEOREM Invariance == Spec => []IInv
<1> QED
  BY Initially, Inductive, PTL DEF Spec

\* Every path that is kept is what the complete data decides for a link of its
\* key (cables.ts:578): segmentPath keeps nothing before everything is loaded, what
\* it read cannot change after that, and a joint graph built later would decide the
\* same for a link that goes over land.
THEOREM CacheDecided == Spec => []CacheFinal
<1>1. IInv => CacheFinal
  <2> SUFFICES ASSUME IInv
               PROVE  CacheFinal
    OBVIOUS
  <2>1. \A k \in DOMAIN memo.cache : Decided(memo, k)
    BY DEF IInv, KeptRight
  <2> QED
    BY <2>1, Zenon DEF CacheFinal, Decided, Asked
<1> QED
  BY <1>1, Invariance, PTL

\* The overlay shows the POPs whose trunks take part in routing (infra.ts:2), in
\* whatever order hubs.ts and infra.ts come to read the topology: trunks are only
\* there if the topology was answered, and the answer is one for all.
THEOREM OverlayHasPops == Spec => []OverlayShowsPops
<1>1. IInv => OverlayShowsPops
  <2> SUFFICES ASSUME IInv, infra.ready, hubs.trunkEdges # <<>>
               PROVE  {p.position : p \in ToSet(world.topology.pops)}
                        \subseteq ToSet(infra.nodes)
    BY DEF OverlayShowsPops
  <2>1. topology.value = world.topology
    BY DEF IInv, HubsInv
  <2>2. Positions(topology.value.pops) \subseteq ToSet(infra.nodes)
    BY DEF IInv, InfraInv
  <2> QED
    BY <2>1, <2>2 DEF Positions
<1> QED
  BY <1>1, Invariance, PTL

\* A zone is the box of a ring of points.
LEMMA ZonesAre ==
  ASSUME NEW polys, NEW topo, \A pl \in ToSet(polys) : pl.ring \in Seq(Point),
         topo.noTransitZones \subseteq Seq(Point), NEW z \in zonesOf(polys, topo)
  PROVE  z.ring \in Seq(Point) /\ z = makeZone(z.ring)
<1>1. PICK r \in countryRings(polys, topo.noTransitCountries)
                  \cup {x \in topo.noTransitZones : Len(x) >= 4} : z = makeZone(r)
  BY DEF zonesOf
<1>2. z.ring = r
  BY <1>1 DEF makeZone
<1>3. r \in Seq(Point)
  <2>1. CASE r \in countryRings(polys, topo.noTransitCountries)
    BY <2>1 DEF countryRings, ToSet
  <2>2. CASE r \in {x \in topo.noTransitZones : Len(x) >= 4}
    BY <2>2
  <2> QED
    BY <1>1, <2>1, <2>2
<1> QED
  BY <1>1, <1>2, <1>3

\* No edge the land graph found for itself passes through a no-transit zone
\* (hubs.ts:183), whichever way it is travelled, if no zone lies over the
\* dateline from both its ends: the neighbours' links and the bridges are all
\* tested, sampling covers every point of the circle, a point outside the two
\* boxes is in no ring, and neither the hubs nor the zones change afterwards.
THEOREM ZonesAvoided == Spec => [](ZonesInView => EdgesAvoidZones)
<1>1. IInv => (ZonesInView => EdgesAvoidZones)
  <2> DEFINE zones == zonesOf(landmass.polys, topology.value)
             coord == hubs.hubs
  <2> SUFFICES ASSUME IInv, ZonesInView,
                      memo.land # NoGraph, hubs.corridorStart # NoCorridor,
                      NEW z \in zones, NEW e \in memo.land.edge \ ForcedEdges(hubs),
                      NEW p \in ToSet(GreatCircle(memo.land.coord[e.from], memo.land.coord[e.to]))
               PROVE  ~pip(p, z.ring)
    BY Zenon DEF EdgesAvoidZones
  <2>1. /\ memo.land = buildLandGraph(hubs, landmass.polys, topology.value)
        /\ memo.land \in LandGraphs /\ HubsOK(hubs)
    BY DEF IInv, KeptRight, LandFinal, GraphsRight, HubsInv
  <2>2. memo.land.coord = coord
    BY <2>1 DEF buildLandGraph
  <2>3. coord # <<>> /\ coord \in Seq(Point)
    BY <2>1, <2>2 DEF LandGraphs, HubsOK
  <2>4. e \in HubEdges(coord) /\ Tested(coord, zones, e)
    BY <2>1, <2>3, LandGraphBuilt
  <2>5. e.from \in 1..Len(coord) /\ e.to \in 1..Len(coord)
    BY <2>3, <2>4, HubEdgesAre
  <2> DEFINE a == coord[e.from]
             b == coord[e.to]
  <2>6. a \in ToSet(coord) /\ b \in ToSet(coord) /\ a \in Point /\ b \in Point
    BY <2>3, <2>5 DEF ToSet
  <2>7. z.ring \in Seq(Point) /\ z = makeZone(z.ring)
    <3>1. TopologyRight(topology.value) /\ LandmassInv
      BY TopologyIs DEF IInv
    <3>2. /\ topology.value.noTransitZones \subseteq Seq(Point)
          /\ \A pl \in ToSet(landmass.polys) : pl.ring \in Seq(Point)
      BY <3>1 DEF TopologyRight, LandmassInv
    <3> QED
      BY <3>2, ZonesAre
  <2>8. p \in ToSet(GreatCircle(a, b))
    BY <2>2
  <2> HIDE DEF a, b
  <2>9. \A x, y \in {a, b} :
          /\ x[1] \in -Half..Half - 1 /\ Magnitude(y[1] - x[1]) # Half
          /\ Magnitude(y[1] - x[1]) > Half =>
               z.xmin <= Max({x[1], y[1]}) /\ z.xmax >= Min({x[1], y[1]})
    BY <2>6 DEF ZonesInView
  <2>10. ~zonesBlock(a, b, zones) \/ ~zonesBlock(b, a, zones)
    BY <2>4 DEF Tested, a, b
  <2> HIDE DEF zones
  <2> DEFINE ring == z.ring
  <2>11. makeZone(ring) \in zones /\ ring \in Seq(Point) /\ z = makeZone(ring)
    BY <2>7
  <2> HIDE DEF ring
  <2>12. /\ a \in Point /\ b \in Point /\ {a[1], b[1]} \subseteq -Half..Half - 1
         /\ Magnitude(b[1] - a[1]) # Half /\ Magnitude(a[1] - b[1]) # Half
         /\ Magnitude(b[1] - a[1]) > Half =>
              /\ makeZone(ring).xmin <= Max({a[1], b[1]})
              /\ makeZone(ring).xmax >= Min({a[1], b[1]})
         /\ Magnitude(a[1] - b[1]) > Half =>
              /\ makeZone(ring).xmin <= Max({b[1], a[1]})
              /\ makeZone(ring).xmax >= Min({b[1], a[1]})
    BY <2>6, <2>9, <2>11
  <2>13. ~pip(p, ring)
    <3>1. CASE ~zonesBlock(a, b, zones)
      BY <2>8, <2>11, <2>12, <3>1, OpenIsClear
    <3>2. CASE ~zonesBlock(b, a, zones)
      BY <2>8, <2>11, <2>12, <3>2, OpenIsClear
    <3> QED
      BY <2>10, <3>1, <3>2
  <2> QED
    BY <2>13 DEF ring
<1> QED
  BY <1>1, Invariance, PTL

----------------------------------------------------------------------------
(***************************************************************************)
(* The ways over the two graphs.                                           *)
(***************************************************************************)

\* The search for a link begins at one node.
Seed(s) == [x \in {s} |-> 0]

\* In every state of the types TypeOK gives, whatever the two graphs are: each
\* link's way over land and its way over land and cable are the cheapest there
\* are, and are found exactly when there is one.
THEOREM SearchIsShortest == TypeOK => Shortest
<1> SUFFICES ASSUME TypeOK,
                    NEW g \in {memo.land, memo.joint} \ {NoGraph}, NEW l \in world.links
             PROVE  LET s == nearestNode(g.coord, l[1])
                        n == nearestNode(g.coord, l[2])
                        t == ShortestTree(g.edge, Len(g.coord), Seed(s), n)
                        d == ShortestTree(g.edge, Len(g.coord), Seed(s), 0).dist
                    IN  /\ \A e \in g.edge : e.from \in DOMAIN d =>
                             e.to \in DOMAIN d /\ d[e.to] <= d[e.from] + e.w
                        /\ IF n \in DOMAIN d
                           THEN n \in DOMAIN t.dist /\ Cost(PathTo(t, n)) = d[n]
                           ELSE n \notin DOMAIN t.dist
  BY Zenon DEF Shortest, Seed
<1> DEFINE N == Len(g.coord)
           s == nearestNode(g.coord, l[1])
           n == nearestNode(g.coord, l[2])
<1>1. l[1] \in Point /\ l[2] \in Point
  BY RoutingAssumption DEF TypeOK
<1>2. IsGraph(g) /\ g.coord # <<>>
  BY DEF TypeOK
<1>3. /\ g.coord \in Seq(Point) /\ N \in Nat /\ DOMAIN g.coord = 1..N
      /\ Joins(g.edge, N)
  BY <1>2, GraphIs DEF IsGraph
<1>4. s \in 1..N
  BY <1>1, <1>2, <1>3, NearestNodeIs
<1> HIDE DEF N, s, n
<1>5. LET t == ShortestTree(g.edge, N, Seed(s), n)
          d == ShortestTree(g.edge, N, Seed(s), 0).dist
      IN  /\ \A e \in g.edge : e.from \in DOMAIN d =>
               e.to \in DOMAIN d /\ d[e.to] <= d[e.from] + e.w
          /\ IF n \in DOMAIN d
             THEN /\ n \in DOMAIN t.dist
                  /\ PathTo(t, n) \in Seq(g.edge)
                  /\ \E x \in DOMAIN Seed(s) : d[n] = Seed(s)[x] + Cost(PathTo(t, n))
             ELSE n \notin DOMAIN t.dist
  <2>1. Starts(Seed(s), N)
    BY <1>4 DEF Starts, Seed
  <2> QED
    BY <1>3, <2>1, SearchCorrect
<1> DEFINE t == ShortestTree(g.edge, N, Seed(s), n)
           d == ShortestTree(g.edge, N, Seed(s), 0).dist
<1>6. IF n \in DOMAIN d THEN n \in DOMAIN t.dist /\ Cost(PathTo(t, n)) = d[n]
      ELSE n \notin DOMAIN t.dist
  <2>1. \A x \in DOMAIN Seed(s) : Seed(s)[x] = 0
    BY DEF Seed
  <2> HIDE DEF t, d
  <2>2. \A p \in Seq(g.edge) : Cost(p) \in Nat
    <3>1. \A e \in g.edge : e.w \in Nat
      BY <1>3 DEF Joins
    <3> QED
      BY <3>1, CostNatural
  <2> QED
    BY <1>5, <2>1, <2>2 DEF t, d
<1> QED
  BY <1>5, <1>6, Zenon DEF N, s, n

----------------------------------------------------------------------------
(***************************************************************************)
(* Where the drawn lines end.                                              *)
(***************************************************************************)

\* Points of one rounding are near each other.
LEMMA RoundedNear ==
  ASSUME NEW p \in Point, NEW q \in Point, Rounded(p) = Rounded(q)
  PROVE  haversineKm(p, q) <= 2 * (Grain - 1)
<1> DEFINE h == Grain \div 2
<1>1. Grain \in Nat \ {0}
  BY RoutingAssumption
<1>2. h \in Int
  BY <1>1
<1>3. p[1] \in Int /\ p[2] \in Int /\ q[1] \in Int /\ q[2] \in Int
  BY DEF Point
<1>4. (p[1] + h) \div Grain = (q[1] + h) \div Grain /\ (p[2] + h) \div Grain = (q[2] + h) \div Grain
  BY DEF Rounded
<1> HIDE DEF h
<1>5. ASSUME NEW x \in Int, NEW y \in Int, (x + h) \div Grain = (y + h) \div Grain
      PROVE  Magnitude(y - x) \in Int /\ Magnitude(y - x) <= Grain - 1
  <2> DEFINE u == x + h
             v == y + h
             k == u \div Grain
  <2>1. u \in Int /\ v \in Int
    BY <1>2
  <2> HIDE DEF u, v
  <2>2. k \in Int
    BY <1>1, <2>1
  <2>3. u \div Grain = k /\ v \div Grain = k
    BY <1>5 DEF u, v
  <2> HIDE DEF k
  <2>4. k * Grain <= u /\ u < k * Grain + Grain /\ k * Grain <= v /\ v < k * Grain + Grain
    BY <1>1, <2>1, <2>2, <2>3, Divided
  <2> DEFINE w == k * Grain
  <2>5. w \in Int
    BY <1>1, <2>2
  <2> HIDE DEF w
  <2>6. w <= u /\ u < w + Grain /\ w <= v /\ v < w + Grain
    BY <2>4 DEF w
  <2>7. y - x = v - u
    BY <1>2 DEF u, v
  <2> QED
    BY <1>1, <2>1, <2>5, <2>6, <2>7 DEF Magnitude
<1>6. /\ haversineKm(p, q) \in Nat
      /\ haversineKm(p, q) <= Magnitude(q[1] - p[1]) + Magnitude(q[2] - p[2])
  BY DistanceIs
<1>7. /\ Magnitude(q[1] - p[1]) \in Int /\ Magnitude(q[1] - p[1]) <= Grain - 1
      /\ Magnitude(q[2] - p[2]) \in Int /\ Magnitude(q[2] - p[2]) <= Grain - 1
  BY <1>3, <1>4, <1>5
<1> QED
  BY <1>1, <1>6, <1>7

\* So a line that leads to a point of the same rounding ends near the other.
LEMMA NearEnd ==
  ASSUME NEW p \in Point, NEW q \in Point, Rounded(p) = Rounded(q),
         NEW c \in Point, Same(p, c)
  PROVE  haversineKm(c, q) <= 2 * (Grain - 1)
<1>1. haversineKm(c, q) = haversineKm(p, q)
  BY DistanceIs
<1> QED
  BY <1>1, RoundedNear

\* So a line between points leads nearly between points of their rounding.
LEMMA LeadsNear ==
  ASSUME NEW a \in Point, NEW b \in Point, NEW c \in Point, NEW d \in Point,
         Rounded(a) = Rounded(c), Rounded(b) = Rounded(d),
         NEW line, Leads(line, a, b)
  PROVE  /\ haversineKm(Head(line), c) <= 2 * (Grain - 1)
         /\ haversineKm(Last(line), d) <= 2 * (Grain - 1)
<1>1. /\ line \in Seq(Point) /\ line # <<>>
      /\ Same(a, line[1]) /\ Same(b, line[Len(line)])
  BY DEF Leads
<1>2. Len(line) \in Nat \ {0} /\ Head(line) = line[1] /\ Last(line) = line[Len(line)]
  BY <1>1, EmptySeq DEF Last
<1>3. line[1] \in Point /\ line[Len(line)] \in Point
  BY <1>1, <1>2
<1> QED
  BY <1>1, <1>2, <1>3, NearEnd

\* A path that is kept leads from end to end of a link of its key.
LEMMA KeptLeads ==
  ASSUME IInv, NEW key \in DOMAIN memo.cache
  PROVE  \E o \in Asked : /\ Key(o[1], o[2]) = key
                          /\ o[1] \in Point /\ o[2] \in Point
                          /\ Leads(memo.cache[key].path, o[1], o[2])
<1>1. PICK o \in Asked :
        /\ Key(o[1], o[2]) = key
        /\ memo.cache[key] = Decide(memo, o[1], o[2], overland(memo, o[1], o[2]))
  BY DEF IInv, KeptRight, Decided
<1>2. o[1] \in Point /\ o[2] \in Point
  BY AskedPoints DEF IInv, TopologyInv
<1>3. GraphsRight(memo) /\ cables.g \in CableGraphs
  BY DEF IInv, KeptRight, CablesInv
<1>4. Leads(memo.cache[key].path, o[1], o[2])
  BY <1>1, <1>2, <1>3, DecideLeads
<1> QED
  BY <1>1, <1>2, <1>4

\* The types TypeOK gives follow from the invariant.
LEMMA TypesFollow == IInv => TypeOK
<1> SUFFICES ASSUME IInv
             PROVE  TypeOK
  OBVIOUS
<1>1. /\ world \in Worlds /\ topology.answered \in BOOLEAN
      /\ topology.value \in {NoTopology, world.topology}
  BY DEF IInv, TopologyInv
<1>2. file \in 1..3 /\ {hubs.ready, infra.loaded, infra.ready} \subseteq BOOLEAN
      /\ {cables.state, landmass.state} \subseteq {"loading", "ready", "failed"}
  BY DEF IInv, HubsInv, InfraInv, CablesInv
<1>3. ToSet(hubs.hubs \o hubs.landings) \subseteq Point
  <2> DEFINE all == hubs.hubs \o hubs.landings
  <2>1. all \in Seq(Point)
    BY DEF IInv, HubsInv, HubsOK
  <2> HIDE DEF all
  <2>2. \A p \in ToSet(all) : p \in Point
    BY <2>1 DEF ToSet
  <2> QED
    BY <2>2 DEF all
<1>4. IsGraph(cables.g) /\ \A c \in ToSet(cables.g.coord) : c[1] \in -Half..Half - 1
  BY CableIsGraph DEF IInv, CablesInv
<1>5. \A g \in {memo.land, memo.joint} : IsGraph(g) /\ (g # NoGraph => g.coord # <<>>)
  BY LandIsGraph, NoGraphIsGraph DEF IInv, KeptRight, GraphsRight
<1>6. ASSUME NEW k \in DOMAIN memo.cache
      PROVE  ToSet(memo.cache[k].path) \subseteq Point
  <2>1. memo.cache[k].path \in Seq(Point)
    BY KeptLeads DEF Leads
  <2> QED
    BY <2>1 DEF ToSet
<1> QED
  BY <1>1, <1>2, <1>3, <1>4, <1>5, <1>6, Zenon DEF TypeOK

\* The types of every reachable state: the graphs that are built are graphs, with
\* landings between -Half and Half, and the kept paths are lists of points.
THEOREM TypesKept == Spec => []TypeOK
<1> QED
  BY TypesFollow, Invariance, PTL

\* Each link's way over land, and its way over land and cable, is the cheapest
\* there is, and one is found exactly when there is one.
THEOREM RoutesShortest == Spec => []Shortest
<1> QED
  BY TypesFollow, SearchIsShortest, Invariance, PTL

\* A link's line ends where the link does, within the rounding of its key: a kept
\* path was decided for a link of the same key, and everything that is decided
\* leads from end to end (cables.ts:560-607).
THEOREM LinksEndRight == Spec => []LinkEnds
<1>1. IInv => LinkEnds
  <2> SUFFICES ASSUME IInv, NEW l \in world.links
               PROVE  LET path == segmentPath(memo, l[1], l[2]).path
                      IN  /\ haversineKm(Head(path), l[1]) <= 2 * (Grain - 1)
                          /\ haversineKm(Last(path), l[2]) <= 2 * (Grain - 1)
    BY Zenon DEF LinkEnds
  <2> DEFINE key == Key(l[1], l[2])
  <2>1. l[1] \in Point /\ l[2] \in Point
    BY AskedPoints DEF Asked, IInv, TopologyInv
  <2>2. CASE key \in DOMAIN memo.cache
    <3>1. segmentPath(memo, l[1], l[2]) = memo.cache[key]
      BY <2>2, Zenon DEF segmentPath
    <3>2. PICK o \in Asked : /\ Key(o[1], o[2]) = key
                             /\ o[1] \in Point /\ o[2] \in Point
                             /\ Leads(memo.cache[key].path, o[1], o[2])
      BY <2>2, KeptLeads
    <3>3. Rounded(o[1]) = Rounded(l[1]) /\ Rounded(o[2]) = Rounded(l[2])
      BY <3>2 DEF Key
    <3> QED
      BY <2>1, <3>1, <3>2, <3>3, LeadsNear
  <2>3. CASE key \notin DOMAIN memo.cache
    <3>1. segmentPath(memo, l[1], l[2]).path = densifyGreatCircle(l[1], l[2])
      BY <2>3 DEF segmentPath
    <3>2. Leads(densifyGreatCircle(l[1], l[2]), l[1], l[2])
      BY <2>1, DirectLeads
    <3> QED
      BY <2>1, <3>1, <3>2, LeadsNear
  <2> QED
    BY <2>2, <2>3
<1> QED
  BY <1>1, Invariance, PTL

----------------------------------------------------------------------------
(***************************************************************************)
(* No line jumps across the map.                                           *)
(***************************************************************************)

\* A graph whose places are in the one turn and whose lines are less than a
\* whole turn from the middle of the map draws no edge further out.
LEMMA StaysInner ==
  ASSUME NEW g, IsGraph(g), \A p \in ToSet(g.coord) : p[1] \in -Half..Half - 1,
         \A line \in ToSet(g.line) : \A p \in ToSet(line) : Magnitude(p[1]) < 2 * Half
  PROVE  StaysIn(g, Inner)
<1>1. Half \in Nat \ {0}
  BY GeographyAssumption
<1>2. ASSUME NEW n \in DOMAIN g.coord
      PROVE  /\ g.coord[n] \in Point /\ g.coord[n][1] \in -Half..Half - 1
             /\ g.coord[n] \in Inner
  <2>1. g.coord[n] \in Point /\ g.coord[n] \in ToSet(g.coord)
    BY <1>2 DEF IsGraph, ToSet
  <2>2. g.coord[n][1] \in -Half..Half - 1
    BY <2>1
  <2>3. Magnitude(g.coord[n][1]) < 2 * Half
    BY <1>1, <2>2 DEF Magnitude
  <2> QED
    BY <2>1, <2>2, <2>3 DEF Inner
<1>3. g.coord \in Seq(Inner)
  BY <1>2 DEF IsGraph
<1>4. ASSUME NEW line \in ToSet(g.line)
      PROVE  line \in Seq(Inner)
  <2>1. line \in Seq(Point)
    BY <1>4 DEF IsGraph, ToSet
  <2>2. \A i \in 1..Len(line) : line[i] \in Point /\ line[i] \in ToSet(line)
    BY <2>1 DEF ToSet
  <2>3. \A i \in 1..Len(line) : line[i] \in Inner
    BY <2>2 DEF Inner
  <2> QED
    BY <2>1, <2>3
<1>5. ASSUME NEW e \in g.edge
      PROVE  densifyGreatCircle(g.coord[e.from], g.coord[e.to]) \in Seq(Inner)
  <2>1. e.from \in DOMAIN g.coord /\ e.to \in DOMAIN g.coord
    BY DEF IsGraph
  <2> DEFINE a == g.coord[e.from]
             b == g.coord[e.to]
  <2>2. a \in Point /\ b \in Point /\ {a[1], b[1]} \subseteq -Half..Half - 1
    BY <1>2, <2>1
  <2> HIDE DEF a, b
  <2>3. densifyGreatCircle(a, b) \in Seq(Inner)
    BY <2>2, DirectStays
  <2> QED
    BY <2>3 DEF a, b
<1> QED
  BY <1>3, <1>4, <1>5 DEF StaysIn

\* The places of links and of hops are in the one turn, and so is what is drawn.
LEMMA TurnIs ==
  ASSUME IInv, WithinATurn
  PROVE  /\ GraphsStay(memo, Inner)
         /\ \A l \in Asked : {l[1][1], l[2][1]} \subseteq -Half..Half - 1
         /\ \A p \in ToSet(routes) : Magnitude(p[1]) < 2 * Half
         /\ \A k \in DOMAIN memo.cache :
              \A p \in ToSet(memo.cache[k].path) : Magnitude(p[1]) < 2 * Half
<1> DEFINE graphs == {memo.land, memo.joint, cables.g}
           pts    == Places(world.hops)
           places == ToSet(pts) \cup (UNION {{l[1], l[2]} : l \in world.links})
                       \cup (UNION {ToSet(g.coord) : g \in graphs})
           lines  == {routes} \cup (UNION {ToSet(g.line) : g \in graphs})
                       \cup {memo.cache[k].path : k \in DOMAIN memo.cache}
<1>1. /\ \A p \in places : p[1] \in -Half..Half - 1
      /\ \A line \in lines : \A p \in ToSet(line) : Magnitude(p[1]) < 2 * Half
  BY DEF WithinATurn
<1>2. ASSUME NEW g \in graphs
      PROVE  ToSet(g.coord) \subseteq places /\ ToSet(g.line) \subseteq lines
  <2> HIDE DEF graphs, pts
  <2>1. /\ ToSet(g.coord) \subseteq UNION {ToSet(h.coord) : h \in graphs}
        /\ ToSet(g.line) \subseteq UNION {ToSet(h.line) : h \in graphs}
    BY <1>2, Zenon
  <2> QED
    BY <2>1, Zenon DEF places, lines
<1>3. \A l \in world.links : l[1] \in places /\ l[2] \in places
  <2> HIDE DEF graphs, pts
  <2> SUFFICES ASSUME NEW l \in world.links
               PROVE  {l[1], l[2]} \subseteq places
    OBVIOUS
  <2>1. {l[1], l[2]} \subseteq UNION {{k[1], k[2]} : k \in world.links}
    BY Zenon
  <2> QED
    BY <2>1, Zenon DEF places
<1>4. \A i \in 1..Len(pts) : pts[i] \in ToSet(pts) => pts[i] \in places
  BY DEF places
<1>5. routes \in lines /\ \A k \in DOMAIN memo.cache : memo.cache[k].path \in lines
  <2> HIDE DEF graphs
  <2> QED
    BY Zenon DEF lines
<1> HIDE DEF places, lines
<1>6. GraphsRight(memo) /\ cables.g \in CableGraphs
  BY DEF IInv, KeptRight, CablesInv
<1>7. GraphsStay(memo, Point)
  BY <1>6, GraphsInPlane
<1>8. ASSUME NEW g \in graphs
      PROVE  StaysIn(g, Inner)
  <2>1. IsGraph(g)
    BY <1>7 DEF GraphsStay
  <2>2. ToSet(g.coord) \subseteq places /\ ToSet(g.line) \subseteq lines
    BY <1>2
  <2> HIDE DEF graphs
  <2> QED
    BY <1>1, <2>1, <2>2, StaysInner
<1>9. GraphsStay(memo, Inner)
  BY <1>7, <1>8 DEF GraphsStay
<1>10. ASSUME NEW l \in Asked
      PROVE  {l[1][1], l[2][1]} \subseteq -Half..Half - 1
  <2>1. l[1] \in places /\ l[2] \in places
    <3>1. CASE l \in world.links
      BY <1>3, <3>1
    <3>2. CASE \E i \in 1..Len(pts) - 1 : l = <<pts[i], pts[i + 1]>>
      <4>1. PICK i \in 1..Len(pts) - 1 : l = <<pts[i], pts[i + 1]>>
        BY <3>2
      <4>2. pts \in Seq(Point)
        BY PlacesAre, RoutingAssumption DEF IInv, TopologyInv
      <4> HIDE DEF pts
      <4>3. /\ pts[i] \in ToSet(pts) /\ pts[i + 1] \in ToSet(pts)
            /\ i \in 1..Len(pts) /\ i + 1 \in 1..Len(pts)
        BY <4>2 DEF ToSet
      <4> QED
        BY <1>4, <4>1, <4>3
    <3> QED
      BY <3>1, <3>2 DEF Asked
  <2> QED
    BY <1>1, <2>1
<1> QED
  BY <1>1, <1>9, <1>10, <1>5

\* A line of points less than a whole turn away from the middle of the map.
LEMMA InnerLine ==
  ASSUME NEW line \in Seq(Point), \A p \in ToSet(line) : Magnitude(p[1]) < 2 * Half
  PROVE  line \in Seq(Inner)
<1>1. \A i \in 1..Len(line) : line[i] \in Point /\ line[i] \in ToSet(line)
  BY DEF ToSet
<1>2. \A i \in 1..Len(line) : line[i] \in Inner
  BY <1>1 DEF Inner
<1> QED
  BY <1>2

\* A place of the one turn.
LEMMA InnerPlace ==
  ASSUME NEW p \in Point, p[1] \in -Half..Half - 1
  PROVE  p \in Inner
BY GeographyAssumption DEF Inner, Magnitude

\* A path that is kept stays within a turn, and has no gap.
LEMMA KeptRunsOn ==
  ASSUME IInv, WithinATurn, NEW k \in DOMAIN memo.cache
  PROVE  memo.cache[k].path \in Seq(Inner) /\ RunsOn(memo.cache[k].path)
<1> DEFINE path == memo.cache[k].path
<1>1. PICK l \in Asked :
        memo.cache[k] = Decide(memo, l[1], l[2], overland(memo, l[1], l[2]))
  BY DEF IInv, KeptRight, Decided
<1> DEFINE a == l[1]
           b == l[2]
<1>2. a \in Point /\ b \in Point
  BY AskedPoints DEF IInv, TopologyInv
<1>3. {a[1], b[1]} \subseteq -Half..Half - 1 /\ GraphsStay(memo, Inner)
  BY TurnIs
<1>4. a \in Point \cap Inner /\ b \in Point \cap Inner
  BY <1>2, <1>3, InnerPlace
<1>5. path = Decide(memo, a, b, overland(memo, a, b)).path
  BY <1>1
<1>6. path \in Seq(Inner)
  <2>1. \A p \in ToSet(path) : Magnitude(p[1]) < 2 * Half
    BY TurnIs
  <2>2. GraphsRight(memo) /\ cables.g \in CableGraphs
    BY DEF IInv, KeptRight, CablesInv
  <2>3. Leads(path, a, b)
    BY <1>2, <1>5, <2>2, DecideLeads
  <2> HIDE DEF path
  <2> QED
    BY <2>1, <2>3, InnerLine DEF Leads
<1> HIDE DEF path, a, b
<1>7. \/ path = densifyGreatCircle(a, b)
      \/ \E pts : Spans(Inner, pts, a, b) /\ path = densifyPath(pts)
  BY <1>3, <1>4, <1>5, DecideIs
<1>8. path = densifyGreatCircle(a, b) => RunsOn(path)
  BY <1>2, <1>3, DirectStays
<1>9. ASSUME NEW pts, Spans(Inner, pts, a, b), path = densifyPath(pts)
      PROVE  RunsOn(path)
  BY <1>6, <1>9, DensifyRunsOn DEF Spans
<1>10. RunsOn(path)
  BY <1>7, <1>8, <1>9
<1> QED
  BY <1>6, <1>10 DEF path

\* The measured route on the map is put together of kept paths and straight lines.
RoutesInv == routes = <<>> \/ \E full \in Seq(Drawn(memo)) : routes = densifyPath(full)

\* It stays that when more paths are kept.
LEMMA RoutesStay ==
  ASSUME RoutesInv, UNCHANGED <<world, routes>>, CacheKept(memo, memo')
  PROVE  RoutesInv'
<1>1. Drawn(memo) \subseteq Drawn(memo')
  BY DrawnGrows
<1>2. Drawn(memo') = Drawn(memo)'
  BY DEF Drawn, Bits, Asked
<1>3. CASE routes = <<>>
  BY <1>3 DEF RoutesInv
<1>4. ASSUME NEW full \in Seq(Drawn(memo)), routes = densifyPath(full)
      PROVE  RoutesInv'
  <2>1. full \in Seq(Drawn(memo)')
    BY <1>1, <1>2, <1>4
  <2>2. routes' = densifyPath(full)
    BY <1>4
  <2> QED
    BY <2>1, <2>2 DEF RoutesInv
<1> QED
  BY <1>3, <1>4 DEF RoutesInv

\* In every reachable state it is, since no kept path is ever dropped or changed.
THEOREM RoutesPutTogether == Spec => []RoutesInv
<1>1. Init => RoutesInv
  BY DEF Init, RoutesInv
<1>2. IInv /\ RoutesInv /\ [Next]_vars => RoutesInv'
  <2> SUFFICES ASSUME IInv, RoutesInv, [Next]_vars
               PROVE  RoutesInv'
    OBVIOUS
  <2>1. CASE UNCHANGED <<world, memo, routes>>
    <3>1. CacheKept(memo, memo')
      BY <2>1 DEF CacheKept
    <3> QED
      BY <2>1, <3>1, RoutesStay
  <2>2. CASE flowPath
    <3>1. PICK l \in world.links : memo' = Linked(memo, l[1], l[2])
      BY <2>2 DEF flowPath
    <3>2. UNCHANGED <<world, routes>>
      BY <2>2 DEF flowPath
    <3>3. CacheKept(memo, memo')
      BY <3>1, LinkedGrows DEF IInv
    <3> QED
      BY <3>2, <3>3, RoutesStay
  <2>3. CASE fetchRoutes
    <3> DEFINE pts == Places(world.hops)
               t == Traced(pts)
    <3>1. CASE routes' = <<>>
      BY <3>1 DEF RoutesInv
    <3>2. CASE Len(pts) >= 2 /\ memo' = t.memo /\ routes' = densifyPath(t.full)
      <4>1. pts \in Seq(Point) /\ world \in Worlds
        BY PlacesAre, RoutingAssumption DEF IInv, TopologyInv
      <4>2. \A i \in 1..Len(pts) - 1 : <<pts[i], pts[i + 1]>> \in Asked
        BY DEF Asked
      <4>3. SourcesRight /\ KeptRight(memo)
        BY DEF IInv, SourcesRight, HubsInv, CablesInv
      <4> HIDE DEF pts
      <4>4. t.full \in Seq(Drawn(t.memo))
        BY <3>2, <4>1, <4>2, <4>3, TracedRight
      <4> HIDE DEF t
      <4>5. world' = world
        BY <2>3 DEF fetchRoutes
      <4>6. Drawn(memo') = Drawn(memo)'
        BY <4>5 DEF Drawn, Bits, Asked
      <4>7. t.full \in Seq(Drawn(memo)')
        BY <3>2, <4>4, <4>6
      <4> QED
        BY <3>2, <4>7 DEF RoutesInv
    <3> QED
      BY <2>3, <3>1, <3>2 DEF fetchRoutes
  <2>4. CASE \/ LoadCables \/ LoadLandmass \/ ReadHubs \/ loadTopology
             \/ loadInfra \/ UNCHANGED vars
    <3>1. UNCHANGED <<world, memo, routes>>
      BY <2>4 DEF LoadCables, LoadLandmass, ReadHubs, loadTopology, loadInfra, vars
    <3> QED
      BY <2>1, <3>1
  <2> QED
    BY <2>2, <2>3, <2>4 DEF Next
<1> QED
  BY <1>1, <1>2, Invariance, PTL DEF Spec

\* No line on the map jumps across it (geo.ts:66, routes.ts:53), if nothing goes
\* once around the world: a sampled leg goes on from the point before it, within
\* the one turn, and the single unwrap at the end closes every gap that is left,
\* in kept paths and in the measured route that is put together of them.
THEOREM LinesContinuous == Spec => [](WithinATurn => NoSeam)
<1>1. IInv /\ RoutesInv => (WithinATurn => NoSeam)
  <2> SUFFICES ASSUME IInv, RoutesInv, WithinATurn
               PROVE  NoSeam
    OBVIOUS
  <2>1. \A k \in DOMAIN memo.cache : Continuous(memo.cache[k].path)
    BY KeptRunsOn, Zenon DEF RunsOn, Continuous
  <2>2. RunsOn(routes)
    <3>1. CASE routes = <<>>
      <4>1. Len(routes) = 0
        BY <3>1, EmptySeq
      <4> QED
        BY <4>1 DEF RunsOn
    <3>2. ASSUME NEW full \in Seq(Drawn(memo)), routes = densifyPath(full)
          PROVE  RunsOn(routes)
      <4>1. ASSUME NEW line \in Bits(memo)
            PROVE  line \in Seq(Inner)
        <5>1. CASE \E k \in DOMAIN memo.cache : line = memo.cache[k].path
          BY <5>1, KeptRunsOn
        <5>2. ASSUME NEW l \in Asked
              PROVE  <<l[1]>> \in Seq(Inner) /\ densifyGreatCircle(l[1], l[2]) \in Seq(Inner)
          <6> DEFINE a == l[1]
                     b == l[2]
          <6>1. a \in Point /\ b \in Point /\ {a[1], b[1]} \subseteq -Half..Half - 1
            BY AskedPoints, TurnIs DEF IInv, TopologyInv
          <6> HIDE DEF a, b
          <6>2. a \in Inner /\ densifyGreatCircle(a, b) \in Seq(Inner)
            BY <6>1, InnerPlace, DirectStays
          <6>3. <<a>> \in Seq(Inner)
            BY <6>2
          <6> QED
            BY <6>2, <6>3 DEF a, b
        <5> QED
          BY <5>1, <5>2 DEF Bits
      <4>2. Drawn(memo) \subseteq Inner
        BY <4>1 DEF Drawn, ToSet
      <4>3. full \in Seq(Inner) /\ full \in Seq(Point)
        BY <4>2 DEF Inner
      <4>4. CASE Len(full) < 2
        <5>1. routes = full
          BY <3>2, <4>4 DEF densifyPath
        <5>2. Len(full) - 1 < 1
          BY <4>3, <4>4
        <5> QED
          BY <4>3, <5>1, <5>2 DEF RunsOn
      <4>5. CASE Len(full) >= 2
        <5>1. routes \in Seq(Point)
          BY <3>2, <4>3, <4>5, DensifyLeads DEF Leads
        <5>2. routes \in Seq(Inner)
          BY <5>1, TurnIs, InnerLine
        <5> QED
          BY <3>2, <4>3, <4>5, <5>2, DensifyRunsOn
      <4> QED
        BY <4>3, <4>4, <4>5
    <3> QED
      BY <3>1, <3>2 DEF RoutesInv
  <2> QED
    BY <2>1, <2>2 DEF NoSeam, RunsOn, Continuous
<1> QED
  BY <1>1, Invariance, RoutesPutTogether, PTL

----------------------------------------------------------------------------
(***************************************************************************)
(* How long the drawn lines are.                                           *)
(***************************************************************************)

\* Numbers that differ by d at most.
About(x, y, d) == x - y <= d /\ y - x <= d

\* What is drawn for an edge, up to the start of the next, and by how much its
\* ends may be off: cable ends need not be where their landings are.
LegFrom(g, e) == IF e.line = 0 THEN <<g.coord[e.from]>> ELSE Front(DrawEdge(g, e))

Slack(e) == IF e.line = 0 THEN 0 ELSE ClusterKm - 1

\* Two places are about as far from a third, up to the distance between them.
LEMMA DistanceAbout ==
  ASSUME NEW a \in Point, NEW b \in Point, NEW c \in Point
  PROVE  About(haversineKm(a, b), haversineKm(a, c), haversineKm(b, c))
<1>1. /\ haversineKm(a, b) \in Nat /\ haversineKm(a, c) \in Nat /\ haversineKm(b, c) \in Nat
  BY DistanceIs
<1>2. /\ haversineKm(a, c) <= haversineKm(a, b) + haversineKm(b, c)
      /\ haversineKm(a, b) <= haversineKm(a, c) + haversineKm(c, b)
      /\ haversineKm(c, b) = haversineKm(b, c)
  BY DistanceVia, DistanceBack
<1> QED
  BY <1>1, <1>2 DEF About

\* The leg starts near the edge's start; with the step to a point q it is about
\* as long as the edge, up to the distance from the edge's end to q.
LEMMA LegDrawnIs ==
  ASSUME NEW g, IsGraph(g), Weighed(g), NEW e \in g.edge
  PROVE  LET leg == LegFrom(g, e)
         IN  /\ leg \in Seq(Point) /\ leg # <<>> /\ pathLengthKm(leg) \in Nat
             /\ haversineKm(g.coord[e.from], leg[1]) <= Slack(e)
             /\ \A q \in Point :
                  About(pathLengthKm(leg) + haversineKm(leg[Len(leg)], q), e.w,
                        Slack(e) + haversineKm(g.coord[e.to], q))
<1> DEFINE u == g.coord[e.from]
           v == g.coord[e.to]
           leg == LegFrom(g, e)
<1>1. /\ e.from \in 1..Len(g.coord) /\ e.to \in 1..Len(g.coord) /\ e.w \in Nat
      /\ e.line \in 0..Len(g.line) /\ Len(g.line) \in Nat
  BY GraphIs DEF IsGraph, Joins
<1>2. u \in Point /\ v \in Point
  BY <1>1, GraphIs
<1>3. Measured(g.coord, g.line, e)
  BY DEF Weighed
<1>4. CASE e.line = 0
  <2>1. leg = <<u>> /\ Slack(e) = 0 /\ e.w = haversineKm(u, v)
    BY <1>3, <1>4 DEF LegFrom, Slack, Measured
  <2> HIDE DEF leg, u, v
  <2>2. leg \in Seq(Point) /\ leg # <<>> /\ leg[1] = u /\ leg[Len(leg)] = u
    BY <1>2, <2>1
  <2>3. pathLengthKm(leg) = 0
    BY <1>2, <2>1, LengthOne
  <2>4. haversineKm(u, u) = 0
    BY <1>2, SameSelf, DistanceSame
  <2>5. ASSUME NEW q \in Point
        PROVE  About(pathLengthKm(leg) + haversineKm(leg[Len(leg)], q), e.w,
                     Slack(e) + haversineKm(v, q))
    <3>1. About(haversineKm(u, q), haversineKm(u, v), haversineKm(q, v))
      BY <1>2, DistanceAbout
    <3>2. haversineKm(q, v) = haversineKm(v, q) /\ haversineKm(u, q) \in Nat
          /\ haversineKm(v, q) \in Nat
      BY <1>2, DistanceBack, DistanceIs
    <3> QED
      BY <1>1, <2>1, <2>2, <2>3, <3>1, <3>2 DEF About
  <2> QED
    BY <2>1, <2>2, <2>3, <2>4, <2>5 DEF leg, u, v
<1>5. CASE e.line # 0
  <2> DEFINE l == g.line[e.line]
             d == DrawEdge(g, e)
             f == Front(d)
             z == d[Len(d)]
  <2>1. l \in Seq(Point) /\ Len(l) >= 2
    BY <1>1, <1>5 DEF IsGraph, ToSet
  <2>2. /\ e.w = pathLengthKm(l)
        /\ haversineKm(u, Entry(l, e.rev)) < ClusterKm
        /\ haversineKm(v, Entry(l, ~e.rev)) < ClusterKm
    BY <1>3, <1>5 DEF Measured
  <2> HIDE DEF l, u, v
  <2>3. /\ d \in Seq(Point) /\ Len(d) >= 2 /\ pathLengthKm(d) = pathLengthKm(l)
        /\ d[1] = Entry(l, e.rev) /\ z = Entry(l, ~e.rev)
    <3>1. CASE e.rev
      <4>1. d = Reverse(l)
        BY <1>5, <3>1 DEF DrawEdge, l
      <4>2. Entry(l, e.rev) = l[Len(l)] /\ Entry(l, ~e.rev) = l[1]
        BY <3>1 DEF Entry
      <4>3. Reverse(l) \in Seq(Point) /\ Len(Reverse(l)) = Len(l)
        BY <2>1 DEF Reverse
      <4>4. l # <<>>
        BY <2>1, EmptySeq
      <4> HIDE DEF d
      <4> QED
        BY <2>1, <4>1, <4>2, <4>3, <4>4, LengthBack
    <3>2. CASE ~e.rev
      <4>1. d = l
        BY <1>5, <3>2 DEF DrawEdge, l
      <4>2. Entry(l, e.rev) = l[1] /\ Entry(l, ~e.rev) = l[Len(l)]
        BY <3>2 DEF Entry
      <4> HIDE DEF d
      <4> QED
        BY <2>1, <4>1, <4>2
    <3> QED
      BY <3>1, <3>2
  <2>4. leg = f /\ Slack(e) = ClusterKm - 1 /\ ClusterKm \in Nat \ {0}
    BY <1>5, CableAssumption DEF LegFrom, Slack
  <2>5. z \in Point /\ d[1] \in Point
    BY <2>3
  <2> HIDE DEF d, z, leg
  <2>6. /\ f \in Seq(Point) /\ f # <<>> /\ f[1] = d[1]
        /\ pathLengthKm(d) = pathLengthKm(f) + haversineKm(f[Len(f)], z)
    BY <2>3, LengthFront DEF z
  <2> HIDE DEF f
  <2> DEFINE y == f[Len(f)]
  <2>7. y \in Point /\ pathLengthKm(f) \in Nat
    <3>1. Len(f) \in 1..Len(f)
      BY <2>6, EmptySeq
    <3> QED
      BY <2>6, <3>1, LengthBy
  <2> HIDE DEF y
  <2>8. haversineKm(u, d[1]) \in Nat /\ haversineKm(v, z) \in Nat /\ haversineKm(y, z) \in Nat
    BY <1>2, <2>5, <2>7, DistanceIs DEF u, v
  <2>9. haversineKm(u, f[1]) <= Slack(e)
    BY <2>2, <2>3, <2>4, <2>6, <2>8
  <2>10. ASSUME NEW q \in Point
         PROVE  About(pathLengthKm(f) + haversineKm(y, q), e.w, Slack(e) + haversineKm(v, q))
    <3>1. About(haversineKm(y, q), haversineKm(y, z), haversineKm(q, z))
      BY <2>5, <2>7, DistanceAbout
    <3>2. haversineKm(q, z) <= haversineKm(q, v) + haversineKm(v, z)
      BY <1>2, <2>5, DistanceVia DEF v
    <3>3. haversineKm(q, v) = haversineKm(v, q)
      BY <1>2, DistanceBack DEF v
    <3>4. haversineKm(y, q) \in Nat /\ haversineKm(q, z) \in Nat /\ haversineKm(v, q) \in Nat
      BY <1>2, <2>5, <2>7, DistanceIs DEF v
    <3>5. haversineKm(v, z) <= Slack(e)
      BY <2>2, <2>3, <2>4, <2>8
    <3>6. e.w = pathLengthKm(f) + haversineKm(y, z)
      BY <2>2, <2>3, <2>6 DEF y
    <3>7. Slack(e) \in Nat
      BY <2>4
    <3> QED
      BY <2>7, <2>8, <3>1, <3>2, <3>3, <3>4, <3>5, <3>6, <3>7 DEF About
  <2> QED
    BY <2>4, <2>6, <2>7, <2>9, <2>10 DEF y, leg, u, v
<1> QED
  BY <1>4, <1>5, Zenon

\* The lengths of the first k edges of a way, and by how much they may be off.
CostTo(p, k) == SumFunctionOnSet([i \in DOMAIN p |-> p[i].w], 1..k)

ByCable(p, k) == {i \in 1..k : p[i].line # 0}

SlackTo(p, k) == (ClusterKm - 1) * Cardinality(ByCable(p, k))

\* Both grow edge by edge.
LEMMA PartialCosts ==
  ASSUME NEW edge, \A e \in edge : e.w \in Nat, NEW p \in Seq(edge)
  PROVE  /\ \A k \in 0..Len(p) : CostTo(p, k) \in Nat /\ SlackTo(p, k) \in Nat
         /\ CostTo(p, 0) = 0 /\ SlackTo(p, 0) = 0
         /\ \A k \in 1..Len(p) : /\ CostTo(p, k) = CostTo(p, k - 1) + p[k].w
                                 /\ SlackTo(p, k) = SlackTo(p, k - 1) + Slack(p[k])
         /\ Cost(p) = CostTo(p, Len(p))
<1> DEFINE f == [i \in DOMAIN p |-> p[i].w]
           n == Len(p)
           c == ClusterKm - 1
<1>1. /\ n \in Nat /\ DOMAIN f = 1..n
      /\ \A i \in 1..n : p[i] \in edge /\ f[i] = p[i].w /\ f[i] \in Nat
  OBVIOUS
<1>2. /\ \A k : CostTo(p, k) = SumFunctionOnSet(f, 1..k)
      /\ Cost(p) = SumFunctionOnSet(f, DOMAIN f)
  BY Zenon DEF CostTo, Cost, SumFunction
<1> HIDE DEF f, n
<1>3. \A k \in 0..n : /\ IsFiniteSet(1..k) /\ 1..k \subseteq 1..n
                      /\ IsFiniteSet(ByCable(p, k)) /\ Cardinality(ByCable(p, k)) \in Nat
  <2> TAKE k \in 0..n
  <2>1. IsFiniteSet(1..k) /\ 1..k \subseteq 1..n
    BY <1>1, FS_Interval
  <2>2. ByCable(p, k) \subseteq 1..k
    BY DEF ByCable
  <2>3. IsFiniteSet(ByCable(p, k))
    BY <2>1, <2>2, FS_Subset
  <2> QED
    BY <2>1, <2>3, FS_CardinalityType
<1>4. c \in Nat
  BY CableAssumption
<1>5. ASSUME NEW k \in 0..n
      PROVE  CostTo(p, k) \in Nat /\ SlackTo(p, k) \in Nat
  <2>1. CostTo(p, k) \in Nat
    BY <1>1, <1>2, <1>3, SumNat
  <2>2. SlackTo(p, k) = c * Cardinality(ByCable(p, k))
    BY DEF SlackTo
  <2> HIDE DEF c
  <2>3. \A x \in Nat : c * x \in Nat
    BY <1>4
  <2> QED
    BY <1>3, <2>1, <2>2, <2>3
<1>6. CostTo(p, 0) = 0 /\ SlackTo(p, 0) = 0
  <2>1. 1..0 = {} /\ ByCable(p, 0) = {}
    BY DEF ByCable
  <2>2. CostTo(p, 0) = 0
    BY <1>2, <2>1, SumEmpty
  <2>3. SlackTo(p, 0) = c * 0
    BY <2>1, FS_EmptySet DEF SlackTo
  <2> QED
    BY <1>4, <2>2, <2>3
<1>7. ASSUME NEW k \in 1..n
      PROVE  /\ CostTo(p, k) = CostTo(p, k - 1) + p[k].w
             /\ SlackTo(p, k) = SlackTo(p, k - 1) + Slack(p[k])
  <2>1. /\ k - 1 \in 0..n /\ k \in 0..n
        /\ 1..k = (1..k - 1) \cup {k} /\ k \notin 1..k - 1
    BY <1>1
  <2>2. CostTo(p, k) = CostTo(p, k - 1) + p[k].w
    <3> DEFINE S == 1..k - 1
    <3>1. IsFiniteSet(S) /\ k \notin S /\ 1..k = S \cup {k} /\ f[k] = p[k].w
          /\ \A y \in S \cup {k} : f[y] \in Nat
      BY <1>1, <1>3, <2>1
    <3>2. CostTo(p, k - 1) = SumFunctionOnSet(f, S)
      BY <1>2
    <3> HIDE DEF S
    <3>3. SumFunctionOnSet(f, S \cup {k}) = SumFunctionOnSet(f, S) + f[k]
      BY <3>1, SumAdd
    <3> QED
      BY <1>2, <3>1, <3>2, <3>3
  <2>3. SlackTo(p, k) = SlackTo(p, k - 1) + Slack(p[k])
    <3> DEFINE A == ByCable(p, k - 1)
               x == Cardinality(A)
    <3>1. IsFiniteSet(A) /\ x \in Nat /\ k \notin A
      BY <1>3, <2>1 DEF ByCable
    <3>2. SlackTo(p, k - 1) = c * x /\ SlackTo(p, k) = c * Cardinality(ByCable(p, k))
      BY DEF SlackTo
    <3>3. CASE p[k].line = 0
      <4>1. ByCable(p, k) = A /\ Slack(p[k]) = 0
        BY <2>1, <3>3 DEF ByCable, Slack
      <4>2. c * x \in Nat
        BY <1>4, <3>1
      <4> QED
        BY <3>2, <4>1, <4>2
    <3>4. CASE p[k].line # 0
      <4>1. ByCable(p, k) = A \cup {k} /\ Slack(p[k]) = c
        BY <2>1, <3>4 DEF ByCable, Slack
      <4> HIDE DEF A
      <4>2. Cardinality(A \cup {k}) = x + 1
        BY <3>1, FS_AddElement
      <4> HIDE DEF c, x
      <4>3. c * (x + 1) = c * x + c
        BY <1>4, <3>1
      <4> QED
        BY <3>2, <4>1, <4>2, <4>3
    <3> QED
      BY <3>3, <3>4
  <2> QED
    BY <2>2, <2>3
<1>8. Cost(p) = CostTo(p, n)
  BY <1>1, <1>2
<1> QED
  BY <1>5, <1>6, <1>7, <1>8 DEF n

\* The end of two lines, one after the other.
LEMMA ConcatLast ==
  ASSUME NEW s \in Seq(Point), NEW t \in Seq(Point), t # <<>>
  PROVE  s \o t \in Seq(Point) /\ s \o t # <<>> /\ (s \o t)[Len(s \o t)] = t[Len(t)]
<1> DEFINE r == s \o t
           m == Len(s) + Len(t)
<1>1. /\ r \in Seq(Point) /\ Len(r) = m
      /\ \A k \in 1..m : r[k] = IF k <= Len(s) THEN s[k] ELSE t[k - Len(s)]
  BY ConcatProperties
<1>2. Len(s) \in Nat /\ Len(t) \in Nat \ {0}
  BY EmptySeq
<1> HIDE DEF r
<1>3. m \in 1..m /\ ~(m <= Len(s)) /\ m - Len(s) = Len(t) /\ m # 0
  BY <1>2
<1>4. r[m] = t[m - Len(s)]
  BY <1>1, <1>3
<1> HIDE DEF m
<1> QED
  BY <1>1, <1>3, <1>4, EmptySeq DEF r

\* Numbers that are about the same, after one more leg and at the end of a way.
LEMMA AboutOn ==
  ASSUME NEW u \in Int, NEW c \in Int, NEW s \in Int, NEW d \in Int, NEW x \in Int,
         NEW y \in Int, NEW z \in Int, NEW w \in Int,
         About(u, c, 2 * s + d), About(x + y, w, d + z)
  PROVE  About(u + x + y, c + w, 2 * (s + d) + z)
BY DEF About

LEMMA AboutWider ==
  ASSUME NEW x \in Int, NEW y \in Int, NEW c \in Int, NEW d \in Int, About(x, y, c), c <= d
  PROVE  About(x, y, d)
BY DEF About

LEMMA AboutEnd ==
  ASSUME NEW x \in Int, NEW y \in Int, NEW d \in Int, NEW b \in Int, About(x, y, d)
  PROVE  About(x + b, y + b, d)
BY DEF About

\* The way of a link from its one end to the other over edges that lead from
\* node s to node n.
WayLine(g, p, n, a, b) ==
  <<a>> \o FlattenSeq([i \in DOMAIN p |-> LegFrom(g, p[i])]) \o <<g.coord[n], b>>

\* Drawn, it is as long as its edges and the ways to the first and from the last,
\* up to what the cables on it may be off at either end.
LEMMA WayDrawn ==
  ASSUME NEW g, IsGraph(g), Weighed(g), NEW s \in 1..Len(g.coord), NEW n \in 1..Len(g.coord),
         NEW p \in Seq(g.edge), Leading(p, s, n), NEW a \in Point, NEW b \in Point
  PROVE  /\ WayLine(g, p, n, a, b) \in Seq(Point) /\ Len(WayLine(g, p, n, a, b)) >= 2
         /\ About(pathLengthKm(WayLine(g, p, n, a, b)),
                  haversineKm(a, g.coord[s]) + Cost(p) + haversineKm(g.coord[n], b),
                  2 * SlackTo(p, Len(p)))
<1> DEFINE m == Len(p)
           at(i) == g.coord[i]
           legs == [i \in DOMAIN p |-> LegFrom(g, p[i])]
           first(i) == legs[i][1]
           last(i) == legs[i][Len(legs[i])]
           mid == FlattenSeq(legs)
           end == <<at(n)>> \o <<b>>
           A == haversineKm(a, at(s))
<1>1. m \in Nat /\ (m = 0 <=> p = <<>>) /\ \A i \in 1..m : p[i] \in g.edge
  BY EmptySeq
<1>2. /\ \A e \in g.edge : /\ e.from \in 1..Len(g.coord) /\ e.to \in 1..Len(g.coord)
                           /\ e.w \in Nat /\ Slack(e) \in Nat
      /\ \A i \in 1..Len(g.coord) : at(i) \in Point
  <2>1. Joins(g.edge, Len(g.coord)) /\ \A i \in 1..Len(g.coord) : g.coord[i] \in Point
    BY GraphIs
  <2>2. \A e \in g.edge : e.from \in 1..Len(g.coord) /\ e.to \in 1..Len(g.coord) /\ e.w \in Nat
    BY <2>1 DEF Joins
  <2>3. \A e \in g.edge : Slack(e) \in Nat
    BY CableAssumption DEF Slack
  <2> QED
    BY <2>1, <2>2, <2>3
<1>3. WayLine(g, p, n, a, b) = <<a>> \o mid \o end
  BY DEF WayLine
<1>4. /\ end \in Seq(Point) /\ end # <<>> /\ Len(end) = 2 /\ end[1] = at(n)
      /\ pathLengthKm(end) = haversineKm(at(n), b) /\ haversineKm(at(n), b) \in Nat
  <2> DEFINE u == at(n)
             x == <<u>>
             y == <<b>>
  <2>1. u \in Point
    BY <1>2
  <2> HIDE DEF u
  <2>2. /\ x \in Seq(Point) /\ x # <<>> /\ Len(x) = 1 /\ x[1] = u /\ pathLengthKm(x) = 0
        /\ y \in Seq(Point) /\ y # <<>> /\ Len(y) = 1 /\ y[1] = b /\ pathLengthKm(y) = 0
    BY <2>1, LengthOne
  <2>3. haversineKm(u, b) \in Nat
    BY <2>1, DistanceIs
  <2>5. x \o y \in Seq(Point) /\ x \o y # <<>> /\ Len(x \o y) = 2 /\ (x \o y)[1] = u
    BY <2>1
  <2> HIDE DEF x, y
  <2>4. pathLengthKm(x \o y) = pathLengthKm(x) + haversineKm(x[Len(x)], y[1]) + pathLengthKm(y)
    BY <2>2, LengthJoined
  <2> QED
    BY <2>2, <2>3, <2>4, <2>5 DEF u, x, y
<1>5. A \in Nat /\ Cost(p) = CostTo(p, m) /\ CostTo(p, m) \in Nat /\ SlackTo(p, m) \in Nat
  <2>1. m \in 0..Len(p)
    BY <1>1
  <2> QED
    BY <1>2, <2>1, PartialCosts, DistanceIs
<1> HIDE DEF end
<1>6. CASE m = 0
  <2>1. p = <<>> /\ s = n /\ Cost(p) = 0
    BY <1>1, <1>6, CostEmpty DEF Leading
  <2>2. mid = <<>>
    <3>1. legs \in Seq(Seq(Point)) /\ Len(legs) = 0
      BY <2>1, EmptySeq
    <3> HIDE DEF legs
    <3> QED
      BY <3>1, FlattenIs
  <2> DEFINE x == <<a>>
  <2>3. x \in Seq(Point) /\ x # <<>> /\ Len(x) = 1 /\ x[1] = a /\ pathLengthKm(x) = 0
    BY LengthOne
  <2> HIDE DEF x, mid
  <2>4. WayLine(g, p, n, a, b) = x \o end
    BY <1>3, <2>2, <2>3 DEF x
  <2>5. pathLengthKm(x \o end) = pathLengthKm(x) + haversineKm(x[Len(x)], end[1]) + pathLengthKm(end)
    BY <1>4, <2>3, LengthJoined
  <2>6. x \o end \in Seq(Point) /\ Len(x \o end) >= 2
    BY <1>4, <2>3
  <2>7. pathLengthKm(x \o end) = A + Cost(p) + haversineKm(at(n), b)
    BY <1>4, <1>5, <2>1, <2>3, <2>5
  <2> DEFINE h == haversineKm(at(n), b)
             S == SlackTo(p, Len(p))
  <2>8. A \in Nat /\ Cost(p) \in Nat /\ h \in Nat /\ S \in Nat
    BY <1>4, <1>5
  <2>9. pathLengthKm(x \o end) = A + Cost(p) + h
    BY <2>7
  <2> HIDE DEF A, h, S
  <2>10. About(pathLengthKm(x \o end), A + Cost(p) + h, 2 * S)
    BY <2>8, <2>9 DEF About
  <2> QED
    BY <2>4, <2>6, <2>10 DEF A, h, S
<1>7. CASE m # 0
  <2>1. /\ m \in 1..m /\ 1 \in 1..m /\ p[1].from = s /\ p[m].to = n
        /\ \A i \in 1..m : i # 1 => i - 1 \in 1..m /\ p[i - 1].to = p[i].from
    <3>1. p[1].from = s /\ p[m].to = n /\ \A i \in 1..m - 1 : p[i].to = p[i + 1].from
      BY <1>1, <1>7 DEF Leading
    <3>2. ASSUME NEW i \in 1..m, i # 1
          PROVE  i - 1 \in 1..m /\ p[i - 1].to = p[i].from
      <4> DEFINE j == i - 1
      <4>1. j \in 1..m - 1 /\ j \in 1..m /\ j + 1 = i
        BY <1>1, <3>2
      <4> HIDE DEF j, m
      <4>2. p[j].to = p[j + 1].from
        BY <3>1, <4>1
      <4> QED
        BY <4>1, <4>2 DEF j
    <3> QED
      BY <1>1, <1>7, <3>1, <3>2
  <2>2. /\ legs \in Seq(Seq(Point)) /\ Len(legs) = m
        /\ \A i \in 1..m : legs[i] = LegFrom(g, p[i])
    <3>1. \A i \in 1..m : LegFrom(g, p[i]) \in Seq(Point)
      BY <1>1, LegDrawnIs
    <3>2. legs = [i \in 1..m |-> LegFrom(g, p[i])]
      BY <1>1
    <3> HIDE DEF legs
    <3> QED
      BY <1>1, <3>1, <3>2
  <2>3. \A i \in 1..m :
          /\ legs[i] # <<>> /\ first(i) \in Point /\ last(i) \in Point
          /\ pathLengthKm(legs[i]) \in Nat
          /\ haversineKm(at(p[i].from), first(i)) <= Slack(p[i])
          /\ \A q \in Point : About(pathLengthKm(legs[i]) + haversineKm(last(i), q), p[i].w,
                                    Slack(p[i]) + haversineKm(at(p[i].to), q))
    <3> TAKE i \in 1..m
    <3> DEFINE r == legs[i]
    <3>1. /\ r \in Seq(Point) /\ r # <<>> /\ pathLengthKm(r) \in Nat
          /\ haversineKm(at(p[i].from), r[1]) <= Slack(p[i])
          /\ \A q \in Point : About(pathLengthKm(r) + haversineKm(r[Len(r)], q), p[i].w,
                                    Slack(p[i]) + haversineKm(at(p[i].to), q))
      BY <1>1, <2>2, LegDrawnIs
    <3> HIDE DEF r
    <3>2. r[1] \in Point /\ r[Len(r)] \in Point
      <4>1. 1 \in 1..Len(r) /\ Len(r) \in 1..Len(r)
        BY <3>1, EmptySeq
      <4> QED
        BY <3>1, <4>1
    <3> QED
      BY <3>1, <3>2 DEF r
  <2>4. PICK len \in [1..m -> Nat] :
          /\ pathLengthKm(mid) = len[m]
          /\ \A i \in 1..m : len[i] = LengthStep(len, legs, i)
    <3>1. legs # <<>> /\ \A i \in 1..Len(legs) : legs[i] # <<>>
      BY <1>7, <2>2, <2>3, EmptySeq
    <3> HIDE DEF legs, m
    <3> QED
      BY <2>2, <3>1, LengthFlattened
  <2> DEFINE fits(i) == \A q \in Point :
                About(haversineKm(a, first(1)) + len[i] + haversineKm(last(i), q),
                      A + CostTo(p, i), 2 * SlackTo(p, i) + haversineKm(at(p[i].to), q))
             Q == {i \in 1..m : fits(i)}
  <2>10. mid \in Seq(Point) /\ mid # <<>> /\ mid[1] = first(1) /\ mid[Len(mid)] = last(m)
    <3> HIDE DEF legs, m
    <3> QED
      BY <2>1, <2>2, <2>3, <1>7, FlattenIs
  <2> HIDE DEF legs, m, first, last, mid, at, A
  <2>5. ASSUME NEW i \in 1..m, i = 1 \/ i - 1 \in Q
        PROVE  i \in Q
    <3> DEFINE e == p[i]
               before == IF i = 1 THEN haversineKm(a, first(1))
                         ELSE haversineKm(a, first(1)) + len[i - 1]
                                + haversineKm(last(i - 1), first(i))
    <3>0. /\ e.w \in Nat /\ Slack(e) \in Nat /\ i - 1 \in 0..m /\ i \in 0..m
          /\ at(e.from) \in Point /\ at(e.to) \in Point
          /\ CostTo(p, i) = CostTo(p, i - 1) + e.w /\ CostTo(p, i - 1) \in Nat
          /\ SlackTo(p, i) = SlackTo(p, i - 1) + Slack(e) /\ SlackTo(p, i - 1) \in Nat
      <4>1. e \in g.edge /\ i - 1 \in 0..m /\ i \in 0..m
        BY <1>1
      <4> QED
        BY <1>2, <4>1, PartialCosts DEF m
    <3>1. haversineKm(at(e.from), first(i)) <= Slack(e)
          /\ haversineKm(at(e.from), first(i)) \in Nat /\ haversineKm(a, first(1)) \in Nat
      BY <2>1, <2>3, <3>0, DistanceIs
    <3>2. /\ before \in Nat /\ About(before, A + CostTo(p, i - 1), 2 * SlackTo(p, i - 1) + Slack(e))
          /\ haversineKm(a, first(1)) + len[i] = before + pathLengthKm(legs[i])
      <4>1. CASE i = 1
        <5>1. len[1] = pathLengthKm(legs[1])
          BY <2>1, <2>4 DEF LengthStep
        <5>2. CostTo(p, 0) = 0 /\ SlackTo(p, 0) = 0 /\ i - 1 = 0
          BY <1>2, <4>1, PartialCosts
        <5>3. About(haversineKm(a, first(1)), A, haversineKm(first(1), at(s)))
          BY <1>2, <2>1, <2>3, DistanceAbout DEF A
        <5>4. haversineKm(first(1), at(s)) = haversineKm(at(s), first(1))
          BY <1>2, <2>1, <2>3, DistanceBack
        <5>5. before = haversineKm(a, first(1)) /\ e.from = s
          BY <2>1, <4>1
        <5> DEFINE h == haversineKm(at(s), first(1))
                   u == haversineKm(a, first(1))
                   d == Slack(e)
                   x == pathLengthKm(legs[i])
                   c == A + CostTo(p, i - 1)
                   S == SlackTo(p, i - 1)
        <5>6. u \in Nat /\ d \in Nat /\ x \in Nat /\ h \in Nat /\ h <= d
          <6>1. u \in Nat /\ d \in Nat /\ x \in Nat
            BY <2>3, <3>0, <3>1
          <6>2. h \in Nat /\ h <= d
            BY <3>1, <4>1, <5>5
          <6> QED
            BY <6>1, <6>2
        <5>7. c = A /\ S = 0 /\ A \in Nat
          BY <1>5, <5>2
        <5>8. len[i] = x
          BY <4>1, <5>1
        <5> HIDE DEF before, h, u, d, x, c, S
        <5>9. before = u
          BY <5>5 DEF u
        <5>10. About(u, A, h)
          BY <5>3, <5>4 DEF u, h
        <5>11. About(u, A, d)
          BY <5>6, <5>7, <5>10, AboutWider
        <5>12. 2 * 0 + d = d
          BY <5>6
        <5>13. before \in Nat /\ About(before, c, 2 * S + d) /\ u + len[i] = before + x
          BY <5>6, <5>7, <5>8, <5>9, <5>11, <5>12
        <5> QED
          BY <5>13 DEF u, x, c, S, d
      <4>2. CASE i # 1
        <5> DEFINE k == i - 1
        <5>1. k \in 1..m /\ p[k].to = e.from
          BY <2>1, <4>2
        <5>2. len[i] = len[k] + haversineKm(last(k), first(i)) + pathLengthKm(legs[i])
          BY <2>4, <4>2 DEF LengthStep, first, last
        <5>3. before = haversineKm(a, first(1)) + len[k] + haversineKm(last(k), first(i))
          BY <4>2
        <5> HIDE DEF before
        <5>4. About(before, A + CostTo(p, k), 2 * SlackTo(p, k) + haversineKm(at(e.from), first(i)))
          BY <2>3, <2>5, <4>2, <5>1, <5>3 DEF Q
        <5>5. /\ len[k] \in Nat /\ haversineKm(last(k), first(i)) \in Nat
              /\ pathLengthKm(legs[i]) \in Nat
          BY <2>3, <2>4, <5>1, DistanceIs
        <5>6. CostTo(p, k) \in Nat /\ SlackTo(p, k) \in Nat
          BY <3>0
        <5> DEFINE c == A + CostTo(p, k)
                   S == SlackTo(p, k)
                   d == Slack(e)
                   h == haversineKm(at(e.from), first(i))
                   u == haversineKm(a, first(1))
                   v == haversineKm(last(k), first(i))
                   x == pathLengthKm(legs[i])
                   l == len[k]
        <5>9. /\ c \in Nat /\ S \in Nat /\ d \in Nat /\ h \in Nat /\ h <= d
              /\ u \in Nat /\ v \in Nat /\ x \in Nat /\ l \in Nat
          <6>1. A \in Nat /\ CostTo(p, k) \in Nat
            BY <1>5, <5>6
          <6>2. c \in Nat
            BY <6>1
          <6>3. S \in Nat /\ d \in Nat /\ h \in Nat /\ h <= d /\ u \in Nat
            BY <3>0, <3>1, <5>6
          <6>4. v \in Nat /\ x \in Nat /\ l \in Nat
            BY <5>5
          <6> QED
            BY <6>2, <6>3, <6>4
        <5> HIDE DEF k, c, S, d, h, u, v, x, l
        <5>10. before = u + l + v /\ len[i] = l + v + x
          BY <5>2, <5>3 DEF u, v, x, l
        <5>11. About(before, c, 2 * S + h)
          BY <5>4 DEF c, S, h
        <5>12. /\ before \in Int /\ 2 * S + h \in Int /\ 2 * S + d \in Int
               /\ 2 * S + h <= 2 * S + d /\ before \in Nat /\ u + len[i] = before + x
          BY <5>9, <5>10
        <5>13. About(before, c, 2 * S + d)
          BY <5>9, <5>11, <5>12, AboutWider
        <5>7. About(before, A + CostTo(p, k), 2 * SlackTo(p, k) + Slack(e))
          BY <5>13 DEF c, S, d
        <5>8. before \in Nat /\ haversineKm(a, first(1)) + len[i] = before + pathLengthKm(legs[i])
          BY <5>12 DEF u, x
        <5> QED
          BY <5>7, <5>8 DEF k
      <4> QED
        BY <4>1, <4>2
    <3> HIDE DEF before
    <3>3. ASSUME NEW q \in Point
          PROVE  About(haversineKm(a, first(1)) + len[i] + haversineKm(last(i), q),
                       A + CostTo(p, i), 2 * SlackTo(p, i) + haversineKm(at(e.to), q))
      <4> DEFINE x == pathLengthKm(legs[i])
                 y == haversineKm(last(i), q)
                 z == haversineKm(at(e.to), q)
      <4>1. About(x + y, e.w, Slack(e) + z)
        BY <2>3
      <4>2. x \in Nat /\ y \in Nat /\ z \in Nat
        BY <2>3, <3>0, DistanceIs
      <4>3. haversineKm(a, first(1)) + len[i] + y = before + x + y
        BY <3>2
      <4> DEFINE c == A + CostTo(p, i - 1)
                 S == SlackTo(p, i - 1)
                 d == Slack(e)
                 w == e.w
      <4>5. c \in Int /\ S \in Int /\ d \in Int /\ w \in Int /\ before \in Int
        <5>1. A \in Nat /\ CostTo(p, i - 1) \in Nat
          BY <1>5, <3>0
        <5>2. c \in Int
          BY <5>1
        <5>3. S \in Nat /\ d \in Nat /\ w \in Nat /\ before \in Nat
          BY <3>0, <3>2
        <5> QED
          BY <5>2, <5>3
      <4>6. A + CostTo(p, i) = c + w /\ SlackTo(p, i) = S + d
        <5>1. A \in Nat /\ CostTo(p, i - 1) \in Nat /\ w \in Nat
          BY <1>5, <3>0
        <5>2. CostTo(p, i) = CostTo(p, i - 1) + w /\ SlackTo(p, i) = S + d
          BY <3>0
        <5> HIDE DEF w
        <5> QED
          BY <5>1, <5>2
      <4>7. About(before, c, 2 * S + d)
        BY <3>2
      <4> HIDE DEF x, y, z, c, S, d, w
      <4>4. About(before + x + y, c + w, 2 * (S + d) + z)
        <5>1. About(x + y, w, d + z)
          BY <4>1 DEF d, w
        <5> QED
          BY <4>2, <4>5, <4>7, <5>1 DEF About
      <4>8. About(haversineKm(a, first(1)) + len[i] + y, A + CostTo(p, i), 2 * SlackTo(p, i) + z)
        BY <4>3, <4>4, <4>6
      <4> QED
        BY <4>8 DEF y, z
    <3> QED
      BY <3>3 DEF Q
  <2> HIDE DEF Q
  <2>6. m \in Q
    BY <1>1, <2>1, <2>5, IndexInduction
  <2>7. About(haversineKm(a, first(1)) + len[m] + haversineKm(last(m), at(n)),
              A + CostTo(p, m), 2 * SlackTo(p, m) + haversineKm(at(n), at(n)))
    BY <1>2, <2>1, <2>6 DEF Q, at
  <2>8. haversineKm(at(n), at(n)) = 0
    BY <1>2, SameSelf, DistanceSame DEF at
  <2> DEFINE x == <<a>>
             y == x \o mid
             z == y \o end
  <2>9. x \in Seq(Point) /\ x # <<>> /\ Len(x) = 1 /\ x[1] = a /\ pathLengthKm(x) = 0
    BY LengthOne
  <2> HIDE DEF x
  <2>11. /\ y \in Seq(Point) /\ y # <<>> /\ y[Len(y)] = last(m)
         /\ pathLengthKm(y) = haversineKm(a, first(1)) + len[m]
    <3>1. pathLengthKm(x \o mid) = pathLengthKm(x) + haversineKm(x[Len(x)], mid[1]) + pathLengthKm(mid)
      BY <2>9, <2>10, LengthJoined
    <3>2. haversineKm(a, first(1)) \in Nat /\ len[m] \in Nat
      BY <2>1, <2>3, DistanceIs
    <3>3. pathLengthKm(y) = haversineKm(a, first(1)) + len[m]
      BY <2>4, <2>9, <2>10, <3>1, <3>2
    <3>4. y \in Seq(Point) /\ y # <<>> /\ y[Len(y)] = mid[Len(mid)]
      BY <2>9, <2>10, ConcatLast
    <3> QED
      BY <2>10, <3>3, <3>4
  <2> HIDE DEF y
  <2>12. /\ z \in Seq(Point) /\ Len(z) >= 2
         /\ pathLengthKm(z) = haversineKm(a, first(1)) + len[m] + haversineKm(last(m), at(n))
                                + haversineKm(at(n), b)
    <3>2. pathLengthKm(z) = pathLengthKm(y) + haversineKm(y[Len(y)], end[1]) + pathLengthKm(end)
      BY <1>4, <2>11, LengthJoined
    <3>3. z \in Seq(Point) /\ Len(z) >= 2
      BY <1>4, <2>11
    <3> QED
      BY <1>4, <2>11, <3>2, <3>3 DEF at
  <2> HIDE DEF z
  <2>13. WayLine(g, p, n, a, b) = z
    BY <1>3 DEF z, y, x
  <2>14. /\ haversineKm(a, first(1)) \in Nat /\ len[m] \in Nat
         /\ haversineKm(last(m), at(n)) \in Nat
    BY <1>2, <2>1, <2>3, DistanceIs DEF at
  <2>15. haversineKm(at(n), b) \in Nat
    BY <1>4 DEF at
  <2>16. About(pathLengthKm(z), A + Cost(p) + haversineKm(at(n), b), 2 * SlackTo(p, m))
    <3> DEFINE u == haversineKm(a, first(1)) + len[m] + haversineKm(last(m), at(n))
               c == A + CostTo(p, m)
               d == 2 * SlackTo(p, m)
               h == haversineKm(at(n), b)
    <3>1. u \in Int /\ c \in Int /\ d \in Int /\ h \in Int
      <4>1. A \in Nat /\ CostTo(p, m) \in Nat /\ SlackTo(p, m) \in Nat
        BY <1>5
      <4>2. c \in Int /\ d \in Int
        BY <4>1
      <4>3. u \in Int /\ h \in Int
        BY <2>14, <2>15
      <4> QED
        BY <4>2, <4>3
    <3>2. d + 0 = d
      BY <3>1
    <3>3. pathLengthKm(z) = u + h /\ A + Cost(p) = c
      BY <1>5, <2>12
    <3>4. About(u, c, d + 0)
      BY <2>7, <2>8
    <3> HIDE DEF u, c, d, h
    <3>5. About(u + h, c + h, d)
      BY <3>1, <3>2, <3>4, AboutEnd
    <3> QED
      BY <3>3, <3>5 DEF d, h
  <2> QED
    BY <2>12, <2>13, <2>16 DEF A, at, m
<1> QED
  BY <1>6, <1>7

\* The cables on a way, counted, are what SlackTo allows for.
LEMMA SlackAllowed ==
  ASSUME NEW edge, \A e \in edge : e.w \in Nat, NEW p \in Seq(edge), NEW x \in Int, NEW y \in Int,
         About(x, y, 2 * SlackTo(p, Len(p)))
  PROVE  Magnitude(x - y) <= 2 * (ClusterKm - 1) * Cardinality({i \in DOMAIN p : p[i].line # 0})
<1> DEFINE c == Cardinality(ByCable(p, Len(p)))
           k == ClusterKm - 1
<1>1. {i \in DOMAIN p : p[i].line # 0} = ByCable(p, Len(p))
  BY DEF ByCable
<1>2. c \in Nat
  <2>1. IsFiniteSet(1..Len(p)) /\ ByCable(p, Len(p)) \subseteq 1..Len(p)
    BY FS_Interval DEF ByCable
  <2> QED
    BY <2>1, FS_Subset, FS_CardinalityType
<1>3. k \in Nat
  BY CableAssumption
<1>4. SlackTo(p, Len(p)) = k * c
  BY DEF SlackTo
<1> HIDE DEF c, k
<1>5. 2 * (k * c) = (2 * k) * c /\ k * c \in Int
  BY <1>2, <1>3
<1> DEFINE d == k * c
<1>6. About(x, y, 2 * d) /\ d \in Int
  BY <1>4, <1>5
<1> HIDE DEF d
<1>7. Magnitude(x - y) <= 2 * d
  BY <1>6 DEF About, Magnitude
<1>8. 2 * d = 2 * k * c
  BY <1>5 DEF d
<1> QED
  BY <1>1, <1>7, <1>8 DEF c, k

\* The line drawn for a link is as long as the way that was chosen for it, up to
\* the distance within which cable ends count as one landing (cables.ts:149),
\* whatever the cables, the hubs and the links are: every cable is drawn from the
\* end it is entered at (hubs.ts:433).
THEOREM DrawnLength == Spec => []DrawnAsRouted
<1>1. IInv => DrawnAsRouted
  <2> SUFFICES ASSUME IInv, memo.joint # NoGraph, NEW l \in world.links,
                      jointRoute(memo.joint, l[1], l[2]) # NoRoute
               PROVE  LET g == memo.joint
                          s == nearestNode(g.coord, l[1])
                          n == nearestNode(g.coord, l[2])
                          path == PathTo(ShortestTree(g.edge, Len(g.coord), Seed(s), n), n)
                          way  == haversineKm(l[1], g.coord[s]) + Cost(path)
                                    + haversineKm(g.coord[n], l[2])
                          line == pathLengthKm(densifyPath(jointRoute(g, l[1], l[2])))
                      IN  Magnitude(line - way) <=
                            2 * (ClusterKm - 1) * Cardinality({i \in DOMAIN path : path[i].line # 0})
    BY Zenon DEF DrawnAsRouted, Seed
  <2> DEFINE g == memo.joint
             N == Len(g.coord)
             a == l[1]
             b == l[2]
             s == nearestNode(g.coord, a)
             n == nearestNode(g.coord, b)
             t == ShortestTree(g.edge, N, Seed(s), n)
             path == PathTo(t, n)
             line == WayLine(g, path, n, a, b)
             u == haversineKm(a, g.coord[s])
             v == haversineKm(g.coord[n], b)
  <2>1. a \in Point /\ b \in Point
    BY TypesFollow, RoutingAssumption DEF TypeOK
  <2>2. IsGraph(g) /\ g.coord # <<>> /\ Weighed(g)
    BY DEF IInv, KeptRight, GraphsRight
  <2>3. /\ g.coord \in Seq(Point) /\ N \in Nat /\ DOMAIN g.coord = 1..N /\ Joins(g.edge, N)
        /\ \A e \in g.edge : e.w \in Nat
    BY <2>2, GraphIs DEF IsGraph, Joins
  <2>4. s \in 1..N /\ n \in 1..N
    BY <2>1, <2>2, <2>3, NearestNodeIs
  <2>5. jointRoute(g, a, b) = IF g = NoGraph \/ n \notin DOMAIN t.dist THEN NoRoute ELSE line
    BY Zenon DEF jointRoute, WayLine, LegFrom, Seed
  <2>6. n \in DOMAIN t.dist /\ jointRoute(g, a, b) = line
    BY <2>5
  <2> HIDE DEF g, N, a, b, s, n
  <2>7. path \in Seq(g.edge) /\ Leading(path, s, n)
    <3>1. Starts(Seed(s), N) /\ DOMAIN Seed(s) = {s}
      BY <2>4 DEF Starts, Seed
    <3>2. TreeInv(t, g.edge, N, Seed(s)) /\ Depths(t, N) # {}
      BY <2>3, <3>1, SearchEnds
    <3> HIDE DEF t
    <3> QED
      BY <2>3, <2>6, <3>1, <3>2, WayIs
  <2> HIDE DEF path
  <2>8. /\ line \in Seq(Point) /\ Len(line) >= 2
        /\ About(pathLengthKm(line), u + Cost(path) + v, 2 * SlackTo(path, Len(path)))
    BY <2>1, <2>2, <2>4, <2>7, WayDrawn DEF N
  <2> HIDE DEF line
  <2>9. pathLengthKm(densifyPath(line)) = pathLengthKm(line) /\ pathLengthKm(line) \in Nat
    <3>1. Len(line) \in 1..Len(line)
      BY <2>8
    <3> QED
      BY <2>8, <3>1, LengthDensified, LengthBy
  <2>10. u \in Nat /\ v \in Nat /\ Cost(path) \in Nat
    <3>1. g.coord[s] \in Point /\ g.coord[n] \in Point
      BY <2>3, <2>4
    <3>2. u \in Nat /\ v \in Nat
      BY <2>1, <3>1, DistanceIs
    <3> QED
      BY <2>3, <2>7, <3>2, CostNatural
  <2> DEFINE way == u + Cost(path) + v
  <2>11. way \in Int
    BY <2>10
  <2> HIDE DEF way
  <2>12. Magnitude(pathLengthKm(line) - way)
           <= 2 * (ClusterKm - 1) * Cardinality({i \in DOMAIN path : path[i].line # 0})
    <3> DEFINE x == pathLengthKm(line)
    <3>1. About(x, way, 2 * SlackTo(path, Len(path))) /\ x \in Int
      BY <2>8, <2>9 DEF way
    <3> HIDE DEF x
    <3>2. Magnitude(x - way)
            <= 2 * (ClusterKm - 1) * Cardinality({i \in DOMAIN path : path[i].line # 0})
      BY <2>3, <2>7, <2>11, <3>1, SlackAllowed, Zenon
    <3> QED
      BY <3>2 DEF x
  <2> QED
    BY <2>6, <2>9, <2>12, Zenon DEF way, u, v, path, t, n, s, a, b, N, g
<1> QED
  BY <1>1, Invariance, PTL

----------------------------------------------------------------------------
(***************************************************************************)
(* What is connected.                                                      *)
(***************************************************************************)

\* All landings are reachable from each other once the cables are loaded
\* (cables.ts:259), whatever systems the data holds.
THEOREM NetworkStaysOne == Spec => []CablesConnected
<1>1. IInv => CablesConnected
  BY DEF IInv, CablesInv
<1> QED
  BY <1>1, Invariance, PTL

\* A search finds what is tied to its start, and nothing else.
LEMMA SearchFinds ==
  ASSUME NEW N \in Nat, NEW edge, Joins(edge, N), NEW s \in 1..N, NEW n,
         NEW C, s \in C, Closed(edge, C), OneTied(edge, C)
  PROVE  n \in DOMAIN ShortestTree(edge, N, Seed(s), n).dist <=> n \in C
<1> DEFINE t == ShortestTree(edge, N, Seed(s), n)
           d == ShortestTree(edge, N, Seed(s), 0)
<1>1. Starts(Seed(s), N) /\ DOMAIN Seed(s) = {s}
  BY DEF Starts, Seed
<1>2. /\ TreeInv(d, edge, N, Seed(s)) /\ Depths(d, N) # {}
      /\ \A e \in edge : e.from \in DOMAIN d.dist =>
           e.to \in DOMAIN d.dist /\ d.dist[e.to] <= d.dist[e.from] + e.w
  BY <1>1, FullSearch
<1>3. n \in DOMAIN t.dist <=> n \in DOMAIN d.dist
  BY <1>1, StoppedIsFull
<1> HIDE DEF t, d
<1>4. s \in DOMAIN d.dist /\ Closed(edge, DOMAIN d.dist)
  BY <1>1, <1>2 DEF TreeInv, Closed
<1>5. C \subseteq DOMAIN d.dist
  BY <1>4 DEF OneTied
<1>6. \A x \in DOMAIN d.dist \ DOMAIN d.via : x \in C
  BY <1>1, <1>2 DEF TreeInv
<1>7. \A x \in DOMAIN d.via : d.via[x].from \in C => x \in C
  BY <1>2 DEF TreeInv, Closed
<1>8. \A x \in DOMAIN d.dist : x \in C
  BY <1>2, <1>6, <1>7, TreeInduction
<1> QED
  BY <1>3, <1>5, <1>8 DEF t

\* Two points share a component exactly when landRoute joins them (hubs.ts:327):
\* the union-find kept up through the bridging passes, whose every class is tied
\* together by edges and left by none, agrees with the search over the edges.
THEOREM ClassesAgree == Spec => []ComponentsAgree
<1>1. IInv => ComponentsAgree
  <2> SUFFICES ASSUME IInv, memo.land # NoGraph, NEW l \in world.links
               PROVE  landComponentOf(memo.land, l[1]) = landComponentOf(memo.land, l[2])
                        <=> landRoute(memo.land, l[1], l[2]) # NoRoute
    BY DEF ComponentsAgree
  <2> DEFINE g == memo.land
             N == Len(g.coord)
             a == nearestHub(g, l[1])
             b == nearestHub(g, l[2])
             C == landComponentOf(g, l[1])
             D == landComponentOf(g, l[2])
  <2>1. l[1] \in Point /\ l[2] \in Point
    BY AskedPoints DEF Asked, IInv, TopologyInv
  <2>2. g \in LandGraphs
    BY DEF IInv, KeptRight, GraphsRight
  <2>3. /\ IsGraph(g) /\ g.coord # <<>> /\ g.coord \in Seq(Point)
        /\ Agreeing(g.coord, g.edge, g.pieces)
        /\ N \in Nat \ {0} /\ DOMAIN g.coord = 1..N
    BY <2>2, LandIsGraph
  <2>4. a \in 1..N /\ b \in 1..N
    BY <2>1, <2>3, NearestNodeIs DEF nearestHub
  <2>5. Joins(g.edge, N)
    BY <2>3, GraphIs
  <2>6. landRoute(g, l[1], l[2]) # NoRoute
          <=> b \in DOMAIN ShortestTree(g.edge, N, Seed(a), b).dist
    BY <2>1, <2>3, LandWayIs DEF Seed
  <2> HIDE DEF g, N
  <2>7. /\ Partition(g.pieces, N) /\ AllTied(g.pieces, g.edge)
        /\ \A e \in g.edge : Holds(g.pieces, e)
    BY <2>3 DEF Agreeing, N
  <2>8. /\ C = CHOOSE c \in g.pieces : a \in c
        /\ D = CHOOSE c \in g.pieces : b \in c
    BY Zenon DEF landComponentOf
  <2> HIDE DEF a, b, C, D
  <2>9. C \in g.pieces /\ a \in C /\ D \in g.pieces /\ b \in D
    <3>1. (\E c \in g.pieces : a \in c) /\ (\E c \in g.pieces : b \in c)
      BY <2>4, <2>7 DEF Partition
    <3> QED
      BY <2>8, <3>1
  <2>10. OneTied(g.edge, C)
    BY <2>7, <2>9 DEF AllTied
  <2>11. Closed(g.edge, C)
    <3> SUFFICES ASSUME NEW e \in g.edge, e.from \in C
                 PROVE  e.to \in C
      BY DEF Closed
    <3>1. PICK c \in g.pieces : e.from \in c /\ e.to \in c
      BY <2>7 DEF Holds
    <3>2. c = C
      BY <2>7, <2>9, <3>1 DEF Partition
    <3> QED
      BY <3>1, <3>2
  <2>12. b \in DOMAIN ShortestTree(g.edge, N, Seed(a), b).dist <=> b \in C
    <3>1. N \in Nat
      BY <2>3 DEF N, g
    <3>2. Joins(g.edge, N)
      BY <2>5
    <3> QED
      BY <2>4, <2>9, <2>10, <2>11, <3>1, <3>2, SearchFinds
  <2>13. C = D <=> b \in C
    BY <2>7, <2>9 DEF Partition
  <2>14. C = D <=> landRoute(g, l[1], l[2]) # NoRoute
    BY <2>6, <2>12, <2>13
  <2> QED
    BY <2>14 DEF C, D, g
<1> QED
  BY <1>1, Invariance, PTL

=============================================================================
