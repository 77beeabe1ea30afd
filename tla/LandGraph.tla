------------------------------ MODULE LandGraph ------------------------------
(***************************************************************************)
(* The terrestrial backbone of hubs.ts: the interconnect hubs read from    *)
(* the first data file that has cable landings, followed by the configured *)
(* corridor and backbone POPs (topology.ts), each linked to its nearest    *)
(* hubs on the same landmass, with the separate pieces bridged where the   *)
(* gap is narrow.  corridorStart is the number of hubs before the corridor.*)
(***************************************************************************)
EXTENDS CableGraph

CONSTANTS
  LandK,    \* nearest hubs each hub is linked to
  RingMax,  \* cells searched around a hub for them
  BridgeKm  \* BRIDGE_CONTIGUITY_KM

ASSUME LandAssumption == {LandK, RingMax} \subseteq Nat \ {0} /\ BridgeKm \in Nat

NoTopology == [pops |-> <<>>, trunks |-> <<>>, corridorHubs |-> <<>>,
               corridorEdges |-> <<>>, noTransitCountries |-> {},
               noTransitZones |-> {}]
NoCorridor == -1
NoHubs == [landings |-> <<>>, hubs |-> <<>>, corridorStart |-> NoCorridor,
           corridorEdges |-> <<>>, trunkEdges |-> <<>>, ready |-> FALSE]

\* The features of one data file are appended to what is there already.
ReadFeatures(h, file) ==
  [h EXCEPT !.landings = @ \o file.landings, !.hubs = @ \o file.hubs]

AddCorridor(h, topo) ==
  IF topo.corridorHubs = <<>> THEN h
  ELSE [h EXCEPT !.corridorStart = Len(h.hubs),
                 !.corridorEdges = topo.corridorEdges,
                 !.hubs = @ \o topo.corridorHubs]

\* The POPs become hubs; a trunk whose ends are both known POPs becomes an edge.
AddPops(h, topo) ==
  LET at(name) == Len(h.hubs) + CHOOSE i \in DOMAIN topo.pops :
                    /\ topo.pops[i].name = name
                    /\ \A k \in i + 1..Len(topo.pops) : topo.pops[k].name # name
      known == Sublist(topo.trunks, {i \in DOMAIN topo.trunks :
                 ToSet(topo.trunks[i]) \subseteq {p.name : p \in ToSet(topo.pops)}})
  IN  IF topo.pops = <<>> THEN h
      ELSE [h EXCEPT !.hubs = @ \o [i \in DOMAIN topo.pops |-> topo.pops[i].position],
                     !.trunkEdges = [i \in DOMAIN known |->
                                       <<at(known[i][1]), at(known[i][2])>>]]

-----------------------------------------------------------------------------
zonesOf(polys, topo) ==
  {makeZone(r) : r \in countryRings(polys, topo.noTransitCountries)
                         \cup {z \in topo.noTransitZones : Len(z) >= 4}}

\* The hubs in the cells around hub i, in a ring widened until there are enough.
Candidates(hubs, i) ==
  LET ring(r) == {j \in DOMAIN hubs \ {i} : \A k \in 1..2 :
                    Magnitude(hubs[j][k] \div Cell - hubs[i][k] \div Cell) <= r}
      enough == {r \in 1..RingMax : Cardinality(ring(r)) >= 4 * LandK}
  IN  ring(IF enough = {} THEN RingMax ELSE Min(enough))

\* The pairs of hubs linked as near neighbours: each hub in turn adds its nearest
\* eligible candidates that are not linked to it already.
Eligible(h, polys, topo, i) ==
  LET hubs  == h.hubs
      group == [k \in DOMAIN hubs |-> continentGroup(polys, hubs[k])]
      end   == h.corridorStart + Len(topo.corridorHubs)
      inCorridor(j) == h.corridorStart # NoCorridor /\ j \in h.corridorStart + 1..end
      apart(j)      == NoGroup \notin {group[i], group[j]} /\ group[i] # group[j]
  IN  {j \in Candidates(hubs, i) : /\ ~apart(j)
                                   /\ ~(inCorridor(i) /\ inCorridor(j))
                                   /\ Overland(polys, hubs[i], hubs[j])
                                   /\ ~zonesBlock(hubs[i], hubs[j], zonesOf(polys, topo))}
LinkHub(h, polys, topo, linked, i) ==
  LET fresh     == {j \in Eligible(h, polys, topo, i) : {i, j} \notin linked}
      far(j)    == haversineKm(h.hubs[i], h.hubs[j])
      nearer(j) == {k \in fresh : far(k) < far(j) \/ (far(k) = far(j) /\ k < j)}
  IN  linked \cup {{i, j} : j \in {k \in fresh : Cardinality(nearer(k)) < LandK}}
Neighbours(h, polys, topo) ==
  FoldLeft(LAMBDA linked, i : LinkHub(h, polys, topo, linked, i), {},
           [i \in DOMAIN h.hubs |-> i])

Undirected(hubs, a, b) == Both(a, b, haversineKm(hubs[a], hubs[b]), 0)
PairEdges(hubs, pairs) == UNION {Undirected(hubs, Min(p), Max(p)) : p \in pairs}

\* The configured edges, wired as they are: no test of land or of zones.
ForcedEdges(h) ==
  LET N == Len(h.hubs)
      corridor == IF h.corridorStart = NoCorridor THEN {}
                  ELSE {<<h.corridorStart + e[1], h.corridorStart + e[2]>> :
                          e \in ToSet(h.corridorEdges)}
  IN  UNION {Undirected(h.hubs, e[1], e[2]) :
               e \in {f \in corridor \cup ToSet(h.trunkEdges) : f[1] <= N /\ f[2] <= N}}

\* The pieces the edges make (union-find), largest first.
PiecesOf(N, edge) ==
  FoldSet(LAMBDA e, pieces : union(pieces, e.from, e.to), {{i} : i \in 1..N}, edge)
GroupsOf(pieces) ==
  LET before(s) == {t \in pieces : \/ Cardinality(t) > Cardinality(s)
                                  \/ /\ Cardinality(t) = Cardinality(s)
                                     /\ Min(t) < Min(s)}
  IN  [k \in 1..Cardinality(pieces) |->
         CHOOSE s \in pieces : Cardinality(before(s)) = k - 1]

cableServed(h, members) ==
  \E m \in members : \E l \in ToSet(h.landings) : haversineKm(h.hubs[m], l) <= BridgeKm

\* One piece after the other is joined to the main one by the nearest pair no
\* zone blocks, if the gap is narrow, or overland, or the piece's only link; the
\* passes are repeated until one changes nothing.
MergePiece(h, polys, zones, acc, group) ==
  LET gap(p) == haversineKm(h.hubs[p[1]], h.hubs[p[2]])
      open   == {p \in group \X acc.main : ~zonesBlock(h.hubs[p[1]], h.hubs[p[2]], zones)}
      best   == CHOOSE p \in open : \A q \in open : gap(p) <= gap(q)
  IN  IF /\ ~group \subseteq acc.main
         /\ open # {}
         /\ \/ gap(best) <= BridgeKm
            \/ Overland(polys, h.hubs[best[1]], h.hubs[best[2]])
            \/ ~cableServed(h, group)
      THEN [main  |-> acc.main \cup group,
            edge  |-> acc.edge \cup Undirected(h.hubs, best[1], best[2]),
            pieces |-> union(acc.pieces, best[1], best[2])]
      ELSE acc

BridgePieces(h, polys, topo, edge) ==
  LET pieces == PiecesOf(Len(h.hubs), edge)
      groups == GroupsOf(pieces)
      Pass(acc) == FoldLeft(LAMBDA a, g : MergePiece(h, polys, zonesOf(polys, topo), a, g),
                            acc, Tail(groups))
      after[k \in 0..Len(groups)] ==
        IF k = 0 THEN [main |-> Head(groups), edge |-> edge, pieces |-> pieces]
        ELSE Pass(after[k - 1])
  IN  after[Len(groups)]

buildLandGraph(h, polys, topo) ==
  LET edge == PairEdges(h.hubs, Neighbours(h, polys, topo)) \cup ForcedEdges(h)
      all  == BridgePieces(h, polys, topo, edge)
  IN  [coord |-> h.hubs, line |-> <<>>, edge |-> all.edge, pieces |-> all.pieces]

-----------------------------------------------------------------------------
nearestHub(land, p) == nearestNode(land.coord, p)
landComponentOf(land, p) ==
  CHOOSE c \in land.pieces : nearestHub(land, p) \in c

\* The overland way from a to b through the hubs, <<>> for none.
landRoute(land, a, b) ==
  LET ia == nearestHub(land, a)
      ib == nearestHub(land, b)
      t  == ShortestTree(land.edge, Len(land.coord), [n \in {ia} |-> 0], ib)
      path  == PathTo(t, ib)
      chain == [i \in DOMAIN path |-> land.coord[path[i].from]]
  IN  IF ib \notin DOMAIN t.dist THEN NoRoute
      ELSE <<a>> \o chain \o <<land.coord[ib], b>>
=============================================================================
