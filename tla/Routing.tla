------------------------------- MODULE Routing -------------------------------
(***************************************************************************)
(* How the page decides the path of a link (segmentPath in cables.ts) from *)
(* data files that arrive in any order: the cables, the landmasses, the    *)
(* hubs and the optional topology, asked for once, by the overlay.         *)
(* The land graph and the joint land and cable graph are built when they   *)
(* are first needed and kept; a settled path is kept by its rounded ends.  *)
(* The measured routes of routes.ts are drawn hop by hop the same way.     *)
(***************************************************************************)
EXTENDS LandGraph

CONSTANTS
  Worlds,  \* the data a deployment may serve
  Grain    \* points this far apart may share a cached path, 0.1 degree

ASSUME RoutingAssumption ==
  /\ Grain \in Nat \ {0}
  /\ \A w \in Worlds :
       /\ \A i \in {k \in 1..2 : w.files[k].found} :
            {w.files[i].landings, w.files[i].hubs} \subseteq Seq(Point)
       /\ w.systems \in Seq(Seq(Seq((-Half..Half) \X Int)))
       /\ w.polys \in Seq([group : STRING, admin : STRING, ring : Seq(Point)])
       /\ w.topology.noTransitZones \subseteq Seq(Point)
       /\ w.topology.pops \in Seq([name : STRING, position : Point])
       /\ w.topology.trunks \in Seq(STRING \X STRING)
       /\ w.topology.corridorHubs \in Seq(Point)
       /\ w.topology.corridorEdges \in Seq((Nat \ {0}) \X (Nat \ {0}))
       /\ w.links \subseteq Point \X Point
       /\ w.hops \in Seq(Point \cup {<<>>})

VARIABLES
  world,     \* what the data files hold
  topology,  \* topology.ts: whether it is answered, and what is known so far
  hubs,      \* hubs.ts: the hubs and landings read so far
  file,      \* the data file loadHubs is at; 3 when it has finished
  cables,    \* "loading", "ready" or "failed", and the cable graph
  landmass,  \* the same for the country polygons
  infra,     \* infra.ts: the overlay's own reading of the same files
  memo,      \* the land graph, the joint graph and the cached paths
  routes     \* the measured route on the map, <<>> for none
vars == <<world, topology, hubs, file, cables, landmass, infra, memo, routes>>

NoMemo == [land |-> NoGraph, joint |-> NoGraph, cache |-> <<>>]

\* Everything is asked for at mount: the first file of the hubs, then, by
\* loadInfra, the topology, before loadHubs comes to ask for it.
Init ==
  /\ world \in Worlds
  /\ topology = [answered |-> FALSE, value |-> NoTopology]
  /\ hubs = NoHubs /\ file = 1
  /\ cables = [state |-> "loading", g |-> NoGraph]
  /\ landmass = [state |-> "loading", polys |-> <<>>]
  /\ infra = [loaded |-> FALSE, nodes |-> <<>>, ready |-> FALSE]
  /\ memo = NoMemo
  /\ routes = <<>>

-----------------------------------------------------------------------------
LoadCables ==
  /\ cables.state = "loading"
  /\ LET segs == [i \in DOMAIN world.systems |->
                    LET lines == world.systems[i]
                    IN  Sublist(lines, {k \in DOMAIN lines : Len(lines[k]) >= 2})]
         systems == Sublist(segs, {i \in DOMAIN segs : segs[i] # <<>>})
     IN  cables' \in { [state |-> "failed", g |-> NoGraph],
                       [state |-> "ready", g |-> buildCableGraph(systems)] }
  /\ UNCHANGED <<world, topology, hubs, file, landmass, infra, memo, routes>>

LoadLandmass ==
  /\ landmass.state = "loading"
  /\ LET rings == Sublist(world.polys, {i \in DOMAIN world.polys :
                                            Len(world.polys[i].ring) >= 4})
         polys == [i \in DOMAIN rings |-> Polygon(rings[i])]
     IN  landmass' \in
           { [state |-> "failed", polys |-> <<>>],
             [state |-> IF polys # <<>> THEN "ready" ELSE "failed", polys |-> polys] }
  /\ UNCHANGED <<world, topology, hubs, file, cables, infra, memo, routes>>

\* The end of loadHubs's work on one file, with the topology known then.
FinishFile(h, topo) ==
  LET all == AddPops(AddCorridor(h, topo), topo)
  IN  /\ hubs' = [all EXCEPT !.ready = all.landings # <<>>]
      /\ file' = IF all.landings # <<>> THEN 3 ELSE file + 1

\* A file that is not there is skipped.  After the features loadTopology returns
\* at once, since it has been asked, whether the answer has come or not.
ReadHubs ==
  /\ file \in 1..2
  /\ \/ /\ file' = file + 1
        /\ UNCHANGED hubs
     \/ /\ world.files[file].found
        /\ FinishFile(ReadFeatures(hubs, world.files[file]), topology.value)
  /\ UNCHANGED <<world, topology, cables, landmass, infra, memo, routes>>

\* The answer, or the lack of one, to the only request for the topology.
loadTopology ==
  /\ ~topology.answered
  /\ \E value \in {world.topology, NoTopology} :
       topology' = [answered |-> TRUE, value |-> value]
  /\ UNCHANGED <<world, hubs, file, cables, landmass, infra, memo, routes>>

\* What the infrastructure overlay can read: the first file that is there and has
\* anything; each may be lost.
InfraNodes ==
  LET nodes(i) == world.files[i].landings \o world.files[i].hubs
  IN  {<<>>} \cup {nodes(i) : i \in {k \in 1..2 : world.files[k].found}}

\* loadInfra, its awaits in one step, since nothing else sees what it reads
\* before the end: it waits for the topology and adds the configured POPs.
\* mutant: without waiting for the answer
loadInfra_AtOnce ==
  /\ ~infra.loaded
  /\ \E nodes \in InfraNodes :
       infra' = [loaded |-> TRUE, nodes |-> nodes, ready |-> nodes # <<>>]
  /\ UNCHANGED <<world, topology, hubs, file, cables, landmass, memo, routes>>
loadInfra ==
  /\ ~infra.loaded /\ topology.answered
  /\ \E nodes \in InfraNodes :
       LET all == nodes \o [i \in DOMAIN topology.value.pops |->
                              topology.value.pops[i].position]
       IN  infra' = [loaded |-> TRUE, nodes |-> all, ready |-> all # <<>>]
  /\ UNCHANGED <<world, topology, hubs, file, cables, landmass, memo, routes>>

-----------------------------------------------------------------------------
\* toFixed(1) of both ends, in order.
Rounded(p) == <<(p[1] + Grain \div 2) \div Grain, (p[2] + Grain \div 2) \div Grain>>
Key_Unordered(a, b) == {Rounded(a), Rounded(b)}   \* mutant
Key(a, b) == <<Rounded(a), Rounded(b)>>

Loaded_TwoOfThree == cables.state = "ready" /\ hubs.ready   \* mutant
Loaded == cables.state = "ready" /\ hubs.ready /\ landmass.state = "ready"

\* The land graph, built with what the topology is now, once and for good.
landBackbone(m) ==
  IF ~hubs.ready \/ hubs.hubs = <<>> \/ m.land # NoGraph THEN m
  ELSE [m EXCEPT !.land = buildLandGraph(hubs, landmass.polys, topology.value)]

\* Hubs and landings in one graph, every landing tied to its nearest hub.
JointOf(land, g) ==
  LET H       == Len(land.coord)
      tie(j)  == nearestNode(land.coord, g.coord[j])
      Backhaul(j, i) == Both(H + j, i, haversineKm(g.coord[j], land.coord[i]), 0)
  IN  [coord  |-> land.coord \o g.coord,
       line   |-> g.line,
       edge   |-> land.edge \cup {[e EXCEPT !.from = @ + H, !.to = @ + H] : e \in g.edge}
                    \cup UNION {Backhaul(j, tie(j)) : j \in DOMAIN g.coord},
       pieces |-> {}]
buildJointGraph(m) ==
  IF m.joint # NoGraph \/ m.land = NoGraph \/ cables.g.coord = <<>> THEN m
  ELSE [m EXCEPT !.joint = JointOf(m.land, cables.g)]

\* From a node of the joint graph to another: a cable as it lies, every other
\* edge straight; the end of each leg is the start of the next.
jointRoute(j, a, b) ==
  LET ia == nearestNode(j.coord, a)
      ib == nearestNode(j.coord, b)
      t  == ShortestTree(j.edge, Len(j.coord), [n \in {ia} |-> 0], ib)
      path == PathTo(t, ib)
      leg(e) == IF e.line = 0 THEN <<j.coord[e.from]>> ELSE Front(DrawEdge(j, e))
  IN  IF j = NoGraph \/ ib \notin DOMAIN t.dist THEN NoRoute
      ELSE <<a>> \o FlattenSeq([i \in DOMAIN path |-> leg(path[i])]) \o <<j.coord[ib], b>>

viaCable(a, b, jr) ==
  LET cr == cableRoute(cables.g, a, b)
  IN  IF jr # NoRoute THEN [path |-> densifyPath(jr), snapped |-> TRUE]
      ELSE IF Len(cr) >= 2
           THEN [path |-> densifyPath(<<a>> \o cr \o <<b>>), snapped |-> TRUE]
           ELSE [path |-> densifyGreatCircle(a, b), snapped |-> FALSE]

\* On one landmass over the backbone if it joins the two, else by cable.
sameLandmass(a, b) ==
  LET g == continentGroup(landmass.polys, a)
  IN  g # NoGroup /\ g = continentGroup(landmass.polys, b)
overland(m, a, b) ==
  IF sameLandmass(a, b) /\ m.land # NoGraph THEN landRoute(m.land, a, b) ELSE NoRoute

\* What the graphs of m decide for a link, lr being its way over land.
Decide(m, a, b, lr) ==
  IF lr # NoRoute THEN [path |-> densifyPath(lr), snapped |-> FALSE]
  ELSE viaCable(a, b, jointRoute(m.joint, a, b))

\* segmentPath's effect on what is kept: nothing for a known key or while data
\* is missing; else the graphs the decision needs (the land graph always: the
\* joint graph is made of it), and the path.
Kept(m, a, b, lr) ==
  [m EXCEPT !.cache = Over([k \in {Key(a, b)} |-> Decide(m, a, b, lr)], @)]
Settled(m, a, b, lr) ==
  Kept(IF lr # NoRoute THEN m ELSE buildJointGraph(m), a, b, lr)
OnLandGraph(m, a, b) == Settled(m, a, b, overland(m, a, b))
Linked(m, a, b) ==
  IF Key(a, b) \in DOMAIN m.cache \/ ~Loaded THEN m
  ELSE OnLandGraph(landBackbone(m), a, b)

\* segmentPath's answer, once m is Linked: a straight line that is not kept
\* stands in while data is missing.
segmentPath(m, a, b) ==
  IF Key(a, b) \in DOMAIN m.cache THEN m.cache[Key(a, b)]
  ELSE [path |-> densifyGreatCircle(a, b), snapped |-> FALSE]

\* A flow between two places is drawn.
flowPath ==
  /\ \E l \in world.links : memo' = Linked(memo, l[1], l[2])
  /\ UNCHANGED <<world, topology, hubs, file, cables, landmass, infra, routes>>

\* The hops with a place, repeated places once.
Places(hops) ==
  LET upTo[i \in 0..Len(hops)] ==
        IF i = 0 THEN <<>>
        ELSE LET pts == upTo[i - 1]
             IN  IF hops[i] = <<>> \/ (pts # <<>> /\ Last(pts) = hops[i]) THEN pts
                 ELSE Append(pts, hops[i])
  IN  upTo[Len(hops)]

\* The measured route, hop after hop; an API that fails clears it.
Extended(n, full, a, b) ==
  [memo |-> n, full |-> full \o Tail(segmentPath(n, a, b).path)]
Hop(acc, a, b) == Extended(Linked(acc.memo, a, b), acc.full, a, b)
Traced(pts) ==
  LET after[i \in 1..Len(pts)] ==
        IF i = 1 THEN [memo |-> memo, full |-> <<pts[1]>>]
        ELSE Hop(after[i - 1], pts[i - 1], pts[i])
  IN  after[Len(pts)]
fetchRoutes ==
  /\ \/ /\ Len(Places(world.hops)) >= 2
        /\ \E traced \in {Traced(Places(world.hops))} :
             /\ memo' = traced.memo
             /\ routes' = densifyPath(traced.full)
     \/ /\ routes' = <<>>
        /\ UNCHANGED memo
  /\ UNCHANGED <<world, topology, hubs, file, cables, landmass, infra>>

Next ==
  \/ LoadCables \/ LoadLandmass \/ ReadHubs \/ loadTopology
  \/ loadInfra \/ flowPath \/ fetchRoutes

Spec == Init /\ [][Next]_vars

-----------------------------------------------------------------------------
TypeOK ==
  /\ world \in Worlds
  /\ topology.answered \in BOOLEAN
  /\ topology.value \in {NoTopology, world.topology}
  /\ file \in 1..3 /\ {hubs.ready, infra.loaded, infra.ready} \subseteq BOOLEAN
  /\ {cables.state, landmass.state} \subseteq {"loading", "ready", "failed"}
  /\ ToSet(hubs.hubs \o hubs.landings) \subseteq Point
  /\ \A c \in ToSet(cables.g.coord) : c[1] \in -Half..Half - 1
  /\ IsGraph(cables.g)
  /\ \A g \in {memo.land, memo.joint} : IsGraph(g) /\ (g # NoGraph => g.coord # <<>>)
  /\ \A k \in DOMAIN memo.cache : ToSet(memo.cache[k].path) \subseteq Point

\* All landings are reachable from each other once the cables are loaded
\* (cables.ts:259), whatever systems the data holds: the last loop ties every
\* component to one that is tied already.
CablesConnected ==
  LET N == Len(cables.g.coord)
  IN  N > 0 => Reachable(cables.g.edge, 1, N) = 1..N

\* Two points share a component exactly when landRoute joins them
\* (hubs.ts:327): the union-find, kept up through the bridging passes, agrees
\* with the search over the edges.
ComponentsAgree ==
  memo.land # NoGraph =>
    \A l \in world.links :
      landComponentOf(memo.land, l[1]) = landComponentOf(memo.land, l[2])
        <=> landRoute(memo.land, l[1], l[2]) # NoRoute

\* No zone lies beyond both hubs of a pair that faces each other over the
\* dateline, where the boxes zonesBlock compares first (landmass.ts:145) do not
\* reach; and all hubs are within one turn, none opposite another.
ZonesInView ==
  \A p, q \in ToSet(hubs.hubs) :
    /\ p[1] \in -Half..Half - 1 /\ Magnitude(q[1] - p[1]) # Half
    /\ Magnitude(q[1] - p[1]) > Half =>
         \A z \in zonesOf(landmass.polys, topology.value) :
           z.xmin <= Max({p[1], q[1]}) /\ z.xmax >= Min({p[1], q[1]})

\* No edge the land graph found for itself passes through a no-transit zone
\* (hubs.ts:183), on any point of its great circle, if the hubs were read with
\* the topology the zones come from.  A land graph built before has edges through
\* zones, though hubs.ts:182 says that no land edge may cross one.
EdgesAvoidZones ==
  memo.land # NoGraph /\ hubs.corridorStart # NoCorridor =>
    \A z \in zonesOf(landmass.polys, topology.value) :
      \A e \in memo.land.edge \ ForcedEdges(hubs) :
        \A p \in ToSet(GreatCircle(memo.land.coord[e.from], memo.land.coord[e.to])) :
          ~pip(p, z.ring)

\* The search that stops at its goal finds the cheapest way, on the land graph and
\* on the joint one: the distances of a search that never stops are no longer
\* than any edge allows, and the way found is exactly as long.
Shortest ==
  \A g \in {memo.land, memo.joint} \ {NoGraph} : \A l \in world.links :
    LET s == nearestNode(g.coord, l[1])
        n == nearestNode(g.coord, l[2])
        t == ShortestTree(g.edge, Len(g.coord), [x \in {s} |-> 0], n)
        d == ShortestTree(g.edge, Len(g.coord), [x \in {s} |-> 0], 0).dist
    IN  /\ \A e \in g.edge : e.from \in DOMAIN d =>
             e.to \in DOMAIN d /\ d[e.to] <= d[e.from] + e.w
        /\ IF n \in DOMAIN d THEN n \in DOMAIN t.dist /\ Cost(PathTo(t, n)) = d[n]
           ELSE n \notin DOMAIN t.dist

\* The line drawn for a link is as long as the way that was chosen for it, up to
\* the distance within which cable ends count as one landing: every cable is
\* drawn from the end it is entered at.
DrawnAsRouted ==
  memo.joint # NoGraph =>
    \A l \in world.links :
      LET g == memo.joint
          s == nearestNode(g.coord, l[1])
          n == nearestNode(g.coord, l[2])
          path == PathTo(ShortestTree(g.edge, Len(g.coord), [x \in {s} |-> 0], n), n)
          way  == haversineKm(l[1], g.coord[s]) + Cost(path)
                    + haversineKm(g.coord[n], l[2])
          line == pathLengthKm(densifyPath(jointRoute(g, l[1], l[2])))
      IN  jointRoute(g, l[1], l[2]) # NoRoute =>
            Magnitude(line - way) <=
              2 * (ClusterKm - 1) * Cardinality({i \in DOMAIN path : path[i].line # 0})

\* The map's places, and every line on it, are less than a whole turn away from
\* the middle of the map: no cable and no path goes once around the world.
WithinATurn ==
  LET graphs == {memo.land, memo.joint, cables.g}
      places == ToSet(Places(world.hops)) \cup (UNION {{l[1], l[2]} : l \in world.links})
                  \cup (UNION {ToSet(g.coord) : g \in graphs})
      lines  == {routes} \cup (UNION {ToSet(g.line) : g \in graphs})
                  \cup {memo.cache[k].path : k \in DOMAIN memo.cache}
  IN  /\ \A p \in places : p[1] \in -Half..Half - 1
      /\ \A line \in lines : \A p \in ToSet(line) : Magnitude(p[1]) < 2 * Half

\* No line on the map jumps across it: neighbouring points are at most half a
\* turn apart, over the dateline too (geo.ts:66, routes.ts:53).
Continuous(line) ==
  \A i \in 1..Len(line) - 1 : Magnitude(line[i + 1][1] - line[i][1]) <= Half
NoSeam ==
  /\ Continuous(routes)
  /\ \A k \in DOMAIN memo.cache : Continuous(memo.cache[k].path)

\* Every path that is kept is the one the complete data decides for a link of its
\* key: no provisional line is ever kept (cables.ts:578), and a graph built
\* since then has not made it stale.
CacheFinal ==
  LET pts  == Places(world.hops)
      asked == world.links \cup {<<pts[i], pts[i + 1]>> : i \in 1..Len(pts) - 1}
  IN  \A k \in DOMAIN memo.cache :
        \E l \in asked : /\ Key(l[1], l[2]) = k
                         /\ memo.cache[k] = Decide(memo, l[1], l[2], overland(memo, l[1], l[2]))

\* A link that shares the path of another still ends where it should, within the
\* rounding of its key.
LinkEnds ==
  \A l \in world.links :
    LET path == segmentPath(memo, l[1], l[2]).path
    IN  /\ haversineKm(Head(path), l[1]) <= 2 * (Grain - 1)
        /\ haversineKm(Last(path), l[2]) <= 2 * (Grain - 1)

\* The overlay shows what the routes use (infra.ts:2): once it is loaded, the
\* POPs whose trunks take part in routing are on the map, although hubs.ts and
\* infra.ts read the topology at different times.
OverlayShowsPops ==
  infra.ready /\ hubs.trunkEdges # <<>> =>
    {p.position : p \in ToSet(world.topology.pops)} \subseteq ToSet(infra.nodes)
=============================================================================
