------------------------------ MODULE CableGraph ------------------------------
(***************************************************************************)
(* The submarine-cable network of cables.ts.  A graph is a record: coord   *)
(* gives each landing's place, line the cables' polylines, edge the links  *)
(* (each in both directions; line 0 is a link no polyline draws), pieces   *)
(* the union-find classes of the landings.  Ties between equally near      *)
(* landings are broken by CHOOSE.                                          *)
(***************************************************************************)
EXTENDS Geography

CONSTANTS
  Cell,           \* width of a cell of the landing index, one degree in the code
  ClusterKm,      \* ends nearer than this are one landing
  SnapKm,         \* landings a route may enter or leave at
  Dateline,       \* an end at this longitude or beyond meets the antimeridian
  LatTolerance,   \* how far the two halves of a split cable may lie apart
  ArcticLat, PolarLat, NordicWest, NordicEast   \* the band no route
                  \* transits, but for the Nordic sector (degrees west and east)

ASSUME CableAssumption ==
  /\ {Cell, ClusterKm, LatTolerance} \subseteq Nat \ {0}
  /\ SnapKm \in Nat /\ Dateline \in 1..Half
  /\ {ArcticLat, PolarLat, NordicWest, NordicEast} \subseteq Nat

pathLengthKm(line) ==
  SumFunction([i \in 1..Len(line) - 1 |-> haversineKm(line[i], line[i + 1])])

arcticTransit(c) ==
  \/ c[2] > PolarLat
  \/ c[2] > ArcticLat /\ normLon(c[1]) \notin -NordicWest..NordicEast
crossesArctic(seg) == \E c \in ToSet(seg) : arcticTransit(c)

\* Cables are split at the antimeridian in the data: each line that ends at the
\* eastern edge is joined to the free line at the western edge of the nearest
\* latitude, carried on past half a turn.
EndPoint(brs, e) == IF e.head THEN brs[e.bi][1] ELSE Last(brs[e.bi])
JoinEnd(brs, neg, acc, p) ==
  LET gap(n) == Magnitude(EndPoint(brs, n)[2] - EndPoint(brs, p)[2])
      free   == {n \in neg : /\ n.bi \notin acc.used \cup {p.bi}
                             /\ gap(n) < LatTolerance}
      best   == CHOOSE n \in free : \A m \in free : gap(n) <= gap(m)
      west   == [i \in DOMAIN brs[best.bi] |->
                   <<brs[best.bi][i][1] + 2 * Half, brs[best.bi][i][2]>>]
      a      == IF p.head THEN Reverse(brs[p.bi]) ELSE brs[p.bi]
      b      == IF best.head THEN west ELSE Reverse(west)
  IN  IF p.bi \in acc.used \/ free = {} THEN acc
      ELSE [used |-> acc.used \cup {p.bi, best.bi},
            merged |-> Append(acc.merged, a \o Tail(b))]
stitchAntimeridian(brs) ==
  LET ends  == FlattenSeq([i \in DOMAIN brs |-> << [bi |-> i, head |-> TRUE],
                                                   [bi |-> i, head |-> FALSE] >>])
      pos   == Sublist(ends, {i \in DOMAIN ends : EndPoint(brs, ends[i])[1] >= Dateline})
      neg   == {e \in ToSet(ends) : EndPoint(brs, e)[1] <= -Dateline}
      all   == FoldLeft(LAMBDA acc, p : JoinEnd(brs, neg, acc, p),
                        [used |-> {}, merged |-> <<>>], pos)
  IN  Sublist(brs, DOMAIN brs \ all.used) \o all.merged

-----------------------------------------------------------------------------
NoGraph == [coord |-> <<>>, line |-> <<>>, edge |-> {}, pieces |-> {}]

\* What a graph is, for the properties: its edges join landings that are there,
\* along lines that are there.
IsGraph(g) ==
  /\ g.coord \in Seq(Point)
  /\ g.line \in Seq(Seq(Point)) /\ \A line \in ToSet(g.line) : Len(line) >= 2
  /\ \A e \in g.edge : /\ {e.from, e.to} \subseteq DOMAIN g.coord
                       /\ e.line \in 0..Len(g.line) /\ e.w \in Nat

\* The landing an end belongs to, 0 for none: the nearest one within the cluster
\* distance, looked for in the neighbouring cells only (cells do not wrap).
Landing(g, p) ==
  LET c    == <<normLon(p[1]), p[2]>>
      near == {n \in DOMAIN g.coord :
                 /\ \A k \in 1..2 : g.coord[n][k] \div Cell - c[k] \div Cell \in -1..1
                 /\ haversineKm(g.coord[n], c) < ClusterKm}
  IN  IF near = {} THEN 0
      ELSE CHOOSE n \in near : \A m \in near :
             haversineKm(g.coord[n], c) <= haversineKm(g.coord[m], c)

findOrAdd(g, p) ==
  IF Landing(g, p) # 0 THEN g
  ELSE [g EXCEPT !.coord = Append(@, <<normLon(p[1]), p[2]>>),
                 !.pieces = @ \cup {{Len(g.coord) + 1}}]

Both(a, b, w, line) ==
  { [from |-> a, to |-> b, w |-> w, line |-> line, rev |-> FALSE],
    [from |-> b, to |-> a, w |-> w, line |-> line, rev |-> TRUE] }
\* Only the landing itself changes class, not the rest of its class (mutant).
union_Shallow(pieces, a, b) ==
  {IF b \in c THEN c \cup {a} ELSE c \ {a} : c \in pieces} \ {{}}
union(pieces, a, b) ==
  LET both == {c \in pieces : a \in c \/ b \in c}
  IN  (pieces \ both) \cup {UNION both}
Joined(pieces, a, b) == \E c \in pieces : {a, b} \subseteq c
addEdge(g, a, b, w, line) ==
  [g EXCEPT !.edge  = @ \cup (IF a = b \/ w <= 0 THEN {} ELSE Both(a, b, w, line)),
            !.pieces = union(@, a, b)]

\* A list without repetitions.
WithMember(list, n) == IF n \in ToSet(list) THEN list ELSE Append(list, n)

\* A segment's ends become landings, and the segment an edge; one that crosses
\* the arctic band is left out.
AddSegment(acc, seg) ==
  LET one == findOrAdd(acc.g, seg[1])
      two == findOrAdd(one, Last(seg))
      ia  == Landing(one, seg[1])
      ib  == Landing(two, Last(seg))
      g   == [two EXCEPT !.line = Append(@, seg)]
  IN  IF Len(seg) < 2 \/ crossesArctic(seg) THEN acc
      ELSE [g |-> addEdge(g, ia, ib, pathLengthKm(seg), Len(g.line)),
            uniq |-> WithMember(WithMember(acc.uniq, ia), ib)]
Chord(g, p) ==
  IF Joined(g.pieces, p[1], p[2]) THEN g
  ELSE addEdge(g, p[1], p[2], haversineKm(g.coord[p[1]], g.coord[p[2]]), 0)

\* One cable system: its segments, then a chord for every two of its landings
\* that are still in different pieces.
addSystem(g, segs) ==
  LET all   == FoldLeft(AddSegment, [g |-> g, uniq |-> <<>>], segs)
      pairs == FlattenSeq([i \in DOMAIN all.uniq |->
                 [k \in 1..Len(all.uniq) - i |-> <<all.uniq[i], all.uniq[i + k]>>]])
  IN  FoldLeft(Chord, all.g, pairs)

\* The landings joined to landing n.
Reachable(edge, n, size) ==
  LET after[k \in 0..size] ==
        IF k = 0 THEN {n}
        ELSE LET r == after[k - 1] IN r \cup {e.to : e \in {f \in edge : f.from \in r}}
  IN  after[size]

\* A component is tied to whatever landing is nearest (mutant).
BridgeTo_Anywhere(acc, members, number) ==
  LET pairs  == members \X (DOMAIN acc.g.coord \ members)
      gap(p) == haversineKm(acc.g.coord[p[1]], acc.g.coord[p[2]])
      best   == CHOOSE p \in pairs : \A q \in pairs : gap(p) <= gap(q)
  IN  [acc EXCEPT !.g = addEdge(acc.g, best[1], best[2], gap(best), 0)]

\* One component is tied to the main one by its nearest pair of landings.  Its
\* number is then marked main as if it were a landing (compOf[comp] = main).
BridgeTo(acc, members, number) ==
  LET pairs  == (members \ acc.main) \X acc.main
      gap(p) == haversineKm(acc.g.coord[p[1]], acc.g.coord[p[2]])
      best   == CHOOSE p \in pairs : \A q \in pairs : gap(p) <= gap(q)
  IN  IF pairs = {} THEN acc
      ELSE [main |-> acc.main \cup members \cup {number},
            g    |-> addEdge(acc.g, best[1], best[2], gap(best), 0)]

\* The components in the order of their first landings; main is the first of the
\* largest.
BridgeComponents(g) ==
  LET size  == Len(g.coord)
      pieces == [n \in 1..size |-> Reachable(g.edge, n, size)]
      comps == Sublist(pieces, {n \in 1..size : \A m \in pieces[n] : n <= m})
      main  == CHOOSE i \in DOMAIN comps : \A k \in DOMAIN comps :
                 \/ Cardinality(comps[k]) < Cardinality(comps[i])
                 \/ Cardinality(comps[k]) = Cardinality(comps[i]) /\ i <= k
      rest  == Sublist([i \in DOMAIN comps |-> i], DOMAIN comps \ {main})
  IN  IF size = 0 THEN g
      ELSE FoldLeft(LAMBDA acc, i : BridgeTo(acc, comps[i], i),
                    [main |-> comps[main], g |-> g], rest).g

buildCableGraph(systems) ==
  BridgeComponents(FoldLeft(addSystem, NoGraph,
    [i \in DOMAIN systems |-> stitchAntimeridian(systems[i])]))

-----------------------------------------------------------------------------
\* f where it is defined, else g.
Over(f, g) ==
  [x \in DOMAIN f \cup DOMAIN g |-> IF x \in DOMAIN f THEN f[x] ELSE g[x]]

\* Dijkstra from the landings of `seed` (their distances at the start) until
\* everything reached is settled or `stop` is: dist and via, the edge each node
\* was reached by, are partial functions.

\* A landing keeps the first distance it is given (mutant).
Relax_FirstWins(t, edge, u) ==
  LET out == {e \in edge : e.from = u /\ e.to \notin DOMAIN t.dist}
      via == [n \in {e.to : e \in out} |-> CHOOSE e \in out : e.to = n]
  IN  [done |-> t.done \cup {u},
       dist |-> Over([n \in DOMAIN via |-> t.dist[u] + via[n].w], t.dist),
       via  |-> Over(via, t.via)]

Relax(t, edge, u) ==
  LET out == {e \in edge :
                /\ e.from = u /\ e.to \notin t.done
                /\ e.to \in DOMAIN t.dist => t.dist[u] + e.w < t.dist[e.to]}
      via == [n \in {e.to : e \in out} |->
                CHOOSE e \in out : e.to = n /\ \A f \in out : f.to = n => e.w <= f.w]
  IN  [done |-> t.done \cup {u},
       dist |-> Over([n \in DOMAIN via |-> t.dist[u] + via[n].w], t.dist),
       via  |-> Over(via, t.via)]

ShortestTree(edge, size, seed, stop) ==
  LET after[k \in 0..size] ==
        IF k = 0 THEN [done |-> {}, dist |-> seed, via |-> <<>>]
        ELSE LET t == after[k - 1]
                 open == DOMAIN t.dist \ t.done
                 u == CHOOSE n \in open : \A m \in open : t.dist[n] <= t.dist[m]
             IN  IF open = {} \/ stop \in t.done THEN t
                 ELSE IF u = stop THEN [t EXCEPT !.done = @ \cup {u}]
                 ELSE Relax(t, edge, u)
  IN  after[size]

\* The edges of the tree from a seed to node n.
PathTo(t, n) ==
  LET path[m \in DOMAIN t.dist] ==
        IF m \notin DOMAIN t.via THEN <<>>
        ELSE Append(path[t.via[m].from], t.via[m])
  IN  path[n]

\* What the properties compare distances with.
Cost(path) == SumFunction([i \in DOMAIN path |-> path[i].w])

nearestNode(coord, p) ==
  IF coord = <<>> THEN 0
  ELSE CHOOSE n \in DOMAIN coord : \A m \in DOMAIN coord :
         \/ haversineKm(coord[n], p) < haversineKm(coord[m], p)
         \/ haversineKm(coord[n], p) = haversineKm(coord[m], p) /\ n <= m

\* The polyline of an edge, in the direction it is travelled; a link without one
\* is the great circle.
\* Drawn as the data has it, whichever way it is travelled (mutant).
DrawEdge_Unreversed(g, e) ==
  IF e.line = 0 THEN densifyGreatCircle(g.coord[e.from], g.coord[e.to])
  ELSE g.line[e.line]
DrawEdge(g, e) ==
  IF e.line = 0 THEN densifyGreatCircle(g.coord[e.from], g.coord[e.to])
  ELSE IF e.rev THEN Reverse(g.line[e.line]) ELSE g.line[e.line]

\* The way by cable alone, <<>> for none: from any landing near a to any landing
\* near b, whichever is shortest with the two accesses; where no landing is near,
\* the nearest one.
NoRoute == <<>>
cableRoute(g, a, b) ==
  LET nodes == DOMAIN g.coord
      reach(n, p) == haversineKm(g.coord[n], p)
      near(p)  == {n \in nodes : reach(n, p) <= SnapKm}
      start    == IF near(a) # {} THEN near(a) ELSE {nearestNode(g.coord, a)}
      t        == ShortestTree(g.edge, Len(g.coord), [n \in start |-> reach(n, a)], 0)
      ends     == near(b) \cap DOMAIN t.dist
      end      == IF ends = {} THEN nearestNode(g.coord, b)
                  ELSE CHOOSE n \in ends : \A m \in ends :
                         t.dist[n] + reach(n, b) <= t.dist[m] + reach(m, b)
      path     == PathTo(t, end)
      legs     == [i \in DOMAIN path |->
                     IF i = 1 THEN DrawEdge(g, path[i]) ELSE Tail(DrawEdge(g, path[i]))]
  IN  IF nodes = {} \/ end \notin DOMAIN t.dist THEN NoRoute
      ELSE IF path = <<>> THEN <<g.coord[end]>>
      ELSE FlattenSeq(legs)
=============================================================================
