------------------------------ MODULE Geography ------------------------------
(***************************************************************************)
(* geo.ts and landmass.ts: the plane the router works on.  A point is a    *)
(* pair <<longitude, latitude>> of integers; a turn of the globe is 2 *    *)
(* Half units.  Two conversions are abstracted: the distance is the sum of *)
(* the latitude difference and of the shorter way round in longitude       *)
(* (haversineKm is a metric with the same wrap), and a great circle is the *)
(* straight line the shorter way round.  Ray casting, bounding boxes,      *)
(* wrapping and unwrapping are the code's.                                 *)
(***************************************************************************)
EXTENDS Integers, Sequences, FiniteSetsExt, SequencesExt

CONSTANTS
  Half,        \* half a turn of longitude: the code's 180
  LandPercent  \* the least share of land of an overland edge, in percent: 85

ASSUME GeographyAssumption == Half \in Nat \ {0} /\ LandPercent \in 1..100

Point == Int \X Int

\* The members of a list at the places I, in their order.
Sublist(s, I) ==
  [k \in 1..Cardinality(I) |->
     s[CHOOSE i \in I : Cardinality({j \in I : j < i}) = k - 1]]

Magnitude(x) == IF x < 0 THEN -x ELSE x
JsRem(x, n) == IF x < 0 THEN -((-x) % n) ELSE x % n   \* JavaScript's %

\* Longitude of any turn into [-Half, Half); the cable code's and the land
\* test's own ways of doing it.
normLon_Raw(x) == x   \* mutant
normLon(x) == JsRem(x + 3 * Half, 2 * Half) - Half
wrapLon(x) == JsRem(JsRem(x + Half, 2 * Half) + 2 * Half, 2 * Half) - Half

\* The shorter way round from longitude x to longitude y, signed.
Shorter(x, y) ==
  LET d == (y - x) % (2 * Half) IN IF d > Half THEN d - 2 * Half ELSE d
haversineKm(a, b) == Magnitude(Shorter(a[1], b[1])) + Magnitude(b[2] - a[2])

\* The points sampled along the great circle, both ends included, projected
\* back into one turn.
GreatCircle(a, b) ==
  LET dx == Shorter(a[1], b[1])
      dy == b[2] - a[2]
      n  == Max({1, Magnitude(dx), Magnitude(dy)})
  IN  [i \in 1..n + 1 |-> <<wrapLon(a[1] + ((i - 1) * dx) \div n),
                            a[2] + ((i - 1) * dy) \div n>>]

\* One direction of the seam forgotten (mutant).
Unwrapped_EastOnly(line) ==
  LET at[i \in 1..Len(line)] ==
        IF i = 1 THEN line[1]
        ELSE << line[i][1] + (IF line[i][1] - at[i - 1][1] < -Half
                              THEN 2 * Half ELSE 0), line[i][2] >>
  IN  at

\* One pass over a projected line that takes back a jump of more than half a
\* turn from the point before, so that the line runs on over the dateline.
Unwrapped(line) ==
  LET at[i \in 1..Len(line)] ==
        IF i = 1 THEN line[1]
        ELSE LET d == line[i][1] - at[i - 1][1]
             IN  << line[i][1] + (IF d > Half THEN -2 * Half
                                  ELSE IF d < -Half THEN 2 * Half ELSE 0),
                    line[i][2] >>
  IN  at

densifyGreatCircle(a, b) ==
  IF haversineKm(a, b) = 0 THEN <<a, b>> ELSE Unwrapped(GreatCircle(a, b))

\* Every leg sampled, its first point only once; one unwrap at the end.  A leg
\* of no length gives its end as it is written in the data.
densifyPath(pts) ==
  LET leg(i) == IF haversineKm(pts[i], pts[i + 1]) = 0
                THEN <<pts[i + 1], pts[i + 1]>>
                ELSE GreatCircle(pts[i], pts[i + 1])
      legs == [i \in 1..Len(pts) - 1 |-> IF i = 1 THEN leg(i) ELSE Tail(leg(i))]
  IN  IF Len(pts) < 2 THEN pts ELSE Unwrapped(FlattenSeq(legs))

-----------------------------------------------------------------------------
\* Ray casting: an odd number of the ring's edges lies east of the point.
pip(p, ring) ==
  LET before(i) == IF i = 1 THEN Len(ring) ELSE i - 1
      East(c, d) ==
        /\ (c[2] > p[2]) # (d[2] > p[2])
        /\ LET l == (p[1] - c[1]) * (d[2] - c[2])
               r == (d[1] - c[1]) * (p[2] - c[2])
           IN  IF d[2] > c[2] THEN l < r ELSE l > r
  IN  Cardinality({i \in DOMAIN ring : East(ring[i], ring[before(i)])}) % 2 = 1

makeZone(ring) ==
  LET xs == {c[1] : c \in ToSet(ring)}
      ys == {c[2] : c \in ToSet(ring)}
  IN  [ring |-> ring, xmin |-> Min(xs), xmax |-> Max(xs),
       ymin |-> Min(ys), ymax |-> Max(ys)]

Covers(zone, p) ==
  /\ p[1] \in zone.xmin..zone.xmax
  /\ p[2] \in zone.ymin..zone.ymax
  /\ pip(p, zone.ring)

\* world.geojson's polygons: a zone with its landmass group and its country.
Polygon(f) ==
  LET z == makeZone(f.ring)
  IN  [group |-> f.group, admin |-> f.admin, ring |-> z.ring,
       xmin |-> z.xmin, xmax |-> z.xmax, ymin |-> z.ymin, ymax |-> z.ymax]

OnGlobe(p) == <<wrapLon(p[1]), p[2]>>
onLand(polys, p) == \E pl \in ToSet(polys) : Covers(pl, OnGlobe(p))

NoGroup == "sea"
continentGroup(polys, p) ==
  LET hits == {i \in DOMAIN polys : Covers(polys[i], OnGlobe(p))}
  IN  IF hits = {} THEN NoGroup ELSE polys[Min(hits)].group

countryRings(polys, names) ==
  {polys[i].ring : i \in {j \in DOMAIN polys : polys[j].admin \in names}}

\* Only the ends of the edge are looked at (mutant).
zonesBlock_Ends(a, b, zones) ==
  \E z \in zones : Covers(z, OnGlobe(a)) \/ Covers(z, OnGlobe(b))

\* The zones whose box is near the edge's box, then every sample against them.
zonesBlock(a, b, zones) ==
  LET near == {z \in zones : /\ z.xmin <= Max({a[1], b[1]}) /\ z.xmax >= Min({a[1], b[1]})
                             /\ z.ymin <= Max({a[2], b[2]}) /\ z.ymax >= Min({a[2], b[2]})}
  IN  \E z \in near : \E p \in ToSet(GreatCircle(a, b)) : Covers(z, p)

\* Whether the share of land along the great circle is high enough for an edge.
Overland(polys, a, b) ==
  LET line == GreatCircle(a, b)
      land == {i \in DOMAIN line : onLand(polys, line[i])}
  IN  100 * Cardinality(land) >= LandPercent * Len(line)
=============================================================================
