------------------------------ MODULE MCRouting ------------------------------
(***************************************************************************)
(* Small worlds for the router, on a globe of 24 units of longitude.  Two  *)
(* shores face each other over the dateline: Asia at longitudes 3 to 9,    *)
(* with an island at 10 to 11, and America at -9 to -4.                    *)
(***************************************************************************)
EXTENDS Routing

Box(x1, x2, y1, y2) == <<<<x1, y1>>, <<x2, y1>>, <<x2, y2>>, <<x1, y2>>>>
Land(group, admin, ring) == [group |-> group, admin |-> admin, ring |-> ring]
Missing == [found |-> FALSE]
File(landings, hs) == [found |-> TRUE, landings |-> landings, hubs |-> hs]

Asia    == Land("EURASIA", "Asia", Box(2, 9, -1, 4))
Island  == Land("EURASIA", "Island", Box(10, 11, 0, 3))
America == Land("AMERICAS", "America", Box(-9, -4, -1, 4))
Sliver  == Land("OTHER", "Sliver", <<<<0, 0>>, <<1, 1>>, <<0, 0>>>>)

\* A cable split at the dateline; a system in two parts; an isolated cable and
\* two loops; a cable through the Arctic.
Pacific  == << <<<<9, 1>>, <<12, 1>>>>, <<<<-12, 2>>, <<-9, 0>>>> >>
Branches == << <<<<9, 3>>, <<11, 3>>>>, <<<<9, -1>>, <<7, -1>>>>, <<<<9, 3>>>> >>
Ferry    == << <<<<10, 2>>, <<9, 2>>, <<8, 3>>, <<8, 0>>>> >>
Loop     == << <<<<-3, 0>>, <<-1, 0>>, <<-3, 0>>>> >>
Ring     == << <<<<-2, 2>>, <<0, 2>>, <<-2, 2>>>> >>
Arctic   == << <<<<8, 3>>, <<8, 6>>, <<-8, 6>>, <<-8, 3>>>> >>

NoNet == NoTopology
Net == [NoTopology EXCEPT
  !.corridorHubs = <<<<3, 3>>, <<5, 3>>>>, !.corridorEdges = <<<<1, 2>>>>,
  !.pops = <<[name |-> "north", position |-> <<7, 3>>], [name |-> "south", position |-> <<7, 0>>]>>,
  !.trunks = <<<<"north", "south">>, <<"north", "nowhere">>>>,
  !.noTransitCountries = {"Barrier"}, !.noTransitZones = {Box(5, 7, 1, 3)}]
Barrier == Land("EURASIA", "Barrier", Box(3, 5, 1, 2))

\* Everything: hubs on both shores and on the island.
Pacific2 == [
  systems  |-> <<Pacific, Branches, Loop, Ring, Arctic, Ferry>>,
  files    |-> <<Missing, File(<<<<9, 1>>, <<10, 2>>, <<-9, 1>>>>,
                     <<<<3, 0>>, <<5, 0>>, <<8, 1>>, <<10, 1>>, <<-8, 1>>, <<-5, 2>>>>)>>,
  polys    |-> <<Sliver, Asia, Island, America>>,
  topology |-> NoNet,
  links    |-> {<<<<3, 1>>, <<-5, 1>>>>, <<<<-5, 1>>, <<3, 1>>>>, <<<<4, 1>>, <<-5, 1>>>>,
                <<<<3, 1>>, <<10, 1>>>>},
  hops     |-> <<<<8, 1>>, <<>>, <<8, 1>>, <<-8, 1>>, <<10, 0>>>>]

\* A configured network around a barrier; the first file has no landing.
Corridor == [
  systems  |-> <<Ferry>>,
  files    |-> <<File(<<>>, <<<<2, 0>>>>), File(<<<<8, 0>>>>, <<<<3, 0>>, <<4, 0>>, <<7, 2>>>>)>>,
  polys    |-> <<Barrier, Asia>>,
  topology |-> Net,
  links    |-> {<<<<3, 0>>, <<7, 2>>>>, <<<<4, 3>>, <<8, 0>>>>},
  hops     |-> <<<<3, 0>>>>]

\* Landings and no inland hub: the cables alone.
Coast == [
  systems  |-> <<Pacific, Ferry>>,
  files    |-> <<Missing, File(<<<<9, 1>>>>, <<>>)>>,
  polys    |-> <<Asia, America>>,
  topology |-> NoNet,
  links    |-> {<<<<8, 1>>, <<-8, 1>>>>, <<<<3, 1>>, <<8, 1>>>>, <<<<0, -3>>, <<0, 4>>>>},
  hops     |-> <<<<8, 1>>, <<-8, 1>>>>]

MCWorlds == {Pacific2, Corridor, Coast}

\* An inland hub without a landing, bridged over the dateline and a zone there.
Facing == [
  systems  |-> <<>>,
  files    |-> <<Missing, File(<<<<8, 0>>>>, <<<<-10, 1>>>>)>>,
  polys    |-> <<Asia, America>>,
  topology |-> [NoTopology EXCEPT
                  !.corridorHubs = <<<<8, 1>>, <<9, 1>>>>, !.corridorEdges = <<<<1, 2>>>>,
                  !.noTransitZones = {Box(-12, -11, 0, 2)}],
  links    |-> {<<<<8, 1>>, <<-10, 1>>>>},
  hops     |-> <<<<8, 1>>>>]
SeamWorlds == {Facing}

\* A measured route that goes round the globe and over the dateline again.
Circled == [
  systems  |-> <<>>,
  files    |-> <<Missing, Missing>>,
  polys    |-> <<Asia, America>>,
  topology |-> NoNet,
  links    |-> {<<<<8, 1>>, <<-8, 1>>>>},
  hops     |-> <<<<8, 1>>, <<-8, 1>>, <<0, 1>>, <<8, 1>>, <<-8, 1>>>>]
RoundWorlds == {Circled}
=============================================================================
