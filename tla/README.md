# Verification of visualized-traffic-map

The program shows a home network's NetFlow records on a world map, live and in
playback. This directory holds TLA+ models of the parts of it that carry its
own logic, TLC configurations that check them, and TLAPS proofs about six of
them. Paths are relative to `src/`.

## 1. The system

```
 flowd.log / telegraf --> ingestor --> PostgreSQL flows ----> API /history /timeline
                             |  |                                   |
              flow:watermark |  +--> Redis stream flows:raw --> API /recent
                     (Redis) |  +--> Redis channel flows:live        |
                             |            |                          |
                             |       API bridge -> aggregator -> /stats
                             |            |  ^                       |
                             |            |  +-- ip_geo, ip_app maps |
                             |        broadcast -> WebSockets --> browser flow buffer
 geo-doctor, mtr-worker, sni-sniff --> ip_geo, routes, ip_app (PostgreSQL)
```

| component | state | operations | what is hard | what makes it correct |
|---|---|---|---|---|
| **ingestor** `crates/ingestor` | channel, batch, `start_watermark`, `max_recv`; Redis stream, channel and watermark, table `flows` | parse, receive, timer, flush (Redis, INSERT, SET), final flush | a thread against a `select!` loop, failure between the three awaits, restarts that re-read the log, eviction of the watermark, receive times out of order | nothing a restart skips lacks its row; rows were published first; one process stores a record once |
| **live aggregator** `crates/api/src/aggregator.rs` | ring of 600 one-second buckets, cursor | record, tick, snapshot | wrap-around, clearing, the peer cap, late-known countries | a snapshot of *w* seconds is what the flows that arrived in the last *w* seconds add up to |
| **API live feed** `crates/api/src/main.rs` | correction and app maps, broadcast, one task per socket | bridge a message, reload a map, forward, lag | lost subscription, slow clients, failed reloads, two locks per message | clients, aggregator and broadcast agree; everything comes back after a failure |
| **API queries** same file | none | recent, history, routes, stats, timeline, apps, unmatched, config | bucket arithmetic of the timeline | each answer is a function of the stores |
| **browser flow buffer** `web/src/flowStream.ts`, `App.tsx` | `flowsRef`, `liveRef`, `replaySeq`, socket, timers, requests | goLive, replay, push, start-up, connect, brush, poll | answers out of order, cancelled timers, reconnects | the map shows the stream or the replay, not a mix; a cancelled replay draws nothing |
| **flowd-parse** | cursor | read a record | truncation, unknown fields | a record is decoded completely or refused |
| **geo-doctor** | `ip_geo`, `geo_decisions` | observe, flag, relocate, self-heal | passes against traces, manual rows, audit | corrections are physically possible, audited and withdrawn when they no longer hold |
| **mtr-worker** | `routes` | pick, trace, store | failed traces, starvation | every busy destination is traced in the end |
| **sni-sniff** | `sni_log`, `ip_app`, rules | parse ClientHello, classify, roll up | bounds in the parser, two sniffers at once | a name is read only within the packet; manual rows are kept |
| **geoip**, **services** | tables | look up | overlapping prefixes | one answer per address or port |
| **cable routing** `web/src/cables.ts`, `hubs.ts`, `landmass.ts`, `geo.ts` | cable graph, land graph, joint graph, path cache | load, build, bridge, shortest path, cache | four files in any order, components kept in two ways, the antimeridian, a cache with rounded keys | a link's path is the shortest of what the complete data offers, unbroken, and ends where the link does |
| **static data loaders** `topology.ts`, `infra.ts`, `routes.ts`, `labels.ts` | what was fetched | fetch once, derive | load-once flags set before the answer, files lost half way, a language change meanwhile | routes and overlay use the same network; names are in the page's language |
| **map camera** `App.tsx` | `viewState`, `zoom`, `center`, cells of recent traffic | gesture, fly, zoom, home, mode, config, tick | what is reported and what is not, animations, rounding | the level of detail is that of the camera; names stand where the traffic is |
| **statistics panels, timeline** `App.tsx`, `Timeline.tsx` | window, bars, drag | poll, answer, drag, click | late answers, bars of another window, borders of bars | panels show the selected window; a brush replays the bars it covers |
| **rendering** | none | draw | none | none |
| **fetch-hubs** | none | one-off download | none | none |

`PROJECT.json` lists the same components with what is modelled of each, and
every hazard at its line.

## 2. The modules

| module | models | uses |
|---|---|---|
| `FlowSource` | flowd.log under `tail -F -c +1`, or telegraf's pipe (external) | |
| `Delivery` | the contract of the ingest path: an abstract specification | FlowSource |
| `Ingestor` | `crates/ingestor/src/main.rs` | FlowSource, instance of Delivery |
| `IngestorProofs` | theorems about `Ingestor` | Ingestor, TLAPS |
| `Buckets` | one second of traffic: `DataInfo`, `Bucket`, `Aggregator::record` on a bucket | |
| `SlidingWindow` | the contract of the ring: an abstract specification | Buckets |
| `Aggregator` | `Aggregator::new`, `record`, `tick`, `snapshot` | Buckets, instance of SlidingWindow |
| `MCAggregator` | seven flows for TLC, one for each direction and special case | Aggregator |
| `AggregatorProofs` | theorems about `Aggregator` | Aggregator, BasicTheorems, TLAPS |
| `BasicTheorems` | lemmas about numbers, recursion, finite sets and sums over them | TLAPS |
| `LiveFeed` | bridge, broadcast, WebSocket and refresh tasks of `crates/api/src/main.rs` | |
| `LiveFeedProofs` | theorems about `LiveFeed` | LiveFeed, TLAPS |
| `Playback` | `web/src/flowStream.ts` and the effects of `App.tsx` that call it | |
| `PlaybackProofs` | theorems about `Playback` | Playback, TLAPS |
| `Geography` | `web/src/geo.ts`, `landmass.ts`: great circles, unwrapping, polygons, zones | |
| `CableGraph` | `web/src/cables.ts`: the cable network, Dijkstra, `cableRoute` | Geography |
| `LandGraph` | `web/src/hubs.ts`: hubs, corridor, POPs, land graph, `landRoute` | CableGraph |
| `Routing` | the loaders of the four, `topology.ts`, `loadInfra`, `segmentPath`, the joint graph, `routes.ts` | LandGraph |
| `CableProofs` | theorems about the lines, the search and the ways of `CableGraph` | CableGraph, BasicTheorems, TLAPS |
| `RoutingProofs` | theorems about `Routing` | Routing, CableProofs, TLAPS |
| `MCRouting` | three worlds for TLC, and two that show a disagreement | Routing |
| `MapView` | the camera and `handleViewState` of `web/src/App.tsx` | |
| `MapLabels` | `web/src/labels.ts`, and the cells and memos of `App.tsx` that feed it | MapView |
| `Panels` | the polls of `App.tsx`, `web/src/Timeline.tsx`, `timeline_handler` of the API | |
| `MCWebPage` | camera, labels and panels together, with constants for TLC | MapLabels, Panels |
| `WebPageProofs` | theorems about `MCWebPage` | MCWebPage, BasicTheorems, TLAPS |

`<Name>_<How>` operators next to a definition, marked `mutant`, are wrong
versions of it: with one in place, TLC finds the property named for it in
`PROJECT.json` violated. No specification uses them.

### Ingestor

`pc` is where the main loop is: `select` in `tokio::select!`, then `redis`,
`insert` and `set`, the three awaits of `flush`. The parser thread is `Read`
and `ReadCorrupt`; the channel holds the records `got+1 .. pos` of the log. A
record is its place in the log; its kind says whether `to_row` makes a row of
it, whether it has a receive time, or whether the parser rejects it.
`Receive` is the whole arm of `rx.recv()`: skip, `max_recv`, `to_row`, push and
the size test, which moves to `redis` in the same step. `FlushAndExit` stands
for the final flush of the end-of-file and ctrl-c arms; `after` remembers that
the loop breaks when it returns. `Halt` is every end of the process.
Failures: a pipeline of which a prefix was executed, an INSERT that fails with
or without having committed, a SET whose error is ignored, a crash anywhere,
the eviction of the key by Redis (`allkeys-lru`), end of file, ctrl-c.

The `MAXLEN` trim of the stream is left out: `stream` is what was ever added.
A channel in the code that is full blocks the thread; here `Read` is disabled.

A failure needs `LifeLeft`, that another process may still be started: without
it the bound on processes would be the reason a record is never stored.

### Aggregator

The mutex makes every operation one step. A bucket is a record of axes, an axis
a function from the keys seen to bytes in and out. Packets, which go the same
way as bytes, and the AS number, which refines one key, are left out, as are
the ranking and the division of the snapshot. `seconds` is a history variable:
the flows that arrived in every second. The properties state what a snapshot has
to be from it, not from the buckets. How long a flow was under way is not in the
model, since `record` does not read it (see the disagreements in section 3).

### LiveFeed

A message is the address it is about. `SendRaw` is what does not parse, `Drop`
a payload that is no string. `Take` and `Send` are the two reads of
the maps, under separate locks, with the refresh tasks between them; after the
second the aggregator and the broadcast get the flow without an await in
between. The aggregator's mutex and the synchronous broadcast send are part of
that step. The broadcast is everything ever sent; what it retains are the last
`Cap`. `Load`, `LoadFails` and `Store` are the query and the assignment of a
refresh task. When the API starts, each map is what the first query gave:
the table or, if it failed, nothing. An API without a database has no
refresh tasks and empty maps; it is not a case of its own.

### Playback

JavaScript runs a callback to its end, so a callback is a step. `fetches` are
requests whose answers have not come, in no order; `timers` are the timeouts of
`replay`, which are never cleared, only ignored by number. `Select` is the
effect of `App.tsx` for a change of range or refresh interval, `Poll` its
interval, `Brush` the timeline's callback. `stage` is the asynchronous start-up.
A history answer may hold any interval of the published flows: the API answers
from a window of time that the model does not measure.

### Geography, CableGraph, LandGraph, Routing

The state is what the page has loaded and what it keeps: `topology`, `hubs`
with the file `loadHubs` is at, `cables`, `landmass`, the overlay's `infra`,
the `memo` of graphs and paths, and the measured `routes`. A step is one answer
of a file (or its absence) or one request for a path: `LoadCables`,
`LoadLandmass`, `ReadHubs`, `loadTopology`, `loadInfra`, `flowPath`,
`fetchRoutes`. `loadInfra` asks for the topology at mount, before `loadHubs`
comes to it, so the latter never waits for the answer. The algorithms are operators with the code's order of
work: systems one after the other, segments, chords, bridges, candidate rings,
bridging passes until nothing changes, a search that stops at its goal. A list
that the code filters is `Sublist`, the members at the places that stay, and one
that it sorts is given by ranks: the provers know nothing of `SelectSeq` and
`SortSeq`. The step of a loop is an operator of its own (`JoinEnd`, `AddSegment`,
`Chord`, `LinkHub`, `BridgeTo`, `MergePiece`), so that a lemma can speak of it.

Two things are abstracted. The sphere: a distance is a difference of latitudes
plus the shorter difference of longitudes, and a great circle is the straight
line the shorter way; the wrap at the dateline, the densification, the
unwrapping, ray casting and bounding boxes are the code's, on a grid of
integers. The heap of Dijkstra: the nearest open node is chosen, and nothing
depends on which one it is among equals. `world` is the data: cable systems, two
candidate hub files, polygons, topology, the links of the traffic and
measured hops. The cost cache of the cables, which only
saves time, is left out.

`Key` and `Rounded` stand for `toFixed(1)`; two links that share a key share a
path, as in the code. `landBackbone` builds with the topology that is known at
that moment and never again.

### MapView, MapLabels, Panels

React runs one callback at a time, so a step is a callback: an event, an
effect, an answer or a timer. `view.set` is the controlled `viewState`, `cam`
what deck.gl shows, `goal` where an animation goes. `told` remembers whether
deck.gl has reported the camera since the page last moved it by itself.
`labels` is the result of the `useMemo` of `App.tsx:373-376`: it is computed
again when the level of detail or the tick changes and at no other time, so a
derive shows at the next tick.
`?c=` and `?z=` of the address are read apart, so a link may give either alone.
A coordinate stands for both, with zooms in tenths (deck.gl's own limit above
is left out); the thresholds of the zoom and the sizes of the cells are the code's.

`Panels` follows one of two controls: the refresh interval with its two
panels, or the range with the timeline. The timeline's clock is that of the
database, which the API is taken to share. A row is the second it was received
in. `Slots` has the cast of a negative bucket to `usize` (0) and the free order
of `GROUP BY`'s rows, of which the last written stays.

In `MCWebPage` a behaviour follows the map or the panels while the other rests:
they share no variable and no code, so all that a product would add is orders of
independent steps.

## 3. The runs

Bounds are the `Max...` constants and the capacities given in each `.cfg`.

| run | shows | bounds, and why they are enough |
|---|---|---|
| `ingest` | type and bounds, `WatermarkCovers`, `StoredWasPublished`, `InsertedOncePerLife`, `WatermarkAdvances`, that `Ingestor` implements `Delivery`, and `EventuallyStored` | 3 records in 2 seconds: two in one second and one in another, in either order; 2 processes: one fails anywhere, one resumes from what that left; a batch of 2 fills up and a channel of 1 blocks |
| `ingest_duplicates` | a counterexample to `ResumeSkipsStored` | 2 processes |
| `aggregator` | `SnapshotMatchesHistory`, `DstAllOrNothing`, `PeerCountryKept`, and `Aggregator` implements `SlidingWindow` | a ring of 3 and 4 ticks, so that the cursor wraps and a slot is reused; 3 flows of 7 kinds; a cap of 1, reached by the second peer |
| `playback` | `NoStaleReplay`, `SocketGated`, `InOrder`, `Reconnects` | 2 flows, 2 user actions, 3 requests, so that a second replay or a return to live meets the answers and timers of the first; 2 losses of the socket, one of them while it opens again; the start-up's flows and the socket's overflow a buffer of 2 |
| `playback_pure`, `playback_late` | counterexamples | 1 flow |
| `live_feed` | `CountedIsSent`, `MissesOnlyWhenLagging`, `ClientsCatchUp`, `MapsConverge`, `Resubscribes` | a broadcast of 2 and 3 messages, so that a client falls behind; one failure (a failed query, a lost connection or a message that is no string), one edit |
| `live_feed_maps` | a counterexample to `CorrectionStays` | one failed query |
| `routing` | see below | a globe of 24 units, two shores over a dateline that a split cable crosses, an island, loops, an Arctic cable, a branching system; a corridor, POPs and trunks around a country and a zone without transit; a coast without hubs. Every order and failure of the files |
| `routing_seam` | a counterexample to `EdgesAvoidZones` | the same globe; an inland hub without a landing, bridged over the dateline, and a zone between it and the dateline |
| `routing_round` | a counterexample to `NoSeam` | the same globe; a measured route of five hops that crosses the dateline twice the same way |
| `web_page` | see below | 3 things that happen to the map (gestures, language changes, flows, failures), which is a language change between two files, or two small zooms and a jump; an address without parameters, with all and with a zoom alone; 2 that happen to the panels, on two windows of 3 bars; flows that are late, on a border and ahead of the clock |

Deadlock is checked where a model goes on for ever (`routing`, `web_page`); the
others stop when their bounds are used up.

**`routing`.** `CablesConnected`: one network whatever the data (`cables.ts:259`
says so and nothing tests it). `ComponentsAgree`: the union-find that is asked
for components agrees with the search that finds routes (`hubs.ts:327`).
`EdgesAvoidZones`: no edge that the code chose crosses a zone at any point of
its great circle; configured edges are exempt, the code does not test them. `Shortest`: the search
that stops at its goal finds what a search that never stops finds, and that
meets the triangle condition on every edge. `DrawnAsRouted`: the line on the map
is as long as the way that was chosen, up to the snapping of cable ends.
`NoSeam`: no line jumps across the map. The data of this run satisfies
`ZonesInView` and `WithinATurn` in every state, under which `EdgesAvoidZones` and
`NoSeam` are theorems (section 4); the data of `routing_seam` and of
`routing_round` does not. `CacheFinal`: what is kept is what the
complete data decides. `LinkEnds`: a shared path still ends at the link's ends.
`OverlayShowsPops`: POPs that carry routes are on the overlay, although hubs and
overlay read the topology at different times.

**`web_page`.** `LodTracks`: many small zooms do not drift away from the level
of detail. `TrafficLabelled`: at every tick, names stand where the recent
flows are and nowhere else, over three tiers and two grids. `LabelsSettle` and
`PanelsSettle`: for good, the names are in the page's language and the panels
show the selected window. `BarsCountRows`: a bar counts the flows whose receive
time lies in it, for late flows and flows on a border. `BrushReplays`: the
window that is asked for holds the bars that were brushed.

`WatermarkCovers` and `EventuallyStored` leave out late records (the collector's
clock went back), since `recv_sec < watermark` does lose those at a restart;
records behind bytes the parser rejects, since a parse error ends the thread
and the next process reads the same bytes; and records that were rotated away
before a process read them. Each exclusion is a clause of the formula.

### Disagreements with the repository's own words

* `ingest_duplicates`: a comment (`crates/ingestor/src/main.rs:205-206`) says a
  restart duplicates nothing; with `<` at line 245 the rows of the watermark's
  second are stored again.
* `playback_pure`: `flowStream.ts:180` and `146` say live is gated off during
  playback; the late answer of goLive's `/api/recent` (line 207) is not.
* `playback_late`: `App.tsx:275-276` says the live range uses the WebSocket; a
  late history answer (line 285) starts a replay in it.
* `live_feed_maps`: `crates/api/src/main.rs:36-37` calls the map the canonical
  truth; a failed query (lines 83, 111) empties it.
* `routing_seam`: `hubs.ts:182` and `263-264` say no land edge and no bridge
  crosses a no-transit barrier; `zonesBlock` drops zones by a box of the raw
  longitudes of the edge's ends (`landmass.ts:141-145`), which for an edge over
  the dateline is the other way round the globe.
* `routing_round`: `geo.ts:66-67` and `routes.ts:53-54` say that one unwrap at the
  end leaves no seam; it moves a point by one turn at most, so a line that goes
  on round the globe jumps when it comes to the dateline again.

Four more have no run of their own. A property of a passing run states or leaves
room for what the code does, so that its passing does not mean that the
repository's words hold:

* *The gauge is not weighted by duration.* `README.md:34-35` calls the live
  throughput gauge "duration-weighted, de-duplicated", and the ingestor keeps a
  flow's real duration "to spread a long flow's bytes over its lifetime instead
  of dumping them at export time" (`crates/ingestor/src/main.rs:375-379`). The
  gauge (`App.tsx:735`) shows the aggregator's snapshot, and `aggregator.rs:109`
  adds all bytes of a flow to the second in which it arrives: a flow of ten
  minutes shows as a peak in every window shorter than that.
  `SnapshotMatchesHistory`, and the theorem `SnapshotCounts`, state what the code
  does: all bytes in the second of arrival. Of the two words, "de-duplicated" is
  what they confirm, each flow being counted once.
* *The names of a zoomed-in map.* `labels.ts:88-89` says "zoomed in we show the
  full country/place set so the focused area is readable". From zoom 4.2 on the
  code names only what has traffic in its cell of 0.1 degree (lines 155 and 158),
  as the comment at lines 145-151 says. The file contradicts itself;
  `TrafficLabelled` follows the code and the second comment, and its second
  conjunct is the opposite of the first.
* *The oldest bar of a brush.* `App.tsx:442-443` says that brushing "fetches that
  absolute slice and replays it" (`README.md:32-33` likewise). A bar has the
  *end* of its bucket as its `t` (`crates/api/src/main.rs:585-610`), and
  `Timeline.tsx:94` takes it for the start: a drag leaves out its oldest bar, and
  a drag or click on the newest one asks beyond now. `BrushReplays` leaves that
  bar out; with `brush.bars` in place of `brush.bars \ {Min(brush.bars)}`, TLC
  finds a drag over two bars as a counterexample.
* *Land edges through a zone.* `hubs.ts:182` says "No land edge may cross one",
  `topology.ts:35-36` that none may pass through a country without transit.
  `buildLandGraph` takes the zones of the topology known at that moment
  (line 178); `loadTopology` returns at once to a second caller
  (`topology.ts:64`), so the hubs can be ready, and a first link be drawn, before
  the answer. That land graph has no zones and is never built again.
  `EdgesAvoidZones` is about hubs read with the topology; without the conjunct
  `hubs.corridorStart # NoCorridor`, TLC finds an edge through a zone.

### What the models showed besides

These are no disagreement with the repository's words, so no run states
them; the properties are worded around them.

* A row ahead of the database's clock replaces the count of the newest bar or is
  lost itself (`main.rs:601`; `BarsCountRows`).
* `loadLabels` for two languages at once ends in the language whose call ends
  last; a file lost after the first leaves its tier out for good, because
  `placesRaw` is no longer empty (`labels.ts:61`; `LabelsSettle`).
* A mode switch and the gateway's place move the camera without
  `handleViewState`, so labels keep to the old view until the next gesture
  (`App.tsx:410-413`); the same effect moves a page opened from a shared link
  away from the place in the link (`LodTracks` waits for `told`).
* `hubs.ts` adds corridor and POPs once for each file it reads.
* `cables.ts:255` marks a component's number as if it were a landing; harmless,
  since the numbers are not looked up again (modelled in `BridgeTo`).
* A failed `/api/routes` clears the measured routes until the next poll.
* The infrastructure layers are memoised on zoom alone (`App.tsx:383`), so they
  appear at the first zoom after `loadInfra`.

### Fairness

* `Ingestor`: weak for the thread and the awaits; strong for the arms of
  `select!`, which polls its branches in random order, so an arm that is ready
  again and again is taken in the end; weak for `Start`, the service manager's
  restart (`Restart=on-failure` in the unit, or an operator). Nothing for failures, which the
  bound on processes limits.
* `LiveFeed`: weak for each task of the tokio runtime: the bridge, each
  refresh, each socket. None for publishing, connecting or failing.
* `Playback`: weak for the event loop: requests end, timers fire, an opening
  socket opens or closes. None for the user, the server or losses.
* `MCWebPage`: weak for the 1.5 s tick, the files and answers under way (each
  ends, in an answer or an error) and the polls' intervals; the API serves what
  it is asked. None for the user, the traffic, the camera or failures.

## 4. The proofs

TLC finds no error in small instances; these theorems hold for every value of
the constants that meets the modules' assumptions, each of which says what the
constants are and no more:

* `BoundsAssumption`, `RingAssumption`, `DstCapAssumption`, `FeedAssumption`,
  `PlaybackAssumption`: bounds are natural numbers; capacities, the ring's size
  and the buffers are not zero; what is not JSON is no flow, what is no string is neither;
* `FlowsAssumption`: a flow's bytes are a natural number (they are a `u64`);
* `MapViewAssumption`, `LabelsAssumption`: places are numbers, the first
  language is one there is;
* `PanelsAssumption`: there is a window, and a window is cut into an even
  number of seconds per bar, as those of `App.tsx` are;
* `RoutingAssumption` and those of the modules below it: `Grain`, cells and
  distances are positive; the data files hold lists of points, cables with
  longitudes of half a turn at most, as GeoJSON has them; the topology names POPs
  by strings and corridor hubs by their places in the list. Whether the names and
  the places exist is not assumed: the code looks.

**IngestorProofs.** `TypeCorrect` is `TypeOK`, which is inductive by itself.
`WatermarkCovers` is not: that a mark covers follows from what the process held
when it set it. The invariant `IInv` adds

* `BatchOrdered`: the batch holds rows received by this process, in log order;
* `HighestSeen`: `max_recv` is at least every receive time received and not
  skipped, and is the resume mark or one of them;
* `Accounted`: each row received and not skipped is in the batch or stored;
* `MarksCover`, `MarksSeen`: the watermark, and the mark the process resumed
  from, cover, and some record has a time at least as high;
* `FlushProgress`: in `insert` the batch is published, in `set` it is stored;
* `PipeOnce`: with telegraf, what is stored is behind the process's cursor;
* `MarkBehind`: a mark is at most `max_recv` unless the process began at 0.

`Invariance` proves it inductive, with one step for each action; `HighestCovers`
is the heart of it: when the flush reaches the SET, `max_recv` covers.
A record emitted later cannot break a mark, since it is either late or at least
as high as all before it (`EmitKeepsCovers`). From `IInv` follow
`NothingSkippedIsLost` (`WatermarkCovers`), `PublishedFirst`
(`StoredWasPublished`), `MarkGoesForward` (`WatermarkAdvances`) and
`ImplementsDelivery` (`RefinesDelivery`): every step is a step of `Delivery` or
a stutter.

`OncePerLife` (`InsertedOncePerLife`) needs to count: `PerLife` says that a
record has at most as many copies in the table as processes were started, and
one less while the running process may still insert it, which is when it is
ahead of the process or in its batch. A flush turns the second into the first
for all the records of its batch at once.

**AggregatorProofs.** `RingIsWindow` (`RefinesSlidingWindow`): after `Tick` the
slot of age *a* is the slot that had age *a - 1* (`SlotArithmetic`), so clearing
one slot ages all the others. `CapHolds` (`TypeOK`): a bucket within the cap
stays within it when a flow is folded in (`FoldedCapped`).

The other three are about all the flows there ever were. `HistoryInv` says that
each slot is `Faithful` to the flows of its second: its totals and axes are the
sums of what those flows carry (`Counts`), its peers are counted whole and one
is missing only if the cap is reached (`CountsPeers`), and a peer's country is
one that a flow gave (`KnowsCountries`). `FoldedFaithful` carries that through
`record`, flow by flow; `SecondsAge` and `SecondsRecord` through the clock.
A snapshot adds slots up, the properties add flows up: `SecondSum` and
`HistorySum` exchange the two. `SnapshotCounts` (`SnapshotMatchesHistory`),
`PeersWhole` (`DstAllOrNothing`) and `CountriesKept` (`PeerCountryKept`) follow.

**BasicTheorems.** A fold over a finite set is defined by a choice of the order.
These lemmas show that the sum does not depend on it: one element more
(`SumAdd`), the same values (`SumSame`), by classes (`SumByClass`), under other
names (`SumRename`). They rest on induction in a form the provers can use, about
a *set* instead of a predicate: `SubsetInduction`, `ElementInduction` for finite
sets, `LeastNatural`, `UpwardInduction` for numbers. With it come the functions
that recursion defines: `RecursionExists` and `IterationExists` for steps one
after the other, `SetFoldExists` for `FoldSet`, `RankExists` for lists in order.

**PlaybackProofs.** `IInv` has, besides the properties themselves: the start-up
makes its request once (`StartOnce`); a timeout that can still fire belongs to a
replay that is on (`TimersGated`); what the socket has shown is behind its
cursor, what the replay has shown is behind its timeouts (`SocketBehind`,
`ReplayBehind`). `PushedIs` says what `push` keeps of a full buffer, an end of
what was there and what came, which is why order and gates survive the
overflow. Theorems: `TypeCorrect`, `CancelledIsGone` (`NoStaleReplay`),
`PlaybackGatesSocket` (`SocketGated`), `ShownInOrder` (`InOrder`).

**LiveFeedProofs.** For any number of clients and any capacity. `Behind`: what a
client was sent last is just behind its cursor, or it has lagged since and the
broadcast is more than a buffer ahead. Theorems: `TypeCorrect`, `PanelsAgree`
(`CountedIsSent`), `ClientsInOrder` (`MissesOnlyWhenLagging`).

**WebPageProofs.** For any windows, bars, places, rows and movements.
`MapInv`: the level of detail is within a step of the camera last reported.
`LabelsInv`: what is shown was derived from files that were read.
`PanelsInv`: every request, answer and bar is one of its window, as many seconds
apart as a bar is wide, so that what is marked spans what is asked for.
Arithmetic is where the work is: `Divided` (a window in bars and seconds),
`GroupIs` (a bucket of the SQL is the rows of the bar's seconds, late ones and
those on a border included), `CellsAreNear` (two places that round to one cell
are near). Theorems: `TypeCorrect`, `LabelsTrackCamera` (`LodTracks`),
`LabelsTellTraffic` (`TrafficLabelled`), `BarsCount` (`BarsCountRows`),
`BrushAsksForMarked` (`BrushReplays`).

**CableProofs.** The lines first: a place of any number of turns is one place
(`Same`), a great circle and what is sampled along any list of points lead from
its one end to the other (`Leads`), before and after unwrapping, and distances
do not see turns (`DistanceIs`). Those lines are recursive functions, of which
nothing is known before they are shown to exist (`RecursionExists`).

Then the search, on any graph whose edges join its nodes and have no negative
length. `TreeInv`: the distances are those of the tree that `via` is;
`SettledInv`: what is settled is nearer than what is not, and its edges have
been tried; `Depths`: a node enters the tree after the one it hangs on, so that
one can argue up the tree (`TreeInduction`). Settling the nearest open node keeps
all three (`RelaxKeeps`), and there are as many steps as nodes (`SearchEnds`). Up
the tree of either search, `StoppedIsFull` compares the one that stops with the
one that does not: a way that leaves what the first has settled leads through a
node no nearer than the goal. With `WayIs`, the edges of the way found lead to
the goal (`Leading`) and add up to the distance, follows `SearchCorrect`, from any nodes with any distances to
start with, as `cableRoute` needs it.

The last part is how `buildCableGraph` works on any data, `NetworkIsOne`. A fold
from the left is a function of the places folded so far (`FoldExists`); each of
the four that build the network gets a set its step cannot leave: `StitchFold`,
`SegmentsFold`, `ChordsFold`, `SystemsFold`, all ending in `CableGraphs`, where
landings lie in places of their own (`PlacesApart`, `LandingIs`: a place is asked
for before one is made) and edges come in both directions. `ReachableIs` is the
least set closed under the edges, `CompsAre` that the pieces part the landings.
`BridgeStep` ties one more piece to what is tied, by an edge between the nearest
two. The code also marks the landing whose *number* is that of the piece as tied
(`compOf[comp] = main`, `cables.ts:255`); the proof shows why that does no harm:
pieces are numbered in the order of their least landings, so the landing of that
number belongs to this piece, to an earlier one or to the main one, and those
are tied already.

Two properties of the map need more of the lines. *Zones*: the code first
drops the zones whose box does not meet the edge's, then tests every sample of
the edge against the others. `CircleBetween` keeps the samples between the ends
(in this model's geometry: on the sphere an edge may bulge out of that box
towards the pole, by more than the half degree the code allows), `CircleBack` finds the same samples from the
other end, `PipIs` and `PipInBox` say that a point outside the box of a ring is not
in the ring, so that an edge `zonesBlock` lets pass has no point in any zone
(`OpenIsClear`), whichever way it is travelled. *Seams*: a step of a line is
`Onward` when it leads to a projected point, or to the place it came from some
turns off. So are the steps of every leg (`LegOnward`) and of
legs put one after the other (`FlattenChained`), and then the one unwrap leaves no
gap as long as the line stays within a turn of the middle of the map (`StepRunsOn`,
`UnwrappedRunsOn`, `DensifyRunsOn`). A straight line does stay there
(`DirectStays`): its samples are so close that the unwrap finds the way again.

*Lengths*: a distance is one that does not see turns, the same both ways and no
longer than any detour (`DistanceIs`, `DistanceBack`, `DistanceVia`), and the length of a
line grows point by point (`LengthBy`). So it is the same backwards
(`LengthBack`), and that of the two parts and the step between them when lines
are joined (`LengthJoined`, `LengthFlattened`); sampling a line along its great
circles changes nothing (`LengthDensified`). Every step of the four folds also
keeps the graph `Weighed`: an edge along a cable is as long as its piece of
the cable, whose ends are within `ClusterKm` of the landings it joins; any other
edge is as long as the way from landing to landing.

**RoutingProofs.** For any data and any order of its files. First the graph over
land, `LandGraphBuilt`. `Agreeing` says that the classes of the union-find are
the pieces the edges make: they part the hubs, each is tied together by edges,
and no edge leads from one to another. `UnionsFold` gets there from single hubs,
in whatever order the edges are taken, and every bridge keeps it
(`MergeAgrees`), through a pass over the pieces (`MergesFold`) and all the passes
(`BridgePiecesAre`). The hubs of the corridor and the trunks are numbered before
it is known that they exist, so `HubsOK` only says they are numbers, and
`ForcedEdgesAre` needs the code's bounds test.

The invariant `IInv`: the topology is final once it is answered, trunks come with
it, hubs are in order (`HubsInv`), the overlay was loaded with the answered
topology, the cable graph is none or one network (`CablesInv`), and `KeptRight`
says of what `segmentPath` keeps: the graphs are the ones above; nothing is kept
before all is loaded and the land graph is built; and each kept path is what the
graphs decide for a link of its key, where a link without a way over land had the
joint graph, if there is one to build. The last clause is why a joint graph that
is built later makes nothing stale (`JointRight`): it can change the decision
only for links that have no way over land. A measured route draws its hops one
after the other, so `KeptRight` is carried along a recursive function
(`TracedRight`), which first has to be shown to exist. Theorems:

* `CacheDecided` (`CacheFinal`) and `OverlayHasPops` (`OverlayShowsPops`);
* `TypesKept` (`TypeOK`) and `NetworkStaysOne` (`CablesConnected`);
* `ClassesAgree` (`ComponentsAgree`): what a search finds from a hub is the least
  set no edge leads out of (`SearchFinds`), which `Agreeing` says the class is;
* `RoutesShortest` (`Shortest`): `SearchCorrect` for the graphs of `TypeOK`;
* `ZonesAvoided` (`EdgesAvoidZones`), under `ZonesInView`: the links of neighbours
  and the bridges are all tested (`UndirectedTested`, `LandGraphBuilt`), and the
  zones they were tested against are still the ones of the topology;
* `LinksEndRight` (`LinkEnds`): a kept path was decided for a link of the same
  key; each way of deciding, over land, by the joint graph, by cable alone or
  straight (`DecideIs`), leads from end to end (`LandWayIs`, `JointWayIs`, `DecideLeads`); and
  points of one rounding are at most `Grain - 1` apart in each coordinate
  (`RoundedNear`);
* `LinesContinuous` (`NoSeam`), under `WithinATurn`: a kept path is what one of
  these ways drew, unwrapped, so it runs on (`KeptRunsOn`). The measured route is
  put together of kept and straight paths and unwrapped once (`TracedBy`), which
  is an invariant of its own, `RoutesPutTogether`: the paths it is made of stay
  kept, or are drawn in the same state (`LinkedGrows`);
* `DrawnLength` (`DrawnAsRouted`): the joint graph is `Weighed` as the cable graph
  is. Edge by edge of the way, what is drawn up to here and on to any point is as
  long as the edges so far and the rest, up to twice what the cables used so
  far may be off (`LegDrawnIs`, `WayDrawn`). A cable drawn from its far end would
  be off by twice the distance between its ends.

`ZonesInView` and `WithinATurn` do not depend on the order of the files.
`ZonesInView` is about the hubs and zones: no zone lies beyond both hubs of a pair
that faces each other over the dateline, and no two hubs are opposite.
`WithinATurn` is about places and lines: places lie in the map, and no line, of
the graphs, kept or drawn, is a whole turn away from its middle. A line has to go
round the world to be that far out.

**Model-checked only.** Everything under fairness (`EventuallyStored`,
`Reconnects`, `ClientsCatchUp`, `MapsConverge`, `Resubscribes`, `LabelsSettle`,
`PanelsSettle`): liveness and `ENABLED` are out of the prover's reach. And of
`Routing`, that data satisfies `ZonesInView` and `WithinATurn`. Not all does:
`routing_seam` and `routing_round` are the counterexamples. TLC finds both true
in every state of the worlds that `routing` checks, so neither theorem is empty.

## 5. Plan

In order, each with its runs and, where it says so, its proofs:

1. `GeoDoctor` with `MtrWorker`: observe, flag, relocate, self-heal, trace;
   corrections never on manual rows, withdrawn when no longer justified, every
   busy destination traced in the end, starved by failing traces or not;
2. `SniSniff`: the roll-up of `sni_log`, two sniffers at once, the ClientHello
   parser as operators over bounded inputs, checked against the format;
3. `FlowdParse`: `read_record` and the field decoder, checked against a
   reference definition, truncation included;
4. `Pipeline`: ingestor, live feed and page composed: what reaches the map on
   neither way between the recent answer and the open socket, end to end.

## 6. Not modelled

* The services around the store: geo-doctor, mtr-worker, sni-sniff, flowd-parse
  (see the plan), MaxMind and port lookups, `fetch-hubs`, SQL planning and
  PostgreSQL's own recovery.
* Rendering, wording and colours, the day and night line, the dashboard of
  `SniffnetView.tsx`, the dragging of panels, the street tiles of `layers.ts`
  (what is drawn depends on deck.gl's cache of tiles), the particles' ages and
  filters of `MapCanvas.tsx`.
* Of what is modelled: spherical geometry (see above); measured routes beyond one
  (`routes.ts:36` takes up to 300, one like the other: they share only what
  `segmentPath` keeps, which `CacheFinal` and `LinkEnds` are about); the clones of heavy
  flows, LAN scatter and DDoS score of `flowStream.ts`; the switch for labels,
  the cap of 700 towns, the glyph set and the search of `labels.ts`; the
  overlay's drawing in `infra.ts`; `/api/unmatched` and the counts of
  `App.tsx`; what the page keeps in `localStorage`.

The rows of `PROJECT.json` give the status and the reason for each component.
