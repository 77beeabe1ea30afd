---------------------------- MODULE WebPageProofs ----------------------------
(***************************************************************************)
(* Proofs about MCWebPage for any windows, bars, places, rows and          *)
(* movements of the camera: the labels follow the camera and the traffic,  *)
(* the bars count the rows and a brush asks for what was marked.           *)
(***************************************************************************)
EXTENDS MCWebPage, BasicTheorems, SequenceTheorems, FiniteSetTheorems, TLAPS

\* The larger and the smaller of two integers.
LEMMA MaxPair ==
  ASSUME NEW x \in Int, NEW y \in Int
  PROVE  Max({x, y}) = IF x >= y THEN x ELSE y
<1> DEFINE m == IF x >= y THEN x ELSE y
<1>1. m \in {x, y} /\ \A z \in {x, y} : m >= z
  OBVIOUS
<1>2. \A n \in {x, y} : (\A z \in {x, y} : n >= z) => n = m
  OBVIOUS
<1> QED
  BY <1>1, <1>2 DEF Max

LEMMA MinPair ==
  ASSUME NEW x \in Int, NEW y \in Int
  PROVE  Min({x, y}) = IF x =< y THEN x ELSE y
<1> DEFINE m == IF x =< y THEN x ELSE y
<1>1. m \in {x, y} /\ \A z \in {x, y} : m =< z
  OBVIOUS
<1>2. \A n \in {x, y} : (\A z \in {x, y} : n =< z) => n = m
  OBVIOUS
<1> QED
  BY <1>1, <1>2 DEF Min

----------------------------------------------------------------------------
(***************************************************************************)
(* The camera and the level of detail.                                     *)
(***************************************************************************)

Cam == [at : Int, zoom : Nat]

\* The level of detail is the camera's once it was reported.
Tracks(l, cam) ==
  /\ l.zoom - cam.zoom \in -1..1
  /\ l.center = Round(cam.at, CenterCell)

MapInv ==
  /\ mapActs \in 0..MaxMapActs /\ mode \in {"2d", "3d"} /\ told \in BOOLEAN
  /\ home \in Homes \cup {0} /\ link \in Links
  /\ view \in [set : Cam, cam : Cam, goal : Cam]
  /\ lod \in [zoom : Nat, center : Int]
  /\ told => Tracks(lod, view.cam)

LEMMA Rounds ==
  ASSUME NEW x \in Int
  PROVE  Round(x, CenterCell) \in Int
BY DEF Round, CenterCell

LEMMA Distances ==
  ASSUME NEW x \in Int, NEW y \in Int
  PROVE  Distance(x, y) = IF x >= y THEN x - y ELSE y - x
<1>1. x - y \in Int /\ y - x \in Int
  OBVIOUS
<1> QED
  BY <1>1, MaxPair DEF Distance

\* A report of the camera brings the level of detail to it.
LEMMA Reported ==
  ASSUME MapInv, NEW cam \in Cam, NEW goal \in Cam, handleViewState(cam, goal)
  PROVE  /\ view' \in [set : Cam, cam : Cam, goal : Cam]
         /\ lod' \in [zoom : Nat, center : Int]
         /\ told' = TRUE /\ Tracks(lod', view'.cam)
<1>1. view' = [set |-> cam, cam |-> cam, goal |-> goal] /\ told' = TRUE
  BY DEF handleViewState
<1>2. cam.at \in Int /\ cam.zoom \in Nat /\ lod.zoom \in Nat
  BY DEF Cam, MapInv
<1>3. lod' = [zoom |-> IF Distance(cam.zoom, lod.zoom) > 1 THEN cam.zoom ELSE lod.zoom,
              center |-> Round(cam.at, CenterCell)]
  BY DEF handleViewState, Lod
<1>4. Round(cam.at, CenterCell) \in Int
  BY <1>2, Rounds
<1>5. Distance(cam.zoom, lod.zoom) =
        IF cam.zoom >= lod.zoom THEN cam.zoom - lod.zoom ELSE lod.zoom - cam.zoom
  BY <1>2, Distances
<1>6. lod'.zoom \in Nat /\ lod'.zoom - cam.zoom \in -1..1
  BY <1>2, <1>3, <1>5
<1> QED
  BY <1>1, <1>3, <1>4, <1>6 DEF Tracks

\* Where the page puts the camera itself.
LEMMA InitialCam ==
  ASSUME link \in Links, NEW m, NEW h \in Int
  PROVE  initialViewState(m, h) \in Cam
BY MapViewAssumption DEF initialViewState, Cam

LEMMA MapInitial == MapInit => MapInv
<1> SUFFICES ASSUME MapInit PROVE MapInv
  OBVIOUS
<1>1. initialViewState(mode, 0) \in Cam
  BY InitialCam DEF MapInit
<1>2. mode \in {"2d", "3d"}
  BY MapViewAssumption DEF MapInit
<1>3. view \in [set : Cam, cam : Cam, goal : Cam]
  BY <1>1 DEF MapInit, At
<1>4. lod \in [zoom : Nat, center : Int] /\ mapActs \in 0..MaxMapActs
  BY MapViewAssumption DEF MapInit
<1>5. told = FALSE /\ home \in Homes \cup {0} /\ link \in Links
  BY DEF MapInit
<1> QED
  BY <1>2, <1>3, <1>4, <1>5 DEF MapInv

\* One step per movement of the camera.
LEMMA CameraStep == MapInv /\ Camera => MapInv'
<1> SUFFICES ASSUME MapInv, Camera
             PROVE  MapInv'
  OBVIOUS
<1>1. /\ view.set \in Cam /\ view.cam \in Cam /\ view.goal \in Cam
      /\ view \in [set : Cam, cam : Cam, goal : Cam]
      /\ lod \in [zoom : Nat, center : Int]
      /\ home \in Int
  BY MapViewAssumption DEF MapInv
<1>2. MapAct => mapActs' \in 0..MaxMapActs
  BY MapViewAssumption DEF MapAct, MapInv
<1>3. ASSUME NEW goal \in Cam, SetOut(goal)
      PROVE  view' \in [set : Cam, cam : Cam, goal : Cam] /\ view'.cam = view.cam
  BY <1>1, <1>3 DEF SetOut
<1>4. ASSUME NEW cam \in Cam, SetAtOnce(cam)
      PROVE  view' \in [set : Cam, cam : Cam, goal : Cam] /\ told' = FALSE
  BY <1>4 DEF SetAtOnce, At
<1>5. CASE Gesture
  <2>1. PICK dx \in Drags \cup {0}, dz \in Pinches \cup {0} :
          handleViewState([at |-> view.cam.at + dx, zoom |-> Max({0, view.cam.zoom + dz})],
                          [at |-> view.cam.at + dx, zoom |-> Max({0, view.cam.zoom + dz})])
    BY <1>5 DEF Gesture
  <2>2. /\ view.cam.at + dx \in Int /\ view.cam.zoom + dz \in Int
    BY <1>1, MapViewAssumption DEF Cam
  <2>3. Max({0, view.cam.zoom + dz}) \in Nat
    BY <2>2, MaxPair
  <2>4. [at |-> view.cam.at + dx, zoom |-> Max({0, view.cam.zoom + dz})] \in Cam
    BY <2>2, <2>3 DEF Cam
  <2>5. /\ view' \in [set : Cam, cam : Cam, goal : Cam]
        /\ lod' \in [zoom : Nat, center : Int]
        /\ told' = TRUE /\ Tracks(lod', view'.cam)
    BY <2>1, <2>4, Reported
  <2> QED
    BY <1>2, <1>5, <2>5 DEF Gesture, MapInv, Tracks
<1>6. CASE flyTo
  <2>1. PICK at \in Targets : SetOut([at |-> at, zoom |-> 45])
    BY <1>6 DEF flyTo
  <2>2. [at |-> at, zoom |-> 45] \in Cam
    BY MapViewAssumption DEF Cam
  <2> QED
    BY <1>2, <1>3, <1>6, <2>1, <2>2 DEF flyTo, MapInv, Tracks
<1>7. CASE zoomBy
  <2>1. PICK d \in {-10, 10} : SetOut([view.set EXCEPT !.zoom = Zoomed(view.set.zoom + d)])
    BY <1>7 DEF zoomBy
  <2>2. view.set.zoom + d \in Int
    BY <1>1 DEF Cam
  <2>3. Min({180, view.set.zoom + d}) \in Int
    BY <2>2, MinPair
  <2>4. Zoomed(view.set.zoom + d) \in Nat
    <3> DEFINE low == Min({180, view.set.zoom + d})
    <3>1. Zoomed(view.set.zoom + d) = Max({0, low})
      BY DEF Zoomed
    <3> HIDE DEF low
    <3> QED
      BY <2>3, <3>1, MaxPair DEF low
  <2>5. [view.set EXCEPT !.zoom = Zoomed(view.set.zoom + d)] \in Cam
    BY <1>1, <2>4 DEF Cam
  <2> QED
    BY <1>2, <1>3, <1>7, <2>1, <2>5 DEF zoomBy, MapInv, Tracks
<1>8. CASE goHome
  <2> DEFINE low == IF mode = "3d" THEN 16 ELSE 30
             goal == [at |-> home, zoom |-> Max({view.set.zoom, low})]
  <2>1. Max({view.set.zoom, low}) \in Nat
    BY <1>1, MaxPair DEF Cam
  <2>2. goal \in Cam
    BY <1>1, <2>1 DEF Cam
  <2>3. SetOut(goal)
    BY <1>8 DEF goHome
  <2> HIDE DEF goal
  <2> QED
    BY <1>2, <1>3, <1>8, <2>2, <2>3 DEF goHome, MapInv, Tracks
<1>9. CASE Frame
  <2> DEFINE Way(share) ==
        [at   |-> view.cam.at + (share * (view.goal.at - view.cam.at)) \div 2,
         zoom |-> view.cam.zoom + (share * (view.goal.zoom - view.cam.zoom)) \div 2]
  <2>1. \E share \in {1, 2} : handleViewState(Way(share), view.goal)
    BY <1>9 DEF Frame
  <2>2. PICK share \in {1, 2} : handleViewState(Way(share), view.goal)
    BY <2>1
  <2>3. Way(share) \in Cam
    <3>1. /\ view.cam.at \in Int /\ view.goal.at \in Int
          /\ view.cam.zoom \in Nat /\ view.goal.zoom \in Nat
      BY <1>1 DEF Cam
    <3>2. \A c, g \in Int : c + (share * (g - c)) \div 2 \in Int
      OBVIOUS
    <3>3. \A c, g \in Nat : c + (share * (g - c)) \div 2 \in Nat
      OBVIOUS
    <3> QED
      BY <3>1, <3>2, <3>3 DEF Cam
  <2> HIDE DEF Way
  <2>4. /\ view' \in [set : Cam, cam : Cam, goal : Cam]
        /\ lod' \in [zoom : Nat, center : Int]
        /\ told' = TRUE /\ Tracks(lod', view'.cam)
    BY <1>1, <2>2, <2>3, Reported
  <2> QED
    BY <1>9, <2>4 DEF Frame, MapInv, Tracks
<1>10. CASE SwitchMode
  <2>1. link' = link /\ home' = home /\ lod' = lod /\ mode' \in {"2d", "3d"}
    BY <1>10 DEF SwitchMode
  <2>2. initialViewState(mode', home) \in Cam
    BY <1>1, InitialCam DEF MapInv
  <2>3. SetAtOnce(initialViewState(mode', home))
    BY <1>10 DEF SwitchMode
  <2>4. view' \in [set : Cam, cam : Cam, goal : Cam] /\ told' = FALSE
    BY <1>4, <2>2, <2>3
  <2>5. mapActs' \in 0..MaxMapActs
    BY <1>2, <1>10 DEF SwitchMode
  <2> QED
    BY <1>1, <2>1, <2>4, <2>5 DEF MapInv
<1>11. CASE Config
  <2> DEFINE there == [view.set EXCEPT !.at = home']
  <2>1. /\ home' \in Homes /\ UNCHANGED <<mapActs, link, mode, lod>>
        /\ SetAtOnce(there) \/ (SetOut(there) /\ UNCHANGED told)
    BY <1>11 DEF Config
  <2>2. there \in Cam
    BY <1>1, <2>1, MapViewAssumption DEF Cam
  <2> HIDE DEF there
  <2>3. CASE SetAtOnce(there)
    BY <1>1, <1>4, <2>1, <2>2, <2>3 DEF MapInv
  <2>4. CASE SetOut(there) /\ UNCHANGED told
    BY <1>1, <1>3, <2>1, <2>2, <2>4 DEF MapInv, Tracks
  <2> QED
    BY <2>1, <2>3, <2>4
<1> QED
  BY <1>5, <1>6, <1>7, <1>8, <1>9, <1>10, <1>11 DEF Camera

----------------------------------------------------------------------------
(***************************************************************************)
(* The labels.                                                             *)
(***************************************************************************)

Call == [field : Langs, file : DOMAIN NextFile]

LabelsInv ==
  /\ lang \in Langs /\ raw \subseteq DOMAIN NextFile
  /\ lost \in BOOLEAN /\ raced \in BOOLEAN
  /\ calls \in Seq(Call)
  /\ derived.field \in Langs \cup {AnyLang} /\ derived.of \subseteq raw \ {"towns"}
  /\ traffic \subseteq Ends
  /\ \A l \in labels : l.kind \in {"place", "country", "town"}

LEMMA LabelKinds ==
  \A l, cells : \A n \in labelLayers(l, cells) : n.kind \in {"place", "country", "town"}
BY DEF labelLayers, Names

\* Deriving the names from the files read so far.
LEMMA DerivedOf ==
  ASSUME LabelsInv, NEW field \in Langs, NEW files, raw \subseteq files
  PROVE  /\ Derived(field, files).field \in Langs \cup {AnyLang}
         /\ Derived(field, files).of \subseteq files \ {"towns"}
BY DEF LabelsInv, Derived, derive

LEMMA Removed ==
  ASSUME NEW S, NEW s \in Seq(S), NEW i \in DOMAIN s
  PROVE  RemoveAt(s, i) \in Seq(S)
<1>1. Len(s) \in Nat /\ i \in 1..Len(s)
  BY LenProperties
<1>2. SubSeq(s, 1, i - 1) \in Seq(S) /\ SubSeq(s, i + 1, Len(s)) \in Seq(S)
  BY <1>1
<1> QED
  BY <1>2 DEF RemoveAt

LEMMA LabelsInitial == LabelsInit => LabelsInv
<1> SUFFICES ASSUME LabelsInit PROVE LabelsInv
  OBVIOUS
<1>1. calls \in Seq(Call)
  BY LabelsAssumption DEF LabelsInit, Call, NextFile
<1> QED
  BY <1>1, LabelsAssumption DEF LabelsInit, LabelsInv

\* One step per action that touches the labels.
LEMMA LabelsStep ==
  ASSUME LabelsInv,
         MoveCamera \/ SetLang \/ loadLabels \/ FlowSeen \/ FlowAges \/ Tick
  PROVE  LabelsInv'
<1>1. CASE MoveCamera
  BY <1>1, LabelKinds DEF MoveCamera, LabelsInv
<1>2. CASE SetLang
  <2>1. lang' \in Langs /\ UNCHANGED <<raw, traffic, labels, lost>>
    BY <1>2 DEF SetLang
  <2>2. raced' \in BOOLEAN
    BY <1>2, Zenon DEF SetLang
  <2>3. calls' \in Seq(Call)
    <3>1. [field |-> lang', file |-> "places"] \in Call
      BY <2>1 DEF Call, NextFile
    <3>2. calls' = calls \/ calls' = Append(calls, [field |-> lang', file |-> "places"])
      BY <1>2 DEF SetLang
    <3> QED
      BY <3>1, <3>2, AppendProperties DEF LabelsInv
  <2>4. derived'.field \in Langs \cup {AnyLang} /\ derived'.of \subseteq raw \ {"towns"}
    <3>1. derived' = derived \/ derived' = Derived(lang', raw)
      BY <1>2 DEF SetLang
    <3> QED
      BY <2>1, <3>1, DerivedOf DEF LabelsInv
  <2> QED
    BY <2>1, <2>2, <2>3, <2>4 DEF LabelsInv
<1>3. CASE loadLabels
  <2>0. UNCHANGED <<lang, traffic, labels, raced>>
    BY <1>3 DEF loadLabels
  <2>1. PICK i \in DOMAIN calls : FileRead(i) \/ FileLost(i)
    BY <1>3 DEF loadLabels
  <2>2. calls[i] \in Call /\ RemoveAt(calls, i) \in Seq(Call)
    <3>1. calls \in Seq(Call)
      BY DEF LabelsInv
    <3> QED
      BY <3>1, Removed, ElementOfSeq, LenProperties
  <2>3. CASE FileRead(i)
    <3>1. raw' = raw \cup {calls[i].file} /\ lost' = lost
      BY <2>3 DEF FileRead
    <3>2. raw' \subseteq DOMAIN NextFile
      BY <2>2, <3>1 DEF Call, LabelsInv
    <3>3. CASE calls[i].file = "towns"
      <4>1. derived' = Derived(calls[i].field, raw') /\ calls' = RemoveAt(calls, i)
        BY <2>3, <3>3 DEF FileRead
      <4>2. derived'.field \in Langs \cup {AnyLang} /\ derived'.of \subseteq raw' \ {"towns"}
        BY <2>2, <3>1, <4>1, DerivedOf DEF Call
      <4> QED
        BY <2>0, <2>2, <3>1, <3>2, <4>1, <4>2 DEF LabelsInv
    <3>4. CASE calls[i].file # "towns"
      <4> DEFINE next == [calls[i] EXCEPT !.file = NextFile[@]]
      <4>1. derived' = derived /\ calls' = [calls EXCEPT ![i] = next]
        BY <2>3, <3>4 DEF FileRead
      <4>2. next \in Call
        BY <2>2, <3>4 DEF Call, NextFile
      <4> HIDE DEF next
      <4>3. calls' \in Seq(Call)
        <5>1. i \in 1..Len(calls) /\ calls \in Seq(Call)
          BY LenProperties DEF LabelsInv
        <5> QED
          BY <4>1, <4>2, <5>1, ExceptSeq
      <4> QED
        BY <2>0, <3>1, <3>2, <4>1, <4>3 DEF LabelsInv
    <3> QED
      BY <3>3, <3>4
  <2>4. CASE FileLost(i)
    BY <2>0, <2>2, <2>4 DEF FileLost, LabelsInv
  <2> QED
    BY <2>1, <2>3, <2>4
<1>4. CASE FlowSeen
  BY <1>4 DEF FlowSeen, LabelsInv
<1>5. CASE FlowAges
  BY <1>5 DEF FlowAges, LabelsInv
<1>6. CASE Tick
  BY <1>6, LabelKinds DEF Tick, LabelsInv
<1> QED
  BY <1>1, <1>2, <1>3, <1>4, <1>5, <1>6

\* Cells are intervals: ends of one fine cell are in the same coarse cell or in
\* adjacent ones, and what is in a cell, or in one next to it, is not far.
LEMMA CellsAreNear ==
  ASSUME NEW x \in Int, NEW y \in Int
  PROVE  /\ Round(x, FineCell) = Round(y, FineCell) =>
              /\ Distance(x, y) < FineCell
              /\ \E d \in -1..1 : Round(x, CoarseCell) + d = Round(y, CoarseCell)
         /\ \A d \in -1..1 : Round(x, CoarseCell) + d = Round(y, CoarseCell) =>
              Distance(x, y) < 2 * CoarseCell
         /\ FineCell < 2 * CoarseCell
<1>1. Distance(x, y) = IF x >= y THEN x - y ELSE y - x
  BY Distances
<1>2. /\ Round(x, FineCell) = (x + 1) \div 2 /\ Round(y, FineCell) = (y + 1) \div 2
      /\ Round(x, CoarseCell) = (x + 30) \div 60 /\ Round(y, CoarseCell) = (y + 30) \div 60
  BY DEF Round, FineCell, CoarseCell
<1>3. Round(x, FineCell) = Round(y, FineCell) => Distance(x, y) < 2
  BY <1>1, <1>2
<1>4. Round(x, FineCell) = Round(y, FineCell) =>
        \E d \in -1..1 : Round(x, CoarseCell) + d = Round(y, CoarseCell)
  <2> DEFINE d == (y + 30) \div 60 - (x + 30) \div 60
  <2>1. (x + 1) \div 2 = (y + 1) \div 2 => d \in -1..1
    OBVIOUS
  <2>2. (x + 30) \div 60 + d = (y + 30) \div 60
    OBVIOUS
  <2> HIDE DEF d
  <2> QED
    BY <1>2, <2>1, <2>2
<1>5. \A d \in -1..1 : Round(x, CoarseCell) + d = Round(y, CoarseCell) => Distance(x, y) < 120
  BY <1>1, <1>2
<1> QED
  BY <1>3, <1>4, <1>5 DEF FineCell, CoarseCell

\* What a tick labels.
LEMMA TickLabels ==
  ASSUME MapInv, LabelsInv, Tick
  PROVE  /\ \A p \in Places :
              /\ "places" \in derived.of /\ lod.zoom >= HideBelow /\ Revealed(p, lod.zoom)
              /\ \E e \in traffic : Round(e, FineCell) = Round(p.at, FineCell)
              => [at |-> p.at, kind |-> "place", field |-> derived.field] \in labels'
         /\ \A l \in labels' : \E e \in traffic :
              Distance(e, l.at) < IF lod.zoom >= ZoomedIn THEN FineCell ELSE 2 * CoarseCell
<1> DEFINE near(at) == IF lod.zoom >= ZoomedIn THEN cellNearFine(Cells.fine, at)
                       ELSE cellNear(Cells.coarse, at)
           far == IF lod.zoom >= ZoomedIn THEN FineCell ELSE 2 * CoarseCell
<1>1. labels' = labelLayers(lod, Cells)
  BY DEF Tick
<1>2. lod.zoom \in Nat /\ traffic \subseteq Int
  BY LabelsAssumption DEF MapInv, LabelsInv
<1>3. \A p \in Places \cup Countries \cup Towns : p.at \in Int
  BY LabelsAssumption
<1>4. /\ Cells.coarse = {Round(e, CoarseCell) : e \in traffic}
      /\ Cells.fine = {Round(e, FineCell) : e \in traffic}
  BY DEF Cells
<1>5. ASSUME NEW p \in Places, "places" \in derived.of, lod.zoom >= HideBelow,
             Revealed(p, lod.zoom),
             \E e \in traffic : Round(e, FineCell) = Round(p.at, FineCell)
      PROVE  [at |-> p.at, kind |-> "place", field |-> derived.field] \in labels'
  <2>1. PICK e \in traffic : Round(e, FineCell) = Round(p.at, FineCell)
    BY <1>5
  <2>2. cellNearFine(Cells.fine, p.at)
    BY <1>4, <2>1 DEF cellNearFine
  <2>3. cellNear(Cells.coarse, p.at)
    <3>1. \E d \in -1..1 : Round(p.at, CoarseCell) + d = Round(e, CoarseCell)
      BY <1>2, <1>3, <2>1, CellsAreNear
    <3> QED
      BY <1>4, <3>1 DEF cellNear
  <2>4. near(p.at)
    BY <2>2, <2>3
  <2>5. lod.zoom \in Nat /\ ~(lod.zoom < HideBelow)
    BY <1>2, <1>5 DEF HideBelow
  <2> QED
    BY <1>1, <1>5, <2>4, <2>5 DEF labelLayers, Names
<1>6. ASSUME NEW at \in Int, near(at)
      PROVE  \E e \in traffic : Distance(e, at) < far
  <2>1. CASE lod.zoom >= ZoomedIn
    <3>1. PICK e \in traffic : Round(at, FineCell) = Round(e, FineCell)
      BY <1>4, <1>6, <2>1 DEF cellNearFine
    <3> QED
      BY <1>2, <2>1, <3>1, CellsAreNear
  <2>2. CASE ~(lod.zoom >= ZoomedIn)
    <3>1. PICK e \in traffic : \E d \in -1..1 : Round(at, CoarseCell) + d = Round(e, CoarseCell)
      BY <1>4, <1>6, <2>2 DEF cellNear
    <3>2. Distance(at, e) < 2 * CoarseCell
      BY <1>2, <3>1, CellsAreNear
    <3>3. e \in Int /\ at \in Int
      BY <1>2
    <3>4. Distance(at, e) = Distance(e, at)
      <4>1. Distance(at, e) = IF at >= e THEN at - e ELSE e - at
        BY <3>3, Distances
      <4>2. Distance(e, at) = IF e >= at THEN e - at ELSE at - e
        BY <3>3, Distances
      <4> QED
        BY <3>3, <4>1, <4>2
    <3> QED
      BY <2>2, <3>2, <3>4
  <2> QED
    BY <2>1, <2>2
<1>7. ASSUME NEW l \in labels'
      PROVE  l.at \in Int /\ near(l.at)
  <2>1. \/ \E p \in Places \cup Countries : l.at = p.at /\ near(p.at)
        \/ \E t \in Towns : /\ l.at = t.at /\ lod.zoom >= TownMin
                            /\ cellNearFine(Cells.fine, t.at)
    BY <1>1 DEF labelLayers, Names
  <2>2. lod.zoom >= TownMin => lod.zoom >= ZoomedIn
    BY <1>2 DEF TownMin, ZoomedIn
  <2> QED
    BY <1>3, <2>1, <2>2
<1> QED
  BY <1>5, <1>6, <1>7

----------------------------------------------------------------------------
(***************************************************************************)
(* The bars of the timeline and the brush.                                 *)
(***************************************************************************)

\* A window is its bars, and a bar is an even number of seconds.
LEMMA Widths ==
  ASSUME NEW w \in Windows
  PROVE  w \div Bars \in Nat \ {0} /\ Bars * (w \div Bars) = w
<1>1. Bars \in Nat \ {0} /\ w \in Nat \ {0} /\ w % (2 * Bars) = 0
  BY PanelsAssumption
<1> DEFINE two == 2 * Bars
           q == w \div two
<1>2. two \in Nat \ {0} /\ w % two = 0
  BY <1>1
<1>3. q \in Nat /\ w = two * q
  <2> HIDE DEF two
  <2> QED
    BY <1>1, <1>2
<1>4. q \in Nat \ {0} /\ (2 * q) * Bars = w
  BY <1>1, <1>3
<1> HIDE DEF q, two
<1>5. w \div Bars = 2 * q
  BY <1>1, <1>4, Divided, SMTT(30)
<1> QED
  BY <1>1, <1>4, <1>5

\* The bars of a window of w seconds, a bar's width apart.
Spaced(w, ps) ==
  /\ Len(ps) = Bars
  /\ \E c \in Int : \A k \in 1..Bars : ps[k].t = c - (Bars - k) * (w \div Bars)

LEMMA Apart ==
  ASSUME NEW w \in Windows, NEW ps, Spaced(w, ps), NEW i \in 1..Bars, NEW j \in 1..Bars
  PROVE  /\ ps[i].t \in Int /\ ps[j].t \in Int
         /\ i < j => ps[i].t + w \div Bars <= ps[j].t
<1> DEFINE width == w \div Bars
<1>1. width \in Nat \ {0} /\ Bars \in Nat
  BY Widths, PanelsAssumption
<1>2. PICK c \in Int : \A k \in 1..Bars : ps[k].t = c - (Bars - k) * width
  BY DEF Spaced
<1> HIDE DEF width
<1>3. ps[i].t = c - (Bars - i) * width /\ ps[j].t = c - (Bars - j) * width
  BY <1>2
<1>4. (Bars - i) * width \in Int /\ (Bars - j) * width \in Int
  BY <1>1
<1>5. ASSUME i < j
      PROVE  ps[i].t + width <= ps[j].t
  <2>1. (Bars - i) * width = (Bars - j) * width + (j - i) * width
    BY <1>1
  <2>2. (j - i) * width >= width
    <3>1. j - i \in Nat /\ j - i >= 1
      BY <1>1, <1>5
    <3> QED
      BY <1>1, <3>1
  <2> QED
    BY <1>1, <1>3, <1>4, <2>1, <2>2
<1> QED
  BY <1>3, <1>4, <1>5 DEF width

----------------------------------------------------------------------------
\* A request: of the timeline, what it was answered with spans its window.
Request(r) ==
  /\ r = [panel |-> r.panel, window |-> r.window, points |-> r.points]
  /\ r.panel \in Panels /\ r.window \in Windows
  /\ r.points # None => r.panel = "timeline" /\ Spaced(r.window, r.points)

\* What BrushReplays says of a brush, once one was made.
Replays(b) ==
  LET w == b.window
      Whole(t) == w.from <= t - b.width /\ t <= w.to
  IN  /\ w.from < w.to
      /\ IF Cardinality(b.bars) = 1
         THEN b.fresh => \A t \in b.bars : Whole(t)
         ELSE \A t \in b.bars \ {Min(b.bars)} : Whole(t)

PanelsInv ==
  /\ panelActs \in 0..MaxPanelActs /\ clock \in 0..MaxClock
  /\ rows \subseteq RowTimes
  /\ control \in DOMAIN PanelsOf
  /\ chosen \in Windows /\ timers \subseteq Windows
  /\ shown \in [Panels -> Windows \cup {None}]
  /\ \A r \in reqs : Request(r)
  /\ \/ pts = <<>>
     \/ control = "range" /\ shown["timeline"] \in Windows /\ Spaced(shown["timeline"], pts)
  /\ drag \in 1..Bars \cup {None}
  /\ drag # None => control = "range"
  /\ brush # None => Replays(brush)

\* A bar in seconds is the width of the bars, if they are of the selected range.
LEMMA BarSeconds ==
  ASSUME PanelsInv, Len(pts) = Bars
  PROVE  BucketS = chosen \div Bars /\ BucketS \in Nat \ {0}
<1>1. Bars \in Nat \ {0} /\ chosen \in Windows
  BY PanelsAssumption DEF PanelsInv
<1>2. Max({1, Bars}) = Bars
  BY <1>1, MaxPair
<1>3. chosen \div Bars \in Nat \ {0}
  BY <1>1, Widths
<1> QED
  BY <1>2, <1>3 DEF BucketS

\* A click asks for its bar's bucket whole.
LEMMA ClickReplays ==
  ASSUME PanelsInv, Spaced(shown["timeline"], pts), shown["timeline"] \in Windows,
         NEW a \in 1..Bars
  PROVE  Replays(Brushed(Clicked(a), {a}))
<1> DEFINE b == Brushed(Clicked(a), {a})
           t == pts[a].t
           B == BucketS
           widest == Max({chosen \div 12, 3 * B})
           half == widest \div 2
<1>1. t \in Int
  BY Apart
<1>2. B = chosen \div Bars /\ B \in Nat \ {0}
  BY BarSeconds DEF Spaced
<1>3. half \in Nat /\ half >= B
  <2>1. chosen \div 12 \in Nat
    BY PanelsAssumption DEF PanelsInv
  <2>2. 3 * B \in Nat /\ B \in Nat \ {0}
    BY <1>2
  <2> HIDE DEF B
  <2>3. widest = IF chosen \div 12 >= 3 * B THEN chosen \div 12 ELSE 3 * B
    BY <2>1, <2>2, MaxPair
  <2>4. widest \in Nat /\ widest >= 3 * B
    BY <2>1, <2>2, <2>3
  <2> HIDE DEF widest
  <2> QED
    BY <2>2, <2>4
<1>4. /\ b.window = [from |-> t - half, to |-> t + half + B]
      /\ b.bars = {t}
      /\ b.width = shown["timeline"] \div Bars
      /\ b.fresh <=> shown["timeline"] = chosen
  BY Zenon DEF Brushed, Clicked
<1>5. b.fresh => b.width = B
  BY <1>2, <1>4
<1>6. Cardinality(b.bars) = 1
  BY <1>4, FS_Singleton
<1> HIDE DEF b, t, B, half
<1>7. b.window.from < b.window.to
  BY <1>1, <1>2, <1>3, <1>4
<1>8. ASSUME b.fresh, NEW x \in b.bars
      PROVE  b.window.from <= x - b.width /\ x <= b.window.to
  BY <1>1, <1>2, <1>3, <1>4, <1>5, <1>8
<1>9. Replays(b)
  BY <1>6, <1>7, <1>8, Zenon DEF Replays
<1> QED
  BY <1>9 DEF b

\* A drag asks for every bar it marks, whole, but the oldest one's bucket.
LEMMA DragReplays ==
  ASSUME PanelsInv, Spaced(shown["timeline"], pts), shown["timeline"] \in Windows,
         NEW x \in 1..Bars, NEW y \in 1..Bars, x # y
  PROVE  Replays(Brushed(Dragged(x, y), Min({y, x})..Max({y, x})))
<1> DEFINE lo == Min({y, x})
           hi == Max({y, x})
           b == Brushed(Dragged(x, y), lo..hi)
           W == shown["timeline"] \div Bars
           B == BucketS
<1>1. lo \in 1..Bars /\ hi \in 1..Bars /\ lo < hi
  BY MaxPair, MinPair, PanelsAssumption
<1>2. Min({x, y}) = lo /\ Max({x, y}) = hi
  <2>1. {x, y} = {y, x}
    OBVIOUS
  <2> QED
    BY <2>1
<1>3. W \in Nat \ {0}
  BY Widths
<1>4. B \in Nat \ {0}
  BY BarSeconds DEF Spaced
<1>5. /\ b.window = [from |-> pts[lo].t, to |-> pts[hi].t + B]
      /\ b.bars = {pts[k].t : k \in lo..hi}
      /\ b.width = W
  BY <1>2, Zenon DEF Brushed, Dragged
<1> HIDE DEF b, W, B, lo, hi
<1>6. pts[lo].t \in Int /\ pts[hi].t \in Int /\ pts[lo].t + W <= pts[hi].t
  BY <1>1, Apart DEF W
<1>7. b.window.from < b.window.to
  BY <1>3, <1>4, <1>5, <1>6
<1>8. pts[lo].t \in b.bars /\ pts[hi].t \in b.bars /\ pts[lo].t # pts[hi].t
  BY <1>1, <1>3, <1>5, <1>6, PanelsAssumption
<1>9. Cardinality(b.bars) # 1
  <2>1. ASSUME Cardinality(b.bars) = 1
        PROVE  FALSE
    <3>1. IsFiniteSet(b.bars)
      <4> DEFINE marks == [k \in lo..hi |-> pts[k].t]
      <4>1. IsFiniteSet(lo..hi)
        BY <1>1, FS_Interval
      <4>2. marks \in Surjection(lo..hi, b.bars)
        BY <1>5 DEF Surjection
      <4> QED
        BY <4>1, <4>2, FS_Surjection
    <3>2. \E z : b.bars = {z}
      BY <2>1, <3>1, FS_Singleton
    <3> QED
      BY <1>8, <3>2
  <2> QED
    BY <2>1
<1>10. Min(b.bars) = pts[lo].t
  <2>1. \A z \in b.bars : pts[lo].t <= z /\ z \in Int
    <3>1. ASSUME NEW k \in lo..hi
          PROVE  pts[lo].t <= pts[k].t /\ pts[k].t \in Int
      <4>1. k \in 1..Bars /\ (k = lo \/ lo < k)
        BY <1>1, PanelsAssumption
      <4> QED
        BY <1>1, <1>3, <1>6, <4>1, Apart DEF W
    <3> QED
      BY <1>5, <3>1
  <2>2. \A m \in b.bars : (\A z \in b.bars : m <= z) => m = pts[lo].t
    BY <1>6, <1>8, <2>1
  <2> QED
    BY <1>8, <2>1, <2>2 DEF Min
<1>11. ASSUME NEW z \in b.bars, z # pts[lo].t
       PROVE  b.window.from <= z - b.width /\ z <= b.window.to
  <2>1. PICK k \in lo..hi : z = pts[k].t
    BY <1>5
  <2>2. k \in 1..Bars /\ lo < k /\ (k = hi \/ k < hi)
    BY <1>1, <1>11, <2>1, PanelsAssumption
  <2>3. pts[k].t \in Int /\ pts[lo].t + W <= pts[k].t
    BY <1>1, <2>2, Apart DEF W
  <2>4. pts[k].t <= pts[hi].t
    <3>1. k < hi => pts[k].t + W <= pts[hi].t
      BY <1>1, <2>2, Apart DEF W
    <3> QED
      BY <1>3, <1>6, <2>2, <2>3, <3>1
  <2> QED
    BY <1>3, <1>4, <1>5, <1>6, <2>1, <2>3, <2>4
<1>12. Replays(b)
  BY <1>7, <1>9, <1>10, <1>11, Zenon DEF Replays
<1> QED
  BY <1>12 DEF b, lo, hi

\* The shortest window.
LEMMA ShortestWindow == Min(Windows) \in Windows
<1>1. Windows \subseteq Nat /\ Windows # {}
  BY PanelsAssumption
<1>2. \E m \in Windows : \A w \in Windows : m <= w
  BY <1>1, LeastNatural
<1> QED
  BY <1>2 DEF Min

\* Whatever is asked for is a request that is not answered yet.
LEMMA Asked ==
  ASSUME NEW w \in Windows
  PROVE  \A r \in Ask(w) : Request(r)
BY DEF Ask, Request

LEMMA PanelsInitial == PanelsInit => PanelsInv
<1> SUFFICES ASSUME PanelsInit PROVE PanelsInv
  OBVIOUS
<1>1. rows \subseteq RowTimes
  BY DEF PanelsInit
<1>2. \A r \in reqs : Request(r)
  BY Asked DEF PanelsInit
<1> QED
  BY <1>1, <1>2, PanelsAssumption DEF PanelsInit, PanelsInv

LEMMA PanelsResting == PanelsAtRest => PanelsInv
<1> SUFFICES ASSUME PanelsAtRest PROVE PanelsInv
  OBVIOUS
<1>1. chosen \in Windows
  BY ShortestWindow DEF PanelsAtRest
<1> QED
  BY <1>1, PanelsAssumption DEF PanelsAtRest, PanelsInv, PanelsOf

\* The rows a bar stands for.
Of(t, w) == {u \in rows : u \in t - w \div Bars + 1..t}
\* A bar counts them; the newest one does once no row is ahead of the clock.
CountsRows(r) ==
  \A k \in 1..Bars :
    (k = Bars => \A t \in rows : t <= clock) =>
      r.points[k].n = Cardinality(Of(r.points[k].t, r.window))

\* The group of a bucket is the rows of its seconds.
LEMMA GroupIs ==
  ASSUME PanelsInv, NEW w \in Windows, NEW q \in 0..Bars - 1
  PROVE  Group(q, w \div Bars, w) = Cardinality(Of(clock - q * (w \div Bars), w))
<1> DEFINE W == w \div Bars
           mine == {t \in rows : t > clock - w /\ BucketOf(t, W) = q}
<1>1. W \in Nat \ {0} /\ Bars * W = w /\ Bars \in Nat
  BY Widths, PanelsAssumption
<1>2. clock \in Int /\ rows \subseteq Int
  BY PanelsAssumption DEF PanelsInv
<1> HIDE DEF W
<1>3. q * W \in Nat /\ q * W + W <= w
  <2>1. (q + 1) * W <= Bars * W
    <3>1. Bars - (q + 1) \in Nat /\ Bars = (q + 1) + (Bars - (q + 1))
      BY <1>1
    <3>2. Bars * W = (q + 1) * W + (Bars - (q + 1)) * W
      BY <1>1
    <3>3. (Bars - (q + 1)) * W \in Nat
      BY <1>1, <3>1
    <3> QED
      BY <1>1, <3>2, <3>3
  <2>2. (q + 1) * W = q * W + W /\ q * W \in Nat
    BY <1>1
  <2> QED
    BY <1>1, <2>1, <2>2
<1>4. ASSUME NEW t \in rows
      PROVE  t \in mine <=> t \in Of(clock - q * W, w)
  <2>1. t \in Int /\ clock - t \in Int
    BY <1>2
  <2>2. BucketOf(t, W) = q <=> q * W <= clock - t /\ clock - t < q * W + W
    BY <1>1, <2>1, Divided DEF BucketOf
  <2> DEFINE low == q * W
  <2>3. t \in Of(clock - low, w) <=> t \in clock - low - W + 1..clock - low
    BY DEF Of, W
  <2> HIDE DEF low
  <2>4. BucketOf(t, W) = q <=> low <= clock - t /\ clock - t < low + W
    BY <2>2 DEF low
  <2>5. low \in Nat /\ low + W <= w /\ w \in Nat
    BY <1>1, <1>3, PanelsAssumption DEF low
  <2>6. t \in mine <=> t > clock - w /\ BucketOf(t, W) = q
    OBVIOUS
  <2> HIDE DEF mine
  <2>7. t \in mine <=> t \in Of(clock - low, w)
    BY <1>1, <1>2, <2>1, <2>3, <2>4, <2>5, <2>6
  <2> QED
    BY <2>7 DEF low
<1>5. mine \subseteq rows /\ Of(clock - q * W, w) \subseteq rows
  BY DEF Of
<1>6. mine = Of(clock - q * W, w)
  <2> HIDE DEF mine
  <2> QED
    BY <1>4, <1>5
<1>7. Group(q, W, w) = Cardinality(mine)
  BY Zenon DEF Group
<1> QED
  BY <1>6, <1>7 DEF W

\* What timeline_handler answers: the bars of the window, counting its rows.
LEMMA Served ==
  ASSUME PanelsInv, NEW r \in reqs, r.panel = "timeline", timeline_handler(r)
  PROVE  \E s : /\ reqs' = (reqs \ {r}) \cup {s}
                /\ Request(s) /\ CountsRows(s)
<1> DEFINE w == r.window
           W == w \div Bars
<1>1. Request(r) /\ w \in Windows /\ "timeline" \in Panels
  BY DEF PanelsInv, Request
<1>2. PICK slots \in Slots(W, w) :
        reqs' = (reqs \ {r}) \cup
          {[r EXCEPT !.points = [k \in 1..Bars |->
              [t |-> clock - (Bars - k) * W, n |-> slots[Bars - k]]]]}
  BY DEF timeline_handler
<1> DEFINE ps == [k \in 1..Bars |-> [t |-> clock - (Bars - k) * W, n |-> slots[Bars - k]]]
           s == [r EXCEPT !.points = ps]
<1>3. s = [panel |-> "timeline", window |-> w, points |-> ps]
  <2> HIDE DEF ps, w
  <2>1. r = [panel |-> "timeline", window |-> w, points |-> r.points]
    BY <1>1 DEF Request, w
  <2> QED
    BY <2>1
<1>4. Bars \in Nat /\ clock \in Int
  BY PanelsAssumption DEF PanelsInv
<1>5. Spaced(w, ps)
  <2>1. Len(ps) = Bars
    BY <1>4
  <2>2. \A k \in 1..Bars : ps[k].t = clock - (Bars - k) * W
    OBVIOUS
  <2> HIDE DEF ps
  <2> QED
    BY <1>4, <2>1, <2>2 DEF Spaced
<1>6. Request(s)
  <2> HIDE DEF ps, w, s
  <2> QED
    BY <1>1, <1>3, <1>5 DEF Request
<1>7. CountsRows(s)
  <2> DEFINE ahead  == {BucketOf(t, W) : t \in {u \in rows : u > clock}}
             newest == IF ahead # {} /\ Group(0, W, w) = 0 THEN ahead ELSE ahead \cup {0}
  <2>1. PICK b \in newest :
          slots = [i \in 0..Bars - 1 |-> Group(IF i = 0 THEN b ELSE i, W, w)]
    BY DEF Slots
  <2>2. ASSUME NEW k \in 1..Bars, k = Bars => \A t \in rows : t <= clock
        PROVE  ps[k].n = Cardinality(Of(ps[k].t, w))
    <3> DEFINE q == Bars - k
    <3>1. q \in 0..Bars - 1 /\ (q = 0 => k = Bars)
      BY <1>4
    <3>2. q = 0 => b = 0
      <4>0. \A u \in rows : u \in Int
        BY PanelsAssumption DEF PanelsInv
      <4>1. q = 0 => {u \in rows : u > clock} = {}
        <5> HIDE DEF q, ps, newest, W, w
        <5> QED
          BY <1>4, <2>2, <3>1, <4>0
      <4>2. q = 0 => ahead = {}
        BY <4>1
      <4> HIDE DEF ahead
      <4> QED
        BY <2>1, <4>2
    <3>3. ps[k].n = slots[q] /\ ps[k].t = clock - q * W
      OBVIOUS
    <3> HIDE DEF ps, newest, W, w, q
    <3>4. slots[q] = Group(q, W, w)
      BY <2>1, <3>1, <3>2
    <3>5. Group(q, W, w) = Cardinality(Of(clock - q * W, w))
      BY <1>1, <3>1, GroupIs DEF W
    <3> QED
      BY <3>3, <3>4, <3>5
  <2> HIDE DEF ps, w, s
  <2>3. s.points = ps /\ s.window = w
    BY <1>3
  <2> QED
    BY <2>2, <2>3 DEF CountsRows
<1>8. reqs' = (reqs \ {r}) \cup {s}
  BY <1>2
<1> QED
  BY <1>6, <1>7, <1>8

\* One step per action of the panels.
PanelsAct ==
  \/ Select \/ Poll \/ Serve \/ Miss \/ Stored \/ Second \/ down \/ up
  \/ \E p \in Panels, w \in Windows : Answer(p, w)

LEMMA PanelsStep == PanelsInv /\ PanelsAct => PanelsInv'
<1> SUFFICES ASSUME PanelsInv, PanelsAct
             PROVE  PanelsInv'
  OBVIOUS
<1>1. MaxPanelActs \in Nat /\ MaxClock \in Nat /\ Bars \in Nat \ {0}
  BY PanelsAssumption
<1>2. PanelAct => panelActs' \in 0..MaxPanelActs
  BY <1>1 DEF PanelAct, PanelsInv
<1>3. control' = control /\ Panels' = Panels /\ \A r : Request(r)' <=> Request(r)
  <2>1. control' = control
    BY DEF PanelsAct, Select, Poll, Serve, Miss, Stored, Second, down, up, Answer
  <2> QED
    BY <2>1 DEF Panels, Request
<1>4. \A b : Replays(b)' <=> Replays(b)
  BY DEF Replays
<1>5. CASE Select
  <2>1. PICK w \in Windows : /\ chosen' = w /\ timers' = Cleared(w)
                             /\ reqs' = reqs \cup Ask(w)
    BY <1>5 DEF Select
  <2>2. \A r \in reqs' : Request(r)
    BY <2>1, Asked DEF PanelsInv
  <2> QED
    BY <1>2, <1>3, <1>4, <1>5, <2>1, <2>2 DEF Select, Cleared, PanelsInv
<1>6. CASE Poll
  <2>1. PICK w \in timers : reqs' \subseteq reqs \cup Ask(w)
    BY <1>6 DEF Poll
  <2>2. \A r \in reqs' : Request(r)
    BY <2>1, Asked DEF PanelsInv
  <2> QED
    BY <1>3, <1>4, <1>6, <2>2 DEF Poll, PanelsInv
<1>7. CASE Serve
  <2>1. PICK r \in reqs : r.panel = "timeline" /\ timeline_handler(r)
    BY <1>7 DEF Serve
  <2>2. \A q \in reqs' : Request(q)
    BY <2>1, Served DEF PanelsInv
  <2> QED
    BY <1>3, <1>4, <1>7, <2>2 DEF Serve, PanelsInv
<1>8. CASE Miss
  BY <1>2, <1>3, <1>4, <1>8 DEF Miss, PanelsInv
<1>9. CASE Stored
  BY <1>2, <1>3, <1>4, <1>9 DEF Stored, PanelsInv
<1>10. CASE Second
  <2>1. clock' \in 0..MaxClock
    BY <1>1, <1>10 DEF Second, PanelsInv
  <2> QED
    BY <1>3, <1>4, <1>10, <2>1 DEF Second, PanelsInv
<1>11. CASE down
  BY <1>2, <1>3, <1>4, <1>11 DEF down, PanelsInv
<1>12. CASE up
  <2>1. drag \in 1..Bars /\ drag' = None
    BY <1>12 DEF up, PanelsInv
  <2>2. ASSUME pts # <<>>
        PROVE  Spaced(shown["timeline"], pts) /\ shown["timeline"] \in Windows
    BY <2>2 DEF PanelsInv
  <2>3. brush' # None => Replays(brush')
    <3>1. PICK a \in 1..Bars :
            \/ pts = <<>> /\ UNCHANGED brush
            \/ pts # <<>> /\ brush' = Brushed(Clicked(a), {a})
            \/ /\ pts # <<>> /\ a # drag
               /\ brush' = Brushed(Dragged(drag, a), Min({a, drag})..Max({a, drag}))
      BY <1>12, Zenon DEF up
    <3>2. CASE pts = <<>> /\ UNCHANGED brush
      BY <3>2 DEF PanelsInv
    <3>3. CASE pts # <<>> /\ brush' = Brushed(Clicked(a), {a})
      BY <2>2, <3>3, ClickReplays
    <3>4. CASE /\ pts # <<>> /\ a # drag
               /\ brush' = Brushed(Dragged(drag, a), Min({a, drag})..Max({a, drag}))
      BY <2>1, <2>2, <3>4, DragReplays
    <3> QED
      BY <3>1, <3>2, <3>3, <3>4
  <2> QED
    BY <1>3, <1>4, <1>12, <2>1, <2>3 DEF up, PanelsInv
<1>13. ASSUME NEW p \in Panels, NEW w \in Windows, Answer(p, w)
       PROVE  PanelsInv'
  <2>1. PICK r \in reqs :
          /\ r.panel = p /\ r.window = w
          /\ p = "timeline" => r.points # None
          /\ reqs' = reqs \ {r}
          /\ shown' = [shown EXCEPT ![p] = w]
          /\ pts' = IF p = "timeline" THEN r.points ELSE pts
    BY <1>13 DEF Answer
  <2>2. Request(r) /\ \A q \in reqs' : Request(q)
    BY <2>1 DEF PanelsInv
  <2>3. shown' \in [Panels -> Windows \cup {None}]
    BY <2>1 DEF PanelsInv
  <2>4. \/ pts' = <<>>
        \/ control = "range" /\ shown'["timeline"] \in Windows
           /\ Spaced(shown'["timeline"], pts')
    <3>1. CASE p = "timeline"
      <4>1. Spaced(w, r.points) /\ pts' = r.points
        BY <2>1, <2>2, <3>1 DEF Request
      <4>2. shown'["timeline"] = w
        BY <2>1, <3>1 DEF PanelsInv
      <4>3. control = "range"
        BY <3>1 DEF Panels, PanelsOf, PanelsInv
      <4> QED
        BY <4>1, <4>2, <4>3
    <3>2. CASE p # "timeline"
      <4>1. pts' = pts /\ (shown'["timeline"] = shown["timeline"] \/ control # "range")
        BY <2>1, <3>2 DEF PanelsInv, Panels, PanelsOf
      <4> QED
        BY <4>1 DEF PanelsInv
    <3> QED
      BY <3>1, <3>2
  <2>5. Spaced(shown["timeline"], pts)' <=> Spaced(shown'["timeline"], pts')
    BY DEF Spaced
  <2> QED
    BY <1>3, <1>4, <1>13, <2>2, <2>3, <2>4, <2>5 DEF Answer, PanelsInv
<1> QED
  BY <1>5, <1>6, <1>7, <1>8, <1>9, <1>10, <1>11, <1>12, <1>13 DEF PanelsAct

----------------------------------------------------------------------------
(***************************************************************************)
(* The page: a step of one part leaves the others as they are.             *)
(***************************************************************************)

IInv == MapInv /\ LabelsInv /\ PanelsInv

LEMMA Resting == MapAtRest => MapInv /\ LabelsInv
<1> SUFFICES ASSUME MapAtRest PROVE MapInv /\ LabelsInv
  OBVIOUS
<1>1. MapInv
  BY MapInitial DEF MapAtRest
<1>2. calls \in Seq(Call)
  BY DEF MapAtRest
<1>3. derived.field = lang /\ derived.of \subseteq raw \ {"towns"}
  BY DEF MapAtRest, derive
<1> QED
  BY <1>1, <1>2, <1>3, LabelsAssumption DEF MapAtRest, LabelsInv

\* What happens to the map and the labels.
MapStep == MoveCamera \/ SetLang \/ loadLabels \/ FlowSeen \/ FlowAges \/ Tick

LEMMA Parts ==
  ASSUME Next
  PROVE  \/ MapStep /\ UNCHANGED <<part, panelVars>>
         \/ PanelsAct /\ UNCHANGED <<part, mapVars, labelVars>>
BY Zenon DEF Next, OnMap, OnPanels, MapStep, PanelsAct

LEMMA MapStepKeeps == MapInv /\ MapStep => MapInv'
<1> SUFFICES ASSUME MapInv, MapStep PROVE MapInv'
  OBVIOUS
<1>1. CASE MoveCamera
  BY <1>1, CameraStep DEF MoveCamera
<1>2. CASE SetLang \/ loadLabels \/ FlowSeen \/ FlowAges \/ Tick
  <2>1. UNCHANGED <<link, mode, home, view, lod, told>>
    BY <1>2 DEF SetLang, loadLabels, FlowSeen, FlowAges, Tick, mapVars
  <2>2. mapActs' = mapActs \/ MapAct
    BY <1>2 DEF SetLang, loadLabels, FileRead, FileLost, FlowSeen, FlowAges, Tick, mapVars
  <2>3. mapActs' \in 0..MaxMapActs
    BY <2>2, MapViewAssumption DEF MapAct, MapInv
  <2> QED
    BY <2>1, <2>3 DEF MapInv, Tracks
<1> QED
  BY <1>1, <1>2 DEF MapStep

LEMMA MapSame == MapInv /\ UNCHANGED mapVars => MapInv'
BY DEF MapInv, mapVars, Tracks

LEMMA LabelsSame == LabelsInv /\ UNCHANGED labelVars => LabelsInv'
BY DEF LabelsInv, labelVars

LEMMA PanelsSame == PanelsInv /\ UNCHANGED panelVars => PanelsInv'
<1> SUFFICES ASSUME PanelsInv, UNCHANGED panelVars PROVE PanelsInv'
  OBVIOUS
<1>1. Panels' = Panels /\ (\A r : Request(r)' <=> Request(r)) /\ (\A b : Replays(b)' <=> Replays(b))
  BY DEF panelVars, Panels, Request, Replays
<1> QED
  BY <1>1 DEF PanelsInv, panelVars

LEMMA IInvStep == IInv /\ [Next]_vars => IInv'
<1> SUFFICES ASSUME IInv, [Next]_vars PROVE IInv'
  OBVIOUS
<1>1. CASE MapStep /\ UNCHANGED <<part, panelVars>>
  <2>1. MapInv'
    BY <1>1, MapStepKeeps DEF IInv
  <2>2. LabelsInv'
    BY <1>1, LabelsStep DEF IInv, MapStep
  <2> QED
    BY <1>1, <2>1, <2>2, PanelsSame DEF IInv
<1>2. CASE PanelsAct /\ UNCHANGED <<part, mapVars, labelVars>>
  BY <1>2, MapSame, LabelsSame, PanelsStep DEF IInv
<1>3. CASE UNCHANGED vars
  BY <1>3, MapSame, LabelsSame, PanelsSame DEF IInv, vars
<1> QED
  BY <1>1, <1>2, <1>3, Parts

THEOREM Invariance == Spec => []IInv
<1>1. Init => IInv
  BY MapInitial, LabelsInitial, PanelsInitial, PanelsResting, Resting DEF Init, IInv
<1> QED
  BY <1>1, IInvStep, PTL DEF Spec

----------------------------------------------------------------------------
(***************************************************************************)
(* The properties.                                                         *)
(***************************************************************************)

\* The state of the page has its types: the timeline has all its bars or none
\* (Timeline.tsx), an answer a panel shows is of a window on offer, and names are
\* derived from files that were read (labels.ts:58-74).
THEOREM TypeCorrect == Spec => []TypeOK
<1>1. IInv => TypeOK
  <2> SUFFICES ASSUME IInv PROVE TypeOK
    OBVIOUS
  <2>1. MapTypeOK
    BY DEF IInv, MapInv, MapTypeOK, Cam
  <2>2. LabelsTypeOK
    <3>1. \A c \in ToSet(calls) : c \in Call
      BY ElementOfSeq, LenProperties DEF IInv, LabelsInv, ToSet
    <3> QED
      BY <3>1 DEF IInv, LabelsInv, LabelsTypeOK, Call
  <2>3. PanelsTypeOK
    BY PanelsAssumption DEF IInv, PanelsInv, PanelsTypeOK, Request, Spaced
  <2> QED
    BY <2>1, <2>2, <2>3 DEF TypeOK
<1> QED
  BY <1>1, Invariance, PTL

\* Once the camera was reported, the labels are laid out for what it shows, however
\* many small movements led there (App.tsx:427).
THEOREM LabelsTrackCamera == Spec => []LodTracks
<1>1. IInv => LodTracks
  <2> SUFFICES ASSUME IInv, told PROVE /\ Distance(lod.zoom, view.cam.zoom) <= 1
                                       /\ lod.center = Round(view.cam.at, CenterCell)
    BY DEF LodTracks
  <2>1. Tracks(lod, view.cam) /\ lod.zoom \in Nat /\ view.cam.zoom \in Nat
    BY DEF IInv, MapInv, Cam
  <2>2. Distance(lod.zoom, view.cam.zoom) =
          IF lod.zoom >= view.cam.zoom THEN lod.zoom - view.cam.zoom
                                       ELSE view.cam.zoom - lod.zoom
    <3>1. lod.zoom \in Int /\ view.cam.zoom \in Int
      BY <2>1
    <3> QED
      BY <3>1, Distances, Zenon
  <2>3. lod.zoom - view.cam.zoom \in -1..1 /\ lod.center = Round(view.cam.at, CenterCell)
    BY <2>1 DEF Tracks
  <2> QED
    BY <2>1, <2>2, <2>3
<1> QED
  BY <1>1, Invariance, PTL

\* A brush asks for a window that is not empty and holds what was marked
\* (Timeline.tsx:86-97), whatever the answers that came between the mouse's down
\* and up.
THEOREM BrushAsksForMarked == Spec => []BrushReplays
<1>1. IInv => BrushReplays
  BY Zenon DEF IInv, PanelsInv, Replays, BrushReplays
<1> QED
  BY <1>1, Invariance, PTL

\* A bar of the timeline counts the rows of its own seconds, each row in one bar
\* (main.rs:586-610), whatever the clocks do.
THEOREM BarsCount == Spec => BarsCountRows
<1> DEFINE A == \A r \in reqs' \ reqs : r.points # None =>
                  \A k \in 1..Bars :
                    (k = Bars => \A t \in rows : t <= clock) =>
                      r.points[k].n = Cardinality({t \in rows :
                        t \in r.points[k].t - r.window \div Bars + 1..r.points[k].t})
<1>1. IInv /\ [Next]_vars => [A]_panelVars
  <2> SUFFICES ASSUME IInv, [Next]_vars, NEW r \in reqs' \ reqs, r.points # None
               PROVE  CountsRows(r)
    BY DEF CountsRows, Of
  <2>1. ~ UNCHANGED panelVars
    BY DEF panelVars
  <2>2. PanelsAct
    BY <2>1, Parts DEF vars
  <2>3. CASE Serve
    <3>1. PICK q \in reqs : q.panel = "timeline" /\ timeline_handler(q)
      BY <2>3 DEF Serve
    <3> QED
      BY <3>1, Served DEF IInv
  <2>4. CASE Select \/ Poll
    <3>1. PICK w : reqs' \subseteq reqs \cup Ask(w)
      BY <2>4 DEF Select, Poll
    <3> QED
      BY <3>1 DEF Ask
  <2>5. CASE Miss \/ Stored \/ Second \/ down \/ up \/ \E p \in Panels, w \in Windows : Answer(p, w)
    BY <2>5 DEF Miss, Stored, Second, down, up, Answer
  <2> QED
    BY <2>2, <2>3, <2>4, <2>5 DEF PanelsAct
<1>2. Spec => [][A]_panelVars
  BY <1>1, Invariance, PTL DEF Spec
<1> QED
  BY <1>2, PTL DEF BarsCountRows

\* A tick names every place that is revealed and has a recent flow in its fine
\* cell, and puts no name where the last minute has no flow (labels.ts:87-149).
THEOREM LabelsTellTraffic == Spec => TrafficLabelled
<1> DEFINE A ==
      Tick =>
        /\ \A p \in Places :
             /\ "places" \in derived.of /\ lod.zoom >= HideBelow /\ Revealed(p, lod.zoom)
             /\ \E e \in traffic : Round(e, FineCell) = Round(p.at, FineCell)
             => [at |-> p.at, kind |-> "place", field |-> derived.field] \in labels'
        /\ \A l \in labels' : \E e \in traffic :
             Distance(e, l.at) < IF lod.zoom >= ZoomedIn THEN FineCell ELSE 2 * CoarseCell
<1>1. IInv => A
  BY TickLabels DEF IInv
<1>2. IInv /\ [Next]_vars => [A]_labelVars
  BY <1>1
<1>3. Spec => [][A]_labelVars
  BY <1>2, Invariance, PTL DEF Spec
<1> QED
  BY <1>3 DEF TrafficLabelled
=============================================================================
