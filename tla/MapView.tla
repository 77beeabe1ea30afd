------------------------------- MODULE MapView -------------------------------
(***************************************************************************)
(* The camera of the map and the level of detail that follows it           *)
(* (App.tsx:159, 391-440).  deck.gl reports every movement of the camera   *)
(* to handleViewState; what the page sets itself (a mode switch, the       *)
(* gateway's place from /api/config) is not reported until the camera      *)
(* moves again, and what it animates (flyTo, zoomBy) is reported frame by  *)
(* frame.  Zooms are in tenths; a place is one coordinate in twentieths of *)
(* a degree, the other following the same rules.                           *)
(***************************************************************************)
EXTENDS Integers, FiniteSetsExt

CONSTANTS
  Links,      \* addresses to open the page with, by their ?c=, ?z=, ?view=: [at, zoom, mode]
  Absent,     \* an at or a zoom that the address does not give
  Homes,      \* where /api/config may place the gateway
  Targets,    \* places the search flies to
  Drags,      \* how far a drag moves the camera
  Pinches,    \* by how much a gesture zooms
  MaxMapActs  \* bound: what the user, the traffic and a failing network do

ASSUME MapViewAssumption ==
  /\ Drags \cup Pinches \cup Homes \cup Targets \subseteq Int
  /\ \A l \in Links : /\ l.at \in Int \cup {Absent} /\ l.zoom \in Nat \cup {Absent}
                      /\ l.mode \in {"2d", "3d"}
  /\ MaxMapActs \in Nat

VARIABLES
  mapActs, \* the bound's counter
  link,    \* the address the page was opened with
  mode,    \* "2d" or "3d"
  home,    \* the gateway's place, 0 until /api/config has one
  view,    \* set: viewState; cam: the camera of deck.gl; goal: where it is going
  lod,     \* zoom and center: what the labels are laid out for
  told     \* whether the camera was reported since the page last set it itself
mapVars == <<mapActs, link, mode, home, view, lod, told>>

\* Math.round of x / c.
Round(x, c) == (x + c \div 2) \div c
CenterCell == 4   \* 0.2 degree
Distance(x, y) == Max({x - y, y - x})

initialViewState(m, h) ==
  [at   |-> IF link.at # Absent THEN link.at ELSE h,
   zoom |-> IF link.zoom # Absent THEN link.zoom ELSE IF m = "3d" THEN 6 ELSE 16]

At(cam) == [set |-> cam, cam |-> cam, goal |-> cam]

MapInit ==
  /\ mapActs = 0
  /\ link \in Links
  /\ mode = link.mode
  /\ home = 0
  /\ view = At(initialViewState(mode, 0))
  /\ lod = [zoom |-> 16, center |-> 0]
  /\ told = FALSE

\* One more thing happens to the map.
MapAct == mapActs < MaxMapActs /\ mapActs' = mapActs + 1

-----------------------------------------------------------------------------
\* mutant: the distance from the last report counts, not from the last layout
Lod_FromLastView(old, cam) ==
  [zoom   |-> IF Distance(cam.zoom, view.cam.zoom) > 1
              THEN cam.zoom ELSE old.zoom,
   center |-> Round(cam.at, CenterCell)]
\* The level of detail follows a zoom by more than 0.15, and the center by cells.
Lod(old, cam) ==
  [zoom   |-> IF Distance(cam.zoom, old.zoom) > 1
              THEN cam.zoom ELSE old.zoom,
   center |-> Round(cam.at, CenterCell)]

handleViewState(cam, goal) ==
  /\ lod' = Lod(lod, cam)
  /\ view' = [set |-> cam, cam |-> cam, goal |-> goal]
  /\ told' = TRUE

\* A drag, a wheel or a pinch: it also ends an animation.
Gesture ==
  /\ MapAct
  /\ \E dx \in Drags \cup {0}, dz \in Pinches \cup {0} :
       LET cam == [at |-> view.cam.at + dx, zoom |-> Max({0, view.cam.zoom + dz})]
       IN  handleViewState(cam, cam)
  /\ UNCHANGED <<link, mode, home>>

\* What the page sets with a transition: the camera sets out for it.
SetOut(goal) == view' = [view EXCEPT !.set = goal, !.goal = goal]
flyTo ==
  /\ MapAct
  /\ \E at \in Targets : SetOut([at |-> at, zoom |-> 45])
  /\ UNCHANGED <<link, mode, home, lod, told>>
Zoomed_Raw(z) == z   \* mutant
Zoomed(z) == Max({0, Min({180, z})})
zoomBy ==
  /\ MapAct
  /\ \E d \in {-10, 10} :
       SetOut([view.set EXCEPT !.zoom = Zoomed(view.set.zoom + d)])
  /\ UNCHANGED <<link, mode, home, lod, told>>
goHome ==
  /\ MapAct
  /\ SetOut([at |-> home, zoom |-> Max({view.set.zoom, IF mode = "3d" THEN 16 ELSE 30})])
  /\ UNCHANGED <<link, mode, home, lod, told>>

\* deck.gl reports the end of the animation, after one frame half way or none
\* (external; the bound of one keeps the animations short).
Frame ==
  /\ view.cam # view.goal
  /\ \E share \in IF view.set = view.cam THEN {2} ELSE {1, 2} :
       handleViewState(
         [at   |-> view.cam.at + (share * (view.goal.at - view.cam.at)) \div 2,
          zoom |-> view.cam.zoom + (share * (view.goal.zoom - view.cam.zoom)) \div 2],
         view.goal)
  /\ UNCHANGED <<mapActs, link, mode, home>>

\* The effects that set the camera at once.
SetAtOnce(cam) == view' = At(cam) /\ told' = FALSE

SwitchMode ==
  /\ MapAct
  /\ mode' = IF mode = "2d" THEN "3d" ELSE "2d"
  /\ SetAtOnce(initialViewState(mode', home))
  /\ UNCHANGED <<link, home, lod>>

\* /api/config: the camera goes to the gateway, whatever it shows; with the
\* transition of an animation that has only just been asked for.
Config ==
  /\ home = 0
  /\ home' \in Homes
  /\ LET there == [view.set EXCEPT !.at = home']
     IN  IF view.set = view.cam THEN SetAtOnce(there)
         ELSE SetOut(there) /\ UNCHANGED told
  /\ UNCHANGED <<mapActs, link, mode, lod>>

Camera == Gesture \/ flyTo \/ zoomBy \/ goHome \/ Frame \/ SwitchMode \/ Config

-----------------------------------------------------------------------------
MapTypeOK ==
  /\ mapActs \in 0..MaxMapActs /\ mode \in {"2d", "3d"} /\ told \in BOOLEAN
  /\ home \in Homes \cup {0} /\ link \in Links
  /\ \A v \in {view.set, view.cam, view.goal} : v.at \in Int /\ v.zoom \in Nat
  /\ lod.zoom \in Nat

\* The labels are laid out for what the camera shows, within 0.15 of its zoom
\* and within its cell, however many small movements led there (App.tsx:427), once
\* deck.gl has reported it.
LodTracks ==
  told => /\ Distance(lod.zoom, view.cam.zoom) <= 1
          /\ lod.center = Round(view.cam.at, CenterCell)
=============================================================================
