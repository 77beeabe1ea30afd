------------------------------ MODULE MCWebPage ------------------------------
(***************************************************************************)
(* The parts of the page around the map, together: the labels and the      *)
(* camera they follow, and the panels.  They run in one thread and share   *)
(* no state, so a behaviour follows one part while the other rests.        *)
(***************************************************************************)
EXTENDS MapLabels, Panels

\* The address without parameters.
NoParams == [at |-> Absent, zoom |-> Absent, mode |-> "2d"]

VARIABLE part  \* the part that is followed
vars == <<part, mapVars, labelVars, panelVars>>

\* The parts at rest: every file read and every request answered.
MapAtRest ==
  /\ MapInit /\ link = NoParams
  /\ lang = InitialLang /\ raw = DOMAIN NextFile /\ calls = <<>>
  /\ derived = derive(lang, raw)
  /\ traffic = {} /\ active = Cells /\ labels = {}
  /\ lost = FALSE /\ raced = FALSE
PanelsAtRest ==
  /\ panelActs = 0 /\ clock = 0 /\ rows = {}
  /\ control = "refresh" /\ chosen = Min(Windows) /\ timers = {chosen}
  /\ reqs = {} /\ shown = [p \in Panels |-> chosen]
  /\ pts = <<>> /\ drag = None /\ brush = None

Init ==
  \/ part = "map" /\ MapInit /\ LabelsInit /\ PanelsAtRest
  \/ part = "panels" /\ PanelsInit /\ MapAtRest

OnMap(action) == part = "map" /\ action /\ UNCHANGED <<part, panelVars>>
OnPanels(action) == part = "panels" /\ action /\ UNCHANGED <<part, mapVars, labelVars>>

Next ==
  \/ OnMap(MoveCamera) \/ OnMap(SetLang) \/ OnMap(loadLabels)
  \/ OnMap(FlowSeen) \/ OnMap(FlowAges) \/ OnMap(Tick)
  \/ OnPanels(Select) \/ OnPanels(Poll) \/ OnPanels(Serve) \/ OnPanels(Miss)
  \/ OnPanels(Stored) \/ OnPanels(Second) \/ OnPanels(down) \/ OnPanels(up)
  \/ \E p \in Panels, w \in Windows : OnPanels(Answer(p, w))

\* Timers go on firing, and every request ends in an answer or an error.
Spec ==
  /\ Init /\ [][Next]_vars
  /\ WF_vars(OnMap(Tick)) /\ WF_vars(OnMap(loadLabels))
  /\ WF_vars(OnPanels(Poll)) /\ WF_vars(OnPanels(Serve))
  /\ \A p \in {"stats", "apps", "timeline"}, w \in Windows : WF_vars(OnPanels(Answer(p, w)))

TypeOK == MapTypeOK /\ LabelsTypeOK /\ PanelsTypeOK

-----------------------------------------------------------------------------
\* A place next to the border of two coarse cells, one revealed later, a town.
MCPlaces    == {[at |-> 89, mz |-> 2], [at |-> 150, mz |-> 5]}
MCCountries == {[at |-> 100, mz |-> 0]}
MCTowns     == {[at |-> 89, mz |-> 8]}
\* A shared view, and a zoom without a place.
MCLinks     == {NoParams, [at |-> 92, zoom |-> 68, mode |-> "3d"],
                [at |-> Absent, zoom |-> 50, mode |-> "2d"]}
\* 1.5 * 360 degrees / 2^zoom, for whole zooms.
MCSpan      == [z \in 65..180 |-> 10800 \div 2^(z \div 10)]
\* An old flow, one on the border of two buckets, one that may be ahead.
MCRowTimes  == {-5, 0, 1}
=============================================================================
