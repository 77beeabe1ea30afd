------------------------------ MODULE MapLabels ------------------------------
(***************************************************************************)
(* The place names on the map (labels.ts) and what feeds them in App.tsx:  *)
(* the language, three data files read one after the other by whichever    *)
(* calls of loadLabels find no places yet, the recent traffic, sorted into *)
(* coarse and fine cells every 1.5 s, and the level of detail of MapView.  *)
(* A name is the place it stands at, its kind and the language it is in.   *)
(***************************************************************************)
EXTENDS MapView, Sequences, SequencesExt

CONSTANTS
  Langs, InitialLang,        \* the languages, and the browser's
  AnyLang,    \* that of a name without one
  Places, Countries, Towns,  \* the data files: sets of [at, mz]; a country's mz is 0
  Ends,       \* where flows begin and end
  Span        \* half the longitudes in view, as a function of the zoom

ASSUME LabelsAssumption ==
  /\ InitialLang \in Langs /\ Ends \subseteq Int
  /\ \A p \in Places \cup Countries \cup Towns : p.at \in Int

VARIABLES
  lang,
  raw,      \* the data files read so far
  calls,    \* the calls of loadLabels that wait for a file
  derived,  \* curField, and which files there were when it was derived: [field, of]
  traffic,  \* ends of the flows of the last minute
  active,   \* the cells of the last tick: coarse and fine
  labels,   \* the memoised label layers
  lost, raced  \* whether a file was lost, the language changed during a call
labelVars == <<lang, raw, calls, derived, traffic, active, labels, lost, raced>>

CoarseCell == 60   \* GRID: 3 degrees
FineCell   == 2    \* FINE_GRID and OSM_LABEL_GRID: 0.1 degree
HideBelow  == 24
ZoomedIn   == 42
TownMin    == 65

\* mutant: only the cell itself
cellNear_Own(cells, at) == Round(at, CoarseCell) \in cells
cellNear(cells, at) == \E d \in -1..1 : Round(at, CoarseCell) + d \in cells
cellNearFine(cells, at) == Round(at, FineCell) \in cells

\* A place is revealed from some zoom on, earlier the further the map is
\* zoomed in; in tenths of its min zoom, times ten.
Revealed(p, zoom) ==
  100 * p.mz <= 10 * zoom + (IF zoom < 40 THEN 120 ELSE 120 + 9 * (zoom - 40))

\* labelLayers, for a level of detail and active cells.
Names(ps, kind, field) == {[at |-> p.at, kind |-> kind, field |-> field] : p \in ps}
labelLayers(l, cells) ==
  LET near(p) == IF l.zoom >= ZoomedIn THEN cellNearFine(cells.fine, p.at)
                 ELSE cellNear(cells.coarse, p.at)
      inView(t) == /\ l.zoom >= TownMin
                   /\ Distance(t.at, CenterCell * l.center) < Span[l.zoom]
                   /\ cellNearFine(cells.fine, t.at)
      known(file, data) == IF file \in derived.of THEN data ELSE {}
  IN  IF derived.of = {} \/ l.zoom < HideBelow THEN {}
      ELSE Names({p \in known("places", Places) : Revealed(p, l.zoom) /\ near(p)},
                 "place", derived.field)
           \cup Names({c \in known("countries", Countries) : near(c)}, "country", derived.field)
           \cup Names({t \in IF "towns" \in raw THEN Towns ELSE {} :
                         Revealed(t, l.zoom) /\ inView(t)}, "town", AnyLang)

LabelsInit ==
  /\ lang = InitialLang
  /\ raw = {}
  /\ calls = <<[field |-> lang, file |-> "places"]>>
  /\ derived = [field |-> AnyLang, of |-> {}]
  /\ traffic = {}
  /\ active = [coarse |-> {}, fine |-> {}]
  /\ labels = {}
  /\ lost = FALSE /\ raced = FALSE

-----------------------------------------------------------------------------
\* derive, of the files read so far.
derive(field, files) == [field |-> field, of |-> files \ {"towns"}]
Derived(field, files) == IF field = derived.field THEN derived ELSE derive(field, files)

\* loadLabels, called by the effect on the language: where there are places it
\* derives at once, else it starts to read the files.
SetLang ==
  /\ MapAct
  /\ lang' \in Langs \ {lang}
  /\ IF "places" \notin raw
     THEN calls' = Append(calls, [field |-> lang', file |-> "places"]) /\ UNCHANGED derived
     ELSE derived' = Derived(lang', raw) /\ UNCHANGED calls
  /\ raced' = (raced \/ calls # <<>>)
  /\ UNCHANGED <<link, mode, home, view, lod, told, raw, traffic, active, labels, lost>>

NextFile == [places |-> "countries", countries |-> "towns", towns |-> "none"]

\* A call has its file and asks for the next; the last one ends in derive.
FileRead(i) ==
  /\ raw' = raw \cup {calls[i].file}
  /\ IF calls[i].file = "towns"
     THEN derived' = Derived(calls[i].field, raw') /\ calls' = RemoveAt(calls, i)
     ELSE calls' = [calls EXCEPT ![i].file = NextFile[@]] /\ UNCHANGED derived
  /\ UNCHANGED <<mapActs, lost>>
\* A file that cannot be read ends its call; nobody calls again.
FileLost(i) ==
  /\ MapAct
  /\ lost' = TRUE
  /\ calls' = RemoveAt(calls, i)
  /\ UNCHANGED <<raw, derived>>
loadLabels ==
  /\ \E i \in DOMAIN calls : FileRead(i) \/ FileLost(i)
  /\ UNCHANGED <<link, mode, home, view, lod, told, lang, traffic, active, labels, raced>>

-----------------------------------------------------------------------------
FlowSeen ==
  /\ MapAct
  /\ \E e \in Ends \ traffic : traffic' = traffic \cup {e}
  /\ UNCHANGED <<link, mode, home, view, lod, told, lang, raw, calls, derived, active,
                 labels, lost, raced>>
FlowAges ==
  /\ \E e \in traffic : traffic' = traffic \ {e}
  /\ UNCHANGED <<mapVars, lang, raw, calls, derived, active, labels, lost, raced>>

Cells == [coarse |-> {Round(e, CoarseCell) : e \in traffic},
          fine   |-> {Round(e, FineCell) : e \in traffic}]
\* mutant: the labels are built again only for other cells
Tick_OnlyNew ==
  /\ active' = Cells
  /\ labels' = IF Cells = active THEN labels ELSE labelLayers(lod, active')
  /\ UNCHANGED <<mapVars, lang, raw, calls, derived, traffic, lost, raced>>
\* Every 1.5 s: the cells of the recent flows, and the labels built again.
Tick ==
  /\ active' = Cells
  /\ labels' = labelLayers(lod, active')
  /\ UNCHANGED <<mapVars, lang, raw, calls, derived, traffic, lost, raced>>

\* The labels are built again when the level of detail changes, and only then.
MoveCamera ==
  /\ Camera
  /\ labels' = IF lod' = lod THEN labels ELSE labelLayers(lod', active)
  /\ UNCHANGED <<lang, raw, calls, derived, traffic, active, lost, raced>>

-----------------------------------------------------------------------------
LabelsTypeOK ==
  /\ lang \in Langs /\ raw \subseteq DOMAIN NextFile /\ {lost, raced} \subseteq BOOLEAN
  /\ \A c \in ToSet(calls) : c.field \in Langs /\ c.file \in DOMAIN NextFile
  /\ derived.field \in Langs \cup {AnyLang} /\ derived.of \subseteq raw \ {"towns"}
  /\ traffic \subseteq Ends
  /\ \A l \in labels : l.kind \in {"place", "country", "town"}

\* The labels tell where the traffic is, as the comment at the gate has it
\* (labels.ts:145-151): at every tick, whatever the zoom, a place with a recent
\* flow in its own fine cell is named once its zoom reveals it, and no name stands
\* where the last minute has no flow.  Another comment of the file,
\* labels.ts:88-89, promises the full set of names on the zoomed-in map, traffic
\* or not, which the code does not show.
TrafficLabelled ==
  [][Tick =>
      /\ \A p \in Places :
           /\ "places" \in derived.of /\ lod.zoom >= HideBelow /\ Revealed(p, lod.zoom)
           /\ \E e \in traffic : Round(e, FineCell) = Round(p.at, FineCell)
           => [at |-> p.at, kind |-> "place", field |-> derived.field] \in labels'
      /\ \A l \in labels' : \E e \in traffic :
           Distance(e, l.at) < IF lod.zoom >= ZoomedIn THEN FineCell ELSE 2 * CoarseCell]_labelVars

\* Place names follow the language of the page (App.tsx:256): they come to be in
\* the selected language for good, unless the language was changed while the files
\* were read or a file was lost.
LabelsSettle ==
  <>[](\/ raced \/ lost
       \/ /\ derived = derive(lang, DOMAIN NextFile)
          /\ \A l \in labels : l.field \in {lang, AnyLang})
=============================================================================
