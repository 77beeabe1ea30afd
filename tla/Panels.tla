-------------------------------- MODULE Panels --------------------------------
(***************************************************************************)
(* The panels that follow a time window: the traffic statistics and the    *)
(* applications, whose window is the refresh interval (App.tsx:295-323),   *)
(* and the timeline, whose window is the selected range (Timeline.tsx).    *)
(* Each asks again on a timer and takes whatever answer comes.  The        *)
(* timeline's bars are counted by timeline_handler of the API; a drag or a *)
(* click on them asks /api/history for the time between two instants.      *)
(* The two controls share no state: a behaviour follows one of them.       *)
(* Times are seconds; a row of the flows table is the second it was        *)
(* received in, every row of the same size.                                *)
(***************************************************************************)
EXTENDS Integers, Sequences, FiniteSetsExt

CONSTANTS
  Windows,       \* the windows on offer, in seconds
  None,          \* no window, no points, no brush
  Bars,          \* bars of the timeline, 120
  RowTimes,      \* when flows are received
  MaxClock,      \* bound: seconds that pass
  MaxAhead,      \* how far the exporter's clock is ahead of the database's
  MaxPanelActs   \* bound: what the user does, flows stored, requests that fail

ASSUME PanelsAssumption ==
  /\ Bars \in Nat \ {0} /\ {MaxAhead, MaxClock, MaxPanelActs} \subseteq Nat
  /\ Windows # {} /\ \A w \in Windows : w \in Nat \ {0} /\ w % (2 * Bars) = 0
  /\ RowTimes \subseteq Int

VARIABLES
  panelActs, \* the bound's counter
  clock,    \* the database's and the API's
  rows,     \* the flows stored so far
  control,  \* the control that is followed
  chosen,   \* the window it selects
  timers,   \* the windows of the intervals that run
  reqs,     \* requests on their way: [panel, window, points]
  shown,    \* the window of the answer each panel shows
  pts,      \* the timeline's bars: [t, n], oldest first
  drag,     \* dragRef: where the mouse went down, in bars
  brush     \* the last window asked of /api/history, and the bars it is for
panelVars ==
  <<panelActs, clock, rows, control, chosen, timers, reqs, shown, pts, drag, brush>>

PanelsOf == [refresh |-> {"stats", "apps"}, range |-> {"timeline"}]
Panels == PanelsOf[control]

Ask(w) == {[panel |-> p, window |-> w, points |-> None] : p \in Panels}

PanelsInit ==
  /\ panelActs = 0 /\ clock = 0
  /\ control \in DOMAIN PanelsOf
  /\ rows \in IF control = "range" THEN SUBSET {t \in RowTimes : t <= 0} ELSE {{}}
  /\ chosen \in Windows /\ timers = {chosen} /\ reqs = Ask(chosen)
  /\ shown = [p \in Panels |-> None]
  /\ pts = <<>> /\ drag = None /\ brush = None

PanelAct == panelActs < MaxPanelActs /\ panelActs' = panelActs + 1

-----------------------------------------------------------------------------
\* mutant: the effect has no cleanup
Cleared_Never(w) == timers \cup {w}
Cleared(w) == {w}

\* The effect of another window: the old interval is cleared, the new window is
\* asked for at once and its interval set; old requests stay on their way.
Select ==
  /\ PanelAct
  /\ \E w \in Windows \ {chosen} :
       /\ chosen' = w
       /\ timers' = Cleared(w)
       /\ reqs' = reqs \cup Ask(w)
  /\ UNCHANGED <<clock, rows, control, shown, pts, drag, brush>>

\* An interval fires.  (Bound: one request of a panel and window at a time.)
Poll ==
  /\ \E w \in timers :
       reqs' = reqs \cup {r \in Ask(w) :
                            \A q \in reqs : q.panel # r.panel \/ q.window # w}
  /\ UNCHANGED <<panelActs, clock, rows, control, chosen, timers, shown, pts, drag, brush>>

\* mutant: rounded up
BucketOf_Up(t, width) == (clock - t + width - 1) \div width
BucketOf(t, width) == (clock - t) \div width

\* timeline_handler: the rows of the window grouped by bucket, each group written
\* to its slot.  A row that is ahead of the clock makes group -1, which as usize
\* is slot 0: one of the groups for that slot stays there.
Group(b, width, since) ==
  Cardinality({t \in rows : t > clock - since /\ BucketOf(t, width) = b})
Slots(width, since) ==
  LET ahead  == {BucketOf(t, width) : t \in {u \in rows : u > clock}}
      newest == IF ahead # {} /\ Group(0, width, since) = 0 THEN ahead ELSE ahead \cup {0}
  IN  {[i \in 0..Bars - 1 |-> Group(IF i = 0 THEN b ELSE i, width, since)] : b \in newest}
timeline_handler(r) ==
  /\ r.points = None
  /\ \E slots \in Slots(r.window \div Bars, r.window) :
       reqs' = (reqs \ {r}) \cup
         {[r EXCEPT !.points = [k \in 1..Bars |->
             [t |-> clock - (Bars - k) * (r.window \div Bars), n |-> slots[Bars - k]]]]}

Serve ==
  /\ \E r \in reqs : r.panel = "timeline" /\ timeline_handler(r)
  /\ UNCHANGED <<panelActs, clock, rows, control, chosen, timers, shown, pts, drag, brush>>

\* An answer is shown, of whatever window it is.
Answer(p, w) ==
  /\ \E r \in reqs :
       /\ r.panel = p /\ r.window = w
       /\ p = "timeline" => r.points # None
       /\ reqs' = reqs \ {r}
       /\ shown' = [shown EXCEPT ![p] = w]
       /\ pts' = IF p = "timeline" THEN r.points ELSE pts
  /\ UNCHANGED <<panelActs, clock, rows, control, chosen, timers, drag, brush>>

\* A request that fails leaves the panel as it is.
Miss ==
  /\ PanelAct
  /\ \E r \in reqs : reqs' = reqs \ {r}
  /\ UNCHANGED <<clock, rows, control, chosen, timers, shown, pts, drag, brush>>

\* A flow is stored, often some time after it was received (external).
Stored ==
  /\ control = "range" /\ PanelAct
  /\ \E t \in RowTimes \ rows : t <= clock + MaxAhead /\ rows' = rows \cup {t}
  /\ UNCHANGED <<clock, control, chosen, timers, reqs, shown, pts, drag, brush>>
Second ==
  /\ control = "range" /\ clock < MaxClock /\ clock' = clock + 1
  /\ UNCHANGED <<panelActs, rows, control, chosen, timers, reqs, shown, pts, drag, brush>>

-----------------------------------------------------------------------------
\* The mouse on the timeline, by the bar it is over.  down, and up or leave.
BucketS == chosen \div Max({1, Len(pts)})
down ==
  /\ control = "range" /\ PanelAct
  /\ drag' \in 1..Bars
  /\ UNCHANGED <<clock, rows, control, chosen, timers, reqs, shown, pts, brush>>

\* onBrush's window, for a drag from one bar to another and for a click.
Dragged_Unordered(a, b) == [from |-> pts[a].t, to |-> pts[b].t + BucketS]   \* mutant
Dragged(a, b) == [from |-> pts[Min({a, b})].t, to |-> pts[Max({a, b})].t + BucketS]
Clicked(a) ==
  LET half == Max({chosen \div 12, 3 * BucketS}) \div 2
  IN  [from |-> pts[a].t - half, to |-> pts[a].t + half + BucketS]
Brushed(window, bars) ==
  [window |-> window, bars |-> {pts[k].t : k \in bars},
   width  |-> shown["timeline"] \div Bars, fresh |-> shown["timeline"] = chosen]
\* A move within a hundredth of the width is a click: 1.2 of the 120 bars, so that
\* it may end two bars on.
up ==
  /\ drag # None
  /\ drag' = None
  /\ \E a \in 1..Bars :
       \/ pts = <<>> /\ UNCHANGED brush
       \/ /\ pts # <<>> /\ a \in drag - 2..drag + 2
          /\ brush' = Brushed(Clicked(a), {a})
       \/ /\ pts # <<>> /\ a # drag
          /\ brush' = Brushed(Dragged(drag, a), Min({a, drag})..Max({a, drag}))
  /\ UNCHANGED <<panelActs, clock, rows, control, chosen, timers, reqs, shown, pts>>

-----------------------------------------------------------------------------
PanelsTypeOK ==
  /\ panelActs \in 0..MaxPanelActs /\ clock \in 0..MaxClock
  /\ rows \subseteq RowTimes
  /\ chosen \in Windows /\ timers \subseteq Windows
  /\ shown \in [Panels -> Windows \cup {None}]
  /\ \A r \in reqs : r.panel \in Panels /\ r.window \in Windows
  /\ Len(pts) \in {0, Bars} /\ drag \in 1..Bars \cup {None}

\* The panels come to show the selected window for good (App.tsx:295-301): answers
\* of windows selected before come late and are shown, but no interval asks
\* for them again.
PanelsSettle == <>[](\A p \in Panels : shown[p] = chosen)

\* The timeline counts every flow of its window in one bar, the one its time
\* lies in: a bar's t is the end of its bucket (main.rs:586-610).  While flows are
\* ahead of the clock the newest bar is not known.
BarsCountRows ==
  [][\A r \in reqs' \ reqs : r.points # None =>
       \A k \in 1..Bars :
         (k = Bars => \A t \in rows : t <= clock) =>
           r.points[k].n = Cardinality({t \in rows :
             t \in r.points[k].t - r.window \div Bars + 1..r.points[k].t})]_panelVars

\* A brush asks for a window of history that is not empty, that holds the clicked
\* bar's bucket whole if the bars are of the selected range, and every dragged
\* bar's but the oldest one's, whatever the range (Timeline.tsx:86-97).
\* Timeline takes t for the start of the bucket: the oldest is left out,
\* though App.tsx:442-443 says that brushing fetches the slice that was brushed.
BrushReplays ==
  brush # None =>
    LET w == brush.window
        Whole(t) == w.from <= t - brush.width /\ t <= w.to
    IN  /\ w.from < w.to
        /\ IF Cardinality(brush.bars) = 1
           THEN brush.fresh => \A t \in brush.bars : Whole(t)
           ELSE \A t \in brush.bars \ {Min(brush.bars)} : Whole(t)
=============================================================================
