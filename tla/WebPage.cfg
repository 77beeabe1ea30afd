SPECIFICATION Spec
CONSTANTS
  Links <- MCLinks
  Absent = Absent
  Homes = {60}
  Targets = {89}
  Drags = {4}
  Pinches = {1}
  MaxMapActs = 3
  Langs = {en, zh}
  InitialLang = en
  AnyLang = AnyLang
  Places <- MCPlaces
  Countries <- MCCountries
  Towns <- MCTowns
  Ends = {90, 100}
  Span <- MCSpan
  Windows = {6, 12}
  None = None
  Bars = 3
  RowTimes <- MCRowTimes
  MaxClock = 1
  MaxAhead = 1
  MaxPanelActs = 2
INVARIANTS
  TypeOK
  LodTracks
  BrushReplays
PROPERTIES
  TrafficLabelled
  LabelsSettle
  PanelsSettle
  BarsCountRows
