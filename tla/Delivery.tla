------------------------------ MODULE Delivery ------------------------------
(***************************************************************************)
(* What the ingest path promises about the flows table, without saying how:*)
(* some of the source's records are inserted as rows, and a resume mark    *)
(* says which records a restart may skip.                                  *)
(*                                                                         *)
(* A source that can be read again (flowd.log) is delivered at least once: *)
(* the mark never moves past a record whose row is missing.  A source that *)
(* cannot (the telegraf pipe) is delivered at most once: no record has two *)
(* rows.                                                                   *)
(***************************************************************************)
EXTENDS FlowSource

CONSTANT BatchMax    \* the most rows one INSERT carries

VARIABLES
  rows,     \* the flows table: places in log, in insertion order
  mark      \* the resume mark, a receive time; 0 when there is none

vars == <<sourceVars, rows, mark>>

\* No record of the current file that a restart at w would skip lacks its
\* row, late records apart.
Covers(w) ==
  \A i \in (base + 1)..Len(log) :
    IsRow(i) /\ ~Late(i) /\ log[i].recv < w => i \in Range(rows)

----------------------------------------------------------------------------
Init == SourceInit /\ rows = <<>> /\ mark = 0

Produce ==
  /\ \/ \E r \in Record : Emit(r)
     \/ Rotate
  /\ UNCHANGED <<rows, mark>>

\* One INSERT: the rows of distinct records, in log order.
Insert(b) ==
  /\ \A k \in DOMAIN b : IsRow(b[k])
  /\ \A j, k \in DOMAIN b : j < k => b[j] < b[k]
  /\ source = "telegraf" => Range(b) \cap Range(rows) = {}
  /\ rows' = rows \o b
  /\ UNCHANGED <<sourceVars, mark>>

Batches == UNION {[1..n -> 1..Len(log)] : n \in 1..BatchMax}

\* The mark moves to a receive time that covers, or is forgotten (0).
Mark(w) ==
  /\ source = "flowd" => Covers(w)
  /\ mark' = w
  /\ UNCHANGED <<sourceVars, rows>>

Next ==
  \/ Produce
  \/ \E b \in Batches : Insert(b)
  \/ \E w \in 0..MaxRecv : Mark(w)

Spec == Init /\ [][Next]_vars
=============================================================================
