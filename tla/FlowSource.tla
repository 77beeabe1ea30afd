----------------------------- MODULE FlowSource -----------------------------
(***************************************************************************)
(* The source the ingestor reads, outside the repository: flowd.log on the *)
(* firewall followed by `tail -F -c +1` (read again from the top of the    *)
(* current file by every ingestor process), or the pipe from telegraf      *)
(* (each datagram is seen by at most one process).  A record is its place  *)
(* in the log; its payload is abstracted to what the ingestor decides on.  *)
(***************************************************************************)
EXTENDS Integers, Sequences, Functions

CONSTANTS
  MaxLog,    \* bound: records the source produces
  MaxRecv    \* bound: receive times are 1..MaxRecv seconds

VARIABLES
  source,    \* INGEST_SOURCE: "flowd" or "telegraf"
  log,       \* every record the source has produced, in order
  base       \* how many of them are no longer in the current log file

sourceVars == <<source, log, base>>

\* A record that becomes a row, one with a receive time that lacks another
\* mandatory field, one without a receive time, and bytes no parser accepts.
Kinds == {"row", "partial", "unstamped", "corrupt"}
Record == [kind : Kinds, recv : 1..MaxRecv]

\* to_row returns Some.
IsRow(i) == log[i].kind = "row"

\* recv_sec is Some.
Stamped(i) == log[i].kind \in {"row", "partial"}

\* Record i is late: the receive clock had already been further on.
Late(i) == \E j \in 1..(i - 1) : Stamped(j) /\ log[j].recv > log[i].recv

----------------------------------------------------------------------------
SourceTypeOK ==
  /\ source \in {"flowd", "telegraf"}
  /\ log \in Seq(Record)
  /\ base \in 0..Len(log)

SourceInit ==
  /\ source \in {"flowd", "telegraf"}
  /\ log = <<>>
  /\ base = 0

\* The collector exports a flow.  Telegraf lines that are not JSON are no
\* records: its parser skips them and goes on.
Emit(r) ==
  /\ Len(log) < MaxLog
  /\ r.kind = "corrupt" => source = "flowd"
  /\ log' = Append(log, r)
  /\ UNCHANGED <<source, base>>

\* Log rotation: the current file starts empty; a running tail follows, a
\* process started from now on does not see what went before.
Rotate ==
  /\ source = "flowd"
  /\ base < Len(log)
  /\ base' = Len(log)
  /\ UNCHANGED <<source, log>>
=============================================================================
