------------------------------ MODULE Ingestor ------------------------------
(***************************************************************************)
(* crates/ingestor: a parser thread reads flow records from stdin into a   *)
(* bounded channel; the main loop takes them out, drops those below the    *)
(* watermark it resumed from, batches the rest and flushes a batch in      *)
(* three awaited steps: the Redis pipeline (XADD and PUBLISH per row), one *)
(* PostgreSQL INSERT, and the SET of the watermark.  Any step can fail and *)
(* the process can die at any point; the next process starts from what     *)
(* Redis and the source still hold.                                        *)
(***************************************************************************)
EXTENDS FlowSource, FiniteSets

CONSTANTS
  MaxLives,  \* bound: processes started
  ChanCap,   \* capacity of the parser's channel (10_000 in the code)
  BatchMax   \* BATCH_MAX_ROWS (1_000 in the code)

ASSUME BoundsAssumption ==
  /\ MaxLog \in Nat /\ MaxRecv \in Nat /\ MaxLives \in Nat
  /\ ChanCap \in Nat \ {0} /\ BatchMax \in Nat \ {0}

VARIABLES
  \* the stores: Redis stream and channel, PostgreSQL table, Redis key
  stream, flows, watermark,
  \* the process: how many were started, where the current one is, what it
  \* does after the flush it is in
  lives, pc, after,
  \* the parser thread: where this process began, the last record sent on
  \* the channel, whether the sender is gone
  lo, pos, closed,
  \* the main loop: last record received, the watermark resumed from, the
  \* highest receive time seen, the rows not yet flushed
  got, start_watermark, max_recv, batch

storeVars == <<stream, flows, watermark>>
parserVars == <<lo, pos, closed>>
loopVars == <<got, start_watermark, max_recv, batch>>
vars == <<sourceVars, storeVars, lives, pc, after, parserVars, loopVars>>

\* The contract this module is shown to implement.
D == INSTANCE Delivery WITH rows <- flows, mark <- watermark

----------------------------------------------------------------------------
\* Another process can still be started: the bound on failures, too, so that
\* the last process allowed is not the one that fails.
LifeLeft == lives < MaxLives

\* The process ends, by itself or not: what it held in memory is gone.
Halt ==
  /\ pc' = "down" /\ after' = "select"
  /\ lo' = 0 /\ pos' = 0 /\ closed' = FALSE
  /\ got' = 0 /\ start_watermark' = 0 /\ max_recv' = 0 /\ batch' = <<>>
  /\ UNCHANGED lives

Init ==
  /\ SourceInit
  /\ stream = <<>> /\ flows = <<>> /\ watermark = 0
  /\ lives = 0 /\ pc = "down" /\ after = "select"
  /\ lo = 0 /\ pos = 0 /\ closed = FALSE
  /\ got = 0 /\ start_watermark = 0 /\ max_recv = 0 /\ batch = <<>>

\* A process starts, under systemd (Restart=on-failure) or by hand.  It GETs
\* the watermark; an absent key and a failed GET both read as 0.
Start ==
  /\ pc = "down" /\ LifeLeft
  /\ pc' = "select" /\ lives' = lives + 1
  /\ lo' = IF source = "flowd" THEN base ELSE Len(log)
  /\ pos' = lo' /\ got' = lo'
  /\ \E w \in {watermark, 0} : start_watermark' = w /\ max_recv' = w
  /\ UNCHANGED <<sourceVars, storeVars, after, closed, batch>>

----------------------------------------------------------------------------
(* The parser thread.  The channel holds records got+1 .. pos.             *)

\* A record is read and sent; the send blocks while the channel is full.
Read ==
  /\ pc # "down" /\ ~closed
  /\ pos < Len(log) /\ log[pos + 1].kind # "corrupt"
  /\ pos - got < ChanCap
  /\ pos' = pos + 1
  /\ UNCHANGED <<sourceVars, storeVars, lives, pc, after, lo, closed, loopVars>>

\* A parse error ends the thread, which drops the sender.
ReadCorrupt ==
  /\ pc # "down" /\ ~closed
  /\ pos < Len(log) /\ log[pos + 1].kind = "corrupt"
  /\ closed' = TRUE
  /\ UNCHANGED <<sourceVars, storeVars, lives, pc, after, lo, pos, loopVars>>

\* The other end of the pipe goes away: end of file, with the same effect.
SourceEof ==
  /\ pc # "down" /\ ~closed /\ LifeLeft
  /\ closed' = TRUE
  /\ UNCHANGED <<sourceVars, storeVars, lives, pc, after, lo, pos, loopVars>>

----------------------------------------------------------------------------
(* The main loop: tokio::select! over the channel, the timer and ctrl_c.   *)

Skipped_OrEqual(i) == Stamped(i) /\ log[i].recv <= start_watermark   \* mutant
Skipped(i) == Stamped(i) /\ log[i].recv < start_watermark

Highest_Latest(i) == IF Stamped(i) /\ ~Skipped(i) THEN log[i].recv ELSE max_recv  \* mutant
Highest(i) ==
  IF Stamped(i) /\ ~Skipped(i) /\ log[i].recv > max_recv THEN log[i].recv ELSE max_recv

Full_OffByOne(b) == Len(b) > BatchMax                             \* mutant
Full(b) == Len(b) >= BatchMax

\* max_recv moves before to_row decides whether there is a row at all.
Receive ==
  LET i == got + 1 IN
  /\ pc = "select" /\ got < pos
  /\ got' = i
  /\ max_recv' = Highest(i)
  /\ batch' = IF IsRow(i) /\ ~Skipped(i) THEN Append(batch, i) ELSE batch
  /\ pc' = IF Full(batch') THEN "redis" ELSE "select"
  /\ UNCHANGED <<sourceVars, storeVars, lives, after, parserVars, start_watermark>>

\* flush() with a batch; an empty batch returns at once, watermark unset.
Tick ==
  /\ pc = "select" /\ batch # <<>>
  /\ pc' = "redis"
  /\ UNCHANGED <<sourceVars, storeVars, lives, after, parserVars, loopVars>>

FlushAndExit_Drops == Halt                                       \* mutant

\* A last flush, then the loop breaks and the process exits with success.
FlushAndExit ==
  IF batch = <<>>
    THEN Halt
    ELSE /\ pc' = "redis" /\ after' = "down"
         /\ UNCHANGED <<lives, parserVars, loopVars>>

\* recv() returns None: every record sent has been received, no sender left.
Drained ==
  /\ pc = "select" /\ got = pos /\ closed
  /\ FlushAndExit
  /\ UNCHANGED <<sourceVars, storeVars>>

\* SIGINT; what is still in the channel is dropped.  It is heard only here:
\* during a flush no ctrl_c() future exists.
CtrlC ==
  /\ pc = "select" /\ LifeLeft
  /\ FlushAndExit
  /\ UNCHANGED <<sourceVars, storeVars>>

----------------------------------------------------------------------------
(* flush(): three awaits.  An error of the first two ends the process.     *)

FlushRedis ==
  /\ pc = "redis"
  /\ stream' = stream \o batch
  /\ pc' = "insert"
  /\ UNCHANGED <<sourceVars, flows, watermark, lives, after, parserVars, loopVars>>

\* mutant: the pipeline's error is ignored as the SET's is
FlushRedisFails_Ignored ==
  /\ pc = "redis" /\ LifeLeft
  /\ \E n \in 0..Len(batch) : stream' = stream \o SubSeq(batch, 1, n)
  /\ pc' = "insert"
  /\ UNCHANGED <<sourceVars, flows, watermark, lives, after, parserVars, loopVars>>

\* The pipeline is not a transaction: a prefix of it may have been executed
\* when the connection, or the process, is lost.
FlushRedisFails ==
  /\ pc = "redis" /\ LifeLeft
  /\ \E n \in 0..Len(batch) : stream' = stream \o SubSeq(batch, 1, n)
  /\ Halt
  /\ UNCHANGED <<sourceVars, flows, watermark>>

FlushInsert ==
  /\ pc = "insert"
  /\ flows' = flows \o batch
  /\ pc' = "set"
  /\ UNCHANGED <<sourceVars, stream, watermark, lives, after, parserVars, loopVars>>

\* One statement, so all rows or none; the error may hide a commit.
FlushInsertFails ==
  /\ pc = "insert" /\ LifeLeft
  /\ flows' \in {flows, flows \o batch}
  /\ Halt
  /\ UNCHANGED <<sourceVars, stream, watermark>>

NewMark_NextSecond == max_recv + 1                               \* mutant
NewMark == max_recv

\* mutant: the batch is not cleared
Flushed_Kept ==
  IF after = "down"
    THEN Halt
    ELSE pc' = "select" /\ UNCHANGED <<lives, after, parserVars, loopVars>>

\* flush() returns: the loop goes on with an empty batch, or breaks.
Flushed ==
  IF after = "down"
    THEN Halt
    ELSE /\ pc' = "select" /\ batch' = <<>>
         /\ UNCHANGED <<lives, after, parserVars, got, start_watermark, max_recv>>

\* The result of the SET is ignored; the batch is cleared either way.
FlushSet ==
  /\ pc = "set"
  /\ watermark' \in {NewMark, watermark}
  /\ Flushed
  /\ UNCHANGED <<sourceVars, stream, flows>>

----------------------------------------------------------------------------
(* The environment.                                                        *)

\* SIGKILL, SIGTERM (no handler), panic, power.
Crash ==
  /\ pc # "down" /\ LifeLeft
  /\ Halt
  /\ UNCHANGED <<sourceVars, storeVars>>

\* Redis runs with allkeys-lru: under memory pressure the key may go.
EvictWatermark ==
  /\ watermark # 0
  /\ watermark' = 0
  /\ UNCHANGED <<sourceVars, stream, flows, lives, pc, after, parserVars, loopVars>>

Produce ==
  /\ \/ \E r \in Record : Emit(r)
     \/ Rotate
  /\ UNCHANGED <<storeVars, lives, pc, after, parserVars, loopVars>>

Process == Read \/ ReadCorrupt \/ Receive \/ Tick \/ Drained
             \/ FlushRedis \/ FlushInsert \/ FlushSet

Failure == SourceEof \/ CtrlC \/ FlushRedisFails \/ FlushInsertFails \/ Crash

Next == Produce \/ Start \/ Process \/ Failure \/ EvictWatermark

Spec == Init /\ [][Next]_vars

\* The thread and each branch of select! make progress (select! polls its
\* branches in random order), an await ends, and a process that went down is
\* started again.  Nothing is assumed of the source or of failures.
Fairness ==
  /\ WF_vars(Start) /\ WF_vars(Read) /\ WF_vars(ReadCorrupt)
  /\ SF_vars(Receive) /\ SF_vars(Tick) /\ SF_vars(Drained)
  /\ WF_vars(FlushRedis) /\ WF_vars(FlushInsert) /\ WF_vars(FlushSet)

FairSpec == Spec /\ Fairness

----------------------------------------------------------------------------
(* Properties.                                                             *)

\* Every variable has its type; the channel, the batch and the cursors keep
\* within their bounds (main.rs:222, 256).
TypeOK ==
  /\ SourceTypeOK
  /\ stream \in Seq(1..Len(log)) /\ flows \in Seq(1..Len(log))
  /\ watermark \in 0..MaxRecv /\ start_watermark \in 0..MaxRecv
  /\ max_recv \in 0..MaxRecv
  /\ lives \in 0..MaxLives
  /\ pc \in {"down", "select", "redis", "insert", "set"}
  /\ after \in {"select", "down"} /\ closed \in BOOLEAN
  /\ lo \in Nat /\ got \in lo..pos /\ pos \in got..Len(log)
  /\ pos - got <= ChanCap
  /\ batch \in Seq(1..Len(log)) /\ Len(batch) <= BatchMax
  /\ pc \in {"down", "select"} => Len(batch) < BatchMax

\* The watermark in Redis never covers a record that has no row: a restart
\* that skips everything below it (main.rs:245) loses nothing of the current
\* flowd.log, whatever failed before, records the collector's clock stamped
\* out of order apart.
WatermarkCovers == source = "flowd" => D!Covers(watermark)

\* A row of the history was on the live channel and in the stream first
\* (flush writes Redis before PostgreSQL and stops on its error).
StoredWasPublished == Range(flows) \subseteq Range(stream)

\* One process inserts a record at most once, so re-reading flowd.log is the
\* only source of duplicate rows; what telegraf delivers is never duplicated.
InsertedOncePerLife ==
  \A i \in 1..Len(log) :
    Cardinality({k \in DOMAIN flows : flows[k] = i})
      <= IF source = "telegraf" THEN 1 ELSE lives

\* The watermark moves backwards only when Redis forgot it or the process
\* that sets it could not read it when it started (main.rs:207-214).
WatermarkAdvances ==
  [][watermark' >= watermark \/ watermark' = 0 \/ start_watermark = 0]_vars

\* The ingestor implements the delivery contract.
RefinesDelivery == D!Spec

\* A record of flowd.log that becomes a row is eventually in PostgreSQL, in
\* spite of failures, unless it is late, sits behind bytes the parser
\* rejects, or is rotated away before a process has stored it.
EventuallyStored ==
  \A i \in 1..MaxLog :
    (/\ source = "flowd" /\ i \in (base + 1)..Len(log)
     /\ IsRow(i) /\ ~Late(i)
     /\ \A j \in 1..i : log[j].kind # "corrupt")
    ~> (i \in Range(flows) \/ i <= base)

\* "skip flows we've already ingested (lets run-live re-read the whole
\* flowd.log on restart without duplicating rows in PG)" (main.rs:205-206):
\* a process does not batch again a row already stored whose receive time the
\* watermark it resumed from had reached.
ResumeSkipsStored ==
  pc \in {"select", "redis"} =>
    \A k \in DOMAIN batch :
      log[batch[k]].recv <= start_watermark => batch[k] \notin Range(flows)
=============================================================================
