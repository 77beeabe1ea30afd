--------------------------- MODULE IngestorProofs ---------------------------
(***************************************************************************)
(* Proofs about Ingestor, for every value of its constants: the type       *)
(* invariant, that the watermark never covers a record without its row,    *)
(* that every row was published first, that a process inserts a record     *)
(* once, that the watermark only moves forward, and that the ingestor      *)
(* implements Delivery.                                                    *)
(***************************************************************************)
EXTENDS Ingestor, SequenceTheorems, FiniteSetTheorems, TLAPS

Running == pc # "down"

(***************************************************************************)
(* The strengthening that makes the safety properties inductive.           *)
(***************************************************************************)

\* The batch holds rows of this process's life, in log order, is empty while
\* there is no process and is not while it is being flushed.
BatchOrdered ==
  /\ pc = "down" => batch = <<>>
  /\ \A k \in DOMAIN batch : batch[k] \in (lo + 1)..got /\ IsRow(batch[k])
  /\ \A j, k \in DOMAIN batch : j < k => batch[j] < batch[k]
  /\ pc \in {"redis", "insert", "set"} => batch # <<>>

\* max_recv is the watermark resumed from or the receive time of a record
\* received in this life.
HighestSeen ==
  Running =>
    /\ max_recv >= start_watermark
    /\ \/ max_recv = start_watermark
       \/ \E j \in (lo + 1)..got : Stamped(j) /\ log[j].recv = max_recv

\* Every row received and not skipped is in the batch or in the table.
Accounted ==
  Running /\ source = "flowd" =>
    /\ lo <= base
    /\ \A i \in (lo + 1)..got :
         IsRow(i) /\ log[i].recv >= start_watermark
           => i \in Range(batch) \/ i \in Range(flows)

\* D!Covers, in this module's terms.
Covers(w) ==
  \A i \in (base + 1)..Len(log) :
    IsRow(i) /\ ~Late(i) /\ log[i].recv < w => i \in Range(flows)

\* What this process skips, and what the next one would skip, is stored.
MarksCover ==
  source = "flowd" => Covers(watermark) /\ (Running => Covers(start_watermark))

\* A watermark is the receive time of a record: one that arrives below it
\* later is late.
Seen(w) == w = 0 \/ \E j \in 1..Len(log) : Stamped(j) /\ log[j].recv = w
MarksSeen == Seen(watermark) /\ Seen(start_watermark) /\ Seen(max_recv)

\* How far the flush in progress has come.
FlushProgress ==
  /\ pc = "set" => Range(batch) \subseteq Range(flows)
  /\ pc \in {"insert", "set"} => Range(batch) \subseteq Range(stream)

\* Nothing the pipe delivers is received, or inserted, twice.
PipeOnce ==
  Running /\ source = "telegraf" =>
    /\ \A i \in Range(flows) : i <= got
    /\ pc # "set" => Range(batch) \cap Range(flows) = {}

\* A process that could read the watermark keeps ahead of it.
MarkBehind == Running /\ start_watermark # 0 => watermark <= max_recv

IInv ==
  /\ TypeOK
  /\ BatchOrdered
  /\ HighestSeen
  /\ Accounted
  /\ MarksCover
  /\ MarksSeen
  /\ FlushProgress
  /\ PipeOnce
  /\ MarkBehind
  /\ StoredWasPublished

----------------------------------------------------------------------------
(***************************************************************************)
(* Type correctness.                                                       *)
(***************************************************************************)

\* Every step keeps the types.
LEMMA TypeInductive ==
  /\ Init => TypeOK
  /\ TypeOK /\ [Next]_vars => TypeOK'
<1>1. Init => TypeOK
  <2> SUFFICES ASSUME Init PROVE TypeOK
    OBVIOUS
  <2>1. /\ <<>> \in Seq(Record) /\ <<>> \in Seq(1..0)
        /\ Len(<<>>) = 0
    BY EmptySeq
  <2>2. SourceTypeOK /\ batch \in Seq(1..Len(log)) /\ Len(batch) < BatchMax /\ Len(batch) <= BatchMax
    BY <2>1, BoundsAssumption DEF Init, SourceInit, SourceTypeOK
  <2>3. stream \in Seq(1..Len(log)) /\ flows \in Seq(1..Len(log))
    BY <2>1 DEF Init, SourceInit
  <2>4. /\ lo \in Nat /\ got \in lo..pos /\ pos \in got..Len(log)
        /\ pos - got <= ChanCap
    BY <2>1, BoundsAssumption DEF Init, SourceInit
  <2>5. /\ lives \in 0..MaxLives /\ watermark \in 0..MaxRecv
        /\ start_watermark \in 0..MaxRecv /\ max_recv \in 0..MaxRecv
    BY BoundsAssumption DEF Init
  <2> QED
    BY <2>2, <2>3, <2>4, <2>5, BoundsAssumption DEF Init, TypeOK
<1>2. TypeOK /\ [Next]_vars => TypeOK'
  <2> SUFFICES ASSUME TypeOK, [Next]_vars
               PROVE  TypeOK'
    OBVIOUS
  <2>0. /\ Len(log) \in Nat /\ DOMAIN batch = 1..Len(batch) /\ Len(batch) \in Nat
        /\ \A S : <<>> \in Seq(S)
        /\ Len(<<>>) = 0
    BY LenProperties, EmptySeq DEF TypeOK, SourceTypeOK
  <2> USE <2>0, BoundsAssumption DEF TypeOK, SourceTypeOK, LifeLeft
  <2>h. ASSUME Halt, UNCHANGED sourceVars, watermark' \in 0..MaxRecv,
               stream' \in Seq(1..Len(log)), flows' \in Seq(1..Len(log))
        PROVE  TypeOK'
    <3>1. batch' \in Seq(1..Len(log)) /\ Len(batch') = 0
      BY <2>h DEF Halt
    <3>2. log' = log /\ SourceTypeOK'
      BY <2>h DEF sourceVars
    <3>3. /\ pc' = "down" /\ after' = "select" /\ closed' = FALSE
          /\ lo' = 0 /\ pos' = 0 /\ got' = 0 /\ start_watermark' = 0 /\ max_recv' = 0
          /\ lives' = lives
      BY <2>h DEF Halt
    <3>4. batch' \in Seq(1..Len(log')) /\ Len(batch') < BatchMax /\ Len(batch') <= BatchMax
      BY <3>1, <3>2
    <3>5. /\ lo' \in Nat /\ got' \in lo'..pos' /\ pos' \in got'..Len(log')
          /\ pos' - got' <= ChanCap
      BY <3>2, <3>3
    <3>6. lives' \in 0..MaxLives /\ start_watermark' \in 0..MaxRecv /\ max_recv' \in 0..MaxRecv
      BY <3>3
    <3> QED
      BY <2>h, <3>2, <3>3, <3>4, <3>5, <3>6
  <2>1. ASSUME NEW r \in Record, Emit(r),
               UNCHANGED <<storeVars, lives, pc, after, parserVars, loopVars>>
        PROVE  TypeOK'
    <3>1. log' \in Seq(Record) /\ Len(log') = Len(log) + 1
      BY <2>1, AppendProperties DEF Emit
    <3>2. 1..Len(log) \subseteq 1..Len(log')
      BY <3>1, LenProperties
    <3>3. /\ stream \in Seq(1..Len(log')) /\ flows \in Seq(1..Len(log'))
          /\ batch \in Seq(1..Len(log'))
      BY <3>2, SeqMonotonic
    <3> QED
      BY <2>1, <3>1, <3>3 DEF Emit, storeVars, parserVars, loopVars
  <2>2. CASE Rotate /\ UNCHANGED <<storeVars, lives, pc, after, parserVars, loopVars>>
    BY <2>2, LenProperties DEF Rotate, storeVars, parserVars, loopVars
  <2>3. CASE Start
    BY <2>3, LenProperties DEF Start, sourceVars, storeVars
  <2>4. CASE Read
    BY <2>4, LenProperties DEF Read, sourceVars, storeVars, loopVars
  <2>5. CASE ReadCorrupt
    BY <2>5 DEF ReadCorrupt, sourceVars, storeVars, loopVars
  <2>6. CASE SourceEof
    BY <2>6 DEF SourceEof, sourceVars, storeVars, loopVars
  <2>7. CASE Receive
    <3> DEFINE i == got + 1
    <3>1. i \in 1..Len(log) /\ log[i].recv \in 1..MaxRecv
      <4>1. i \in 1..Len(log)
        BY <2>7 DEF Receive
      <4>2. log[i] \in Record
        BY <4>1, ElementOfSeq
      <4> QED
        BY <4>1, <4>2 DEF Record
    <3>2. max_recv' \in 0..MaxRecv
      <4>1. max_recv' \in {log[i].recv, max_recv}
        BY <2>7 DEF Receive, Highest
      <4> QED
        BY <3>1, <4>1, SMTT(30)
    <3>3. /\ Append(batch, i) \in Seq(1..Len(log))
          /\ Len(Append(batch, i)) = Len(batch) + 1
      BY <3>1, AppendProperties
    <3>4. batch' \in {batch, Append(batch, i)}
      BY <2>7 DEF Receive
    <3>5. /\ batch' \in Seq(1..Len(log))
          /\ Len(batch') \in Nat /\ Len(batch') <= Len(batch) + 1
      <4>1. CASE batch' = batch
        BY <4>1
      <4>2. CASE batch' = Append(batch, i)
        BY <3>3, <4>2
      <4> QED
        BY <3>4, <4>1, <4>2
    <3>6. /\ Len(batch') <= BatchMax
          /\ pc' \in {"redis", "select"}
          /\ pc' = "select" => Len(batch') < BatchMax
      <4>1. pc = "select" /\ pc' = IF Len(batch') >= BatchMax THEN "redis" ELSE "select"
        BY <2>7 DEF Receive, Full
      <4> QED
        BY <3>5, <4>1
    <3>7. got' \in lo..pos /\ pos \in got'..Len(log) /\ pos - got' <= ChanCap
      BY <2>7 DEF Receive
    <3> QED
      BY <2>7, <3>2, <3>5, <3>6, <3>7 DEF Receive, sourceVars, storeVars, parserVars
  <2>8. CASE Tick
    BY <2>8 DEF Tick, sourceVars, storeVars, parserVars, loopVars
  <2>9. CASE Drained
    <3>1. CASE batch = <<>>
      BY <2>9, <3>1, <2>h DEF Drained, FlushAndExit, storeVars
    <3>2. CASE batch # <<>>
      BY <2>9, <3>2 DEF Drained, FlushAndExit, sourceVars, storeVars, parserVars, loopVars
    <3> QED
      BY <3>1, <3>2
  <2>10. CASE CtrlC
    <3>1. CASE batch = <<>>
      BY <2>10, <3>1, <2>h DEF CtrlC, FlushAndExit, storeVars
    <3>2. CASE batch # <<>>
      BY <2>10, <3>2 DEF CtrlC, FlushAndExit, sourceVars, storeVars, parserVars, loopVars
    <3> QED
      BY <3>1, <3>2
  <2>11. CASE FlushRedis
    BY <2>11, ConcatProperties DEF FlushRedis, sourceVars, parserVars, loopVars
  <2>12. CASE FlushRedisFails
    <3>1. PICK n \in 0..Len(batch) : stream' = stream \o SubSeq(batch, 1, n)
      BY <2>12 DEF FlushRedisFails
    <3>2. SubSeq(batch, 1, n) \in Seq(1..Len(log))
      BY <3>1, SubSeqProperties, ElementOfSeq
    <3> QED
      BY <2>12, <3>1, <3>2, <2>h, ConcatProperties DEF FlushRedisFails
  <2>13. CASE FlushInsert
    BY <2>13, ConcatProperties DEF FlushInsert, sourceVars, parserVars, loopVars
  <2>14. CASE FlushInsertFails
    <3>1. flows \o batch \in Seq(1..Len(log))
      BY ConcatProperties
    <3>2. flows' \in Seq(1..Len(log))
      BY <2>14, <3>1 DEF FlushInsertFails
    <3> QED
      BY <2>14, <3>2, <2>h DEF FlushInsertFails, sourceVars
  <2>15. CASE FlushSet
    <3>1. watermark' \in 0..MaxRecv
      BY <2>15 DEF FlushSet, NewMark
    <3>2. CASE after = "down"
      BY <2>15, <3>1, <3>2, <2>h DEF FlushSet, Flushed
    <3>3. CASE after # "down"
      BY <2>15, <3>1, <3>3 DEF FlushSet, Flushed, sourceVars, parserVars
    <3> QED
      BY <3>2, <3>3
  <2>16. CASE Crash
    BY <2>16, <2>h DEF Crash, storeVars
  <2>17. CASE EvictWatermark
    BY <2>17 DEF EvictWatermark, sourceVars, parserVars, loopVars
  <2>18. CASE UNCHANGED vars
    BY <2>18 DEF vars, sourceVars, storeVars, parserVars, loopVars
  <2> QED
    BY <2>1, <2>2, <2>3, <2>4, <2>5, <2>6, <2>7, <2>8, <2>9, <2>10, <2>11, <2>12,
       <2>13, <2>14, <2>15, <2>16, <2>17, <2>18
    DEF Next, Process, Failure, Produce
<1>3. QED
  BY <1>1, <1>2

\* Every variable keeps its type: the cursors stay ordered, the channel holds
\* at most ChanCap records and the batch at most BatchMax rows.
THEOREM TypeCorrect == Spec => []TypeOK
  BY TypeInductive, PTL DEF Spec
----------------------------------------------------------------------------
(***************************************************************************)
(* The inductive invariant.                                                *)
(***************************************************************************)

\* The elements of a concatenation, and of an appended sequence.
LEMMA RangeConcat ==
  ASSUME NEW S, NEW s \in Seq(S), NEW t \in Seq(S)
  PROVE  Range(s \o t) = Range(s) \cup Range(t)
<1>1. /\ s \o t \in Seq(S)
      /\ Len(s \o t) = Len(s) + Len(t)
      /\ \A i \in 1..(Len(s) + Len(t)) :
            (s \o t)[i] = IF i <= Len(s) THEN s[i] ELSE t[i - Len(s)]
  BY ConcatProperties
<1>2. /\ Len(s) \in Nat /\ DOMAIN s = 1..Len(s)
      /\ Len(t) \in Nat /\ DOMAIN t = 1..Len(t)
      /\ DOMAIN (s \o t) = 1..(Len(s) + Len(t))
  BY <1>1, LenProperties
<1>3. \A x \in Range(s \o t) : x \in Range(s) \cup Range(t)
  <2> TAKE x \in Range(s \o t)
  <2>1. PICK i \in 1..(Len(s) + Len(t)) : x = (s \o t)[i]
    BY <1>2 DEF Range
  <2>2. CASE i <= Len(s)
    BY <2>1, <2>2, <1>1, <1>2 DEF Range
  <2>3. CASE i > Len(s)
    <3>1. i - Len(s) \in 1..Len(t) /\ x = t[i - Len(s)]
      BY <2>1, <2>3, <1>1, <1>2
    <3> QED
      BY <3>1, <1>2 DEF Range
  <2> QED
    BY <2>2, <2>3, <1>2, <2>1
<1>4. \A x \in Range(s) : x \in Range(s \o t)
  <2> TAKE x \in Range(s)
  <2>1. PICK i \in 1..Len(s) : x = s[i]
    BY <1>2 DEF Range
  <2>2. i \in 1..(Len(s) + Len(t)) /\ (s \o t)[i] = x
    BY <2>1, <1>1, <1>2
  <2> QED
    BY <2>2, <1>2 DEF Range
<1>5. \A x \in Range(t) : x \in Range(s \o t)
  <2> TAKE x \in Range(t)
  <2>1. PICK i \in 1..Len(t) : x = t[i]
    BY <1>2 DEF Range
  <2>2. i + Len(s) \in 1..(Len(s) + Len(t)) /\ (s \o t)[i + Len(s)] = x
    BY <2>1, <1>1, <1>2
  <2> QED
    BY <2>2, <1>2 DEF Range
<1> QED
  BY <1>3, <1>4, <1>5

LEMMA RangeAppend ==
  ASSUME NEW S, NEW s \in Seq(S), NEW e \in S
  PROVE  /\ Range(Append(s, e)) = Range(s) \cup {e}
         /\ DOMAIN Append(s, e) = 1..(Len(s) + 1)
         /\ \A k \in 1..Len(s) : Append(s, e)[k] = s[k]
         /\ Append(s, e)[Len(s) + 1] = e
<1>1. /\ Append(s, e) \in Seq(S) /\ Len(Append(s, e)) = Len(s) + 1
      /\ \A k \in 1..Len(s) : Append(s, e)[k] = s[k]
      /\ Append(s, e)[Len(s) + 1] = e
  BY AppendProperties
<1>2. /\ DOMAIN Append(s, e) = 1..(Len(s) + 1)
      /\ DOMAIN s = 1..Len(s) /\ Len(s) \in Nat
  BY <1>1, LenProperties
<1> QED
  BY <1>1, <1>2 DEF Range

LEMMA RangeEmpty == Range(<<>>) = {} /\ DOMAIN <<>> = {}
  BY DEF Range

\* The records already in the log keep their kind, time and lateness when one
\* is emitted.
LEMMA EmitKeeps ==
  ASSUME TypeOK, NEW r \in Record, Emit(r)
  PROVE  /\ Len(log') = Len(log) + 1
         /\ \A i \in 1..Len(log) :
              /\ log'[i] = log[i]
              /\ IsRow(i)' <=> IsRow(i)
              /\ Stamped(i)' <=> Stamped(i)
              /\ Late(i)' <=> Late(i)
<1>1. /\ Len(log') = Len(log) + 1
      /\ \A i \in 1..Len(log) : log'[i] = log[i]
  BY AppendProperties DEF Emit, TypeOK, SourceTypeOK
<1>2. \A i \in 1..Len(log) :
        (IsRow(i)' <=> IsRow(i)) /\ (Stamped(i)' <=> Stamped(i))
  BY <1>1 DEF IsRow, Stamped
<1>3. ASSUME NEW i \in 1..Len(log)
      PROVE  Late(i)' <=> Late(i)
  <2>1. Len(log) \in Nat
    BY LenProperties DEF TypeOK, SourceTypeOK
  <2>2. 1..(i - 1) \subseteq 1..Len(log)
    BY <2>1
  <2> QED
    BY <1>1, <1>2, <2>2 DEF Late
<1> QED
  BY <1>1, <1>2, <1>3
\* A covering mark that was seen still covers when a record is emitted: a
\* record below it is late.
LEMMA EmitKeepsCovers ==
  ASSUME TypeOK, NEW r \in Record, Emit(r), flows' = flows,
         NEW w \in 0..MaxRecv, Seen(w), Covers(w)
  PROVE  /\ Seen(w)'
         /\ Covers(w)'
<1>0. /\ Len(log) \in Nat /\ Len(log') = Len(log) + 1 /\ base' = base
      /\ base \in 0..Len(log) /\ log' \in Seq(Record)
  BY EmitKeeps, LenProperties, AppendProperties DEF TypeOK, SourceTypeOK, Emit
<1>1. Seen(w)'
  BY <1>0, EmitKeeps DEF Seen
<1>2. ASSUME NEW i \in (base + 1)..Len(log'),
             IsRow(i)', ~Late(i)', log'[i].recv < w
      PROVE  i \in Range(flows)
  <2>1. CASE i \in 1..Len(log)
    BY <2>1, <1>0, <1>2, EmitKeeps DEF Covers
  <2>2. CASE i = Len(log) + 1
    <3>1. log'[i].recv \in Nat
      <4>1. log'[i] \in Record
        BY <1>0, ElementOfSeq
      <4> QED
        BY <4>1 DEF Record
    <3>2. PICK j \in 1..Len(log) : Stamped(j) /\ log[j].recv = w
      BY <3>1, <1>2 DEF Seen
    <3>3. j \in 1..(i - 1) /\ Stamped(j)' /\ log'[j].recv = w
      BY <3>2, <2>2, <1>0, EmitKeeps
    <3>4. Late(i)'
      BY <3>1, <3>3, <1>2 DEF Late
    <3> QED
      BY <3>4, <1>2
  <2> QED
    BY <2>1, <2>2, <1>0
<1> QED
  BY <1>1, <1>2, <1>0 DEF Covers

\* A record of the log has a receive time; lateness aside.
LEMMA RecvTimes ==
  ASSUME TypeOK
  PROVE  \A i \in 1..Len(log) : log[i].recv \in 1..MaxRecv
<1>1. \A i \in 1..Len(log) : log[i] \in Record
  BY ElementOfSeq DEF TypeOK, SourceTypeOK
<1> QED
  BY <1>1 DEF Record

\* When the SET is about to be sent, the highest receive time seen covers: a
\* row below it that is not late was received no later than the record that
\* has it, so this process stored it or skipped it as stored.
LEMMA HighestCovers ==
  ASSUME IInv, pc = "set", source = "flowd"
  PROVE  Covers(max_recv)
<1> USE DEF IInv, Running
<1>0. /\ Len(log) \in Nat /\ base \in 0..Len(log) /\ lo \in Nat /\ lo <= base
      /\ got \in Nat /\ max_recv \in Nat /\ start_watermark \in Nat
      /\ max_recv >= start_watermark
  BY LenProperties, BoundsAssumption DEF TypeOK, SourceTypeOK, Accounted, HighestSeen
<1> SUFFICES ASSUME NEW i \in (base + 1)..Len(log),
                    IsRow(i), ~Late(i), log[i].recv < max_recv
             PROVE  i \in Range(flows)
  BY DEF Covers
<1>1. i \in 1..Len(log) /\ log[i].recv \in Nat
  BY <1>0, RecvTimes
<1>2. CASE log[i].recv < start_watermark
  BY <1>2 DEF MarksCover, Covers
<1>3. CASE log[i].recv >= start_watermark
  <2>1. PICK j \in (lo + 1)..got : Stamped(j) /\ log[j].recv = max_recv
    BY <1>0, <1>1, <1>3 DEF HighestSeen
  <2>2. i <= j
    BY <2>1, <1>0, <1>1 DEF Late
  <2>3. i \in (lo + 1)..got
    BY <2>1, <2>2, <1>0, <1>1
  <2> QED
    BY <2>3, <1>3 DEF Accounted, FlushProgress
<1> QED
  BY <1>0, <1>1, <1>2, <1>3

\* Initially nothing is stored, seen or received.
LEMMA InvInit == Init => IInv
<1> SUFFICES ASSUME Init PROVE IInv
  OBVIOUS
<1>1. TypeOK
  BY TypeInductive
<1>2. Len(log) = 0
  BY EmptySeq DEF Init, SourceInit
<1>3. MarksCover /\ MarksSeen
  BY <1>2 DEF Init, SourceInit, MarksCover, MarksSeen, Covers, Seen, Running
<1>4. FlushProgress /\ StoredWasPublished
  BY RangeEmpty DEF Init, FlushProgress, StoredWasPublished
<1>5. BatchOrdered
  BY RangeEmpty DEF Init, BatchOrdered
<1>6. HighestSeen /\ Accounted /\ PipeOnce /\ MarkBehind
  BY DEF Init, HighestSeen, Accounted, PipeOnce, MarkBehind, Running
<1> QED
  BY <1>1, <1>3, <1>4, <1>5, <1>6 DEF IInv
\* A process that ends leaves an invariant state if the stores are in order.
LEMMA HaltKeeps ==
  ASSUME IInv, TypeOK', Halt, UNCHANGED <<sourceVars, watermark>>,
         Range(flows) \subseteq Range(flows'), StoredWasPublished'
  PROVE  IInv'
<1>1. MarksCover' /\ MarksSeen'
  BY DEF IInv, Halt, sourceVars, MarksCover, MarksSeen, Covers, Seen, Late,
         IsRow, Stamped, Running
<1>2. /\ batch' = <<>> /\ pc' = "down"
      /\ BatchOrdered' /\ FlushProgress'
  BY RangeEmpty DEF Halt, BatchOrdered, FlushProgress
<1>3. HighestSeen' /\ Accounted' /\ PipeOnce' /\ MarkBehind'
  BY <1>2 DEF HighestSeen, Accounted, PipeOnce, MarkBehind, Running
<1> QED
  BY <1>1, <1>2, <1>3 DEF IInv

\* The steps that touch neither the log, the stores nor the main loop's
\* variables keep the invariant if the flush does not get ahead.
LEMMA FrameKeeps ==
  ASSUME IInv, TypeOK',
         UNCHANGED <<sourceVars, storeVars, loopVars, lo>>,
         \/ pc' = pc
         \/ pc = "select" /\ pc' = "redis" /\ batch # <<>>
  PROVE  IInv'
<1> USE DEF IInv, sourceVars, storeVars, loopVars, Running
<1>1. MarksCover' /\ MarksSeen'
  BY DEF MarksCover, MarksSeen, Covers, Seen, Late, IsRow, Stamped
<1>2. BatchOrdered' /\ FlushProgress' /\ StoredWasPublished'
  BY DEF BatchOrdered, FlushProgress, StoredWasPublished, IsRow
<1>3. HighestSeen' /\ Accounted' /\ PipeOnce' /\ MarkBehind'
  BY DEF HighestSeen, Accounted, PipeOnce, MarkBehind, Stamped, IsRow
<1> QED
  BY <1>1, <1>2, <1>3

\* Every step preserves the invariant.
LEMMA InvStep == IInv /\ [Next]_vars => IInv'
<1> SUFFICES ASSUME IInv, [Next]_vars
             PROVE  IInv'
  OBVIOUS
<1> USE DEF IInv
<1>t. TypeOK'
  BY TypeInductive
<1>b. /\ Len(log) \in Nat /\ base \in 0..Len(log)
      /\ batch \in Seq(1..Len(log)) /\ flows \in Seq(1..Len(log))
      /\ stream \in Seq(1..Len(log))
      /\ Len(batch) \in Nat /\ DOMAIN batch = 1..Len(batch)
      /\ Range(flows) \subseteq 1..Len(log) /\ Range(batch) \subseteq 1..Len(log)
      /\ lo \in Nat /\ got \in lo..pos /\ pos \in got..Len(log)
      /\ watermark \in Nat /\ max_recv \in Nat /\ start_watermark \in Nat
  <2>1. /\ \A k \in 1..Len(flows) : flows[k] \in 1..Len(log)
        /\ \A k \in 1..Len(batch) : batch[k] \in 1..Len(log)
    BY ElementOfSeq DEF TypeOK
  <2>2. /\ Len(log) \in Nat /\ Len(batch) \in Nat /\ DOMAIN batch = 1..Len(batch)
        /\ DOMAIN flows = 1..Len(flows)
    BY LenProperties DEF TypeOK, SourceTypeOK
  <2>3. Range(flows) \subseteq 1..Len(log) /\ Range(batch) \subseteq 1..Len(log)
    BY <2>1, <2>2 DEF Range
  <2> QED
    BY <2>2, <2>3, BoundsAssumption DEF TypeOK, SourceTypeOK
<1>1. ASSUME NEW r \in Record, Emit(r),
             UNCHANGED <<storeVars, lives, pc, after, parserVars, loopVars>>
      PROVE  IInv'
  <2> USE DEF storeVars, parserVars, loopVars
  <2>1. /\ UNCHANGED <<source, base>> /\ Len(log') = Len(log) + 1
        /\ \A i \in 1..Len(log) :
             /\ log'[i] = log[i]
             /\ IsRow(i)' <=> IsRow(i)
             /\ Stamped(i)' <=> Stamped(i)
             /\ Late(i)' <=> Late(i)
    BY <1>1, EmitKeeps DEF Emit
  <2>2. /\ watermark \in 0..MaxRecv /\ start_watermark \in 0..MaxRecv
        /\ max_recv \in 0..MaxRecv
    BY DEF TypeOK
  <2>3. MarksSeen'
    BY <1>1, <2>1, <1>b DEF MarksSeen, Seen
  <2>4. MarksCover'
    <3>1. \A w \in 0..MaxRecv : Seen(w) /\ Covers(w) => Covers(w)'
      BY <1>1, EmitKeepsCovers
    <3>2. source = "flowd" => Covers(watermark)'
      BY <1>1, <2>2, <3>1 DEF MarksCover, MarksSeen, Covers
    <3>3. Running /\ source = "flowd" => Covers(start_watermark)'
      BY <1>1, <2>2, <3>1 DEF MarksCover, MarksSeen, Covers
    <3> QED
      BY <1>1, <2>1, <3>2, <3>3 DEF MarksCover, Running
  <2>5. BatchOrdered'
    BY <1>1, <2>1, <1>b DEF BatchOrdered
  <2>6. (lo + 1)..got \subseteq 1..Len(log)
    BY <1>b
  <2>7. HighestSeen' /\ MarkBehind'
    BY <1>1, <2>1, <2>6 DEF HighestSeen, MarkBehind, Running
  <2>9. Accounted' /\ PipeOnce'
    BY <1>1, <2>1, <2>6 DEF Accounted, PipeOnce, Running
  <2>8. FlushProgress' /\ StoredWasPublished'
    BY <1>1 DEF FlushProgress, StoredWasPublished
  <2> QED
    BY <1>t, <2>3, <2>4, <2>5, <2>7, <2>8, <2>9
<1>2. CASE Rotate /\ UNCHANGED <<storeVars, lives, pc, after, parserVars, loopVars>>
  <2> USE DEF storeVars, parserVars, loopVars, Rotate, Running
  <2>1. MarksCover' /\ MarksSeen'
    BY <1>2, <1>b DEF MarksCover, MarksSeen, Covers, Seen, Stamped
  <2>2. BatchOrdered' /\ FlushProgress' /\ StoredWasPublished'
    BY <1>2 DEF BatchOrdered, FlushProgress, StoredWasPublished, IsRow
  <2>3. HighestSeen' /\ Accounted' /\ PipeOnce' /\ MarkBehind'
    BY <1>2, <1>b DEF HighestSeen, Accounted, PipeOnce, MarkBehind, Stamped, IsRow
  <2> QED
    BY <1>t, <2>1, <2>2, <2>3
<1>3. CASE Start
  <2> USE DEF Start, storeVars, sourceVars
  <2>1. /\ batch' = <<>> /\ pc' = "select"
        /\ lo' = got' /\ lo' = IF source = "flowd" THEN base ELSE Len(log)
        /\ max_recv' = start_watermark' /\ start_watermark' \in {watermark, 0}
    BY <1>3 DEF BatchOrdered
  <2>2. UNCHANGED <<source, log, base, stream, flows, watermark>>
    BY <1>3
  <2>3. Covers(0) /\ Seen(0)
    BY <1>b, RecvTimes DEF Covers, Seen
  <2>4. MarksSeen'
    BY <2>1, <2>2, <2>3 DEF MarksSeen, Seen, Stamped
  <2>5. MarksCover'
    BY <2>1, <2>2, <2>3 DEF MarksCover, Covers, Late, Stamped, IsRow
  <2>6. BatchOrdered' /\ FlushProgress' /\ StoredWasPublished'
    BY <2>1, <2>2, RangeEmpty DEF BatchOrdered, FlushProgress, StoredWasPublished
  <2>7. HighestSeen'
    BY <2>1, <1>b DEF HighestSeen
  <2>8. Accounted'
    BY <2>1, <2>2, <1>b DEF Accounted
  <2>9. PipeOnce'
    BY <2>1, <2>2, <1>b, RangeEmpty DEF PipeOnce
  <2>10. MarkBehind'
    BY <2>1, <2>2, <1>b DEF MarkBehind
  <2> QED
    BY <1>t, <2>4, <2>5, <2>6, <2>7, <2>8, <2>9, <2>10
<1>4. CASE Read
  BY <1>4, <1>t, FrameKeeps DEF Read, sourceVars, storeVars, loopVars
<1>5. CASE ReadCorrupt
  BY <1>5, <1>t, FrameKeeps DEF ReadCorrupt, sourceVars, storeVars, loopVars
<1>6. CASE SourceEof
  BY <1>6, <1>t, FrameKeeps DEF SourceEof, sourceVars, storeVars, loopVars
<1>7. CASE Tick
  BY <1>7, <1>t, FrameKeeps DEF Tick, sourceVars, storeVars, parserVars, loopVars
<1>8. CASE Receive
  <2> DEFINE i == got + 1
  <2>1. /\ UNCHANGED <<source, log, base, stream, flows, watermark, lo, start_watermark>>
        /\ pc = "select" /\ got' = i /\ pc' \in {"select", "redis"}
        /\ i \in 1..Len(log) /\ i \notin 1..got
        /\ max_recv' = Highest(i)
        /\ batch' = IF IsRow(i) /\ ~Skipped(i) THEN Append(batch, i) ELSE batch
        /\ pc' = "redis" => Len(batch') >= BatchMax
    BY <1>8, <1>b DEF Receive, sourceVars, storeVars, parserVars, Full
  <2>2. log[i].recv \in 1..MaxRecv
    BY <2>1, RecvTimes
  <2>3. /\ Range(Append(batch, i)) = Range(batch) \cup {i}
        /\ DOMAIN Append(batch, i) = 1..(Len(batch) + 1)
        /\ \A k \in 1..Len(batch) : Append(batch, i)[k] = batch[k]
        /\ Append(batch, i)[Len(batch) + 1] = i
    <3>1. batch \in Seq(1..Len(log)) /\ i \in 1..Len(log)
      BY <2>1, <1>b
    <3> QED
      BY <3>1, RangeAppend
  <2>4. \A k \in 1..Len(batch) : batch[k] \in (lo + 1)..got /\ IsRow(batch[k])
    BY <1>b DEF BatchOrdered
  <2>5. batch' # <<>> \/ pc' = "select"
    BY <2>1, BoundsAssumption, EmptySeq
  <2>6. MarksSeen' /\ MarksCover'
    <3>1. Seen(max_recv)'
      BY <2>1, <2>2 DEF MarksSeen, Seen, Highest, Stamped
    <3> QED
      BY <2>1, <3>1 DEF MarksSeen, MarksCover, Seen, Covers, Late, Stamped, IsRow, Running
  <2>7. BatchOrdered'
    <3>1. CASE batch' = batch
      <4>1. \A k \in DOMAIN batch : batch[k] \in (lo + 1)..i
        BY <2>4, <1>b
      <4> QED
        BY <2>1, <2>5, <3>1, <4>1 DEF BatchOrdered, IsRow
    <3>2. CASE IsRow(i) /\ batch' = Append(batch, i)
      <4>1. \A k \in DOMAIN batch' : batch'[k] \in (lo + 1)..i /\ IsRow(batch'[k])
        <5> TAKE k \in DOMAIN batch'
        <5>1. CASE k = Len(batch) + 1
          BY <5>1, <2>3, <3>2, <1>b
        <5>2. CASE k \in 1..Len(batch)
          BY <5>2, <2>3, <2>4, <3>2, <1>b
        <5>3. k \in 1..(Len(batch) + 1) /\ Len(batch) \in Nat
          BY <2>3, <3>2, <1>b
        <5> QED
          BY <5>1, <5>2, <5>3
      <4>2. \A j, k \in DOMAIN batch' : j < k => batch'[j] < batch'[k]
        <5> TAKE j, k \in DOMAIN batch'
        <5> HAVE j < k
        <5>1. j \in 1..Len(batch) /\ batch'[j] = batch[j] /\ batch[j] < i
          BY <2>3, <2>4, <3>2, <1>b, SMTT(30)
        <5>2. CASE k = Len(batch) + 1
          BY <5>1, <5>2, <2>3, <3>2
        <5>3. CASE k \in 1..Len(batch)
          BY <5>1, <5>3, <2>3, <3>2, <1>b DEF BatchOrdered
        <5> QED
          BY <5>2, <5>3, <2>3, <3>2, <1>b
      <4> QED
        BY <4>1, <4>2, <2>1, <2>5 DEF BatchOrdered, IsRow
    <3> QED
      BY <3>1, <3>2, <2>1
  <2>8. HighestSeen' /\ MarkBehind'
    <3>1. CASE max_recv' = max_recv
      <4>1. (lo + 1)..got \subseteq (lo + 1)..i
        BY <1>b
      <4> QED
        BY <2>1, <3>1, <4>1 DEF HighestSeen, MarkBehind, Running, Stamped
    <3>2. CASE Stamped(i) /\ max_recv' = log[i].recv /\ max_recv' > max_recv
      <4>1. i \in (lo + 1)..i /\ max_recv' >= start_watermark
        BY <2>1, <2>2, <3>2, <1>b, SMTT(30) DEF HighestSeen, Running
      <4>2. HighestSeen'
        BY <2>1, <3>2, <4>1 DEF HighestSeen, Running, Stamped
      <4>3. MarkBehind'
        BY <2>1, <2>2, <3>2, <1>b DEF MarkBehind, Running
      <4> QED
        BY <4>2, <4>3
    <3> QED
      BY <2>1, <3>1, <3>2 DEF Highest
  <2>9. Accounted'
    <3>1. IsRow(i) /\ log[i].recv >= start_watermark => i \in Range(batch')
      BY <2>1, <2>2, <2>3, <1>b DEF Skipped
    <3>2. Range(batch) \subseteq Range(batch')
      BY <2>1, <2>3
    <3> QED
      BY <2>1, <3>1, <3>2, <1>b, SMTT(30) DEF Accounted, Running, IsRow
  <2>10. PipeOnce'
    BY <2>1, <2>3, <1>b DEF PipeOnce, Running
  <2>11. FlushProgress' /\ StoredWasPublished'
    BY <2>1 DEF FlushProgress, StoredWasPublished
  <2> QED
    BY <1>t, <2>6, <2>7, <2>8, <2>9, <2>10, <2>11
<1>9. CASE Drained \/ CtrlC
  <2>1. UNCHANGED sourceVars /\ UNCHANGED storeVars /\ pc = "select" /\ FlushAndExit
    BY <1>9 DEF Drained, CtrlC, sourceVars, storeVars
  <2>2. CASE batch = <<>>
    BY <2>1, <2>2, <1>t, HaltKeeps DEF FlushAndExit, storeVars, StoredWasPublished
  <2>3. CASE batch # <<>>
    BY <2>1, <2>3, <1>t, FrameKeeps DEF FlushAndExit, parserVars, loopVars, storeVars
  <2> QED
    BY <2>2, <2>3
<1>10. CASE FlushRedis
  <2> USE DEF FlushRedis, sourceVars, parserVars, loopVars, Running
  <2>1. Range(stream') = Range(stream) \cup Range(batch)
    BY <1>10, <1>b, RangeConcat
  <2>2. FlushProgress' /\ StoredWasPublished'
    BY <1>10, <2>1 DEF FlushProgress, StoredWasPublished
  <2>3. MarksCover' /\ MarksSeen'
    BY <1>10 DEF MarksCover, MarksSeen, Covers, Seen, Late, IsRow, Stamped
  <2>4. BatchOrdered'
    BY <1>10 DEF BatchOrdered, IsRow
  <2>5. HighestSeen' /\ Accounted' /\ PipeOnce' /\ MarkBehind'
    BY <1>10 DEF HighestSeen, Accounted, PipeOnce, MarkBehind, Stamped, IsRow
  <2> QED
    BY <1>t, <2>2, <2>3, <2>4, <2>5
<1>11. CASE FlushRedisFails
  <2>1. PICK n \in 0..Len(batch) : stream' = stream \o SubSeq(batch, 1, n)
    BY <1>11 DEF FlushRedisFails
  <2>2. SubSeq(batch, 1, n) \in Seq(1..Len(log))
    BY <2>1, <1>b, SubSeqProperties, ElementOfSeq
  <2>3. Range(stream) \subseteq Range(stream')
    <3>1. stream \in Seq(1..Len(log))
      BY <1>b
    <3> QED
      <4>1. Range(stream \o SubSeq(batch, 1, n)) = Range(stream) \cup Range(SubSeq(batch, 1, n))
        BY <2>2, <3>1, RangeConcat, ZenonT(30)
      <4> QED
        BY <2>1, <4>1
  <2> QED
    BY <1>11, <1>t, <2>3, HaltKeeps DEF FlushRedisFails, StoredWasPublished
<1>12. CASE FlushInsert
  <2> USE DEF FlushInsert, sourceVars, parserVars, loopVars, Running
  <2>1. Range(flows') = Range(flows) \cup Range(batch)
    BY <1>12, <1>b, RangeConcat
  <2>2. FlushProgress' /\ StoredWasPublished'
    BY <1>12, <2>1 DEF FlushProgress, StoredWasPublished
  <2>3. MarksCover' /\ MarksSeen'
    BY <1>12, <2>1 DEF MarksCover, MarksSeen, Covers, Seen, Late, IsRow, Stamped
  <2>4. BatchOrdered' /\ HighestSeen' /\ MarkBehind'
    BY <1>12 DEF BatchOrdered, IsRow, HighestSeen, MarkBehind, Stamped
  <2>5. Accounted'
    BY <1>12, <2>1 DEF Accounted, IsRow
  <2>6. \A i \in Range(batch) : i <= got
    BY <1>b DEF BatchOrdered, Range
  <2>7. PipeOnce'
    BY <1>12, <2>1, <2>6 DEF PipeOnce
  <2> QED
    BY <1>t, <2>2, <2>3, <2>4, <2>5, <2>7
<1>13. CASE FlushInsertFails
  <2>1. Range(flows \o batch) = Range(flows) \cup Range(batch)
    BY <1>b, RangeConcat
  <2>2. /\ Range(flows) \subseteq Range(flows')
        /\ StoredWasPublished'
    BY <1>13, <2>1 DEF FlushInsertFails, StoredWasPublished, FlushProgress
  <2> QED
    BY <1>13, <1>t, <2>2, HaltKeeps DEF FlushInsertFails
<1>14. CASE FlushSet
  <2> USE DEF Running
  <2>1. /\ UNCHANGED <<source, log, base, stream, flows>>
        /\ pc = "set" /\ watermark' \in {max_recv, watermark}
        /\ Range(batch) \subseteq Range(flows)
    BY <1>14 DEF FlushSet, NewMark, sourceVars, FlushProgress
  <2>2. /\ source = "flowd" => Covers(watermark)'
        /\ Seen(watermark)' /\ Seen(start_watermark) /\ Seen(max_recv)
        /\ source = "flowd" => Covers(start_watermark)
    BY <2>1, HighestCovers
    DEF MarksCover, MarksSeen, Covers, Seen, Late, IsRow, Stamped
  <2>3. StoredWasPublished'
    BY <2>1 DEF StoredWasPublished
  <2>4. CASE Halt
    <3>1. /\ batch' = <<>> /\ pc' = "down" /\ start_watermark' = 0 /\ max_recv' = 0
      BY <2>4 DEF Halt
    <3>2. MarksCover' /\ MarksSeen'
      BY <2>1, <2>2, <3>1 DEF MarksCover, MarksSeen, Seen
    <3>3. BatchOrdered' /\ FlushProgress'
      BY <3>1, RangeEmpty DEF BatchOrdered, FlushProgress
    <3>4. HighestSeen' /\ Accounted' /\ PipeOnce' /\ MarkBehind'
      BY <3>1 DEF HighestSeen, Accounted, PipeOnce, MarkBehind
    <3> QED
      BY <1>t, <2>3, <3>2, <3>3, <3>4
  <2>5. CASE /\ pc' = "select" /\ batch' = <<>>
             /\ UNCHANGED <<lo, got, start_watermark, max_recv>>
    <3>1. MarksCover' /\ MarksSeen'
      BY <2>1, <2>2, <2>5 DEF MarksCover, MarksSeen, Covers, Seen, Late, IsRow, Stamped
    <3>2. BatchOrdered' /\ FlushProgress'
      BY <2>5, RangeEmpty DEF BatchOrdered, FlushProgress
    <3>3. HighestSeen' /\ MarkBehind'
      BY <2>1, <2>5, <1>b DEF HighestSeen, MarkBehind, Stamped
    <3>4. Accounted' /\ PipeOnce'
      BY <2>1, <2>5, RangeEmpty DEF Accounted, PipeOnce, IsRow
    <3> QED
      BY <1>t, <2>3, <3>1, <3>2, <3>3, <3>4
  <2> QED
    BY <1>14, <2>4, <2>5 DEF FlushSet, Flushed, parserVars
<1>15. CASE Crash
  BY <1>15, <1>t, HaltKeeps DEF Crash, storeVars, StoredWasPublished
<1>16. CASE EvictWatermark
  <2> USE DEF EvictWatermark, sourceVars, parserVars, loopVars, Running
  <2>1. Covers(0) /\ Seen(0)
    BY <1>b, RecvTimes DEF Covers, Seen
  <2>2. MarksCover' /\ MarksSeen'
    BY <1>16, <2>1 DEF MarksCover, MarksSeen, Covers, Seen, Late, IsRow, Stamped
  <2>3. BatchOrdered' /\ FlushProgress' /\ StoredWasPublished'
    BY <1>16 DEF BatchOrdered, FlushProgress, StoredWasPublished, IsRow
  <2>4. HighestSeen' /\ Accounted' /\ PipeOnce' /\ MarkBehind'
    BY <1>16, <1>b DEF HighestSeen, Accounted, PipeOnce, MarkBehind, Stamped, IsRow
  <2> QED
    BY <1>t, <2>2, <2>3, <2>4
<1>17. CASE UNCHANGED vars
  BY <1>17, <1>t, FrameKeeps DEF vars, parserVars
<1> QED
  BY <1>1, <1>2, <1>3, <1>4, <1>5, <1>6, <1>7, <1>8, <1>9, <1>10, <1>11, <1>12,
     <1>13, <1>14, <1>15, <1>16, <1>17
  DEF Next, Process, Failure, Produce
\* The strengthened invariant holds in every reachable state.
THEOREM Invariance == Spec => []IInv
  BY InvInit, InvStep, PTL DEF Spec

----------------------------------------------------------------------------
(***************************************************************************)
(* What follows from it.                                                   *)
(***************************************************************************)

\* D!Covers says what Covers says.
LEMMA CoversIs == \A w : D!Covers(w) <=> Covers(w)
<1>1. \A i : /\ D!IsRow(i) <=> IsRow(i)
             /\ D!Stamped(i) <=> Stamped(i)
  BY DEF D!IsRow, IsRow, D!Stamped, Stamped
<1>2. \A i : D!Late(i) <=> Late(i)
  BY <1>1 DEF D!Late, Late
<1> QED
  BY <1>1, <1>2 DEF D!Covers, Covers, D!Range, Range

\* Whatever fails, and however often the ingestor is started again, the
\* watermark it resumes from never covers a record whose row is missing
\* (main.rs:205-215, 244-248, 460-465).
THEOREM NothingSkippedIsLost == Spec => []WatermarkCovers
<1>1. IInv => WatermarkCovers
  BY CoversIs DEF IInv, MarksCover, WatermarkCovers
<1> QED
  BY <1>1, Invariance, PTL

\* Every row of the history was published to the live view before
\* (main.rs:403-458).
THEOREM PublishedFirst == Spec => []StoredWasPublished
<1>1. IInv => StoredWasPublished
  BY DEF IInv
<1> QED
  BY <1>1, Invariance, PTL

\* The watermark goes back only when the key is gone, or by a process that
\* did not find it (main.rs:207-214, 460-465).
THEOREM MarkGoesForward == Spec => WatermarkAdvances
<1>1. ASSUME IInv, [Next]_vars
      PROVE  [watermark' >= watermark \/ watermark' = 0 \/ start_watermark = 0]_vars
  <2>0. watermark \in Int
    BY <1>1 DEF IInv, TypeOK
  <2>1. CASE FlushSet
    <3>1. watermark' \in {max_recv, watermark} /\ Running
      BY <2>1 DEF FlushSet, NewMark, Running
    <3>2. start_watermark # 0 => watermark <= max_recv
      BY <1>1, <3>1 DEF IInv, MarkBehind
    <3> QED
      BY <2>0, <3>1, <3>2, <1>1 DEF IInv, TypeOK
  <2>2. CASE EvictWatermark
    BY <2>2 DEF EvictWatermark
  <2>3. CASE watermark' = watermark
    BY <2>0, <2>3
  <2> QED
    BY <1>1, <2>1, <2>2, <2>3
    DEF Next, Process, Failure, Produce, vars, storeVars, Start, Read, ReadCorrupt,
        SourceEof, Receive, Tick, Drained, CtrlC, FlushRedis, FlushRedisFails,
        FlushInsert, FlushInsertFails, Crash
<1> QED
  BY <1>1, Invariance, PTL DEF Spec, WatermarkAdvances

\* Every step of the ingestor is a step the delivery contract allows, or
\* invisible to it.
THEOREM ImplementsDelivery == Spec => RefinesDelivery
<1>1. Init => D!Init
  BY DEF Init, D!Init, SourceInit, D!SourceInit
<1>2. ASSUME IInv, IInv', [Next]_vars
      PROVE  [D!Next]_(D!vars)
  <2> USE DEF D!vars, D!sourceVars
  <2>1. CASE Produce
    BY <2>1 DEF Produce, storeVars, Emit, Rotate, D!Next, D!Produce, D!Emit, D!Rotate,
                Record, Kinds, D!Record, D!Kinds
  <2>2. ASSUME flows' = flows \o batch, UNCHANGED <<sourceVars, watermark>>,
               pc = "insert"
        PROVE  D!Next
    <3>1. /\ Len(batch) \in 1..BatchMax /\ DOMAIN batch = 1..Len(batch)
          /\ batch \in [1..Len(batch) -> 1..Len(log)]
      <4>1. batch \in Seq(1..Len(log)) /\ batch # <<>> /\ Len(batch) <= BatchMax
        BY <1>2, <2>2 DEF IInv, TypeOK, BatchOrdered
      <4> QED
        BY <4>1, EmptySeq, LenProperties, BoundsAssumption
    <3>2. batch \in D!Batches
      BY <3>1 DEF D!Batches
    <3>3. /\ \A k \in DOMAIN batch : D!IsRow(batch[k])
          /\ \A j, k \in DOMAIN batch : j < k => batch[j] < batch[k]
      BY <1>2 DEF IInv, BatchOrdered, IsRow, D!IsRow
    <3>4. source = "telegraf" => Range(batch) \cap Range(flows) = {}
      BY <1>2, <2>2 DEF IInv, PipeOnce, Running
    <3>5. D!Insert(batch)
      BY <2>2, <3>3, <3>4 DEF D!Insert, D!Range, Range, sourceVars
    <3> QED
      BY <3>2, <3>5 DEF D!Next
  <2>3. ASSUME watermark' # watermark, UNCHANGED <<sourceVars, flows>>
        PROVE  D!Next
    <3>1. watermark' \in 0..MaxRecv
      BY <1>2 DEF IInv, TypeOK
    <3>2. source = "flowd" => Covers(watermark')
      BY <1>2, <2>3
      DEF IInv, MarksCover, Covers, Late, IsRow, Stamped, sourceVars
    <3>3. D!Mark(watermark')
      BY <2>3, <3>2, CoversIs DEF D!Mark, sourceVars
    <3> QED
      BY <3>1, <3>3 DEF D!Next
  <2>4. CASE UNCHANGED <<sourceVars, flows, watermark>>
    BY <2>4 DEF sourceVars
  <2>5. CASE FlushInsert \/ FlushInsertFails
    BY <2>5, <2>2, <2>4 DEF FlushInsert, FlushInsertFails
  <2>6. CASE FlushSet \/ EvictWatermark
    BY <2>6, <2>3, <2>4 DEF FlushSet, EvictWatermark, sourceVars
  <2> QED
    BY <1>2, <2>1, <2>4, <2>5, <2>6
    DEF Next, Process, Failure, vars, storeVars, Start, Read, ReadCorrupt,
        SourceEof, Receive, Tick, Drained, CtrlC, FlushRedis, FlushRedisFails, Crash
<1> QED
  BY <1>1, <1>2, Invariance, PTL DEF Spec, RefinesDelivery, D!Spec

----------------------------------------------------------------------------
(***************************************************************************)
(* A process inserts a record once.                                        *)
(***************************************************************************)

Places(s, i) == {k \in DOMAIN s : s[k] = i}
Copies(i) == Cardinality(Places(flows, i))

\* A record has at most one row per process started, one less when this
\* process has not received it or has not inserted it yet.
PerLife ==
  /\ Running => lives > 0
  /\ \A i \in 1..Len(log) :
       /\ Copies(i) <= lives
       /\ Running /\ (i > got \/ (i \in Range(batch) /\ pc # "set")) => Copies(i) < lives
       /\ source = "telegraf" => Copies(i) <= 1

\* An element stands in finitely many places.
LEMMA PlacesFinite ==
  ASSUME NEW s \in Seq(Nat), NEW i
  PROVE  /\ Places(s, i) \subseteq 1..Len(s)
         /\ IsFiniteSet(Places(s, i)) /\ Cardinality(Places(s, i)) \in Nat
         /\ i \notin Range(s) => Cardinality(Places(s, i)) = 0
<1>1. Len(s) \in Nat /\ DOMAIN s = 1..Len(s)
  BY LenProperties
<1>2. Places(s, i) \subseteq 1..Len(s)
  BY <1>1 DEF Places
<1>3. IsFiniteSet(Places(s, i))
  <2>1. 1 \in Int /\ Len(s) \in Int /\ IsFiniteSet(1..Len(s))
    BY <1>1, FS_Interval
  <2> QED
    BY <1>2, <2>1, FS_Subset
<1>4. i \notin Range(s) => Places(s, i) = {}
  BY DEF Places, Range
<1> QED
  BY <1>2, <1>3, <1>4, FS_CardinalityType, FS_EmptySet

\* A batch in log order adds one place for each of its records.
LEMMA PlacesConcat ==
  ASSUME NEW s \in Seq(Nat), NEW b \in Seq(Nat),
         \A j, k \in DOMAIN b : j < k => b[j] < b[k],
         NEW i
  PROVE  Cardinality(Places(s \o b, i)) =
           Cardinality(Places(s, i)) + (IF i \in Range(b) THEN 1 ELSE 0)
<1> DEFINE sb == s \o b
<1>1. /\ sb \in Seq(Nat)
      /\ Len(s) \in Nat /\ Len(b) \in Nat /\ DOMAIN s = 1..Len(s) /\ DOMAIN b = 1..Len(b)
      /\ DOMAIN sb = 1..(Len(s) + Len(b))
      /\ \A k \in 1..(Len(s) + Len(b)) :
           sb[k] = IF k <= Len(s) THEN s[k] ELSE b[k - Len(s)]
  BY ConcatProperties, LenProperties
<1>2. \A k \in 1..Len(b) : b[k] \in Nat
  BY ElementOfSeq
<1> HIDE DEF sb
<1>3. /\ IsFiniteSet(Places(s, i)) /\ Cardinality(Places(s, i)) \in Nat
      /\ Places(s, i) \subseteq 1..Len(s)
  BY PlacesFinite
<1>4. Places(sb, i) = Places(s, i) \cup {Len(s) + k : k \in Places(b, i)}
  <2>1. \A k \in 1..Len(s) : k \in Places(sb, i) <=> k \in Places(s, i)
    BY <1>1 DEF Places
  <2>2. \A k \in 1..Len(b) : Len(s) + k \in Places(sb, i) <=> k \in Places(b, i)
    <3> TAKE k \in 1..Len(b)
    <3>1. /\ Len(s) + k \in 1..(Len(s) + Len(b)) /\ ~(Len(s) + k <= Len(s))
          /\ (Len(s) + k) - Len(s) = k
      BY <1>1
    <3>2. sb[Len(s) + k] = b[k]
      BY <1>1, <3>1
    <3> QED
      BY <1>1, <3>1, <3>2 DEF Places
  <2>3. Places(sb, i) \subseteq 1..(Len(s) + Len(b)) /\ Places(b, i) \subseteq 1..Len(b)
    BY <1>1 DEF Places
  <2>4. ASSUME NEW k \in Places(sb, i), k \notin Places(s, i)
        PROVE  k \in {Len(s) + j : j \in Places(b, i)}
    <3> DEFINE j == k - Len(s)
    <3>1. j \in 1..Len(b) /\ k = Len(s) + j
      BY <1>1, <2>1, <2>3, <2>4
    <3> QED
      BY <2>2, <2>4, <3>1
  <2> QED
    BY <1>3, <2>1, <2>2, <2>3, <2>4
<1>5. CASE i \notin Range(b)
  <2>1. Places(b, i) = {}
    BY <1>5 DEF Places, Range
  <2>2. Places(sb, i) = Places(s, i)
    BY <1>4, <2>1
  <2> QED
    BY <1>3, <1>5, <2>2 DEF sb
<1>6. CASE i \in Range(b)
  <2>1. PICK k \in DOMAIN b : b[k] = i
    BY <1>6 DEF Range
  <2>2. \A j \in DOMAIN b : b[j] = i => j = k
    <3> TAKE j \in DOMAIN b
    <3>1. j \in Nat /\ k \in Nat /\ b[j] \in Nat /\ b[k] \in Nat
      BY <1>1, <1>2, SMTT(30)
    <3>2. (j < k => b[j] < b[k]) /\ (k < j => b[k] < b[j])
      OBVIOUS
    <3> QED
      BY <2>1, <3>1, <3>2
  <2>3. Places(b, i) = {k}
    BY <2>1, <2>2 DEF Places
  <2>4. Places(sb, i) = Places(s, i) \cup {Len(s) + k}
    BY <1>4, <2>3
  <2>5. Len(s) + k \notin Places(s, i)
    BY <1>1, <1>3
  <2> QED
    BY <1>3, <1>6, <2>4, <2>5, FS_AddElement DEF sb
<1> QED
  BY <1>5, <1>6

\* What the counting needs of the types.
LEMMA Counted ==
  ASSUME TypeOK
  PROVE  /\ Len(log) \in Nat /\ lives \in Nat /\ got \in Nat /\ got <= Len(log)
         /\ flows \in Seq(Nat) /\ batch \in Seq(Nat)
         /\ \A i : Copies(i) \in Nat
         /\ \A i \in Nat : i > Len(log) => Copies(i) = 0
<1>1. Len(log) \in Nat /\ lives \in Nat /\ got \in Nat /\ got <= Len(log)
  BY LenProperties, BoundsAssumption DEF TypeOK, SourceTypeOK
<1>2. flows \in Seq(1..Len(log)) /\ batch \in Seq(1..Len(log)) /\ 1..Len(log) \subseteq Nat
  BY <1>1 DEF TypeOK
<1>3. flows \in Seq(Nat) /\ batch \in Seq(Nat)
  BY <1>2, SeqMonotonic
<1>4. \A i : Copies(i) \in Nat /\ (i \notin Range(flows) => Copies(i) = 0)
  BY <1>3, PlacesFinite DEF Copies
<1>5. Range(flows) \subseteq 1..Len(log)
  BY <1>2, ElementOfSeq, LenProperties DEF Range
<1> QED
  BY <1>1, <1>3, <1>4, <1>5

\* Steps that insert nothing and in which no process starts.
LEMMA NoneInserted ==
  ASSUME TypeOK, PerLife, UNCHANGED <<flows, source, lives>>,
         Len(log') \in Nat, got' \in Nat, Range(batch') \subseteq Nat,
         pc' # "down" =>
           /\ pc # "down" /\ got' >= got
           /\ \A i \in Range(batch') : i \in Range(batch) \/ i > got
           /\ pc' # "set" => pc # "set" \/ Range(batch') = {}
  PROVE  PerLife'
<1>0. /\ Len(log) \in Nat /\ lives \in Nat /\ got \in Nat
      /\ \A i : Copies(i) \in Nat
      /\ \A i \in Nat : i > Len(log) => Copies(i) = 0
  BY Counted
<1>1. \A i : Copies(i)' = Copies(i)
  BY DEF Copies
<1>2. Running' => lives' > 0
  BY DEF PerLife, Running
<1>3. ASSUME NEW i \in 1..Len(log')
      PROVE  /\ Copies(i) <= lives
             /\ Running' /\ (i > got' \/ (i \in Range(batch') /\ pc' # "set"))
                  => Copies(i) < lives
             /\ source = "telegraf" => Copies(i) <= 1
  <2>1. CASE i \in 1..Len(log)
    BY <1>0, <2>1 DEF PerLife, Running
  <2>2. CASE i > Len(log)
    BY <1>0, <1>2, <2>2
  <2> QED
    BY <1>0, <2>1, <2>2
<1> QED
  BY <1>1, <1>2, <1>3 DEF PerLife

\* The batch is inserted, and the process goes on to the SET or ends.
LEMMA BatchInserted ==
  ASSUME IInv, PerLife, pc = "insert", flows' = flows \o batch,
         UNCHANGED <<source, log, lives>>, pc' \in {"set", "down"},
         pc' = "set" => got' = got
  PROVE  PerLife'
<1>0. /\ Len(log) \in Nat /\ lives \in Nat /\ got \in Nat
      /\ flows \in Seq(Nat) /\ batch \in Seq(Nat) /\ \A i : Copies(i) \in Nat
  BY Counted DEF IInv
<1>1. \A i : Copies(i)' = Copies(i) + (IF i \in Range(batch) THEN 1 ELSE 0)
  <2>1. \A j, k \in DOMAIN batch : j < k => batch[j] < batch[k]
    BY DEF IInv, BatchOrdered
  <2> QED
    BY <1>0, <2>1, PlacesConcat DEF Copies
<1>2. \A i \in Range(batch) : i <= got
  BY DEF IInv, BatchOrdered, Range
<1>3. Running' => lives' > 0
  BY DEF PerLife, Running
<1>4. ASSUME NEW i \in 1..Len(log)
      PROVE  /\ Copies(i)' <= lives
             /\ Running' /\ i > got' => Copies(i)' < lives
             /\ source = "telegraf" => Copies(i)' <= 1
  <2>1. CASE i \in Range(batch)
    <3>1. Copies(i) < lives
      BY <2>1 DEF PerLife, Running
    <3>2. source = "telegraf" => Copies(i) = 0
      <4>1. source = "telegraf" => i \notin Range(flows)
        BY <2>1 DEF IInv, PipeOnce, Running
      <4> QED
        BY <1>0, <4>1, PlacesFinite DEF Copies
    <3> QED
      BY <1>0, <1>1, <1>2, <2>1, <3>1, <3>2 DEF Running
  <2>2. CASE i \notin Range(batch)
    BY <1>0, <1>1, <2>2 DEF PerLife, Running
  <2> QED
    BY <2>1, <2>2
<1> QED
  BY <1>3, <1>4 DEF PerLife, Running

LEMMA PerLifeInit == Init => PerLife
<1> SUFFICES ASSUME Init PROVE PerLife
  OBVIOUS
<1>1. Len(log) = 0
  BY EmptySeq DEF Init, SourceInit
<1> QED
  BY <1>1 DEF PerLife, Init, Running

LEMMA PerLifeStep == IInv /\ TypeOK' /\ PerLife /\ [Next]_vars => PerLife'
<1> SUFFICES ASSUME IInv, TypeOK', PerLife, [Next]_vars
             PROVE  PerLife'
  OBVIOUS
<1>0. /\ TypeOK /\ Len(log) \in Nat /\ lives \in Nat /\ got \in Nat
      /\ \A i : Copies(i) \in Nat
  BY Counted DEF IInv
<1>1. /\ Len(log') \in Nat /\ got' \in Nat /\ Range(batch') \subseteq Nat
  <2>1. (TypeOK => /\ Len(log) \in Nat /\ got \in Nat /\ batch \in Seq(Nat))'
    BY Counted, PTL
  <2>2. batch' \in Seq(Nat)
    BY <2>1
  <2> QED
    BY <2>1, <2>2, ElementOfSeq, LenProperties DEF Range
<1>2. CASE Start
  <2>1. /\ lives' = lives + 1 /\ batch' = batch /\ UNCHANGED <<flows, source, log>>
        /\ batch = <<>> /\ Range(batch) = {}
    BY <1>2, RangeEmpty DEF Start, sourceVars, storeVars, IInv, BatchOrdered
  <2>2. \A i : Copies(i)' = Copies(i)
    BY <2>1 DEF Copies
  <2> QED
    BY <1>0, <2>1, <2>2 DEF PerLife
<1>3. CASE Halt /\ UNCHANGED <<flows, source>>
  BY <1>0, <1>1, <1>3, NoneInserted DEF Halt
<1>4. CASE /\ UNCHANGED <<flows, source, lives, got, batch>>
           /\ pc' = pc \/ (pc = "select" /\ pc' = "redis") \/ (pc = "redis" /\ pc' = "insert")
  BY <1>0, <1>1, <1>4, NoneInserted
<1>5. CASE Receive
  <2>1. \A i \in Range(batch') : i \in Range(batch) \/ i > got
    <3>1. batch \in Seq(Nat) /\ got + 1 \in Nat
      BY <1>0, Counted
    <3>2. Range(Append(batch, got + 1)) = Range(batch) \cup {got + 1}
      BY <3>1, RangeAppend
    <3> QED
      BY <1>0, <1>5, <3>2 DEF Receive
  <2> QED
    BY <1>0, <1>1, <1>5, <2>1, NoneInserted DEF Receive, sourceVars, storeVars
<1>6. CASE Drained \/ CtrlC
  BY <1>3, <1>4, <1>6 DEF Drained, CtrlC, FlushAndExit, sourceVars, storeVars, loopVars
<1>7. CASE FlushInsert
  BY <1>7, BatchInserted DEF FlushInsert, sourceVars, loopVars
<1>8. CASE FlushInsertFails
  <2>1. CASE flows' = flows
    BY <1>3, <1>8, <2>1 DEF FlushInsertFails, sourceVars
  <2>2. CASE flows' = flows \o batch
    BY <1>8, <2>2, BatchInserted DEF FlushInsertFails, sourceVars, Halt
  <2> QED
    BY <1>8, <2>1, <2>2 DEF FlushInsertFails
<1>9. CASE FlushSet
  <2>1. CASE after = "down"
    BY <1>3, <1>9, <2>1 DEF FlushSet, Flushed, sourceVars
  <2>2. CASE after # "down"
    <3>1. Range(batch') = {}
      BY <1>9, <2>2, RangeEmpty DEF FlushSet, Flushed
    <3> QED
      BY <1>0, <1>1, <1>9, <2>2, <3>1, NoneInserted DEF FlushSet, Flushed, sourceVars
  <2> QED
    BY <2>1, <2>2
<1>10. CASE Produce \/ Read \/ ReadCorrupt \/ SourceEof \/ Tick \/ FlushRedis
            \/ EvictWatermark \/ UNCHANGED vars
  BY <1>4, <1>10
  DEF Produce, Emit, Rotate, Read, ReadCorrupt, SourceEof, Tick, FlushRedis,
      EvictWatermark, vars, sourceVars, storeVars, loopVars
<1>11. CASE FlushRedisFails \/ Crash
  BY <1>3, <1>11 DEF FlushRedisFails, Crash, sourceVars, storeVars
<1> QED
  BY <1>2, <1>5, <1>6, <1>7, <1>8, <1>9, <1>10, <1>11 DEF Next, Process, Failure

\* However batches fail and processes are started again, one process inserts a
\* record at most once, and what telegraf delivers has one row at most: the only
\* duplicates are those of reading flowd.log again (main.rs:222-300, 403-465).
THEOREM OncePerLife == Spec => []InsertedOncePerLife
<1>1. IInv => TypeOK
  BY DEF IInv
<1>2. PerLife => InsertedOncePerLife
  BY DEF PerLife, InsertedOncePerLife, Copies, Places
<1> QED
  BY <1>1, <1>2, Invariance, PerLifeInit, PerLifeStep, PTL DEF Spec
=============================================================================
