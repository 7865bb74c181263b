------------------------------ MODULE CopyFrom ------------------------------
(***************************************************************************)
(* COPY ... FROM for the two row-file formats: the RowProducer of          *)
(* cbor-worker/src/copy/from.rs driven by its caller, one next_batch call  *)
(* after another.  A producer walks a list of sources (a glob expands to   *)
(* several), decodes one item at a time, drops or refuses items that do    *)
(* not have the declared row shape, and hands out record batches of at     *)
(* most READ_BATCH_ROWS rows.                                              *)
(*                                                                         *)
(* An item is abstracted to what the producer can tell about it: it has    *)
(* the wrong shape for row_format, or the right shape and a cell its       *)
(* target column cannot hold, or neither.  A row is named by where it came *)
(* from: << number of the source in sorted order, number of the item >>.   *)
(***************************************************************************)
EXTENDS Naturals, Sequences

CONSTANTS
  BatchRows,   \* READ_BATCH_ROWS (8192 in the code)
  Jobs         \* the COPY statements explored: each a member of Job

RowKind == {"good", "badcell", "misshapen"}

\* opens: File::open / cloud::open_reader succeeds.  torn: after the last whole
\* item the stream holds a truncated or malformed item, or a read error.
Source == [opens : BOOLEAN, items : Seq(RowKind), torn : BOOLEAN]

\* resolves: row_format is valid and the path resolves to the list sources.
Job == [resolves : BOOLEAN, ignoreErrors : BOOLEAN, sources : Seq(Source)]

ASSUME CopyFromAssumption == BatchRows \in Nat \ {0} /\ Jobs \subseteq Job

VARIABLES
  job,        \* the statement being run; never changes
  phase,      \* where the caller and next_batch stand
  pending,    \* sources still to open, in reverse order: pop() takes the last
  source,     \* number of the source whose reader is open (items), 0 for None
  pos,        \* number of the item the open reader decodes next
  rows,       \* the batch being filled: rows of the declared shape
  tried,      \* rows of the failing batch already rebuilt one by one
  kept,       \* those of them that could be built
  delivered   \* every row handed to the caller, in order

vars == <<job, phase, pending, source, pos, rows, tried, kept, delivered>>

Lenient == job.ignoreErrors
Kind(r) == job.sources[r[1]].items[r[2]]

\* A seeded slip: the shape check is left out.
UsableUnchecked(r) == TRUE

\* The shape check of next_batch.
Usable(r) == Kind(r) # "misshapen"

\* build_batch of one row: an item of the wrong shape would project to NULLs.
Converts(r) == Kind(r) # "badcell"

Finished == phase \in {"ended", "failed"}

-----------------------------------------------------------------------------
(* Opening the statement: open_boxed.                                      *)

Init ==
  /\ job \in Jobs
  /\ phase = "bind"
  /\ pending = <<>>
  /\ source = 0
  /\ pos = 1
  /\ rows = <<>>
  /\ tried = 0
  /\ kept = <<>>
  /\ delivered = <<>>

\* A seeded slip: the list is not reversed before pop() walks it.
OpenUnreversed ==
  /\ phase = "bind"
  /\ job.resolves
  /\ job.sources # <<>>
  /\ pending' = [k \in 1 .. Len(job.sources) |-> k]
  /\ phase' = "idle"
  /\ UNCHANGED <<job, source, pos, rows, tried, kept, delivered>>

\* The option parses, the path matches something; the list is reversed.
Open ==
  /\ phase = "bind"
  /\ job.resolves
  /\ job.sources # <<>>
  /\ pending' = [k \in 1 .. Len(job.sources) |-> Len(job.sources) + 1 - k]
  /\ phase' = "idle"
  /\ UNCHANGED <<job, source, pos, rows, tried, kept, delivered>>

\* A bad row_format, a failed listing, or "matched no files".
RefuseOpen ==
  /\ phase = "bind"
  /\ ~job.resolves \/ job.sources = <<>>
  /\ phase' = "failed"
  /\ UNCHANGED <<job, pending, source, pos, rows, tried, kept, delivered>>

-----------------------------------------------------------------------------
(* Filling a batch: next_batch, next_row, advance and the item reader.     *)

\* The caller asks for a batch: rows starts empty.
NextBatch ==
  /\ phase = "idle"
  /\ phase' = "fill"
  /\ rows' = <<>>
  /\ UNCHANGED <<job, pending, source, pos, tried, kept, delivered>>

\* A seeded slip: the loop's bound is off by one.
FillingOneMore == phase = "fill" /\ Len(rows) <= BatchRows

\* The loop of next_batch runs while the batch has room.
Filling == phase = "fill" /\ Len(rows) < BatchRows

\* An error out of next_row: ignore_errors leaves the loop with the rows so
\* far, otherwise the COPY fails.
RowError == phase' = IF Lenient THEN "build" ELSE "failed"

NextSource == pending[Len(pending)]
PopPending == pending' = SubSeq(pending, 1, Len(pending) - 1)

OpenNextSource ==
  /\ Filling
  /\ source = 0
  /\ pending # <<>>
  /\ job.sources[NextSource].opens
  /\ source' = NextSource
  /\ pos' = 1
  /\ PopPending
  /\ UNCHANGED <<job, phase, rows, tried, kept, delivered>>

\* advance() has already popped the source when the open fails.
SourceUnreadable ==
  /\ Filling
  /\ source = 0
  /\ pending # <<>>
  /\ ~job.sources[NextSource].opens
  /\ PopPending
  /\ RowError
  /\ UNCHANGED <<job, source, pos, rows, tried, kept, delivered>>

\* Every source is consumed, or the batch is full: the loop ends.
FillDone ==
  /\ phase = "fill"
  /\ Len(rows) = BatchRows \/ (source = 0 /\ pending = <<>>)
  /\ phase' = "build"
  /\ UNCHANGED <<job, pending, source, pos, rows, tried, kept, delivered>>

HasItem == source # 0 /\ pos <= Len(job.sources[source].items)
AtEnd   == source # 0 /\ pos > Len(job.sources[source].items)

TakeRow ==
  /\ Filling
  /\ HasItem
  /\ Usable(<<source, pos>>)
  /\ rows' = Append(rows, <<source, pos>>)
  /\ pos' = pos + 1
  /\ UNCHANGED <<job, phase, pending, source, tried, kept, delivered>>

SkipMisshapen ==
  /\ Filling
  /\ HasItem
  /\ ~Usable(<<source, pos>>)
  /\ Lenient
  /\ pos' = pos + 1
  /\ UNCHANGED <<job, phase, pending, source, rows, tried, kept, delivered>>

RefuseMisshapen ==
  /\ Filling
  /\ HasItem
  /\ ~Usable(<<source, pos>>)
  /\ ~Lenient
  /\ pos' = pos + 1
  /\ phase' = "failed"
  /\ UNCHANGED <<job, pending, source, rows, tried, kept, delivered>>

\* A seeded slip: an item cut short is taken for the end of the source.
EndsAnyway == AtEnd

\* fill_buf finds nothing left before a decode is attempted: a clean end.
EndsCleanly == AtEnd /\ ~job.sources[source].torn

\* A seeded slip: the exhausted reader is kept.
SourceEndsKept ==
  /\ Filling
  /\ EndsCleanly
  /\ UNCHANGED vars

SourceEnds ==
  /\ Filling
  /\ EndsCleanly
  /\ source' = 0
  /\ UNCHANGED <<job, phase, pending, pos, rows, tried, kept, delivered>>

\* A seeded slip: the sources after the broken one stay queued.
DecodeFailsQueueKept ==
  /\ Filling
  /\ AtEnd
  /\ ~EndsCleanly
  /\ source' = 0
  /\ RowError
  /\ UNCHANGED <<job, pending, pos, rows, tried, kept, delivered>>

\* A truncated or malformed item drops the reader and every queued source.
DecodeFails ==
  /\ Filling
  /\ AtEnd
  /\ ~EndsCleanly
  /\ source' = 0
  /\ pending' = <<>>
  /\ RowError
  /\ UNCHANGED <<job, pos, rows, tried, kept, delivered>>

-----------------------------------------------------------------------------
(* Building and handing out the batch.                                     *)

\* No row was collected: Ok(None), the end of the stream for the caller.
EndOfRows ==
  /\ phase = "build"
  /\ rows = <<>>
  /\ phase' = "ended"
  /\ UNCHANGED <<job, pending, source, pos, rows, tried, kept, delivered>>

AllConvert == \A k \in 1 .. Len(rows) : Converts(rows[k])

EmitBatch ==
  /\ phase = "build"
  /\ rows # <<>>
  /\ AllConvert
  /\ delivered' = delivered \o rows
  /\ rows' = <<>>
  /\ phase' = "idle"
  /\ UNCHANGED <<job, pending, source, pos, tried, kept>>

\* A cell that does not fit its column fails the whole batch: without
\* ignore_errors that is the COPY's error ...
RefuseBatch ==
  /\ phase = "build"
  /\ rows # <<>>
  /\ ~AllConvert
  /\ ~Lenient
  /\ phase' = "failed"
  /\ UNCHANGED <<job, pending, source, pos, rows, tried, kept, delivered>>

\* A seeded slip: the failing batch is given up whole.
DropBatch ==
  /\ phase = "build"
  /\ rows # <<>>
  /\ ~AllConvert
  /\ Lenient
  /\ phase' = "idle"
  /\ rows' = <<>>
  /\ UNCHANGED <<job, pending, source, pos, tried, kept, delivered>>

\* ... with it the batch is retried a row at a time.
RetryRowByRow ==
  /\ phase = "build"
  /\ rows # <<>>
  /\ ~AllConvert
  /\ Lenient
  /\ phase' = "retry"
  /\ tried' = 0
  /\ kept' = <<>>
  /\ UNCHANGED <<job, pending, source, pos, rows, delivered>>

TryRow ==
  /\ phase = "retry"
  /\ tried < Len(rows)
  /\ tried' = tried + 1
  /\ kept' = IF Converts(rows[tried + 1])
             THEN Append(kept, rows[tried + 1]) ELSE kept
  /\ UNCHANGED <<job, phase, pending, source, pos, rows, delivered>>

\* A seeded slip: a batch of which no row survives ends the stream.
EmitKeptOrEnd ==
  /\ phase = "retry"
  /\ tried = Len(rows)
  /\ delivered' = delivered \o kept
  /\ rows' = <<>>
  /\ phase' = IF kept = <<>> THEN "ended" ELSE "idle"
  /\ UNCHANGED <<job, pending, source, pos, tried, kept>>

\* The surviving rows are emitted, possibly none of them: an empty batch is
\* Ok(Some(..)), not the end.
EmitKept ==
  /\ phase = "retry"
  /\ tried = Len(rows)
  /\ delivered' = delivered \o kept
  /\ rows' = <<>>
  /\ phase' = "idle"
  /\ UNCHANGED <<job, pending, source, pos, tried, kept>>

-----------------------------------------------------------------------------
Step ==
  \/ Open \/ RefuseOpen \/ NextBatch
  \/ OpenNextSource \/ SourceUnreadable \/ FillDone
  \/ TakeRow \/ SkipMisshapen \/ RefuseMisshapen
  \/ SourceEnds \/ DecodeFails
  \/ EndOfRows \/ EmitBatch \/ RefuseBatch
  \/ RetryRowByRow \/ TryRow \/ EmitKept

\* A finished COPY takes no further step.
Done == Finished /\ UNCHANGED vars

Next == Step \/ Done

Spec == Init /\ [][Next]_vars

\* The caller pulls batches until Ok(None) or an error (read, from.rs:104-108),
\* and each call is straight-line code.
FairSpec == Spec /\ WF_vars(Step)

-----------------------------------------------------------------------------
(* Properties.                                                             *)

Row == Nat \X Nat
Before(r, s) == r[1] < s[1] \/ (r[1] = s[1] /\ r[2] < s[2])
Ascending(s) == \A j, k \in 1 .. Len(s) : j < k => Before(s[j], s[k])

\* Every item of the statement's sources.
AllItems == UNION {{f} \X (1 .. Len(job.sources[f].items)) : f \in 1 .. Len(job.sources)}
InSeq(r, s) == \E k \in 1 .. Len(s) : s[k] = r

\* Every variable has its type, and a batch never outgrows READ_BATCH_ROWS.
TypeOK ==
  /\ job \in Job
  /\ phase \in {"bind", "idle", "fill", "build", "retry", "ended", "failed"}
  /\ pending \in Seq(1 .. Len(job.sources))
  /\ source \in 0 .. Len(job.sources)
  /\ pos \in Nat
  /\ rows \in Seq(Row) /\ Len(rows) <= BatchRows
  /\ tried \in 0 .. Len(rows) \/ phase # "retry"
  /\ tried \in Nat
  /\ kept \in Seq(Row)
  /\ delivered \in Seq(Row)

\* Only a row of the declared shape whose every cell fits its column reaches
\* the table: a misshapen item would otherwise load as a row of NULLs, because
\* build_batch projects it to NULL without an error.
OnlyGoodRowsDelivered ==
  \A k \in 1 .. Len(delivered) : Kind(delivered[k]) = "good"

\* "reads them, in sorted order, as one concatenated row stream" (README, globs):
\* rows arrive in the order of the sorted sources and of the items in each,
\* none twice, across batch boundaries, empty sources and row-by-row retries.
DeliveredInSourceOrder == Ascending(delivered)

\* A COPY without ignore_errors that reports success loaded every item of every
\* source; a truncated tail, a bad row or an unreadable source always fails it.
StrictSuccessIsComplete ==
  phase = "ended" /\ ~Lenient =>
    /\ \A r \in AllItems : InSeq(r, delivered)
    /\ \A f \in 1 .. Len(job.sources) : job.sources[f].opens /\ ~job.sources[f].torn

\* Nothing broken lies before source f.
IntactBefore(f) == \A g \in 1 .. f - 1 : job.sources[g].opens /\ ~job.sources[g].torn

\* A COPY with ignore_errors that ends gave up no good row of a source up to and
\* including the first truncated or unreadable one: a bad cell costs its own
\* row, never the rest of its batch or the batches after it.
LenientKeepsGoodRows ==
  phase = "ended" =>
    \A r \in AllItems :
      IntactBefore(r[1]) /\ job.sources[r[1]].opens /\ Kind(r) = "good"
        => InSeq(r, delivered)

\* After a truncated item no row of a later source is loaded: what a lenient
\* COPY accepts is the rows before the damage.
NothingAfterDamage ==
  \A k \in 1 .. Len(delivered) :
    \A g \in 1 .. delivered[k][1] - 1 : ~(job.sources[g].opens /\ job.sources[g].torn)

\* Every COPY ends: no mix of empty sources, skipped rows, empty batches and
\* errors makes the producer loop forever.
Terminates == <>Finished

\* The option's description (from.rs:77-79): ignore_errors skips "rows that
\* cannot be projected onto the target columns" and accepts "a truncated
\* trailing item".  So a good row of a source that can be read, with no
\* truncated source before it, is loaded.
OnlyBadRowsAreSkipped ==
  phase = "ended" =>
    \A r \in AllItems :
      /\ job.sources[r[1]].opens
      /\ Kind(r) = "good"
      /\ \A g \in 1 .. r[1] - 1 : ~job.sources[g].torn
      => InSeq(r, delivered)

\* What the caller can tell of the producer, as the abstract load has it.
Status ==
  IF phase = "ended" THEN "complete" ELSE IF phase = "failed" THEN "failed" ELSE "loading"

Load == INSTANCE RowLoad WITH loaded <- delivered, status <- Status

\* Every step of the producer is a run of rows in order without a gap, a
\* completion that is allowed, a failure that is allowed, or invisible.
ImplementsRowLoad == Load!Spec
=============================================================================
