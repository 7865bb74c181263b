--------------------------- MODULE CopyFromProofs ---------------------------
(***************************************************************************)
(* The safety of CopyFrom for every batch size and every set of jobs.      *)
(*                                                                         *)
(* IInv is the inductive invariant.  Its heart is the read position Cur:   *)
(* the pair << source, item >> the producer decodes next.  Every row it    *)
(* holds or has delivered lies before Cur, in order; without ignore_errors *)
(* every item before Cur is held or delivered.  CInv, DamageInv and FInv   *)
(* add what completeness, damage and the refinement of RowLoad need.       *)
(***************************************************************************)
EXTENDS CopyFrom, SequenceTheorems, TLAPS

N == Len(job.sources)

\* A row names an item that exists.
ItemOf(src, r) == r[1] \in 1 .. Len(src) /\ r[2] \in 1 .. Len(src[r[1]].items)

CurFile == IF source # 0 THEN source ELSE N + 1 - Len(pending)
CurItem == IF source # 0 THEN pos ELSE 1
Cur == <<CurFile, CurItem>>

\* The queue always holds the sources not opened yet, the next one last.
QueueInv ==
  /\ Len(pending) <= N
  /\ \A k \in 1 .. Len(pending) : pending[k] = N + 1 - k
  /\ source # 0 => source = N - Len(pending)
  /\ pos >= 1
  /\ source # 0 => job.sources[source].opens
  /\ phase = "bind" => /\ pending = <<>> /\ source = 0
                       /\ rows = <<>> /\ delivered = <<>>

\* What is held and delivered is a sequence of existing items in order.
HeldInv ==
  /\ Ascending(delivered) /\ Ascending(rows)
  /\ \A j \in 1 .. Len(delivered), k \in 1 .. Len(rows) : Before(delivered[j], rows[k])
  /\ \A j \in 1 .. Len(delivered) : ItemOf(job.sources, delivered[j]) /\ Before(delivered[j], Cur)
  /\ \A k \in 1 .. Len(rows) : ItemOf(job.sources, rows[k]) /\ Before(rows[k], Cur)

\* Held rows have the shape; delivered rows convert as well.
GoodInv ==
  /\ \A k \in 1 .. Len(rows) : Usable(rows[k])
  /\ OnlyGoodRowsDelivered

\* The rows that survive the row-by-row retry come from the batch, in order.
RetryInv ==
  phase = "retry" =>
    /\ tried <= Len(rows)
    /\ Ascending(kept)
    /\ \A j \in 1 .. Len(kept) :
         /\ Converts(kept[j])
         /\ \E k \in 1 .. tried : kept[j] = rows[k]

IInv == TypeOK /\ QueueInv /\ HeldInv /\ GoodInv /\ RetryInv

-----------------------------------------------------------------------------
\* Appending a row that comes after all others keeps a sequence ascending.
LEMMA AppendAscending ==
  ASSUME NEW s \in Seq(Row), NEW r \in Row, Ascending(s),
         \A k \in 1 .. Len(s) : Before(s[k], r)
  PROVE  Ascending(Append(s, r))
  BY DEF Ascending

\* So does joining two ascending sequences, one wholly before the other.
LEMMA ConcatAscending ==
  ASSUME NEW s \in Seq(Row), NEW t \in Seq(Row), Ascending(s), Ascending(t),
         \A j \in 1 .. Len(s), k \in 1 .. Len(t) : Before(s[j], t[k])
  PROVE  Ascending(s \o t)
  BY DEF Ascending

\* What pop() leaves of the queue.
LEMMA Popped ==
  ASSUME NEW S, NEW s \in Seq(S), s # <<>>
  PROVE  LET t == SubSeq(s, 1, Len(s) - 1)
         IN  /\ t \in Seq(S) /\ Len(t) = Len(s) - 1
             /\ s[Len(s)] \in S
             /\ \A k \in 1 .. Len(t) : t[k] = s[k]
  <1> DEFINE n == Len(s) - 1
             t == SubSeq(s, 1, n)
  <1>1. n \in Nat /\ Len(s) = n + 1 /\ \A k \in 1 .. n + 1 : s[k] \in S
    BY EmptySeq, ElementOfSeq
  <1> HIDE DEF n
  <1>2. /\ t \in Seq(S)
        /\ Len(t) = IF 1 <= n THEN n - 1 + 1 ELSE 0
        /\ \A k \in 1 .. n - 1 + 1 : t[k] = s[1 + k - 1]
    BY ONLY <1>1, SubSeqProperties
  <1> HIDE DEF t
  <1>3. Len(t) = n
    BY <1>1, <1>2
  <1>4. \A k \in 1 .. Len(t) : t[k] = s[k]
    BY <1>1, <1>2, <1>3
  <1> QED
    BY <1>1, <1>2, <1>3, <1>4 DEF t, n

\* Where an element of a joined sequence comes from.
LEMMA FromEither ==
  ASSUME NEW s \in Seq(Row), NEW t \in Seq(Row)
  PROVE  \A k \in 1 .. Len(s \o t) :
           \/ k \in 1 .. Len(s) /\ (s \o t)[k] = s[k]
           \/ \E j \in 1 .. Len(t) : (s \o t)[k] = t[j]
  BY ConcatProperties

\* And of an extended one.
LEMMA FromAppend ==
  ASSUME NEW s \in Seq(Row), NEW r \in Row
  PROVE  \A k \in 1 .. Len(Append(s, r)) :
           Append(s, r)[k] = r \/ (k \in 1 .. Len(s) /\ Append(s, r)[k] = s[k])
  BY AppendProperties

LEMMA InitIInv == Init => IInv
  <1> SUFFICES ASSUME Init PROVE IInv
    OBVIOUS
  <1> USE CopyFromAssumption DEF Init
  <1>1. job \in Job /\ job.sources \in Seq(Source)
    BY DEF Job
  <1>2. TypeOK
    BY <1>1 DEF TypeOK
  <1>3. QueueInv
    BY <1>1 DEF QueueInv, N
  <1>4. HeldInv /\ GoodInv /\ RetryInv
    BY DEF HeldInv, GoodInv, RetryInv, Ascending, OnlyGoodRowsDelivered
  <1> QED
    BY <1>2, <1>3, <1>4 DEF IInv

\* The types the steps below use again and again.
LEMMA Types ==
  ASSUME TypeOK
  PROVE  /\ N \in Nat /\ job.sources \in Seq(Source)
         /\ \A f \in 1 .. N : /\ job.sources[f] \in Source
                              /\ job.sources[f].items \in Seq(RowKind)
                              /\ Len(job.sources[f].items) \in Nat
         /\ \A r : ItemOf(job.sources, r) => Kind(r) \in RowKind
  <1>1. N \in Nat /\ job.sources \in Seq(Source)
    BY DEF TypeOK, Job, N
  <1>2. ASSUME NEW f \in 1 .. N
        PROVE  /\ job.sources[f] \in Source
               /\ job.sources[f].items \in Seq(RowKind)
               /\ Len(job.sources[f].items) \in Nat
    <2>1. job.sources[f] \in Source
      BY <1>1, <1>2 DEF N
    <2> QED
      BY <2>1 DEF Source
  <1> QED
    BY <1>1, <1>2 DEF ItemOf, Kind, N

\* A step that leaves the queue, the reader and the rows alone disturbs nothing
\* but the phase.
LEMMA PhaseStep ==
  ASSUME IInv, UNCHANGED <<job, pending, source, pos, rows, tried, kept, delivered>>,
         phase' \in {"fill", "build", "idle", "ended", "failed"}
  PROVE  IInv'
  <1>1. TypeOK'
    BY DEF IInv, TypeOK
  <1>2. QueueInv'
    BY DEF IInv, QueueInv, N
  <1>3. HeldInv' /\ GoodInv'
    BY DEF IInv, HeldInv, GoodInv, N, Cur, CurFile, CurItem, Usable,
           OnlyGoodRowsDelivered, Kind
  <1>4. RetryInv'
    BY DEF RetryInv
  <1> QED
    BY <1>1, <1>2, <1>3, <1>4 DEF IInv

\* The cursor and the items depend on the job and the reader alone.
LEMMA SameCursor ==
  ASSUME UNCHANGED <<job, pending, source, pos>>
  PROVE  Cur' = Cur
  BY DEF Cur, CurFile, CurItem, N

\* Taking the next source off the queue.
LEMMA PopStep ==
  ASSUME TypeOK, QueueInv, pending # <<>>, PopPending, UNCHANGED job
  PROVE  /\ pending' \in Seq(1 .. N)
         /\ Len(pending') = Len(pending) - 1 /\ Len(pending) \in 1 .. N
         /\ \A k \in 1 .. Len(pending') : pending'[k] = pending[k]
         /\ NextSource \in 1 .. N /\ NextSource = N + 1 - Len(pending)
  <1>1. pending \in Seq(1 .. N) /\ N \in Nat
    BY Types DEF TypeOK, N
  <1>2. /\ pending' \in Seq(1 .. N) /\ Len(pending') = Len(pending) - 1
        /\ pending[Len(pending)] \in 1 .. N
        /\ \A k \in 1 .. Len(pending') : pending'[k] = pending[k]
    BY <1>1, Popped DEF PopPending
  <1>3. Len(pending) \in 1 .. N
    BY <1>1, EmptySeq DEF QueueInv
  <1> QED
    BY <1>1, <1>2, <1>3 DEF NextSource, QueueInv

\* A step that only moves the read position forward keeps what is held.
LEMMA CursorStep ==
  ASSUME IInv, TypeOK', UNCHANGED <<job, rows, delivered>>,
         phase = "fill", phase' # "retry",
         \A r \in Row : ItemOf(job.sources, r) /\ Before(r, Cur) => Before(r, Cur')
  PROVE  HeldInv' /\ GoodInv' /\ RetryInv'
  <1>1. HeldInv'
    <2>1. rows \in Seq(Row) /\ delivered \in Seq(Row)
      BY DEF IInv, TypeOK
    <2>2. \A k \in 1 .. Len(rows) : Before(rows[k], Cur')
      BY <2>1, ElementOfSeq DEF IInv, HeldInv
    <2>3. \A k \in 1 .. Len(delivered) : Before(delivered[k], Cur')
      BY <2>1, ElementOfSeq DEF IInv, HeldInv
    <2> QED
      BY <2>2, <2>3 DEF IInv, HeldInv, Ascending, Cur
  <1>2. GoodInv'
    BY DEF IInv, GoodInv, OnlyGoodRowsDelivered, Usable, Kind
  <1>3. RetryInv'
    BY DEF RetryInv
  <1> QED
    BY <1>1, <1>2, <1>3

\* A step that moves on inside the open reader leaves the queue in order.
LEMMA QueueStep ==
  ASSUME QueueInv, UNCHANGED <<job, pending, source>>, phase' # "bind",
         pos' \in Nat, pos' >= 1
  PROVE  QueueInv'
  BY DEF QueueInv, N

LEMMA NextIInv == IInv /\ [Next]_vars => IInv'
  <1> SUFFICES ASSUME IInv, [Next]_vars PROVE IInv'
    OBVIOUS
  <1> USE CopyFromAssumption
  <1>0. TypeOK /\ QueueInv /\ HeldInv /\ GoodInv /\ RetryInv
    BY DEF IInv
  <1>1. CASE Open
    <2>1. TypeOK'
      BY <1>0, <1>1, Types DEF Open, TypeOK, N
    <2>2. QueueInv'
      BY <1>0, <1>1, Types DEF Open, TypeOK, QueueInv, N
    <2>3. HeldInv' /\ GoodInv' /\ RetryInv'
      BY <1>0, <1>1 DEF Open, QueueInv, HeldInv, GoodInv, RetryInv, Ascending,
                        OnlyGoodRowsDelivered
    <2> QED
      BY <2>1, <2>2, <2>3 DEF IInv
  <1>2. CASE RefuseOpen
    BY <1>2, PhaseStep DEF RefuseOpen
  <1>3. CASE NextBatch
    <2>1. TypeOK'
      BY <1>0, <1>3 DEF NextBatch, TypeOK
    <2>2. QueueInv'
      BY <1>0, <1>3 DEF NextBatch, QueueInv, N
    <2>3. HeldInv'
      BY <1>0, <1>3, SameCursor DEF NextBatch, HeldInv, Ascending
    <2>4. GoodInv' /\ RetryInv'
      BY <1>0, <1>3 DEF NextBatch, GoodInv, RetryInv, OnlyGoodRowsDelivered, Kind
    <2> QED
      BY <2>1, <2>2, <2>3, <2>4 DEF IInv
  <1>4. CASE OpenNextSource
    <2> USE <1>4 DEF OpenNextSource, Filling
    <2>1. TypeOK'
      BY <1>0, PopStep DEF TypeOK, N
    <2>2. QueueInv'
      <3>1. N' = N /\ N \in Nat
        BY <1>0, Types DEF N
      <3>2. /\ Len(pending') = Len(pending) - 1 /\ Len(pending) \in 1 .. N
            /\ \A k \in 1 .. Len(pending') : pending'[k] = pending[k]
            /\ NextSource = N + 1 - Len(pending)
        BY <1>0, PopStep
      <3>3. \A k \in 1 .. Len(pending') : pending'[k] = N + 1 - k
        BY <1>0, <3>1, <3>2 DEF QueueInv
      <3> QED
        BY <1>0, <3>1, <3>2, <3>3 DEF QueueInv
    <2>3. CurFile' = CurFile /\ CurItem' = CurItem
      BY <1>0, <2>1, PopStep DEF TypeOK, CurFile, CurItem, N
    <2>4. HeldInv' /\ GoodInv' /\ RetryInv'
      BY <2>1, <2>3, CursorStep DEF Cur
    <2> QED
      BY <2>1, <2>2, <2>4 DEF IInv
  <1>5. CASE SourceUnreadable
    <2> USE <1>5 DEF SourceUnreadable, Filling, RowError
    <2>1. TypeOK'
      BY <1>0, PopStep DEF TypeOK, N
    <2>2. QueueInv'
      <3>1. N' = N /\ N \in Nat
        BY <1>0, Types DEF N
      <3>2. /\ Len(pending') = Len(pending) - 1 /\ Len(pending) \in 1 .. N
            /\ \A k \in 1 .. Len(pending') : pending'[k] = pending[k]
            /\ NextSource = N + 1 - Len(pending)
        BY <1>0, PopStep
      <3>3. \A k \in 1 .. Len(pending') : pending'[k] = N + 1 - k
        BY <1>0, <3>1, <3>2 DEF QueueInv
      <3> QED
        BY <1>0, <3>1, <3>2, <3>3 DEF QueueInv
    <2>3. CurFile' = CurFile + 1 /\ CurFile \in Nat
      <3>1. N' = N /\ N \in Nat
        BY <1>0, Types DEF N
      <3>2. Len(pending') = Len(pending) - 1 /\ Len(pending) \in 1 .. N
        BY <1>0, PopStep
      <3> QED
        BY <3>1, <3>2 DEF CurFile
    <2>4. \A r \in Row : Before(r, Cur) => Before(r, Cur')
      BY <2>3 DEF Row, Before, Cur, CurItem
    <2>5. HeldInv' /\ GoodInv' /\ RetryInv'
      BY <2>1, <2>4, CursorStep
    <2> QED
      BY <2>1, <2>2, <2>5 DEF IInv
  <1>6. CASE FillDone
    BY <1>6, PhaseStep DEF FillDone
  <1>7. CASE TakeRow
    <2> USE <1>7 DEF TakeRow, Filling, HasItem
    <2> DEFINE r == <<source, pos>>
    <2>1. r \in Row /\ ItemOf(job.sources, r) /\ Cur = r /\ Cur' = <<source, pos + 1>> /\ pos \in Nat
      <3>1. source \in 1 .. N /\ pos \in Nat /\ pos >= 1 /\ N \in Nat
        BY <1>0, Types DEF TypeOK, QueueInv, N
      <3>2. Cur = r /\ Cur' = <<source, pos + 1>>
        BY DEF Cur, CurFile, CurItem
      <3> QED
        BY <3>1, <3>2 DEF Row, ItemOf, N
    <2>2. TypeOK'
      BY <1>0, <2>1, Types DEF TypeOK
    <2>3. QueueInv'
      BY <1>0, <2>1, QueueStep DEF QueueInv
    <2>4. Before(r, Cur') /\ \A q \in Row : Before(q, Cur) => Before(q, Cur')
      BY <2>1 DEF Row, Before
    <2>5. Ascending(rows')
      BY <1>0, <2>1, AppendAscending DEF TypeOK, HeldInv
    <2>6. \A k \in 1 .. Len(rows') : rows'[k] = r \/ (k \in 1 .. Len(rows) /\ rows'[k] = rows[k])
      BY <1>0, <2>1, FromAppend DEF TypeOK
    <2>7. HeldInv'
      <3>2. /\ \A k \in 1 .. Len(rows) : rows[k] \in Row /\ Before(rows[k], r) /\ Before(rows[k], Cur')
            /\ \A k \in 1 .. Len(delivered) :
                  delivered[k] \in Row /\ Before(delivered[k], r) /\ Before(delivered[k], Cur')
        BY <1>0, <2>1, <2>4, ElementOfSeq DEF TypeOK, HeldInv
      <3> QED
        <4>1. \A k \in 1 .. Len(rows') : ItemOf(job.sources, rows'[k]) /\ Before(rows'[k], Cur')
          BY <1>0, <2>1, <2>4, <2>6, <3>2 DEF HeldInv
        <4>2. \A j \in 1 .. Len(delivered), k \in 1 .. Len(rows') : Before(delivered[j], rows'[k])
          BY <1>0, <2>6, <3>2 DEF HeldInv
        <4>3. \A j \in 1 .. Len(delivered) : ItemOf(job.sources, delivered[j]) /\ Before(delivered[j], Cur')
          BY <1>0, <3>2 DEF HeldInv
        <4> QED
          BY <1>0, <2>5, <4>1, <4>2, <4>3 DEF HeldInv, Ascending
    <2>8. GoodInv' /\ RetryInv'
      <3>1. Usable(r) /\ \A k \in 1 .. Len(rows) : Usable(rows[k])
        BY <1>0 DEF GoodInv
      <3>2. \A k \in 1 .. Len(rows') : Usable(rows'[k])
        BY ONLY <2>6, <3>1
      <3>3. GoodInv'
        BY <1>0, <3>2 DEF GoodInv, Usable, OnlyGoodRowsDelivered, Kind
      <3>4. RetryInv'
        BY DEF RetryInv
      <3> QED
        BY ONLY <3>3, <3>4
    <2> QED
      BY <2>2, <2>3, <2>7, <2>8 DEF IInv
  <1>8. CASE SkipMisshapen \/ RefuseMisshapen
    <2> USE <1>8 DEF SkipMisshapen, RefuseMisshapen, Filling, HasItem
    <2>1. TypeOK'
      BY <1>0, Types, SMTT(30) DEF TypeOK
    <2>2. QueueInv'
      <3>1. pos \in Nat /\ pos >= 1
        BY ONLY <1>0 DEF TypeOK, QueueInv
      <3> QED
        BY <1>0, <3>1, QueueStep
    <2>3. \A r \in Row : Before(r, Cur) => Before(r, Cur')
      BY <1>0, Types, SMTT(30) DEF TypeOK, Row, Before, Cur, CurFile, CurItem, N
    <2>4. HeldInv' /\ GoodInv' /\ RetryInv'
      BY <2>1, <2>3, CursorStep
    <2> QED
      BY <2>1, <2>2, <2>4 DEF IInv
  <1>9. CASE SourceEnds
    <2> USE <1>9 DEF SourceEnds, EndsCleanly, AtEnd, Filling
    <2>1. TypeOK'
      BY <1>0, Types DEF TypeOK
    <2>2. QueueInv'
      BY <1>0 DEF QueueInv, N
    <2>3. CurFile' = CurFile + 1 /\ CurFile \in Nat
      <3>1. N' = N /\ N \in Nat /\ Len(pending) \in 0 .. N /\ source = N - Len(pending)
        BY <1>0, Types DEF TypeOK, QueueInv, N
      <3> QED
        BY <3>1 DEF CurFile
    <2>4. \A r \in Row : Before(r, Cur) => Before(r, Cur')
      BY <2>3 DEF Row, Before, Cur, CurItem
    <2>5. HeldInv' /\ GoodInv' /\ RetryInv'
      BY <2>1, <2>4, CursorStep
    <2> QED
      BY <2>1, <2>2, <2>5 DEF IInv
  <1>10. CASE DecodeFails
    <2> USE <1>10 DEF DecodeFails, AtEnd, Filling, RowError
    <2>1. TypeOK'
      BY <1>0, Types DEF TypeOK
    <2>2. QueueInv'
      BY <1>0, Types DEF TypeOK, QueueInv, N
    <2>3. CurFile' > CurFile /\ CurFile \in Nat /\ CurFile' \in Nat
      BY <1>0, Types DEF TypeOK, QueueInv, CurFile, N
    <2>4. \A r \in Row : Before(r, Cur) => Before(r, Cur')
      BY <2>3 DEF Row, Before, Cur, CurItem
    <2>5. HeldInv' /\ GoodInv' /\ RetryInv'
      BY <2>1, <2>4, CursorStep
    <2> QED
      BY <2>1, <2>2, <2>5 DEF IInv
  <1>11. CASE EndOfRows \/ RefuseBatch
    BY <1>11, PhaseStep DEF EndOfRows, RefuseBatch
  <1>12. CASE EmitBatch
    <2> USE <1>12 DEF EmitBatch
    <2>1. TypeOK'
      BY <1>0 DEF TypeOK
    <2>2. QueueInv'
      BY <1>0 DEF QueueInv, N
    <2>3. Ascending(delivered')
      BY <1>0, ConcatAscending DEF TypeOK, HeldInv
    <2>4. \A k \in 1 .. Len(delivered') :
            \/ k \in 1 .. Len(delivered) /\ delivered'[k] = delivered[k]
            \/ \E j \in 1 .. Len(rows) : delivered'[k] = rows[j]
      <3>1. rows \in Seq(Row) /\ delivered \in Seq(Row)
        BY ONLY <1>0 DEF TypeOK
      <3>2. delivered' = delivered \o rows
        OBVIOUS
      <3> QED
        BY ONLY <3>1, <3>2, FromEither
    <2>5. HeldInv'
      <3>1. Len(rows') = 0
        OBVIOUS
      <3>2. \A j \in 1 .. Len(delivered') : ItemOf(job.sources, delivered'[j]) /\ Before(delivered'[j], Cur')
        BY <1>0, <2>4, SameCursor DEF HeldInv
      <3> QED
        BY <2>3, <3>1, <3>2 DEF HeldInv, Ascending
    <2>6. \A j \in 1 .. Len(rows) : Kind(rows[j]) = "good"
      BY <1>0, Types DEF HeldInv, GoodInv, AllConvert, Usable, Converts, RowKind
    <2>7. GoodInv' /\ RetryInv'
      <3>1. \A k \in 1 .. Len(delivered') : Kind(delivered'[k]) = "good"
        BY <1>0, <2>4, <2>6 DEF GoodInv, OnlyGoodRowsDelivered
      <3>2. GoodInv'
        <4>1. job' = job /\ Len(rows') = 0
          OBVIOUS
        <4>2. \A k \in 1 .. Len(rows') : Usable(rows[k])'
          BY ONLY <4>1
        <4> QED
          BY ONLY <3>1, <4>1, <4>2 DEF GoodInv, OnlyGoodRowsDelivered, Kind
      <3>3. RetryInv'
        BY DEF RetryInv
      <3> QED
        BY ONLY <3>2, <3>3
    <2> QED
      BY <2>1, <2>2, <2>5, <2>7 DEF IInv
  <1>13. CASE RetryRowByRow
    <2> USE <1>13 DEF RetryRowByRow
    <2>1. TypeOK'
      BY <1>0 DEF TypeOK
    <2>2. QueueInv'
      BY <1>0 DEF QueueInv, N
    <2>3. HeldInv' /\ GoodInv'
      BY <1>0 DEF HeldInv, GoodInv, N, Cur, CurFile, CurItem, Usable,
                  OnlyGoodRowsDelivered, Kind
    <2>4. RetryInv'
      BY <1>0 DEF TypeOK, RetryInv, Ascending
    <2> QED
      BY <2>1, <2>2, <2>3, <2>4 DEF IInv
  <1>14. CASE TryRow
    <2> USE <1>14 DEF TryRow
    <2> DEFINE r == rows[tried + 1]
    <2>1. tried + 1 \in 1 .. Len(rows) /\ r \in Row
      BY <1>0 DEF TypeOK
    <2>2. TypeOK'
      BY <1>0, <2>1 DEF TypeOK
    <2>3. QueueInv'
      BY <1>0 DEF QueueInv, N
    <2>4. HeldInv' /\ GoodInv'
      BY <1>0 DEF HeldInv, GoodInv, N, Cur, CurFile, CurItem, Usable,
                  OnlyGoodRowsDelivered, Kind
    <2>5. RetryInv'
      <3>1. CASE Converts(r)
        <4>1. \A k \in 1 .. Len(kept) : Before(kept[k], r)
          <5> SUFFICES ASSUME NEW k \in 1 .. Len(kept) PROVE Before(kept[k], r)
            OBVIOUS
          <5>1. PICK i \in 1 .. tried : kept[k] = rows[i]
            BY <1>0 DEF RetryInv
          <5>2. i \in 1 .. Len(rows) /\ i < tried + 1 /\ tried \in Nat
            BY <1>0, <2>1 DEF TypeOK
          <5> QED
            BY <1>0, <2>1, <5>1, <5>2 DEF HeldInv, Ascending
        <4>2. Ascending(kept')
          BY <1>0, <2>1, <3>1, <4>1, AppendAscending DEF TypeOK, RetryInv
        <4>3. \A k \in 1 .. Len(kept') :
                kept'[k] = r \/ (k \in 1 .. Len(kept) /\ kept'[k] = kept[k])
          BY <1>0, <2>1, <3>1, FromAppend DEF TypeOK
        <4> QED
          <5>1. tried \in Nat /\ tried + 1 <= Len(rows) /\ tried' = tried + 1
            BY <1>0, <2>1 DEF TypeOK
          <5>2. ASSUME NEW j \in 1 .. Len(kept')
                PROVE  Converts(kept[j])' /\ \E k \in 1 .. tried' : kept'[j] = rows'[k]
            <6>1. CASE kept'[j] = r
              BY <3>1, <5>1, <6>1 DEF Converts, Kind
            <6>2. CASE j \in 1 .. Len(kept) /\ kept'[j] = kept[j]
              <7>1. PICK k \in 1 .. tried : kept[j] = rows[k]
                BY <1>0, <6>2 DEF RetryInv
              <7>2. Converts(kept[j])
                BY <1>0, <6>2 DEF RetryInv
              <7> QED
                <8>1. k \in 1 .. tried'
                  BY ONLY <5>1, <7>1
                <8>2. kept'[j] = rows'[k]
                  BY <6>2, <7>1
                <8>3. Converts(kept[j])'
                  BY <6>2, <7>2 DEF Converts, Kind
                <8> QED
                  BY ONLY <8>1, <8>2, <8>3
            <6> QED
              BY <4>3, <6>1, <6>2
          <5> QED
            BY <4>2, <5>1, <5>2 DEF RetryInv, Ascending
      <3>2. CASE ~Converts(r)
        <4>1. /\ kept' = kept /\ rows' = rows /\ job' = job /\ phase = "retry"
              /\ tried' = tried + 1
          BY <3>2
        <4>2. tried \in Nat /\ tried + 1 <= Len(rows) /\ Len(rows) \in Nat
          BY ONLY <1>0, <2>1 DEF TypeOK
        <4>3. 1 .. tried \subseteq 1 .. tried' /\ tried' <= Len(rows)
          BY ONLY <4>1, <4>2
        <4> QED
          BY ONLY <1>0, <4>1, <4>3 DEF RetryInv, Ascending, Converts, Kind
      <3> QED
        BY <3>1, <3>2
    <2> QED
      BY <2>2, <2>3, <2>4, <2>5 DEF IInv
  <1>15. CASE EmitKept
    <2> USE <1>15 DEF EmitKept
    <2>1. TypeOK'
      BY <1>0 DEF TypeOK
    <2>2. QueueInv'
      BY <1>0 DEF QueueInv, N
    <2>3. \A j \in 1 .. Len(kept) : \E k \in 1 .. Len(rows) : kept[j] = rows[k]
      BY <1>0 DEF TypeOK, RetryInv
    <2>4. Ascending(delivered')
      BY <1>0, <2>3, ConcatAscending DEF TypeOK, HeldInv, RetryInv
    <2>5. \A k \in 1 .. Len(delivered') :
            \/ k \in 1 .. Len(delivered) /\ delivered'[k] = delivered[k]
            \/ \E j \in 1 .. Len(kept) : delivered'[k] = kept[j]
      BY <1>0, FromEither DEF TypeOK
    <2>6. HeldInv'
      BY <1>0, <2>3, <2>4, <2>5, SameCursor, EmptySeq, SMTT(30) DEF HeldInv, Ascending
    <2>7. \A j \in 1 .. Len(kept) : Kind(kept[j]) = "good"
      BY <1>0, <2>3, Types DEF HeldInv, GoodInv, RetryInv, Usable, Converts, RowKind
    <2>8. GoodInv' /\ RetryInv'
      <3>1. \A k \in 1 .. Len(delivered') : Kind(delivered'[k]) = "good"
        BY <1>0, <2>5, <2>7 DEF GoodInv, OnlyGoodRowsDelivered
      <3>2. GoodInv'
        <4>1. job' = job /\ Len(rows') = 0
          OBVIOUS
        <4>2. \A k \in 1 .. Len(rows') : Usable(rows[k])'
          BY ONLY <4>1
        <4> QED
          BY ONLY <3>1, <4>1, <4>2 DEF GoodInv, OnlyGoodRowsDelivered, Kind
      <3>3. RetryInv'
        BY DEF RetryInv
      <3> QED
        BY ONLY <3>2, <3>3
    <2> QED
      BY <2>1, <2>2, <2>6, <2>8 DEF IInv
  <1>16. CASE UNCHANGED vars
    BY <1>0, <1>16 DEF vars, IInv, TypeOK, QueueInv, HeldInv, GoodInv, RetryInv, N, ItemOf,
                       Cur, CurFile, CurItem, Usable, Converts, OnlyGoodRowsDelivered, Kind
  <1> QED
    BY <1>1, <1>2, <1>3, <1>4, <1>5, <1>6, <1>7, <1>8, <1>9, <1>10, <1>11, <1>12, <1>13,
       <1>14, <1>15, <1>16 DEF Next, Step, Done

-----------------------------------------------------------------------------
\* The inductive invariant holds throughout.
LEMMA Inductive == Spec => []IInv
  BY InitIInv, NextIInv, PTL DEF Spec

\* Every variable keeps its type and no batch outgrows READ_BATCH_ROWS, for
\* every batch size and every list of sources.
THEOREM TypeCorrect == Spec => []TypeOK
  <1>1. IInv => TypeOK
    BY DEF IInv
  <1> QED
    BY <1>1, Inductive, PTL

\* No row of the wrong shape and no row with a cell its column cannot hold is
\* ever delivered.
THEOREM OnlyGood == Spec => []OnlyGoodRowsDelivered
  <1>1. IInv => OnlyGoodRowsDelivered
    BY DEF IInv, GoodInv
  <1> QED
    BY <1>1, Inductive, PTL

\* Rows are delivered in the order of the sorted sources and of the items in
\* each, and none twice, whatever mix of batches, skips and retries delivers them.
THEOREM InOrder == Spec => []DeliveredInSourceOrder
  <1>1. IInv => DeliveredInSourceOrder
    BY DEF IInv, HeldInv, DeliveredInSourceOrder
  <1> QED
    BY <1>1, Inductive, PTL

-----------------------------------------------------------------------------
(* Completeness: nothing that is due is lost.                              *)

Whole(src, f) == src[f].opens /\ ~src[f].torn

\* The rows a COPY owes its caller: any item, or with ignore_errors any good
\* one, of a readable source with nothing broken before it.
Due(j, r) ==
  /\ ItemOf(j.sources, r)
  /\ \A g \in 1 .. r[1] - 1 : Whole(j.sources, g)
  /\ j.sources[r[1]].opens
  /\ ~j.ignoreErrors \/ j.sources[r[1]].items[r[2]] = "good"

Running == phase \notin {"bind", "failed"}

\* A due row behind the read position is in the table or in the batch.
KeptInv ==
  Running => \A r \in Row : Due(job, r) /\ Before(r, Cur) => InSeq(r, delivered) \/ InSeq(r, rows)

\* Without ignore_errors nothing broken is ever passed.
StrictInv ==
  Running /\ ~Lenient => \A g \in 1 .. CurFile - 1 : Whole(job.sources, g)

\* Why a batch can be empty: the sources are exhausted, or one was broken.
EndInv ==
  phase = "ended" \/ (phase = "build" /\ rows = <<>>) =>
    \/ source = 0 /\ pending = <<>>
    \/ Lenient /\ \E g \in 1 .. CurFile - 1 : ~Whole(job.sources, g)

\* Between calls no row is held; at the end none is left; a retry keeps every
\* row it has tried that converts.
HandoverInv ==
  /\ phase \in {"idle", "ended"} => rows = <<>>
  /\ phase = "retry" =>
       /\ Lenient
       /\ \A k \in 1 .. tried : Converts(rows[k]) => InSeq(rows[k], kept)

CInv == KeptInv /\ StrictInv /\ EndInv /\ HandoverInv

LEMMA InSeqAppend ==
  ASSUME NEW s \in Seq(Row), NEW r \in Row
  PROVE  /\ InSeq(r, Append(s, r))
         /\ \A q : InSeq(q, s) => InSeq(q, Append(s, r))
  <1>1. /\ Len(Append(s, r)) = Len(s) + 1 /\ Append(s, r)[Len(s) + 1] = r
        /\ \A k \in 1 .. Len(s) : Append(s, r)[k] = s[k]
    BY AppendProperties
  <1> QED
    BY <1>1 DEF InSeq

LEMMA InSeqConcat ==
  ASSUME NEW s \in Seq(Row), NEW t \in Seq(Row)
  PROVE  \A q : InSeq(q, s) \/ InSeq(q, t) => InSeq(q, s \o t)
  <1>1. /\ Len(s \o t) = Len(s) + Len(t)
        /\ \A k \in 1 .. Len(s) : (s \o t)[k] = s[k]
        /\ \A k \in 1 .. Len(t) : (s \o t)[Len(s) + k] = t[k]
    BY ConcatProperties
  <1>2. \A k \in 1 .. Len(t) : Len(s) + k \in 1 .. Len(s \o t)
    BY <1>1
  <1> QED
    BY <1>1, <1>2 DEF InSeq

\* A step that moves the read position past no due row keeps KeptInv.
LEMMA KeptStep ==
  ASSUME KeptInv, Running, UNCHANGED <<job, rows, delivered>>,
         \A r \in Row : Due(job, r) /\ Before(r, Cur') => Before(r, Cur)
  PROVE  KeptInv'
  BY DEF KeptInv

LEMMA InitCInv == Init => CInv
  BY DEF Init, CInv, KeptInv, StrictInv, EndInv, HandoverInv, Running

LEMMA NextCInv == IInv /\ CInv /\ [Next]_vars => CInv'
  <1> SUFFICES ASSUME IInv, CInv, [Next]_vars PROVE CInv'
    OBVIOUS
  <1> USE CopyFromAssumption
  <1>0. /\ TypeOK /\ QueueInv /\ HeldInv /\ GoodInv /\ RetryInv
        /\ KeptInv /\ StrictInv /\ EndInv /\ HandoverInv
    BY DEF IInv, CInv
  <1>t. /\ N \in Nat /\ Len(pending) \in 0 .. N /\ source \in 0 .. N /\ pos \in Nat
        /\ rows \in Seq(Row) /\ delivered \in Seq(Row) /\ kept \in Seq(Row)
        /\ Len(rows) \in Nat
    BY <1>0, Types DEF TypeOK, QueueInv, N
  <1>1. CASE Open
    <2> USE <1>1 DEF Open
    <2>1. Cur' = <<1, 1>>
      BY <1>0, <1>t DEF QueueInv, Cur, CurFile, CurItem, N
    <2>2. \A r \in Row : Due(job, r) => ~Before(r, <<1, 1>>)
      BY DEF Row, Due, ItemOf, Before
    <2>3. KeptInv'
      BY <2>1, <2>2 DEF KeptInv
    <2>4. StrictInv'
      BY <2>1 DEF StrictInv, Cur
    <2>5. EndInv' /\ HandoverInv'
      BY <1>0 DEF EndInv, HandoverInv, QueueInv
    <2> QED
      BY <2>3, <2>4, <2>5 DEF CInv
  <1>2. CASE RefuseOpen \/ RefuseMisshapen \/ RefuseBatch
    BY <1>2 DEF RefuseOpen, RefuseMisshapen, RefuseBatch, CInv, KeptInv, StrictInv, EndInv,
                HandoverInv, Running
  <1>3. CASE NextBatch
    <2> USE <1>3 DEF NextBatch
    <2>1. Cur' = Cur /\ CurFile' = CurFile /\ rows = <<>>
      BY <1>0 DEF Cur, CurFile, CurItem, N, HandoverInv
    <2>2. CInv'
      BY <1>0, <2>1 DEF CInv, KeptInv, StrictInv, EndInv, HandoverInv, Running, Lenient
    <2> QED
      BY <2>2
  <1>4. CASE OpenNextSource
    <2> USE <1>4 DEF OpenNextSource, Filling
    <2>1. CurFile' = CurFile /\ CurItem' = CurItem
      BY <1>0, <1>t, PopStep DEF CurFile, CurItem, N
    <2>2. CInv'
      BY <1>0, <2>1 DEF CInv, KeptInv, StrictInv, EndInv, HandoverInv, Running, Lenient, Cur
    <2> QED
      BY <2>2
  <1>5. CASE SourceUnreadable
    <2> USE <1>5 DEF SourceUnreadable, Filling, RowError
    <2>1. /\ CurFile = NextSource /\ CurItem = 1 /\ NextSource \in Nat
          /\ CurFile' = NextSource + 1 /\ CurItem' = 1
      <3>1. N' = N /\ Len(pending') = Len(pending) - 1 /\ NextSource = N + 1 - Len(pending)
        BY <1>0, PopStep DEF N
      <3> QED
        BY <1>t, <3>1 DEF CurFile, CurItem
    <2>2. ~Whole(job.sources, NextSource) /\ NextSource >= 1
      BY <1>0, PopStep DEF Whole
    <2>3. \A r \in Row : Due(job, r) /\ Before(r, Cur') => Before(r, Cur)
      BY <2>1, <2>2 DEF Row, Due, Before, Cur
    <2>4. KeptInv'
      BY <1>0, <2>3, KeptStep DEF Running
    <2>5. StrictInv'
      BY DEF StrictInv, Running, Lenient
    <2>6. EndInv'
      BY <2>1, <2>2 DEF EndInv, Lenient
    <2>7. HandoverInv'
      BY DEF HandoverInv
    <2> QED
      BY <2>4, <2>5, <2>6, <2>7 DEF CInv
  <1>6. CASE FillDone
    <2> USE <1>6 DEF FillDone
    <2>1. CurFile' = CurFile /\ Cur' = Cur
      BY DEF Cur, CurFile, CurItem, N
    <2>2. KeptInv' /\ StrictInv' /\ HandoverInv'
      BY <1>0, <2>1 DEF KeptInv, StrictInv, HandoverInv, Running, Lenient
    <2>3. rows = <<>> => source = 0 /\ pending = <<>>
      BY <1>t
    <2>4. EndInv'
      BY <2>3 DEF EndInv
    <2> QED
      BY <2>2, <2>4 DEF CInv
  <1>7. CASE TakeRow
    <2> USE <1>7 DEF TakeRow, Filling, HasItem
    <2> DEFINE r == <<source, pos>>
    <2>1. r \in Row /\ Cur = r /\ Cur' = <<source, pos + 1>> /\ CurFile' = CurFile
      BY <1>t DEF Row, Cur, CurFile, CurItem, N
    <2>2. \A q \in Row : Before(q, Cur') => q = r \/ Before(q, Cur)
      BY <1>t, <2>1 DEF Row, Before
    <2>3. InSeq(r, rows') /\ \A q : InSeq(q, rows) => InSeq(q, rows')
      BY <1>t, <2>1, InSeqAppend
    <2>4. KeptInv'
      BY <1>0, <2>2, <2>3 DEF KeptInv, Running
    <2>5. StrictInv' /\ EndInv' /\ HandoverInv'
      BY <1>0, <2>1 DEF StrictInv, EndInv, HandoverInv, Running, Lenient
    <2> QED
      BY <2>4, <2>5 DEF CInv
  <1>8. CASE SkipMisshapen
    <2> USE <1>8 DEF SkipMisshapen, Filling, HasItem
    <2>1. Cur = <<source, pos>> /\ Cur' = <<source, pos + 1>> /\ CurFile' = CurFile
      BY DEF Cur, CurFile, CurItem, N
    <2>2. ~Due(job, <<source, pos>>)
      BY DEF Due, Usable, Kind, Lenient
    <2>3. \A q \in Row : Due(job, q) /\ Before(q, Cur') => Before(q, Cur)
      <3>1. \A q \in Row : Before(q, <<source, pos + 1>>) => q = <<source, pos>> \/ Before(q, <<source, pos>>)
        BY <1>t DEF Row, Before
      <3> QED
        BY <2>1, <2>2, <3>1
    <2>4. KeptInv'
      BY <1>0, <2>3, KeptStep DEF Running
    <2>5. StrictInv' /\ EndInv' /\ HandoverInv'
      BY <1>0, <2>1 DEF StrictInv, EndInv, HandoverInv, Running, Lenient
    <2> QED
      BY <2>4, <2>5 DEF CInv
  <1>9. CASE SourceEnds
    <2> USE <1>9 DEF SourceEnds, EndsCleanly, AtEnd, Filling
    <2>1. source \in 1 .. N /\ Len(job.sources[source].items) \in Nat
      BY <1>0, <1>t, Types
    <2>2. Cur = <<source, pos>> /\ Cur' = <<source + 1, 1>> /\ CurFile = source /\ CurFile' = source + 1
      <3>1. N' = N /\ source = N - Len(pending)
        BY <1>0 DEF QueueInv, N
      <3> QED
        BY <1>t, <3>1 DEF Cur, CurFile, CurItem
    <2>3. \A q \in Row : Due(job, q) /\ Before(q, Cur') => Before(q, Cur)
      BY <1>t, <2>1, <2>2, SMTT(30) DEF Row, Due, ItemOf, Before
    <2>4. KeptInv'
      BY <1>0, <2>3, KeptStep DEF Running
    <2>5. StrictInv'
      <3>1. SUFFICES ASSUME ~Lenient, NEW g \in 1 .. source PROVE Whole(job.sources, g)
        BY <2>1, <2>2 DEF StrictInv, Lenient
      <3>2. CASE g = source
        BY <1>0, <2>2, <3>2 DEF Whole, QueueInv
      <3>3. CASE g \in 1 .. source - 1
        BY <1>0, <2>2, <3>1, <3>3 DEF StrictInv, Running
      <3> QED
        BY <2>1, <3>2, <3>3
    <2>6. EndInv' /\ HandoverInv'
      BY <1>0 DEF EndInv, HandoverInv
    <2> QED
      BY <2>4, <2>5, <2>6 DEF CInv
  <1>10. CASE DecodeFails
    <2> USE <1>10 DEF DecodeFails, AtEnd, EndsCleanly, Filling, RowError
    <2>1. source \in 1 .. N /\ Len(job.sources[source].items) \in Nat
      BY <1>0, <1>t, Types, SMTT(30)
    <2>2. Cur = <<source, pos>> /\ CurFile' = N + 1 /\ ~Whole(job.sources, source)
      BY <1>t DEF Cur, CurFile, CurItem, N, Whole
    <2>3. \A q \in Row : Due(job, q) /\ Before(q, Cur') => Before(q, Cur)
      <3> SUFFICES ASSUME NEW q \in Row, Due(job, q) PROVE Before(q, Cur)
        OBVIOUS
      <3>1. q[1] <= source
        BY <2>1, <2>2 DEF Due, Row
      <3>2. q[2] <= Len(job.sources[q[1]].items)
        BY DEF Due, ItemOf, Row
      <3> QED
        <4>1. q[1] \in Nat /\ q[2] \in Nat /\ q = <<q[1], q[2]>>
          BY ONLY q \in Row DEF Row
        <4>2. q[1] = source => q[2] < pos
          <5>1. pos > Len(job.sources[source].items) /\ pos \in Nat
            BY <1>t
          <5> QED
            BY ONLY <2>1, <3>2, <4>1, <5>1
        <4>3. q[1] < source \/ q[1] = source
          BY ONLY <2>1, <3>1, <4>1
        <4> QED
          BY ONLY <2>2, <4>2, <4>3 DEF Before
    <2>4. KeptInv'
      BY <1>0, <2>3, KeptStep DEF Running
    <2>5. StrictInv' /\ HandoverInv'
      BY DEF StrictInv, HandoverInv, Running, Lenient
    <2>6. EndInv'
      BY <2>1, <2>2 DEF EndInv, Lenient
    <2> QED
      BY <2>4, <2>5, <2>6 DEF CInv
  <1>11. CASE EndOfRows
    <2> USE <1>11 DEF EndOfRows
    <2>1. CurFile' = CurFile /\ Cur' = Cur
      BY DEF Cur, CurFile, CurItem, N
    <2> QED
      BY <1>0, <2>1 DEF CInv, KeptInv, StrictInv, EndInv, HandoverInv, Running, Lenient
  <1>12. CASE EmitBatch
    <2> USE <1>12 DEF EmitBatch
    <2>1. CurFile' = CurFile /\ Cur' = Cur
      BY DEF Cur, CurFile, CurItem, N
    <2>2. KeptInv'
      BY <1>0, <1>t, <2>1, InSeqConcat DEF KeptInv, Running
    <2>3. StrictInv' /\ EndInv' /\ HandoverInv'
      BY <1>0, <2>1 DEF StrictInv, EndInv, HandoverInv, Running, Lenient
    <2> QED
      BY <2>2, <2>3 DEF CInv
  <1>13. CASE RetryRowByRow
    <2> USE <1>13 DEF RetryRowByRow
    <2>1. CurFile' = CurFile /\ Cur' = Cur
      BY DEF Cur, CurFile, CurItem, N
    <2> QED
      BY <1>0, <2>1 DEF CInv, KeptInv, StrictInv, EndInv, HandoverInv, Running, Lenient
  <1>14. CASE TryRow
    <2> USE <1>14 DEF TryRow
    <2>1. CurFile' = CurFile /\ Cur' = Cur
      BY DEF Cur, CurFile, CurItem, N
    <2>2. KeptInv' /\ StrictInv' /\ EndInv'
      BY <1>0, <2>1 DEF KeptInv, StrictInv, EndInv, Running, Lenient
    <2>3. tried \in Nat /\ rows[tried + 1] \in Row
      BY <1>0, <1>t DEF TypeOK
    <2>4. \A q : InSeq(q, kept) => InSeq(q, kept')
      BY <1>t, <2>3, InSeqAppend
    <2>5. Converts(rows[tried + 1]) => InSeq(rows[tried + 1], kept')
      BY <1>t, <2>3, InSeqAppend
    <2>6. HandoverInv'
      <3>1. tried' = tried + 1 /\ rows' = rows /\ job' = job /\ phase = "retry"
        OBVIOUS
      <3>2. phase' = "retry" /\ Lenient'
        BY <1>0 DEF HandoverInv, Lenient
      <3>3. ASSUME NEW k \in 1 .. tried', Converts(rows[k]) PROVE InSeq(rows[k], kept')
        <4>1. k \in 1 .. tried \/ k = tried + 1
          BY ONLY <2>3, <3>1
        <4>2. CASE k \in 1 .. tried
          BY ONLY <1>0, <2>4, <3>1, <3>3, <4>2 DEF HandoverInv
        <4>3. CASE k = tried + 1
          BY ONLY <2>5, <3>3, <4>3
        <4> QED
          BY ONLY <4>1, <4>2, <4>3
      <3> QED
        BY <3>1, <3>2, <3>3 DEF HandoverInv, Converts, Kind
    <2> QED
      BY <2>2, <2>6 DEF CInv
  <1>15. CASE EmitKept
    <2> USE <1>15 DEF EmitKept
    <2>1. CurFile' = CurFile /\ Cur' = Cur
      BY DEF Cur, CurFile, CurItem, N
    <2>2. \A q \in Row : Due(job, q) /\ InSeq(q, rows) => InSeq(q, kept)
      <3> SUFFICES ASSUME NEW q \in Row, Due(job, q), InSeq(q, rows) PROVE InSeq(q, kept)
        OBVIOUS
      <3>1. PICK k \in 1 .. Len(rows) : q = rows[k]
        BY DEF InSeq
      <3>2. Lenient /\ k \in 1 .. tried /\ phase = "retry"
        BY <1>0 DEF HandoverInv
      <3>3. Converts(q)
        BY <3>2 DEF Due, Lenient, Converts, Kind
      <3> QED
        BY ONLY <1>0, <3>1, <3>2, <3>3 DEF HandoverInv
    <2>3. KeptInv'
      BY <1>0, <1>t, <2>1, <2>2, InSeqConcat DEF KeptInv, Running
    <2>4. StrictInv' /\ EndInv' /\ HandoverInv'
      BY <1>0, <2>1 DEF StrictInv, EndInv, HandoverInv, Running, Lenient
    <2> QED
      BY <2>3, <2>4 DEF CInv
  <1>16. CASE UNCHANGED vars
    BY <1>0, <1>16 DEF vars, CInv, KeptInv, StrictInv, EndInv, HandoverInv, Running, Lenient,
                       N, Cur, CurFile, CurItem, Converts, Kind
  <1> QED
    BY <1>1, <1>2, <1>3, <1>4, <1>5, <1>6, <1>7, <1>8, <1>9, <1>10, <1>11, <1>12, <1>13,
       <1>14, <1>15, <1>16 DEF Next, Step, Done

LEMMA Complete == Spec => [](IInv /\ CInv)
  BY InitIInv, NextIInv, InitCInv, NextCInv, PTL DEF Spec

\* What CInv says once the COPY has ended: every due row is in the table.
LEMMA EndedHasDue ==
  ASSUME IInv, CInv, phase = "ended"
  PROVE  \A r \in Row : Due(job, r) => InSeq(r, delivered)
  <1> SUFFICES ASSUME NEW r \in Row, Due(job, r) PROVE InSeq(r, delivered)
    OBVIOUS
  <1>1. ~InSeq(r, rows)
    BY DEF CInv, HandoverInv, InSeq
  <1>2. N \in Nat /\ r[1] \in 1 .. N
    BY Types DEF IInv, Due, ItemOf, N
  <1>3. CASE source = 0 /\ pending = <<>>
    <2>1. Before(r, Cur)
      BY <1>2, <1>3 DEF Before, Cur, CurFile, CurItem
    <2> QED
      BY <1>1, <2>1 DEF CInv, KeptInv, Running
  <1>4. CASE \E g \in 1 .. CurFile - 1 : ~Whole(job.sources, g)
    <2>1. CurFile \in Nat
      BY <1>2 DEF IInv, TypeOK, QueueInv, CurFile, N
    <2>2. r[1] < CurFile
      BY <1>2, <1>4, <2>1 DEF Due
    <2>3. Before(r, Cur)
      BY <2>2 DEF Before, Cur
    <2> QED
      BY <1>1, <2>3 DEF CInv, KeptInv, Running
  <1> QED
    BY <1>3, <1>4 DEF CInv, EndInv

\* A COPY with ignore_errors loses no good row up to the first broken source.
THEOREM LenientComplete == Spec => []LenientKeepsGoodRows
  <1>1. IInv /\ CInv => LenientKeepsGoodRows
    <2> SUFFICES ASSUME IInv, CInv, phase = "ended", NEW r \in AllItems,
                        IntactBefore(r[1]), job.sources[r[1]].opens, Kind(r) = "good"
                 PROVE  InSeq(r, delivered)
      BY DEF LenientKeepsGoodRows
    <2>1. r \in Row /\ ItemOf(job.sources, r)
      BY Types DEF AllItems, IInv, Row, ItemOf, N
    <2>2. Due(job, r)
      BY <2>1 DEF Due, IntactBefore, Whole, Kind
    <2> QED
      BY <2>1, <2>2, EndedHasDue
  <1> QED
    BY <1>1, Complete, PTL

\* Without ignore_errors the end is only reached past every item of sources that
\* are all readable and whole.
LEMMA StrictEnd == IInv /\ CInv => StrictSuccessIsComplete
  <1> SUFFICES ASSUME IInv, CInv, phase = "ended", ~Lenient
               PROVE  /\ \A r \in AllItems : InSeq(r, delivered)
                      /\ \A f \in 1 .. N : Whole(job.sources, f)
    BY DEF StrictSuccessIsComplete, N, Whole
  <1>1. CurFile = N + 1 /\ N \in Nat
    BY Types DEF IInv, CInv, EndInv, CurFile
  <1>2. \A f \in 1 .. N : Whole(job.sources, f)
    BY <1>1 DEF CInv, StrictInv, Running
  <1>3. ASSUME NEW r \in AllItems PROVE InSeq(r, delivered)
    <2>1. r \in Row /\ ItemOf(job.sources, r)
      BY Types DEF AllItems, IInv, Row, ItemOf, N
    <2>2. Due(job, r)
      BY <1>1, <1>2, <2>1 DEF Due, Whole, ItemOf, N, Lenient
    <2> QED
      BY <2>1, <2>2, EndedHasDue
  <1> QED
    BY <1>2, <1>3

\* A COPY without ignore_errors that succeeds loaded every item of sources that
\* were all readable and whole.
THEOREM StrictComplete == Spec => []StrictSuccessIsComplete
  BY StrictEnd, Complete, PTL

-----------------------------------------------------------------------------
(* Nothing is read behind a damaged source.                                *)

\* No source before that of the row (or of the read position) r is damaged.
Clear(r) == \A g \in 1 .. r[1] - 1 : ~(job.sources[g].opens /\ job.sources[g].torn)

\* That holds of all rows, and of the read position while more can be read.
DamageInv ==
  /\ \A k \in 1 .. Len(rows) : Clear(rows[k])
  /\ NothingAfterDamage
  /\ phase # "bind" /\ (source # 0 \/ pending # <<>>) => Clear(Cur)

\* A step that reads nothing.
LEMMA NothingRead ==
  ASSUME DamageInv, UNCHANGED <<job, pending, source, delivered>>, pos' = pos \/ source # 0,
         rows' = rows \/ rows' = <<>>, phase # "bind" \/ (pending = <<>> /\ source = 0)
  PROVE  DamageInv'
  BY DEF DamageInv, NothingAfterDamage, Clear, Cur, CurFile, N

\* DamageInv is inductive.
LEMMA NextDamage == IInv /\ DamageInv /\ [Next]_vars => DamageInv'
  <1> SUFFICES ASSUME IInv, DamageInv, [Next]_vars PROVE DamageInv'
    OBVIOUS
  <1>0. TypeOK /\ QueueInv /\ RetryInv
    BY DEF IInv
  <1>t. /\ N \in Nat /\ Len(pending) \in 0 .. N /\ source \in 0 .. N /\ pos \in Nat
        /\ rows \in Seq(Row) /\ delivered \in Seq(Row) /\ kept \in Seq(Row)
        /\ Len(rows) \in Nat /\ Len(delivered) \in Nat /\ Len(kept) \in Nat
    BY <1>0, Types DEF TypeOK, QueueInv, N
  <1>1. CASE Open
    <2>1. Cur' = <<1, 1>>
      BY <1>1, <1>0, <1>t DEF Open, QueueInv, Cur, CurFile, CurItem, N
    <2> QED
      BY <1>1, <2>1 DEF Open, DamageInv, NothingAfterDamage, Clear
  <1>2. CASE RefuseOpen
    BY <1>2, <1>0, NothingRead DEF RefuseOpen, QueueInv
  <1>3. CASE NextBatch \/ FillDone \/ EndOfRows \/ RefuseBatch \/ RetryRowByRow \/ TryRow
    BY <1>3, NothingRead DEF NextBatch, FillDone, EndOfRows, RefuseBatch, RetryRowByRow, TryRow
  <1>4. CASE SkipMisshapen \/ RefuseMisshapen
    BY <1>4, NothingRead DEF SkipMisshapen, RefuseMisshapen, Filling, HasItem
  <1>5. CASE OpenNextSource
    <2>1. CurFile' = CurFile
      BY <1>5, <1>0, <1>t, PopStep DEF OpenNextSource, CurFile, N
    <2> QED
      BY <1>5, <2>1 DEF OpenNextSource, Filling, DamageInv, NothingAfterDamage, Clear, Cur
  <1>6. CASE SourceUnreadable
    <2>1. CurFile = NextSource /\ NextSource \in Nat /\ CurFile' = NextSource + 1
      <3>1. N' = N /\ Len(pending') = Len(pending) - 1 /\ NextSource = N + 1 - Len(pending)
        BY <1>6, <1>0, PopStep DEF SourceUnreadable, N
      <3> QED
        BY <1>6, <1>t, <3>1 DEF SourceUnreadable, CurFile
    <2>2. Clear(Cur) /\ ~job.sources[NextSource].opens
      BY <1>6 DEF SourceUnreadable, Filling, DamageInv
    <2>3. Clear(Cur)'
      BY <1>6, <2>1, <2>2 DEF SourceUnreadable, Clear, Cur
    <2> QED
      BY <1>6, <2>3 DEF SourceUnreadable, DamageInv, NothingAfterDamage, Clear
  <1>7. CASE TakeRow
    <2> DEFINE r == <<source, pos>>
    <2>1. r \in Row /\ Cur = r /\ CurFile' = CurFile /\ Clear(r)
      BY <1>7, <1>t DEF TakeRow, Filling, HasItem, Row, Cur, CurFile, CurItem, N, DamageInv
    <2>2. /\ Len(rows') = Len(rows) + 1 /\ rows'[Len(rows) + 1] = r
          /\ \A k \in 1 .. Len(rows) : rows'[k] = rows[k]
      BY <1>7, <1>t, <2>1, AppendProperties DEF TakeRow
    <2>3. \A k \in 1 .. Len(rows') : Clear(rows'[k])
      <3> TAKE k \in 1 .. Len(rows')
      <3>1. k \in 1 .. Len(rows) \/ k = Len(rows) + 1
        BY <1>t, <2>2
      <3>2. CASE k \in 1 .. Len(rows)
        BY <3>2, <2>2 DEF DamageInv
      <3>3. CASE k = Len(rows) + 1
        BY <3>3, <2>1, <2>2
      <3> QED
        BY <3>1, <3>2, <3>3
    <2> QED
      BY <1>7, <2>1, <2>3 DEF TakeRow, Filling, HasItem, DamageInv, NothingAfterDamage, Clear, Cur
  <1>8. CASE SourceEnds
    <2>1. CurFile = source /\ CurFile' = source + 1 /\ ~job.sources[source].torn
      <3>1. N' = N /\ source = N - Len(pending)
        BY <1>8, <1>0 DEF SourceEnds, EndsCleanly, AtEnd, QueueInv, N
      <3> QED
        BY <1>8, <1>t, <3>1 DEF SourceEnds, EndsCleanly, AtEnd, CurFile
    <2>2. Clear(Cur)
      BY <1>8 DEF SourceEnds, Filling, EndsCleanly, AtEnd, DamageInv
    <2>3. Clear(Cur)'
      BY <1>8, <1>t, <2>1, <2>2 DEF SourceEnds, Clear, Cur
    <2> QED
      BY <1>8, <2>3 DEF SourceEnds, DamageInv, NothingAfterDamage, Clear
  <1>9. CASE DecodeFails
    BY <1>9 DEF DecodeFails, DamageInv, NothingAfterDamage, Clear
  <1>10. CASE EmitBatch
    <2>1. \A k \in 1 .. Len(delivered') : Clear(delivered'[k])
      <3>1. /\ delivered' = delivered \o rows
            /\ \A k \in 1 .. Len(delivered) : Clear(delivered[k])
            /\ \A k \in 1 .. Len(rows) : Clear(rows[k])
        BY <1>10 DEF EmitBatch, DamageInv, NothingAfterDamage, Clear
      <3> QED
        BY <3>1, <1>t, FromEither
    <2> QED
      BY <1>10, <2>1 DEF EmitBatch, DamageInv, NothingAfterDamage, Clear, Cur, CurFile, N
  <1>11. CASE EmitKept
    <2>1. \A j \in 1 .. Len(kept) : Clear(kept[j])
      BY <1>11, <1>0, <1>t DEF EmitKept, RetryInv, DamageInv, TypeOK
    <2>2. \A k \in 1 .. Len(delivered') : Clear(delivered'[k])
      <3>1. delivered' = delivered \o kept /\ \A k \in 1 .. Len(delivered) : Clear(delivered[k])
        BY <1>11 DEF EmitKept, DamageInv, NothingAfterDamage, Clear
      <3> QED
        BY <3>1, <2>1, <1>t, FromEither
    <2> QED
      BY <1>11, <2>2 DEF EmitKept, DamageInv, NothingAfterDamage, Clear, Cur, CurFile, N
  <1>12. CASE UNCHANGED vars
    BY <1>12 DEF vars, DamageInv, NothingAfterDamage, Clear, Cur, CurFile, CurItem, N
  <1> QED
    BY <1>1, <1>2, <1>3, <1>4, <1>5, <1>6, <1>7, <1>8, <1>9, <1>10, <1>11, <1>12 DEF Next, Step, Done

\* No row of a source behind a damaged one is ever loaded.
THEOREM DamageEndsTheLoad == Spec => []NothingAfterDamage
  <1>1. Init => DamageInv
    BY DEF Init, DamageInv, NothingAfterDamage
  <1>2. DamageInv => NothingAfterDamage
    BY DEF DamageInv
  <1> QED
    BY <1>1, <1>2, NextDamage, Inductive, PTL DEF Spec

-----------------------------------------------------------------------------
(* CopyFrom implements RowLoad: each step of the producer adds the next    *)
(* loadable rows without a gap, ends or fails the load as RowLoad allows,  *)
(* or is invisible.                                                        *)

Opens(r) == job.sources[r[1]].opens

\* A batch is only read once the statement was accepted.
BoundInv == Running => job.resolves /\ job.sources # <<>>

\* Rows come from sources that can be read.
OpenInv ==
  /\ \A k \in 1 .. Len(rows) : Opens(rows[k])
  /\ \A k \in 1 .. Len(delivered) : Opens(delivered[k])

\* Every loadable row behind the read position is in the table or in the batch.
FullInv ==
  Running => \A r \in Load!Loadable : Before(r, Cur) => InSeq(r, delivered) \/ InSeq(r, rows)

\* What ended a batch without a row: no source is left, or one would not open.
LastUnreadable == CurFile - 1 \in 1 .. N /\ ~job.sources[CurFile - 1].opens
StopInv ==
  phase = "ended" \/ (phase = "build" /\ rows = <<>>) =>
    source = 0 /\ (pending = <<>> \/ LastUnreadable)

\* A retry keeps no more rows than it has tried.
CountInv == phase = "retry" => Len(kept) <= tried

FInv == BoundInv /\ OpenInv /\ FullInv /\ StopInv /\ CountInv
AllInv == IInv /\ CInv /\ DamageInv /\ FInv

-----------------------------------------------------------------------------
\* What it takes to be loadable.
LEMMA LoadableIs ==
  ASSUME TypeOK
  PROVE  \A r : r \in Load!Loadable <=>
           /\ r \in Row /\ ItemOf(job.sources, r)
           /\ Opens(r) /\ Kind(r) = "good" /\ Clear(r)
  <1> TAKE r
  <1> DEFINE items == UNION {{f} \X (1 .. Len(job.sources[f].items)) : f \in 1 .. Len(job.sources)}
  <1>1. r \in items <=> r \in Row /\ ItemOf(job.sources, r)
    <2>1. N \in Nat /\ \A f \in 1 .. N : Len(job.sources[f].items) \in Nat
      BY Types
    <2>2. ASSUME r \in items
          PROVE  r \in Row /\ ItemOf(job.sources, r)
      <3>1. PICK f \in 1 .. N : r \in {f} \X (1 .. Len(job.sources[f].items))
        BY <2>2 DEF N
      <3> QED
        BY <2>1, <3>1 DEF Row, ItemOf, N
    <2>3. ASSUME r \in Row, ItemOf(job.sources, r)
          PROVE  r \in items
      <3>1. r \in {r[1]} \X (1 .. Len(job.sources[r[1]].items)) /\ r[1] \in 1 .. Len(job.sources)
        BY <2>3 DEF Row, ItemOf
      <3> QED
        BY <3>1
    <2> QED
      BY <2>2, <2>3
  <1> HIDE DEF items
  <1>2. r \in Load!Loadable <=>
          r \in items /\ Opens(r) /\ Kind(r) = "good" /\ Clear(r)
    BY DEF items, Load!Loadable, Load!Kind, Kind, Opens, Clear
  <1> QED
    BY <1>1, <1>2

\* The loadable rows are a matter of the job.
LEMMA SameLoadable ==
  ASSUME UNCHANGED job
  PROVE  Load!Loadable' = Load!Loadable
  BY DEF Load!Loadable, Load!Kind

\* Every delivered row was loadable.
LEMMA DeliveredLoadable ==
  ASSUME AllInv
  PROVE  \A k \in 1 .. Len(delivered) :
           delivered[k] \in Row /\ delivered[k] \in Load!Loadable /\ Before(delivered[k], Cur)
  <1> TAKE k \in 1 .. Len(delivered)
  <1>0. TypeOK /\ HeldInv /\ GoodInv /\ DamageInv /\ OpenInv
    BY DEF AllInv, IInv, FInv
  <1>1. delivered[k] \in Row
    BY <1>0 DEF TypeOK
  <1>2. ItemOf(job.sources, delivered[k]) /\ Before(delivered[k], Cur) /\ Opens(delivered[k])
        /\ Kind(delivered[k]) = "good" /\ Clear(delivered[k])
    BY <1>0 DEF HeldInv, OpenInv, GoodInv, OnlyGoodRowsDelivered, DamageInv, NothingAfterDamage, Clear
  <1> QED
    BY <1>0, <1>1, <1>2, LoadableIs

\* A step that moves the read position past no loadable row.
LEMMA FullStep ==
  ASSUME FullInv, Running, UNCHANGED <<job, rows, delivered>>,
         \A r \in Load!Loadable : Before(r, Cur') => Before(r, Cur)
  PROVE  FullInv'
  BY SameLoadable DEF FullInv

-----------------------------------------------------------------------------
\* FInv is inductive.
LEMMA NextFInv == IInv /\ CInv /\ FInv /\ [Next]_vars => FInv'
  <1> SUFFICES ASSUME IInv, CInv, FInv, [Next]_vars PROVE FInv'
    OBVIOUS
  <1>0. /\ TypeOK /\ QueueInv /\ HeldInv /\ RetryInv /\ HandoverInv
        /\ BoundInv /\ OpenInv /\ FullInv /\ StopInv /\ CountInv
    BY DEF IInv, CInv, FInv
  <1>t. /\ N \in Nat /\ Len(pending) \in 0 .. N /\ source \in 0 .. N /\ pos \in Nat
        /\ rows \in Seq(Row) /\ delivered \in Seq(Row) /\ kept \in Seq(Row)
        /\ Len(rows) \in Nat /\ Len(delivered) \in Nat /\ Len(kept) \in Nat
    BY <1>0, Types DEF TypeOK, QueueInv, N
  <1>l. \A r \in Load!Loadable :
          /\ r \in Row /\ r[1] \in 1 .. N /\ r[2] \in 1 .. Len(job.sources[r[1]].items)
          /\ Opens(r) /\ Kind(r) = "good" /\ Clear(r)
    BY <1>0, LoadableIs DEF ItemOf, N
  <1>1. CASE Open
    <2>1. Cur' = <<1, 1>>
      BY <1>1, <1>0, <1>t DEF Open, QueueInv, Cur, CurFile, CurItem, N
    <2>2. \A r \in Load!Loadable : ~Before(r, <<1, 1>>)
      BY <1>l DEF Row, Before
    <2>3. FullInv'
      BY <1>1, <2>1, <2>2, SameLoadable DEF Open, FullInv
    <2> QED
      BY <1>1, <1>0, <2>3 DEF Open, FInv, CountInv, BoundInv, OpenInv, StopInv, Opens, QueueInv
  <1>2. CASE RefuseOpen \/ RefuseMisshapen \/ RefuseBatch
    BY <1>2, <1>0 DEF RefuseOpen, RefuseMisshapen, RefuseBatch, FInv, CountInv, BoundInv, OpenInv, FullInv, StopInv,
       Opens, Running
  <1>3. CASE NextBatch
    <2>1. Cur' = Cur /\ rows = <<>>
      BY <1>3, <1>0 DEF NextBatch, Cur, CurFile, CurItem, N, HandoverInv
    <2> QED
      BY <1>3, <1>0, <2>1, SameLoadable DEF NextBatch, FInv, CountInv, BoundInv, OpenInv, FullInv, StopInv, Opens, Running
  <1>4. CASE OpenNextSource
    <2>1. Cur' = Cur
      <3>1. CurFile' = CurFile /\ CurItem' = CurItem
        BY <1>4, <1>0, <1>t, PopStep DEF OpenNextSource, CurFile, CurItem, N
      <3> QED
        BY <3>1 DEF Cur
    <2> QED
      BY <1>4, <1>0, <2>1, SameLoadable DEF OpenNextSource, Filling, FInv, CountInv, BoundInv, OpenInv, FullInv, StopInv,
         Opens, Running
  <1>5. CASE SourceUnreadable
    <2>1. /\ CurFile = NextSource /\ CurItem = 1 /\ NextSource \in 1 .. N /\ N' = N
          /\ CurFile' = NextSource + 1 /\ CurItem' = 1
      <3>1. N' = N /\ Len(pending') = Len(pending) - 1 /\ NextSource = N + 1 - Len(pending) /\ NextSource \in 1 .. N
        BY <1>5, <1>0, PopStep DEF SourceUnreadable, N
      <3> QED
        BY <1>5, <1>t, <3>1 DEF SourceUnreadable, CurFile, CurItem
    <2>2. \A r \in Load!Loadable : Before(r, Cur') => Before(r, Cur)
      BY <1>5, <1>l, <2>1 DEF SourceUnreadable, Opens, Row, Before, Cur
    <2>3. FullInv'
      BY <1>5, <1>0, <2>2, FullStep DEF SourceUnreadable, Filling, Running
    <2>4. LastUnreadable'
      BY <1>5, <2>1 DEF SourceUnreadable, LastUnreadable
    <2> QED
      BY <1>5, <1>0, <2>3, <2>4 DEF SourceUnreadable, Filling, RowError, FInv, CountInv, BoundInv, OpenInv, StopInv, Opens,
         Running
  <1>6. CASE FillDone
    <2>1. Cur' = Cur
      BY <1>6 DEF FillDone, Cur, CurFile, CurItem, N
    <2>2. rows = <<>> => source = 0 /\ pending = <<>>
      BY <1>6, CopyFromAssumption DEF FillDone
    <2> QED
      BY <1>6, <1>0, <2>1, <2>2, SameLoadable DEF FillDone, FInv, CountInv, BoundInv, OpenInv, FullInv, StopInv, Opens,
         Running
  <1>7. CASE TakeRow
    <2> DEFINE r == <<source, pos>>
    <2>1. /\ r \in Row /\ Cur = r /\ Cur' = <<source, pos + 1>> /\ Opens(r)
          /\ UNCHANGED <<job, delivered, phase, source, pending>> /\ Running
      <3>1. /\ source # 0 /\ source' = source /\ pos' = pos + 1 /\ Running
            /\ UNCHANGED <<job, delivered, phase, source, pending>>
        BY <1>7 DEF TakeRow, Filling, HasItem, Running
      <3>2. r \in Row /\ Cur = r /\ Cur' = <<source, pos + 1>>
        BY <1>t, <3>1 DEF Row, Cur, CurFile, CurItem
      <3>3. Opens(r)
        BY <1>0, <3>1 DEF QueueInv, Opens
      <3> QED
        BY <3>1, <3>2, <3>3
    <2>2. \A q \in Row : Before(q, Cur') => q = r \/ Before(q, Cur)
      BY <1>t, <2>1 DEF Row, Before
    <2>3. InSeq(r, rows') /\ \A q : InSeq(q, rows) => InSeq(q, rows')
      BY <1>7, <1>t, <2>1, InSeqAppend DEF TakeRow
    <2>4. FullInv'
      BY <1>0, <1>l, <2>1, <2>2, <2>3, SameLoadable DEF FullInv
    <2>5. \A k \in 1 .. Len(rows') : rows'[k] = r \/ (k \in 1 .. Len(rows) /\ rows'[k] = rows[k])
      BY <1>7, <1>t, <2>1, FromAppend DEF TakeRow
    <2>6. OpenInv'
      BY <1>0, <2>1, <2>5 DEF OpenInv, Opens
    <2> QED
      BY <1>7, <1>0, <2>1, <2>4, <2>6 DEF TakeRow, Filling, FInv, CountInv, BoundInv, StopInv, Running
  <1>8. CASE SkipMisshapen
    <2>1. Cur = <<source, pos>> /\ Cur' = <<source, pos + 1>>
      BY <1>8 DEF SkipMisshapen, Filling, HasItem, Cur, CurFile, CurItem, N
    <2>2. \A q \in Load!Loadable : Before(q, Cur') => Before(q, Cur)
      <3>1. \A q \in Row : Before(q, <<source, pos + 1>>) => q = <<source, pos>> \/ Before(q, <<source, pos>>)
        BY <1>t DEF Row, Before
      <3>2. Kind(<<source, pos>>) # "good"
        BY <1>8 DEF SkipMisshapen, Usable
      <3> QED
        BY <1>l, <2>1, <3>1, <3>2
    <2>3. FullInv'
      BY <1>8, <1>0, <2>2, FullStep DEF SkipMisshapen, Filling, Running
    <2> QED
      BY <1>8, <1>0, <2>3 DEF SkipMisshapen, Filling, FInv, CountInv, BoundInv, OpenInv, StopInv, Opens, Running
  <1>9. CASE SourceEnds
    <2>1. Cur = <<source, pos>> /\ Cur' = <<source + 1, 1>>
      <3>1. N' = N /\ source = N - Len(pending)
        BY <1>9, <1>0 DEF SourceEnds, EndsCleanly, AtEnd, QueueInv, N
      <3> QED
        BY <1>9, <1>t, <3>1 DEF SourceEnds, EndsCleanly, AtEnd, Cur, CurFile, CurItem
    <2>2. source \in 1 .. N /\ pos > Len(job.sources[source].items) /\ Len(job.sources[source].items) \in Nat
      BY <1>9, <1>0, <1>t, Types DEF SourceEnds, EndsCleanly, AtEnd
    <2>3. \A q \in Load!Loadable : Before(q, Cur') => Before(q, Cur)
      <3> TAKE q \in Load!Loadable
      <3> HAVE Before(q, Cur')
      <3>1. q[1] \in Nat /\ q[2] \in Nat /\ q[2] >= 1 /\ q[2] <= Len(job.sources[q[1]].items)
        BY <1>l DEF Row
      <3>2. q[1] < source + 1 \/ (q[1] = source + 1 /\ q[2] < 1)
        BY <2>1 DEF Before
      <3>3. q[1] <= source
        BY <1>t, <3>1, <3>2
      <3>4. q[1] = source => q[2] < pos
        BY <1>t, <2>2, <3>1
      <3> QED
        BY <1>t, <2>1, <3>1, <3>3, <3>4 DEF Before
    <2>4. FullInv'
      BY <1>9, <1>0, <2>3, FullStep DEF SourceEnds, Filling, Running
    <2> QED
      BY <1>9, <1>0, <2>4 DEF SourceEnds, Filling, FInv, CountInv, BoundInv, OpenInv, StopInv, Opens, Running
  <1>10. CASE DecodeFails
    <2>1. /\ source \in 1 .. N /\ pos > Len(job.sources[source].items) /\ Len(job.sources[source].items) \in Nat
          /\ Cur = <<source, pos>> /\ job.sources[source].torn
      BY <1>10, <1>0, <1>t, Types DEF DecodeFails, AtEnd, EndsCleanly, Cur, CurFile, CurItem
    <2>2. job.sources[source].opens
      BY <1>0, <2>1 DEF QueueInv
    <2>3. \A q \in Load!Loadable : Before(q, Cur)
      <3> TAKE q \in Load!Loadable
      <3>1. q[1] \in Nat /\ q[2] \in Nat /\ q[1] <= source
        BY <1>l, <2>1, <2>2 DEF Clear, Row
      <3>2. q[1] = source => q[2] < pos
        BY <1>l, <1>t, <2>1
      <3> QED
        BY <2>1, <3>1, <3>2 DEF Before
    <2>4. FullInv'
      BY <1>10, <1>0, <2>3, FullStep DEF DecodeFails, Filling, Running
    <2> QED
      BY <1>10, <1>0, <2>4 DEF DecodeFails, Filling, RowError, FInv, CountInv, BoundInv, OpenInv, StopInv, Opens, Running
  <1>11. CASE EndOfRows
    <2>1. Cur' = Cur /\ CurFile' = CurFile /\ N' = N
      BY <1>11 DEF EndOfRows, Cur, CurFile, CurItem, N
    <2> QED
      BY <1>11, <1>0, <2>1, SameLoadable DEF EndOfRows, FInv, CountInv, BoundInv, OpenInv, FullInv, StopInv, LastUnreadable,
         Opens, Running
  <1>12. CASE EmitBatch
    <2>1. Cur' = Cur /\ delivered' = delivered \o rows /\ UNCHANGED job
      BY <1>12 DEF EmitBatch, Cur, CurFile, CurItem, N
    <2>2. FullInv'
      BY <1>12, <1>0, <1>t, <2>1, InSeqConcat, SameLoadable DEF EmitBatch, FullInv, Running
    <2>3. OpenInv'
      <3>1. \A k \in 1 .. Len(delivered') : Opens(delivered'[k])
        BY <1>0, <1>t, <2>1, FromEither DEF OpenInv
      <3> QED
        BY <1>12, <2>1, <3>1 DEF EmitBatch, OpenInv, Opens
    <2> QED
      BY <1>12, <1>0, <2>2, <2>3 DEF EmitBatch, FInv, CountInv, BoundInv, StopInv, Running
  <1>13. CASE RetryRowByRow \/ TryRow
    <2>1. Cur' = Cur
      BY <1>13 DEF RetryRowByRow, TryRow, Cur, CurFile, CurItem, N
    <2>2. CountInv'
      <3>1. CASE RetryRowByRow
        BY <3>1 DEF RetryRowByRow, CountInv
      <3>2. CASE TryRow
        <4>1. tried \in Nat /\ rows[tried + 1] \in Row /\ Len(kept) <= tried /\ tried' = tried + 1
          BY <3>2, <1>0, <1>t DEF TryRow, TypeOK, CountInv
        <4>2. Len(Append(kept, rows[tried + 1])) = Len(kept) + 1
          BY <1>t, <4>1, AppendProperties
        <4>3. Len(kept') <= tried + 1
          BY <3>2, <1>t, <4>1, <4>2 DEF TryRow
        <4> QED
          BY <4>1, <4>3 DEF CountInv
      <3> QED
        BY <1>13, <3>1, <3>2
    <2> QED
      BY <1>13, <1>0, <2>1, <2>2, SameLoadable DEF RetryRowByRow, TryRow, FInv, BoundInv, OpenInv, FullInv, StopInv,
         Opens, Running
  <1>14. CASE EmitKept
    <2>1. Cur' = Cur /\ delivered' = delivered \o kept /\ UNCHANGED job
      BY <1>14 DEF EmitKept, Cur, CurFile, CurItem, N
    <2>2. \A q \in Load!Loadable : InSeq(q, rows) => InSeq(q, kept)
      <3> SUFFICES ASSUME NEW q \in Load!Loadable, InSeq(q, rows) PROVE InSeq(q, kept)
        OBVIOUS
      <3>1. PICK k \in 1 .. Len(rows) : q = rows[k]
        BY DEF InSeq
      <3>2. k \in 1 .. tried /\ phase = "retry" /\ Converts(q)
        BY <1>14, <1>l, <3>1 DEF EmitKept, Converts
      <3> QED
        BY ONLY <1>0, <3>1, <3>2 DEF HandoverInv
    <2>3. FullInv'
      BY <1>14, <1>0, <1>t, <2>1, <2>2, InSeqConcat, SameLoadable DEF EmitKept, FullInv, Running
    <2>4. OpenInv'
      <3>1. \A j \in 1 .. Len(kept) : Opens(kept[j])
        BY <1>14, <1>0, <1>t DEF EmitKept, RetryInv, OpenInv, TypeOK
      <3>2. \A k \in 1 .. Len(delivered') : Opens(delivered'[k])
        BY <1>0, <1>t, <2>1, <3>1, FromEither DEF OpenInv
      <3> QED
        BY <1>14, <2>1, <3>2 DEF EmitKept, OpenInv, Opens
    <2> QED
      BY <1>14, <1>0, <2>3, <2>4 DEF EmitKept, FInv, CountInv, BoundInv, StopInv, Running
  <1>15. CASE UNCHANGED vars
    <2>1. Cur' = Cur /\ CurFile' = CurFile /\ N' = N
      BY <1>15 DEF vars, Cur, CurFile, CurItem, N
    <2> QED
      BY <1>15, <1>0, <2>1, SameLoadable DEF vars, FInv, CountInv, BoundInv, OpenInv, FullInv, StopInv, LastUnreadable,
         Opens, Running
  <1> QED
    BY <1>1, <1>2, <1>3, <1>4, <1>5, <1>6, <1>7, <1>8, <1>9, <1>10, <1>11, <1>12, <1>13,
       <1>14, <1>15 DEF Next, Step, Done

\* All of it holds in every behaviour.
LEMMA AllInvariant == Spec => []AllInv
  <1>1. Init => DamageInv /\ FInv
    BY DEF Init, DamageInv, NothingAfterDamage, FInv, CountInv, BoundInv, OpenInv, FullInv, StopInv, Running
  <1>2. AllInv <=> IInv /\ CInv /\ DamageInv /\ FInv
    BY DEF AllInv
  <1> QED
    BY <1>1, <1>2, InitIInv, NextIInv, InitCInv, NextCInv, NextDamage, NextFInv, PTL DEF Spec

-----------------------------------------------------------------------------
(* Every step is a step of RowLoad, or none.                               *)

\* A batch is the next run of loadable rows.
LEMMA RunStep ==
  ASSUME AllInv, AllInv', UNCHANGED job, phase' = "idle", rows' = <<>>, phase \in {"build", "retry"},
         NEW t \in Seq(Row), Len(t) <= BatchRows, delivered' = delivered \o t
  PROVE  Load!LoadRun
  <1>1. /\ TypeOK /\ delivered \in Seq(Row) /\ Len(delivered) \in Nat /\ Len(t) \in Nat /\ BatchRows \in Nat
        /\ delivered' \in Seq(Row)
    BY CopyFromAssumption DEF AllInv, IInv, TypeOK
  <1>2. /\ Len(delivered') = Len(delivered) + Len(t)
        /\ \A k \in 1 .. Len(delivered) : delivered'[k] = delivered[k]
    BY <1>1, ConcatProperties
  <1>3. \A k \in 1 .. Len(delivered') :
          delivered'[k] \in Row /\ delivered'[k] \in Load!Loadable /\ Before(delivered'[k], Cur')
    <2>1. AllInv => \A k \in 1 .. Len(delivered) :
            delivered[k] \in Row /\ delivered[k] \in Load!Loadable /\ Before(delivered[k], Cur)
      BY DeliveredLoadable
    <2>2. (AllInv => \A k \in 1 .. Len(delivered) :
            delivered[k] \in Row /\ delivered[k] \in Load!Loadable /\ Before(delivered[k], Cur))'
      BY DeliveredLoadable, PTL
    <2> QED
      BY <2>2, SameLoadable
  <1>4. \A k \in 1 .. Len(delivered') : \A j \in 1 .. k - 1 : Before(delivered'[j], delivered'[k])
    <2>1. \A j, k \in 1 .. Len(delivered') : j < k => Before(delivered'[j], delivered'[k])
      BY DEF AllInv, IInv, HeldInv, Ascending
    <2>2. \A k \in 1 .. Len(delivered') : \A j \in 1 .. k - 1 : j \in 1 .. Len(delivered') /\ j < k
      BY <1>1, <1>2
    <2> QED
      BY <2>1, <2>2
  <1>5. \A k \in 1 .. Len(delivered') : \A r \in Load!Loadable :
          Before(r, delivered'[k]) => r \in Load!RowSet(delivered')
    <2> SUFFICES ASSUME NEW k \in 1 .. Len(delivered'), NEW r \in Load!Loadable, Before(r, delivered'[k])
                 PROVE  r \in Load!RowSet(delivered')
      OBVIOUS
    <2>1. r \in Row /\ delivered'[k] \in Row /\ Before(delivered'[k], Cur')
      BY <1>1, <1>3, LoadableIs
    <2>2. Before(r, Cur')
      <3>1. Cur'[1] \in Nat /\ Cur'[2] \in Nat
        BY Types DEF AllInv, IInv, TypeOK, QueueInv, Cur, CurFile, CurItem, N
      <3> QED
        <4> DEFINE d == delivered'[k]
                   c == Cur'
        <4>1. r[1] \in Nat /\ r[2] \in Nat /\ d[1] \in Nat /\ d[2] \in Nat /\ c[1] \in Nat /\ c[2] \in Nat
          BY <2>1, <3>1 DEF Row
        <4>2. Before(r, d) /\ Before(d, c)
          BY <2>1
        <4> HIDE DEF d, c
        <4>3. Before(r, c)
          BY <4>1, <4>2 DEF Before
        <4> QED
          BY <4>3 DEF c
    <2>3. InSeq(r, delivered')
      BY <2>2, SameLoadable DEF AllInv, FInv, FullInv, Running, InSeq
    <2> QED
      BY <2>3 DEF InSeq, Load!RowSet
  <1> QED
    <2>1. Status = "loading" /\ Status' = "loading"
      BY DEF Status
    <2>2. Len(delivered') \in Len(delivered) .. Len(delivered) + BatchRows
      BY <1>1, <1>2
    <2>3. \A k \in Len(delivered) + 1 .. Len(delivered') : k \in 1 .. Len(delivered')
      BY <1>1, <1>2
    <2>4. \A a, b : Load!Before(a, b) <=> Before(a, b)
      BY DEF Load!Before, Before
    <2>5. \A k \in Len(delivered) + 1 .. Len(delivered') :
            /\ delivered'[k] \in Load!Loadable
            /\ \A j \in 1 .. k - 1 : Load!Before(delivered'[j], delivered'[k])
            /\ \A r \in Load!Loadable : Load!Before(r, delivered'[k]) => r \in Load!RowSet(delivered')
      BY <1>3, <1>4, <1>5, <2>3, <2>4
    <2> QED
      BY <1>2, <2>1, <2>2, <2>5 DEF Load!LoadRun

\* The end of the stream completes the load.
LEMMA EndStep ==
  ASSUME AllInv, AllInv', EndOfRows
  PROVE  Load!Complete
  <1>0. /\ TypeOK /\ QueueInv /\ FullInv /\ StopInv /\ BoundInv /\ N \in Nat
        /\ rows = <<>> /\ phase = "build" /\ Running
    BY Types DEF AllInv, IInv, FInv, EndOfRows, Running
  <1>1. Status = "loading" /\ Status' = "complete" /\ UNCHANGED <<job, delivered>>
    BY DEF EndOfRows, Status
  <1>2. ~Load!Refused
    BY <1>0 DEF BoundInv, Load!Refused
  <1>3. job.ignoreErrors \/ ~Load!Defective
    <2> SUFFICES ASSUME ~Lenient PROVE ~Load!Defective
      BY DEF Lenient
    <2>1. (IInv /\ CInv => StrictSuccessIsComplete)'
      BY StrictEnd, PTL
    <2>2. (\A r \in AllItems : InSeq(r, delivered)) /\ (\A f \in 1 .. N : Whole(job.sources, f))
      BY <2>1 DEF AllInv, EndOfRows, StrictSuccessIsComplete, Lenient, AllItems, InSeq, N, Whole
    <2>3. ASSUME NEW f \in 1 .. N, NEW k \in 1 .. Len(job.sources[f].items)
          PROVE  job.sources[f].items[k] = "good"
      <3>1. <<f, k>> \in AllItems
        BY DEF AllItems, N
      <3>2. PICK d \in 1 .. Len(delivered) : delivered[d] = <<f, k>>
        BY <2>2, <3>1 DEF InSeq
      <3>3. Kind(delivered[d]) = "good"
        BY DEF AllInv, IInv, GoodInv, OnlyGoodRowsDelivered
      <3> QED
        BY <3>2, <3>3 DEF Kind
    <2> QED
      BY <2>2, <2>3 DEF Load!Defective, Whole, N
  <1>4. \A r \in Load!Loadable : r \in Row /\ ItemOf(job.sources, r) /\ Opens(r)
    BY <1>0, LoadableIs
  <1>5. \A r \in Load!Loadable : Before(r, Cur) => r \in Load!RowSet(delivered)
    BY <1>0 DEF FullInv, InSeq, Load!RowSet
  <1>6. \A r \in Load!RowSet(delivered) : r \in Load!Loadable /\ Before(r, Cur)
    BY DeliveredLoadable DEF Load!RowSet
  <1>7. source = 0 /\ (pending = <<>> \/ LastUnreadable) /\ Cur = <<CurFile, 1>>
    BY <1>0 DEF StopInv, Cur, CurItem
  <1>8. CASE pending = <<>>
    <2>1. Cur = <<N + 1, 1>>
      BY <1>0, <1>7, <1>8 DEF CurFile
    <2>2. \A r \in Load!Loadable : Before(r, Cur)
      BY <1>0, <1>4, <2>1 DEF Before, ItemOf, N
    <2>3. Load!RowSet(delivered) = Load!Loadable
      BY <1>5, <1>6, <2>2
    <2> QED
      BY <1>1, <1>2, <1>3, <2>3 DEF Load!Complete
  <1>9. CASE LastUnreadable
    <2> DEFINE f == CurFile - 1
    <2>1. f \in 1 .. Len(job.sources) /\ ~job.sources[f].opens /\ CurFile = f + 1
      BY <1>0, <1>9 DEF LastUnreadable, N, TypeOK, CurFile
    <2> HIDE DEF f
    <2>2. \A r \in Load!Loadable : r[1] < f => Before(r, Cur)
      BY <1>4, <1>7, <2>1 DEF Before, Row
    <2>3. \A r \in Load!RowSet(delivered) : r[1] < f
      <3> TAKE r \in Load!RowSet(delivered)
      <3>1. \/ r \in Row /\ Opens(r) /\ r[1] < f + 1
            \/ r \in Row /\ Opens(r) /\ r[1] = f + 1 /\ r[2] < 1
        BY <1>4, <1>6, <1>7, <2>1 DEF Before
      <3>2. r[2] >= 1
        BY <1>4, <1>6 DEF ItemOf
      <3> QED
        BY <2>1, <3>1, <3>2 DEF Opens, Row
    <2>4. Load!RowSet(delivered) = {r \in Load!Loadable : r[1] < f}
      BY <1>5, <1>6, <2>2, <2>3
    <2> QED
      BY <1>1, <1>2, <1>3, <2>1, <2>4 DEF Load!Complete
  <1> QED
    BY <1>7, <1>8, <1>9

\* A failure is one that RowLoad allows.
LEMMA FailStep ==
  ASSUME AllInv, phase' = "failed", Next, phase # "failed"
  PROVE  Load!Fail
  <1>0. TypeOK /\ QueueInv /\ HeldInv /\ N \in Nat
    BY Types DEF AllInv, IInv
  <1>1. UNCHANGED <<job, delivered>> /\ Status = "loading" /\ Status' = "failed"
    BY DEF Next, Step, Done, vars, Status, Finished, Open, RefuseOpen, NextBatch, OpenNextSource, SourceUnreadable,
       FillDone, TakeRow, SkipMisshapen, RefuseMisshapen, SourceEnds, DecodeFails, EndOfRows, EmitBatch, RefuseBatch,
       RetryRowByRow, TryRow, EmitKept, Filling, RowError
  <1>2. Load!Refused \/ (~job.ignoreErrors /\ Load!Defective)
    <2>1. CASE RefuseOpen
      BY <2>1 DEF RefuseOpen, Load!Refused
    <2>2. CASE SourceUnreadable
      <3>1. NextSource \in 1 .. Len(job.sources) /\ ~job.sources[NextSource].opens /\ ~job.ignoreErrors
        BY <2>2, <1>0, PopStep DEF SourceUnreadable, RowError, Lenient, N
      <3> QED
        BY <3>1 DEF Load!Defective
    <2>3. CASE RefuseMisshapen
      <3>1. /\ source \in 1 .. Len(job.sources) /\ pos \in 1 .. Len(job.sources[source].items)
            /\ job.sources[source].items[pos] # "good" /\ ~job.ignoreErrors
        BY <2>3, <1>0, Types DEF RefuseMisshapen, HasItem, Usable, Kind, Lenient, TypeOK, QueueInv, N
      <3> QED
        BY <3>1 DEF Load!Defective
    <2>4. CASE DecodeFails
      <3>1. source \in 1 .. Len(job.sources) /\ job.sources[source].torn /\ ~job.ignoreErrors
        BY <2>4, <1>0 DEF DecodeFails, AtEnd, EndsCleanly, RowError, Lenient, TypeOK
      <3> QED
        BY <3>1 DEF Load!Defective
    <2>5. CASE RefuseBatch
      <3>1. PICK k \in 1 .. Len(rows) : Kind(rows[k]) = "badcell"
        BY <2>5 DEF RefuseBatch, AllConvert, Converts
      <3>2. /\ rows[k][1] \in 1 .. Len(job.sources)
            /\ rows[k][2] \in 1 .. Len(job.sources[rows[k][1]].items)
            /\ job.sources[rows[k][1]].items[rows[k][2]] # "good" /\ ~job.ignoreErrors
        BY <2>5, <1>0, <3>1 DEF HeldInv, ItemOf, Kind, RefuseBatch, Lenient
      <3> QED
        BY <3>2 DEF Load!Defective
    <2> QED
      BY <2>1, <2>2, <2>3, <2>4, <2>5 DEF Next, Step, Done, vars, Finished, Open, NextBatch, OpenNextSource, FillDone,
         TakeRow, SkipMisshapen, SourceEnds, EndOfRows, EmitBatch, RetryRowByRow, TryRow, EmitKept, Filling
  <1> QED
    BY <1>1, <1>2 DEF Load!Fail

\* Every step is one of RowLoad, or invisible.
LEMMA StepRefines ==
  AllInv /\ AllInv' /\ [Next]_vars => [Load!Next]_<<job, delivered, Status>>
  <1> SUFFICES ASSUME AllInv, AllInv', [Next]_vars
               PROVE  Load!Next \/ UNCHANGED <<job, delivered, Status>>
    OBVIOUS
  <1>0. TypeOK /\ RetryInv /\ rows \in Seq(Row) /\ Len(rows) <= BatchRows /\ kept \in Seq(Row)
    BY DEF AllInv, IInv, TypeOK
  <1>1. CASE EmitBatch
    BY <1>1, <1>0, RunStep DEF EmitBatch, Load!Next
  <1>2. CASE EmitKept
    <2>1. Len(kept) <= tried /\ tried = Len(rows) /\ Len(kept) \in Nat /\ Len(rows) \in Nat /\ BatchRows \in Nat
      BY <1>2, <1>0, CopyFromAssumption DEF EmitKept, AllInv, FInv, CountInv
    <2>2. Len(kept) <= BatchRows
      BY <1>0, <2>1
    <2> QED
      BY <1>2, <1>0, <2>2, RunStep DEF EmitKept, Load!Next
  <1>3. CASE EndOfRows
    BY <1>3, EndStep DEF Load!Next
  <1>4. CASE phase' = "failed" /\ phase # "failed" /\ Next
    BY <1>4, FailStep DEF Load!Next
  <1>5. CASE Next /\ ~EmitBatch /\ ~EmitKept /\ ~EndOfRows /\ ~(phase' = "failed" /\ phase # "failed")
    BY <1>5 DEF Next, Step, Done, vars, Status, Finished, Open, RefuseOpen, NextBatch, OpenNextSource,
       SourceUnreadable, FillDone, TakeRow, SkipMisshapen, RefuseMisshapen, SourceEnds, DecodeFails, RefuseBatch,
       RetryRowByRow, TryRow, Filling, RowError
  <1>6. CASE UNCHANGED vars
    BY <1>6 DEF vars, Status
  <1> QED
    BY <1>1, <1>2, <1>3, <1>4, <1>5, <1>6

\* COPY FROM is the load it promises to be: what the caller has received grows
\* by the next loadable rows, and ends or fails when it may.
THEOREM CopyFromImplementsRowLoad == Spec => ImplementsRowLoad
  <1>1. Init => Load!Init
    BY DEF Init, Load!Init, Status
  <1> QED
    BY <1>1, StepRefines, AllInvariant, PTL DEF Spec, ImplementsRowLoad, Load!Spec
=============================================================================
