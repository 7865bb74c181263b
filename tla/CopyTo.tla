------------------------------- MODULE CopyTo -------------------------------
(***************************************************************************)
(* COPY ... TO for the two row-file formats: CborCopyTo of                 *)
(* cbor-worker/src/copy/to.rs with write_object and the path checks of     *)
(* cloud.rs, for several COPY statements running at once.                  *)
(*                                                                         *)
(* write() appends each batch to storage scoped by execution_id, since the *)
(* calls of one statement may land on different worker processes; close()  *)
(* reads them back and writes the destination: a local file through a      *)
(* BufWriter, a remote object as one PUT.                                  *)
(*                                                                         *)
(* The output of a statement is a sequence of pieces, each named by its    *)
(* place in it.  A row is a stretch of them, one piece or many, so that a  *)
(* row may fit the buffer or be written past it, and a file cut in the     *)
(* middle of a row can be told from one cut between rows.                  *)
(***************************************************************************)
EXTENDS Naturals, Sequences

CONSTANTS
  Execs,        \* execution ids
  Paths,        \* destinations
  Dest,         \* what each path is: see DestKind
  BufPieces,    \* capacity of the BufWriter, in pieces
  Statements,   \* the COPY statements explored, one per execution
  Old, Hole     \* what a destination held before; a gap in a sparse file

\* local: a path; remote: s3://; readonly: http(s)://; glob: holds *, ? or [;
\* unsupported: another URL scheme, or a URL that does not parse.
DestKind == {"local", "remote", "readonly", "glob", "unsupported"}

\* good: value_at and encode_row take it; end: where its encoding ends.
Row == [good : BOOLEAN, end : Nat]

\* Row k of rows starts where the row before it ends.
StartIn(rows, k) == IF k = 1 THEN 0 ELSE rows[k - 1].end

\* Every row encodes to something: it ends behind where it and all before it start.
Growing(rows) == \A k \in 1 .. Len(rows) : \A j \in 1 .. k : StartIn(rows, j) < rows[k].end

\* valid: row_format and canonical parse.
Statement == {s \in [valid : BOOLEAN, dest : Paths, rows : Seq(Row)] : Growing(s.rows)}

ASSUME CopyToAssumption ==
  /\ Dest \in [Paths -> DestKind]
  /\ BufPieces \in Nat
  /\ Statements \subseteq [Execs -> Statement]

VARIABLES
  stmt,      \* the statements being run; never changes
  phase,     \* where each execution stands
  stored,    \* storage[execution_id]: row numbers, in append order
  encoded,   \* rows_written: how many of them close() has encoded
  part,      \* pieces of the row being written that went past the buffer
  buf,       \* the sink's buffer: BufWriter's, or the whole object's
  off,       \* offset of the open file
  store,     \* content of each destination
  touched    \* history: another execution has had its hands on the destination
             \* since this one opened it

vars == <<stmt, phase, stored, encoded, part, buf, off, store, touched>>

Path(e) == stmt[e].dest
KindOf(e) == Dest[Path(e)]
Local(e) == KindOf(e) = "local"

\* Phases in which close() holds its destination open, and final ones.
FileOpen == {"encode", "spill", "flush", "drop"}
Settled == {"ok", "failed", "crashed"}

\* The encoding of row k of e.
Start(e, k) == StartIn(stmt[e].rows, k)
End(e, k) == stmt[e].rows[k].end
Pieces(e, k) == [i \in 1 .. End(e, k) - Start(e, k) |-> <<e, Start(e, k) + i>>]

Init ==
  /\ stmt \in Statements
  /\ phase = [e \in Execs |-> "sink"]
  /\ stored = [e \in Execs |-> <<>>]
  /\ encoded = [e \in Execs |-> 0]
  /\ part = [e \in Execs |-> 0]
  /\ buf = [e \in Execs |-> <<>>]
  /\ off = [e \in Execs |-> 0]
  /\ store = [p \in Paths |-> <<Old>>]
  /\ touched = [e \in Execs |-> FALSE]

Goto(e, p) == phase' = [phase EXCEPT ![e] = p]

-----------------------------------------------------------------------------
(* The sink: write(), one batch at a time in source order (ordered()).     *)

Rows(e) == stmt[e].rows
Sent(e) == Len(stored[e])
AllSent(e) == phase[e] = "sink" /\ Sent(e) = Len(Rows(e))

\* The next n rows of the source.
Batch(e, n) == [k \in 1 .. n |-> Sent(e) + k]

\* storage.append under the execution's id; scan returns append order.
AppendShard(e, batch) == stored' = [stored EXCEPT ![e] = @ \o batch]

WriteBatch(e) ==
  /\ phase[e] = "sink"
  /\ stmt[e].valid
  /\ \E n \in 1 .. Len(Rows(e)) - Sent(e) : AppendShard(e, Batch(e, n))
  /\ UNCHANGED <<stmt, phase, encoded, part, buf, off, store, touched>>

\* A bad option fails the first batch; write_batch or the worker may fail too.
\* Either way the statement fails and close() is not called.
WriteFails(e) ==
  /\ phase[e] = "sink"
  /\ Sent(e) < Len(Rows(e))
  /\ Goto(e, "failed")
  /\ UNCHANGED <<stmt, stored, encoded, part, buf, off, store, touched>>

-----------------------------------------------------------------------------
(* close(): checks, then the destination.                                  *)

\* A seeded slip: the options are only looked at in write().
RefusedPathOnly(e) == KindOf(e) \in {"glob", "unsupported"}

\* What close() refuses before it touches the destination.
Refused(e) == ~stmt[e].valid \/ KindOf(e) \in {"glob", "unsupported"}

RefuseClose(e) ==
  /\ AllSent(e)
  /\ Refused(e)
  /\ Goto(e, "failed")
  /\ UNCHANGED <<stmt, stored, encoded, part, buf, off, store, touched>>

\* The other executions on e's destination.
Rivals(e) == {f \in Execs \ {e} : Path(f) = Path(e)}

\* File::create truncates what is there.
CreateFile(e) ==
  /\ AllSent(e)
  /\ ~Refused(e)
  /\ Local(e)
  /\ store' = [store EXCEPT ![Path(e)] = <<>>]
  /\ touched' = [f \in Execs |->
       touched[f] \/ f \in Rivals(e) \/ (f = e /\ \E g \in Rivals(e) : phase[g] \in FileOpen)]
  /\ Goto(e, "encode")
  /\ UNCHANGED <<stmt, stored, encoded, part, buf, off>>

CreateFails(e) ==
  /\ AllSent(e)
  /\ ~Refused(e)
  /\ Local(e)
  /\ Goto(e, "failed")
  /\ UNCHANGED <<stmt, stored, encoded, part, buf, off, store, touched>>

\* A remote destination starts with an empty buffer and touches nothing.
BufferRemote(e) ==
  /\ AllSent(e)
  /\ ~Refused(e)
  /\ ~Local(e)
  /\ Goto(e, "encode")
  /\ UNCHANGED <<stmt, stored, encoded, part, buf, off, store, touched>>

-----------------------------------------------------------------------------
(* Encoding rows into the sink.                                            *)

NextRow(e) == stored[e][encoded[e] + 1]

\* What write_all still has to hand to the sink of the row's bytes.
Rest(e) == SubSeq(Pieces(e, NextRow(e)), part[e] + 1, Len(Pieces(e, NextRow(e))))

\* BufWriter::write takes the bytes into the buffer, a Vec always does: there is
\* room for them, and they are fewer than the buffer could ever hold.
Fits(e) ==
  Local(e) => Len(buf[e]) + Len(Rest(e)) <= BufPieces /\ Len(Rest(e)) < BufPieces

\* A seeded slip: the last row of the scan is left out.
AllButLastEncoded(e) == encoded[e] + 1 >= Len(stored[e])

AllEncoded(e) == encoded[e] = Len(stored[e])

\* A row that encodes is on its way into the sink.
Writing(e) ==
  /\ phase[e] = "encode"
  /\ ~AllEncoded(e)
  /\ Rows(e)[NextRow(e)].good

EncodeRow(e) ==
  /\ Writing(e)
  /\ Fits(e)
  /\ buf' = [buf EXCEPT ![e] = @ \o Rest(e)]
  /\ encoded' = [encoded EXCEPT ![e] = @ + 1]
  /\ part' = [part EXCEPT ![e] = 0]
  /\ UNCHANGED <<stmt, phase, stored, off, store, touched>>

\* The row does not fit: the buffer is written out first.
NeedSpill(e) ==
  /\ Writing(e)
  /\ ~Fits(e)
  /\ buf[e] # <<>>
  /\ Goto(e, "spill")
  /\ UNCHANGED <<stmt, stored, encoded, part, buf, off, store, touched>>

\* An error out of close(): a BufWriter is dropped, and writes what it can.
Abandon(e) == Goto(e, IF Local(e) THEN "drop" ELSE "failed")

EncodeFails(e) ==
  /\ phase[e] = "encode"
  /\ ~AllEncoded(e)
  /\ ~Rows(e)[NextRow(e)].good
  /\ Abandon(e)
  /\ UNCHANGED <<stmt, stored, encoded, part, buf, off, store, touched>>

EncodeDone(e) ==
  /\ phase[e] = "encode"
  /\ AllEncoded(e)
  /\ Goto(e, IF Local(e) THEN "flush" ELSE "put")
  /\ UNCHANGED <<stmt, stored, encoded, part, buf, off, store, touched>>

-----------------------------------------------------------------------------
(* A local file: the BufWriter writes at its own offset.                   *)

\* file after the pieces s were written at offset o.
Overwrite(file, o, s) ==
  LET end == o + Len(s)
  IN  [i \in 1 .. IF end > Len(file) THEN end ELSE Len(file) |->
         IF o < i /\ i <= end THEN s[i - o]
         ELSE IF i <= Len(file) THEN file[i] ELSE Hole]

\* A seeded slip: what was written is not taken out of the buffer.
DrainNothing(e, n) == buf' = buf

\* The n pieces that reached the file leave the buffer.
Drain(e, n) == buf' = [buf EXCEPT ![e] = SubSeq(@, n + 1, Len(@))]

\* One write(2): it takes at least one piece and may take fewer than asked.
WriteSome(e) ==
  /\ phase[e] \in {"spill", "flush", "drop"}
  /\ \E n \in 1 .. Len(buf[e]) :
       /\ store' = [store EXCEPT ![Path(e)] = Overwrite(@, off[e], SubSeq(buf[e], 1, n))]
       /\ off' = [off EXCEPT ![e] = @ + n]
       /\ Drain(e, n)
  /\ UNCHANGED <<stmt, phase, stored, encoded, part, touched>>

\* A seeded slip: write in the place of write_all.
WrittenOnce(e, n) == TRUE

\* write_all is done with the row when all that was left of it has gone.
RowWritten(e, n) == n = Len(Rest(e))

\* Nothing is buffered and the row is too long for the buffer: one write(2) of
\* what is left of it, which may take less.  write_all goes on with the rest,
\* and that may fit the buffer.
WriteRow(e) ==
  /\ Writing(e)
  /\ ~Fits(e)
  /\ buf[e] = <<>>
  /\ \E n \in 1 .. Len(Rest(e)) :
       /\ store' = [store EXCEPT ![Path(e)] = Overwrite(@, off[e], SubSeq(Rest(e), 1, n))]
       /\ off' = [off EXCEPT ![e] = @ + n]
       /\ part' = [part EXCEPT ![e] = IF RowWritten(e, n) THEN 0 ELSE @ + n]
       /\ encoded' = [encoded EXCEPT ![e] = IF RowWritten(e, n) THEN @ + 1 ELSE @]
  /\ UNCHANGED <<stmt, phase, stored, buf, touched>>

\* A seeded slip: the spill never sees that its buffer is empty.
SpillDoneUnseen(e) ==
  /\ phase[e] = "spill"
  /\ buf[e] = <<>>
  /\ UNCHANGED vars

SpillDone(e) ==
  /\ phase[e] = "spill"
  /\ buf[e] = <<>>
  /\ Goto(e, "encode")
  /\ UNCHANGED <<stmt, stored, encoded, part, buf, off, store, touched>>

\* The device is full or fails, under the buffer or under a long row: close()
\* returns the error.
DiskFails(e) ==
  /\ \/ phase[e] \in {"spill", "flush"} /\ buf[e] # <<>>
     \/ Writing(e) /\ ~Fits(e) /\ buf[e] = <<>>
  /\ Goto(e, "drop")
  /\ UNCHANGED <<stmt, stored, encoded, part, buf, off, store, touched>>

\* The dropped BufWriter is done, or gives up on the first error.
DropDone(e) ==
  /\ phase[e] = "drop"
  /\ Goto(e, "failed")
  /\ UNCHANGED <<stmt, stored, encoded, part, buf, off, store, touched>>

FlushDone(e) ==
  /\ phase[e] = "flush"
  /\ buf[e] = <<>>
  /\ Goto(e, "ok")
  /\ UNCHANGED <<stmt, stored, encoded, part, buf, off, store, touched>>

-----------------------------------------------------------------------------
(* A remote object: one PUT of everything.                                 *)

\* The store replaces the object in one step.
PutObject(e) ==
  /\ store' = [store EXCEPT ![Path(e)] = buf[e]]
  /\ touched' = [f \in Execs |-> touched[f] \/ f \in Rivals(e)]

PutDone(e) ==
  /\ phase[e] = "put"
  /\ KindOf(e) = "remote"
  /\ PutObject(e)
  /\ Goto(e, "ok")
  /\ UNCHANGED <<stmt, stored, encoded, part, buf, off>>

\* http(s):// is read-only, the store cannot be built, or the PUT is refused.
PutFails(e) ==
  /\ phase[e] = "put"
  /\ Goto(e, "failed")
  /\ UNCHANGED <<stmt, stored, encoded, part, buf, off, store, touched>>

\* The object was stored but the answer is lost: close() reports an error.
PutAnswerLost(e) ==
  /\ phase[e] = "put"
  /\ KindOf(e) = "remote"
  /\ PutObject(e)
  /\ Goto(e, "failed")
  /\ UNCHANGED <<stmt, stored, encoded, part, buf, off>>

\* The worker process dies inside close(): what is buffered is gone.
Crash(e) ==
  /\ phase[e] \in FileOpen \cup {"put"}
  /\ Goto(e, "crashed")
  /\ buf' = [buf EXCEPT ![e] = <<>>]
  /\ UNCHANGED <<stmt, stored, encoded, part, off, store, touched>>

-----------------------------------------------------------------------------
Step(e) ==
  \/ WriteBatch(e) \/ WriteFails(e)
  \/ RefuseClose(e) \/ CreateFile(e) \/ CreateFails(e) \/ BufferRemote(e)
  \/ EncodeRow(e) \/ NeedSpill(e) \/ EncodeFails(e) \/ EncodeDone(e)
  \/ WriteSome(e) \/ WriteRow(e) \/ SpillDone(e) \/ DiskFails(e) \/ DropDone(e) \/ FlushDone(e)
  \/ PutDone(e) \/ PutFails(e) \/ PutAnswerLost(e)

AllSettled == \A e \in Execs : phase[e] \in Settled
Done == AllSettled /\ UNCHANGED vars

Next == (\E e \in Execs : Step(e) \/ Crash(e)) \/ Done

Spec == Init /\ [][Next]_vars

\* Every statement is driven to its end by the thread that runs it; nothing
\* obliges a worker to crash.
FairSpec == Spec /\ \A e \in Execs : WF_vars(Step(e))

-----------------------------------------------------------------------------
(* Properties.                                                             *)

Piece == (Execs \X Nat) \cup {Old, Hole}

\* Every variable has its type; the BufWriter keeps to its capacity.
TypeOK ==
  /\ stmt \in [Execs -> Statement]
  /\ phase \in [Execs -> {"sink", "put"} \cup FileOpen \cup Settled]
  /\ stored \in [Execs -> Seq(Nat)]
  /\ encoded \in [Execs -> Nat]
  /\ part \in [Execs -> Nat]
  /\ buf \in [Execs -> Seq(Piece)]
  /\ \A e \in Execs : Local(e) => Len(buf[e]) <= BufPieces
  /\ off \in [Execs -> Nat]
  /\ store \in [Paths -> Seq(Piece)]
  /\ touched \in [Execs -> BOOLEAN]

\* What the statement asked for: every row of its source, in source order.
Whole(e) == [i \in 1 .. Start(e, Len(Rows(e)) + 1) |-> <<e, i>>]
IsPrefixOf(s, t) == Len(s) <= Len(t) /\ \A i \in 1 .. Len(s) : s[i] = t[i]

\* A COPY TO that reports success, and whose destination no other statement
\* has opened meanwhile, has left there every row in source order and nothing
\* else, and reports their number: across batches, spills and short writes.
SuccessWritesAll ==
  \A e \in Execs : phase[e] = "ok" /\ ~touched[e] =>
    /\ store[Path(e)] = Whole(e)
    /\ encoded[e] = Len(Rows(e))

\* Whatever goes wrong after the file is created - a row that cannot be encoded,
\* a full disk, a crash - what is left is the beginning of the file, possibly
\* cut inside a row: never a gap, a repeated stretch or rows out of order.
LocalPrefix ==
  \A e \in Execs :
    /\ Local(e) /\ ~touched[e] /\ ~Refused(e)
    /\ phase[e] \in FileOpen \cup {"crashed"} \/ (phase[e] = "failed" /\ encoded[e] + off[e] > 0)
    => IsPrefixOf(store[Path(e)], Whole(e))

\* A remote object is at every moment what it was, or the whole output of one
\* statement: never part of one, never a mixture, and never a URL that is only
\* read from.
RemoteAllOrNothing ==
  \A p \in Paths : Dest[p] # "local" =>
    \/ store[p] = <<Old>>
    \/ \E e \in Execs : Path(e) = p /\ KindOf(e) = "remote" /\ store[p] = Whole(e)

\* A destination changes only under a statement whose options are valid, whose
\* path is writable and whose source has been read to the end: a refused or
\* interrupted COPY leaves the file that was there, also when it has no rows and
\* close() is the first to see the options.
ChangeIsWarranted ==
  [][\A p \in Paths : store'[p] # store[p] =>
       \E e \in Execs :
         /\ Path(e) = p /\ stmt[e].valid /\ Dest[p] \in {"local", "remote"}
         /\ Sent(e) = Len(Rows(e))
         /\ phase'[e] # phase[e] \/ off'[e] # off[e]]_vars

\* Every statement ends: in success, an error or the death of its worker.
Terminates == <>AllSettled
=============================================================================
