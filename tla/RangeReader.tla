----------------------------- MODULE RangeReader -----------------------------
(***************************************************************************)
(* The io::Read over a remote object of cbor-worker/src/cloud.rs: bytes    *)
(* are fetched in ranges of REMOTE_CHUNK on demand, the object's size is   *)
(* learned from the first response, and the end of the object is decided   *)
(* from that size.                                                         *)
(*                                                                         *)
(* The object may be replaced by another writer between two requests.  A   *)
(* byte is named by the version it belongs to and its offset, so what the  *)
(* reader hands out shows where every byte came from.                      *)
(***************************************************************************)
EXTENDS Naturals, Sequences

CONSTANTS
  Chunk,         \* REMOTE_CHUNK (8 MiB in the code), in bytes of the model
  MaxLen,        \* bound: the longest object explored
  MaxVersion     \* bound: how often the object is replaced

ASSUME RangeReaderAssumption ==
  Chunk \in Nat \ {0} /\ MaxLen \in Nat /\ MaxVersion \in Nat

Unknown == MaxLen + 1     \* size: None

VARIABLES
  object,   \* the stored object: its version and length
  short,    \* may a response carry fewer bytes than asked for, or none at all?
  phase,    \* ready, confirm (a first GET failed, HEAD follows), error, and the
            \* two ways to read Ok(0): eof (the size says so), dry (no bytes came)
  size,     \* RangeReader.size
  pos,      \* RangeReader.pos: next offset to fetch
  buf,      \* RangeReader.buf: the bytes of the current chunk
  off,      \* RangeReader.off: how many of them have been handed out
  got,      \* every byte handed to the caller
  requests  \* how many requests the reader has issued

vars == <<object, short, phase, size, pos, buf, off, got, requests>>
reader == <<size, pos, buf, off, got>>

Least(a, b) == IF a < b THEN a ELSE b

Init ==
  /\ object \in [version : {0}, len : 0 .. MaxLen]
  /\ short \in BOOLEAN
  /\ phase = "ready"
  /\ size = Unknown
  /\ pos = 0
  /\ buf = <<>>
  /\ off = 0
  /\ got = <<>>
  /\ requests = 0

\* Nothing is left of the chunk: the next read must fetch or report the end.
Drained == phase = "ready" /\ off >= Len(buf)

\* A seeded slip: the end is recognised one byte early.
KnowsEndEarly == size # Unknown /\ pos + 1 >= size

\* The size is known and reached: EOF without another request.
KnowsEnd == size # Unknown /\ pos >= size

\* A seeded slip: the end is only reported past the size.
ReadEofPastSize ==
  /\ Drained
  /\ size # Unknown /\ pos > size
  /\ phase' = "eof"
  /\ UNCHANGED <<object, short, reader, requests>>

ReadEof ==
  /\ Drained
  /\ KnowsEnd
  /\ phase' = "eof"
  /\ UNCHANGED <<object, short, reader, requests>>

\* A seeded slip: the exclusive end of the range taken for an inclusive one.
RangeEndInclusive == IF size = Unknown THEN pos + Chunk - 1 ELSE Least(pos + Chunk - 1, size)

\* The range asked for: clamped to the size once that is known.
RangeEnd == IF size = Unknown THEN pos + Chunk ELSE Least(pos + Chunk, size)

\* The bytes of the stored object from start, n of them.
Bytes(start, n) ==
  [k \in 1 .. n |-> [version |-> object.version, offset |-> start + k - 1]]

\* A seeded slip: the reader moves on by the range it asked for.
AdvanceByRange(n) == RangeEnd

\* The reader moves on by the bytes received.
Advance(n) == pos + n

\* A response with bytes: all that exist of the range unless the store answers
\* short.  It carries the object's current size.
Fetch ==
  /\ Drained
  /\ ~KnowsEnd
  /\ pos < object.len
  /\ LET asked == Least(RangeEnd, object.len) - pos
     IN  \E n \in 1 .. asked :
           /\ n = asked \/ short
           /\ buf' = Bytes(pos, n)
           /\ pos' = Advance(n)
  /\ size' = object.len
  /\ off' = 0
  /\ requests' = requests + 1
  /\ UNCHANGED <<object, short, phase, got>>

\* A response without bytes, for whatever range: its size is taken, and read()
\* returns Ok(0).  The caller takes that for the end of the stream, though the
\* object may go on behind pos.
FetchNothing ==
  /\ Drained
  /\ ~KnowsEnd
  /\ short
  /\ buf' = <<>>
  /\ pos' = Advance(0)
  /\ size' = object.len
  /\ off' = 0
  /\ requests' = requests + 1
  /\ phase' = "dry"
  /\ UNCHANGED <<object, short, got>>

\* The store refuses the range (nothing there: HTTP 416) or the request fails
\* on the way.  Only a first request goes on to ask for the size.
FetchFails ==
  /\ Drained
  /\ ~KnowsEnd
  /\ requests' = requests + 1
  /\ phase' = IF size = Unknown THEN "confirm" ELSE "error"
  /\ UNCHANGED <<object, short, reader>>

\* The head says the object is empty: EOF, not an error.
ConfirmEmpty ==
  /\ phase = "confirm"
  /\ object.len = 0
  /\ size' = 0
  /\ phase' = "eof"
  /\ requests' = requests + 1
  /\ UNCHANGED <<object, short, pos, buf, off, got>>

\* The head fails too, or the object is not empty: the first error stands.
ConfirmFails ==
  /\ phase = "confirm"
  /\ phase' = "error"
  /\ requests' = requests + 1
  /\ UNCHANGED <<object, short, reader>>

\* read() hands out what is buffered, as much as the caller has room for.
Deliver ==
  /\ phase = "ready"
  /\ off < Len(buf)
  /\ \E n \in 1 .. Len(buf) - off :
       /\ got' = got \o SubSeq(buf, off + 1, off + n)
       /\ off' = off + n
  /\ UNCHANGED <<object, short, phase, size, pos, buf, requests>>

\* Another writer replaces the object (COPY TO PUTs a whole object).
Replace ==
  /\ object.version < MaxVersion
  /\ phase \in {"ready", "confirm"}
  /\ \E n \in 0 .. MaxLen : object' = [version |-> object.version + 1, len |-> n]
  /\ UNCHANGED <<short, phase, reader, requests>>

Finished == phase \in {"eof", "dry", "error"}
Done == Finished /\ UNCHANGED vars

ReaderStep ==
  \/ ReadEof \/ Fetch \/ FetchNothing \/ FetchFails
  \/ ConfirmEmpty \/ ConfirmFails \/ Deliver
Next == ReaderStep \/ Replace \/ Done

Spec == Init /\ [][Next]_vars

\* The caller reads until the end or an error, and every request is answered.
FairSpec == Spec /\ WF_vars(ReaderStep)

-----------------------------------------------------------------------------
(* Properties.                                                             *)

Byte == [version : Nat, offset : Nat]

\* Every variable has its type; a chunk never outgrows REMOTE_CHUNK.
TypeOK ==
  /\ object \in [version : 0 .. MaxVersion, len : 0 .. MaxLen]
  /\ short \in BOOLEAN
  /\ phase \in {"ready", "confirm", "eof", "dry", "error"}
  /\ size \in 0 .. Unknown
  /\ pos \in 0 .. MaxLen
  /\ buf \in Seq(Byte) /\ Len(buf) <= Chunk
  /\ off \in 0 .. Len(buf)
  /\ got \in Seq(Byte)
  /\ requests \in Nat

\* No byte is skipped or handed out twice, however short the responses are and
\* whatever happens to the object: the stream has each offset once, in order.
Contiguous == \A k \in 1 .. Len(got) : got[k].offset = k - 1

\* Ok(0) never drops a byte that was fetched, and Ok(0) by the size is the end: of
\* an object nobody replaced, all of it has been handed out, even when the first
\* request failed.  Ok(0) by an empty response promises only the former: the
\* stream then ends at pos, wherever that is, and no error is raised.
EofIsTheEnd ==
  phase \in {"eof", "dry"} =>
    /\ Len(got) = pos
    /\ phase = "eof" /\ object.version = 0 => Len(got) = object.len

\* "Once the size is known, stop at EOF without another request": a stored
\* object that fits in c chunks is read with c requests when every response is
\* full, and an empty one costs the one extra head.
NoRedundantRequest ==
  phase \in {"ready", "eof"} /\ object.version = 0 /\ ~short =>
    requests <= IF object.len = 0 THEN 2 ELSE (object.len + Chunk - 1) \div Chunk

\* Reading ends, with the end of the object or with an error.
Terminates == <>Finished
=============================================================================
