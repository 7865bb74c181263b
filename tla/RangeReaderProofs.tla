-------------------------- MODULE RangeReaderProofs --------------------------
(***************************************************************************)
(* The safety of RangeReader for every chunk size, object length and       *)
(* number of replacements.  The invariant ties the three cursors together: *)
(* what was handed out and what is buffered end exactly at pos.            *)
(***************************************************************************)
EXTENDS RangeReader, SequenceTheorems, TLAPS

\* Bytes handed out, then bytes buffered, then pos.
CursorInv ==
  /\ Len(got) + Len(buf) - off = pos
  /\ \A k \in 1 .. Len(buf) : buf[k].offset = pos - Len(buf) + k - 1
  /\ Contiguous

\* While nobody has replaced the object, a known size is its length, nothing is
\* read past it, and the end is the end.
StableInv ==
  object.version = 0 =>
    /\ size # Unknown => size = object.len
    /\ pos <= object.len
    /\ phase = "eof" => pos = object.len /\ off = Len(buf)

\* Ok(0) is returned when the chunk is used up.
EndInv == phase \in {"eof", "dry"} => off = Len(buf)

\* Asking for the size happens only before anything was read.
ConfirmInv == size = Unknown => pos = 0 /\ buf = <<>> /\ off = 0 /\ phase \notin {"eof", "dry"}
ConfirmPhaseInv == phase = "confirm" => size = Unknown

RInv == TypeOK /\ CursorInv /\ StableInv /\ EndInv /\ ConfirmInv /\ ConfirmPhaseInv

LEMMA UnknownNat == Unknown \in Nat /\ MaxLen \in Nat /\ Unknown = MaxLen + 1
                    /\ Chunk \in Nat /\ Chunk > 0 /\ MaxVersion \in Nat
  BY RangeReaderAssumption DEF Unknown

\* A stretch of n items of s, starting after the first o of them.
LEMMA Stretch ==
  ASSUME NEW S, NEW s \in Seq(S), NEW o \in Nat, NEW n \in Nat, n >= 1, o + n <= Len(s)
  PROVE  /\ SubSeq(s, o + 1, o + n) \in Seq(S)
         /\ Len(SubSeq(s, o + 1, o + n)) = n
         /\ \A k \in 1 .. n : SubSeq(s, o + 1, o + n)[k] = s[o + k]
  <1> DEFINE lo == o + 1
             hi == o + n
             part == SubSeq(s, lo, hi)
  <1>1. lo \in Int /\ hi \in Int /\ lo <= hi /\ hi - lo + 1 = n /\ Len(s) \in Nat
    OBVIOUS
  <1>2. \A i \in lo .. hi : s[i] \in S
    <2> TAKE i \in lo .. hi
    <2>1. i \in 1 .. Len(s)
      BY <1>1
    <2> HIDE DEF lo, hi
    <2> QED
      BY <2>1, ElementOfSeq
  <1>a. \A k \in 1 .. n : lo + k - 1 = o + k
    OBVIOUS
  <1> HIDE DEF lo, hi
  <1>3. /\ part \in Seq(S)
        /\ Len(part) = IF lo <= hi THEN hi - lo + 1 ELSE 0
        /\ \A i \in 1 .. hi - lo + 1 : part[i] = s[lo + i - 1]
    BY ONLY <1>1, <1>2, SubSeqProperties
  <1>4. part \in Seq(S) /\ Len(part) = n /\ \A k \in 1 .. n : part[k] = s[lo + k - 1]
    BY <1>1, <1>3
  <1> QED
    BY <1>4, <1>a DEF lo, hi

LEMMA InitRInv == Init => RInv
  <1> SUFFICES ASSUME Init PROVE RInv
    OBVIOUS
  <1> USE UnknownNat DEF Init
  <1>1. object \in [version : {0}, len : 0 .. MaxLen] /\ object.len \in 0 .. MaxLen
    OBVIOUS
  <1>2. TypeOK
    BY <1>1 DEF TypeOK
  <1>3. CursorInv /\ StableInv /\ EndInv /\ ConfirmInv /\ ConfirmPhaseInv
    BY <1>1 DEF CursorInv, StableInv, EndInv, ConfirmInv, ConfirmPhaseInv, Contiguous
  <1> QED
    BY <1>2, <1>3 DEF RInv

LEMMA NextRInv == RInv /\ [Next]_vars => RInv'
  <1> SUFFICES ASSUME RInv, [Next]_vars PROVE RInv'
    OBVIOUS
  <1> USE UnknownNat
  <1>0. TypeOK /\ CursorInv /\ StableInv /\ EndInv /\ ConfirmInv /\ ConfirmPhaseInv
    BY DEF RInv
  <1>t. /\ object.len \in 0 .. MaxLen /\ object.version \in 0 .. MaxVersion
        /\ Len(buf) \in Nat /\ off \in 0 .. Len(buf) /\ Len(got) \in Nat /\ pos \in 0 .. MaxLen
        /\ size \in 0 .. Unknown /\ requests \in Nat /\ buf \in Seq(Byte) /\ got \in Seq(Byte)
    BY <1>0 DEF TypeOK
  <1>1. CASE ReadEof
    <2> USE <1>1 DEF ReadEof, reader, Drained, KnowsEnd
    <2>1. TypeOK' /\ CursorInv' /\ ConfirmInv' /\ ConfirmPhaseInv'
      BY <1>0 DEF TypeOK, CursorInv, ConfirmInv, ConfirmPhaseInv, Contiguous
    <2>2. StableInv' /\ EndInv'
      BY <1>0, <1>t DEF StableInv, EndInv
    <2> QED
      BY <2>1, <2>2 DEF RInv
  <1>2. CASE Fetch
    <2> USE <1>2 DEF Fetch, Drained
    <2> DEFINE asked == Least(RangeEnd, object.len) - pos
    <2>1. PICK n \in 1 .. asked : buf' = Bytes(pos, n) /\ pos' = pos + n
      BY DEF Advance
    <2>2. RangeEnd \in Nat /\ RangeEnd <= pos + Chunk
      BY <1>t DEF RangeEnd, Least
    <2>3. n \in Nat /\ n >= 1 /\ n <= Chunk /\ pos + n <= object.len
      BY <1>t, <2>1, <2>2 DEF Least
    <2>4. buf' \in Seq(Byte) /\ Len(buf') = n /\ \A k \in 1 .. n : buf'[k].offset = pos + k - 1
      <3>1. \A k \in 1 .. n : [version |-> object.version, offset |-> pos + k - 1] \in Byte
        BY <1>t, <2>3 DEF Byte
      <3>2. Bytes(pos, n) \in [1 .. n -> Byte]
        BY <3>1 DEF Bytes
      <3>3. buf' \in Seq(Byte) /\ Len(buf') = n
        BY <2>1, <2>3, <3>2
      <3>4. \A k \in 1 .. n : buf'[k].offset = pos + k - 1
        BY <2>1 DEF Bytes
      <3> QED
        BY <3>3, <3>4
    <2>5. TypeOK'
      BY <1>0, <1>t, <2>1, <2>3, <2>4 DEF TypeOK
    <2>6. CursorInv'
      <3>1. got' = got /\ Contiguous'
        BY <1>0 DEF CursorInv, Contiguous
      <3>2. Len(got') + Len(buf') - off' = pos'
        BY <1>0, <1>t, <2>1, <2>3, <2>4 DEF CursorInv
      <3>3. \A k \in 1 .. Len(buf') : buf'[k].offset = pos' - Len(buf') + k - 1
        BY <1>t, <2>1, <2>3, <2>4
      <3> QED
        BY ONLY <3>1, <3>2, <3>3 DEF CursorInv
    <2>7. StableInv' /\ EndInv' /\ ConfirmInv' /\ ConfirmPhaseInv'
      BY <1>t, <2>1, <2>3 DEF StableInv, EndInv, ConfirmInv, ConfirmPhaseInv
    <2> QED
      BY <2>5, <2>6, <2>7 DEF RInv
  <1>9. CASE FetchNothing
    <2> USE <1>9 DEF FetchNothing, Drained, Advance
    <2>1. buf' \in Seq(Byte) /\ Len(buf') = 0 /\ pos' = pos /\ off = Len(buf)
      BY <1>t
    <2>2. TypeOK' /\ CursorInv'
      BY <1>0, <1>t, <2>1 DEF TypeOK, CursorInv, Contiguous
    <2>3. StableInv' /\ EndInv' /\ ConfirmInv' /\ ConfirmPhaseInv'
      BY <1>0, <1>t, <2>1 DEF StableInv, EndInv, ConfirmInv, ConfirmPhaseInv
    <2> QED
      BY <2>2, <2>3 DEF RInv
  <1>3. CASE FetchFails
    <2> USE <1>3 DEF FetchFails, reader, Drained
    <2>1. TypeOK' /\ CursorInv'
      BY <1>0, <1>t DEF TypeOK, CursorInv, Contiguous
    <2>2. StableInv' /\ EndInv' /\ ConfirmInv' /\ ConfirmPhaseInv'
      BY <1>0 DEF StableInv, EndInv, ConfirmInv, ConfirmPhaseInv
    <2> QED
      BY <2>1, <2>2 DEF RInv
  <1>4. CASE ConfirmEmpty
    <2> USE <1>4 DEF ConfirmEmpty
    <2>1. TypeOK' /\ CursorInv'
      BY <1>0, <1>t DEF TypeOK, CursorInv, Contiguous
    <2>2. StableInv' /\ EndInv' /\ ConfirmInv' /\ ConfirmPhaseInv'
      BY <1>0, <1>t DEF StableInv, EndInv, ConfirmInv, ConfirmPhaseInv
    <2> QED
      BY <2>1, <2>2 DEF RInv
  <1>5. CASE ConfirmFails
    <2> USE <1>5 DEF ConfirmFails, reader
    <2>1. TypeOK' /\ CursorInv'
      <3>1. TypeOK'
        BY <1>0 DEF TypeOK
      <3>2. CursorInv'
        BY <1>0 DEF CursorInv, Contiguous
      <3> QED
        BY ONLY <3>1, <3>2
    <2>2. StableInv' /\ EndInv' /\ ConfirmInv' /\ ConfirmPhaseInv'
      BY <1>0 DEF StableInv, EndInv, ConfirmInv, ConfirmPhaseInv
    <2> QED
      BY <2>1, <2>2 DEF RInv
  <1>6. CASE Deliver
    <2> USE <1>6 DEF Deliver
    <2>1. PICK n \in 1 .. Len(buf) - off :
            got' = got \o SubSeq(buf, off + 1, off + n) /\ off' = off + n
      OBVIOUS
    <2> DEFINE part == SubSeq(buf, off + 1, off + n)
    <2>b. n \in Nat /\ n >= 1 /\ off \in Nat /\ off + n <= Len(buf) /\ off' = off + n
          /\ off' \in 0 .. Len(buf)
      BY <1>t, <2>1
    <2>2. part \in Seq(Byte) /\ Len(part) = n /\ \A k \in 1 .. n : part[k] = buf[off + k]
      BY ONLY <1>t, <2>b, Stretch
    <2>3. got' = got \o part
      BY <2>1
    <2> HIDE DEF part
    <2>4. /\ got' \in Seq(Byte) /\ Len(got') = Len(got) + n
          /\ \A i \in 1 .. Len(got) + n :
               got'[i] = IF i <= Len(got) THEN got[i] ELSE part[i - Len(got)]
      <3>1. /\ got \o part \in Seq(Byte) /\ Len(got \o part) = Len(got) + Len(part)
            /\ \A i \in 1 .. Len(got) + Len(part) :
                 (got \o part)[i] = IF i <= Len(got) THEN got[i] ELSE part[i - Len(got)]
        BY ONLY <1>t, <2>2, ConcatProperties
      <3> QED
        BY ONLY <2>2, <2>3, <3>1
    <2>u. /\ object' = object /\ short' = short /\ phase' = phase /\ size' = size /\ pos' = pos
          /\ buf' = buf /\ requests' = requests
      OBVIOUS
    <2>5. TypeOK'
      BY ONLY <1>0, <2>u, <2>b, <2>4 DEF TypeOK, Unknown
    <2>6. Contiguous'
      <3> SUFFICES ASSUME NEW i \in 1 .. Len(got) + n PROVE got'[i].offset = i - 1
        BY <2>4 DEF Contiguous
      <3>1. CASE i <= Len(got)
        BY <1>0, <1>t, <2>4, <3>1 DEF CursorInv, Contiguous
      <3>2. CASE i > Len(got)
        <4> DEFINE k == off + (i - Len(got))
        <4>1. i - Len(got) \in 1 .. n /\ k \in 1 .. Len(buf)
          BY <1>t, <2>b, <3>2
        <4>2. got'[i] = buf[k]
          BY <1>t, <2>2, <2>4, <3>2, <4>1
        <4>a. Len(got) + Len(buf) - off = pos /\ i \in Nat
          BY <1>0, <1>t, <2>b DEF CursorInv
        <4>3. i - 1 = pos - Len(buf) + k - 1
          BY ONLY <4>a, <1>t, <2>b
        <4> HIDE DEF k
        <4>4. buf[k].offset = pos - Len(buf) + k - 1
          BY ONLY <1>0, <4>1 DEF CursorInv
        <4> QED
          BY ONLY <4>2, <4>3, <4>4
      <3>3. i <= Len(got) \/ i > Len(got)
        BY ONLY <1>t, <2>b
      <3> QED
        BY ONLY <3>1, <3>2, <3>3
    <2>7. CursorInv'
      <3>1. Len(got') + Len(buf') - off' = pos'
        <4>1. Len(got) + Len(buf) - off = pos
          BY ONLY <1>0 DEF CursorInv
        <4>2. Len(got') = Len(got) + n
          BY ONLY <2>4
        <4>3. buf' = buf /\ pos' = pos
          BY ONLY <2>u
        <4>4. Len(got) \in Nat /\ Len(buf) \in Nat
          BY ONLY <1>t
        <4> QED
          BY ONLY <2>b, <4>1, <4>2, <4>3, <4>4
      <3>2. \A k \in 1 .. Len(buf') : buf'[k].offset = pos' - Len(buf') + k - 1
        BY ONLY <1>0, <2>u DEF CursorInv
      <3> QED
        BY ONLY <3>1, <3>2, <2>6 DEF CursorInv
    <2>8. StableInv' /\ EndInv' /\ ConfirmInv' /\ ConfirmPhaseInv'
      BY <1>0, <1>t DEF StableInv, EndInv, ConfirmInv, ConfirmPhaseInv
    <2> QED
      BY <2>5, <2>7, <2>8 DEF RInv
  <1>7. CASE Replace
    <2> USE <1>7 DEF Replace, reader
    <2>1. PICK n \in 0 .. MaxLen : object' = [version |-> object.version + 1, len |-> n]
      OBVIOUS
    <2>2. object'.version = object.version + 1 /\ object'.version # 0
      BY <1>t, <2>1
    <2>3. TypeOK'
      BY <1>0, <1>t, <2>1 DEF TypeOK
    <2>4. CursorInv' /\ StableInv' /\ EndInv' /\ ConfirmInv' /\ ConfirmPhaseInv'
      BY <1>0, <2>2 DEF CursorInv, StableInv, EndInv, ConfirmInv, ConfirmPhaseInv, Contiguous
    <2> QED
      BY <2>3, <2>4 DEF RInv
  <1>8. CASE UNCHANGED vars
    BY <1>0, <1>8 DEF vars, reader, RInv, TypeOK, CursorInv, StableInv, EndInv, ConfirmInv,
                      ConfirmPhaseInv, Contiguous
  <1> QED
    BY <1>1, <1>2, <1>3, <1>4, <1>5, <1>6, <1>7, <1>8, <1>9 DEF Next, ReaderStep, Done

LEMMA RInductive == Spec => []RInv
  BY InitRInv, NextRInv, PTL DEF Spec

\* For every chunk size and object, replaced or not: each offset is handed out
\* once and in order, however short the responses are.
THEOREM NoGap == Spec => []Contiguous
  <1>1. RInv => Contiguous
    BY DEF RInv, CursorInv
  <1> QED
    BY <1>1, RInductive, PTL

\* Every variable keeps its type and the buffer never exceeds one chunk.
THEOREM ReaderTypeCorrect == Spec => []TypeOK
  <1>1. RInv => TypeOK
    BY DEF RInv
  <1> QED
    BY <1>1, RInductive, PTL

\* For every chunk size and object: Ok(0) comes after every byte that was fetched,
\* and when the known size decides it, after every byte of an object that is not
\* replaced.  An empty response ends the stream without that second half.
THEOREM EofComplete == Spec => []EofIsTheEnd
  <1>1. RInv => EofIsTheEnd
    BY DEF RInv, TypeOK, CursorInv, StableInv, EndInv, EofIsTheEnd
  <1> QED
    BY <1>1, RInductive, PTL

-----------------------------------------------------------------------------
(* No request is wasted.                                                   *)

\* Of an object nobody replaced and a store that never answers short, every
\* request but the one that finds it empty has brought a chunk, or the rest.
RequestInv ==
  object.version = 0 /\ ~short =>
    /\ phase = "confirm" => requests = 1
    /\ phase \in {"ready", "eof"} =>
         \/ size = Unknown /\ requests = 0
         \/ size # Unknown /\ object.len = 0 /\ requests <= 2
         \/ /\ size # Unknown /\ requests >= 1 /\ Chunk * (requests - 1) < object.len
            /\ pos = object.len \/ pos = Chunk * requests

\* A step of multiplication.
LEMMA OneMore ==
  ASSUME NEW a \in Nat, NEW c \in Nat
  PROVE  c * (a + 1) = c * a + c /\ c * 0 = 0 /\ c * 1 = c /\ c * a \in Nat
  OBVIOUS

\* So many chunks, short of another, are a quotient rounded up.
LEMMA RoundUp ==
  ASSUME NEW r \in Nat, NEW c \in Nat, NEW l \in Nat, c > 0, r >= 1, c * (r - 1) < l
  PROVE  r <= (l + c - 1) \div c
  <1> DEFINE m == l + c - 1
             q == m \div c
  <1>1. m \in Nat /\ q \in Nat /\ m < c * q + c
    OBVIOUS
  <1>2. r - 1 \in Nat /\ c * ((r - 1) + 1) = c * (r - 1) + c /\ (r - 1) + 1 = r
    BY OneMore
  <1>3. c * r <= m
    BY <1>2
  <1> HIDE DEF m, q
  <1>4. ASSUME q + 1 <= r PROVE FALSE
    <2>1. c * (q + 1) <= c * r
      BY <1>1, <1>4
    <2>2. c * (q + 1) = c * q + c
      BY <1>1, OneMore
    <2> QED
      BY <1>1, <1>3, <2>1, <2>2
  <1>5. r <= q
    BY <1>1, <1>4
  <1> QED
    BY <1>5 DEF m, q

\* RequestInv is inductive, given the rest.
LEMMA NextRequest == RInv /\ RequestInv /\ [Next]_vars => RequestInv'
  <1> SUFFICES ASSUME RInv, RequestInv, [Next]_vars, object'.version = 0, ~short'
               PROVE  RequestInv'
    BY DEF RequestInv
  <1> USE UnknownNat
  <1>0. TypeOK /\ StableInv /\ ConfirmInv /\ ConfirmPhaseInv
    BY DEF RInv
  <1>t. /\ object.len \in 0 .. MaxLen /\ object.version \in 0 .. MaxVersion /\ pos \in 0 .. MaxLen
        /\ size \in 0 .. Unknown /\ requests \in Nat /\ Chunk \in Nat /\ Chunk > 0
    BY <1>0 DEF TypeOK
  <1>1. CASE Fetch
    <2>1. /\ phase = "ready" /\ pos < object.len /\ ~KnowsEnd /\ object' = object /\ phase' = phase
          /\ size' = object.len /\ requests' = requests + 1 /\ ~short
      BY <1>1 DEF Fetch, Drained
    <2>2. pos' = object.len \/ pos' = pos + Chunk
      <3>1. PICK n \in 1 .. Least(RangeEnd, object.len) - pos :
              n = Least(RangeEnd, object.len) - pos /\ pos' = pos + n
        BY <1>1, <2>1 DEF Fetch, Advance
      <3>2. RangeEnd = pos + Chunk \/ (RangeEnd = size /\ size = object.len) \/ RangeEnd = object.len
        BY <1>0, <1>t, <2>1 DEF RangeEnd, Least, StableInv
      <3> QED
        BY <1>t, <3>1, <3>2 DEF Least
    <2>3. pos = Chunk * requests
      <3>1. CASE size = Unknown
        <4>1. requests = 0 /\ pos = 0
          BY <1>0, <1>t, <2>1, <3>1 DEF RequestInv, ConfirmInv
        <4> QED
          BY <1>t, <4>1, OneMore
      <3>2. CASE size # Unknown
        BY <1>0, <1>t, <2>1, <3>2 DEF RequestInv
      <3> QED
        BY <3>1, <3>2
    <2>4. pos + Chunk = Chunk * (requests + 1) /\ requests' - 1 = requests
      BY <1>t, <2>1, <2>3, OneMore
    <2> QED
      BY <1>t, <2>1, <2>2, <2>3, <2>4 DEF RequestInv
  <1>9. CASE FetchNothing
    BY <1>9 DEF FetchNothing, RequestInv
  <1>2. CASE FetchFails
    <2>1. size = Unknown => phase' = "confirm" /\ requests = 0 /\ requests' = requests + 1
      BY <1>2, <1>t DEF FetchFails, Drained, RequestInv, reader
    <2>2. size # Unknown => phase' = "error"
      BY <1>2 DEF FetchFails
    <2> QED
      BY <1>2, <1>t, <2>1, <2>2 DEF FetchFails, RequestInv, reader, Drained
  <1>3. CASE ConfirmEmpty
    BY <1>3, <1>t DEF ConfirmEmpty, RequestInv
  <1>4. CASE ConfirmFails
    BY <1>4 DEF ConfirmFails, RequestInv
  <1>5. CASE ReadEof
    BY <1>5 DEF ReadEof, Drained, RequestInv, reader
  <1>6. CASE Deliver
    BY <1>6 DEF Deliver, RequestInv
  <1>7. CASE Replace
    BY <1>7, <1>t DEF Replace
  <1>8. CASE UNCHANGED vars
    BY <1>8 DEF vars, reader, RequestInv
  <1> QED
    BY <1>1, <1>2, <1>3, <1>4, <1>5, <1>6, <1>7, <1>8, <1>9 DEF Next, ReaderStep, Done

\* For every chunk size and object length: a stored object costs one request a
\* chunk, and none to find its end.
THEOREM NoneWasted == Spec => []NoRedundantRequest
  <1>1. Init => RequestInv
    BY DEF Init, RequestInv
  <1>2. RInv /\ RequestInv => NoRedundantRequest
    <2> SUFFICES ASSUME RInv, RequestInv, phase \in {"ready", "eof"}, object.version = 0, ~short
                 PROVE  requests <= IF object.len = 0 THEN 2 ELSE (object.len + Chunk - 1) \div Chunk
      BY DEF NoRedundantRequest
    <2>1. requests \in Nat /\ object.len \in Nat /\ Chunk \in Nat /\ Chunk > 0
      BY UnknownNat DEF RInv, TypeOK
    <2>2. CASE object.len = 0
      BY <2>1, <2>2 DEF RequestInv
    <2>3. CASE object.len # 0 /\ requests = 0
      <3>1. (object.len + Chunk - 1) \div Chunk >= 0
        BY <2>1
      <3> QED
        BY <2>3, <3>1
    <2>4. CASE object.len # 0 /\ requests # 0
      <3>1. requests >= 1 /\ Chunk * (requests - 1) < object.len
        BY <2>1, <2>4 DEF RequestInv
      <3>2. requests <= (object.len + Chunk - 1) \div Chunk
        BY <2>1, <3>1, RoundUp
      <3> QED
        BY <2>4, <3>2
    <2> QED
      BY <2>2, <2>3, <2>4
  <1> QED
    BY <1>1, <1>2, NextRequest, RInductive, PTL DEF Spec
=============================================================================
