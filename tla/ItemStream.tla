----------------------------- MODULE ItemStream -----------------------------
(***************************************************************************)
(* The incremental readers below COPY FROM: SeqReader over a CBOR Sequence *)
(* (cbor-core/src/seq.rs) and its twin StreamReader over concatenated      *)
(* MessagePack (codec/msgpack.rs).  Their bytes arrive in pieces, from a   *)
(* file or from an object store, and a read may fail.  Beside them the     *)
(* decoders that are given all their bytes at once: parse_seq, parse and   *)
(* parse_strict, and MessagePack's parse_stream and parse.                 *)
(*                                                                         *)
(* A byte is the head of an item: an atom, an array of one or of two       *)
(* items, or a head no item may have.  An item is named by the range of    *)
(* bytes <<from, to>> it was decoded from, from exclusive.                 *)
(***************************************************************************)
EXTENDS Naturals, Sequences, FiniteSets

CONSTANTS
  Nesting,     \* for each wire format, how deep items may nest
  Chunk,       \* the most bytes one read of the source yields
  Streams,     \* the byte streams explored
  MaxCalls     \* bound of the model: calls of next_item

Wire == {"cbor", "msgpack"}
Head_ == {"atom", "one", "two", "bad"}

ASSUME ItemStreamAssumption ==
  /\ Nesting \in [Wire -> Nat \ {0}]
  /\ {Chunk, MaxCalls} \subseteq Nat \ {0}
  /\ Streams \subseteq Seq(Head_)

VARIABLES
  wire,       \* which of the two readers it is; never changes
  bytes,      \* all the source holds; never changes
  at,         \* bytes consumed
  buffered,   \* bytes behind them that the BufReader has fetched
  call,       \* idle, check (in fill_buf) or decode (in the decoder)
  start,      \* where the item being decoded starts
  index,      \* items decoded
  done,       \* the reader has stopped
  results,    \* what next_item has returned, call by call
  faulted     \* history: a read of the source has failed

vars == <<wire, bytes, at, buffered, call, start, index, done, results, faulted>>

-----------------------------------------------------------------------------
(* The decoders of ciborium and rmpv, given bytes from a position on.      *)

Children == [atom |-> 0, one |-> 1, two |-> 2, bad |-> 0]

\* ciborium refuses a malformed head, rmpv takes the reserved one for nil.
Malformed(w, head) == w = "cbor" /\ head = "bad"

\* Where the item whose head is byte p + 1, inside d others, ends; or the kind of
\* failure, and the last byte read.  inner answers the same for the items in it.
HeadEnd(w, b, inner, p, d) ==
  LET found(q) == [at |-> q, error |-> "none"]
      lost(q, why) == [at |-> q, error |-> why]
  IN  IF p = Len(b) THEN lost(p, "truncated")
      ELSE IF Malformed(w, b[p + 1]) THEN lost(p + 1, "malformed")
      ELSE IF Children[b[p + 1]] = 0 THEN found(p + 1)
      ELSE IF d = Nesting[w] THEN lost(p + 1, "nesting")
      ELSE LET first == inner[p + 1]
           IN  IF Children[b[p + 1]] = 1 \/ first.error # "none" THEN first
               ELSE inner[first.at]

ItemEnd(w, b, from) ==
  LET end[d \in 0 .. Nesting[w]] ==
        [p \in 0 .. Len(b) |-> HeadEnd(w, b, end[d + 1], p, d)]
  IN  end[0][from]

-----------------------------------------------------------------------------
(* Decoding a blob at once.                                                *)

\* A seeded slip: a truncated tail is taken for the end.
ParseSeqForgiving(w, b) ==
  LET from[p \in 0 .. Len(b)] ==
        LET e == ItemEnd(w, b, p)
        IN  IF e.error = "truncated" THEN [items |-> <<>>, error |-> "none"]
            ELSE IF e.error # "none" THEN [items |-> <<>>, error |-> e.error]
            ELSE [items |-> <<<<p, e.at>>>> \o from[e.at].items,
                  error |-> from[e.at].error]
  IN  from[0]

\* The items from byte p on up to the first that does not decode, and what is
\* wrong with that one.  from answers the same for later bytes.
ItemsFrom(w, b, from, p) ==
  LET e == ItemEnd(w, b, p)
  IN  IF p = Len(b) THEN [items |-> <<>>, error |-> "none"]
      ELSE IF e.error # "none" THEN [items |-> <<>>, error |-> e.error]
      ELSE [items |-> <<<<p, e.at>>>> \o from[e.at].items, error |-> from[e.at].error]

\* parse_seq and parse_stream.
ParseSeq(w, b) ==
  LET from[p \in 0 .. Len(b)] == ItemsFrom(w, b, from, p) IN from[0]

\* parse: one item, whatever follows it.
Parse(b) == ItemEnd("cbor", b, 0).error

\* A seeded slip: bytes behind the item are let through.
ParseWholeLoose(w, b) == ItemEnd(w, b, 0).error

\* parse_strict, and MessagePack's parse: one item and nothing else.
ParseWhole(w, b) ==
  LET e == ItemEnd(w, b, 0)
  IN  IF e.error = "none" /\ e.at # Len(b) THEN "trailing" ELSE e.error

\* classify: an I/O error inside a CBOR item is reported as an ill-formed item.
Classify(w, why) == IF w = "cbor" /\ why = "io" THEN "malformed" ELSE why

-----------------------------------------------------------------------------
(* next_item.                                                              *)

Item(from, to) == [kind |-> "item", range |-> <<from, to>>]
Error(i, why) == [kind |-> "error", index |-> i, why |-> why]
NoItem == [kind |-> "none"]

Return(r) == results' = Append(results, r) /\ call' = "idle"

\* A seeded slip: the reader is not marked as stopped.
StopUnmarked(r) == Return(r) /\ done' = done

Stop(r) == Return(r) /\ done' = TRUE

Init ==
  /\ wire \in Wire
  /\ bytes \in Streams
  /\ at = 0
  /\ buffered = 0
  /\ call = "idle"
  /\ start = 0
  /\ index = 0
  /\ done = FALSE
  /\ results = <<>>
  /\ faulted = FALSE

\* The caller asks for an item of a reader that has not stopped.
Ask ==
  /\ call = "idle" /\ ~done
  /\ Len(results) < MaxCalls
  /\ call' = "check"
  /\ UNCHANGED <<wire, bytes, at, buffered, start, index, done, results, faulted>>

\* A reader that has stopped reads nothing any more.
AskStopped ==
  /\ call = "idle" /\ done
  /\ Len(results) < MaxCalls
  /\ Return(NoItem)
  /\ UNCHANGED <<wire, bytes, at, buffered, start, index, done, faulted>>

\* The BufReader is empty and its source has more: some of it arrives.
Refill ==
  /\ call \in {"check", "decode"}
  /\ buffered = 0
  /\ \E k \in 1 .. Chunk : at + k <= Len(bytes) /\ buffered' = k
  /\ UNCHANGED <<wire, bytes, at, call, start, index, done, results, faulted>>

SourceEmpty == buffered = 0 /\ at = Len(bytes)

\* A seeded slip: the end of the input is only looked for by the decoder.
CleanEndUnchecked == FALSE

\* fill_buf sees the end of the input before a decode is attempted.
CleanEnd == call = "check" /\ SourceEmpty

EndOfInput ==
  /\ CleanEnd
  /\ Stop(NoItem)
  /\ UNCHANGED <<wire, bytes, at, buffered, start, index, faulted>>

\* fill_buf fails: the source must be asked, and does not answer.
CheckFails ==
  /\ call = "check"
  /\ buffered = 0
  /\ Stop(Error(index, "io"))
  /\ faulted' = TRUE
  /\ UNCHANGED <<wire, bytes, at, buffered, start, index>>

BeginItem ==
  /\ call = "check"
  /\ ~CleanEnd
  /\ buffered > 0 \/ SourceEmpty
  /\ call' = "decode"
  /\ start' = at
  /\ UNCHANGED <<wire, bytes, at, buffered, index, done, results, faulted>>

\* The decoder takes a byte and needs another.
TakeByte ==
  /\ call = "decode"
  /\ buffered > 0
  /\ LET e == ItemEnd(wire, bytes, start) IN e.at > at + 1 \/ e.error = "truncated"
  /\ at' = at + 1
  /\ buffered' = buffered - 1
  /\ UNCHANGED <<wire, bytes, call, start, index, done, results, faulted>>

Count == index' = index + 1

\* The byte completes the item.
ItemDecoded ==
  /\ call = "decode"
  /\ buffered > 0
  /\ ItemEnd(wire, bytes, start) = [at |-> at + 1, error |-> "none"]
  /\ at' = at + 1
  /\ buffered' = buffered - 1
  /\ Count
  /\ Return(Item(start, at + 1))
  /\ UNCHANGED <<wire, bytes, start, done, faulted>>

\* A seeded slip: a malformed item does not stop the reader.
RefuseItem(r) == Return(r) /\ done' = done

\* The error arm: the item is reported, by its number, and the reader stops.
BadItem(r) == Stop(r)

\* The byte is one no item goes on with.
ItemRefused ==
  /\ call = "decode"
  /\ buffered > 0
  /\ LET e == ItemEnd(wire, bytes, start)
     IN  /\ e.error \in {"malformed", "nesting"}
         /\ e.at = at + 1
         /\ BadItem(Error(index, e.error))
  /\ at' = at + 1
  /\ buffered' = buffered - 1
  /\ UNCHANGED <<wire, bytes, start, index, faulted>>

\* The input ends inside the item.
ItemCut ==
  /\ call = "decode"
  /\ SourceEmpty
  /\ BadItem(Error(index, "truncated"))
  /\ UNCHANGED <<wire, bytes, at, buffered, start, index, faulted>>

\* A read fails inside the item.
ReadFails ==
  /\ call = "decode"
  /\ buffered = 0
  /\ BadItem(Error(index, Classify(wire, "io")))
  /\ faulted' = TRUE
  /\ UNCHANGED <<wire, bytes, at, buffered, start, index>>

Decoder == TakeByte \/ ItemDecoded \/ ItemRefused \/ ItemCut \/ ReadFails
Next ==
  Ask \/ AskStopped \/ Refill \/ EndOfInput \/ CheckFails \/ BeginItem \/ Decoder

Spec == Init /\ [][Next]_vars

\* A call of next_item returns, and RowProducer::next_row calls until it is
\* told of an end or an error.  No read need fail.
FairSpec ==
  Spec /\ WF_vars(Ask) /\ WF_vars(Refill \/ EndOfInput \/ BeginItem)
       /\ WF_vars(Refill \/ TakeByte \/ ItemDecoded \/ ItemRefused \/ ItemCut)

-----------------------------------------------------------------------------
(* Properties.                                                             *)

\* The calls that returned an item.
Yielded == {i \in DOMAIN results : results[i].kind = "item"}

Errors == {r \in {results[i] : i \in DOMAIN results} : r.kind = "error"}

\* Types; the buffer never holds more than a read yields, and the index counts
\* the items returned.
TypeOK ==
  /\ wire \in Wire /\ bytes \in Streams
  /\ at \in 0 .. Len(bytes) /\ start \in 0 .. at
  /\ buffered \in 0 .. Chunk /\ at + buffered <= Len(bytes)
  /\ call \in {"idle", "check", "decode"} /\ {done, faulted} \subseteq BOOLEAN
  /\ index = Cardinality(Yielded)
  /\ Len(results) <= MaxCalls

\* next_item (seq.rs, msgpack.rs) and the whole-blob parsers agree however the
\* bytes are cut into reads: a reader that has stopped without a failed read has
\* returned the items of parse_seq and, for a damaged input, its error with the
\* number of the first bad item; at any time it has returned the first of them.
StreamingAgrees ==
  LET whole == ParseSeq(wire, bytes)
  IN  /\ \A i \in Yielded : i <= Len(whole.items) /\ results[i].range = whole.items[i]
      /\ done /\ ~faulted =>
           /\ Yielded = DOMAIN whole.items
           /\ Errors = IF whole.error = "none" THEN {} ELSE {Error(Len(whole.items), whole.error)}

\* parse, parse_strict and parse_seq (value.rs, seq.rs, msgpack.rs) accept the
\* same documents: what the strict ones take is a sequence of exactly one item,
\* what the lenient one takes starts with one, and the trailing bytes the strict
\* ones complain of are what parse_seq goes on with.
ParsersAgree ==
  LET seq == ParseSeq(wire, bytes)
  IN  /\ ParseWhole(wire, bytes) = "none" <=> (Len(seq.items) = 1 /\ seq.error = "none")
      /\ ParseWhole(wire, bytes) = "trailing" <=>
           (Len(seq.items) > 1 \/ (Len(seq.items) = 1 /\ seq.error # "none"))
      /\ wire = "cbor" => (Parse(bytes) = "none" <=> seq.items # <<>>)

\* A row file cut anywhere, as a COPY TO that died leaves it (copy/to.rs:172),
\* still yields every row that is whole, and the cut is noticed unless it falls
\* between two rows.
CutKeepsWholeItems ==
  LET whole == ParseSeq(wire, bytes)
      Whole(n) == {i \in DOMAIN whole.items : whole.items[i][2] <= n}
  IN  whole.error = "none" =>
        \A n \in 0 .. Len(bytes) :
          LET cut == ParseSeq(wire, SubSeq(bytes, 1, n))
          IN  /\ cut.items = SubSeq(whole.items, 1, Cardinality(Whole(n)))
              /\ cut.error = "none" <=> n \in {0} \cup {whole.items[i][2] : i \in DOMAIN whole.items}

\* The reader of a stream is an ItemFeed: StreamReader and SeqReader hand out
\* the items in order and then the end or one error, once, and nothing after it.
FeedItems(f) == ParseSeq(f[1], f[2]).items
FeedDamaged(f) == ParseSeq(f[1], f[2]).error # "none"
Fed == [i \in Yielded |-> results[i].range]
FeedOutcome ==
  IF \E i \in DOMAIN results : results[i].kind = "error" THEN "error"
  ELSE IF results # <<>> /\ results[Len(results)] = NoItem THEN "end" ELSE "open"
File == INSTANCE ItemFeed WITH
  Items <- FeedItems, Damaged <- FeedDamaged,
  file <- <<wire, bytes>>, fed <- Fed, outcome <- FeedOutcome
ImplementsItemFeed == File!Spec

\* Every stream ends: the reader stops, so next_row goes on to the next source.
Stops == <>done
=============================================================================
