# Verification of vgi-cbor

TLA+ specifications of the parts of the `cbor` VGI worker that are hard to test:
the two directions of `COPY`, the readers below them, the conversion of table
cells through CBOR and MessagePack, the security decoders and value views, and
the column builders between Arrow batches and rows. TLC checks all of it on small
instances. TLAPS proves, for every value of the constants, every safety property
of the four state machines that touch files and objects (`CopyFrom`, `CopyTo`,
`RangeReader`, `ItemStream`), of the number codec between them (`CellCodec`), of
the security decoders (keys and authenticators in `Security`, COSE messages and CWT
claims in `Messages`) and of the scalar and table functions that apply those to a
column of blobs (`Answers`), and that `CopyFrom` and `ItemStream` implement their
abstract specifications. Line numbers refer to `src/crates/`.

## The system

`vgi-cbor` is a worker process DuckDB launches. The VGI SDK hands it Arrow
batches and calls its functions; `cbor-core` holds the formats, `cbor-worker`
the SQL surface, `cbor-wasm` the browser build.

| Component | State it keeps | Operations | Makes it correct |
| --- | --- | --- | --- |
| COPY FROM (`copy/from.rs`) | a `RowProducer`: sources still to open, open reader, batch being filled | `open_boxed`, `next_batch` (`next_row`, `advance`, `build_batch`) | rows arrive once, in source order; strict loads lose nothing; lenient loads lose only bad rows and what follows damage |
| COPY TO (`copy/to.rs`) | rows per `execution_id` in shared storage; a `Sink` while closing | `write`, `close` | success means the whole output is at the destination; a failure leaves what it may leave |
| COPY options, wire formats (`copy/common.rs`) | none | `encode_row`, `item_reader`, framing | both directions agree |
| Remote reader (`cloud.rs`) | size, offset, current chunk | `read` | every byte once, EOF by the size only at the end |
| Sequence readers (`seq.rs`, `value.rs`, `codec/msgpack.rs`) | position in a byte stream, whether it failed | `next_item`, `parse_seq`, `parse_strict` | streaming and whole-blob decoding agree; nothing after an error |
| Cell codec (`value_in.rs`, `value_out.rs`) | none | `value_at`, `build_column` | a cell comes back as it was; a foreign number is loaded exactly or refused; a row's cells do not depend on its neighbours |
| MessagePack bridge, bignums (`codec/msgpack.rs`, `codec/bignum.rs`) | none | `cbor_to_mp`, `mp_to_cbor`, `to_value`, `from_value` | the same through a format with no tags, no decimals, other instants |
| Canonical form (`codec/encode.rs`, `validate.rs`) | none | `canonicalize`, `well_formed` | independent of the input's order; the same duplicates as `well_formed`, as far as the two agree on what a key is |
| Views (`codec/json.rs`, `codec/diagnostic.rs`, `codec/tags.rs`) | none | `to_json`, `from_json`, `render`, `tags`, `untag` | JSON round trips; `untag` lists what `tags` reports |
| COSE, COSE_Key, CWT (`security/`) | none | `cose_decode`, `merged_headers`, `cose_key`, `cwt_claims` | fields do not depend on map order or envelopes |
| WebAuthn (`security/webauthn.rs`) | a cursor | `webauthn_authdata`, `webauthn_attestation` | cursor never past the end, every field from its place |
| Scalar functions, Arrow helpers (`scalar/`, `arrow_io.rs`) | none | `process`, column builders | one answer per row, NULL to NULL |
| Table functions (`table/`) | none | one row per item or attestation object | each output row names its input row |
| Cloud paths (`cloud.rs`) | none | `classify`, `resolve_locations`, `secret_lookup` | a glob lists what it matches, sorted |
| Metadata (`lib.rs`, `meta.rs`), browser transport (`wasm/`) | none between calls | registration; one HTTP call, one hash | framing |

How they interact. DuckDB calls `COPY FROM`'s producer until it answers `None`;
the producer pulls items from an `ItemReader`, which pulls bytes from a file or
from a `RangeReader`, which issues GETs. `COPY TO`'s `write` may run in any
worker process and leaves the rows in storage keyed by the execution; `close`
reads them back, turns each cell into a value (`value_at`), the value into bytes
(`encode_row`), and the bytes go to a buffered file or one PUT. A file written by
one side is read by the other, so both sides share the cell codec. The scalar
and table functions are called with a column of blobs and answer with a column
or a batch; they share the decoders of `cbor-core` with each other only.

What is hard here: several files and several error kinds meeting a batch
boundary; errors that mean different things strict and under `ignore_errors`; a
destination truncated before the first row is encoded; a PUT whose answer is
lost; two statements on one destination; an object replaced between two ranges;
an end of input that only one test tells from a cut item; fields whose meaning
depends on a field that may come later; columns whose children must keep step
with NULL rows; and number formats whose ranges nearly coincide.
`PROJECT.json` lists each of these hazards at its line.

## The modules

| Module | What it is |
| --- | --- |
| `RowLoad` | abstract: what a load of rows promises, without batches or readers |
| `CopyFrom`, `MCCopyFrom` | `RowProducer` and its caller; the refinement mapping to `RowLoad` |
| `CopyFromProofs` | inductive invariants and theorems of `CopyFrom`, the refinement of `RowLoad` included |
| `CopyTo`, `MCCopyTo` | `CborCopyTo`, `Sink`, `write_object`, for several executions |
| `CopyToProofs` | inductive invariant and theorems of `CopyTo` |
| `RangeReader`, `RangeReaderProofs` | `RangeReader::read`, and its theorems |
| `ItemFeed` | abstract: what a reader of a row file promises |
| `ItemStream`, `MCItemStream` | `SeqReader` and `StreamReader` over a source, `parse_seq` and `parse_strict` |
| `ItemStreamProofs` | what its decoders return, on whole and cut streams; inductive invariant and theorems, the refinement of `ItemFeed` included |
| `Numbers` | integer widths, bignums, timestamp ext, rescaling; pure operators |
| `CellCodec`, `MCCellCodec` | a number's or instant's way through a row file, or a foreign one's into a column |
| `CellCodecProofs` | lemmas about the operators of both, and the theorems of `CellCodec` |
| `SetInduction` | induction on the natural numbers and lemmas about folds, in a form the provers can use |
| `Values` | CBOR values and `Option` |
| `Trees` | encoding, canonical form, validation, JSON, diagnostic notation, tags |
| `CoseKeys`, `WebAuthn` | COSE keys, authenticatorData and attestation objects (`security/`) |
| `Cose` | COSE messages and CWT claims (`security/`) |
| `Security` | a sender of keys and authenticators, and a call of each of their decoders |
| `Messages` | `Security` with a sender of COSE messages and CWTs, and the calls that read them |
| `SecurityProofs` | lemmas about `CoseKeys`, `WebAuthn` and `Cose`, and the theorems of `Security` and `Messages` |
| `Decoders`, `MCDecoders` | `Messages` with the canonical form, validation and the views |
| `ArrowIo` | the Arrow columns a function answers with, their builders, and how a row of one is read |
| `Answers` | a call of a security function or a table function with a batch of blobs |
| `AnswersProofs` | lemmas about concatenated rows and columns, and the theorems of `Answers` |
| `Columns` | `build_column` and `value_at` for whole, nested columns |
| `Adapters` | the codec and view functions over a column |
| `Batches`, `MCBatches` | `Answers` with the codec and view functions, and batches loaded, written and loaded again |

Definitions named "a seeded slip" are used by no specification: they are
plausible bugs, and `PROJECT.json` (`mutants`) says which property notices each.

### CopyFrom

A row is named `<<source, item>>`; an item is good, has a cell its column cannot
hold, or has the wrong shape. `phase` is where the caller and `next_batch`
stand: `bind` (before `open_boxed`), `idle` (between calls), `fill` (the loop),
`build` and `retry` (after the loop), then `ended` or `failed`. `pending` is the
reversed source list that `advance` pops; `source`, `pos` the open reader;
`rows`, `tried`, `kept` the locals of one call; `delivered` is history. Each
action is one branch of one of the four functions. `EndsCleanly` says
that nothing follows the last whole item, where every other end is an error.

Checked (`copy_from`): only rows of the declared shape with convertible cells
are delivered; in order and once; a strict load that ends delivered everything;
a lenient one kept every good row up to the first damage; nothing is delivered
from after damage; every load ends; and the whole implements `RowLoad`, where a
row is loaded or skipped, and the load completes or fails, in one step each.

`copy_from_unreadable` is a disagreement: `next_batch` treats a source it cannot
open like a row it cannot decode. Under `ignore_errors` the load then ends
successfully without the good rows of later files (or with them, when the batch
was not empty), though the option promises to skip rows.

### CopyTo

Per execution: the rows stored so far, how many `close` has encoded, how much of
the row at hand went past the buffer (`part`), the sink's buffer, the offset of its
file handle, and per destination its content. The output is a sequence of pieces
and a row is a stretch of them of any length (`Row` says where it ends), so a cut
inside a row is visible and a row may be longer than the `BufWriter`. As in the
standard library, a row shorter than the buffer is put into it, after a spill if
there is no room (`EncodeRow`, `NeedSpill`), and any other goes to the file in writes
of its own once the buffer is empty (`WriteRow`); each of these writes may be short,
and since `Sink` has `write` only, the rest of a row is offered to the buffer again.
Writes may fail, and two open handles each write at their own offset (gaps show as
`Hole`). A worker may crash at any step; a PUT may be lost, fail, or succeed with its
answer lost.

Checked (`copy_to`): success means the destination holds exactly the encoded
rows; a failed or crashed local statement leaves a prefix; a remote object is
old or wholly new; the destination only changes for a statement whose options
and path were accepted and which reached its turn; every statement settles. For
local paths the first two are stated for statements nobody interfered with
(`touched`): with two statements on one path the code promises nothing, and the
model shows mixtures.

### RangeReader

Bytes are named by version and offset. Requests fail, answers are short, the
object is replaced between requests. A response may also have no bytes
(`FetchNothing`), which the code's assertion allows for (`cloud.rs:547`): `read` then
returns `Ok(0)` like at the end, and `phase` tells the two apart (`eof` by the size,
`dry` by an empty response). Checked (`range_reader`): what was handed out is
contiguous from 0; whatever the reason for `Ok(0)`, nothing that was fetched is left
behind; EOF by the size of an object nobody replaced is its end, and a failed request
is only read as EOF when a HEAD says the object is empty; the number of requests is
what the chunk size asks for; reading ends. That an empty response comes only at the
end is the store's to promise, not the code's, and is not claimed.

### ItemStream

A byte is the head of an item: an atom, an array of one or two items, or a head
no item may have. That is enough for an item to be whole, cut, malformed or too
deep, and for every byte of it to be a place where a read can end or fail.
`call` is where `next_item` stands: `idle`, `check` (the `fill_buf` that looks
for the end of the input) or `decode` (inside ciborium or rmpv, which ask for
one byte after another). `ItemEnd` is what the two libraries do with a run of
bytes, a recursive function of depth and position whose step is `HeadEnd`;
`ParseSeq` (with the step `ItemsFrom`), `Parse` and `ParseWhole` are the decoders
that are given all bytes at once.

Checked (`item_stream`): however the bytes are cut into reads, the incremental
readers return the items of `parse_seq` and its error, with the number of the bad
item; the parsers accept the same documents; a file cut anywhere yields its whole
items, and the cut is noticed unless it falls between two of them; the readers
implement `ItemFeed`; every stream ends. `ItemFeed` is what `CopyFrom`
takes a source to be: items, then an end or one error, then nothing.

### CellCodec and Numbers

A behaviour is one cell: `cell`, `value` (after `value_at`), `wire` (after
`encode_row`), `read` (after `next_item`), `loaded` (after `build_column`); or a
foreign value starting at `read` (CBOR) or a foreign ext starting at `wire`
(MessagePack). Between `read` and `loaded` the batch also passes Arrow's full
validation, which is the extension's and not the worker's (`ArrowValid`): a TIME lies
within the day there. A DECIMAL and an instant are tag-4 fractions, a wide mantissa a
bignum, as in the code. ciborium's own encoding and decoding is the identity on
values; a byte string is its leading zeros and the number it spells. An i32 overflow of `exponent + scale` is left out: a release build
refuses it either way.

Checked (`cells`): every cell of every column comes back as it was through both
formats, except TIME '24:00:00', which a column can hold, `value_at` writes and the
validation refuses on the way back (`test/sql/copy_types.test:200` pins this), so the
property says that it is refused; a number in an exact form is loaded exactly or
refused; a loaded integer or instant lies within its column; conversely a number that
fits a DECIMAL or TIMESTAMP is loaded, except a zero with a power of ten beyond i128
(`ZeroBeyond`: 0e39), which is refused; transcoding a timestamp ext to CBOR and back
does not drift. Three disagreements have runs of their own, and their inputs are
kept out of `cells`:

- `cells_time_ns`: `value_at` divides TIME_NS by 1 000, so nanoseconds are lost.
- `cells_between`: an unscaled DECIMAL in -2^64 .. -2^63 - 1 is a native integer
  in CBOR and becomes a float in MessagePack; the file cannot be loaded again.
- `cells_date`: a day count beyond i64 wraps (`as i64`) before it is checked.

### Trees, CoseKeys, Cose, WebAuthn, Security, Messages and Decoders

These functions keep no state; what can go wrong is that their answer depends on
how the sender happened to write its message. So `Decoders` starts with
something a sender means (headers, a key, claims, an authenticator), written in
one of the ways the standards leave open: entries in any order, a
header map wrapped or not, a chain of one certificate alone or of two in an
array, any stack of envelopes, an instant as an integer, a tag or a float,
authenticatorData cut after any byte. One action is one call of one function;
the properties compare the answer with what was meant. Nothing of the sender is
code, and its operators are not in the map. `Security` has keys and authenticators,
`Messages` adds COSE messages and CWTs, and `Decoders` what walks whole trees, so
that one run checks all of them and the theorems are about the first two. What a
sender may mean is spelled out (`IsKey`, `IsAuthenticator`, `IsStatement`,
`IsMessage`, `IsClaimSet`), and TLC checks that the instance keeps to it.

`Cose` peels tags and envelopes off a value one at a time, by a recursive function
over the number already taken off, because the recursive operator that reads better
is out of the prover's reach. Tags nest no deeper than `parse` lets any value nest
(`MAX_NESTING`, `cbor-core/src/value.rs:23`; `MaxNesting` here), so the function stops
there and peels everything a decoder can be given. Envelopes have no such limit in the code, as each
payload is parsed afresh: `MaxEnvelopes` is a bound of the model.

`Trees` works on values as trees, with `Encode` as their encoding: two values
are equal exactly if their encodings are, and encodings compare as RFC 8949 and
CTAP2 say. `WebAuthn` works on bytes, because a cursor over bytes is what it is;
the RP id hash and the AAGUID are one byte long and the counter two.

Checked (`decoders`): headers and payload are read back from every order, wrapping
and envelope, the protected map winning; a key's parameters are read in every
order; claims are found through every stack of envelopes; authenticatorData is
read back field by field, and a cut is refused unless it takes only the
extensions; a canonical form is the same for every order of the input and sorted
at every depth; JSON comes back through CBOR; `untag` lists what `tags` reports; and a
duplicate key that `well_formed` reports stands side by side with its like in the
canonical form, and the other way round. The last has two exceptions, where the two
functions differ in what they take for one key. `well_formed` compares floats as
numbers, so 0.0 and -0.0 are one key and all NaNs are, which `canonical` keeps apart by
their bytes: the property rewrites floats that are equal (`Alike`) before it looks for
neighbours. And `well_formed` compares keys as they are written, so it misses two
map-valued keys that differ only in the order of their entries: the second direction
is claimed of documents whose keys are in canonical order (`KeysInOrder`). The
documents of the run have keys of all these kinds, and either exception alone makes
the claim fail without it. One disagreement has its own run:

- `cose_key_order`: the second scan of an RSA key looks at the modulus only, so a
  key that lists its exponent before `kty` and its modulus after it has the
  exponent in the field of an x-coordinate. `decoders` explores the other orders.

### ArrowIo, Answers, Columns, Adapters and Batches

An Arrow column here is what the code builds: the cells of a scalar column, or
validity with offsets and a child, or validity with fields. `ArrowIo` has the
builders of `arrow_io.rs` and how DuckDB reads a row of such a column, level by level
(`ReadRow` down to `ReadCell`; no answer of a security function nests deeper).
`Answers` has what its functions do with a column of blobs: decode each row to an
`Option`, then build the answer, or, for a table function, append the rows of each
blob with the number of the row they came from. `Columns` builds the columns of a
COPY from the values of a batch (`build_column`: lists, fixed-size lists, structs and
maps flatten into child columns) and reads one cell back (`value_at`); `Adapters` is
to the codec and the views what `Answers` is to the decoders.
`Batches` puts them to work: a batch is loaded (with the row-by-row rebuild under
`ignore_errors`), written by COPY TO and loaded again; a scalar function is
called with every batch of a few blobs; a table function fans them out.

Checked (`batches`): a row's loaded cells are those it has alone, and a lenient
load drops exactly the rows that do not convert; what COPY TO writes of a batch
loads again, up to the order of MAP entries; row i of a function's answer is its
answer to blob i alone, and a NULL blob, a malformed one and a struct of absent
fields stay apart (`AnswersRowByRow` for the decoders, `ViewsRowByRow` for `encode`,
`from_json` and the views); a table function's rows are those of each input row
alone, and name it. What a row means alone (`Convert`) is written a second time, row
by row and without columns, as the reference.

## Bounds

- `copy_from`: batches of 2 rows; one or two sources of up to 2 items, all kinds
  and tails, and three sources of up to 1 item. A batch can be filled inside a
  source, at its end, across sources and after an unreadable one, which are all
  the positions a boundary can have relative to a source.
- `copy_to`: two executions with up to 3 rows each and 4 together, rows of 1 or 3
  pieces and a buffer of 2: two short rows fill the buffer and a third spills it, a
  long row is written past it, in up to three writes and with a rest that may fit
  the buffer, and either can stop in the middle of a row.
  Three executions would add no new pair. Only statements on the same destination
  interact, so both aim at one path; all five classes of path are covered.
- `range_reader`: objects up to 7 bytes, chunks of 3: empty, shorter than a
  chunk, exact multiples, and two chunks and a rest; up to 2 replacements.
- `item_stream`: every stream of up to 4 heads, reads of up to 2 bytes, items
  nested 1 deep in CBOR and 2 in MessagePack (the libraries' limits differ), up
  to 6 calls (`MaxCalls`): four items, the end, and a call after it. When the
  calls are used up nothing is left to do, so deadlock is not checked there.
- `cells`: radix 3 for 10, and i32, 34 bits, i64, i128 as
  8, 64, 128, 32768: the order of the widths and their relation to the powers of
  the radix (10^38 < 2^127 < 10^39, so 3^9 < 32768 < 3^10) are kept. All values
  of the 64-bit range are explored, and the neighbourhood of every boundary and
  power of the radix beyond it. A second has 3 or 27 units, a day 2 seconds; every
  TIME up to and including its end is a cell.
- `decoders`: 40 stands for 2^63, above every registered label; every order of up
  to five entries, every stack of up to three envelopes (`MaxNesting` and
  `MaxEnvelopes` are 3), every cut of
  authenticatorData, documents of up to three entries with every pattern of
  equal keys, of keys that read the same (two zeros, two NaNs, one map in two orders,
  maps with such keys), at depth one and two.
- `batches`: two columns, one of each type (nested types two deep), up to two
  rows of each pair of cells, three for fixed-size lists, where an offset error
  needs a row on each side; up to three blobs (`MaxRows`), so a NULL or a bad
  one can be first, last or in between.

## Fairness

Liveness is checked under weak fairness of the steps one thread takes by itself:
DuckDB drives a producer until it ends or fails, `next_row` calls `next_item`
until it is told of an end or an error, `close` and `read` run to completion in
one call, and the object store's client bounds timeouts and retries, so every
request is answered or fails. In `ItemStream` a read that blocks delivers at least
a byte or reports the end. Nothing obliges a crash, an error, a failed read, a
replacement of an object or another client's write; they may happen for ever or
never, except that the bounds above limit replacements. `Decoders`, `CellCodec`
and `Batches` are single calls and need none.

## Proofs

For every batch size and set of statements, chunk size and object, number of
executions, destinations and buffer size, nesting limit and set of streams, radix,
integer width and set of columns, cells and foreign values, lengths of hashes and
counters, number of envelopes, and set of keys, authenticators, statements, messages
and claim sets, and batches of any number of rows of any blobs:

| Theorem | Says |
| --- | --- |
| `CopyFromProofs!TypeCorrect` | `TypeOK`: a batch never exceeds its bound |
| `OnlyGood`, `InOrder` | nothing bad is delivered; rows strictly ascend |
| `StrictComplete` | a strict load that ends delivered every item, undamaged |
| `LenientComplete` | a lenient one delivered every good row up to the first damage |
| `DamageEndsTheLoad` | nothing is delivered from behind damage |
| `CopyFromImplementsRowLoad` | every behaviour of `CopyFrom` is one of `RowLoad` |
| `CopyToProofs!SuccessIsWhole` | success leaves exactly the encoded rows |
| `FailureLeavesPrefix` | a failure or crash leaves a beginning of them, cut anywhere |
| `ObjectIsOldOrWhole` | a remote object is the old one or a whole new one |
| `ChangesWarranted` | only an accepted statement changes a destination, when its turn has come |
| `CopyToTypeCorrect` | types; the buffer never exceeds its capacity |
| `RangeReaderProofs!ReaderTypeCorrect`, `NoGap`, `EofComplete` | types; contiguity; EOF leaves nothing fetched behind, and by the size it is the end |
| `NoneWasted` | one request a chunk, and none to find the end |
| `ItemStreamProofs!ItemStreamTypeCorrect` | types; the index counts the items returned |
| `ReadersAgree` | the incremental readers return what `parse_seq` does, its error included |
| `SameDocuments` | `parse`, `parse_strict` and `parse_seq` accept the same documents |
| `CutsAreNoticed` | a cut stream yields its whole items, and a cut inside one is an error |
| `ReadersImplementItemFeed` | every behaviour of `ItemStream` is one of `ItemFeed` |
| `CellCodecProofs!CellsComeBack` | a cell comes back as it was, through both formats; TIME '24:00:00' is refused |
| `NumbersExactOrRefused` | a foreign number is loaded exactly or refused |
| `LoadedWithinTarget` | what is loaded lies within its column |
| `WhatFitsIsAccepted` | a number that fits a DECIMAL or TIMESTAMP is loaded, but for a zero with a power of ten beyond i128 |
| `TranscodingStable` | a timestamp ext does not drift between the two formats |
| `SecurityProofs!KeysComeBack` | a key's parameters are read back in whatever order they are listed |
| `AuthenticatorsComeBack` | authenticatorData is read back field by field, alone and in an attestation object; cut, it is refused or lacks its extensions only |
| `MessagesComeBack` | headers and payload are read back from every order, wrapping and stack of tags; the protected map wins |
| `ClaimsComeBack` | claims are found through every stack of envelopes, an instant in each of its forms, and no private claim is lost |
| `AnswersProofs!RowsAnswered` | row i of a security function's column is its answer to blob i alone, NULL exactly where there is none |
| `RowsFanOut` | the rows a table function makes of an input row are a run of those it makes of it alone, in order, and name it |

They assume what the modules' ASSUMEs say: `CopyFromAssumption` (a positive batch
size, well-formed statements), `CopyToAssumption` (a buffer of any
size, none included; statements whose rows each encode to something; destinations), `RangeReaderAssumption` (a positive
chunk), `ItemStreamAssumption` (positive limits, streams of heads), and two about
numbers. `NumbersAssumption` says how the widths compare: 2^32 <= 2^34 < 2^63,
2^64 <= 2^127, a second in nanoseconds is few enough that every i64 of seconds,
written in nanoseconds, is an i128 (which is why `checked_mul` never refuses an
instant), and 2^127 is no multiple of ten. The last matters at one value: were
2^127 a power of the radix, the mantissa -2^127 would be a multiple of it, and
`checked_pow` refuses 2^127, so `rescale` would refuse a number that fits.
`CellCodecAssumption` says that columns are those DuckDB has (a DECIMAL's precision
fits its i128, a unit is seconds to nanoseconds, the length of a day in it fits the type),
that their cells lie within them, that foreign values are what ciborium returns
(native integers below 2^64, byte strings of any length), and that a 12-byte
timestamp holds less than a second of nanoseconds, as its specification requires.
`WebAuthnAssumption` says that the fields of fixed length are not empty, and
`SecurityAssumption` what is meant: a key has each parameter at most once and only
those of its type, with numbers that are i64s; hashes, ids and counters have the
lengths they are declared with; an authenticator's key is of numbers only and its
key and extensions are maps of fewer than 24 small integers, because the model of
ciborium on bytes reads no more. `MessagesAssumption` says the same of messages and
claims: each parameter and claim is given once, in a form the decoders accept (a
registered name is an i64, a `crit` is any value that has a JSON form), a message is
in at most `MaxNesting` tags and a CWT in at most `MaxEnvelopes` envelopes; and that
2^63 is above 34, the largest registered label. `AnswersAssumption` says that what
ciborium returns is a value whose parts are values, down to what byte strings in it
encode (`Value` is any set closed in this way), and that a sequence is one; nothing
about the blobs' contents or their number.

`KeysComeBack` has a hypothesis, that an RSA key lists `kty` before its exponent
(`KeysOrdered`): of all other orders, `x` keeps the bytes of the exponent, and in
one the exponent is lost (`cose_key_order`). It holds of every other kind of key.

Three theorems of `CellCodec` have a hypothesis of their own, which leaves out the
inputs that `cells_time_ns`, `cells_between` and `cells_date` show to be lost and
nothing beyond: `NoKnownLoss` (no TIME finer than microseconds, no mantissa between
-2^64 and -2^63 - 1 written as MessagePack), `NumberTargets` (no DATE, whose
out-of-range day count wraps, and no TIME, where a bare integer is microseconds and
not the number itself) and `NoTimeTargets` (a TIME is never compared with a day).
The other two exceptions are no hypotheses but part of what the properties say: TIME
'24:00:00' is refused (`CellsRoundTrip`), and so is a zero written with an exponent
whose power of ten does not fit (`AcceptsWhatFits`).

`CopyFrom`. `OnlyGoodRowsDelivered` and the two completeness properties are not
inductive: between batches the rows are in `rows`, `kept` and behind the cursor of
the open reader. The strengthening says which rows the producer has dealt with
(all of the sources already popped and the open one's items before `pos`) and
that each of these is delivered, in the batch, or of a kind that may be dropped;
and that `pending` is always the descending list of the sources not yet opened.
The refinement needs two facts more: every loadable row before the read position
is in the table or in the batch (`FullInv`), so a delivered batch is the next run
of loadable rows; and a batch is empty at the end only because no source is left
or one would not open (`StopInv`), which is when `RowLoad` lets a load end.

`CopyTo`. While nobody else touches its file, what an open file holds followed by
what the `BufWriter` holds is the beginning of the output that `write_all` has handed
over: all rows encoded and the first `part` pieces of the next (`FileInv`). "Nobody
else" is itself part of the invariant (`AloneInv`): as long as an answerable
statement has not been touched, no rival has the file open.
Sequences of pieces are compared index by index (`Continues`), so that a short
write splits a run of pieces without induction.

`RangeReader`. `got` followed by the rest of the buffer is the run of offsets
`0 .. pos - 1`; with full answers `pos` is a multiple of the chunk or the end, and
the requests are `pos` divided by the chunk, rounded up (`RequestInv`).

`ItemStream`. The decoders are recursive functions, and a recursive definition is a
CHOOSE: that some function satisfies its equation has to be proved. A function that
satisfies it for the deepest items (or the last bytes) extends to one that
satisfies it one level further up (`EndExists`, `RunExists`); from there, what the
decoders return follows by induction on the distance to the end of the bytes.
`Induction` is stated about a set of numbers, since the library's theorems take a
predicate, which the provers cannot instantiate; each proof names the set of
numbers it has shown its claim for. The properties speak of a reader that has
stopped, so the inductive invariant relates every moment to the whole stream: the
items returned are the first of `ParseSeq` (`ReturnedInv`), and what `ParseSeq` finds
from the current item on is what the whole still has (`RestInv`). `DecodeInv` says
the bytes taken never pass the end of the item, so the one decisive byte is met by
exactly one of the actions; `OrderInv` and `StoppedInv` carry the order of answers
to the refinement. `CutsAreNoticed` is about the decoders alone: an item that ends
before the cut ends in the same place, any other is truncated (`ItemEndCut`).

`CellCodec`. Its state is a pipeline, so the invariants (`CellInv`, `ForeignInv`)
just say which operators have been applied; the work is in the operators. Each
one-way function has a lemma that inverts it (`BigToValue`, `EpochValue`, the bridge to
MessagePack and back), and rescaling is shown exact by cancelling powers of the
radix (`Power` is a recursive function, treated as above). `ExactOrRefused` and
`AcceptsWhatFits` compare fractions by cross-multiplication, so every comparison is
first brought to the smaller exponent.

`Security`. A call is one step, so the invariant (`SecurityInv`) says that the answer
is the decoder's, and the work is in the decoders. Their loops are folds, which the
community module defines by a recursive function over sets of indices. `FoldExists`
shows that there is such a function, `FoldRun` that its values at `1 .. i` are the
states of the loop, and a lemma for each loop (`KeyScan`, `RescanScan`, `NumberScan`,
`BytesScan`) applies both, since an operator cannot be a lemma's parameter. From
there it is induction on the entries: after n of them every field but the modulus is
what the first n say (`Agrees`), the modulus is that or still missing, and the second
scan makes up for exactly that. For bytes, `Reads(b, o, s)` says that s stands at
offset o of b, as far as b goes. It passes from a concatenation to its parts
(`ReadsParts`), so from "b is a prefix of the authenticator's bytes" follows what
stands at each cursor position (`AuthenticatorLayout`), and the one comparison with
the end of b that decides each part.

`Messages`. The state is again one call; the work is in three recursive functions and
two loops. The functions (`Unwrapped` for tags, `Unveiled` for envelopes, and the
sender's `Stack`) exist by the argument used for `ItemStream` (`UnwrappedIs`,
`UnveiledIs`, `StackIs`), and what is left after n steps is what the sender had before
its last n wrappings. An envelope is itself a COSE message without parameters, so
`EnvelopeOpened` reuses `MessageDecoded`, which reads back any message. The loops over
header entries and claims are folds: after n entries a field is what the first n say
of it (`HeaderScan`, `ClaimScan`, by `Found`), and since a parameter is given once that
is what the sender meant. `InstantRead` is the one place with arithmetic: a float is
cut towards zero, so the half that the sender adds or takes away must not move it.

`Answers`. The invariant (`AnswersInv`) says that the answer is what the whole batch
makes of its rows; that a row of it does not depend on the others is a fact about the
builders. A list column and the output of a table function are concatenations: the
offsets are the sums of the lengths before (`OffsetsStart`), the elements of row i lie
behind offset i (`Flattened`), every position belongs to one row
(`EveryPositionHasARow`), so the positions that name row i are a run
(`PositionsOfRow`, `FanSplits`). Two columns of any sizes that agree at one row each
(`Agree`) then read the same there: cells by definition, lists by `ListRead`, structs if
their fields do one level deeper (`StructSame1` to `StructSame3`), and so each
function's column (`AllAlike`). `ListRead` needs every row of a chain column to be a
sequence or nothing, which is where the decoders come in: whatever a message says, its
header maps have a chain or none (`MessageHasChains`, through the loops of
`decode_x5chain` and `decode_header_map`).

TLC checked each of these invariants on the instances above (with `Row`, all pairs
of numbers, cut down to the instance). Each proof has one step per action.

Only model-checked: liveness (TLAPS does not do fairness); what `Decoders` adds to
`Messages` (`CanonicalForgetsOrder`, `DuplicatesFound`, `JsonRoundTrips`,
`TagViewsAgree`: induction over values as trees); and what `Batches` adds to `Answers`
(`KeepsTheGoodRows`, `WritesLoadAgain`, `ViewsRowByRow`), whose columns nest without
bound and whose views walk trees, both by recursive operators.

## Observed, without a run

Places where comment and code differ, or where the code does less than one might
expect, seen while modelling and reproduced by the models as the code has them:

- The precision of a DECIMAL column is not checked (`cbor-worker/src/value_out.rs:509`):
  10^p goes into DECIMAL(p, 0), where `README.md:315` of the repository says a value
  that cannot be represented fails the COPY.
- `strip_transparent` (`cbor-core/src/value.rs:167`) mentions tag 24; only 55799 is
  stripped.
- `tags` and `untag` do not descend into map keys, though `codec/tags.rs:20` speaks
  of every semantic tag.
- Map keys that print alike collide in JSON; so do private CWT claims. A tag is
  transparent in a key too, so the keys 1 and 1(1) are one field
  (`cbor-core/src/codec/json.rs:63`).
- A response without bytes ends a remote file wherever it comes
  (`cbor-worker/src/cloud.rs:551`, "nothing more to read"), although the size may be
  known and not reached: the rows behind it are not loaded and no error is raised,
  unless the cut falls inside an item.
- Zero is refused by a DECIMAL or TIMESTAMP column when its exponent is extreme
  (0e39 and 0e-60, not 0e5): `rescale` asks `checked_pow` for the power of ten before it
  looks at the mantissa (`cbor-worker/src/value_out.rs:219`, `:233`).
- TIME '24:00:00' is written by COPY TO and refused by COPY FROM, by the extension's
  validation and not by the worker (`test/sql/copy_types.test:200` pins it), where
  `README.md:330` of the repository speaks of DuckDB's full range.
- An I/O error inside a CBOR item is reported as an ill-formed item (`classify`).
- `well_formed` compares keys as they are written: two map-valued keys that differ
  only in the order of their entries are no duplicates to it, but are after
  `canonical`. It compares floats as numbers (`cbor-core/src/value.rs:149`): 0.0 and -0.0
  are duplicates to it, and so are NaNs of different payloads, whose bytes `canonical`
  keeps apart.
- An RSA key with both parameters before `kty` gets them right in `n` and `e`, but
  keeps the exponent in `x` as well.
- A canonical COPY TO reorders the entries of a MAP, and the fields of a STRUCT on
  the wire.
- CWT instants too far for microseconds in an i64 are clamped to the last one that
  fits (`cbor-worker/src/arrow_io.rs:88`).

## Not modelled

- Texts: option parsing and messages, JSON rendering of MessagePack and numbers,
  the wording of diagnostic notation, RFC 3339. They decide no control flow the
  properties see.
- Glob matching, listing, secret selection, S3 and endpoint options
  (`cloud.rs`, `copy/location.rs`): string handling in front of a library call.
  `CopyFrom` takes the sorted list they return.
- FLOAT and DOUBLE columns (a hardware conversion), intervals, dictionaries, and
  the large and view variants of text, blob and list layouts.
- The MessagePack scalar functions, which repeat the pattern of the CBOR ones.
- Descriptions, examples and registration; the browser's HTTP and hash calls.
- Everything external (VGI SDK, ciborium, rmpv, arrow, object_store), except as
  far as the modelled code depends on its behaviour.

## What is left

1. `Locations`: which paths a glob lists, and which secret serves a path.
2. A file a crashed `CopyTo` left, read byte by byte by `ItemStream` under
   `CopyFrom`. `CutKeepsWholeItems` and `FailureLeavesPrefix` meet there: the one
   says what a prefix yields, the other that a prefix is what is left.
