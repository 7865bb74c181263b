----------------------------- MODULE CellCodec -----------------------------
(***************************************************************************)
(* The life of one table cell through a row file: value_at                 *)
(* (cbor-worker/src/value_in.rs) turns it into a CBOR value, COPY TO in    *)
(* msgpack bridges that to MessagePack and COPY FROM bridges it back       *)
(* (cbor-core/src/codec/msgpack.rs), and build_column                      *)
(* (cbor-worker/src/value_out.rs) turns the value into a cell of the       *)
(* target column.  A value may also come from a file some other program    *)
(* wrote, in any of the forms the reader accepts.                          *)
(***************************************************************************)
EXTENDS Numbers

CONSTANTS
  Columns,        \* the columns cells are written from and read back into
  CellsOf(_, _),  \* the cells of a column written in a format
  Targets,        \* the columns foreign values are loaded into
  Foreign,        \* the values other programs wrote that are explored
  ForeignExt,     \* and their MessagePack ext items
  SecsPerDay      \* 86 400

ColumnType == {"SIGNED", "UNSIGNED", "DECIMAL", "TIMESTAMP", "DATE", "TIME"}

\* arg: bits of an integer type as its bound, scale of a DECIMAL, unit (0 for
\* seconds up to 3 for nanoseconds) of a TIME or TIMESTAMP.  digits: the
\* precision of a DECIMAL, which fits its i128.
IsColumn(c) ==
  /\ c.type \in ColumnType
  /\ c.type \in {"SIGNED", "UNSIGNED"} => c.arg \in 1 .. I64
  /\ c.type = "DECIMAL" => c.arg \in 0 .. I32 /\ c.digits \in Nat /\ Power[c.digits] <= I128
  /\ c.type \in {"TIMESTAMP", "TIME"} => c.arg \in 0 .. 3

\* Values as ciborium decodes them: native integers, numbers in arrays, tags.
IsScalar(v) ==
  /\ Is(v, "int") => v.n \in Int /\ IsNative(v.n)
  /\ Is(v, "bytes") => v.bytes.magnitude \in Nat
IsNumber(v) == IsScalar(v) /\ (Is(v, "tag") => IsScalar(v.inner))
IsItem(v) == IsNumber(v) /\ (Is(v, "array") => \A i \in 1 .. Len(v.items) : IsNumber(v.items[i]))
IsValue(v) ==
  /\ IsItem(v)
  /\ Is(v, "tag") => IsItem(v.inner) /\ (Is(v.inner, "tag") => IsItem(v.inner.inner))

\* Ext items of MessagePack; less than a second of nanoseconds in a timestamp.
IsTimestamp(p) ==
  \/ p.len = 4 /\ p.secs \in 0 .. 2 * I32 - 1
  \/ p.len = 8 /\ p.packed \in 0 .. Nanos * Sec34 - 1
  \/ p.len = 12 /\ p.nanos \in 0 .. Nanos - 1 /\ p.secs \in -I64 .. I64 - 1
IsExt(m) ==
  /\ Is(m, "ext")
  /\ m.type = -1 => IsTimestamp(m.payload)
  /\ m.type \in {2, 3} => m.payload.magnitude \in Nat

Unit(c) == c.arg * UnitDigits
PerSec(c) == Power[Unit(c)]

\* A TIME's day, whose last moment is 24:00:00 and not the next day's 00:00:00.
DayOf(c) == SecsPerDay * PerSec(c)

\* The values a column holds; a TIME of DuckDB may be 24:00:00.
InColumn(c, n) ==
  CASE c.type = "SIGNED"    -> -c.arg <= n /\ n < c.arg
    [] c.type = "UNSIGNED"  -> 0 <= n /\ n < 2 * c.arg
    [] c.type = "DECIMAL"   -> -Power[c.digits] < n /\ n < Power[c.digits]
    [] c.type = "TIMESTAMP" -> InI64(n)
    [] c.type = "DATE"      -> InI32(n)
    [] c.type = "TIME"      -> 0 <= n /\ n <= DayOf(c)

\* A day fits the narrower types a TIME is kept in.
ASSUME CellCodecAssumption ==
  /\ \A c \in Columns \cup Targets : IsColumn(c)
  /\ \A c \in Columns : \A w \in {"cbor", "msgpack"} : \A n \in CellsOf(c, w) : n \in Int /\ InColumn(c, n)
  /\ \A v \in Foreign : IsValue(v)
  /\ \A m \in ForeignExt : IsExt(m)
  /\ SecsPerDay \in Nat \ {0}
  /\ SecsPerDay * Power[UnitDigits] < I32
  /\ SecsPerDay * Power[2 * UnitDigits] < I64

VARIABLES
  column,    \* the column type; never changes
  wire,      \* the format of the row file; never changes
  cell,      \* the cell written, None for a foreign value
  stage,     \* cell, value, wire, read, loaded
  value,     \* the value between the stages
  loaded     \* the cell that enters the table: an Option, None when refused

vars == <<column, wire, cell, stage, value, loaded>>

-----------------------------------------------------------------------------
(* value_at: a cell as a CBOR value.                                       *)

DecimalFraction(exponent, mantissa) ==
  Tag(4, Array(<<Int_(exponent), BigToValue(mantissa)>>))

\* A seeded slip: every instant is written as whole seconds.
EpochWhole(c, raw) == Tag(1, Int_(TruncDiv(raw, PerSec(c))))

\* Tag 1 around whole seconds, or around the exact decimal fraction.
Epoch(c, raw) ==
  Tag(1, IF raw % PerSec(c) = 0 THEN Int_(TruncDiv(raw, PerSec(c)))
         ELSE DecimalFraction(-Unit(c), raw))

\* TIME is written in microseconds whatever the column's unit.
Micros(c, raw) ==
  IF c.arg <= 2 THEN raw * Power[2 * UnitDigits - Unit(c)]
  ELSE TruncDiv(raw, Power[Unit(c) - 2 * UnitDigits])

ValueAt(c, raw) ==
  CASE c.type \in {"SIGNED", "UNSIGNED"} -> Int_(raw)
    [] c.type = "DECIMAL"   -> DecimalFraction(-c.arg, raw)
    [] c.type = "TIMESTAMP" -> Epoch(c, raw)
    [] c.type = "DATE"      -> Tag(100, Int_(raw))
    [] c.type = "TIME"      -> Int_(Micros(c, raw))

-----------------------------------------------------------------------------
(* The bridge to MessagePack and back.                                     *)

Ext(t, p) == [kind |-> "ext", type |-> t, payload |-> p]

Floor2(h) == h \div 2
ClampNanos(n) == IF n > Nanos - 1 THEN Nanos - 1 ELSE n

\* instant_parts: the content of tag 1 as seconds and nanoseconds.
InstantParts(inner) ==
  LET parts == DecimalParts(inner)
  IN  IF IsSome(parts)
      THEN LET shift == Get(parts)[2] + 3 * UnitDigits
               factor == CheckedPow(IF shift >= 0 THEN shift ELSE -shift)
               total == IF ~IsSome(factor) THEN None
                        ELSE IF shift >= 0 THEN CheckedMul(Get(parts)[1], Get(factor))
                        ELSE Some(TruncDiv(Get(parts)[1], Get(factor)))
           IN  IF IsSome(total) /\ InI64(Get(total) \div Nanos)
               THEN Some(<<Get(total) \div Nanos, Get(total) % Nanos>>) ELSE None
      ELSE IF Is(inner, "int") THEN Narrow(<<inner.n, 0>>, InI64(inner.n))
      ELSE IF Is(inner, "float")
      THEN Some(<<Floor2(inner.half),
                  ClampNanos(((inner.half % 2) * Nanos + 1) \div 2)>>)
      ELSE None

\* A seeded slip: the bignum tags are dropped like any other.
MpScalarUntagged(v) == IF Is(v, "tag") THEN v.inner ELSE v

\* Scalars; the bignum tags survive as ext, every other tag has been dropped.
MpScalar(v) ==
  IF Is(v, "int") /\ ~InU64(v.n) /\ ~InI64(v.n) THEN Float(2 * v.n)
  ELSE IF IsTag(v, 2) \/ IsTag(v, 3) THEN Ext(v.tag, v.inner.bytes)
  ELSE v

\* The content a dropped tag leaves: a scalar or an array of scalars.
Content(v) == IF IsTag(v, 2) \/ IsTag(v, 3) \/ ~Is(v, "tag") THEN v ELSE v.inner

CborToMp(v) ==
  LET instant == InstantParts(v.inner)
      body == Content(Content(v))
  IN  IF IsTag(v, 1) /\ IsSome(instant)
      THEN Ext(-1, EncodeTimestamp(Get(instant)[1], Get(instant)[2]))
      ELSE IF Is(body, "array")
      THEN Array([i \in DOMAIN body.items |-> MpScalar(body.items[i])])
      ELSE MpScalar(body)

\* Any other ext becomes a map of its type and its data.
CborScalar(m) ==
  IF ~Is(m, "ext") THEN m
  ELSE IF m.type \in {2, 3} THEN Tag(m.type, Bytes(m.payload)) ELSE [kind |-> "map"]

\* A seeded slip: the nanoseconds of a timestamp ext are dropped.
CborInstantWhole(secs, nanos) == Tag(1, Int_(secs))

CborInstant(secs, nanos) ==
  Tag(1, IF nanos = 0 THEN Int_(secs)
         ELSE DecimalFraction(-(3 * UnitDigits), secs * Nanos + nanos))

MpToCbor(m) ==
  IF Is(m, "ext") /\ m.type = -1
  THEN LET t == DecodeTimestamp(m.payload) IN CborInstant(t[1], t[2])
  ELSE IF Is(m, "array") THEN Array([i \in DOMAIN m.items |-> CborScalar(m.items[i])])
  ELSE CborScalar(m)

-----------------------------------------------------------------------------
(* build_column: the cell of the target column, or a refusal.              *)

\* untag, for values under at most three tags.
Untag(v) == LET Inner(w) == IF Is(w, "tag") THEN w.inner ELSE w IN Inner(Inner(Inner(v)))

\* An integral float passes for an integer, a fractional one does not.
AsI128(v) ==
  LET w == Untag(v)
  IN  IF Is(w, "int") THEN Some(w.n)
      ELSE IF Is(w, "float") THEN Narrow(w.half \div 2, w.half % 2 = 0)
      ELSE None

\* to_native of build_int: T::try_from.
FitsInt(c, n) ==
  IF c.type = "SIGNED" THEN -c.arg <= n /\ n < c.arg ELSE 0 <= n /\ n < 2 * c.arg

\* n / 2 rounded half away from zero.
RoundHalf(n) == IF n >= 0 THEN (n + 1) \div 2 ELSE -((-n + 1) \div 2)

\* as_f64, brought to the scale; floats this small are exact.
FloatAt(v, scale) ==
  LET w == Untag(v)
  IN  IF Is(w, "float") THEN Some(RoundHalf(w.half * Power[scale]))
      ELSE IF Is(w, "int") THEN Some(w.n * Power[scale])
      ELSE None

DecimalAt(c, v) ==
  LET parts == DecimalParts(v)
      whole == BigFromValue(v)
      float == FloatAt(v, c.arg)
  IN  IF IsSome(parts) THEN Rescale(Get(parts)[1], Get(parts)[2], c.arg)
      ELSE IF IsSome(whole) THEN Rescale(Get(whole), 0, c.arg)
      ELSE IF IsSome(float) THEN Narrow(Get(float), -I128 < Get(float) /\ Get(float) < I128)
      ELSE None

\* A seeded slip: the bound itself is let through, and saturates.
EpochFits64Closed(n) == -I64 <= n /\ n <= I64

\* Another: the bound is taken on the magnitude.
EpochFitsOpen(n) == -I64 < n /\ n < I64

EpochFits64(n) == InI64(n)

\* timestamp_at: the three forms of an instant, tag 1 or not.
TimestampAt(unit, v) ==
  LET inner == IF IsTag(v, 1) THEN v.inner ELSE v
      parts == DecimalParts(inner)
      whole == BigFromValue(inner)
      count == IF IsSome(parts) THEN Rescale(Get(parts)[1], Get(parts)[2], unit)
               ELSE IF IsSome(whole) THEN Rescale(Get(whole), 0, unit)
               ELSE FloatAt(inner, unit)
  IN  IF IsSome(count) THEN Narrow(Get(count), EpochFits64(Get(count))) ELSE None

\* `as i64` keeps the low 64 bits.
WrapI64(n) == ((n + I64) % (2 * I64)) - I64

\* A day count, or an instant's day; only then the width of DATE is checked.
DateAt(v) ==
  LET days == IF IsTag(v, 1)
              THEN LET s == TimestampAt(0, v)
                   IN  IF IsSome(s) THEN Some(Get(s) \div SecsPerDay) ELSE None
              ELSE LET n == AsI128(v) IN IF IsSome(n) THEN Some(WrapI64(Get(n))) ELSE None
  IN  IF IsSome(days) THEN Narrow(Get(days), InI32(Get(days))) ELSE None

\* Microseconds to the column's unit.
TimeAt(c, v) ==
  LET us == AsI128(v)
      n == IF c.arg <= 2 THEN TruncDiv(Get(us), Power[2 * UnitDigits - Unit(c)])
           ELSE Get(us) * Power[Unit(c) - 2 * UnitDigits]
  IN  IF IsSome(us) THEN Narrow(n, IF c.arg < 2 THEN InI32(n) ELSE InI64(Get(us)) /\ InI64(n))
      ELSE None

BuildCell(c, v) ==
  CASE c.type \in {"SIGNED", "UNSIGNED"} ->
         LET n == AsI128(v) IN IF IsSome(n) THEN Narrow(Get(n), FitsInt(c, Get(n))) ELSE None
    [] c.type = "DECIMAL"   -> DecimalAt(c, v)
    [] c.type = "TIMESTAMP" -> TimestampAt(Unit(c), v)
    [] c.type = "DATE"      -> DateAt(v)
    [] c.type = "TIME"      -> TimeAt(c, v)

\* Arrow's validation of the batch, in DuckDB's extension: a TIME lies within the
\* day, and 24:00:00 does not (test/sql/copy_types.test:202).
ArrowValid(c, n) == c.type = "TIME" => 0 <= n /\ n < DayOf(c)
Validated(c, built) ==
  IF IsSome(built) /\ ~ArrowValid(c, Get(built)) THEN None ELSE built

-----------------------------------------------------------------------------
(* The life of a cell.                                                     *)

Init ==
  /\ loaded = None
  /\ \/ /\ stage = "cell"
        /\ column \in Columns
        /\ wire \in {"cbor", "msgpack"}
        /\ cell \in {Some(raw) : raw \in CellsOf(column, wire)}
        /\ value = Null
     \/ /\ stage = "read"
        /\ column \in Targets
        /\ cell = None
        /\ wire = "cbor"
        /\ value \in Foreign
     \/ /\ stage = "wire"
        /\ column \in Targets
        /\ cell = None
        /\ wire = "msgpack"
        /\ value \in ForeignExt

\* COPY TO: value_at.
Encode ==
  /\ stage = "cell"
  /\ value' = ValueAt(column, Get(cell))
  /\ stage' = "value"
  /\ UNCHANGED <<column, wire, cell, loaded>>

\* Wire::encode_row: CBOR is written as it is, MessagePack is bridged first.
WriteItem ==
  /\ stage = "value"
  /\ value' = IF wire = "msgpack" THEN CborToMp(value) ELSE value
  /\ stage' = "wire"
  /\ UNCHANGED <<column, wire, cell, loaded>>

\* ItemReader::next_item.
ReadItem ==
  /\ stage = "wire"
  /\ value' = IF wire = "msgpack" THEN MpToCbor(value) ELSE value
  /\ stage' = "read"
  /\ UNCHANGED <<column, wire, cell, loaded>>

\* build_column of one row, and the validation of the batch it leaves in.
Load ==
  /\ stage = "read"
  /\ loaded' = Validated(column, BuildCell(column, value))
  /\ stage' = "loaded"
  /\ UNCHANGED <<column, wire, cell, value>>

Done == stage = "loaded" /\ UNCHANGED vars

Next == Encode \/ WriteItem \/ ReadItem \/ Load \/ Done

Spec == Init /\ [][Next]_vars

-----------------------------------------------------------------------------
(* Properties.                                                             *)

\* What one unit of a column's cells is, as a power of Radix below one.
ScaleOf(c) ==
  CASE c.type = "DECIMAL" -> c.arg
    [] c.type \in {"TIMESTAMP", "TIME"} -> Unit(c)
    [] OTHER -> 0

\* The number a value stands for, as <<mantissa, exponent>>, for its exact forms.
\* Tag 1 is one of them for a TIMESTAMP only.
Denotes(c, v) ==
  LET inner == IF IsTag(v, 1) /\ c.type = "TIMESTAMP" THEN v.inner ELSE v
  IN  IF IsSome(DecimalParts(inner)) THEN DecimalParts(inner)
      ELSE IF IsSome(BigFromValue(inner)) THEN Some(<<Get(BigFromValue(inner)), 0>>)
      ELSE None

\* n units of Radix^-scale are m * Radix^e.
SameNumber(n, scale, m, e) ==
  IF e + scale >= 0 THEN n = m * Power[e + scale] ELSE n * Power[-(e + scale)] = m

Foreigner == stage = "loaded" /\ cell = None

\* Every variable has its type; in particular no MessagePack ext is left in what
\* the reader hands on, nor a map where a number was written.
TypeOK ==
  /\ column.type \in ColumnType
  /\ wire \in {"cbor", "msgpack"}
  /\ stage \in {"cell", "value", "wire", "read", "loaded"}
  /\ cell = None \/ InColumn(column, Get(cell))
  /\ value.kind \in {"null", "int", "float", "bytes", "array", "tag", "ext"}
  /\ stage \in {"read", "loaded"} => value.kind # "ext"
  /\ loaded = None \/ Get(loaded) \in Int

\* The TIME that is written and then refused on load (copy_types.test:200).
EndOfDay(c, n) == c.type = "TIME" /\ n = DayOf(c)

\* "COPY ... TO then COPY ... FROM round-trips" (to.rs): every cell of every
\* column comes back as it was, through CBOR and through MessagePack, which has
\* no tags, no decimals and other instants.  One cell does not: TIME '24:00:00' is
\* written and its file is then refused, never loaded as another time.
CellsRoundTrip ==
  stage = "loaded" /\ IsSome(cell) =>
    loaded = IF EndOfDay(column, Get(cell)) THEN None ELSE cell

\* A number in one of its exact forms - integer, bignum, decimal fraction, tagged
\* instant - is loaded as exactly that number or refused, never rounded, cut or
\* wrapped, whatever the producer's exponent.
ExactOrRefused ==
  Foreigner /\ IsSome(loaded) /\ IsSome(Denotes(column, value)) =>
    LET d == Get(Denotes(column, value))
    IN  SameNumber(Get(loaded), ScaleOf(column), d[1], d[2])

\* "A value overflowing the target width is rejected, not wrapped"
\* (copy_types.test): a loaded integer or instant lies within its column.
WithinTarget ==
  Foreigner /\ IsSome(loaded) /\ column.type # "DECIMAL" => InColumn(column, Get(loaded))

\* m * Radix^e as a whole number of units of Radix^-scale, if it is one.
InUnits(m, e, scale) ==
  IF e + scale >= 0 THEN Some(m * Power[e + scale])
  ELSE Narrow(m \div Power[-(e + scale)], m % Power[-(e + scale)] = 0)

\* A zero whose power of ten is beyond i128, as in 0e39.
ZeroBeyond(m, shift) == m = 0 /\ Power[IF shift >= 0 THEN shift ELSE -shift] >= I128

\* The other way round, a number that the column can hold exactly is loaded: an
\* intermediate product of the rescaling does not overflow before its result.
\* The exception is a zero of extreme exponent, which any column could hold:
\* rescale looks for the power of ten before the mantissa, and refuses it.
AcceptsWhatFits ==
  Foreigner /\ column.type \in {"DECIMAL", "TIMESTAMP"} /\ IsSome(Denotes(column, value)) =>
    LET d == Get(Denotes(column, value))
        n == InUnits(d[1], d[2], ScaleOf(column))
    IN  IsSome(n) /\ InColumn(column, Get(n)) =>
          loaded = IF ZeroBeyond(d[1], d[2] + ScaleOf(column)) THEN None ELSE n

\* Transcoding settles: what msgpack_to_cbor makes of an ext, written back as
\* MessagePack and read again, is the same CBOR value; instants do not drift.
TranscodingSettles ==
  stage = "wire" /\ wire = "msgpack" /\ cell = None =>
    MpToCbor(CborToMp(MpToCbor(value))) = MpToCbor(value)
=============================================================================
