---------------------------- MODULE MCCellCodec ----------------------------
(***************************************************************************)
(* CellCodec with every integer width scaled down and radix 3 for 10, and  *)
(* the cells and foreign values of a run: whole ranges where they are      *)
(* small, the neighbourhood of every boundary where they are not.          *)
(***************************************************************************)
EXTENDS CellCodec

Signed(bound) == [type |-> "SIGNED", arg |-> bound, digits |-> 0]
Unsigned(bound) == [type |-> "UNSIGNED", arg |-> bound, digits |-> 0]
Decimal(scale) == [type |-> "DECIMAL", arg |-> scale, digits |-> 9]
Timestamp(unit) == [type |-> "TIMESTAMP", arg |-> unit, digits |-> 0]
TimeOf(unit) == [type |-> "TIME", arg |-> unit, digits |-> 0]
Date == [type |-> "DATE", arg |-> 0, digits |-> 0]

\* Numbers around each width, each power of the radix and zero, both signs.
Edges ==
  LET near == {0, I32, Sec34, I64, 2 * I64, I128 \div 2, I128 - 2} \cup {Radix ^ k : k \in 0 .. 9}
      around == UNION {{k - 2, k - 1, k, k + 1} : k \in near}
  IN  {n \in around \cup {-k : k \in around} : InI128(n)}

MCColumns ==
  {Signed(I32), Signed(I64), Unsigned(I64), Date} \cup {Decimal(s) : s \in 0 .. 3}
  \cup {Timestamp(u) : u \in 0 .. 3} \cup {TimeOf(u) : u \in 0 .. 2}

\* TIME_NS is explored on its own.
MCTimeNs == {TimeOf(3)}

EveryCell(c) ==
  {n \in (-(2 * I64) .. 2 * I64) \cup (IF c.type = "DECIMAL" THEN Edges ELSE {}) : InColumn(c, n)}

\* The mantissas that are native CBOR integers and fit no MessagePack integer.
Between == -(2 * I64) .. -I64 - 1
MCCellsOf(c, w) ==
  IF c.type = "DECIMAL" /\ w = "msgpack" THEN EveryCell(c) \ Between ELSE EveryCell(c)

\* They are explored on their own.
MCDecimalColumn == {Decimal(2)}
MCBetween(c, w) == Between

MCNone == {}
MCTargets ==
  {Signed(I32), Signed(I64), Unsigned(I64), Decimal(0), Decimal(2),
   Timestamp(0), Timestamp(2), Timestamp(3)}
MCDate == {Date}

Exponents == -I32 - 1 .. I32
Fractions == {Array(<<Int_(e), BigToValue(m)>>) : e \in Exponents, m \in Edges}
Integers_ == {Int_(n) : n \in -(2 * I64) .. 2 * I64 - 1}
Floats == {Float(h) : h \in -(2 * I64) - 3 .. 2 * I64 + 3}

\* Bignums other programs write: leading zeros, values a native integer holds,
\* and magnitudes of sixteen bytes and more.
Bignums ==
  {Tag(t, Bytes(Digits(z, n))) :
     t \in {2, 3}, z \in {0, 2},
     n \in {0, 3, 2 * I64, I128 - 1, I128, I128 + 1, 2 * I128 - 1, 2 * I128, 4 * I128}}

MCForeign ==
  LET plain == Integers_ \cup Fractions \cup Floats \cup Bignums
  IN  plain \cup {Tag(4, a) : a \in Fractions} \cup {Tag(1, v) : v \in plain}
      \cup {Tag(1, Tag(4, a)) : a \in Fractions}

\* Timestamp ext items of all three layouts, not only the shortest.
MCForeignExt ==
  {Ext(-1, [len |-> 4, secs |-> s]) : s \in 0 .. 2 * I32 - 1}
  \cup {Ext(-1, [len |-> 8, packed |-> n * Sec34 + s]) : n \in 0 .. Nanos - 1, s \in {0, 1, 15, 16, 17, 62, 63}}
  \cup {Ext(-1, [len |-> 12, nanos |-> n, secs |-> s]) :
          n \in 0 .. Nanos - 1, s \in {-I64, -65, -64, -1, 0, 1, 15, 16, 63, 64, 65, I64 - 1}}
  \cup {Ext(t, b.inner.bytes) : t \in {2, 3}, b \in Bignums}
=============================================================================
