------------------------------ MODULE Numbers ------------------------------
(***************************************************************************)
(* The number arithmetic the cell codec rests on: the fixed widths of      *)
(* Rust's integers, bignums (cbor-core/src/codec/bignum.rs), the           *)
(* MessagePack timestamp ext (codec/msgpack.rs) and the rescaling of       *)
(* decimal fractions (cbor-worker/src/value_out.rs).                       *)
(*                                                                         *)
(* Widths and radices are constants, so that TLC explores small ones with  *)
(* the same order between them and the proofs cover the real ones.         *)
(***************************************************************************)
EXTENDS Values

CONSTANTS
  Radix,      \* 10: the base of decimal fractions and of time units
  I32,        \* 2^31: i32 is -I32 .. I32 - 1
  I128,       \* 2^127
  Sec34,      \* 2^34: the seconds of a 64-bit timestamp ext
  UnitDigits  \* 3: decimal digits from one time unit to the next

\* Radix to the k-th.
Power[k \in Nat] == IF k = 0 THEN 1 ELSE Radix * Power[k - 1]

Nanos == Power[3 * UnitDigits]     \* nanoseconds in a second

\* 2^127 is no multiple of 10 and has room for the nanoseconds of any i64 seconds.
ASSUME NumbersAssumption ==
  /\ Radix \in Nat /\ Radix > 1
  /\ {I32, I128, Sec34, UnitDigits} \subseteq Nat \ {0}
  /\ 2 * I32 <= Sec34 /\ Sec34 < I64 /\ 2 * I64 <= I128
  /\ I128 % Radix # 0
  /\ 3 * UnitDigits <= I32
  /\ I64 * Nanos <= I128

InI32(n) == -I32 <= n /\ n < I32
InI64(n) == -I64 <= n /\ n < I64
InU64(n) == 0 <= n /\ n < 2 * I64
InI128(n) == -I128 <= n /\ n < I128
InU128(n) == 0 <= n /\ n < 2 * I128
Narrow(n, fits) == IF fits THEN Some(n) ELSE None    \* T::try_from(n).ok()

\* Rust's / rounds towards zero; \div towards minus infinity.
TruncDiv(a, b) == IF a >= 0 THEN a \div b ELSE -((-a) \div b)

\* checked_mul and checked_pow of i128.
CheckedMul(a, b) == Narrow(a * b, InI128(a * b))
CheckedPow(k) == Narrow(Power[k], Power[k] < I128)

-----------------------------------------------------------------------------
(* Bignums: tag 2 and tag 3 around big-endian bytes.  A byte string is the *)
(* number it spells and how many zero bytes lead it.                       *)

Digits(zeros, n) == [zeros |-> zeros, magnitude |-> n]

\* The bytes of n without leading zeros; zero is one byte.
TrimBE(n) == Digits(IF n = 0 THEN 1 ELSE 0, n)

\* None for more than sixteen significant bytes.
BEToU128(b) == Narrow(b.magnitude, InU128(b.magnitude))

\* A native CBOR integer spans -2^64 .. 2^64 - 1.
IsNative(n) == -(2 * I64) <= n /\ n < 2 * I64

\* A seeded slip: tag 3 stores -n.
BigToValueSigned(n) ==
  IF IsNative(n) THEN Int_(n)
  ELSE IF n >= 0 THEN Tag(2, Bytes(TrimBE(n))) ELSE Tag(3, Bytes(TrimBE(-n)))

BigToValue(n) ==
  IF IsNative(n) THEN Int_(n)
  ELSE IF n >= 0 THEN Tag(2, Bytes(TrimBE(n))) ELSE Tag(3, Bytes(TrimBE(-1 - n)))

\* bignum::from_value
BigFromValue(v) ==
  IF Is(v, "int") THEN Some(v.n)
  ELSE IF (IsTag(v, 2) \/ IsTag(v, 3)) /\ Is(v.inner, "bytes")
  THEN LET m == BEToU128(v.inner.bytes)
           n == IF v.tag = 2 THEN Get(m) ELSE -1 - Get(m)
       IN  IF IsSome(m) /\ Get(m) < I128 THEN Some(n) ELSE None
  ELSE None

-----------------------------------------------------------------------------
(* The reserved timestamp ext.                                             *)

\* A seeded slip: the seconds' field is taken to be a bit too wide.
EncodeTimestampWide(secs, nanos) ==
  IF nanos = 0 /\ 0 <= secs /\ secs < 2 * I32 THEN [len |-> 4, secs |-> secs]
  ELSE IF 0 <= secs /\ secs <= Sec34 THEN [len |-> 8, packed |-> nanos * Sec34 + secs]
  ELSE [len |-> 12, nanos |-> nanos, secs |-> secs]

\* The payload, in the shortest of the three layouts: u32 seconds; nanoseconds
\* over 34 bits of seconds; both in full.
EncodeTimestamp(secs, nanos) ==
  IF nanos = 0 /\ 0 <= secs /\ secs < 2 * I32 THEN [len |-> 4, secs |-> secs]
  ELSE IF 0 <= secs /\ secs < Sec34 THEN [len |-> 8, packed |-> nanos * Sec34 + secs]
  ELSE [len |-> 12, nanos |-> nanos, secs |-> secs]

\* <<seconds, nanoseconds>>
DecodeTimestamp(p) ==
  CASE p.len = 4  -> <<p.secs, 0>>
    [] p.len = 8  -> <<p.packed % Sec34, p.packed \div Sec34>>
    [] p.len = 12 -> <<p.secs, p.nanos>>

-----------------------------------------------------------------------------
(* Decimal fractions.                                                      *)

\* <<mantissa, exponent>> of tag 4, or of the bare array MessagePack leaves.
DecimalParts(v) ==
  LET w == IF IsTag(v, 4) THEN v.inner ELSE v
  IN  IF Is(w, "array") /\ Len(w.items) = 2
      THEN LET e == BigFromValue(w.items[1])
               m == BigFromValue(w.items[2])
           IN  IF IsSome(e) /\ IsSome(m) /\ InI32(Get(e))
               THEN Some(<<Get(m), Get(e)>>) ELSE None
      ELSE None

\* A seeded slip: digits that do not fit the scale are cut off.
RescaleCutting(mantissa, exponent, scale) ==
  LET shift == exponent + scale
      factor == CheckedPow(IF shift >= 0 THEN shift ELSE -shift)
  IN  IF ~IsSome(factor) THEN None
      ELSE IF shift >= 0 THEN CheckedMul(mantissa, Get(factor))
      ELSE Some(TruncDiv(mantissa, Get(factor)))

\* mantissa * Radix^exponent as an integer of the given scale, exactly or not
\* at all.  Where the sum overflows i32, wrapped or not, checked_pow refuses it.
Rescale(mantissa, exponent, scale) ==
  LET shift == exponent + scale
      factor == CheckedPow(IF shift >= 0 THEN shift ELSE -shift)
  IN  IF ~IsSome(factor) THEN None
      ELSE IF shift >= 0 THEN CheckedMul(mantissa, Get(factor))
      ELSE Narrow(TruncDiv(mantissa, Get(factor)), mantissa % Get(factor) = 0)
=============================================================================
