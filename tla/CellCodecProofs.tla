-------------------------- MODULE CellCodecProofs --------------------------
(***************************************************************************)
(* CellCodec and Numbers, for every radix, integer width and set of cells  *)
(* and values that satisfy the modules' assumptions; the real ones do.     *)
(***************************************************************************)
EXTENDS CellCodec, SetInduction

-----------------------------------------------------------------------------
(* Powers.  Power is a recursive function: that a function satisfies its   *)
(* equation is proved from those that satisfy it up to some exponent.      *)

IsPower(f) == f = [k \in Nat |-> IF k = 0 THEN 1 ELSE Radix * f[k - 1]]
PowerUpTo(n, f) == f[0] = 1 /\ \A k \in 1 .. n : f[k] = Radix * f[k - 1]

LEMMA PowerApproximated == \A n \in Nat : \E f : PowerUpTo(n, f)
  <1> DEFINE S == {n \in Nat : \E f : PowerUpTo(n, f)}
  <1>1. 0 \in S
    <2> DEFINE f == [k \in {0} |-> 1]
    <2>1. PowerUpTo(0, f)
      BY DEF PowerUpTo
    <2> QED
      BY <2>1
  <1>2. ASSUME NEW n \in Nat, n \in S
        PROVE  n + 1 \in S
    <2>1. PICK f : PowerUpTo(n, f)
      BY <1>2
    <2> DEFINE g == [k \in 0 .. n + 1 |-> IF k = n + 1 THEN Radix * f[n] ELSE f[k]]
    <2>2. g[0] = 1 /\ \A k \in 1 .. n : g[k] = f[k] /\ g[k - 1] = f[k - 1]
      BY <2>1 DEF PowerUpTo
    <2>3. g[n + 1] = Radix * g[n]
      OBVIOUS
    <2> HIDE DEF g
    <2>4. ASSUME NEW k \in 1 .. n + 1
          PROVE  g[k] = Radix * g[k - 1]
      <3>1. CASE k = n + 1
        BY <2>3, <3>1
      <3>2. CASE k # n + 1
        <4>1. k \in 1 .. n
          BY <3>2
        <4> QED
          BY <2>1, <2>2, <4>1 DEF PowerUpTo
      <3> QED
        BY <3>1, <3>2
    <2>5. PowerUpTo(n + 1, g)
      BY <2>2, <2>4 DEF PowerUpTo
    <2> QED
      BY <2>5
  <1> HIDE DEF S
  <1>3. \A n \in Nat : n \in S
    BY <1>1, <1>2, Induction
  <1> QED
    BY <1>3 DEF S

LEMMA PowerUnique ==
  ASSUME NEW n \in Nat, NEW m \in Nat, NEW f, NEW g, PowerUpTo(n, f), PowerUpTo(m, g),
         n <= m
  PROVE  f[n] = g[n]
  <1> DEFINE S == {k \in Nat : k <= n => f[k] = g[k]}
  <1>1. 0 \in S
    BY DEF PowerUpTo
  <1>2. ASSUME NEW k \in Nat, k \in S
        PROVE  k + 1 \in S
    <2>1. SUFFICES ASSUME k + 1 <= n
                   PROVE  f[k + 1] = g[k + 1]
      OBVIOUS
    <2>2. k + 1 \in 1 .. n /\ k + 1 \in 1 .. m /\ (k + 1) - 1 = k
      BY <2>1
    <2>3. f[k + 1] = Radix * f[k] /\ g[k + 1] = Radix * g[k]
      BY <2>2 DEF PowerUpTo
    <2>4. f[k] = g[k]
      BY <1>2, <2>1
    <2> QED
      BY <2>3, <2>4
  <1> HIDE DEF S
  <1>3. \A k \in Nat : k \in S
    BY <1>1, <1>2, Induction
  <1> QED
    BY <1>3 DEF S

LEMMA PowerExists == \E f : IsPower(f)
  <1> DEFINE F(n) == CHOOSE f : PowerUpTo(n, f)
             g == [k \in Nat |-> F(k)[k]]
  <1>1. \A n \in Nat : PowerUpTo(n, F(n))
    BY PowerApproximated
  <1>2. \A k \in Nat : g[k] = F(k)[k]
    OBVIOUS
  <1>3. g = [k \in Nat |-> g[k]]
    OBVIOUS
  <1> HIDE DEF F, g
  <1>4. ASSUME NEW k \in Nat
        PROVE  g[k] = IF k = 0 THEN 1 ELSE Radix * g[k - 1]
    <2>1. CASE k = 0
      BY <1>1, <1>2, <2>1 DEF PowerUpTo
    <2>2. CASE k # 0
      <3>1. k - 1 \in Nat /\ k \in 1 .. k
        BY <2>2
      <3>2. F(k)[k] = Radix * F(k)[k - 1]
        BY <1>1, <3>1 DEF PowerUpTo
      <3>3. F(k - 1)[k - 1] = F(k)[k - 1]
        BY <1>1, <3>1, PowerUnique
      <3> QED
        BY <1>2, <2>2, <3>1, <3>2, <3>3
    <2> QED
      BY <2>1, <2>2
  <1>5. g = [k \in Nat |-> IF k = 0 THEN 1 ELSE Radix * g[k - 1]]
    BY <1>3, <1>4
  <1> QED
    BY <1>5 DEF IsPower

\* The equation the function is defined by.
LEMMA PowerEquation ==
  ASSUME NEW k \in Nat
  PROVE  Power[k] = IF k = 0 THEN 1 ELSE Radix * Power[k - 1]
  <1> DEFINE p == CHOOSE f : IsPower(f)
  <1>1. Power = p
    BY Zenon DEF Power, IsPower
  <1>2. IsPower(p)
    BY PowerExists, Zenon
  <1> HIDE DEF p
  <1>3. p = [n \in Nat |-> IF n = 0 THEN 1 ELSE Radix * p[n - 1]]
    BY <1>2 DEF IsPower
  <1>4. p[k] = IF k = 0 THEN 1 ELSE Radix * p[k - 1]
    BY <1>3
  <1> QED
    BY <1>1, <1>4

LEMMA PowerZero == Power[0] = 1
  BY PowerEquation

LEMMA PowerNext ==
  ASSUME NEW k \in Nat
  PROVE  Power[k + 1] = Radix * Power[k]
  <1>1. k + 1 \in Nat /\ k + 1 # 0 /\ (k + 1) - 1 = k
    OBVIOUS
  <1> QED
    BY <1>1, PowerEquation

LEMMA PowerType ==
  ASSUME NEW k \in Nat
  PROVE  Power[k] \in Nat /\ Power[k] > 0
  <1> DEFINE S == {n \in Nat : Power[n] \in Nat /\ Power[n] > 0}
  <1>1. 0 \in S
    BY PowerZero
  <1>2. ASSUME NEW n \in Nat, n \in S
        PROVE  n + 1 \in S
    <2> DEFINE p == Power[n]
    <2>1. Power[n + 1] = Radix * p /\ p \in Nat /\ p > 0 /\ Radix \in Nat /\ Radix > 0
      BY <1>2, PowerNext, NumbersAssumption
    <2> HIDE DEF p
    <2>2. Radix * p \in Nat /\ Radix * p > 0
      BY <2>1
    <2> QED
      BY <2>1, <2>2
  <1> HIDE DEF S
  <1>3. \A n \in Nat : n \in S
    BY <1>1, <1>2, Induction
  <1> QED
    BY <1>3 DEF S

LEMMA PowerSum ==
  ASSUME NEW j \in Nat, NEW k \in Nat
  PROVE  Power[j + k] = Power[j] * Power[k]
  <1> DEFINE S == {n \in Nat : Power[j + n] = Power[j] * Power[n]}
             p == Power[j]
  <1>0. p \in Nat /\ Radix \in Nat
    BY PowerType, NumbersAssumption
  <1>1. 0 \in S
    BY <1>0, PowerZero
  <1>2. ASSUME NEW n \in Nat, n \in S
        PROVE  n + 1 \in S
    <2> DEFINE q == Power[n]
    <2>1. q \in Nat /\ Power[j + n] = p * q
      BY <1>2, PowerType
    <2>2. Power[n + 1] = Radix * q
      BY PowerNext
    <2>3. Power[(j + n) + 1] = Radix * Power[j + n] /\ (j + n) + 1 = j + (n + 1)
      BY PowerNext
    <2> HIDE DEF p, q
    <2>4. Radix * (p * q) = p * (Radix * q)
      BY <1>0, <2>1
    <2>5. Power[j + (n + 1)] = p * Power[n + 1]
      BY <2>1, <2>2, <2>3, <2>4
    <2> QED
      BY <2>5 DEF p
  <1> HIDE DEF S
  <1>3. \A n \in Nat : n \in S
    BY <1>1, <1>2, Induction
  <1> QED
    BY <1>3 DEF S

LEMMA PowerGrows ==
  ASSUME NEW j \in Nat, NEW k \in Nat, j <= k
  PROVE  Power[j] <= Power[k]
  <1> DEFINE p == Power[j]
             q == Power[k - j]
  <1>1. k - j \in Nat /\ j + (k - j) = k
    OBVIOUS
  <1>2. Power[j + (k - j)] = p * q /\ p \in Nat /\ q \in Nat /\ q > 0
    BY <1>1, PowerSum, PowerType
  <1> HIDE DEF p, q
  <1>3. p * q >= p
    BY <1>2
  <1> QED
    BY <1>1, <1>2, <1>3 DEF p

-----------------------------------------------------------------------------
(* Quotients.                                                              *)

LEMMA DivMod ==
  ASSUME NEW a \in Int, NEW b \in Nat, b > 0
  PROVE  /\ a \div b \in Int /\ a % b \in 0 .. b - 1
         /\ a = b * (a \div b) + (a % b)
  OBVIOUS

LEMMA DivModUnique ==
  ASSUME NEW b \in Nat, b > 0, NEW q \in Int, NEW r \in 0 .. b - 1
  PROVE  (b * q + r) \div b = q /\ (b * q + r) % b = r
  <1> DEFINE a == b * q + r
             d == a \div b
             m == a % b
  <1>1. a \in Int
    OBVIOUS
  <1>2. d \in Int /\ m \in 0 .. b - 1 /\ a = b * d + m
    BY <1>1, DivMod
  <1>3. b * q + r = b * d + m
    BY <1>2
  <1> HIDE DEF d, m
  <1>4. d = q
    <2>1. b * (q - d) = m - r
      BY <1>2, <1>3
    <2>2. -b < m - r /\ m - r < b
      BY <1>2
    <2>3. ~(q - d >= 1) /\ ~(q - d <= -1)
      BY <1>2, <2>1, <2>2
    <2> QED
      BY <1>2, <2>3
  <1>5. m = r
    BY <1>2, <1>3, <1>4
  <1> QED
    BY <1>4, <1>5 DEF d, m

\* Rust's division of a multiple.
LEMMA TruncDivExact ==
  ASSUME NEW n \in Int, NEW b \in Nat, b > 0
  PROVE  /\ (n * b) \div b = n /\ (n * b) % b = 0
         /\ TruncDiv(n * b, b) = n
  <1>1. n * b = b * n + 0 /\ -(n * b) = b * (-n) + 0 /\ -n \in Int /\ 0 \in 0 .. b - 1
    OBVIOUS
  <1>2. (n * b) \div b = n /\ (n * b) % b = 0 /\ (-(n * b)) \div b = -n
    BY <1>1, DivModUnique
  <1> QED
    BY <1>2 DEF TruncDiv

LEMMA TruncDivMultiple ==
  ASSUME NEW m \in Int, NEW b \in Nat, b > 0, m % b = 0
  PROVE  /\ m \div b \in Int /\ m = (m \div b) * b
         /\ TruncDiv(m, b) = m \div b
  <1> DEFINE d == m \div b
  <1>1. d \in Int /\ m = b * d + 0
    BY DivMod
  <1> HIDE DEF d
  <1>2. m = d * b
    BY <1>1
  <1>3. TruncDiv(m, b) = d
    BY <1>1, <1>2, TruncDivExact
  <1> QED
    BY <1>1, <1>2, <1>3 DEF d

-----------------------------------------------------------------------------
(* Options, bignums, decimal fractions.                                    *)

LEMMA Options ==
  /\ ~IsSome(None)
  /\ \A x : IsSome(Some(x)) /\ Get(Some(x)) = x
  /\ \A x, y : Some(x) = Some(y) => x = y
  BY DEF IsSome, None, Some, Get

LEMMA NarrowIs ==
  ASSUME NEW n, NEW P \in BOOLEAN
  PROVE  /\ P => Narrow(n, P) = Some(n)
         /\ ~P => Narrow(n, P) = None
         /\ IsSome(Narrow(n, P)) => P /\ Narrow(n, P) = Some(n)
  BY Options DEF Narrow

LEMMA Widths ==
  /\ I64 \in Nat /\ I64 > 0 /\ I32 \in Nat /\ I32 > 0 /\ I128 \in Nat /\ Sec34 \in Nat
  /\ 2 * I32 <= Sec34 /\ Sec34 < I64 /\ 2 * I64 <= I128
  /\ UnitDigits \in Nat /\ Radix \in Nat /\ Radix > 1
  BY NumbersAssumption, ValuesAssumption

\* What to_value writes, from_value reads.
LEMMA BigRoundTrip ==
  ASSUME NEW n \in Int, InI128(n)
  PROVE  BigFromValue(BigToValue(n)) = Some(n)
  <1> DEFINE v == BigToValue(n)
  <1>1. CASE IsNative(n)
    <2>1. v = Int_(n)
      BY <1>1 DEF BigToValue
    <2> HIDE DEF v
    <2> QED
      BY <2>1 DEF BigFromValue, Is, Int_, v
  <1>2. CASE ~IsNative(n)
    <2> DEFINE m == IF n >= 0 THEN n ELSE -1 - n
               t == IF n >= 0 THEN 2 ELSE 3
    <2>1. v = Tag(t, Bytes(TrimBE(m)))
      BY <1>2 DEF BigToValue
    <2>2. m \in Nat /\ m < I128 /\ InU128(m) /\ n = IF t = 2 THEN m ELSE -1 - m
      BY Widths DEF InI128, InU128
    <2>3. t \in {2, 3}
      OBVIOUS
    <2> HIDE DEF v, m, t
    <2>4. v.kind = "tag" /\ v.tag = t /\ v.inner = Bytes(TrimBE(m))
      BY <2>1 DEF Tag
    <2>5. v.inner.kind = "bytes" /\ v.inner.bytes.magnitude = m
      BY <2>4 DEF Bytes, TrimBE, Digits
    <2>6. BEToU128(v.inner.bytes) = Some(m)
      BY <2>2, <2>5 DEF BEToU128, Narrow
    <2>7. IsSome(Some(m)) /\ Get(Some(m)) = m
      BY Options
    <2> QED
      BY <2>2, <2>3, <2>4, <2>5, <2>6, <2>7 DEF BigFromValue, Is, IsTag, v
  <1> QED
    BY <1>1, <1>2

\* So does decimal_parts what a cell was written as, tagged or not.
LEMMA DecimalRoundTrip ==
  ASSUME NEW e \in Int, InI32(e), NEW m \in Int, InI128(m)
  PROVE  /\ DecimalParts(DecimalFraction(e, m)) = Some(<<m, e>>)
         /\ DecimalParts(Array(<<Int_(e), BigToValue(m)>>)) = Some(<<m, e>>)
  <1> DEFINE a == Array(<<Int_(e), BigToValue(m)>>)
             d == DecimalFraction(e, m)
  <1>1. BigFromValue(Int_(e)) = Some(e) /\ BigFromValue(BigToValue(m)) = Some(m)
    BY BigRoundTrip DEF BigFromValue, Is, Int_
  <1>2. a.kind = "array" /\ Len(a.items) = 2 /\ a.items[1] = Int_(e) /\ a.items[2] = BigToValue(m)
    BY DEF Array
  <1>3. d.kind = "tag" /\ d.tag = 4 /\ d.inner = a
    BY DEF DecimalFraction, Tag
  <1> HIDE DEF a, d
  <1>4. ASSUME NEW v, v = a \/ v = d
        PROVE  DecimalParts(v) = Some(<<m, e>>)
    <2> DEFINE w == IF IsTag(v, 4) THEN v.inner ELSE v
    <2>1. w = a
      BY <1>2, <1>3, <1>4 DEF IsTag
    <2> HIDE DEF w
    <2>2. /\ Is(w, "array") /\ Len(w.items) = 2
          /\ BigFromValue(w.items[1]) = Some(e) /\ BigFromValue(w.items[2]) = Some(m)
      BY <1>1, <1>2, <2>1 DEF Is
    <2> QED
      BY <2>2, Options DEF DecimalParts, w
  <1> QED
    BY <1>4 DEF a, d

\* Rescaling to more digits, and to fewer.
LEMMA RescaleUp ==
  ASSUME NEW m \in Int, NEW e \in Int, NEW s \in Int, e + s >= 0
  PROVE  Rescale(m, e, s) =
           IF Power[e + s] < I128 /\ InI128(m * Power[e + s]) THEN Some(m * Power[e + s]) ELSE None
  <1> DEFINE k == e + s
             p == Power[k]
  <1>1. k \in Nat /\ (IF k >= 0 THEN k ELSE -k) = k
    OBVIOUS
  <1> HIDE DEF k, p
  <1>2. CheckedPow(IF k >= 0 THEN k ELSE -k) = IF p < I128 THEN Some(p) ELSE None
    BY <1>1 DEF CheckedPow, Narrow, p
  <1>3. CheckedMul(m, p) = IF InI128(m * p) THEN Some(m * p) ELSE None
    BY DEF CheckedMul, Narrow
  <1>4. Rescale(m, e, s) = IF p < I128 THEN CheckedMul(m, p) ELSE None
    BY <1>1, <1>2, Options DEF Rescale, k
  <1> QED
    BY <1>3, <1>4 DEF p, k

LEMMA RescaleDown ==
  ASSUME NEW m \in Int, NEW e \in Int, NEW s \in Int, e + s < 0
  PROVE  Rescale(m, e, s) =
           IF Power[-(e + s)] < I128 /\ m % Power[-(e + s)] = 0
           THEN Some(TruncDiv(m, Power[-(e + s)])) ELSE None
  <1> DEFINE k == e + s
             p == Power[-k]
  <1>1. k \in Int /\ ~(k >= 0)
    OBVIOUS
  <1> HIDE DEF k, p
  <1>2. CheckedPow(IF k >= 0 THEN k ELSE -k) = IF p < I128 THEN Some(p) ELSE None
    BY <1>1 DEF CheckedPow, Narrow, p
  <1>4. Rescale(m, e, s) = IF p < I128 THEN Narrow(TruncDiv(m, p), m % p = 0) ELSE None
    BY <1>1, <1>2, Options DEF Rescale, k
  <1> QED
    BY <1>4 DEF p, k, Narrow

-----------------------------------------------------------------------------
(* The trip of a cell: what COPY TO writes is what COPY FROM reads.        *)

Written(w, v) == IF w = "msgpack" THEN CborToMp(v) ELSE v
ReadBack(w, m) == IF w = "msgpack" THEN MpToCbor(m) ELSE m
Trip(w, v) == ReadBack(w, Written(w, v))

\* An integer of 64 bits has a MessagePack form, a date loses its tag.
LEMMA IntBridge ==
  ASSUME NEW n \in Int, InI64(n) \/ InU64(n)
  PROVE  /\ MpToCbor(CborToMp(Int_(n))) = Int_(n)
         /\ MpToCbor(CborToMp(Tag(100, Int_(n)))) = Int_(n)
  <1> DEFINE x == Int_(n)
             d == Tag(100, x)
  <1>1. x.kind = "int" /\ x.n = n /\ d.kind = "tag" /\ d.tag = 100 /\ d.inner = x
    BY DEF Int_, Tag
  <1> HIDE DEF x, d
  <1>2. MpScalar(x) = x
    BY <1>1 DEF MpScalar, Is, IsTag
  <1>3. Content(Content(x)) = x /\ Content(Content(d)) = x
    BY <1>1 DEF Content, Is, IsTag
  <1>4. CborToMp(x) = x /\ CborToMp(d) = x
    BY <1>1, <1>2, <1>3 DEF CborToMp, Is, IsTag
  <1>5. MpToCbor(x) = x
    BY <1>1 DEF MpToCbor, CborScalar, Is
  <1> QED
    BY <1>4, <1>5 DEF x, d

LEMMA IntTrip ==
  ASSUME NEW w, NEW n \in Int, InI64(n) \/ InU64(n)
  PROVE  /\ Trip(w, Int_(n)) = Int_(n)
         /\ Trip(w, Tag(100, Int_(n))) \in {Int_(n), Tag(100, Int_(n))}
  BY IntBridge DEF Trip, Written, ReadBack

\* as_i128 reads it, under the tag of a date or without.
LEMMA IntRead ==
  ASSUME NEW n
  PROVE  AsI128(Int_(n)) = Some(n) /\ AsI128(Tag(100, Int_(n))) = Some(n)
  <1> DEFINE x == Int_(n)
             d == Tag(100, x)
  <1>1. x.kind = "int" /\ x.n = n /\ d.kind = "tag" /\ d.inner = x
    BY DEF Int_, Tag
  <1> HIDE DEF x, d
  <1>2. Untag(x) = x /\ Untag(d) = x
    BY <1>1 DEF Untag, Is
  <1> QED
    BY <1>1, <1>2 DEF AsI128, Is, x, d

LEMMA IntegerCell ==
  ASSUME NEW w, NEW c, IsColumn(c), c.type \in {"SIGNED", "UNSIGNED"},
         NEW raw \in Int, InColumn(c, raw)
  PROVE  BuildCell(c, Trip(w, ValueAt(c, raw))) = Some(raw)
  <1>1. c.arg \in 1 .. I64 /\ FitsInt(c, raw)
    BY DEF IsColumn, InColumn, FitsInt
  <1>2. InI64(raw) \/ InU64(raw)
    BY <1>1, Widths DEF FitsInt, InI64, InU64
  <1>3. ValueAt(c, raw) = Int_(raw)
    BY DEF ValueAt
  <1>4. Trip(w, ValueAt(c, raw)) = Int_(raw)
    BY <1>2, <1>3, IntTrip
  <1>5. BuildCell(c, Int_(raw)) = Narrow(raw, FitsInt(c, raw))
    BY IntRead, Options DEF BuildCell
  <1> QED
    BY <1>1, <1>4, <1>5 DEF Narrow

LEMMA WrapKeeps ==
  ASSUME NEW n \in Int, InI64(n)
  PROVE  WrapI64(n) = n
  <1> DEFINE b == 2 * I64
             r == n + I64
  <1>1. b \in Nat /\ b > 0 /\ r \in 0 .. b - 1 /\ 0 \in Int
    BY Widths DEF InI64
  <1>2. WrapI64(n) = (r % b) - I64 /\ r - I64 = n
    BY Widths DEF WrapI64
  <1> HIDE DEF b, r
  <1>3. b * 0 + r = r
    BY <1>1
  <1>4. (b * 0 + r) % b = r
    BY <1>1, DivModUnique
  <1> QED
    BY <1>2, <1>3, <1>4

LEMMA DateCell ==
  ASSUME NEW w, NEW c, c.type = "DATE", NEW raw \in Int, InColumn(c, raw)
  PROVE  BuildCell(c, Trip(w, ValueAt(c, raw))) = Some(raw)
  <1>1. InI32(raw) /\ InI64(raw)
    BY Widths DEF InColumn, InI32, InI64
  <1>2. ValueAt(c, raw) = Tag(100, Int_(raw))
    BY DEF ValueAt
  <1>3. PICK v \in {Int_(raw), Tag(100, Int_(raw))} : v = Trip(w, ValueAt(c, raw))
    BY <1>1, <1>2, IntTrip
  <1>4. AsI128(v) = Some(raw) /\ ~IsTag(v, 1)
    <2>1. CASE v = Int_(raw)
      BY <2>1, IntRead DEF IsTag, Int_
    <2>2. CASE v = Tag(100, Int_(raw))
      BY <2>2, IntRead DEF IsTag, Tag
    <2> QED
      BY <2>1, <2>2
  <1>5. BuildCell(c, v) = DateAt(v)
    BY DEF BuildCell
  <1>6. DateAt(v) = Narrow(raw, InI32(raw))
    BY <1>1, <1>4, WrapKeeps, Options DEF DateAt
  <1> QED
    BY <1>1, <1>3, <1>5, <1>6 DEF Narrow

\* A TIME of seconds, milliseconds or microseconds.
LEMMA TimeCell ==
  ASSUME NEW w, NEW c, IsColumn(c), c.type = "TIME", c.arg # 3,
         NEW raw \in Int, InColumn(c, raw)
  PROVE  BuildCell(c, Trip(w, ValueAt(c, raw))) = Some(raw)
  <1> DEFINE u == Unit(c)
             k == 2 * UnitDigits - u
             p == Power[k]
             us == raw * p
  <1>1. c.arg \in 0 .. 2 /\ u \in Nat /\ k \in Nat /\ u + k = 2 * UnitDigits
    <2>1. c.arg \in 0 .. 2
      BY DEF IsColumn
    <2>2. u = c.arg * UnitDigits
      BY DEF Unit
    <2> HIDE DEF u
    <2>3. u = 0 \/ u = UnitDigits \/ u = 2 * UnitDigits
      BY <2>1, <2>2, Widths
    <2> QED
      BY <2>1, <2>3, Widths
  <1>2. p \in Nat /\ p > 0 /\ Power[u] \in Nat
    BY <1>1, PowerType
  <1>3. raw \in Nat /\ raw <= SecsPerDay * Power[u] /\ SecsPerDay \in Nat
    BY CellCodecAssumption DEF InColumn, DayOf, PerSec
  <1>4. us \in Nat /\ us < I64
    <2> DEFINE q == Power[u]
               m == SecsPerDay * q
    <2>1. Power[2 * UnitDigits] = q * p
      BY <1>1, PowerSum
    <2>2. SecsPerDay * (q * p) < I64
      BY <2>1, CellCodecAssumption
    <2> HIDE DEF p, q, u, k
    <2>3. raw * p <= m * p
      <3> HIDE DEF m
      <3>1. m \in Nat /\ raw <= m
        BY <1>2, <1>3 DEF m, q
      <3> QED
        BY <1>2, <1>3, <3>1
    <2>4. m * p = SecsPerDay * (q * p)
      BY <1>2, <1>3 DEF q
    <2>5. raw * p \in Nat /\ m * p \in Nat
      BY <1>2, <1>3 DEF q
    <2> HIDE DEF m
    <2> QED
      BY <2>2, <2>3, <2>4, <2>5, Widths
  <1>5. c.arg < 2 => InI32(raw)
    <2>1. SUFFICES ASSUME c.arg < 2
                   PROVE  InI32(raw)
      OBVIOUS
    <2>2. u <= UnitDigits
      BY <2>1, <1>1, Widths DEF Unit
    <2>3. Power[u] <= Power[UnitDigits] /\ Power[UnitDigits] \in Nat
      BY <1>1, <2>2, Widths, PowerGrows, PowerType
    <2>4. SecsPerDay * Power[u] <= SecsPerDay * Power[UnitDigits]
      BY <1>2, <1>3, <2>3
    <2>5. SecsPerDay * Power[UnitDigits] < I32
      BY CellCodecAssumption
    <2> QED
      BY <1>2, <1>3, <2>3, <2>4, <2>5, Widths DEF InI32
  <1>6. ValueAt(c, raw) = Int_(us)
    BY <1>1 DEF ValueAt, Micros
  <1>7. Trip(w, ValueAt(c, raw)) = Int_(us)
    <2>1. us \in Int /\ InI64(us)
      BY <1>4, Widths DEF InI64
    <2> HIDE DEF us
    <2> QED
      BY <1>6, <2>1, IntTrip
  <1>8. BuildCell(c, Int_(us)) = TimeAt(c, Int_(us))
    BY DEF BuildCell
  <1>9. TruncDiv(us, p) = raw
    <2> HIDE DEF p
    <2> QED
      BY <1>2, TruncDivExact
  <1>10. InI64(us) /\ InI64(raw)
    <2> HIDE DEF p
    <2>1. us >= raw
      BY <1>2, <1>3
    <2> QED
      BY <1>3, <1>4, <2>1, Widths DEF InI64
  <1> HIDE DEF us, p
  <1>11. TimeAt(c, Int_(us)) = Some(raw)
    <2>1. AsI128(Int_(us)) = Some(us)
      BY IntRead
    <2>2. TimeAt(c, Int_(us)) =
            Narrow(raw, IF c.arg < 2 THEN InI32(raw) ELSE InI64(us) /\ InI64(raw))
      BY <1>1, <1>9, <2>1, Options DEF TimeAt, p
    <2> QED
      BY <1>5, <1>10, <2>2 DEF Narrow
  <1> QED
    BY <1>7, <1>8, <1>11

\* The mantissas MessagePack has no integer for.
Between(n) == -(2 * I64) <= n /\ n < -I64

LEMMA BigBridge ==
  ASSUME NEW n \in Int, InI128(n), ~Between(n)
  PROVE  CborScalar(MpScalar(BigToValue(n))) = BigToValue(n)
  <1> DEFINE v == BigToValue(n)
  <1>1. CASE IsNative(n)
    <2>1. InI64(n) \/ InU64(n)
      BY <1>1, Widths DEF IsNative, InI64, InU64, Between
    <2>2. v.kind = "int" /\ v.n = n
      BY <1>1 DEF BigToValue, Int_
    <2> HIDE DEF v
    <2>3. MpScalar(v) = v
      BY <2>1, <2>2 DEF MpScalar, Is, IsTag
    <2>4. CborScalar(v) = v
      BY <2>2 DEF CborScalar, Is
    <2> QED
      BY <2>3, <2>4 DEF v
  <1>2. CASE ~IsNative(n)
    <2>1. PICK t, b : t \in {2, 3} /\ v = Tag(t, Bytes(b))
      BY <1>2 DEF BigToValue
    <2> DEFINE m == Ext(t, b)
    <2>2. v.kind = "tag" /\ v.tag = t /\ v.inner = Bytes(b)
      BY <2>1 DEF Tag
    <2>3. v.inner.bytes = b
      BY <2>2 DEF Bytes
    <2>4. m.kind = "ext" /\ m.type = t /\ m.payload = b
      BY DEF Ext
    <2> HIDE DEF v, m
    <2>5. MpScalar(v) = m
      BY <2>1, <2>2, <2>3 DEF MpScalar, Is, IsTag, m
    <2>6. CborScalar(m) = v
      BY <2>1, <2>4 DEF CborScalar, Is
    <2> QED
      BY <2>5, <2>6 DEF v
  <1> QED
    BY <1>1, <1>2

LEMMA FractionBridge ==
  ASSUME NEW e \in Int, InI64(e), NEW m \in Int, InI128(m), ~Between(m)
  PROVE  MpToCbor(CborToMp(DecimalFraction(e, m))) = Array(<<Int_(e), BigToValue(m)>>)
  <1> DEFINE x == Int_(e)
             y == BigToValue(m)
             a == Array(<<x, y>>)
             d == DecimalFraction(e, m)
             f == [i \in DOMAIN a.items |-> MpScalar(a.items[i])]
             b == Array(f)
             g == [i \in DOMAIN b.items |-> CborScalar(b.items[i])]
  <1>1. CborScalar(MpScalar(x)) = x /\ CborScalar(MpScalar(y)) = y
    <2>1. x.kind = "int" /\ x.n = e
      BY DEF Int_
    <2> HIDE DEF x
    <2>2. MpScalar(x) = x
      BY <2>1 DEF MpScalar, Is, IsTag
    <2>3. CborScalar(x) = x
      BY <2>1 DEF CborScalar, Is
    <2> QED
      BY <2>2, <2>3, BigBridge
  <1>2. d.kind = "tag" /\ d.tag = 4 /\ d.inner = a
    BY DEF DecimalFraction, Tag
  <1>3. a.kind = "array" /\ a.items = <<x, y>>
    BY DEF Array
  <1>4. b.kind = "array" /\ b.items = f
    BY DEF Array
  <1> HIDE DEF x, y, a, b, d
  <1>5. DOMAIN f = 1 .. 2 /\ f[1] = MpScalar(x) /\ f[2] = MpScalar(y)
    BY <1>3
  <1> HIDE DEF f
  <1>6. g = <<x, y>>
    BY <1>1, <1>4, <1>5
  <1> HIDE DEF g
  <1>7. Content(Content(d)) = a
    BY <1>2, <1>3 DEF Content, Is, IsTag
  <1>8. CborToMp(d) = b
    BY <1>2, <1>3, <1>7 DEF CborToMp, Is, IsTag, b, f
  <1>9. MpToCbor(b) = Array(<<x, y>>)
    BY <1>4, <1>6 DEF MpToCbor, Is, g
  <1> QED
    BY <1>8, <1>9 DEF x, y, d

LEMMA DecimalCell ==
  ASSUME NEW w, NEW c, IsColumn(c), c.type = "DECIMAL",
         NEW raw \in Int, InColumn(c, raw), w = "msgpack" => ~Between(raw)
  PROVE  BuildCell(c, Trip(w, ValueAt(c, raw))) = Some(raw)
  <1> DEFINE e == -c.arg
             v == Trip(w, ValueAt(c, raw))
  <1>1. c.arg \in Nat /\ c.arg <= I32 /\ e \in Int /\ e + c.arg = 0 /\ InI32(e) /\ InI64(e)
    BY Widths DEF IsColumn, InI32, InI64
  <1>2. InI128(raw)
    <2>1. Power[c.digits] \in Nat /\ Power[c.digits] <= I128
      BY PowerType DEF IsColumn
    <2>2. -Power[c.digits] < raw /\ raw < Power[c.digits]
      BY DEF InColumn
    <2> QED
      BY <2>1, <2>2, Widths DEF InI128
  <1>3. ValueAt(c, raw) = DecimalFraction(e, raw)
    BY DEF ValueAt
  <1> HIDE DEF e
  <1>4. v \in {DecimalFraction(e, raw), Array(<<Int_(e), BigToValue(raw)>>)}
    BY <1>1, <1>2, <1>3, FractionBridge DEF Trip, Written, ReadBack
  <1> HIDE DEF v
  <1>5. DecimalParts(v) = Some(<<raw, e>>)
    BY <1>1, <1>2, <1>4, DecimalRoundTrip
  <1>6. Rescale(raw, e, c.arg) = Some(raw)
    <2>1. e + c.arg >= 0 /\ Power[e + c.arg] = 1 /\ raw * 1 = raw /\ 1 < I128
      BY <1>1, PowerZero, Widths
    <2> QED
      BY <1>1, <1>2, <2>1, RescaleUp
  <1>7. BuildCell(c, v) = Rescale(raw, e, c.arg)
    BY <1>5, Options DEF BuildCell, DecimalAt
  <1> QED
    BY <1>6, <1>7 DEF v

-----------------------------------------------------------------------------
(* Instants.                                                               *)

LEMMA Second ==
  /\ Nanos \in Nat /\ Nanos > 0 /\ I64 * Nanos <= I128 /\ I64 * Nanos \in Nat /\ Nanos < I128
  /\ 3 * UnitDigits \in Nat /\ InI32(-(3 * UnitDigits)) /\ InI64(-(3 * UnitDigits))
  <1>1. 3 * UnitDigits \in Nat /\ 3 * UnitDigits <= I32
    BY NumbersAssumption
  <1>2. Nanos \in Nat /\ Nanos > 0
    BY <1>1, PowerType DEF Nanos
  <1>3. I64 * Nanos <= I128
    BY NumbersAssumption
  <1> DEFINE n == Nanos
  <1>4. I64 * n >= 2 * n /\ I64 * n \in Nat
    BY <1>2, Widths
  <1> QED
    BY <1>1, <1>2, <1>3, <1>4, Widths DEF InI32, InI64

\* A unit of time divides the second.
LEMMA UnitsOfSecond ==
  ASSUME NEW u \in Nat, u <= 3 * UnitDigits
  PROVE  LET k == 3 * UnitDigits - u
         IN  /\ k \in Nat /\ Power[u] * Power[k] = Nanos
             /\ Power[u] \in Nat /\ Power[u] > 0 /\ Power[u] < I128
             /\ Power[k] \in Nat /\ Power[k] > 0 /\ Power[k] < I128
             /\ I64 * Power[k] <= I128
  <1> DEFINE k == 3 * UnitDigits - u
             p == Power[u]
             q == Power[k]
             n == Nanos
  <1>1. k \in Nat /\ u + k = 3 * UnitDigits
    BY Widths
  <1>2. p \in Nat /\ p > 0 /\ q \in Nat /\ q > 0
    BY <1>1, PowerType
  <1>3. p * q = n
    BY <1>1, PowerSum DEF Nanos
  <1> HIDE DEF p, q, k, n
  <1>4. p <= n /\ q <= n
    BY <1>2, <1>3
  <1>5. n \in Nat /\ n < I128 /\ I64 * n <= I128
    BY Second DEF n
  <1>6. I64 * q <= I64 * n /\ I64 * q \in Nat /\ I64 * n \in Nat
    BY <1>2, <1>4, <1>5, Widths
  <1>7. I64 * q <= I128
    BY <1>5, <1>6, Widths
  <1>8. p < I128 /\ q < I128
    BY <1>2, <1>4, <1>5, Widths
  <1> QED
    BY <1>1, <1>2, <1>3, <1>7, <1>8 DEF p, q, k, n

\* Every layout of the timestamp ext is read as it was written.
LEMMA TimestampLayouts ==
  ASSUME NEW s \in Int, NEW n \in 0 .. Nanos - 1
  PROVE  DecodeTimestamp(EncodeTimestamp(s, n)) = <<s, n>>
  <1> DEFINE p == EncodeTimestamp(s, n)
  <1>1. n \in Nat /\ Sec34 \in Nat /\ Sec34 > 0
    BY Second, Widths
  <1>2. CASE n = 0 /\ 0 <= s /\ s < 2 * I32
    <2>1. p.len = 4 /\ p.secs = s
      BY <1>2 DEF EncodeTimestamp
    <2> HIDE DEF p
    <2> QED
      BY <1>2, <2>1 DEF DecodeTimestamp, p
  <1>3. CASE ~(n = 0 /\ 0 <= s /\ s < 2 * I32) /\ 0 <= s /\ s < Sec34
    <2>1. p.len = 8 /\ p.packed = n * Sec34 + s
      BY <1>3 DEF EncodeTimestamp
    <2>2. s \in 0 .. Sec34 - 1 /\ n * Sec34 + s = Sec34 * n + s
      BY <1>1, <1>3
    <2>3. p.packed % Sec34 = s /\ p.packed \div Sec34 = n
      BY <1>1, <2>1, <2>2, DivModUnique
    <2> HIDE DEF p
    <2> QED
      BY <2>1, <2>3 DEF DecodeTimestamp, p
  <1>4. CASE ~(n = 0 /\ 0 <= s /\ s < 2 * I32) /\ ~(0 <= s /\ s < Sec34)
    <2>1. p.len = 12 /\ p.secs = s /\ p.nanos = n
      BY <1>4 DEF EncodeTimestamp
    <2> HIDE DEF p
    <2> QED
      BY <2>1 DEF DecodeTimestamp, p
  <1> QED
    BY <1>2, <1>3, <1>4

\* What the bridge makes of an instant it can split into seconds and nanoseconds.
LEMMA InstantBridge ==
  ASSUME NEW v, NEW s \in Int, NEW n \in 0 .. Nanos - 1, InstantParts(v) = Some(<<s, n>>)
  PROVE  MpToCbor(CborToMp(Tag(1, v))) = CborInstant(s, n)
  <1> DEFINE t == Tag(1, v)
             p == EncodeTimestamp(s, n)
             m == Ext(-1, p)
  <1>1. t.kind = "tag" /\ t.tag = 1 /\ t.inner = v
    BY DEF Tag
  <1>2. m.kind = "ext" /\ m.type = -1 /\ m.payload = p
    BY DEF Ext
  <1>3. DecodeTimestamp(p) = <<s, n>>
    BY TimestampLayouts
  <1> HIDE DEF t, p, m
  <1>4. CborToMp(t) = m
    BY <1>1, Options DEF CborToMp, IsTag, m, p
  <1>5. MpToCbor(m) = CborInstant(s, n)
    BY <1>2, <1>3 DEF MpToCbor, Is
  <1> QED
    BY <1>4, <1>5 DEF t

LEMMA NoFraction ==
  ASSUME NEW n
  PROVE  DecimalParts(Int_(n)) = None /\ BigFromValue(Int_(n)) = Some(n)
  <1> DEFINE x == Int_(n)
  <1>1. x.kind = "int" /\ x.n = n
    BY DEF Int_
  <1> HIDE DEF x
  <1>2. DecimalParts(x) = None /\ BigFromValue(x) = Some(n)
    BY <1>1 DEF DecimalParts, BigFromValue, Is, IsTag
  <1> QED
    BY <1>2 DEF x

LEMMA WholeSecondsBridge ==
  ASSUME NEW s \in Int, InI64(s)
  PROVE  MpToCbor(CborToMp(Tag(1, Int_(s)))) = Tag(1, Int_(s))
  <1>1. InstantParts(Int_(s)) = Some(<<s, 0>>)
    BY NoFraction, Options DEF InstantParts, Is, Int_, Narrow
  <1>2. 0 \in 0 .. Nanos - 1
    BY Second
  <1>3. MpToCbor(CborToMp(Tag(1, Int_(s)))) = CborInstant(s, 0)
    BY <1>1, <1>2, InstantBridge
  <1> QED
    BY <1>3 DEF CborInstant

\* A fraction not finer than a nanosecond comes back in nanoseconds.
LEMMA FractionInstantBridge ==
  ASSUME NEW u \in Nat, u <= 3 * UnitDigits, NEW m \in Int, InI128(m),
         NEW s \in Int, InI64(s), NEW n \in 1 .. Nanos - 1,
         m * Power[3 * UnitDigits - u] = s * Nanos + n
  PROVE  MpToCbor(CborToMp(Tag(1, DecimalFraction(-u, m)))) =
           Tag(1, DecimalFraction(-(3 * UnitDigits), s * Nanos + n))
  <1> DEFINE k == 3 * UnitDigits - u
             q == Power[k]
             b == Nanos
             total == s * b + n
             d == DecimalFraction(-u, m)
  <1>1. k \in Nat /\ q < I128 /\ q \in Nat
    BY UnitsOfSecond
  <1>2. b \in Nat /\ b > 0 /\ I64 * b <= I128 /\ I64 * b \in Nat
    BY Second
  <1>3. m * q = total
    OBVIOUS
  <1>4. n \in 0 .. b - 1 /\ n # 0
    BY <1>2
  <1>5. DecimalParts(d) = Some(<<m, -u>>)
    <2>1. -u \in Int /\ InI32(-u)
      BY Second, Widths DEF InI32
    <2> QED
      BY <2>1, DecimalRoundTrip
  <1>6. -u + 3 * UnitDigits = k /\ k >= 0
    BY Widths, <1>1
  <1> HIDE DEF b, q, k, d
  <1>7. total \in Int /\ InI128(total)
    <2>1. s * b >= (-I64) * b /\ s * b <= (I64 - 1) * b
      BY <1>2, Widths DEF InI64
    <2>2. (-I64) * b = -(I64 * b) /\ (I64 - 1) * b = I64 * b - b
      BY <1>2, Widths
    <2> DEFINE x == s * b
               y == I64 * b
    <2>3. x \in Int /\ y \in Int /\ x >= -y /\ x <= y - b /\ y <= I128
      BY <1>2, <2>1, <2>2
    <2> HIDE DEF x, y
    <2>4. x + n \in Int /\ -I128 <= x + n /\ x + n < I128
      BY <1>2, <1>4, <2>3, Widths
    <2> QED
      BY <2>4 DEF InI128, x
  <1>8. total \div b = s /\ total % b = n
    <2>1. total = b * s + n
      BY <1>2
    <2> HIDE DEF total
    <2> QED
      BY <1>2, <1>4, <2>1, DivModUnique
  <1> HIDE DEF total
  <1>9. CheckedPow(k) = Some(q) /\ CheckedMul(m, q) = Some(total)
    BY <1>1, <1>3, <1>7 DEF CheckedPow, CheckedMul, Narrow, q
  <1>10. InstantParts(d) = Some(<<s, n>>)
    <2>1. IsSome(DecimalParts(d)) /\ Get(DecimalParts(d))[1] = m
          /\ Get(DecimalParts(d))[2] + 3 * UnitDigits = k
      BY <1>5, <1>6, Options
    <2> QED
      BY <1>6, <1>8, <1>9, <2>1, Options DEF InstantParts, b
  <1>11. MpToCbor(CborToMp(Tag(1, d))) = CborInstant(s, n)
    BY <1>4, <1>10, InstantBridge DEF b
  <1> QED
    BY <1>4, <1>11 DEF CborInstant, d

\* timestamp_at of whole seconds and of a fraction.
LEMMA WholeSecondsRead ==
  ASSUME NEW u \in Nat, NEW s \in Int, Power[u] < I128, InI64(s * Power[u])
  PROVE  TimestampAt(u, Tag(1, Int_(s))) = Some(s * Power[u])
  <1> DEFINE p == Power[u]
             t == Tag(1, Int_(s))
             n == s * p
  <1>1. t.kind = "tag" /\ t.tag = 1 /\ t.inner = Int_(s)
    BY DEF Tag
  <1>2. p \in Nat /\ 0 + u = u /\ u >= 0
    BY PowerType
  <1>3. n \in Int /\ InI128(n)
    <2>1. n \in Int
      BY <1>2
    <2>2. InI64(n)
      OBVIOUS
    <2> HIDE DEF n
    <2> QED
      BY <2>1, <2>2, Widths DEF InI64, InI128
  <1> HIDE DEF t
  <1>4. Rescale(s, 0, u) = Some(n)
    BY <1>2, <1>3, RescaleUp
  <1> HIDE DEF n
  <1>5. TimestampAt(u, t) = Narrow(n, InI64(n))
    BY <1>1, <1>4, NoFraction, Options DEF TimestampAt, IsTag, EpochFits64
  <1> QED
    BY <1>5 DEF Narrow, n, t

LEMMA FractionRead ==
  ASSUME NEW u \in Nat, NEW e \in Int, InI32(e), NEW m \in Int, InI128(m),
         NEW n \in Int, Rescale(m, e, u) = Some(n), InI64(n)
  PROVE  TimestampAt(u, Tag(1, DecimalFraction(e, m))) = Some(n)
  <1> DEFINE d == DecimalFraction(e, m)
             t == Tag(1, d)
  <1>1. t.kind = "tag" /\ t.tag = 1 /\ t.inner = d
    BY DEF Tag
  <1>2. DecimalParts(d) = Some(<<m, e>>)
    BY DecimalRoundTrip
  <1> HIDE DEF t, d
  <1>3. Rescale(Get(DecimalParts(d))[1], Get(DecimalParts(d))[2], u) = Some(n)
    BY <1>2, Options
  <1>4. TimestampAt(u, t) = Narrow(n, InI64(n))
    BY <1>1, <1>2, <1>3, Options DEF TimestampAt, IsTag, EpochFits64
  <1> QED
    BY <1>4 DEF Narrow, t, d

\* Seconds of an i64 of units are an i64.
LEMMA DivNarrows ==
  ASSUME NEW n \in Int, InI64(n), NEW p \in Nat, p > 0
  PROVE  n \div p \in Int /\ InI64(n \div p)
  <1> DEFINE d == n \div p
             r == n % p
  <1>1. d \in Int /\ r \in 0 .. p - 1 /\ n = p * d + r
    BY DivMod
  <1> HIDE DEF d, r
  <1>2. d >= -I64
    <2>1. SUFFICES ASSUME d <= -I64 - 1
                   PROVE  FALSE
      BY <1>1, Widths
    <2>2. p * d <= p * (-I64 - 1)
      BY <1>1, <2>1, Widths
    <2>3. p * (-I64 - 1) = -(p * I64) - p /\ p * I64 >= I64
      BY Widths
    <2> QED
      BY <1>1, <2>2, <2>3, Widths DEF InI64
  <1>3. d < I64
    <2>1. SUFFICES ASSUME d >= I64
                   PROVE  FALSE
      BY <1>1, Widths
    <2>2. p * d >= d
      BY <1>1, <2>1, Widths
    <2> QED
      BY <1>1, <2>1, <2>2, Widths DEF InI64
  <1> QED
    BY <1>1, <1>2, <1>3 DEF InI64, d

LEMMA TimestampCell ==
  ASSUME NEW w, NEW c, IsColumn(c), c.type = "TIMESTAMP",
         NEW raw \in Int, InColumn(c, raw)
  PROVE  BuildCell(c, Trip(w, ValueAt(c, raw))) = Some(raw)
  <1> DEFINE u == Unit(c)
             p == Power[u]
             k == 3 * UnitDigits - u
             q == Power[k]
             b == Nanos
             v == Trip(w, ValueAt(c, raw))
  <1>1. u \in Nat /\ u <= 3 * UnitDigits
    <2>1. c.arg \in 0 .. 3 /\ u = c.arg * UnitDigits
      BY DEF IsColumn, Unit
    <2> HIDE DEF u
    <2>2. u = 0 \/ u = UnitDigits \/ u = 2 * UnitDigits \/ u = 3 * UnitDigits
      BY <2>1, Widths
    <2> QED
      BY <2>2, Widths
  <1>2. /\ k \in Nat /\ p * q = b /\ p \in Nat /\ p > 0 /\ p < I128
        /\ q \in Nat /\ q > 0 /\ q < I128 /\ u + k = 3 * UnitDigits
    BY <1>1, UnitsOfSecond, Widths
  <1>3. InI64(raw) /\ InI128(raw)
    BY Widths DEF InColumn, InI64, InI128
  <1>4. BuildCell(c, v) = TimestampAt(u, v) /\ ValueAt(c, raw) = Epoch(c, raw)
    BY DEF BuildCell, ValueAt
  <1>5. CASE raw % p = 0
    <2> DEFINE s == raw \div p
    <2>1. s \in Int /\ s * p = raw /\ TruncDiv(raw, p) = s
      BY <1>2, <1>5, TruncDivMultiple
    <2>2. InI64(s)
      BY <1>2, <1>3, DivNarrows
    <2>3. Epoch(c, raw) = Tag(1, Int_(s))
      BY <1>5, <2>1 DEF Epoch, PerSec
    <2> HIDE DEF s, v
    <2>4. v = Tag(1, Int_(s))
      BY <1>4, <2>1, <2>2, <2>3, WholeSecondsBridge DEF Trip, Written, ReadBack, v
    <2>5. TimestampAt(u, v) = Some(s * p)
      BY <1>1, <1>2, <1>3, <2>1, <2>4, WholeSecondsRead
    <2> QED
      BY <1>4, <2>1, <2>5 DEF v
  <1>6. CASE raw % p # 0
    <2> DEFINE s == raw \div p
               r == raw % p
               n == r * q
               total == s * b + n
    <2>1. s \in Int /\ r \in 1 .. p - 1 /\ raw = p * s + r /\ InI64(s)
      BY <1>2, <1>3, <1>6, DivMod, DivNarrows
    <2>2. Epoch(c, raw) = Tag(1, DecimalFraction(-u, raw))
      BY <1>6 DEF Epoch, PerSec
    <2> HIDE DEF s, r
    <2>3. n \in 1 .. b - 1
      <3>1. n \in Nat /\ n >= q
        BY <1>2, <2>1
      <3>2. n <= (p - 1) * q
        BY <1>2, <2>1
      <3>3. (p - 1) * q = p * q - q
        BY <1>2
      <3> HIDE DEF n, p, q, b
      <3> QED
        BY <1>2, <3>1, <3>2, <3>3
    <2>4. raw * q = total /\ total \in Int
      <3>1. raw * q = (p * s + r) * q
        BY <2>1
      <3>2. (p * s + r) * q = s * (p * q) + r * q
        BY <1>2, <2>1
      <3> HIDE DEF p, q, b
      <3>3. s * (p * q) = s * b /\ b \in Int
        BY <1>2
      <3> QED
        BY <1>2, <2>1, <3>1, <3>2, <3>3
    <2>5. CASE w # "msgpack"
      <3>1. v = Tag(1, DecimalFraction(-u, raw))
        BY <1>4, <2>2, <2>5 DEF Trip, Written, ReadBack
      <3>2. -u \in Int /\ InI32(-u) /\ -u + u = 0
        BY <1>1, Second, Widths DEF InI32
      <3>3. Rescale(raw, -u, u) = Some(raw)
        <4>1. Power[-u + u] = 1 /\ raw * 1 = raw /\ 1 < I128 /\ -u + u >= 0 /\ u \in Int
          BY <1>1, <3>2, PowerZero, Widths
        <4> HIDE DEF u
        <4> QED
          BY <1>3, <3>2, <4>1, RescaleUp
      <3>4. TimestampAt(u, v) = Some(raw)
        BY <1>1, <1>3, <3>1, <3>2, <3>3, FractionRead
      <3> QED
        BY <1>4, <3>4
    <2>6. CASE w = "msgpack"
      <3> DEFINE e == -(3 * UnitDigits)
      <3>1. v = Tag(1, DecimalFraction(e, total))
        <4>1. v = MpToCbor(CborToMp(Tag(1, DecimalFraction(-u, raw))))
          BY <1>4, <2>2, <2>6 DEF Trip, Written, ReadBack
        <4> HIDE DEF v, u, n
        <4> QED
          BY <1>1, <1>3, <2>1, <2>3, <2>4, <4>1, FractionInstantBridge
      <3>2. e \in Int /\ InI32(e) /\ e + u = -k
        BY <1>1, <1>2, Second
      <3>3. InI128(total)
        <4>1. raw * q >= (-I64) * q /\ raw * q <= (I64 - 1) * q
          BY <1>2, <1>3, Widths DEF InI64
        <4>2. (-I64) * q = -(I64 * q) /\ (I64 - 1) * q = I64 * q - q /\ I64 * q \in Nat
          BY <1>2, Widths
        <4>3. I64 * q <= I128
          BY <1>1, UnitsOfSecond
        <4> HIDE DEF total, q
        <4> QED
          BY <1>2, <2>4, <4>1, <4>2, <4>3, Widths DEF InI128
      <3>4. Rescale(total, e, u) = Some(raw)
        <4> HIDE DEF total, e, u, k
        <4>1. CASE k = 0
          <5>1. e + u = 0 /\ q = 1 /\ Power[e + u] = 1
            BY <1>2, <3>2, <4>1, PowerZero
          <5>2. total * 1 = raw /\ 1 < I128
            BY <2>4, <5>1, Widths
          <5> QED
            BY <1>1, <1>3, <2>4, <3>2, <5>1, <5>2, RescaleUp
        <4>2. CASE k # 0
          <5>1. e + u < 0 /\ -(e + u) = k /\ u \in Int
            BY <1>1, <1>2, <3>2, <4>2
          <5>2. total % q = 0 /\ TruncDiv(total, q) = raw
            <6> HIDE DEF q
            <6> QED
              BY <1>2, <2>4, TruncDivExact
          <5> QED
            BY <1>2, <2>4, <3>2, <5>1, <5>2, RescaleDown
        <4> QED
          BY <4>1, <4>2
      <3> HIDE DEF total, e
      <3>5. TimestampAt(u, v) = Some(raw)
        BY <1>1, <1>3, <2>4, <3>1, <3>2, <3>3, <3>4, FractionRead
      <3> QED
        BY <1>4, <3>5
    <2> QED
      BY <2>5, <2>6
  <1> QED
    BY <1>5, <1>6

-----------------------------------------------------------------------------
(* The life of a cell.                                                     *)

\* All cells but those of two known exceptions: a TIME finer than the
\* microseconds it is written in, and the mantissas without a MessagePack form.
\* (TIME '24:00:00', which is refused on load, is within CellsRoundTrip itself.)
NoKnownLoss ==
  \A c \in Columns :
    /\ ~(c.type = "TIME" /\ c.arg = 3)
    /\ c.type = "DECIMAL" => \A n \in CellsOf(c, "msgpack") : ~Between(n)

LEMMA CellTrip ==
  ASSUME NoKnownLoss, NEW c \in Columns, NEW w \in {"cbor", "msgpack"}, NEW raw \in CellsOf(c, w)
  PROVE  BuildCell(c, Trip(w, ValueAt(c, raw))) = Some(raw) /\ InColumn(c, raw) /\ raw \in Int
  <1>1. IsColumn(c) /\ raw \in Int /\ InColumn(c, raw)
    BY CellCodecAssumption
  <1>2. ~(c.type = "TIME" /\ c.arg = 3)
    BY DEF NoKnownLoss
  <1>3. c.type = "DECIMAL" /\ w = "msgpack" => ~Between(raw)
    BY DEF NoKnownLoss
  <1>4. c.type \in ColumnType
    BY <1>1 DEF IsColumn
  <1> QED
    BY <1>1, <1>2, <1>3, <1>4, IntegerCell, DecimalCell, DateCell, TimeCell, TimestampCell
    DEF ColumnType

\* The value in every stage is the cell's, as far as it has come.
CellInv ==
  IsSome(cell) =>
    \E raw \in CellsOf(column, wire) :
      LET v == ValueAt(column, raw)
      IN  /\ cell = Some(raw)
          /\ column \in Columns /\ wire \in {"cbor", "msgpack"}
          /\ stage = "value" => value = v
          /\ stage = "wire" => value = Written(wire, v)
          /\ stage = "read" => value = Trip(wire, v)
          /\ stage = "loaded" => loaded = Validated(column, BuildCell(column, Trip(wire, v)))

LEMMA CellInit ==
  ASSUME Init
  PROVE  CellInv
  <1>1. CASE stage = "cell"
    BY <1>1, Options DEF Init, CellInv
  <1>2. CASE stage # "cell"
    BY <1>2, Options DEF Init, CellInv
  <1> QED
    BY <1>1, <1>2

LEMMA CellNext ==
  ASSUME CellInv, [Next]_vars
  PROVE  CellInv'
  <1> SUFFICES ASSUME IsSome(cell')
               PROVE  CellInv'
    BY DEF CellInv
  <1>1. cell' = cell /\ column' = column /\ wire' = wire
    BY DEF Next, Encode, WriteItem, ReadItem, Load, Done, vars
  <1>2. PICK raw \in CellsOf(column, wire) :
          LET v == ValueAt(column, raw)
          IN  /\ cell = Some(raw)
              /\ column \in Columns /\ wire \in {"cbor", "msgpack"}
              /\ stage = "value" => value = v
              /\ stage = "wire" => value = Written(wire, v)
              /\ stage = "read" => value = Trip(wire, v)
              /\ stage = "loaded" => loaded = Validated(column, BuildCell(column, Trip(wire, v)))
    BY <1>1 DEF CellInv
  <1>3. Get(cell) = raw
    BY <1>2, Options
  <1> DEFINE v == ValueAt(column, raw)
             A == /\ stage' = "value" => value' = v
                  /\ stage' = "wire" => value' = Written(wire, v)
                  /\ stage' = "read" => value' = Trip(wire, v)
                  /\ stage' = "loaded" => loaded' = Validated(column, BuildCell(column, Trip(wire, v)))
  <1>4. A
    <2>1. CASE Encode
      BY <1>3, <2>1 DEF Encode
    <2>2. CASE WriteItem
      BY <1>2, <2>2 DEF WriteItem, Written
    <2>3. CASE ReadItem
      BY <1>2, <2>3 DEF ReadItem, Trip, ReadBack
    <2>4. CASE Load
      BY <1>2, <2>4 DEF Load
    <2>5. CASE Done \/ UNCHANGED vars
      BY <1>2, <2>5 DEF Done, vars
    <2> QED
      BY <2>1, <2>2, <2>3, <2>4, <2>5 DEF Next
  <1> QED
    BY <1>1, <1>2, <1>4 DEF CellInv

LEMMA CellHolds ==
  ASSUME NoKnownLoss, CellInv
  PROVE  CellsRoundTrip
  <1> SUFFICES ASSUME stage = "loaded", IsSome(cell)
               PROVE  loaded = IF EndOfDay(column, Get(cell)) THEN None ELSE cell
    BY DEF CellsRoundTrip
  <1>1. PICK raw \in CellsOf(column, wire) :
          /\ cell = Some(raw)
          /\ column \in Columns /\ wire \in {"cbor", "msgpack"}
          /\ loaded = Validated(column, BuildCell(column, Trip(wire, ValueAt(column, raw))))
    BY DEF CellInv
  <1>2. BuildCell(column, Trip(wire, ValueAt(column, raw))) = Some(raw)
    BY <1>1, CellTrip
  <1>3. InColumn(column, raw) /\ raw \in Int
    BY <1>1, CellTrip
  <1>4. loaded = IF ArrowValid(column, raw) THEN Some(raw) ELSE None
    BY <1>1, <1>2, Options DEF Validated
  <1>5. Get(cell) = raw
    BY <1>1, Options
  <1>6. ArrowValid(column, raw) <=> ~EndOfDay(column, raw)
    <2>1. CASE column.type = "TIME"
      <3> DEFINE day == DayOf(column)
      <3>1. 0 <= raw /\ raw <= day
        BY <1>3, <2>1 DEF InColumn
      <3>2. day \in Int
        <4> DEFINE u == Unit(column)
        <4>1. u \in Nat
          BY <1>1, <2>1, CellCodecAssumption, Widths DEF Unit, IsColumn
        <4>2. Power[u] \in Nat
          BY <4>1, PowerType
        <4> HIDE DEF u
        <4> QED
          BY <4>2, CellCodecAssumption DEF DayOf, PerSec, u
      <3> HIDE DEF day
      <3> QED
        BY <1>3, <2>1, <3>1, <3>2 DEF ArrowValid, EndOfDay, day
    <2>2. CASE column.type # "TIME"
      BY <2>2 DEF ArrowValid, EndOfDay
    <2> QED
      BY <2>1, <2>2
  <1> QED
    BY <1>1, <1>4, <1>5, <1>6

\* "COPY ... TO then COPY ... FROM round-trips" (to.rs:5): all cells but those of
\* NoKnownLoss and, as CellsRoundTrip says, TIME '24:00:00'.
THEOREM CellsComeBack == NoKnownLoss /\ Spec => []CellsRoundTrip
  <1> DEFINE IInv == NoKnownLoss /\ CellInv
  <1>1. NoKnownLoss /\ Init => IInv
    BY CellInit
  <1>2. IInv /\ [Next]_vars => IInv'
    BY CellNext DEF NoKnownLoss
  <1>3. IInv => CellsRoundTrip
    BY CellHolds
  <1> QED
    BY <1>1, <1>2, <1>3, PTL DEF Spec

-----------------------------------------------------------------------------
(* Timestamps other programs wrote.                                        *)

LEMMA TimestampParts ==
  ASSUME NEW p, IsTimestamp(p)
  PROVE  \E s \in Int, n \in 0 .. Nanos - 1 : DecodeTimestamp(p) = <<s, n>> /\ InI64(s)
  <1>1. Nanos \in Nat /\ Nanos > 0
    BY Second
  <1>2. CASE p.len = 4 /\ p.secs \in 0 .. 2 * I32 - 1
    <2>1. DecodeTimestamp(p) = <<p.secs, 0>>
      BY <1>2 DEF DecodeTimestamp
    <2>2. p.secs \in Int /\ InI64(p.secs) /\ 0 \in 0 .. Nanos - 1
      BY <1>1, <1>2, Widths DEF InI64
    <2> QED
      BY <2>1, <2>2
  <1>3. CASE p.len = 8 /\ p.packed \in 0 .. Nanos * Sec34 - 1
    <2> DEFINE a == p.packed
               b == Nanos
               s == a % Sec34
               n == a \div Sec34
    <2>1. DecodeTimestamp(p) = <<s, n>>
      BY <1>3 DEF DecodeTimestamp
    <2>2. a \in Nat /\ a < b * Sec34 /\ b \in Nat /\ b * Sec34 \in Nat
      BY <1>1, <1>3, Widths
    <2>3. s \in 0 .. Sec34 - 1 /\ n \in Int /\ a = Sec34 * n + s
      <3>1. a \in Int /\ Sec34 \in Nat /\ Sec34 > 0
        BY <2>2, Widths
      <3> HIDE DEF a
      <3> QED
        BY <3>1, DivMod
    <2> HIDE DEF a, b, s, n
    <2>4. n >= 0
      <3>1. SUFFICES ASSUME n <= -1
                     PROVE  FALSE
        BY <2>3
      <3>2. Sec34 * n <= -Sec34
        BY <2>3, <3>1, Widths
      <3> QED
        BY <2>2, <2>3, <3>2, Widths
    <2>5. n < b
      <3>1. SUFFICES ASSUME n >= b
                     PROVE  FALSE
        BY <2>2, <2>3
      <3>2. Sec34 * n >= b * Sec34
        BY <2>2, <2>3, <3>1, Widths
      <3> QED
        BY <2>2, <2>3, <3>2, Widths
    <2>6. InI64(s)
      BY <2>3, Widths DEF InI64
    <2>7. n \in 0 .. b - 1 /\ s \in Int
      BY <2>2, <2>3, <2>4, <2>5, Widths
    <2> QED
      BY <2>1, <2>6, <2>7 DEF b
  <1>4. CASE p.len = 12 /\ p.nanos \in 0 .. Nanos - 1 /\ p.secs \in -I64 .. I64 - 1
    <2>1. DecodeTimestamp(p) = <<p.secs, p.nanos>>
      BY <1>4 DEF DecodeTimestamp
    <2>2. p.secs \in Int /\ InI64(p.secs)
      BY <1>4, Widths DEF InI64
    <2> QED
      BY <1>4, <2>1, <2>2
  <1> QED
    BY <1>2, <1>3, <1>4 DEF IsTimestamp

LEMMA ExtRead ==
  ASSUME NEW m, IsExt(m)
  PROVE  \/ m.type = -1 /\ \E s \in Int, n \in 0 .. Nanos - 1 :
              MpToCbor(m) = CborInstant(s, n) /\ InI64(s)
         \/ m.type \in {2, 3} /\ MpToCbor(m) = Tag(m.type, Bytes(m.payload))
         \/ MpToCbor(m) = [kind |-> "map"]
  <1>1. m.kind = "ext"
    BY DEF IsExt, Is
  <1>2. CASE m.type = -1
    <2>1. PICK s \in Int, n \in 0 .. Nanos - 1 : DecodeTimestamp(m.payload) = <<s, n>> /\ InI64(s)
      BY <1>2, TimestampParts DEF IsExt
    <2>2. MpToCbor(m) = CborInstant(s, n)
      BY <1>1, <1>2, <2>1 DEF MpToCbor, Is
    <2> QED
      BY <1>2, <2>1, <2>2
  <1>3. CASE m.type # -1
    <2>1. MpToCbor(m) = CborScalar(m)
      BY <1>1, <1>3 DEF MpToCbor, Is
    <2> QED
      BY <1>1, <2>1 DEF CborScalar, Is
  <1> QED
    BY <1>2, <1>3

\* The nanoseconds of 64-bit seconds have 128 bits.
LEMMA TotalFits ==
  ASSUME NEW s \in Int, InI64(s), NEW n \in 0 .. Nanos - 1
  PROVE  s * Nanos + n \in Int /\ InI128(s * Nanos + n)
  <1> DEFINE b == Nanos
             x == s * b
             y == I64 * b
  <1>1. b \in Nat /\ y \in Nat /\ y <= I128
    BY Second
  <1>2. x >= (-I64) * b /\ x <= (I64 - 1) * b /\ x \in Int
    BY <1>1, Widths DEF InI64
  <1>3. (-I64) * b = -y /\ (I64 - 1) * b = y - b
    BY <1>1, Widths
  <1>4. n \in Nat /\ n < b
    BY <1>1
  <1> HIDE DEF x, y, b
  <1>5. x + n \in Int /\ -I128 <= x + n /\ x + n < I128
    BY <1>1, <1>2, <1>3, <1>4, Widths
  <1> QED
    BY <1>5 DEF InI128, x, b

LEMMA InstantSettles ==
  ASSUME NEW s \in Int, InI64(s), NEW n \in 0 .. Nanos - 1
  PROVE  MpToCbor(CborToMp(CborInstant(s, n))) = CborInstant(s, n)
  <1>1. CASE n = 0
    <2>1. CborInstant(s, n) = Tag(1, Int_(s))
      BY <1>1 DEF CborInstant
    <2> QED
      BY <2>1, WholeSecondsBridge
  <1>2. CASE n # 0
    <2> DEFINE u == 3 * UnitDigits
               m == s * Nanos + n
    <2>1. CborInstant(s, n) = Tag(1, DecimalFraction(-u, m))
      BY <1>2 DEF CborInstant
    <2>2. m \in Int /\ InI128(m)
      BY TotalFits
    <2>3. n \in 1 .. Nanos - 1 /\ u \in Nat /\ u <= 3 * UnitDigits
      BY <1>2, Second
    <2>4. m * Power[3 * UnitDigits - u] = m
      <3>1. 3 * UnitDigits - u = 0
        BY Widths
      <3> HIDE DEF u, m
      <3> QED
        BY <2>2, <3>1, PowerZero
    <2> HIDE DEF u
    <2>5. MpToCbor(CborToMp(Tag(1, DecimalFraction(-u, m)))) =
            Tag(1, DecimalFraction(-(3 * UnitDigits), m))
      <3> HIDE DEF m
      <3>1. m = s * Nanos + n
        BY DEF m
      <3>2. m * Power[3 * UnitDigits - u] = s * Nanos + n
        BY <2>4, <3>1
      <3>3. MpToCbor(CborToMp(Tag(1, DecimalFraction(-u, m)))) =
              Tag(1, DecimalFraction(-(3 * UnitDigits), s * Nanos + n))
        BY <2>2, <2>3, <3>2, FractionInstantBridge
      <3> QED
        BY <3>1, <3>3
    <2> QED
      BY <2>1, <2>5 DEF u
  <1> QED
    BY <1>1, <1>2

LEMMA ExtSettles ==
  ASSUME NEW m, IsExt(m)
  PROVE  MpToCbor(CborToMp(MpToCbor(m))) = MpToCbor(m)
  <1> DEFINE v == MpToCbor(m)
  <1>1. CASE \E s \in Int, n \in 0 .. Nanos - 1 : v = CborInstant(s, n) /\ InI64(s)
    BY <1>1, InstantSettles
  <1>2. CASE m.type \in {2, 3} /\ v = Tag(m.type, Bytes(m.payload))
    <2> DEFINE t == m.type
               b == m.payload
               x == Ext(t, b)
    <2>1. v.kind = "tag" /\ v.tag = t /\ v.inner = Bytes(b) /\ t \in {2, 3}
      BY <1>2 DEF Tag
    <2>2. v.inner.bytes = b
      BY <2>1 DEF Bytes
    <2>3. x.kind = "ext" /\ x.type = t /\ x.payload = b
      BY DEF Ext
    <2> HIDE DEF v, x, t, b
    <2>4. CborToMp(v) = x
      <3>1. Content(Content(v)) = v
        BY <2>1 DEF Content, IsTag
      <3> QED
        BY <2>1, <2>2, <3>1 DEF CborToMp, MpScalar, Is, IsTag, x
    <2>5. MpToCbor(x) = Tag(t, Bytes(b))
      BY <2>1, <2>3 DEF MpToCbor, CborScalar, Is
    <2> QED
      BY <1>2, <2>4, <2>5 DEF v, t, b
  <1>3. CASE v = [kind |-> "map"]
    <2>1. v.kind = "map"
      BY <1>3
    <2> HIDE DEF v
    <2>2. CborToMp(v) = v
      BY <2>1 DEF CborToMp, Content, MpScalar, Is, IsTag
    <2>3. MpToCbor(v) = v
      BY <2>1 DEF MpToCbor, CborScalar, Is
    <2> QED
      BY <2>2, <2>3 DEF v
  <1> QED
    BY <1>1, <1>2, <1>3, ExtRead

\* A value of the reader's own: a value in a file of another program, or what the
\* bridge makes of an ext item.
ForeignInv ==
  cell = None =>
    /\ column \in Targets
    /\ stage \in {"wire", "read", "loaded"}
    /\ stage = "wire" => wire = "msgpack" /\ value \in ForeignExt
    /\ stage \in {"read", "loaded"} => IsValue(value)
    /\ stage = "loaded" => loaded = Validated(column, BuildCell(column, value))

\* Arrow's validation looks at a TIME only.
LEMMA NumbersAreValid ==
  ASSUME NEW c, c.type # "TIME", NEW built
  PROVE  Validated(c, built) = built
  BY DEF Validated, ArrowValid

LEMMA BigNumber ==
  ASSUME NEW n \in Int
  PROVE  IsNumber(BigToValue(n))
  <1> DEFINE v == BigToValue(n)
  <1>1. CASE IsNative(n)
    <2>1. v.kind = "int" /\ v.n = n
      BY <1>1 DEF BigToValue, Int_
    <2> HIDE DEF v
    <2>2. IsNumber(v)
      BY <1>1, <2>1 DEF IsNumber, IsScalar, Is
    <2> QED
      BY <2>2 DEF v
  <1>2. CASE ~IsNative(n)
    <2>1. PICK t \in {2, 3}, m \in Nat : v = Tag(t, Bytes(TrimBE(m)))
      <3>1. n >= 0 => n \in Nat
        OBVIOUS
      <3>2. ~(n >= 0) => -1 - n \in Nat
        OBVIOUS
      <3> QED
        BY <1>2, <3>1, <3>2 DEF BigToValue
    <2>2. v.kind = "tag" /\ v.inner = Bytes(TrimBE(m))
      BY <2>1 DEF Tag
    <2>3. v.inner.kind = "bytes" /\ v.inner.bytes.magnitude = m
      BY <2>2 DEF Bytes, TrimBE, Digits
    <2> HIDE DEF v
    <2>4. IsNumber(v)
      BY <2>2, <2>3 DEF IsNumber, IsScalar, Is
    <2> QED
      BY <2>4 DEF v
  <1> QED
    BY <1>1, <1>2

LEMMA InstantValue ==
  ASSUME NEW s \in Int, InI64(s), NEW n \in 0 .. Nanos - 1
  PROVE  IsValue(CborInstant(s, n))
  <1> DEFINE v == CborInstant(s, n)
  <1>1. CASE n = 0
    <2>1. v.kind = "tag" /\ v.inner = Int_(s)
      BY <1>1 DEF CborInstant, Tag
    <2>2. v.inner.kind = "int" /\ v.inner.n = s /\ IsNative(s)
      BY <2>1, Widths DEF Int_, InI64, IsNative
    <2> HIDE DEF v
    <2>3. IsValue(v)
      BY <2>1, <2>2 DEF IsValue, IsItem, IsNumber, IsScalar, Is
    <2> QED
      BY <2>3 DEF v
  <1>2. CASE n # 0
    <2> DEFINE e == -(3 * UnitDigits)
               m == s * Nanos + n
               x == Int_(e)
               y == BigToValue(m)
               a == Array(<<x, y>>)
               d == DecimalFraction(e, m)
    <2>1. v.kind = "tag" /\ v.inner = d
      BY <1>2 DEF CborInstant, Tag
    <2>2. d.kind = "tag" /\ d.inner = a
      BY DEF DecimalFraction, Tag
    <2>3. a.kind = "array" /\ a.items = <<x, y>>
      BY DEF Array
    <2>4. x.kind = "int" /\ x.n = e /\ e \in Int /\ IsNative(e)
      BY Second, Widths DEF Int_, InI64, IsNative
    <2>5. IsNumber(y)
      BY TotalFits, BigNumber
    <2> HIDE DEF v, d, a, x, y, e, m
    <2>6. IsNumber(x)
      BY <2>4 DEF IsNumber, IsScalar, Is
    <2>7. Len(a.items) = 2 /\ a.items[1] = x /\ a.items[2] = y
      BY <2>3
    <2>8. IsItem(a)
      BY <2>3, <2>5, <2>6, <2>7 DEF IsItem, IsNumber, IsScalar, Is
    <2>9. IsItem(d) /\ IsItem(v)
      BY <2>1, <2>2, <2>3 DEF IsItem, IsNumber, IsScalar, Is
    <2>10. IsValue(v)
      BY <2>1, <2>2, <2>8, <2>9 DEF IsValue
    <2> QED
      BY <2>10 DEF v
  <1> QED
    BY <1>1, <1>2

LEMMA ExtValue ==
  ASSUME NEW m, IsExt(m)
  PROVE  IsValue(MpToCbor(m))
  <1> DEFINE v == MpToCbor(m)
  <1>1. CASE \E s \in Int, n \in 0 .. Nanos - 1 : v = CborInstant(s, n) /\ InI64(s)
    BY <1>1, InstantValue
  <1>2. CASE m.type \in {2, 3} /\ v = Tag(m.type, Bytes(m.payload))
    <2>1. v.kind = "tag" /\ v.inner = Bytes(m.payload) /\ m.payload.magnitude \in Nat
      BY <1>2 DEF Tag, IsExt
    <2>2. v.inner.kind = "bytes" /\ v.inner.bytes.magnitude \in Nat
      BY <2>1 DEF Bytes
    <2> HIDE DEF v
    <2>3. IsValue(v)
      BY <2>1, <2>2 DEF IsValue, IsItem, IsNumber, IsScalar, Is
    <2> QED
      BY <2>3 DEF v
  <1>3. CASE v = [kind |-> "map"]
    <2>1. v.kind = "map"
      BY <1>3
    <2> HIDE DEF v
    <2>2. IsValue(v)
      BY <2>1 DEF IsValue, IsItem, IsNumber, IsScalar, Is
    <2> QED
      BY <2>2 DEF v
  <1> QED
    BY <1>1, <1>2, <1>3, ExtRead

LEMMA ForeignInit ==
  ASSUME Init
  PROVE  ForeignInv
  <1>1. CASE stage = "cell"
    BY <1>1, Options DEF Init, ForeignInv, IsSome
  <1>2. CASE stage # "cell"
    BY <1>2, CellCodecAssumption DEF Init, ForeignInv
  <1> QED
    BY <1>1, <1>2

LEMMA ForeignNext ==
  ASSUME ForeignInv, [Next]_vars
  PROVE  ForeignInv'
  <1> SUFFICES ASSUME cell' = None
               PROVE  ForeignInv'
    BY DEF ForeignInv
  <1>1. cell = None /\ column' = column /\ wire' = wire /\ column \in Targets
    BY DEF Next, Encode, WriteItem, ReadItem, Load, Done, vars, ForeignInv
  <1>2. CASE Encode \/ WriteItem
    BY <1>1, <1>2 DEF Encode, WriteItem, ForeignInv
  <1>3. CASE ReadItem
    <2>1. stage' = "read" /\ value \in ForeignExt /\ value' = MpToCbor(value)
      BY <1>1, <1>3 DEF ReadItem, ForeignInv
    <2>2. IsValue(value')
      BY <2>1, CellCodecAssumption, ExtValue
    <2> QED
      BY <1>1, <2>1, <2>2 DEF ForeignInv
  <1>4. CASE Load
    BY <1>1, <1>4 DEF Load, ForeignInv
  <1>5. CASE Done \/ UNCHANGED vars
    BY <1>1, <1>5 DEF Done, vars, ForeignInv
  <1> QED
    BY <1>2, <1>3, <1>4, <1>5 DEF Next

\* Transcoding (msgpack_to_cbor, cbor_to_msgpack) settles after one round trip.
THEOREM TranscodingStable == Spec => []TranscodingSettles
  <1>1. ForeignInv => TranscodingSettles
    BY ExtSettles, CellCodecAssumption DEF ForeignInv, TranscodingSettles
  <1> QED
    BY <1>1, ForeignInit, ForeignNext, PTL DEF Spec

-----------------------------------------------------------------------------
(* Numbers other programs wrote.                                           *)

\* The number in x, decimal fraction or integer, and where IsValue ends.
Denoted(x) ==
  IF IsSome(DecimalParts(x)) THEN DecimalParts(x)
  ELSE IF IsSome(BigFromValue(x)) THEN Some(<<Get(BigFromValue(x)), 0>>)
  ELSE None
IsDeep(x) == IsItem(x) /\ (Is(x, "tag") => IsItem(x.inner))

LEMMA BigRange ==
  ASSUME NEW v, IsNumber(v), IsSome(BigFromValue(v))
  PROVE  Get(BigFromValue(v)) \in Int /\ InI128(Get(BigFromValue(v)))
  <1>1. CASE v.kind = "int"
    <2>1. BigFromValue(v) = Some(v.n) /\ v.n \in Int /\ IsNative(v.n)
      BY <1>1 DEF BigFromValue, IsNumber, IsScalar, Is
    <2> QED
      BY <2>1, Options, Widths DEF IsNative, InI128
  <1>2. CASE v.kind # "int"
    <2> DEFINE b == v.inner.bytes
               m == b.magnitude
               n == IF v.tag = 2 THEN m ELSE -1 - m
    <2>1. /\ v.kind = "tag" /\ v.inner.kind = "bytes"
          /\ IsSome(BEToU128(b)) /\ Get(BEToU128(b)) < I128
          /\ BigFromValue(v) = Some(IF v.tag = 2 THEN Get(BEToU128(b)) ELSE -1 - Get(BEToU128(b)))
      BY <1>2, Options DEF BigFromValue, Is, IsTag
    <2>2. m \in Nat
      BY <2>1 DEF IsNumber, IsScalar, Is
    <2>3. BEToU128(b) = Some(m)
      BY <2>1, Options DEF BEToU128, Narrow
    <2>4. Get(BEToU128(b)) = m
      BY <2>3, Options
    <2> HIDE DEF m, b
    <2>5. n \in Int /\ InI128(n) /\ BigFromValue(v) = Some(n)
      BY <2>1, <2>2, <2>4, Widths DEF InI128
    <2> QED
      BY <2>5, Options
  <1> QED
    BY <1>1, <1>2

LEMMA PartsRange ==
  ASSUME NEW x, IsDeep(x), IsSome(DecimalParts(x))
  PROVE  \E m \in Int, e \in Int : DecimalParts(x) = Some(<<m, e>>) /\ InI128(m) /\ InI32(e)
  <1> DEFINE w == IF IsTag(x, 4) THEN x.inner ELSE x
             a == BigFromValue(w.items[1])
             b == BigFromValue(w.items[2])
  <1>1. IsItem(w)
    BY DEF IsDeep, Is, IsTag
  <1>2. DecimalParts(x) = IF Is(w, "array") /\ Len(w.items) = 2
                          THEN IF IsSome(a) /\ IsSome(b) /\ InI32(Get(a))
                               THEN Some(<<Get(b), Get(a)>>) ELSE None
                          ELSE None
    BY DEF DecimalParts
  <1> HIDE DEF w
  <1>3. /\ Is(w, "array") /\ Len(w.items) = 2 /\ IsSome(a) /\ IsSome(b) /\ InI32(Get(a))
        /\ DecimalParts(x) = Some(<<Get(b), Get(a)>>)
    BY <1>2, Options
  <1>4. IsNumber(w.items[1]) /\ IsNumber(w.items[2])
    BY <1>1, <1>3 DEF IsItem
  <1>5. Get(a) \in Int /\ Get(b) \in Int /\ InI128(Get(b))
    BY <1>3, <1>4, BigRange
  <1> QED
    BY <1>3, <1>5

LEMMA DenotedRange ==
  ASSUME NEW x, IsDeep(x), IsSome(Denoted(x))
  PROVE  \E m \in Int, e \in Int : Denoted(x) = Some(<<m, e>>) /\ InI128(m) /\ InI32(e)
  <1>1. CASE IsSome(DecimalParts(x))
    BY <1>1, PartsRange DEF Denoted
  <1>2. CASE ~IsSome(DecimalParts(x))
    <2>1. IsSome(BigFromValue(x)) /\ Denoted(x) = Some(<<Get(BigFromValue(x)), 0>>)
      BY <1>2, Options DEF Denoted
    <2>2. Get(BigFromValue(x)) \in Int /\ InI128(Get(BigFromValue(x)))
      BY <2>1, BigRange DEF IsDeep, IsItem
    <2>3. 0 \in Int /\ InI32(0)
      BY Widths DEF InI32
    <2> QED
      BY <2>1, <2>2, <2>3
  <1> QED
    BY <1>1, <1>2

\* What rescale returns is the number it was given,
LEMMA RescaleExact ==
  ASSUME NEW m \in Int, NEW e \in Int, NEW s \in Int, IsSome(Rescale(m, e, s))
  PROVE  SameNumber(Get(Rescale(m, e, s)), s, m, e)
  <1>1. CASE e + s >= 0
    BY <1>1, RescaleUp, Options DEF SameNumber
  <1>2. CASE e + s < 0
    <2> DEFINE k == -(e + s)
               p == Power[k]
    <2>1. Rescale(m, e, s) = Some(TruncDiv(m, p)) /\ m % p = 0
      BY <1>2, RescaleDown, Options
    <2>2. k \in Nat /\ p \in Nat /\ p > 0
      BY <1>2, PowerType
    <2>3. TruncDiv(m, p) = m \div p /\ m = (m \div p) * p
      <3> HIDE DEF p
      <3> QED
        BY <2>1, <2>2, TruncDivMultiple
    <2>4. Get(Rescale(m, e, s)) = m \div p
      BY <2>1, <2>3, Options
    <2> QED
      BY <1>2, <2>3, <2>4 DEF SameNumber
  <1> QED
    BY <1>1, <1>2

\* and it refuses no number that fits.
LEMMA NoPowerIsI128 ==
  ASSUME NEW k \in Nat, k > 0
  PROVE  Power[k] # I128
  <1> DEFINE q == Power[k - 1]
  <1>1. k - 1 \in Nat /\ (k - 1) + 1 = k
    OBVIOUS
  <1>2. Power[k] = Radix * q /\ q \in Nat
    BY <1>1, PowerNext, PowerType
  <1> HIDE DEF q
  <1>3. (q * Radix) % Radix = 0 /\ q * Radix = Radix * q
    <2>1. q \in Int /\ Radix \in Nat /\ Radix > 0
      BY <1>2, Widths
    <2>2. (q * Radix) % Radix = 0
      BY <2>1, TruncDivExact
    <2> QED
      BY <2>1, <2>2
  <1> QED
    BY <1>2, <1>3, NumbersAssumption

LEMMA RescaleAccepts ==
  ASSUME NEW m \in Int, m # 0, InI128(m), NEW e \in Int, NEW s \in Int,
         IsSome(InUnits(m, e, s)),
         -I128 < Get(InUnits(m, e, s)), Get(InUnits(m, e, s)) < I128
  PROVE  Rescale(m, e, s) = InUnits(m, e, s)
  <1>1. CASE e + s >= 0
    <2> DEFINE k == e + s
               p == Power[k]
    <2>1. k \in Nat /\ p \in Nat /\ p > 0
      BY <1>1, PowerType
    <2>2. InUnits(m, e, s) = Some(m * p)
      BY <1>1 DEF InUnits
    <2>3. -I128 < m * p /\ m * p < I128
      BY <2>2, Options
    <2> HIDE DEF p, k
    <2>4. p < I128
      <3>1. m >= 1 \/ m <= -1
        OBVIOUS
      <3>2. CASE m >= 1
        <4>1. m * p >= p
          BY <2>1, <3>2
        <4> QED
          BY <2>1, <2>3, <4>1, Widths
      <3>3. CASE m <= -1
        <4>1. m * p <= -p
          BY <2>1, <3>3
        <4> QED
          BY <2>1, <2>3, <4>1, Widths
      <3> QED
        BY <3>1, <3>2, <3>3
    <2>5. InI128(m * p)
      BY <2>1, <2>3, Widths DEF InI128
    <2> QED
      BY <1>1, <2>2, <2>4, <2>5, RescaleUp DEF p, k
  <1>2. CASE e + s < 0
    <2> DEFINE k == -(e + s)
               p == Power[k]
               n == m \div p
    <2>1. k \in Nat /\ k > 0 /\ p \in Nat /\ p > 0 /\ p # I128
      BY <1>2, PowerType, NoPowerIsI128
    <2>2. InUnits(m, e, s) = Some(n) /\ m % p = 0
      BY <1>2, Options DEF InUnits, Narrow
    <2> HIDE DEF p, k
    <2>3. n \in Int /\ m = n * p /\ TruncDiv(m, p) = n
      BY <2>1, <2>2, TruncDivMultiple
    <2> HIDE DEF n
    <2>4. p < I128
      <3>1. n >= 1 \/ n <= -1
        <4>1. n # 0
          BY <2>1, <2>3
        <4> QED
          BY <2>3, <4>1
      <3>2. CASE n >= 1
        <4>1. n * p >= p
          BY <2>1, <2>3, <3>2
        <4> QED
          BY <2>1, <2>3, <4>1, Widths DEF InI128
      <3>3. CASE n <= -1
        <4>1. n * p <= -p
          BY <2>1, <2>3, <3>3
        <4> QED
          BY <2>1, <2>3, <4>1, Widths DEF InI128
      <3> QED
        BY <3>1, <3>2, <3>3
    <2> QED
      BY <1>2, <2>2, <2>3, <2>4, RescaleDown DEF p, k
  <1> QED
    BY <1>1, <1>2

\* Of zero, it refuses every power that is beyond i128.
LEMMA RescaleFits ==
  ASSUME NEW m \in Int, InI128(m), NEW e \in Int, NEW s \in Int,
         IsSome(InUnits(m, e, s)),
         -I128 < Get(InUnits(m, e, s)), Get(InUnits(m, e, s)) < I128
  PROVE  Rescale(m, e, s) = IF ZeroBeyond(m, e + s) THEN None ELSE InUnits(m, e, s)
  <1>1. CASE m # 0
    BY <1>1, RescaleAccepts DEF ZeroBeyond
  <1>2. CASE m = 0 /\ e + s >= 0
    <2> DEFINE k == e + s
               p == Power[k]
    <2>1. k >= 0 /\ p \in Nat
      BY <1>2, PowerType
    <2>2. Rescale(m, e, s) = IF p < I128 /\ InI128(m * p) THEN Some(m * p) ELSE None
      BY <1>2, RescaleUp
    <2>3. InUnits(m, e, s) = Some(m * p)
      BY <1>2 DEF InUnits
    <2>4. ZeroBeyond(m, e + s) <=> p >= I128
      BY <1>2 DEF ZeroBeyond
    <2> HIDE DEF p, k
    <2>5. m * p = 0 /\ InI128(0)
      BY <1>2, <2>1, Widths DEF InI128
    <2> QED
      BY <2>1, <2>2, <2>3, <2>4, <2>5, Widths
  <1>3. CASE m = 0 /\ e + s < 0
    <2> DEFINE k == -(e + s)
               p == Power[k]
    <2>1. k \in Nat /\ p \in Nat /\ p > 0
      BY <1>3, PowerType
    <2>2. Rescale(m, e, s) = IF p < I128 /\ m % p = 0 THEN Some(TruncDiv(m, p)) ELSE None
      BY <1>3, RescaleDown
    <2>3. InUnits(m, e, s) = Some(m \div p) /\ m % p = 0
      BY <1>3, Options DEF InUnits, Narrow
    <2>4. ZeroBeyond(m, e + s) <=> p >= I128
      BY <1>3 DEF ZeroBeyond
    <2> HIDE DEF p, k
    <2>5. TruncDiv(m, p) = m \div p
      BY <2>1, <2>3, TruncDivMultiple
    <2> QED
      BY <2>1, <2>2, <2>3, <2>4, <2>5, Widths
  <1> QED
    BY <1>1, <1>2, <1>3

\* Where a column looks for the number, and what it does with it.
Inner(c, v) == IF IsTag(v, 1) /\ c.type = "TIMESTAMP" THEN v.inner ELSE v

LEMMA DenotesIs ==
  ASSUME NEW c, NEW v
  PROVE  Denotes(c, v) = Denoted(Inner(c, v))
  BY Zenon DEF Denotes, Denoted, Inner

LEMMA InnerDeep ==
  ASSUME NEW c, NEW v, IsValue(v)
  PROVE  IsDeep(Inner(c, v))
  BY DEF IsValue, IsDeep, Inner, Is, IsTag

LEMMA DecimalLoads ==
  ASSUME NEW c, c.type = "DECIMAL", NEW v, NEW m, NEW e, Denotes(c, v) = Some(<<m, e>>)
  PROVE  BuildCell(c, v) = Rescale(m, e, c.arg)
  <1>1. BuildCell(c, v) = DecimalAt(c, v) /\ Inner(c, v) = v
    BY DEF BuildCell, Inner
  <1>2. Denoted(v) = Some(<<m, e>>)
    BY <1>1, DenotesIs
  <1>3. CASE IsSome(DecimalParts(v))
    <2>1. Get(DecimalParts(v))[1] = m /\ Get(DecimalParts(v))[2] = e
      BY <1>2, <1>3, Options DEF Denoted
    <2> QED
      BY <1>1, <1>3, <2>1 DEF DecimalAt
  <1>4. CASE ~IsSome(DecimalParts(v))
    <2>1. IsSome(BigFromValue(v)) /\ Some(<<Get(BigFromValue(v)), 0>>) = Some(<<m, e>>)
      BY <1>2, <1>4, Options DEF Denoted
    <2>2. Get(BigFromValue(v)) = m /\ e = 0
      BY <2>1, Options
    <2> QED
      BY <1>1, <1>4, <2>1, <2>2 DEF DecimalAt
  <1> QED
    BY <1>3, <1>4

LEMMA InstantLoads ==
  ASSUME NEW c, c.type = "TIMESTAMP", NEW v, NEW m, NEW e, Denotes(c, v) = Some(<<m, e>>)
  PROVE  LET r == Rescale(m, e, Unit(c))
         IN  BuildCell(c, v) = IF IsSome(r) THEN Narrow(Get(r), InI64(Get(r))) ELSE None
  <1> DEFINE x == Inner(c, v)
             u == Unit(c)
             r == Rescale(m, e, u)
             count == IF IsSome(DecimalParts(x))
                      THEN Rescale(Get(DecimalParts(x))[1], Get(DecimalParts(x))[2], u)
                      ELSE IF IsSome(BigFromValue(x)) THEN Rescale(Get(BigFromValue(x)), 0, u)
                      ELSE FloatAt(x, u)
  <1>1. BuildCell(c, v) = TimestampAt(u, v) /\ x = IF IsTag(v, 1) THEN v.inner ELSE v
    BY DEF BuildCell, Inner
  <1>2. Denoted(x) = Some(<<m, e>>)
    BY DenotesIs
  <1>3. TimestampAt(u, v) = IF IsSome(count) THEN Narrow(Get(count), InI64(Get(count))) ELSE None
    <2> HIDE DEF u
    <2> QED
      BY <1>1 DEF TimestampAt, EpochFits64
  <1> HIDE DEF x, u
  <1>4. CASE IsSome(DecimalParts(x))
    <2>1. Get(DecimalParts(x))[1] = m /\ Get(DecimalParts(x))[2] = e
      BY <1>2, <1>4, Options DEF Denoted
    <2>2. count = r
      BY <1>4, <2>1
    <2> HIDE DEF count
    <2> QED
      BY <1>1, <1>3, <2>2 DEF u
  <1>5. CASE ~IsSome(DecimalParts(x))
    <2>1. IsSome(BigFromValue(x)) /\ Some(<<Get(BigFromValue(x)), 0>>) = Some(<<m, e>>)
      BY <1>2, <1>5, Options DEF Denoted
    <2>2. Get(BigFromValue(x)) = m /\ e = 0
      BY <2>1, Options
    <2>3. count = r
      BY <1>5, <2>1, <2>2
    <2> HIDE DEF count
    <2> QED
      BY <1>1, <1>3, <2>3 DEF u
  <1> QED
    BY <1>4, <1>5

\* An integer column takes a decimal fraction or a bignum for no integer.
LEMMA IntegerLoads ==
  ASSUME NEW c, c.type \in {"SIGNED", "UNSIGNED"}, NEW v, NEW m, NEW e,
         Denotes(c, v) = Some(<<m, e>>), IsSome(BuildCell(c, v))
  PROVE  e = 0 /\ BuildCell(c, v) = Some(m)
  <1> DEFINE n == AsI128(v)
  <1>1. BuildCell(c, v) = IF IsSome(n) THEN Narrow(Get(n), FitsInt(c, Get(n))) ELSE None
    BY DEF BuildCell
  <1>2. IsSome(n) /\ BuildCell(c, v) = Some(Get(n))
    <2> HIDE DEF n
    <2> QED
      BY <1>1, Options DEF Narrow
  <1>3. Untag(v).kind \in {"int", "float"}
    BY <1>2, Options DEF AsI128, Is
  <1>4. Inner(c, v) = v
    BY DEF Inner
  <1>5. Denoted(v) = Some(<<m, e>>)
    BY <1>4, DenotesIs
  <1>6. ~IsSome(DecimalParts(v))
    <2>1. SUFFICES ASSUME IsSome(DecimalParts(v))
                   PROVE  FALSE
      OBVIOUS
    <2>2. (IF IsTag(v, 4) THEN v.inner ELSE v).kind = "array"
      BY <2>1, Options, Zenon DEF DecimalParts, Is
    <2>3. CASE v.kind = "tag"
      <3>1. v.inner.kind = "array"
        BY <2>2, <2>3 DEF IsTag
      <3>2. Untag(v) = v.inner
        BY <2>3, <3>1 DEF Untag, Is
      <3> QED
        BY <1>3, <3>1, <3>2
    <2>4. CASE v.kind # "tag"
      <3>1. v.kind = "array" /\ Untag(v) = v
        BY <2>2, <2>4 DEF Untag, Is, IsTag
      <3> QED
        BY <1>3, <3>1
    <2> QED
      BY <2>3, <2>4
  <1>7. IsSome(BigFromValue(v)) /\ Some(<<Get(BigFromValue(v)), 0>>) = Some(<<m, e>>)
    BY <1>5, <1>6, Options DEF Denoted
  <1>8. v.kind = "int"
    <2>1. SUFFICES ASSUME v.kind # "int"
                   PROVE  FALSE
      OBVIOUS
    <2>2. v.kind = "tag" /\ v.inner.kind = "bytes"
      BY <1>7, <2>1, Options DEF BigFromValue, Is, IsTag
    <2>3. Untag(v) = v.inner
      BY <2>2 DEF Untag, Is
    <2> QED
      BY <1>3, <2>2, <2>3
  <1>9. BigFromValue(v) = Some(v.n) /\ n = Some(v.n)
    BY <1>8 DEF BigFromValue, AsI128, Untag, Is
  <1> QED
    BY <1>2, <1>7, <1>9, Options

\* Columns whose cells count the number itself: not DATE, where a day count is
\* known to be wrapped, nor TIME, where an integer counts microseconds.
NumberTargets == \A c \in Targets : c.type \in {"SIGNED", "UNSIGNED", "DECIMAL", "TIMESTAMP"}

LEMMA LoadsExactly ==
  ASSUME NEW c, IsColumn(c), c.type \in {"SIGNED", "UNSIGNED", "DECIMAL", "TIMESTAMP"},
         NEW v, IsValue(v), IsSome(Denotes(c, v)), IsSome(BuildCell(c, v))
  PROVE  LET d == Get(Denotes(c, v))
         IN  SameNumber(Get(BuildCell(c, v)), ScaleOf(c), d[1], d[2])
  <1>1. PICK m \in Int, e \in Int : Denotes(c, v) = Some(<<m, e>>) /\ InI128(m) /\ InI32(e)
    BY DenotesIs, InnerDeep, DenotedRange
  <1>2. Get(Denotes(c, v))[1] = m /\ Get(Denotes(c, v))[2] = e
    BY <1>1, Options
  <1> DEFINE s == ScaleOf(c)
             n == BuildCell(c, v)
  <1>3. SameNumber(Get(n), s, m, e)
    <2>1. CASE c.type \in {"SIGNED", "UNSIGNED"}
      <3>1. e = 0 /\ Get(n) = m /\ s = 0
        BY <1>1, <2>1, IntegerLoads, Options DEF ScaleOf
      <3> HIDE DEF n, s
      <3>2. e + s = 0 /\ Power[e + s] = 1 /\ m * 1 = m
        BY <3>1, PowerZero
      <3> QED
        BY <3>1, <3>2 DEF SameNumber
    <2>2. CASE c.type = "DECIMAL"
      <3>1. n = Rescale(m, e, s) /\ s \in Int
        BY <1>1, <2>2, DecimalLoads DEF ScaleOf, IsColumn
      <3> HIDE DEF n, s
      <3> QED
        BY <3>1, RescaleExact DEF n
    <2>3. CASE c.type = "TIMESTAMP"
      <3> DEFINE r == Rescale(m, e, s)
      <3>1. s = Unit(c) /\ c.arg \in 0 .. 3
        BY <2>3 DEF ScaleOf, IsColumn
      <3>2. s \in Int
        BY <3>1, Widths DEF Unit
      <3>3. n = IF IsSome(r) THEN Narrow(Get(r), InI64(Get(r))) ELSE None
        BY <1>1, <2>3, <3>1, InstantLoads
      <3>4. IsSome(n)
        OBVIOUS
      <3> HIDE DEF n, s
      <3>5. IsSome(r) /\ Get(n) = Get(r)
        <4> HIDE DEF r
        <4> QED
          BY <3>3, <3>4, Options DEF Narrow
      <3> QED
        BY <3>2, <3>5, RescaleExact
    <2> QED
      BY <2>1, <2>2, <2>3
  <1> QED
    BY <1>2, <1>3

\* decimal_at, timestamp_at and build_int (value_out.rs) load a number exactly or
\* refuse it.
THEOREM NumbersExactOrRefused == NumberTargets /\ Spec => []ExactOrRefused
  <1> DEFINE IInv == NumberTargets /\ ForeignInv
  <1>1. NumberTargets /\ Init => IInv
    BY ForeignInit
  <1>2. IInv /\ [Next]_vars => IInv'
    BY ForeignNext DEF NumberTargets
  <1>3. IInv => ExactOrRefused
    <2>1. SUFFICES ASSUME NumberTargets, ForeignInv, Foreigner, IsSome(loaded),
                          IsSome(Denotes(column, value))
                   PROVE  LET d == Get(Denotes(column, value))
                          IN  SameNumber(Get(loaded), ScaleOf(column), d[1], d[2])
      BY DEF ExactOrRefused
    <2>2. /\ column \in Targets /\ IsValue(value) /\ column.type # "TIME"
          /\ loaded = BuildCell(column, value)
      BY <2>1, NumbersAreValid DEF Foreigner, ForeignInv, NumberTargets
    <2>3. IsColumn(column) /\ column.type \in {"SIGNED", "UNSIGNED", "DECIMAL", "TIMESTAMP"}
      BY <2>1, <2>2, CellCodecAssumption DEF NumberTargets
    <2> QED
      BY <2>1, <2>2, <2>3, LoadsExactly
  <1> QED
    BY <1>1, <1>2, <1>3, PTL DEF Spec

\* "Rejected, not wrapped" (copy_types.test:432): a TIME is not compared with the
\* length of a day.
NoTimeTargets == \A c \in Targets : c.type # "TIME"

THEOREM LoadedWithinTarget == NoTimeTargets /\ Spec => []WithinTarget
  <1> DEFINE IInv == NoTimeTargets /\ ForeignInv
  <1>1. NoTimeTargets /\ Init => IInv
    BY ForeignInit
  <1>2. IInv /\ [Next]_vars => IInv'
    BY ForeignNext DEF NoTimeTargets
  <1>3. IInv => WithinTarget
    <2>1. SUFFICES ASSUME NoTimeTargets, ForeignInv, Foreigner, IsSome(loaded), column.type # "DECIMAL"
                   PROVE  InColumn(column, Get(loaded))
      BY DEF WithinTarget
    <2>2. column \in Targets /\ loaded = BuildCell(column, value)
      BY <2>1, NumbersAreValid DEF Foreigner, ForeignInv, NoTimeTargets
    <2>3. column.type \in {"SIGNED", "UNSIGNED", "TIMESTAMP", "DATE"}
      BY <2>1, <2>2, CellCodecAssumption DEF NoTimeTargets, IsColumn, ColumnType
    <2>4. CASE column.type \in {"SIGNED", "UNSIGNED"}
      <3>1. PICK n : loaded = Narrow(n, FitsInt(column, n))
        BY <2>1, <2>2, <2>4, Options DEF BuildCell
      <3>2. FitsInt(column, n) /\ Get(loaded) = n
        BY <2>1, <3>1, Options DEF Narrow
      <3> QED
        BY <2>4, <3>2 DEF FitsInt, InColumn
    <2>5. CASE column.type = "TIMESTAMP"
      <3>1. PICK n : loaded = Narrow(n, InI64(n))
        BY <2>1, <2>2, <2>5, Options DEF BuildCell, TimestampAt, EpochFits64
      <3>2. InI64(n) /\ Get(loaded) = n
        BY <2>1, <3>1, Options DEF Narrow
      <3> QED
        BY <2>5, <3>2 DEF InColumn
    <2>6. CASE column.type = "DATE"
      <3>1. PICK n : loaded = Narrow(n, InI32(n))
        BY <2>1, <2>2, <2>6, Options DEF BuildCell, DateAt
      <3>2. InI32(n) /\ Get(loaded) = n
        BY <2>1, <3>1, Options DEF Narrow
      <3> QED
        BY <2>6, <3>2 DEF InColumn
    <2> QED
      BY <2>3, <2>4, <2>5, <2>6
  <1> QED
    BY <1>1, <1>2, <1>3, PTL DEF Spec

LEMMA UnitsSome ==
  ASSUME NEW m, NEW e, NEW s, IsSome(InUnits(m, e, s))
  PROVE  InUnits(m, e, s) = Some(Get(InUnits(m, e, s)))
  BY Options DEF InUnits, Narrow

LEMMA UnitsType ==
  ASSUME NEW m \in Int, NEW e \in Int, NEW s \in Int, IsSome(InUnits(m, e, s))
  PROVE  Get(InUnits(m, e, s)) \in Int
  <1>1. CASE e + s >= 0
    <2> DEFINE p == Power[e + s]
    <2>1. p \in Nat /\ InUnits(m, e, s) = Some(m * p)
      BY <1>1, PowerType DEF InUnits
    <2> HIDE DEF p
    <2> QED
      BY <2>1, Options
  <1>2. CASE e + s < 0
    <2> DEFINE p == Power[-(e + s)]
    <2>1. p \in Nat /\ p > 0 /\ InUnits(m, e, s) = Some(m \div p)
      BY <1>2, PowerType, Options DEF InUnits, Narrow
    <2> HIDE DEF p
    <2>2. m \div p \in Int
      BY <2>1, DivMod
    <2> QED
      BY <2>1, <2>2, Options
  <1> QED
    BY <1>1, <1>2

LEMMA LoadsWhatFits ==
  ASSUME NEW c, IsColumn(c), c.type \in {"DECIMAL", "TIMESTAMP"},
         NEW v, IsValue(v), IsSome(Denotes(c, v))
  PROVE  LET d == Get(Denotes(c, v))
             n == InUnits(d[1], d[2], ScaleOf(c))
         IN  IsSome(n) /\ InColumn(c, Get(n)) =>
               BuildCell(c, v) = IF ZeroBeyond(d[1], d[2] + ScaleOf(c)) THEN None ELSE n
  <1>1. PICK m \in Int, e \in Int : Denotes(c, v) = Some(<<m, e>>) /\ InI128(m) /\ InI32(e)
    BY DenotesIs, InnerDeep, DenotedRange
  <1>2. Get(Denotes(c, v))[1] = m /\ Get(Denotes(c, v))[2] = e
    BY <1>1, Options
  <1> DEFINE s == ScaleOf(c)
             n == InUnits(m, e, s)
             beyond == ZeroBeyond(m, e + s)
  <1>3. SUFFICES ASSUME IsSome(n), InColumn(c, Get(n))
                 PROVE  BuildCell(c, v) = IF beyond THEN None ELSE n
    BY <1>2
  <1>4. CASE c.type = "DECIMAL"
    <2>1. BuildCell(c, v) = Rescale(m, e, s) /\ s \in Int
      BY <1>1, <1>4, DecimalLoads DEF ScaleOf, IsColumn
    <2>2. c.digits \in Nat /\ Power[c.digits] \in Nat /\ Power[c.digits] <= I128
      BY <1>4, PowerType DEF IsColumn
    <2>3. -Power[c.digits] < Get(n) /\ Get(n) < Power[c.digits]
      BY <1>3, <1>4 DEF InColumn
    <2>4. Get(n) \in Int
      BY <1>1, <1>3, <2>1, UnitsType
    <2> HIDE DEF s, n
    <2>5. -I128 < Get(n) /\ Get(n) < I128
      BY <2>2, <2>3, <2>4, Widths
    <2> QED
      BY <1>1, <1>3, <2>1, <2>5, RescaleFits DEF n
  <1>5. CASE c.type = "TIMESTAMP"
    <2> DEFINE r == Rescale(m, e, s)
    <2>1. s = Unit(c) /\ c.arg \in 0 .. 3
      BY <1>5 DEF ScaleOf, IsColumn
    <2>2. s \in Int
      BY <2>1, Widths DEF Unit
    <2>3. BuildCell(c, v) = IF IsSome(r) THEN Narrow(Get(r), InI64(Get(r))) ELSE None
      BY <1>1, <1>5, <2>1, InstantLoads
    <2>4. InI64(Get(n)) /\ Get(n) \in Int
      BY <1>1, <1>3, <1>5, <2>2, UnitsType DEF InColumn
    <2> HIDE DEF s, n
    <2>5. -I128 < Get(n) /\ Get(n) < I128
      BY <2>4, Widths DEF InI64
    <2>6. r = IF beyond THEN None ELSE n
      BY <1>1, <1>3, <2>2, <2>5, RescaleFits DEF n
    <2>7. n = Some(Get(n))
      BY <1>3, UnitsSome DEF n
    <2> HIDE DEF r, beyond
    <2>8. CASE beyond
      BY <2>3, <2>6, <2>8, Options
    <2>9. CASE ~beyond
      BY <1>3, <2>3, <2>4, <2>6, <2>7, <2>9 DEF Narrow
    <2> QED
      BY <2>8, <2>9
  <1> QED
    BY <1>4, <1>5

\* A number a column can hold is loaded: no intermediate product of rescale
\* (value_out.rs:215) overflows when its result does not.  The exception is a zero
\* whose power of ten is beyond i128 (value_out.rs:219, 233).
THEOREM WhatFitsIsAccepted == Spec => []AcceptsWhatFits
  <1>1. ForeignInv => AcceptsWhatFits
    <2>1. SUFFICES ASSUME ForeignInv, Foreigner, column.type \in {"DECIMAL", "TIMESTAMP"},
                          IsSome(Denotes(column, value))
                   PROVE  LET d == Get(Denotes(column, value))
                              n == InUnits(d[1], d[2], ScaleOf(column))
                          IN  IsSome(n) /\ InColumn(column, Get(n)) =>
                                loaded = IF ZeroBeyond(d[1], d[2] + ScaleOf(column))
                                         THEN None ELSE n
      BY DEF AcceptsWhatFits
    <2>2. /\ column \in Targets /\ IsValue(value) /\ loaded = BuildCell(column, value)
      BY <2>1, NumbersAreValid DEF Foreigner, ForeignInv
    <2>3. IsColumn(column)
      BY <2>2, CellCodecAssumption
    <2> QED
      BY <2>1, <2>2, <2>3, LoadsWhatFits
  <1> QED
    BY <1>1, ForeignInit, ForeignNext, PTL DEF Spec

=============================================================================
