--------------------------- MODULE AnswersProofs ---------------------------
(***************************************************************************)
(* The safety of Answers for every batch of blobs.                         *)
(*                                                                         *)
(* A call is one step, so the argument is about the columns it builds.     *)
(* Rows of several elements lie one behind the other: row i of a           *)
(* concatenation starts at the sum o[i] of the lengths before it, and      *)
(* every position belongs to one row.  From there each builder's column is *)
(* read at row i alone, which makes it a function of what row i decodes    *)
(* to.                                                                     *)
(***************************************************************************)
EXTENDS Answers, SetInduction, SequenceTheorems

-----------------------------------------------------------------------------
(* Rows of several elements, one behind the other.                         *)

\* What a loop computes, step after step.
IsRecursion(f, n, base, step) == f[0] = base /\ \A i \in 1 .. n : f[i] = step[i][f[i - 1]]
HasRecursion(n, X, base, step) == \E f \in [0 .. n -> X] : IsRecursion(f, n, base, step)

LEMMA RecursionExists ==
  ASSUME NEW n \in Nat, NEW X, NEW base \in X, NEW step \in [1 .. n -> [X -> X]]
  PROVE  HasRecursion(n, X, base, step)
  <1>1. PICK it \in [SUBSET (1 .. n) -> X] : IsFold(it, n, base, step)
    BY FoldExists DEF HasFold
  <1>2. FoldsIn(it, n, X, base, step)
    BY <1>1 DEF IsFold, FoldsIn
  <1>3. HasLoop(it, n, X, base, step)
    BY <1>2, FoldRun
  <1> QED
    BY <1>3 DEF HasLoop, IsLoop, HasRecursion, IsRecursion

\* o[i] is how much lies before row i, and o[n + 1] how much there is.
Starts(o, n, lens) ==
  /\ o \in [1 .. n + 1 -> Nat]
  /\ o[1] = 0
  /\ \A i \in 1 .. n : o[i + 1] = o[i] + lens[i]

IsStart(o, n, lens) == o = [i \in 1 .. n + 1 |-> IF i = 1 THEN 0 ELSE o[i - 1] + lens[i - 1]]

LEMMA OffsetsStart ==
  ASSUME NEW n \in Nat, NEW lens \in [1 .. n -> Nat]
  PROVE  Starts(Offsets(lens), n, lens)
  <1> DEFINE step == [i \in 1 .. n |-> [x \in Nat |-> x + lens[i]]]
  <1>1. step \in [1 .. n -> [Nat -> Nat]]
    OBVIOUS
  <1>2. \A i \in 1 .. n, x \in Nat : step[i][x] = x + lens[i]
    OBVIOUS
  <1> HIDE DEF step
  <1>3. PICK f \in [0 .. n -> Nat] : IsRecursion(f, n, 0, step)
    BY <1>1, RecursionExists DEF HasRecursion
  <1>4. f[0] = 0 /\ \A i \in 1 .. n : f[i] = f[i - 1] + lens[i]
    <2>1. \A i \in 1 .. n : f[i - 1] \in Nat
      OBVIOUS
    <2> QED
      BY <1>2, <1>3, <2>1 DEF IsRecursion
  <1> DEFINE g == [i \in 1 .. n + 1 |-> f[i - 1]]
             r == Offsets(lens)
             c == CHOOSE o : IsStart(o, n, lens)
  <1>5. IsStart(g, n, lens)
    <2>1. ASSUME NEW i \in 1 .. n + 1
          PROVE  g[i] = IF i = 1 THEN 0 ELSE g[i - 1] + lens[i - 1]
      <3>1. CASE i = 1
        BY <1>4, <3>1
      <3>2. CASE i # 1
        <4>1. i - 1 \in 1 .. n /\ i - 1 \in 1 .. n + 1 /\ (i - 1) - 1 \in 0 .. n
          BY <3>2
        <4> QED
          BY <1>4, <3>2, <4>1
      <3> QED
        BY <3>1, <3>2
    <2>2. g = [i \in 1 .. n + 1 |-> g[i]]
      OBVIOUS
    <2> HIDE DEF g
    <2> QED
      BY <2>1, <2>2 DEF IsStart
  <1>6. IsStart(c, n, lens)
    BY <1>5, Zenon
  <1>7. Len(lens) = n
    OBVIOUS
  <1>8. r = c
    BY <1>7 DEF Offsets, IsStart
  <1> HIDE DEF r, c
  <1>9. DOMAIN r = 1 .. n + 1 /\ \A i \in 1 .. n + 1 : r[i] = IF i = 1 THEN 0 ELSE r[i - 1] + lens[i - 1]
    BY <1>6, <1>8 DEF IsStart
  <1>10. r = [i \in 1 .. n + 1 |-> r[i]]
    BY <1>6, <1>8, <1>9 DEF IsStart
  <1>11. r[1] = 0 /\ \A i \in 1 .. n : r[i + 1] = r[i] + lens[i]
    <2>1. ASSUME NEW i \in 1 .. n
          PROVE  r[i + 1] = r[i] + lens[i]
      <3>1. i + 1 \in 1 .. n + 1 /\ i + 1 # 1 /\ (i + 1) - 1 = i
        OBVIOUS
      <3> QED
        BY <1>9, <3>1
    <2>2. 1 \in 1 .. n + 1
      OBVIOUS
    <2> QED
      BY <1>9, <2>1, <2>2
  <1> DEFINE T == {k \in Nat : k <= n => r[k + 1] \in Nat}
  <1>12. 0 \in T
    BY <1>11
  <1>13. ASSUME NEW k \in Nat, k \in T
         PROVE  k + 1 \in T
    <2>1. SUFFICES ASSUME k + 1 <= n
                   PROVE  r[(k + 1) + 1] \in Nat
      OBVIOUS
    <2>2. k + 1 \in 1 .. n /\ r[k + 1] \in Nat /\ lens[k + 1] \in Nat
      BY <1>13, <2>1
    <2> QED
      BY <1>11, <2>2
  <1> HIDE DEF T
  <1>14. \A k \in Nat : k \in T
    BY <1>12, <1>13, Induction
  <1>15. \A i \in 1 .. n + 1 : r[i] \in Nat
    <2>1. ASSUME NEW i \in 1 .. n + 1
          PROVE  r[i] \in Nat
      <3>1. i - 1 \in Nat /\ i - 1 <= n /\ (i - 1) + 1 = i
        OBVIOUS
      <3> QED
        BY <1>14, <3>1 DEF T
    <2> QED
      BY <2>1
  <1> QED
    BY <1>10, <1>11, <1>15 DEF Starts, r

\* Rows start in order, and every position is in a row.
LEMMA StartsAscend ==
  ASSUME NEW n \in Nat, NEW lens \in [1 .. n -> Nat], NEW o, Starts(o, n, lens),
         NEW i \in 1 .. n + 1
  PROVE  \A m \in Nat : i <= m /\ m <= n + 1 => o[i] <= o[m]
  <1> DEFINE T == {m \in Nat : i <= m /\ m <= n + 1 => o[i] <= o[m]}
  <1>1. 0 \in T
    OBVIOUS
  <1>2. ASSUME NEW m \in Nat, m \in T
        PROVE  m + 1 \in T
    <2>1. SUFFICES ASSUME i <= m + 1, m + 1 <= n + 1
                   PROVE  o[i] <= o[m + 1]
      OBVIOUS
    <2>2. CASE i = m + 1
      BY <2>2 DEF Starts
    <2>3. CASE i # m + 1
      <3>1. m \in 1 .. n /\ i <= m
        BY <2>1, <2>3
      <3>2. o[m + 1] = o[m] + lens[m] /\ o[i] \in Nat /\ o[m] \in Nat /\ lens[m] \in Nat /\ o[i] <= o[m]
        BY <1>2, <3>1 DEF Starts
      <3> QED
        BY <3>2
    <2> QED
      BY <2>2, <2>3
  <1> HIDE DEF T
  <1>3. \A m \in Nat : m \in T
    BY <1>1, <1>2, Induction
  <1> QED
    BY <1>3 DEF T

LEMMA EveryPositionHasARow ==
  ASSUME NEW n \in Nat, NEW lens \in [1 .. n -> Nat], NEW o, Starts(o, n, lens),
         NEW j \in Nat, 0 < j, j <= o[n + 1]
  PROVE  \E i \in 1 .. n : o[i] < j /\ j <= o[i + 1]
  <1> DEFINE T == {m \in Nat : m <= n /\ j <= o[m + 1] => \E i \in 1 .. n : o[i] < j /\ j <= o[i + 1]}
  <1>1. 0 \in T
    BY DEF Starts
  <1>2. ASSUME NEW m \in Nat, m \in T
        PROVE  m + 1 \in T
    <2>1. SUFFICES ASSUME m + 1 <= n, j <= o[(m + 1) + 1]
                   PROVE  \E i \in 1 .. n : o[i] < j /\ j <= o[i + 1]
      OBVIOUS
    <2>2. m + 1 \in 1 .. n /\ o[m + 1] \in Nat
      BY <2>1 DEF Starts
    <2>3. CASE j <= o[m + 1]
      BY <1>2, <2>1, <2>3
    <2>4. CASE ~(j <= o[m + 1])
      BY <2>1, <2>2, <2>4
    <2> QED
      BY <2>3, <2>4
  <1> HIDE DEF T
  <1>3. n \in T
    BY <1>1, <1>2, Induction
  <1> QED
    BY <1>3 DEF T

IsFlatten(g, n, s) == g = [i \in 1 .. n |-> IF i = 1 THEN s[i] ELSE g[i - 1] \o s[i]]

\* A concatenation has the elements of each row where the row starts.
Concatenates(flat, n, s, o) ==
  /\ Len(flat) = o[n + 1]
  /\ \A i \in 1 .. n : \A k \in 1 .. Len(s[i]) : flat[o[i] + k] = s[i][k]

LEMMA Flattened ==
  ASSUME NEW S, NEW n \in Nat, NEW s \in [1 .. n -> Seq(S)],
         NEW o, Starts(o, n, [i \in 1 .. n |-> Len(s[i])])
  PROVE  FlattenSeq(s) \in Seq(S) /\ Concatenates(FlattenSeq(s), n, s, o)
  <1> DEFINE step == [i \in 1 .. n |-> [x \in Seq(S) |-> x \o s[i]]]
             lens == [i \in 1 .. n |-> Len(s[i])]
  <1>1. step \in [1 .. n -> [Seq(S) -> Seq(S)]]
    OBVIOUS
  <1>2. \A i \in 1 .. n, x \in Seq(S) : step[i][x] = x \o s[i]
    OBVIOUS
  <1>3. lens \in [1 .. n -> Nat] /\ \A i \in 1 .. n : lens[i] = Len(s[i])
    OBVIOUS
  <1> HIDE DEF step, lens
  <1>4. Starts(o, n, lens)
    BY DEF lens
  <1>5. PICK f \in [0 .. n -> Seq(S)] : IsRecursion(f, n, <<>>, step)
    <2>1. <<>> \in Seq(S)
      OBVIOUS
    <2>2. HasRecursion(n, Seq(S), <<>>, step)
      BY <1>1, <2>1, RecursionExists
    <2> QED
      BY <2>2 DEF HasRecursion
  <1>6. f[0] = <<>> /\ \A i \in 1 .. n : f[i] = f[i - 1] \o s[i]
    <2>1. \A i \in 1 .. n : f[i - 1] \in Seq(S)
      OBVIOUS
    <2> QED
      BY <1>2, <1>5, <2>1 DEF IsRecursion
  <1>7. Concatenates(f[n], n, s, o)
    <2> DEFINE T == {m \in Nat : m <= n => Concatenates(f[m], m, s, o)}
    <2>1. 0 \in T
      BY <1>4, <1>6 DEF Starts, Concatenates
    <2>2. ASSUME NEW m \in Nat, m \in T
          PROVE  m + 1 \in T
      <3>1. SUFFICES ASSUME m + 1 <= n
                     PROVE  Concatenates(f[m + 1], m + 1, s, o)
        OBVIOUS
      <3> DEFINE a == f[m]
                 b == s[m + 1]
      <3>2. m + 1 \in 1 .. n /\ m \in 0 .. n /\ (m + 1) - 1 = m
        BY <3>1
      <3>3. a \in Seq(S) /\ b \in Seq(S) /\ f[m + 1] = a \o b
        BY <1>6, <3>2
      <3>4. Len(a) = o[m + 1] /\ \A i \in 1 .. m : \A k \in 1 .. Len(s[i]) : a[o[i] + k] = s[i][k]
        BY <2>2, <3>1 DEF Concatenates
      <3>5. o[(m + 1) + 1] = o[m + 1] + Len(b)
        BY <1>3, <1>4, <3>2 DEF Starts
      <3> HIDE DEF a, b
      <3>6. Len(a \o b) = Len(a) + Len(b)
        BY <3>3
      <3>7. ASSUME NEW i \in 1 .. m + 1, NEW k \in 1 .. Len(s[i])
            PROVE  (a \o b)[o[i] + k] = s[i][k]
        <4>1. CASE i = m + 1
          <5>1. s[i] = b /\ o[i] = Len(a)
            BY <3>4, <4>1 DEF b
          <5>2. (a \o b)[Len(a) + k] = b[k]
            BY <3>3, <5>1
          <5> QED
            BY <5>1, <5>2
        <4>2. CASE i # m + 1
          <5>1. i \in 1 .. m /\ i \in 1 .. n /\ i + 1 \in 1 .. n + 1 /\ i + 1 <= m + 1
            BY <3>1, <4>2
          <5>2. o[i + 1] <= o[m + 1]
            <6>1. \A q \in Nat : i + 1 <= q /\ q <= n + 1 => o[i + 1] <= o[q]
              BY <1>3, <1>4, <5>1, StartsAscend
            <6>2. m + 1 \in Nat /\ m + 1 <= n + 1
              BY <3>1
            <6> QED
              BY <5>1, <6>1, <6>2
          <5>3. o[i + 1] = o[i] + Len(s[i]) /\ o[i] \in Nat /\ Len(s[i]) \in Nat
            BY <1>3, <1>4, <5>1 DEF Starts
          <5>4. o[i] + k \in 1 .. Len(a)
            <6>1. Len(a) = o[m + 1] /\ Len(a) \in Nat
              BY <3>3, <3>4
            <6> DEFINE start == o[i]
                       length == Len(s[i])
                       total == Len(a)
            <6>2. start \in Nat /\ length \in Nat /\ total \in Nat /\ start + length <= total
              BY <5>2, <5>3, <6>1
            <6>3. k \in 1 .. length
              OBVIOUS
            <6> HIDE DEF start, length, total
            <6>4. start + k \in 1 .. total
              BY <6>2, <6>3
            <6> QED
              BY <6>4 DEF start, total
          <5>5. (a \o b)[o[i] + k] = a[o[i] + k]
            BY <3>3, <5>4
          <5>6. a[o[i] + k] = s[i][k]
            BY <3>4, <5>1
          <5> QED
            BY <5>5, <5>6
        <4> QED
          BY <4>1, <4>2
      <3> QED
        BY <3>3, <3>4, <3>5, <3>6, <3>7 DEF Concatenates
    <2> HIDE DEF T
    <2>3. n \in T
      BY <2>1, <2>2, Induction
    <2> QED
      BY <2>3 DEF T
  <1>8. FlattenSeq(s) = f[n]
    <2>1. Len(s) = n
      OBVIOUS
    <2>2. CASE n = 0
      BY <1>6, <2>1, <2>2 DEF FlattenSeq
    <2>3. CASE n # 0
      <3> DEFINE g == [i \in 1 .. n |-> f[i]]
                 r == LET flatten[i \in 1 .. Len(s)] == IF i = 1 THEN s[i] ELSE flatten[i - 1] \o s[i] IN flatten
                 c == CHOOSE h : IsFlatten(h, n, s)
      <3>1. IsFlatten(g, n, s)
        <4>1. ASSUME NEW i \in 1 .. n
              PROVE  g[i] = IF i = 1 THEN s[i] ELSE g[i - 1] \o s[i]
          <5>1. CASE i = 1
            <6>1. <<>> \o s[i] = s[i]
              OBVIOUS
            <6>2. i - 1 = 0
              BY <5>1
            <6> QED
              BY <1>6, <5>1, <6>1, <6>2
          <5>2. CASE i # 1
            <6>1. i - 1 \in 1 .. n
              BY <5>2
            <6> QED
              BY <1>6, <5>2, <6>1
          <5> QED
            BY <5>1, <5>2
        <4>2. g = [i \in 1 .. n |-> g[i]]
          OBVIOUS
        <4> HIDE DEF g
        <4> QED
          BY <4>1, <4>2 DEF IsFlatten
      <3>2. IsFlatten(c, n, s)
        BY <3>1, Zenon
      <3>3. r = c
        BY <2>1 DEF IsFlatten
      <3>4. FlattenSeq(s) = r[n]
        BY <2>1, <2>3 DEF FlattenSeq
      <3> HIDE DEF r, c
      <3>5. \A i \in 1 .. n : r[i] = IF i = 1 THEN s[i] ELSE r[i - 1] \o s[i]
        BY <3>2, <3>3 DEF IsFlatten
      <3> DEFINE T == {k \in Nat : k + 1 <= n => r[k + 1] = f[k + 1]}
      <3>6. 0 \in T
        <4>1. 1 \in 1 .. n /\ 1 - 1 = 0 /\ 0 + 1 = 1
          BY <2>3
        <4>2. <<>> \o s[1] = s[1]
          BY <4>1
        <4>3. f[1] = f[0] \o s[1]
          BY <1>6, <4>1
        <4>4. r[1] = s[1]
          BY <3>5, <4>1
        <4> QED
          BY <1>6, <4>1, <4>2, <4>3, <4>4
      <3>7. ASSUME NEW k \in Nat, k \in T
            PROVE  k + 1 \in T
        <4>1. SUFFICES ASSUME (k + 1) + 1 <= n
                       PROVE  r[(k + 1) + 1] = f[(k + 1) + 1]
          OBVIOUS
        <4>2. /\ (k + 1) + 1 \in 1 .. n /\ (k + 1) + 1 # 1 /\ ((k + 1) + 1) - 1 = k + 1
              /\ r[k + 1] = f[k + 1]
          BY <3>7, <4>1
        <4> DEFINE q == (k + 1) + 1
        <4>3. q \in 1 .. n /\ q # 1 /\ q - 1 = k + 1
          BY <4>2
        <4> HIDE DEF q
        <4>4. f[q] = f[q - 1] \o s[q]
          BY <1>6, <4>3
        <4>5. r[q] = r[q - 1] \o s[q]
          BY <3>5, <4>3
        <4>6. r[q] = f[q]
          BY <4>2, <4>3, <4>4, <4>5
        <4> QED
          BY <4>6 DEF q
      <3> HIDE DEF T
      <3>8. n - 1 \in T
        <4>1. n - 1 \in Nat
          BY <2>3
        <4> QED
          BY <3>6, <3>7, <4>1, Induction
      <3>9. n - 1 + 1 = n /\ n - 1 + 1 <= n
        OBVIOUS
      <3> QED
        BY <3>4, <3>8, <3>9 DEF T
    <2> QED
      BY <2>2, <2>3
  <1> QED
    BY <1>5, <1>7, <1>8

-----------------------------------------------------------------------------
(* The table functions.                                                    *)

\* Every row has a list, NULL rows an empty one.
HasLists(outs, n) ==
  DOMAIN outs = 1 .. n /\ \A i \in 1 .. n : Len(Lists(outs)[i]) \in Nat
                                         /\ DOMAIN Lists(outs)[i] = 1 .. Len(Lists(outs)[i])
LengthsIn(outs, n) == [i \in 1 .. n |-> Len(Lists(outs)[i])]

\* Row i's output starts behind o[i], and names row i.
FansFrom(out, outs, n, o) ==
  /\ Starts(o, n, LengthsIn(outs, n))
  /\ DOMAIN out = 1 .. o[n + 1] /\ Len(out) = o[n + 1]
  /\ \A i \in 1 .. n : \A k \in 1 .. Len(Lists(outs)[i]) :
       out[o[i] + k] = [parent |-> i - 1, row |-> Lists(outs)[i][k]]

LEMMA FanRows ==
  ASSUME NEW n \in Nat, NEW outs, HasLists(outs, n)
  PROVE  \E o : FansFrom(Fan(outs), outs, n, o)
  <1> DEFINE L == Lists(outs)
             S == UNION {{[parent |-> i - 1, row |-> L[i][k]] : k \in DOMAIN L[i]} : i \in 1 .. n}
             s == [i \in 1 .. n |-> [k \in DOMAIN L[i] |-> [parent |-> i - 1, row |-> L[i][k]]]]
             lens == LengthsIn(outs, n)
             o == Offsets(lens)
  <1>1. ASSUME NEW i \in 1 .. n
        PROVE  /\ s[i] \in Seq(S)
               /\ Len(s[i]) = Len(L[i])
               /\ \A k \in 1 .. Len(L[i]) : s[i][k] = [parent |-> i - 1, row |-> L[i][k]]
    <2>1. Len(L[i]) \in Nat /\ DOMAIN L[i] = 1 .. Len(L[i])
      BY DEF HasLists
    <2>2. \A k \in 1 .. Len(L[i]) : [parent |-> i - 1, row |-> L[i][k]] \in S
      BY <2>1
    <2>3. s[i] = [k \in 1 .. Len(L[i]) |-> [parent |-> i - 1, row |-> L[i][k]]]
      BY <2>1
    <2> DEFINE len == Len(L[i])
               e(k) == [parent |-> i - 1, row |-> L[i][k]]
    <2> HIDE DEF S, s, L
    <2>4. s[i] \in [1 .. len -> S]
      BY <2>2, <2>3
    <2>5. s[i] \in Seq(S) /\ Len(s[i]) = len
      BY <2>1, <2>4
    <2> QED
      BY <2>3, <2>5
  <1>2. lens \in [1 .. n -> Nat]
    BY DEF HasLists, LengthsIn
  <1>3. Starts(o, n, lens)
    <2> HIDE DEF lens
    <2> QED
      BY <1>2, OffsetsStart
  <1>4. s \in [1 .. n -> Seq(S)]
    <2> HIDE DEF S, L
    <2> QED
      BY <1>1
  <1>5. [i \in 1 .. n |-> Len(s[i])] = lens
    <2> HIDE DEF s
    <2> QED
      BY <1>1 DEF LengthsIn
  <1>6. Fan(outs) = FlattenSeq(s)
    BY DEF Fan, Parent, HasLists
  <1> HIDE DEF S, s, L, lens, o
  <1>7. FlattenSeq(s) \in Seq(S) /\ Concatenates(FlattenSeq(s), n, s, o)
    BY <1>3, <1>4, <1>5, Flattened
  <1> DEFINE out == FlattenSeq(s)
  <1>8. DOMAIN out = 1 .. o[n + 1] /\ Len(out) = o[n + 1]
    BY <1>7 DEF Concatenates
  <1>9. ASSUME NEW i \in 1 .. n, NEW k \in 1 .. Len(L[i])
        PROVE  out[o[i] + k] = [parent |-> i - 1, row |-> L[i][k]]
    BY <1>1, <1>7 DEF Concatenates
  <1> HIDE DEF out
  <1>10. FansFrom(out, outs, n, o)
    BY <1>3, <1>8, <1>9 DEF FansFrom, lens, L
  <1> QED
    BY <1>6, <1>10 DEF out

\* Which row a position of the output belongs to.
LEMMA PositionsOfRow ==
  ASSUME NEW n \in Nat, NEW outs, HasLists(outs, n), NEW out, NEW o, FansFrom(out, outs, n, o),
         NEW j \in DOMAIN out
  PROVE  \E i \in 1 .. n : o[i] < j /\ j <= o[i + 1] /\ out[j].parent = i - 1
  <1> DEFINE lens == LengthsIn(outs, n)
  <1>1. lens \in [1 .. n -> Nat]
    BY DEF HasLists, LengthsIn
  <1>2. \A i \in 1 .. n : lens[i] = Len(Lists(outs)[i])
    BY DEF LengthsIn
  <1> HIDE DEF lens
  <1>3. Starts(o, n, lens)
    BY DEF FansFrom, lens
  <1>4. j \in Nat /\ 0 < j /\ j <= o[n + 1]
    <2>1. o[n + 1] \in Nat
      BY <1>3 DEF Starts
    <2> QED
      BY <2>1 DEF FansFrom
  <1>5. PICK i \in 1 .. n : o[i] < j /\ j <= o[i + 1]
    BY <1>1, <1>3, <1>4, EveryPositionHasARow
  <1>6. o[i] \in Nat /\ lens[i] \in Nat /\ o[i + 1] = o[i] + lens[i]
    BY <1>1, <1>3 DEF Starts
  <1> DEFINE k == j - o[i]
  <1>7. k \in 1 .. lens[i] /\ o[i] + k = j
    BY <1>4, <1>5, <1>6
  <1> HIDE DEF k
  <1>8. out[o[i] + k] = [parent |-> i - 1, row |-> Lists(outs)[i][k]]
    BY <1>2, <1>7 DEF FansFrom
  <1> QED
    BY <1>5, <1>7, <1>8

\* The properties of FansOutPerRow, of an output and the batch's size, and of an
\* output and what a row has alone.
ParentsInOrder(out, n) ==
  \A j \in DOMAIN out : /\ out[j].parent \in 0 .. n - 1
                        /\ j > 1 => out[j - 1].parent <= out[j].parent
RowsOf(out, i, alone) ==
  \E first \in 0 .. Len(out) :
    /\ {j \in DOMAIN out : out[j].parent = i - 1} = first + 1 .. first + Len(alone)
    /\ \A k \in DOMAIN alone : out[first + k].row = alone[k].row

LEMMA FanInOrder ==
  ASSUME NEW n \in Nat, NEW outs, HasLists(outs, n)
  PROVE  ParentsInOrder(Fan(outs), n)
  <1> DEFINE out == Fan(outs)
             lens == LengthsIn(outs, n)
  <1>1. PICK o : FansFrom(out, outs, n, o)
    BY FanRows
  <1> HIDE DEF out
  <1>2. lens \in [1 .. n -> Nat]
    BY DEF HasLists, LengthsIn
  <1> HIDE DEF lens
  <1>3. Starts(o, n, lens) /\ DOMAIN out = 1 .. o[n + 1] /\ o[n + 1] \in Nat
    BY <1>1 DEF FansFrom, Starts, lens
  <1>4. ASSUME NEW j \in DOMAIN out
        PROVE  /\ out[j].parent \in 0 .. n - 1
               /\ j > 1 => out[j - 1].parent <= out[j].parent
    <2>1. PICK i \in 1 .. n : o[i] < j /\ j <= o[i + 1] /\ out[j].parent = i - 1
      BY <1>1, PositionsOfRow
    <2>2. ASSUME j > 1
          PROVE  out[j - 1].parent <= out[j].parent
      <3>1. j - 1 \in DOMAIN out /\ j \in Nat
        BY <1>3, <2>2
      <3> DEFINE p == j - 1
      <3>2. PICK h \in 1 .. n : o[h] < p /\ p <= o[h + 1] /\ out[p].parent = h - 1
        <4>1. p \in DOMAIN out
          BY <3>1
        <4> HIDE DEF p
        <4> QED
          BY <1>1, <4>1, PositionsOfRow
      <3>3. h <= i
        <4>1. SUFFICES ASSUME i + 1 <= h
                       PROVE  FALSE
          OBVIOUS
        <4>2. i + 1 \in 1 .. n + 1 /\ h \in Nat /\ h <= n + 1
          OBVIOUS
        <4>3. \A q \in Nat : i + 1 <= q /\ q <= n + 1 => o[i + 1] <= o[q]
          BY <1>2, <1>3, <4>2, StartsAscend
        <4>4. o[i + 1] <= o[h] /\ o[i + 1] \in Nat /\ o[h] \in Nat
          BY <1>3, <4>1, <4>2, <4>3 DEF Starts
        <4> QED
          BY <2>1, <3>1, <3>2, <4>4
      <3> QED
        BY <2>1, <3>2, <3>3
    <2> QED
      BY <2>1, <2>2
  <1> HIDE DEF out
  <1>5. ParentsInOrder(out, n)
    BY <1>4 DEF ParentsInOrder
  <1> QED
    BY <1>5 DEF out

LEMMA FanSplits ==
  ASSUME NEW n \in Nat, NEW outs, HasLists(outs, n), NEW i \in 1 .. n,
         NEW one, DOMAIN one = 1 .. 1, one[1] = outs[i]
  PROVE  RowsOf(Fan(outs), i, Fan(one))
  <1> DEFINE out == Fan(outs)
             alone == Fan(one)
             L == Lists(outs)
             lens == LengthsIn(outs, n)
  <1>1. PICK o : FansFrom(out, outs, n, o)
    BY FanRows
  <1>2. L[i] = Lists(one)[1]
    BY DEF Lists, HasLists
  <1>3. HasLists(one, 1)
    <2>1. Len(L[i]) \in Nat /\ DOMAIN L[i] = 1 .. Len(L[i])
      BY DEF HasLists
    <2> HIDE DEF L
    <2>2. \A h \in 1 .. 1 : h = 1
      OBVIOUS
    <2> QED
      BY <1>2, <2>1, <2>2 DEF HasLists
  <1>4. PICK a : FansFrom(alone, one, 1, a)
    BY <1>3, FanRows
  <1> HIDE DEF out, alone
  <1>5. a[1] = 0 /\ a[1 + 1] = Len(L[i]) /\ Len(L[i]) \in Nat
    <2>1. a[1] = 0 /\ a[1 + 1] = a[1] + LengthsIn(one, 1)[1]
      BY <1>4 DEF FansFrom, Starts
    <2>2. LengthsIn(one, 1)[1] = Len(L[i])
      BY <1>2 DEF LengthsIn
    <2>3. Len(L[i]) \in Nat
      BY DEF HasLists
    <2> HIDE DEF L
    <2> QED
      BY <2>1, <2>2, <2>3
  <1>6. /\ DOMAIN alone = 1 .. Len(L[i]) /\ Len(alone) = Len(L[i])
        /\ \A k \in 1 .. Len(L[i]) : alone[k].row = L[i][k]
    <2>1. DOMAIN alone = 1 .. Len(L[i]) /\ Len(alone) = Len(L[i])
      BY <1>4, <1>5 DEF FansFrom
    <2>2. ASSUME NEW k \in 1 .. Len(L[i])
          PROVE  alone[k].row = L[i][k]
      <3>1. alone[a[1] + k] = [parent |-> 1 - 1, row |-> L[i][k]]
        <4> HIDE DEF L
        <4> QED
          BY <1>2, <1>4 DEF FansFrom
      <3>2. a[1] + k = k
        BY <1>5
      <3> QED
        BY <3>1, <3>2
    <2> QED
      BY <2>1, <2>2
  <1>7. lens \in [1 .. n -> Nat] /\ lens[i] = Len(L[i])
    BY DEF HasLists, LengthsIn
  <1>8. Starts(o, n, lens) /\ DOMAIN out = 1 .. o[n + 1] /\ Len(out) = o[n + 1]
    BY <1>1 DEF FansFrom
  <1>9. \A k \in 1 .. Len(L[i]) : out[o[i] + k] = [parent |-> i - 1, row |-> L[i][k]]
    BY <1>1 DEF FansFrom
  <1> DEFINE len == Len(L[i])
  <1> HIDE DEF lens, L, len
  <1>10. /\ o[i] \in Nat /\ o[i + 1] \in Nat /\ o[n + 1] \in Nat /\ len \in Nat
         /\ o[i + 1] = o[i] + len
    BY <1>5, <1>7, <1>8 DEF Starts, len
  <1>11. o[i + 1] <= o[n + 1]
    <2>1. i + 1 \in 1 .. n + 1 /\ n + 1 \in Nat
      OBVIOUS
    <2>2. \A q \in Nat : i + 1 <= q /\ q <= n + 1 => o[i + 1] <= o[q]
      BY <1>7, <1>8, <2>1, StartsAscend
    <2> QED
      BY <2>1, <2>2
  <1>12. o[i] \in 0 .. Len(out)
    BY <1>8, <1>10, <1>11
  <1>13. {j \in DOMAIN out : out[j].parent = i - 1} = o[i] + 1 .. o[i] + len
    <2>1. ASSUME NEW j \in DOMAIN out, out[j].parent = i - 1
          PROVE  j \in o[i] + 1 .. o[i] + len
      <3>1. PICK h \in 1 .. n : o[h] < j /\ j <= o[h + 1] /\ out[j].parent = h - 1
        BY <1>1, PositionsOfRow
      <3>2. h = i
        BY <2>1, <3>1
      <3>3. j \in Nat
        BY <1>8, <1>10
      <3> QED
        BY <1>10, <3>1, <3>2, <3>3
    <2>2. ASSUME NEW j \in o[i] + 1 .. o[i] + len
          PROVE  j \in DOMAIN out /\ out[j].parent = i - 1
      <3> DEFINE k == j - o[i]
      <3>1. k \in 1 .. len /\ o[i] + k = j
        BY <1>10
      <3>2. j \in 1 .. o[n + 1]
        BY <1>10, <1>11
      <3> HIDE DEF k
      <3>3. out[j] = [parent |-> i - 1, row |-> L[i][k]]
        BY <1>9, <3>1 DEF len
      <3> QED
        BY <1>8, <3>2, <3>3
    <2> QED
      BY <2>1, <2>2
  <1>14. \A k \in DOMAIN alone : out[o[i] + k].row = alone[k].row
    <2>1. ASSUME NEW k \in DOMAIN alone
          PROVE  out[o[i] + k].row = alone[k].row
      <3>1. k \in 1 .. Len(L[i]) /\ alone[k].row = L[i][k]
        BY <1>6
      <3>2. out[o[i] + k] = [parent |-> i - 1, row |-> L[i][k]]
        BY <1>9, <3>1
      <3> QED
        BY <3>1, <3>2
    <2> QED
      BY <2>1
  <1>15. Len(alone) = len
    BY <1>6 DEF len
  <1> HIDE DEF out, alone
  <1>16. RowsOf(out, i, alone)
    BY <1>12, <1>13, <1>14, <1>15 DEF RowsOf
  <1> QED
    BY <1>16 DEF out, alone

\* What the table functions make of a batch: a list for every row, that depends on
\* the row alone.
IsBatch(rows, n, blobs) == n \in Nat /\ rows \in [1 .. n -> {None} \cup {Some(b) : b \in blobs}]

LEMMA BatchOf ==
  ASSUME NEW blobs, NEW rows \in Rows(blobs)
  PROVE  \E n \in Nat : IsBatch(rows, n, blobs) /\ Len(rows) = n
  <1>1. MaxRows \in Nat
    BY AnswersAssumption
  <1>2. PICK n \in 0 .. MaxRows : rows \in [1 .. n -> {None} \cup {Some(b) : b \in blobs}]
    BY DEF Rows
  <1>3. n \in Nat /\ Len(rows) = n
    BY <1>1, <1>2
  <1> QED
    BY <1>2, <1>3 DEF IsBatch

LEMMA OptionFacts ==
  ASSUME NEW x
  PROVE  IsSome(Some(x)) /\ Get(Some(x)) = x /\ ~IsSome(None) /\ None = <<>> /\ Some(x) # None
  BY DEF IsSome, Get, Some, None

LEMMA ItemsFan ==
  ASSUME NEW rows, NEW n \in Nat, IsBatch(rows, n, Blobs["seq_decode"])
  PROVE  HasLists(Every(rows, SeqItems), n)
  <1> DEFINE outs == Every(rows, SeqItems)
  <1>1. DOMAIN outs = 1 .. n /\ DOMAIN rows = 1 .. n
    BY DEF Every, IsBatch
  <1>2. ASSUME NEW i \in 1 .. n
        PROVE  Len(Lists(outs)[i]) \in Nat /\ DOMAIN Lists(outs)[i] = 1 .. Len(Lists(outs)[i])
    <2>1. CASE rows[i] = None
      <3>1. outs[i] = None
        BY <1>1, <2>1, OptionFacts DEF Every
      <3>2. Lists(outs)[i] = <<>>
        BY <1>1, <3>1, OptionFacts DEF Lists
      <3> QED
        BY <3>2
    <2>2. CASE rows[i] # None
      <3>1. PICK b \in Blobs["seq_decode"] : rows[i] = Some(b)
        BY <2>2 DEF IsBatch
      <3>2. outs[i] = Some(SeqItems(b))
        BY <1>1, <3>1, OptionFacts DEF Every
      <3>3. Lists(outs)[i] = SeqItems(b)
        <4> HIDE DEF outs
        <4> QED
          BY <1>1, <3>2, OptionFacts DEF Lists
      <3>4. b.items \in Seq(Range(b.items))
        BY AnswersAssumption
      <3>5. DOMAIN b.items = 1 .. Len(b.items) /\ Len(b.items) \in Nat
        BY <3>4
      <3>6. DOMAIN SeqItems(b) = 1 .. Len(b.items)
        BY <3>5 DEF SeqItems
      <3>7. Len(SeqItems(b)) = Len(b.items)
        BY <3>5, <3>6 DEF SeqItems
      <3> QED
        BY <3>3, <3>5, <3>6, <3>7
    <2> QED
      BY <2>1, <2>2
  <1> QED
    BY <1>1, <1>2 DEF HasLists

LEMMA ObjectsFan ==
  ASSUME NEW objects, NEW n \in Nat, DOMAIN objects = 1 .. n
  PROVE  HasLists(Every(objects, AttestationRows), n)
  <1> DEFINE outs == Every(objects, AttestationRows)
  <1>1. DOMAIN outs = 1 .. n
    BY DEF Every
  <1>2. ASSUME NEW i \in 1 .. n
        PROVE  Len(Lists(outs)[i]) \in Nat /\ DOMAIN Lists(outs)[i] = 1 .. Len(Lists(outs)[i])
    <2>1. CASE ~IsSome(objects[i])
      <3>1. outs[i] = None
        BY <2>1 DEF Every
      <3>2. Lists(outs)[i] = <<>>
        <4> HIDE DEF outs
        <4> QED
          BY <1>1, <3>1, OptionFacts DEF Lists
      <3> QED
        BY <3>2
    <2>2. CASE IsSome(objects[i])
      <3>1. outs[i] = Some(AttestationRows(Get(objects[i])))
        BY <2>2 DEF Every
      <3>2. Lists(outs)[i] = AttestationRows(Get(objects[i]))
        <4> HIDE DEF outs
        <4> QED
          BY <1>1, <3>1, OptionFacts DEF Lists
      <3>3. \E x : AttestationRows(Get(objects[i])) = <<x>>
        BY DEF AttestationRows
      <3>4. PICK x : Lists(outs)[i] = <<x>>
        BY <3>2, <3>3
      <3>5. Len(<<x>>) = 1 /\ DOMAIN <<x>> = 1 .. 1
        OBVIOUS
      <3> QED
        BY <3>4, <3>5
    <2> QED
      BY <2>1, <2>2
  <1> QED
    BY <1>1, <1>2 DEF HasLists

\* What a table function answers, and what it owes for each row.
FansRight(fn, rows) ==
  LET out == FannedOut(fn, rows)
  IN  /\ ParentsInOrder(out, Len(rows))
      /\ \A i \in DOMAIN rows : RowsOf(out, i, FannedOut(fn, <<rows[i]>>))

LEMMA SequencesFanOut ==
  ASSUME NEW rows \in Rows(Blobs["seq_decode"])
  PROVE  FansRight("seq_decode", rows)
  <1>1. PICK n \in Nat : IsBatch(rows, n, Blobs["seq_decode"]) /\ Len(rows) = n
    BY BatchOf
  <1> DEFINE outs == Every(rows, SeqItems)
             one(i) == Every(<<rows[i]>>, SeqItems)
  <1>2. HasLists(outs, n)
    BY <1>1, ItemsFan
  <1>3. DOMAIN rows = 1 .. n
    BY <1>1 DEF IsBatch
  <1>4. ASSUME NEW i \in 1 .. n
        PROVE  DOMAIN one(i) = 1 .. 1 /\ one(i)[1] = outs[i]
    BY <1>3 DEF Every
  <1>5. FannedOut("seq_decode", rows) = Fan(outs) /\ \A i \in 1 .. n : FannedOut("seq_decode", <<rows[i]>>) = Fan(one(i))
    BY DEF FannedOut, SeqDecode
  <1> HIDE DEF outs, one
  <1>6. ParentsInOrder(Fan(outs), n) /\ \A i \in 1 .. n : RowsOf(Fan(outs), i, Fan(one(i)))
    BY <1>2, <1>4, FanInOrder, FanSplits
  <1> QED
    BY <1>1, <1>3, <1>5, <1>6 DEF FansRight

LEMMA ObjectsFanOut ==
  ASSUME NEW rows \in Rows(Blobs["attestation"])
  PROVE  FansRight("attestation", rows)
  <1>1. PICK n \in Nat : IsBatch(rows, n, Blobs["attestation"]) /\ Len(rows) = n
    BY BatchOf
  <1> DEFINE objects == AttestationObjects(rows)
             single(i) == AttestationObjects(<<rows[i]>>)
             outs == Every(objects, AttestationRows)
             one(i) == Every(single(i), AttestationRows)
  <1>2. DOMAIN rows = 1 .. n
    BY <1>1 DEF IsBatch
  <1>3. DOMAIN objects = 1 .. n
    BY <1>2 DEF AttestationObjects, FirstItems, Each
  <1>4. ASSUME NEW i \in 1 .. n
        PROVE  DOMAIN single(i) = 1 .. 1 /\ single(i)[1] = objects[i]
    BY <1>2 DEF AttestationObjects, FirstItems, Each
  <1>5. FannedOut("attestation", rows) = Fan(outs) /\ \A i \in 1 .. n : FannedOut("attestation", <<rows[i]>>) = Fan(one(i))
    BY DEF FannedOut, AttestationTable
  <1> HIDE DEF objects, single
  <1>6. HasLists(outs, n)
    BY <1>3, ObjectsFan
  <1>7. ASSUME NEW i \in 1 .. n
        PROVE  DOMAIN one(i) = 1 .. 1 /\ one(i)[1] = outs[i]
    BY <1>3, <1>4 DEF Every
  <1> HIDE DEF outs, one
  <1>8. ParentsInOrder(Fan(outs), n) /\ \A i \in 1 .. n : RowsOf(Fan(outs), i, Fan(one(i)))
    BY <1>6, <1>7, FanInOrder, FanSplits
  <1> QED
    BY <1>1, <1>2, <1>5, <1>8 DEF FansRight

-----------------------------------------------------------------------------
(* Certificate chains.                                                     *)

\* Nothing, or a sequence.
IsSequence(q) == Len(q) \in Nat /\ q = [k \in 1 .. Len(q) |-> q[k]]
IsChain(c) == IsSome(c) => IsSequence(Get(c))
HasChain(h) == IsChain(h["x5chain"])
HaveChains(d) == HasChain(d.protected) /\ HasChain(d.unprotected)

\* The loop over the elements of an array stays among sequences (decode_x5chain).
LEMMA BytesStay ==
  ASSUME NEW n \in Nat, NEW es, DOMAIN es = 1 .. n, NEW X, <<>> \in X,
         \A x \in X, i \in 1 .. n : WithBytes(x, es[i]) \in X
  PROVE  ByteStrings(es) \in X
  <1> DEFINE step == [i \in 1 .. n |-> [x \in X |-> WithBytes(x, es[i])]]
             fold(g) == g = [s \in SUBSET DOMAIN es |->
                               IF s = {} THEN <<>> ELSE WithBytes(g[s \ {Max(s)}], es[Max(s)])]
             it == CHOOSE g : fold(g)
  <1>1. step \in [1 .. n -> [X -> X]]
    OBVIOUS
  <1>2. ASSUME NEW i \in 1 .. n, NEW x \in X
        PROVE  step[i][x] = WithBytes(x, es[i])
    OBVIOUS
  <1>3. ByteStrings(es) = it[DOMAIN es]
    BY DEF ByteStrings, FoldLeft, MapThenFoldSet
  <1> HIDE DEF step
  <1>4. PICK g \in [SUBSET (1 .. n) -> X] : IsFold(g, n, <<>>, step)
    BY <1>1, FoldExists DEF HasFold
  <1>5. fold(g)
    <2>1. ASSUME NEW s \in SUBSET (1 .. n), s # {}
          PROVE  step[Max(s)][g[s \ {Max(s)}]] = WithBytes(g[s \ {Max(s)}], es[Max(s)])
      <3>1. Max(s) \in 1 .. n /\ g[s \ {Max(s)}] \in X
        BY <2>1, MaxInside
      <3> QED
        BY <1>2, <3>1
    <2>2. g = [s \in SUBSET (1 .. n) |-> IF s = {} THEN <<>> ELSE step[Max(s)][g[s \ {Max(s)}]]]
      BY <1>4 DEF IsFold
    <2> QED
      BY <2>1, <2>2
  <1>6. fold(it)
    BY <1>5
  <1> HIDE DEF it
  <1>7. it[{}] = <<>>
    BY <1>6
  <1>8. ASSUME NEW s \in SUBSET (1 .. n), s # {}, it[s \ {Max(s)}] \in X
        PROVE  it[s] = step[Max(s)][it[s \ {Max(s)}]]
    <2>1. Max(s) \in 1 .. n
      BY <1>8, MaxInside
    <2>2. it[s] = WithBytes(it[s \ {Max(s)}], es[Max(s)])
      BY <1>6, <1>8
    <2> QED
      BY <1>2, <1>8, <2>1, <2>2
  <1>9. PICK f \in [0 .. n -> X] : IsLoop(f, it, n, <<>>, step)
    <2>1. FoldsIn(it, n, X, <<>>, step)
      BY <1>7, <1>8 DEF FoldsIn
    <2> QED
      BY <1>1, <2>1, FoldRun DEF HasLoop
  <1> QED
    BY <1>3, <1>9 DEF IsLoop

LEMMA ByteStringsAre ==
  ASSUME NEW items, items \in Seq(Value)
  PROVE  IsSequence(ByteStrings(items))
  <1> DEFINE n == Len(items)
             X == Seq({items[i].bytes : i \in 1 .. n})
  <1>1. n \in Nat /\ DOMAIN items = 1 .. n
    OBVIOUS
  <1>2. <<>> \in X
    OBVIOUS
  <1>3. ASSUME NEW x \in X, NEW i \in 1 .. n
        PROVE  WithBytes(x, items[i]) \in X
    BY DEF WithBytes
  <1> HIDE DEF X, n
  <1>4. ByteStrings(items) \in X
    BY <1>1, <1>2, <1>3, BytesStay
  <1> QED
    BY <1>4 DEF X, IsSequence

LEMMA ChainRead ==
  ASSUME NEW v \in Value
  PROVE  IsChain(X5Chain(v))
  <1>1. CASE Is(v, "bytes")
    <2>1. X5Chain(v) = Some(<<v.bytes>>)
      BY <1>1 DEF X5Chain
    <2>2. IsSequence(<<v.bytes>>)
      BY DEF IsSequence
    <2> QED
      BY <2>1, <2>2, OptionFacts DEF IsChain
  <1>2. CASE ~Is(v, "bytes") /\ Is(v, "array") /\ ByteStrings(v.items) # <<>>
    <2>1. X5Chain(v) = Some(ByteStrings(v.items))
      BY <1>2 DEF X5Chain
    <2>2. v.items \in Seq(Value)
      BY <1>2, AnswersAssumption DEF IsValue
    <2> QED
      BY <2>1, <2>2, ByteStringsAre, OptionFacts DEF IsChain
  <1>3. CASE ~Is(v, "bytes") /\ ~(Is(v, "array") /\ ByteStrings(v.items) # <<>>)
    <2>1. X5Chain(v) = None
      BY <1>3 DEF X5Chain
    <2> QED
      BY <2>1, OptionFacts DEF IsChain
  <1> QED
    BY <1>1, <1>2, <1>3

\* The loop over the entries of a header map (decode_header_map).
LEMMA HeadersStay ==
  ASSUME NEW n \in Nat, NEW es, DOMAIN es = 1 .. n, NEW X, NoHeaders \in X,
         \A x \in X, i \in 1 .. n : HeaderEntry(x, es[i]) \in X
  PROVE  FoldLeft(HeaderEntry, NoHeaders, es) \in X
  <1> DEFINE step == [i \in 1 .. n |-> [x \in X |-> HeaderEntry(x, es[i])]]
             fold(g) == g = [s \in SUBSET DOMAIN es |->
                               IF s = {} THEN NoHeaders ELSE HeaderEntry(g[s \ {Max(s)}], es[Max(s)])]
             it == CHOOSE g : fold(g)
  <1>1. step \in [1 .. n -> [X -> X]]
    OBVIOUS
  <1>2. ASSUME NEW i \in 1 .. n, NEW x \in X
        PROVE  step[i][x] = HeaderEntry(x, es[i])
    OBVIOUS
  <1>3. FoldLeft(HeaderEntry, NoHeaders, es) = it[DOMAIN es]
    BY DEF FoldLeft, MapThenFoldSet
  <1> HIDE DEF step
  <1>4. PICK g \in [SUBSET (1 .. n) -> X] : IsFold(g, n, NoHeaders, step)
    BY <1>1, FoldExists DEF HasFold
  <1>5. fold(g)
    <2>1. ASSUME NEW s \in SUBSET (1 .. n), s # {}
          PROVE  step[Max(s)][g[s \ {Max(s)}]] = HeaderEntry(g[s \ {Max(s)}], es[Max(s)])
      <3>1. Max(s) \in 1 .. n /\ g[s \ {Max(s)}] \in X
        BY <2>1, MaxInside
      <3> QED
        BY <1>2, <3>1
    <2>2. g = [s \in SUBSET (1 .. n) |-> IF s = {} THEN NoHeaders ELSE step[Max(s)][g[s \ {Max(s)}]]]
      BY <1>4 DEF IsFold
    <2> QED
      BY <2>1, <2>2
  <1>6. fold(it)
    BY <1>5
  <1> HIDE DEF it
  <1>7. it[{}] = NoHeaders
    BY <1>6
  <1>8. ASSUME NEW s \in SUBSET (1 .. n), s # {}, it[s \ {Max(s)}] \in X
        PROVE  it[s] = step[Max(s)][it[s \ {Max(s)}]]
    <2>1. Max(s) \in 1 .. n
      BY <1>8, MaxInside
    <2>2. it[s] = HeaderEntry(it[s \ {Max(s)}], es[Max(s)])
      BY <1>6, <1>8
    <2> QED
      BY <1>2, <1>8, <2>1, <2>2
  <1>9. PICK f \in [0 .. n -> X] : IsLoop(f, it, n, NoHeaders, step)
    <2>1. FoldsIn(it, n, X, NoHeaders, step)
      BY <1>7, <1>8 DEF FoldsIn
    <2> QED
      BY <1>1, <2>1, FoldRun DEF HasLoop
  <1> QED
    BY <1>3, <1>9 DEF IsLoop

Headers == DOMAIN NoHeaders

LEMMA HeaderNames == "x5chain" \in Headers /\ "x5t" \in Headers /\ Headers = Range(Label)
  <1>1. Headers = Range(Label)
    BY DEF Headers, NoHeaders
  <1>2. 33 \in DOMAIN Label /\ 34 \in DOMAIN Label
    BY DEF Label
  <1>3. Label[33] = "x5chain"
    BY DEF Label
  <1>4. Label[34] = "x5t"
    BY DEF Label
  <1> QED
    BY <1>1, <1>2, <1>3, <1>4 DEF Range

LEMMA NoChain == HasChain(NoHeaders)
  <1>1. NoHeaders["x5chain"] = None
    BY HeaderNames DEF NoHeaders, Headers
  <1> QED
    BY <1>1, OptionFacts DEF HasChain, IsChain

LEMMA HeadersHaveChain ==
  ASSUME NEW v \in Value
  PROVE  HasChain(DecodeHeaderMap(v))
  <1>1. CASE ~Is(v, "map")
    BY <1>1, NoChain DEF DecodeHeaderMap
  <1>2. CASE Is(v, "map")
    <2> DEFINE es == v.entries
               n == Len(es)
               V == {None} \cup {HeaderValue(f, es[i][2]) : f \in Headers, i \in 1 .. n}
               X == {h \in [Headers -> V] : HasChain(h)}
    <2>1. es \in Seq(Value \X Value)
      BY <1>2, AnswersAssumption DEF IsValue
    <2>2. n \in Nat /\ DOMAIN es = 1 .. n
      BY <2>1
    <2>3. \A i \in 1 .. n : es[i][2] \in Value
      BY <2>1, <2>2
    <2>4. NoHeaders \in X
      <3>1. NoHeaders \in [Headers -> V]
        BY DEF NoHeaders, Headers
      <3> QED
        BY <3>1, NoChain
    <2>5. ASSUME NEW h \in X, NEW i \in 1 .. n
          PROVE  HeaderEntry(h, es[i]) \in X
      <3> DEFINE e == es[i]
                 f == FieldOf(Label, e)
                 w == HeaderValue(Get(f), e[2])
      <3>1. CASE ~IsSome(f)
        BY <3>1 DEF HeaderEntry
      <3>2. CASE IsSome(f)
        <4>1. Get(f) \in Headers
          BY <3>2, HeaderNames, OptionFacts DEF FieldOf, Range
        <4>2. HeaderEntry(h, e) = [h EXCEPT ![Get(f)] = w]
          BY <3>2 DEF HeaderEntry
        <4>3. w \in V
          BY <4>1
        <4>4. Get(f) = "x5chain" => IsChain(w)
          <5>1. "x5chain" \notin {"alg", "content_type"} /\ "x5chain" # "crit" /\ "x5chain" \notin {"kid", "iv"}
            OBVIOUS
          <5>2. HeaderValue("x5chain", e[2]) = X5Chain(e[2])
            BY <5>1 DEF HeaderValue
          <5> QED
            BY <2>3, <5>2, ChainRead
        <4> HIDE DEF V, e, f, w
        <4>5. [h EXCEPT ![Get(f)] = w] \in [Headers -> V]
          BY <4>1, <4>3
        <4>6. HasChain([h EXCEPT ![Get(f)] = w])
          BY <4>1, <4>4, HeaderNames DEF HasChain
        <4>7. HeaderEntry(h, e) \in X
          BY <4>2, <4>5, <4>6
        <4> QED
          BY <4>7 DEF e
      <3> QED
        BY <3>1, <3>2
    <2> HIDE DEF X
    <2>6. FoldLeft(HeaderEntry, NoHeaders, es) \in X
      <3> HIDE DEF n, es
      <3> QED
        BY <2>2, <2>4, <2>5, HeadersStay
    <2> QED
      BY <1>2, <2>6 DEF DecodeHeaderMap, X
  <1> QED
    BY <1>1, <1>2

LEMMA ProtectedHasChain ==
  ASSUME NEW v \in Value
  PROVE  HasChain(DecodeProtected(v))
  <1>1. CASE Is(v, "bytes") /\ IsSome(ParseBytes(v.bytes))
    <2>1. Get(ParseBytes(v.bytes)) \in Value
      BY <1>1, AnswersAssumption DEF IsValue
    <2> QED
      BY <1>1, <2>1, HeadersHaveChain DEF DecodeProtected
  <1>2. CASE Is(v, "bytes") /\ ~IsSome(ParseBytes(v.bytes))
    BY <1>2, NoChain DEF DecodeProtected
  <1>3. CASE ~Is(v, "bytes")
    BY <1>3, HeadersHaveChain DEF DecodeProtected
  <1> QED
    BY <1>1, <1>2, <1>3

LEMMA ArrayHasChains ==
  ASSUME NEW v \in Value, NEW tag, IsSome(DecodeArray(v, tag))
  PROVE  /\ HaveChains(Get(DecodeArray(v, tag)))
         /\ \A t : HaveChains([Get(DecodeArray(v, tag)) EXCEPT !.tag = t])
  <1>1. Is(v, "array") /\ ~(Len(v.items) < 3)
    BY OptionFacts DEF DecodeArray
  <1>2. v.items \in Seq(Value)
    BY <1>1, AnswersAssumption DEF IsValue
  <1>3. v.items[1] \in Value /\ v.items[2] \in Value
    BY <1>1, <1>2
  <1> DEFINE p == DecodeProtected(v.items[1])
             u == DecodeHeaderMap(v.items[2])
  <1>4. HasChain(p) /\ HasChain(u)
    BY <1>3, HeadersHaveChain, ProtectedHasChain
  <1> HIDE DEF p, u
  <1> DEFINE m == Get(DecodeArray(v, tag))
  <1>5. m.protected = p /\ m.unprotected = u /\ "protected" # "tag" /\ "unprotected" # "tag"
    BY <1>1, OptionFacts DEF DecodeArray, p, u
  <1>9. {"protected", "unprotected"} \subseteq DOMAIN m
    BY <1>1, OptionFacts DEF DecodeArray
  <1> HIDE DEF m
  <1>6. \A t : [m EXCEPT !.tag = t].protected = p /\ [m EXCEPT !.tag = t].unprotected = u
    BY <1>5, <1>9
  <1>7. HaveChains(m)
    BY <1>4, <1>5 DEF HaveChains
  <1>8. \A t : HaveChains([m EXCEPT !.tag = t])
    BY <1>4, <1>6 DEF HaveChains
  <1> QED
    BY <1>7, <1>8 DEF m

IsUnwrapped(at, v, tags, n) ==
  at = [k \in 0 .. n |-> IF k = 0 THEN v
                         ELSE IF Is(at[k - 1], "tag") /\ at[k - 1].tag \in tags THEN at[k - 1].inner ELSE at[k - 1]]

LEMMA UnwrappedStay ==
  ASSUME NEW v \in Value, NEW tags
  PROVE  Unwrapped(v, tags)[MaxNesting] \in Value
  <1> DEFINE n == MaxNesting
             Inner(x) == IF Is(x, "tag") /\ x.tag \in tags THEN x.inner ELSE x
             step == [i \in 1 .. n |-> [x \in Value |-> Inner(x)]]
  <1>1. n \in Nat
    BY CoseAssumption
  <1>2. ASSUME NEW x \in Value
        PROVE  Inner(x) \in Value
    BY AnswersAssumption DEF IsValue
  <1>3. step \in [1 .. n -> [Value -> Value]]
    BY <1>2
  <1>4. \A i \in 1 .. n, x \in Value : step[i][x] = Inner(x)
    OBVIOUS
  <1> HIDE DEF step, n
  <1>5. PICK f \in [0 .. n -> Value] : IsRecursion(f, n, v, step)
    BY <1>1, <1>3, RecursionExists DEF HasRecursion
  <1>6. f[0] = v /\ \A i \in 1 .. n : f[i] = Inner(f[i - 1])
    <2>1. \A i \in 1 .. n : f[i - 1] \in Value
      BY <1>1
    <2> QED
      BY <1>4, <1>5, <2>1 DEF IsRecursion
  <1> DEFINE r == Unwrapped(v, tags)
             c == CHOOSE at : IsUnwrapped(at, v, tags, n)
  <1>7. IsUnwrapped(f, v, tags, n)
    <2>1. ASSUME NEW k \in 0 .. n
          PROVE  f[k] = IF k = 0 THEN v ELSE Inner(f[k - 1])
      BY <1>1, <1>6
    <2>2. f = [k \in 0 .. n |-> f[k]]
      OBVIOUS
    <2> QED
      BY <2>1, <2>2 DEF IsUnwrapped
  <1>8. IsUnwrapped(c, v, tags, n)
    BY <1>7, Zenon
  <1>9. r = c
    BY DEF Unwrapped, IsUnwrapped, n
  <1> HIDE DEF r, c
  <1>10. \A k \in 0 .. n : r[k] = IF k = 0 THEN v ELSE Inner(r[k - 1])
    BY <1>8, <1>9 DEF IsUnwrapped
  <1> HIDE DEF Inner
  <1> DEFINE T == {k \in Nat : k <= n => r[k] \in Value}
  <1>11. 0 \in T
    BY <1>1, <1>10
  <1>12. ASSUME NEW k \in Nat, k \in T
         PROVE  k + 1 \in T
    <2>1. SUFFICES ASSUME k + 1 <= n
                   PROVE  r[k + 1] \in Value
      OBVIOUS
    <2>2. k + 1 \in 0 .. n /\ k + 1 # 0 /\ (k + 1) - 1 = k /\ r[k] \in Value
      BY <1>1, <1>12, <2>1
    <2>3. r[k + 1] = Inner(r[k])
      BY <1>10, <2>2
    <2> QED
      BY <1>2, <2>2, <2>3
  <1> HIDE DEF T
  <1>13. n \in T
    BY <1>1, <1>11, <1>12, Induction
  <1> QED
    BY <1>1, <1>13 DEF T, r, n

\* A message has both header maps, each with a chain or none.
LEMMA MessageHasChains ==
  ASSUME NEW value \in Value, IsSome(CoseDecode(value))
  PROVE  HaveChains(Get(CoseDecode(value)))
  <1> DEFINE at == Unwrapped(value, {55799, 61})
             v == at[MaxNesting]
             envelopes == Cardinality({n \in DOMAIN at : IsTag(at[n], 61)})
             w == IF Is(v, "tag") THEN v.inner ELSE v
             tag == IF Is(v, "tag") THEN Some(v.tag) ELSE IF envelopes > 0 THEN Some(61) ELSE None
  <1>1. v \in Value
    BY UnwrappedStay
  <1>2. w \in Value
    BY <1>1, AnswersAssumption DEF IsValue
  <1>3. CoseDecode(value) = Within(DecodeArray(w, tag), envelopes)
    BY DEF CoseDecode
  <1> HIDE DEF v, envelopes, w, tag
  <1>4. CASE IsSome(DecodeArray(w, tag)) /\ envelopes > 1
    <2>1. CoseDecode(value) = Some([Get(DecodeArray(w, tag)) EXCEPT !.tag = Some(61)])
      BY <1>3, <1>4 DEF Within
    <2>2. Get(CoseDecode(value)) = [Get(DecodeArray(w, tag)) EXCEPT !.tag = Some(61)]
      BY <2>1, OptionFacts
    <2> QED
      BY <1>2, <1>4, <2>2, ArrayHasChains
  <1>5. CASE ~(IsSome(DecodeArray(w, tag)) /\ envelopes > 1)
    <2>1. CoseDecode(value) = DecodeArray(w, tag)
      BY <1>3, <1>5 DEF Within
    <2> QED
      BY <1>2, <2>1, ArrayHasChains
  <1> QED
    BY <1>4, <1>5

-----------------------------------------------------------------------------
(* Columns read at one row.                                                *)

\* The same value in row i of one column of rows and row j of another.
Agree(d, i, e, j) == i \in DOMAIN d /\ j \in DOMAIN e /\ d[i] = e[j]

\* The same reading of two Arrow columns, down to a level of nesting.
Same3(a, i, b, j) == ReadRow(a, i) = ReadRow(b, j)
Same2(a, i, b, j) == ReadNested(a, i) = ReadNested(b, j) /\ Same3(a, i, b, j)
Same1(a, i, b, j) == ReadFlat(a, i) = ReadFlat(b, j) /\ Same2(a, i, b, j)
Same0(a, i, b, j) == ReadCell(a, i) = ReadCell(b, j) /\ Same1(a, i, b, j)

LEMMA CellsRead ==
  ASSUME NEW col, NEW i
  PROVE  /\ ReadCell(OptArray(col), i) = col[i] /\ ReadFlat(OptArray(col), i) = col[i]
         /\ ReadNested(OptArray(col), i) = col[i] /\ ReadRow(OptArray(col), i) = col[i]
  BY DEF ReadCell, ReadFlat, ReadNested, ReadRow, ReadVia, OptArray

LEMMA CellsSame ==
  ASSUME NEW d, NEW i, NEW e, NEW j, Agree(d, i, e, j)
  PROVE  Same0(OptArray(d), i, OptArray(e), j)
  BY CellsRead DEF Agree, Same0, Same1, Same2, Same3

\* A struct is NULL where its value is, and has its fields elsewhere.
LEMMA StructRead ==
  ASSUME NEW col, NEW i \in DOMAIN col, NEW fields
  PROVE  /\ ReadFlat(StructOf(col, fields), i) =
              IF IsSome(col[i]) THEN Some([f \in DOMAIN fields |-> ReadCell(fields[f], i)]) ELSE None
         /\ ReadNested(StructOf(col, fields), i) =
              IF IsSome(col[i]) THEN Some([f \in DOMAIN fields |-> ReadFlat(fields[f], i)]) ELSE None
         /\ ReadRow(StructOf(col, fields), i) =
              IF IsSome(col[i]) THEN Some([f \in DOMAIN fields |-> ReadNested(fields[f], i)]) ELSE None
  <1> DEFINE a == StructOf(col, fields)
  <1>1. "cells" \notin DOMAIN a /\ "fields" \in DOMAIN a /\ a.fields = fields
    BY DEF StructOf
  <1>2. IsValid(a, i) <=> IsSome(col[i])
    <2>1. a.valid = Some([k \in DOMAIN col |-> IsSome(col[k])])
      BY DEF StructOf, Validity
    <2>2. IsSome(a.valid) /\ Get(a.valid) = [k \in DOMAIN col |-> IsSome(col[k])]
      BY <2>1, OptionFacts
    <2> QED
      BY <2>2 DEF IsValid
  <1> HIDE DEF a
  <1>3. ReadFlat(a, i) = IF IsSome(col[i]) THEN Some([f \in DOMAIN fields |-> ReadCell(fields[f], i)]) ELSE None
    BY <1>1, <1>2 DEF ReadFlat, ReadVia
  <1>4. ReadNested(a, i) = IF IsSome(col[i]) THEN Some([f \in DOMAIN fields |-> ReadFlat(fields[f], i)]) ELSE None
    BY <1>1, <1>2 DEF ReadNested, ReadVia
  <1>5. ReadRow(a, i) = IF IsSome(col[i]) THEN Some([f \in DOMAIN fields |-> ReadNested(fields[f], i)]) ELSE None
    BY <1>1, <1>2 DEF ReadRow, ReadVia
  <1> QED
    BY <1>3, <1>4, <1>5 DEF a

LEMMA StructIsThere ==
  ASSUME NEW col, NEW i \in DOMAIN col, NEW fields
  PROVE  ReadRow(StructOf(col, fields), i) # None <=> IsSome(col[i])
  <1> DEFINE r == [f \in DOMAIN fields |-> ReadNested(fields[f], i)]
  <1>1. ReadRow(StructOf(col, fields), i) = IF IsSome(col[i]) THEN Some(r) ELSE None
    BY StructRead
  <1>2. Some(r) # None
    BY OptionFacts
  <1> HIDE DEF r
  <1> QED
    BY <1>1, <1>2

\* A struct's reading comes from its value and its fields, one level deeper.
LEMMA StructSame3 ==
  ASSUME NEW d, NEW i, NEW e, NEW j, Agree(d, i, e, j),
         NEW fs, NEW gs, DOMAIN fs = DOMAIN gs, \A f \in DOMAIN fs : Same2(fs[f], i, gs[f], j)
  PROVE  Same3(StructOf(d, fs), i, StructOf(e, gs), j)
  <1>1. [f \in DOMAIN fs |-> ReadNested(fs[f], i)] = [f \in DOMAIN gs |-> ReadNested(gs[f], j)]
    BY DEF Same2
  <1> QED
    <2> DEFINE r == [f \in DOMAIN fs |-> ReadNested(fs[f], i)]
               q == [f \in DOMAIN gs |-> ReadNested(gs[f], j)]
    <2>1. ReadRow(StructOf(d, fs), i) = IF IsSome(d[i]) THEN Some(r) ELSE None
      BY StructRead DEF Agree
    <2>2. ReadRow(StructOf(e, gs), j) = IF IsSome(e[j]) THEN Some(q) ELSE None
      BY StructRead DEF Agree
    <2>3. r = q
      BY <1>1
    <2> HIDE DEF r, q
    <2> QED
      BY <2>1, <2>2, <2>3 DEF Same3, Agree

LEMMA StructSame2 ==
  ASSUME NEW d, NEW i, NEW e, NEW j, Agree(d, i, e, j),
         NEW fs, NEW gs, DOMAIN fs = DOMAIN gs, \A f \in DOMAIN fs : Same1(fs[f], i, gs[f], j)
  PROVE  Same2(StructOf(d, fs), i, StructOf(e, gs), j)
  <1>1. [f \in DOMAIN fs |-> ReadFlat(fs[f], i)] = [f \in DOMAIN gs |-> ReadFlat(gs[f], j)]
    BY DEF Same1
  <1>2. Same3(StructOf(d, fs), i, StructOf(e, gs), j)
    BY StructSame3 DEF Same1
  <1>3. ReadNested(StructOf(d, fs), i) = ReadNested(StructOf(e, gs), j)
    <2> DEFINE r == [f \in DOMAIN fs |-> ReadFlat(fs[f], i)]
               q == [f \in DOMAIN gs |-> ReadFlat(gs[f], j)]
    <2>1. ReadNested(StructOf(d, fs), i) = IF IsSome(d[i]) THEN Some(r) ELSE None
      BY StructRead DEF Agree
    <2>2. ReadNested(StructOf(e, gs), j) = IF IsSome(e[j]) THEN Some(q) ELSE None
      BY StructRead DEF Agree
    <2>3. r = q
      BY <1>1
    <2> HIDE DEF r, q
    <2> QED
      BY <2>1, <2>2, <2>3 DEF Agree
  <1> QED
    BY <1>2, <1>3 DEF Same2

LEMMA StructSame1 ==
  ASSUME NEW d, NEW i, NEW e, NEW j, Agree(d, i, e, j),
         NEW fs, NEW gs, DOMAIN fs = DOMAIN gs, \A f \in DOMAIN fs : Same0(fs[f], i, gs[f], j)
  PROVE  Same1(StructOf(d, fs), i, StructOf(e, gs), j)
  <1>1. [f \in DOMAIN fs |-> ReadCell(fs[f], i)] = [f \in DOMAIN gs |-> ReadCell(gs[f], j)]
    BY DEF Same0
  <1>2. Same2(StructOf(d, fs), i, StructOf(e, gs), j)
    BY StructSame2 DEF Same0
  <1>3. ReadFlat(StructOf(d, fs), i) = ReadFlat(StructOf(e, gs), j)
    <2> DEFINE r == [f \in DOMAIN fs |-> ReadCell(fs[f], i)]
               q == [f \in DOMAIN gs |-> ReadCell(gs[f], j)]
    <2>1. ReadFlat(StructOf(d, fs), i) = IF IsSome(d[i]) THEN Some(r) ELSE None
      BY StructRead DEF Agree
    <2>2. ReadFlat(StructOf(e, gs), j) = IF IsSome(e[j]) THEN Some(q) ELSE None
      BY StructRead DEF Agree
    <2>3. r = q
      BY <1>1
    <2> HIDE DEF r, q
    <2> QED
      BY <2>1, <2>2, <2>3 DEF Agree
  <1> QED
    BY <1>2, <1>3 DEF Same1

\* A field of every row, and what a row of it is.
LEMMA FieldsAt ==
  ASSUME NEW d, NEW f, NEW i \in DOMAIN d
  PROVE  /\ DOMAIN AndThen(d, f) = DOMAIN d /\ DOMAIN Mapped(d, f) = DOMAIN d
         /\ AndThen(d, f)[i] = IF IsSome(d[i]) THEN Get(d[i])[f] ELSE None
         /\ Mapped(d, f)[i] = IF IsSome(d[i]) THEN Some(Get(d[i])[f]) ELSE None
  BY DEF AndThen, Mapped, Each, Every

LEMMA FieldsAgree ==
  ASSUME NEW d, NEW i, NEW e, NEW j, Agree(d, i, e, j), NEW f
  PROVE  Agree(AndThen(d, f), i, AndThen(e, f), j) /\ Agree(Mapped(d, f), i, Mapped(e, f), j)
  BY FieldsAt DEF Agree

LEMMA FieldCells ==
  ASSUME NEW d, NEW i, NEW e, NEW j, Agree(d, i, e, j), NEW f
  PROVE  /\ Same0(OptArray(AndThen(d, f)), i, OptArray(AndThen(e, f)), j)
         /\ Same0(OptArray(Mapped(d, f)), i, OptArray(Mapped(e, f)), j)
  BY FieldsAgree, CellsSame

-----------------------------------------------------------------------------
(* Lists of certificates, and headers.                                     *)

AllChains(col, n) == DOMAIN col = 1 .. n /\ \A k \in 1 .. n : IsChain(col[k])
Certificates(chain) == [k \in 1 .. Len(chain) |-> Some(chain[k])]

\* A row of a list column is its chain, wherever the elements before it ended.
LEMMA ListRead ==
  ASSUME NEW n \in Nat, NEW col, AllChains(col, n), NEW i \in 1 .. n
  PROVE  /\ ReadFlat(ListBinaryArray(col), i) =
              IF IsSome(col[i]) THEN Some(Certificates(Get(col[i]))) ELSE None
         /\ ReadNested(ListBinaryArray(col), i) =
              IF IsSome(col[i]) THEN Some(Certificates(Get(col[i]))) ELSE None
         /\ ReadRow(ListBinaryArray(col), i) =
              IF IsSome(col[i]) THEN Some(Certificates(Get(col[i]))) ELSE None
  <1> DEFINE s == Lists(col)
             S == UNION {{s[k][x] : x \in 1 .. Len(s[k])} : k \in 1 .. n}
             lens == [k \in 1 .. n |-> Len(s[k])]
             o == Offsets(lens)
             flat == FlattenSeq(s)
             child == OptArray([x \in DOMAIN flat |-> Some(flat[x])])
             a == ListBinaryArray(col)
  <1>1. DOMAIN s = 1 .. n /\ s = [k \in 1 .. n |-> s[k]]
    BY DEF Lists, AllChains
  <1>2. ASSUME NEW k \in 1 .. n
        PROVE  s[k] = (IF IsSome(col[k]) THEN Get(col[k]) ELSE <<>>) /\ IsSequence(s[k])
    <2>1. s[k] = IF IsSome(col[k]) THEN Get(col[k]) ELSE <<>>
      BY DEF Lists, AllChains
    <2>2. IsSequence(<<>>)
      BY DEF IsSequence
    <2> HIDE DEF s
    <2> QED
      BY <2>1, <2>2 DEF AllChains, IsChain
  <1>3. a = [valid |-> Validity(col), child |-> child, offsets |-> o]
    <2>1. [k \in DOMAIN col |-> Len(Lists(col)[k])] = lens
      BY DEF AllChains
    <2> QED
      BY <2>1 DEF ListBinaryArray, ListOf
  <1>4. "cells" \notin DOMAIN a /\ "fields" \notin DOMAIN a /\ a.child = child /\ a.offsets = o
    BY <1>3
  <1>5. IsValid(a, i) <=> IsSome(col[i])
    <2>1. a.valid = Some([k \in 1 .. n |-> IsSome(col[k])])
      BY <1>3 DEF Validity, AllChains
    <2>2. IsSome(a.valid) /\ Get(a.valid) = [k \in 1 .. n |-> IsSome(col[k])]
      BY <2>1, OptionFacts
    <2> QED
      BY <2>2 DEF IsValid
  <1> HIDE DEF a
  <1>6. lens \in [1 .. n -> Nat] /\ s \in [1 .. n -> Seq(S)]
    <2> HIDE DEF s
    <2>1. ASSUME NEW k \in 1 .. n
          PROVE  Len(s[k]) \in Nat /\ s[k] \in Seq(S)
      <3>1. Len(s[k]) \in Nat /\ s[k] = [x \in 1 .. Len(s[k]) |-> s[k][x]]
        BY <1>2 DEF IsSequence
      <3>2. s[k] \in [1 .. Len(s[k]) -> S]
        BY <3>1
      <3> HIDE DEF S
      <3>3. \E m \in Nat : s[k] \in [1 .. m -> S]
        BY <3>1, <3>2
      <3> QED
        BY <3>1, <3>3, SeqDef
    <2> QED
      BY <1>1, <2>1
  <1> HIDE DEF s, S
  <1>7. Starts(o, n, lens)
    BY <1>6, OffsetsStart
  <1>8. flat \in Seq(S) /\ Concatenates(flat, n, s, o)
    BY <1>6, <1>7, Flattened
  <1>9. o[i + 1] - o[i] = Len(s[i]) /\ o[i] \in Nat /\ o[i + 1] \in Nat /\ Len(s[i]) \in Nat
    <2>1. lens[i] = Len(s[i]) /\ lens[i] \in Nat
      BY <1>6
    <2> HIDE DEF o, lens
    <2>2. o[i + 1] = o[i] + lens[i] /\ o[i] \in Nat
      BY <1>7 DEF Starts
    <2> QED
      BY <2>1, <2>2
  <1>10. o[i + 1] <= o[n + 1]
    BY <1>7, <1>6, StartsAscend
  <1> HIDE DEF o, flat
  <1>11. ASSUME NEW k \in 1 .. Len(s[i])
         PROVE  o[i] + k \in DOMAIN flat /\ flat[o[i] + k] = s[i][k]
    <2>1. Len(flat) = o[n + 1] /\ flat[o[i] + k] = s[i][k] /\ DOMAIN flat = 1 .. Len(flat)
      BY <1>8 DEF Concatenates
    <2> QED
      BY <1>9, <1>10, <2>1
  <1>12. ASSUME NEW k \in 1 .. Len(s[i])
         PROVE  ReadCell(child, o[i] + k) = Some(s[i][k]) /\ ReadFlat(child, o[i] + k) = Some(s[i][k])
                /\ ReadNested(child, o[i] + k) = Some(s[i][k])
    BY <1>11, CellsRead
  <1> HIDE DEF child
  <1>13. [k \in 1 .. o[i + 1] - o[i] |-> ReadCell(child, o[i] + k)] = Certificates(s[i])
    BY <1>9, <1>12 DEF Certificates
  <1>14. [k \in 1 .. o[i + 1] - o[i] |-> ReadFlat(child, o[i] + k)] = Certificates(s[i])
    BY <1>9, <1>12 DEF Certificates
  <1>15. [k \in 1 .. o[i + 1] - o[i] |-> ReadNested(child, o[i] + k)] = Certificates(s[i])
    BY <1>9, <1>12 DEF Certificates
  <1>16. ReadFlat(a, i) = IF IsSome(col[i]) THEN Some(Certificates(s[i])) ELSE None
    BY <1>4, <1>5, <1>13 DEF ReadFlat, ReadVia
  <1>17. ReadNested(a, i) = IF IsSome(col[i]) THEN Some(Certificates(s[i])) ELSE None
    BY <1>4, <1>5, <1>14 DEF ReadNested, ReadVia
  <1>18. ReadRow(a, i) = IF IsSome(col[i]) THEN Some(Certificates(s[i])) ELSE None
    BY <1>4, <1>5, <1>15 DEF ReadRow, ReadVia
  <1> QED
    BY <1>2, <1>16, <1>17, <1>18 DEF a

LEMMA ListSame ==
  ASSUME NEW n \in Nat, NEW d, AllChains(d, n), NEW i \in 1 .. n,
         NEW m \in Nat, NEW e, AllChains(e, m), NEW j \in 1 .. m, Agree(d, i, e, j)
  PROVE  Same1(ListBinaryArray(d), i, ListBinaryArray(e), j)
  <1>1. ReadFlat(ListBinaryArray(d), i) = ReadFlat(ListBinaryArray(e), j)
    BY ListRead DEF Agree
  <1>2. ReadNested(ListBinaryArray(d), i) = ReadNested(ListBinaryArray(e), j)
    BY ListRead DEF Agree
  <1>3. ReadRow(ListBinaryArray(d), i) = ReadRow(ListBinaryArray(e), j)
    BY ListRead DEF Agree
  <1> QED
    BY <1>1, <1>2, <1>3 DEF Same1, Same2, Same3

\* Headers of every row, with a chain or none.
AllHeaders(col, n) == DOMAIN col = 1 .. n /\ \A k \in 1 .. n : IsSome(col[k]) => HasChain(Get(col[k]))

LEMMA HeadersAreStructs ==
  ASSUME NEW col
  PROVE  HeaderArrayOpt(col) = StructOf(col, HeaderArray(Defaults(col)).fields)
  <1> DEFINE h == HeaderArray(Defaults(col))
  <1>1. DOMAIN h = {"valid", "fields"} /\ h = [x \in {"valid", "fields"} |-> h[x]]
    BY DEF HeaderArray
  <1> HIDE DEF h
  <1>2. [h EXCEPT !.valid = Validity(col)] = [valid |-> Validity(col), fields |-> h.fields]
    BY <1>1
  <1> QED
    BY <1>2 DEF HeaderArrayOpt, StructOf, h

HeaderColumn(col, f) == [k \in DOMAIN Defaults(col) |-> Defaults(col)[k][f]]

LEMMA HeaderFields ==
  ASSUME NEW col
  PROVE  /\ DOMAIN HeaderArray(Defaults(col)).fields = Headers
         /\ \A f \in Headers :
              HeaderArray(Defaults(col)).fields[f] =
                IF f = "x5chain" THEN ListBinaryArray(HeaderColumn(col, f))
                ELSE IF f = "x5t" THEN X5tArray(HeaderColumn(col, f)) ELSE OptArray(HeaderColumn(col, f))
  <1> DEFINE c(f) == HeaderColumn(col, f)
             fields == [f \in Headers |-> CASE f = "x5chain" -> ListBinaryArray(c(f))
                                            [] f = "x5t"     -> X5tArray(c(f))
                                            [] OTHER         -> OptArray(c(f))]
  <1>1. HeaderArray(Defaults(col)).fields = fields
    BY DEF HeaderArray, Headers, HeaderColumn
  <1> HIDE DEF c
  <1>2. "x5chain" # "x5t"
    OBVIOUS
  <1>3. \A f \in Headers : fields[f] = IF f = "x5chain" THEN ListBinaryArray(c(f))
                                      ELSE IF f = "x5t" THEN X5tArray(c(f)) ELSE OptArray(c(f))
    BY <1>2
  <1> QED
    BY <1>1, <1>3 DEF c

LEMMA HeaderColumnsAgree ==
  ASSUME NEW d, NEW i, NEW e, NEW j, Agree(d, i, e, j), NEW f
  PROVE  Agree(HeaderColumn(d, f), i, HeaderColumn(e, f), j)
  BY DEF Agree, HeaderColumn, Defaults

LEMMA HeaderChains ==
  ASSUME NEW n \in Nat, NEW col, AllHeaders(col, n)
  PROVE  AllChains(HeaderColumn(col, "x5chain"), n)
  <1>1. DOMAIN Defaults(col) = 1 .. n
    BY DEF AllHeaders, Defaults
  <1>2. \A k \in 1 .. n : HasChain(Defaults(col)[k])
    BY NoChain DEF AllHeaders, Defaults
  <1> QED
    BY <1>1, <1>2 DEF AllChains, HeaderColumn, HasChain

LEMMA ThumbprintsSame ==
  ASSUME NEW d, NEW i, NEW e, NEW j, Agree(d, i, e, j)
  PROVE  Same1(X5tArray(d), i, X5tArray(e), j)
  <1> DEFINE fs(c) == [hash_alg |-> OptArray(Mapped(c, 1)), thumbprint |-> OptArray(Mapped(c, 2))]
  <1>1. DOMAIN fs(d) = DOMAIN fs(e)
    OBVIOUS
  <1>2. \A f \in DOMAIN fs(d) : Same0(fs(d)[f], i, fs(e)[f], j)
    BY FieldCells
  <1>3. X5tArray(d) = StructOf(d, fs(d)) /\ X5tArray(e) = StructOf(e, fs(e))
    BY DEF X5tArray
  <1> HIDE DEF fs
  <1> QED
    BY <1>1, <1>2, <1>3, StructSame1

LEMMA HeadersSame ==
  ASSUME NEW n \in Nat, NEW d, AllHeaders(d, n), NEW i \in 1 .. n,
         NEW m \in Nat, NEW e, AllHeaders(e, m), NEW j \in 1 .. m, Agree(d, i, e, j)
  PROVE  Same2(HeaderArrayOpt(d), i, HeaderArrayOpt(e), j)
  <1> DEFINE fs == HeaderArray(Defaults(d)).fields
             gs == HeaderArray(Defaults(e)).fields
  <1>1. DOMAIN fs = Headers /\ DOMAIN gs = Headers
    BY HeaderFields
  <1>2. ASSUME NEW f \in Headers
        PROVE  Same1(fs[f], i, gs[f], j)
    <2> DEFINE c == HeaderColumn(d, f)
               k == HeaderColumn(e, f)
    <2>1. Agree(c, i, k, j)
      BY HeaderColumnsAgree
    <2>2. CASE f = "x5chain"
      <3>1. AllChains(c, n) /\ AllChains(k, m)
        BY <2>2, HeaderChains
      <3>2. fs[f] = ListBinaryArray(c) /\ gs[f] = ListBinaryArray(k)
        BY <2>2, HeaderFields
      <3> QED
        BY <2>1, <3>1, <3>2, ListSame
    <2>3. CASE f = "x5t"
      <3>1. fs[f] = X5tArray(c) /\ gs[f] = X5tArray(k)
        BY <2>3, HeaderFields
      <3> QED
        BY <2>1, <3>1, ThumbprintsSame
    <2>4. CASE f # "x5chain" /\ f # "x5t"
      <3>1. fs[f] = OptArray(c) /\ gs[f] = OptArray(k)
        BY <2>4, HeaderFields
      <3> QED
        BY <2>1, <3>1, CellsSame DEF Same0
    <2> QED
      BY <2>2, <2>3, <2>4
  <1>3. HeaderArrayOpt(d) = StructOf(d, fs) /\ HeaderArrayOpt(e) = StructOf(e, gs)
    BY HeadersAreStructs
  <1> HIDE DEF fs, gs
  <1> QED
    BY <1>1, <1>2, <1>3, StructSame2

-----------------------------------------------------------------------------
(* The columns of the scalar functions.                                    *)

\* Rows decoded: a row of a message has both header maps.
AllDecoded(fn, d, n) ==
  /\ DOMAIN d = 1 .. n
  /\ fn \in MessageCalls => \A k \in 1 .. n : IsSome(d[k]) => HaveChains(Get(d[k]))

Merged(d) == Every(d, MergedHeaders)

LEMMA MergedAt ==
  ASSUME NEW d, NEW i \in DOMAIN d
  PROVE  /\ DOMAIN Merged(d) = DOMAIN d
         /\ Merged(d)[i] = IF IsSome(d[i]) THEN Some(MergedHeaders(Get(d[i]))) ELSE None
  BY DEF Merged, Every

LEMMA MergedAgree ==
  ASSUME NEW d, NEW i, NEW e, NEW j, Agree(d, i, e, j)
  PROVE  Agree(Merged(d), i, Merged(e), j)
  BY MergedAt DEF Agree

LEMMA MergedHasChain ==
  ASSUME NEW message, HaveChains(message)
  PROVE  HasChain(MergedHeaders(message))
  <1>1. MergedHeaders(message)["x5chain"] = OrElse(message.protected["x5chain"], message.unprotected["x5chain"])
    BY HeaderNames DEF MergedHeaders, Headers
  <1> QED
    BY <1>1 DEF HaveChains, HasChain, OrElse

LEMMA MergedAll ==
  ASSUME NEW fn \in MessageCalls, NEW n \in Nat, NEW d, AllDecoded(fn, d, n)
  PROVE  AllHeaders(Merged(d), n) /\ AllChains(AndThen(Merged(d), "x5chain"), n)
  <1>1. DOMAIN d = 1 .. n /\ \A k \in 1 .. n : IsSome(d[k]) => HaveChains(Get(d[k]))
    BY DEF AllDecoded
  <1>2. DOMAIN Merged(d) = 1 .. n
    BY <1>1 DEF Merged, Every
  <1>3. ASSUME NEW k \in 1 .. n, IsSome(Merged(d)[k])
        PROVE  HasChain(Get(Merged(d)[k]))
    <2>1. IsSome(d[k])
      BY <1>1, <1>3, MergedAt, OptionFacts
    <2>2. Get(Merged(d)[k]) = MergedHeaders(Get(d[k]))
      BY <1>1, <2>1, MergedAt, OptionFacts
    <2> QED
      BY <1>1, <2>1, <2>2, MergedHasChain
  <1>4. ASSUME NEW k \in 1 .. n
        PROVE  IsChain(AndThen(Merged(d), "x5chain")[k])
    <2>1. AndThen(Merged(d), "x5chain")[k] = IF IsSome(Merged(d)[k]) THEN Get(Merged(d)[k])["x5chain"] ELSE None
      BY <1>2, FieldsAt
    <2>2. IsChain(None)
      BY OptionFacts DEF IsChain
    <2> QED
      BY <1>3, <2>1, <2>2 DEF HasChain
  <1>5. DOMAIN AndThen(Merged(d), "x5chain") = 1 .. n
    BY <1>2 DEF AndThen, Each
  <1> QED
    BY <1>2, <1>3, <1>4, <1>5 DEF AllHeaders, AllChains

\* What a function answers to row i of one batch is what it answers to row j of
\* another, where both decode alike.
BuildsAlike(fn, d, i, e, j) == Same3(Built(fn, d), i, Built(fn, e), j)
BuildsWhere(fn, d, i) ==
  ReadRow(Built(fn, d), i) # None <=> (IsSome(d[i]) /\ HasAnswer(fn, Get(d[i])))

MessageColumns(d) ==
  [tag |-> OptArray(AndThen(d, "tag")), msg_type |-> OptArray(Mapped(d, "type")),
   protected |-> HeaderArrayOpt(Mapped(d, "protected")),
   unprotected |-> HeaderArrayOpt(Mapped(d, "unprotected")),
   payload |-> OptArray(AndThen(d, "payload")),
   signature |-> OptArray(AndThen(d, "signature")),
   recipients |-> OptArray(AndThen(d, "recipients"))]

LEMMA HeadersOfAll ==
  ASSUME NEW fn \in MessageCalls, NEW n \in Nat, NEW d, AllDecoded(fn, d, n)
  PROVE  AllHeaders(Mapped(d, "protected"), n) /\ AllHeaders(Mapped(d, "unprotected"), n)
  <1>1. DOMAIN d = 1 .. n /\ \A k \in 1 .. n : IsSome(d[k]) => HaveChains(Get(d[k]))
    BY DEF AllDecoded
  <1>2. DOMAIN Mapped(d, "protected") = 1 .. n /\ DOMAIN Mapped(d, "unprotected") = 1 .. n
    BY <1>1 DEF Mapped, Every
  <1>3. ASSUME NEW k \in 1 .. n, NEW f \in {"protected", "unprotected"}, IsSome(Mapped(d, f)[k])
        PROVE  HasChain(Get(Mapped(d, f)[k]))
    <2>1. Mapped(d, f)[k] = IF IsSome(d[k]) THEN Some(Get(d[k])[f]) ELSE None
      BY <1>1, FieldsAt
    <2>2. IsSome(d[k]) /\ Get(Mapped(d, f)[k]) = Get(d[k])[f]
      BY <1>3, <2>1, OptionFacts
    <2> QED
      BY <1>1, <2>2 DEF HaveChains
  <1> QED
    BY <1>2, <1>3 DEF AllHeaders

LEMMA DecodesAlike ==
  ASSUME NEW n \in Nat, NEW d, AllDecoded("cose_decode", d, n), NEW i \in 1 .. n,
         NEW m \in Nat, NEW e, AllDecoded("cose_decode", e, m), NEW j \in 1 .. m, Agree(d, i, e, j)
  PROVE  BuildsAlike("cose_decode", d, i, e, j) /\ BuildsWhere("cose_decode", d, i)
  <1> DEFINE fs == MessageColumns(d)
             gs == MessageColumns(e)
  <1>1. DOMAIN fs = DOMAIN gs
        /\ DOMAIN fs = {"tag", "msg_type", "protected", "unprotected", "payload", "signature", "recipients"}
    BY DEF MessageColumns
  <1>2. ASSUME NEW f \in {"protected", "unprotected"}
        PROVE  Same2(fs[f], i, gs[f], j)
    <2>1. AllHeaders(Mapped(d, f), n) /\ AllHeaders(Mapped(e, f), m)
      BY HeadersOfAll DEF MessageCalls
    <2>2. fs[f] = HeaderArrayOpt(Mapped(d, f)) /\ gs[f] = HeaderArrayOpt(Mapped(e, f))
      BY DEF MessageColumns
    <2>3. Agree(Mapped(d, f), i, Mapped(e, f), j)
      BY FieldsAgree
    <2> QED
      BY <2>1, <2>2, <2>3, HeadersSame
  <1>3. ASSUME NEW f \in {"tag", "payload", "signature", "recipients"}
        PROVE  Same2(fs[f], i, gs[f], j)
    <2>1. fs[f] = OptArray(AndThen(d, f)) /\ gs[f] = OptArray(AndThen(e, f))
      BY DEF MessageColumns
    <2> QED
      BY <2>1, FieldCells DEF Same0, Same1
  <1>4. Same2(fs["msg_type"], i, gs["msg_type"], j)
    <2>1. fs["msg_type"] = OptArray(Mapped(d, "type")) /\ gs["msg_type"] = OptArray(Mapped(e, "type"))
      BY DEF MessageColumns
    <2> QED
      BY <2>1, FieldCells DEF Same0, Same1
  <1>5. Built("cose_decode", d) = StructOf(d, fs) /\ Built("cose_decode", e) = StructOf(e, gs)
    BY DEF Built, BuildCoseDecode, MessageColumns
  <1> HIDE DEF fs, gs
  <1>6. Same3(StructOf(d, fs), i, StructOf(e, gs), j)
    BY <1>1, <1>2, <1>3, <1>4, StructSame3
  <1>7. ReadRow(StructOf(d, fs), i) # None <=> IsSome(d[i])
    BY StructIsThere DEF Agree
  <1>8. HasAnswer("cose_decode", Get(d[i]))
    BY DEF HasAnswer
  <1> QED
    BY <1>5, <1>6, <1>7, <1>8 DEF BuildsAlike, BuildsWhere

LEMMA MergesAlike ==
  ASSUME NEW n \in Nat, NEW d, AllDecoded("cose_headers", d, n), NEW i \in 1 .. n,
         NEW m \in Nat, NEW e, AllDecoded("cose_headers", e, m), NEW j \in 1 .. m, Agree(d, i, e, j)
  PROVE  BuildsAlike("cose_headers", d, i, e, j) /\ BuildsWhere("cose_headers", d, i)
  <1>1. Built("cose_headers", d) = HeaderArrayOpt(Merged(d)) /\ Built("cose_headers", e) = HeaderArrayOpt(Merged(e))
    BY DEF Built, BuildCoseHeaders, Merged
  <1>2. Same3(HeaderArrayOpt(Merged(d)), i, HeaderArrayOpt(Merged(e)), j)
    <2>1. AllHeaders(Merged(d), n) /\ AllHeaders(Merged(e), m)
      BY MergedAll DEF MessageCalls
    <2>2. Agree(Merged(d), i, Merged(e), j)
      BY MergedAgree
    <2> QED
      BY <2>1, <2>2, HeadersSame DEF Same2
  <1>3. ReadRow(HeaderArrayOpt(Merged(d)), i) # None <=> IsSome(Merged(d)[i])
    BY HeadersAreStructs, StructIsThere, MergedAt DEF Agree
  <1>4. IsSome(Merged(d)[i]) <=> IsSome(d[i])
    BY MergedAt, OptionFacts DEF Agree
  <1>5. HasAnswer("cose_headers", Get(d[i]))
    BY DEF HasAnswer
  <1> QED
    BY <1>1, <1>2, <1>3, <1>4, <1>5 DEF BuildsAlike, BuildsWhere

LEMMA PayloadsAlike ==
  ASSUME NEW n \in Nat, NEW d, NEW i \in 1 .. n,
         NEW m \in Nat, NEW e, NEW j \in 1 .. m, Agree(d, i, e, j)
  PROVE  BuildsAlike("cose_payload", d, i, e, j) /\ BuildsWhere("cose_payload", d, i)
  <1>1. Built("cose_payload", d) = OptArray(AndThen(d, "payload")) /\ Built("cose_payload", e) = OptArray(AndThen(e, "payload"))
    BY DEF Built, BuildCosePayload
  <1>2. Same3(OptArray(AndThen(d, "payload")), i, OptArray(AndThen(e, "payload")), j)
    BY FieldCells DEF Same0, Same1, Same2
  <1>3. ReadRow(OptArray(AndThen(d, "payload")), i) = IF IsSome(d[i]) THEN Get(d[i])["payload"] ELSE None
    BY CellsRead, FieldsAt DEF Agree
  <1>4. HasAnswer("cose_payload", Get(d[i])) <=> IsSome(Get(d[i])["payload"])
    BY DEF HasAnswer
  <1> QED
    BY <1>1, <1>2, <1>3, <1>4 DEF BuildsAlike, BuildsWhere, IsSome

LEMMA ChainsAlike ==
  ASSUME NEW n \in Nat, NEW d, AllDecoded("cose_x5chain", d, n), NEW i \in 1 .. n,
         NEW m \in Nat, NEW e, AllDecoded("cose_x5chain", e, m), NEW j \in 1 .. m, Agree(d, i, e, j)
  PROVE  BuildsAlike("cose_x5chain", d, i, e, j) /\ BuildsWhere("cose_x5chain", d, i)
  <1> DEFINE c == AndThen(Merged(d), "x5chain")
             k == AndThen(Merged(e), "x5chain")
  <1>1. Built("cose_x5chain", d) = ListBinaryArray(c) /\ Built("cose_x5chain", e) = ListBinaryArray(k)
    BY DEF Built, BuildCoseX5chain, Merged
  <1>2. AllChains(c, n) /\ AllChains(k, m)
    BY MergedAll DEF MessageCalls
  <1>3. Agree(c, i, k, j)
    BY MergedAgree, FieldsAgree
  <1>4. c[i] = IF IsSome(d[i]) THEN MergedHeaders(Get(d[i]))["x5chain"] ELSE None
    <2>1. Merged(d)[i] = IF IsSome(d[i]) THEN Some(MergedHeaders(Get(d[i]))) ELSE None
      BY MergedAt DEF Agree
    <2>2. c[i] = IF IsSome(Merged(d)[i]) THEN Get(Merged(d)[i])["x5chain"] ELSE None
      BY MergedAt, FieldsAt DEF Agree
    <2> QED
      BY <2>1, <2>2, OptionFacts
  <1>5. HasAnswer("cose_x5chain", Get(d[i])) <=> IsSome(MergedHeaders(Get(d[i]))["x5chain"])
    BY DEF HasAnswer
  <1> HIDE DEF c, k
  <1>6. Same3(ListBinaryArray(c), i, ListBinaryArray(k), j)
    BY <1>2, <1>3, ListSame DEF Same1, Same2
  <1>7. ReadRow(ListBinaryArray(c), i) # None <=> IsSome(c[i])
    <2> DEFINE r == Certificates(Get(c[i]))
    <2>1. ReadRow(ListBinaryArray(c), i) = IF IsSome(c[i]) THEN Some(r) ELSE None
      BY <1>2, ListRead
    <2>2. Some(r) # None
      BY OptionFacts
    <2> HIDE DEF r
    <2> QED
      BY <2>1, <2>2
  <1> QED
    BY <1>1, <1>4, <1>5, <1>6, <1>7, OptionFacts DEF BuildsAlike, BuildsWhere

LEMMA ThumbprintsAlike ==
  ASSUME NEW n \in Nat, NEW d, NEW i \in 1 .. n,
         NEW m \in Nat, NEW e, NEW j \in 1 .. m, Agree(d, i, e, j)
  PROVE  BuildsAlike("cose_x5t", d, i, e, j) /\ BuildsWhere("cose_x5t", d, i)
  <1> DEFINE c == AndThen(Merged(d), "x5t")
             k == AndThen(Merged(e), "x5t")
  <1>1. Built("cose_x5t", d) = OptArray(Mapped(c, 2)) /\ Built("cose_x5t", e) = OptArray(Mapped(k, 2))
    BY DEF Built, BuildCoseX5t, Merged
  <1>2. Agree(c, i, k, j)
    BY MergedAgree, FieldsAgree
  <1>3. c[i] = IF IsSome(d[i]) THEN MergedHeaders(Get(d[i]))["x5t"] ELSE None
    <2>1. Merged(d)[i] = IF IsSome(d[i]) THEN Some(MergedHeaders(Get(d[i]))) ELSE None
      BY MergedAt DEF Agree
    <2>2. c[i] = IF IsSome(Merged(d)[i]) THEN Get(Merged(d)[i])["x5t"] ELSE None
      BY MergedAt, FieldsAt DEF Agree
    <2> QED
      BY <2>1, <2>2, OptionFacts
  <1>4. HasAnswer("cose_x5t", Get(d[i])) <=> IsSome(MergedHeaders(Get(d[i]))["x5t"])
    BY DEF HasAnswer
  <1> HIDE DEF c, k
  <1>5. Same3(OptArray(Mapped(c, 2)), i, OptArray(Mapped(k, 2)), j)
    BY <1>2, FieldCells DEF Same0, Same1, Same2
  <1>6. ReadRow(OptArray(Mapped(c, 2)), i) = IF IsSome(c[i]) THEN Some(Get(c[i])[2]) ELSE None
    BY <1>2, CellsRead, FieldsAt DEF Agree
  <1>7. ReadRow(OptArray(Mapped(c, 2)), i) # None <=> IsSome(c[i])
    BY <1>6, OptionFacts
  <1> QED
    BY <1>1, <1>3, <1>4, <1>5, <1>7, OptionFacts DEF BuildsAlike, BuildsWhere

LEMMA KeysSame ==
  ASSUME NEW d, NEW i, NEW e, NEW j, Agree(d, i, e, j)
  PROVE  Same1(CoseKeyArray(d), i, CoseKeyArray(e), j)
  <1> DEFINE fs(c) == [f \in KeyField |-> OptArray(AndThen(c, f))]
  <1>1. DOMAIN fs(d) = DOMAIN fs(e)
    OBVIOUS
  <1>2. \A f \in DOMAIN fs(d) : Same0(fs(d)[f], i, fs(e)[f], j)
    BY FieldCells
  <1>3. CoseKeyArray(d) = StructOf(d, fs(d)) /\ CoseKeyArray(e) = StructOf(e, fs(e))
    BY DEF CoseKeyArray
  <1> HIDE DEF fs
  <1> QED
    BY <1>1, <1>2, <1>3, StructSame1

LEMMA KeysAlike ==
  ASSUME NEW d, NEW i, NEW e, NEW j, Agree(d, i, e, j)
  PROVE  BuildsAlike("cose_key", d, i, e, j) /\ BuildsWhere("cose_key", d, i)
  <1>1. Built("cose_key", d) = CoseKeyArray(d) /\ Built("cose_key", e) = CoseKeyArray(e)
    BY DEF Built, BuildCoseKey
  <1>2. ReadRow(CoseKeyArray(d), i) # None <=> IsSome(d[i])
    BY StructIsThere DEF CoseKeyArray, Agree
  <1>3. HasAnswer("cose_key", Get(d[i]))
    BY DEF HasAnswer
  <1> QED
    BY <1>1, <1>2, <1>3, KeysSame DEF BuildsAlike, BuildsWhere, Same1, Same2

Instants == {"exp", "nbf", "iat"}
ClaimColumn(d, f) ==
  IF f \in Instants THEN TsArray(AndThen(d, f))
  ELSE IF f = "extra" THEN OptArray(Each(d, ExtraOf)) ELSE OptArray(AndThen(d, f))
ClaimColumns(d) == [f \in Range(Claim) \cup {"extra"} |-> ClaimColumn(d, f)]

LEMMA ClaimsAreStructs ==
  ASSUME NEW d
  PROVE  Built("cwt_claims", d) = StructOf(d, ClaimColumns(d))
  <1> DEFINE c(f) == CASE f \in {"exp", "nbf", "iat"} -> TsArray(AndThen(d, f))
                       [] f = "extra" -> OptArray(Each(d, ExtraOf))
                       [] OTHER -> OptArray(AndThen(d, f))
  <1>1. \A f : c(f) = ClaimColumn(d, f)
    <2>1. "extra" \notin {"exp", "nbf", "iat"}
      OBVIOUS
    <2> QED
      BY <2>1 DEF ClaimColumn, Instants
  <1>2. [f \in Range(Claim) \cup {"extra"} |-> c(f)] = ClaimColumns(d)
    BY <1>1 DEF ClaimColumns
  <1>3. Built("cwt_claims", d) = StructOf(d, [f \in Range(Claim) \cup {"extra"} |-> c(f)])
    BY DEF Built, BuildCwt
  <1> QED
    BY <1>2, <1>3

LEMMA InstantsSame ==
  ASSUME NEW d, NEW i, NEW e, NEW j, Agree(d, i, e, j)
  PROVE  Same0(TsArray(d), i, TsArray(e), j)
  <1>1. Agree(Every(d, Instant), i, Every(e, Instant), j)
    BY DEF Agree, Every
  <1> QED
    BY <1>1, CellsSame DEF TsArray

LEMMA ExtrasSame ==
  ASSUME NEW d, NEW i, NEW e, NEW j, Agree(d, i, e, j)
  PROVE  Same0(OptArray(Each(d, ExtraOf)), i, OptArray(Each(e, ExtraOf)), j)
  <1>1. Agree(Each(d, ExtraOf), i, Each(e, ExtraOf), j)
    BY DEF Agree, Each
  <1> QED
    BY <1>1, CellsSame

LEMMA ClaimsAlike ==
  ASSUME NEW d, NEW i, NEW e, NEW j, Agree(d, i, e, j)
  PROVE  BuildsAlike("cwt_claims", d, i, e, j) /\ BuildsWhere("cwt_claims", d, i)
  <1> DEFINE fs == ClaimColumns(d)
             gs == ClaimColumns(e)
  <1>1. DOMAIN fs = DOMAIN gs /\ \A f \in DOMAIN fs : fs[f] = ClaimColumn(d, f) /\ gs[f] = ClaimColumn(e, f)
    BY DEF ClaimColumns
  <1> HIDE DEF fs, gs
  <1>2. ASSUME NEW f \in DOMAIN fs
        PROVE  Same2(fs[f], i, gs[f], j)
    <2>1. Agree(AndThen(d, f), i, AndThen(e, f), j)
      BY FieldsAgree
    <2>2. CASE f \in Instants
      BY <1>1, <2>1, <2>2, InstantsSame DEF ClaimColumn, Same0, Same1
    <2>3. CASE f \notin Instants /\ f = "extra"
      BY <1>1, <2>3, ExtrasSame DEF ClaimColumn, Same0, Same1
    <2>4. CASE f \notin Instants /\ f # "extra"
      BY <1>1, <2>4, FieldCells DEF ClaimColumn, Same0, Same1
    <2> QED
      BY <2>2, <2>3, <2>4
  <1>3. Same3(StructOf(d, fs), i, StructOf(e, gs), j)
    BY <1>1, <1>2, StructSame3
  <1>4. ReadRow(StructOf(d, fs), i) # None <=> IsSome(d[i])
    BY StructIsThere DEF Agree
  <1>5. HasAnswer("cwt_claims", Get(d[i]))
    BY DEF HasAnswer
  <1>6. Built("cwt_claims", d) = StructOf(d, fs) /\ Built("cwt_claims", e) = StructOf(e, gs)
    BY ClaimsAreStructs DEF fs, gs
  <1> QED
    BY <1>3, <1>4, <1>5, <1>6 DEF BuildsAlike, BuildsWhere

DataColumn(d, f) ==
  IF f \in {"aaguid", "cred_id", "extensions"} THEN OptArray(AndThen(d, f))
  ELSE IF f = "key" THEN CoseKeyArray(AndThen(d, f)) ELSE OptArray(Mapped(d, f))
DataColumns(d) == [f \in AuthFields |-> DataColumn(d, f)]

LEMMA DataAreStructs ==
  ASSUME NEW d
  PROVE  Built("authdata", d) = StructOf(d, DataColumns(d))
  <1> DEFINE c(f) == CASE f \in {"aaguid", "cred_id", "extensions"} -> OptArray(AndThen(d, f))
                       [] f = "key" -> CoseKeyArray(AndThen(d, f))
                       [] OTHER     -> OptArray(Mapped(d, f))
  <1>1. \A f : c(f) = DataColumn(d, f)
    <2>1. "key" \notin {"aaguid", "cred_id", "extensions"}
      OBVIOUS
    <2> QED
      BY <2>1 DEF DataColumn
  <1>2. [f \in AuthFields |-> c(f)] = DataColumns(d)
    BY <1>1 DEF DataColumns
  <1>3. Built("authdata", d) = StructOf(d, [f \in AuthFields |-> c(f)])
    BY DEF Built, BuildAuthData
  <1> QED
    BY <1>2, <1>3

LEMMA DataAlike ==
  ASSUME NEW d, NEW i, NEW e, NEW j, Agree(d, i, e, j)
  PROVE  BuildsAlike("authdata", d, i, e, j) /\ BuildsWhere("authdata", d, i)
  <1> DEFINE fs == DataColumns(d)
             gs == DataColumns(e)
             optional == {"aaguid", "cred_id", "extensions"}
  <1>1. DOMAIN fs = DOMAIN gs /\ \A f \in DOMAIN fs : fs[f] = DataColumn(d, f) /\ gs[f] = DataColumn(e, f)
    BY DEF DataColumns
  <1> HIDE DEF fs, gs
  <1>2. ASSUME NEW f \in DOMAIN fs
        PROVE  Same2(fs[f], i, gs[f], j)
    <2>1. Agree(AndThen(d, f), i, AndThen(e, f), j)
      BY FieldsAgree
    <2>2. CASE f \in optional
      BY <1>1, <2>2, FieldCells DEF DataColumn, Same0, Same1
    <2>3. CASE f \notin optional /\ f = "key"
      BY <1>1, <2>1, <2>3, KeysSame DEF DataColumn, Same1
    <2>4. CASE f \notin optional /\ f # "key"
      BY <1>1, <2>4, FieldCells DEF DataColumn, Same0, Same1
    <2> QED
      BY <2>2, <2>3, <2>4
  <1>3. Same3(StructOf(d, fs), i, StructOf(e, gs), j)
    BY <1>1, <1>2, StructSame3
  <1>4. ReadRow(StructOf(d, fs), i) # None <=> IsSome(d[i])
    BY StructIsThere DEF Agree
  <1>5. HasAnswer("authdata", Get(d[i]))
    BY DEF HasAnswer
  <1>6. Built("authdata", d) = StructOf(d, fs) /\ Built("authdata", e) = StructOf(e, gs)
    BY DataAreStructs DEF fs, gs
  <1> QED
    BY <1>3, <1>4, <1>5, <1>6 DEF BuildsAlike, BuildsWhere

LEMMA AllAlike ==
  ASSUME NEW fn \in SecurityCalls,
         NEW n \in Nat, NEW d, AllDecoded(fn, d, n), NEW i \in 1 .. n,
         NEW m \in Nat, NEW e, AllDecoded(fn, e, m), NEW j \in 1 .. m, Agree(d, i, e, j)
  PROVE  BuildsAlike(fn, d, i, e, j) /\ BuildsWhere(fn, d, i)
  <1>1. CASE fn = "cose_decode"
    BY <1>1, DecodesAlike
  <1>2. CASE fn = "cose_headers"
    BY <1>2, MergesAlike
  <1>3. CASE fn = "cose_payload"
    BY <1>3, PayloadsAlike
  <1>4. CASE fn = "cose_x5chain"
    BY <1>4, ChainsAlike
  <1>5. CASE fn = "cose_x5t"
    BY <1>5, ThumbprintsAlike
  <1>6. CASE fn = "cose_key"
    BY <1>6, KeysAlike
  <1>7. CASE fn = "cwt_claims"
    BY <1>7, ClaimsAlike
  <1>8. CASE fn = "authdata"
    BY <1>8, DataAlike
  <1> QED
    BY <1>1, <1>2, <1>3, <1>4, <1>5, <1>6, <1>7, <1>8 DEF SecurityCalls

-----------------------------------------------------------------------------
(* What a batch decodes to.                                                *)

DecodesRight(fn, rows, n) ==
  /\ AllDecoded(fn, Decoded(fn, rows), n)
  /\ \A i \in 1 .. n : /\ AllDecoded(fn, Decoded(fn, <<rows[i]>>), 1)
                       /\ Agree(Decoded(fn, rows), i, Decoded(fn, <<rows[i]>>), 1)

LEMMA DecodedIs ==
  ASSUME NEW fn, NEW rows
  PROVE  /\ fn \in MessageCalls => Decoded(fn, rows) = Each(FirstItems(rows), CoseDecode)
         /\ fn = "cose_key" => Decoded(fn, rows) = Each(FirstItems(rows), DecodeKey)
         /\ fn = "cwt_claims" => Decoded(fn, rows) = Each(FirstItems(rows), CwtClaims)
         /\ fn = "authdata" => Decoded(fn, rows) = Each(rows, ReadBlob)
  <1>1. fn \in MessageCalls => fn \notin {"cose_key", "cwt_claims", "authdata"}
    BY DEF MessageCalls
  <1>2. {"cose_key", "cwt_claims", "authdata"} \cap MessageCalls = {}
    BY DEF MessageCalls
  <1> DEFINE m == Each(FirstItems(rows), CoseDecode)
             k == Each(FirstItems(rows), DecodeKey)
             c == Each(FirstItems(rows), CwtClaims)
             a == Each(rows, ReadBlob)
  <1>3. Decoded(fn, rows) = CASE fn \in MessageCalls -> m [] fn = "cose_key" -> k
                              [] fn = "cwt_claims" -> c [] fn = "authdata" -> a
    BY DEF Decoded
  <1> HIDE DEF m, k, c, a
  <1>4. /\ fn \in MessageCalls => Decoded(fn, rows) = m
        /\ fn = "cose_key" => Decoded(fn, rows) = k
        /\ fn = "cwt_claims" => Decoded(fn, rows) = c
        /\ fn = "authdata" => Decoded(fn, rows) = a
    BY <1>1, <1>2, <1>3
  <1> QED
    BY <1>4 DEF m, k, c, a

LEMMA FirstItemsAt ==
  ASSUME NEW rows, NEW i \in DOMAIN rows
  PROVE  /\ DOMAIN FirstItems(rows) = DOMAIN rows
         /\ FirstItems(rows)[i] = IF IsSome(rows[i]) THEN ParseBytes(Get(rows[i])) ELSE None
  BY DEF FirstItems, Each

LEMMA MessagesDecode ==
  ASSUME NEW fn \in MessageCalls, NEW n \in Nat, NEW rows, IsBatch(rows, n, Blobs[fn])
  PROVE  AllDecoded(fn, Decoded(fn, rows), n)
  <1> DEFINE items == FirstItems(rows)
             d == Decoded(fn, rows)
  <1>1. DOMAIN rows = 1 .. n /\ \A k \in 1 .. n : IsSome(rows[k]) => Get(rows[k]) \in Blobs[fn]
    <2>1. \A k \in 1 .. n : rows[k] \in {None} \cup {Some(b) : b \in Blobs[fn]}
      BY DEF IsBatch
    <2> QED
      BY <2>1, OptionFacts DEF IsBatch
  <1>2. DOMAIN items = 1 .. n
    BY <1>1 DEF FirstItems, Each
  <1>3. ASSUME NEW k \in 1 .. n, IsSome(items[k])
        PROVE  Get(items[k]) \in Value
    <2>1. IsSome(rows[k]) /\ items[k] = ParseBytes(Get(rows[k]))
      BY <1>1, <1>3, FirstItemsAt, OptionFacts
    <2> QED
      BY <1>1, <1>3, <2>1, AnswersAssumption
  <1>4. d = [k \in DOMAIN items |-> IF IsSome(items[k]) THEN CoseDecode(Get(items[k])) ELSE None]
    BY DecodedIs DEF Each
  <1> HIDE DEF items, d
  <1>5. DOMAIN d = 1 .. n
    BY <1>2, <1>4
  <1>6. ASSUME NEW k \in 1 .. n, IsSome(d[k])
        PROVE  HaveChains(Get(d[k]))
    <2>1. IsSome(items[k]) /\ d[k] = CoseDecode(Get(items[k]))
      BY <1>2, <1>4, <1>6, OptionFacts
    <2> QED
      BY <1>3, <1>6, <2>1, MessageHasChains
  <1> QED
    BY <1>5, <1>6 DEF AllDecoded, d

LEMMA AllDecode ==
  ASSUME NEW fn \in SecurityCalls, NEW n \in Nat, NEW rows, IsBatch(rows, n, Blobs[fn])
  PROVE  AllDecoded(fn, Decoded(fn, rows), n)
  <1>1. DOMAIN rows = 1 .. n
    BY DEF IsBatch
  <1>2. DOMAIN FirstItems(rows) = 1 .. n
    BY <1>1 DEF FirstItems, Each
  <1>3. CASE fn \in MessageCalls
    BY <1>3, MessagesDecode
  <1>4. CASE fn = "cose_key"
    BY <1>2, <1>4 DEF AllDecoded, Decoded, Each, MessageCalls
  <1>5. CASE fn = "cwt_claims"
    BY <1>2, <1>5 DEF AllDecoded, Decoded, Each, MessageCalls
  <1>6. CASE fn = "authdata"
    BY <1>1, <1>6 DEF AllDecoded, Decoded, Each, MessageCalls
  <1> QED
    BY <1>3, <1>4, <1>5, <1>6 DEF SecurityCalls, MessageCalls

LEMMA RowsDecodeAlone ==
  ASSUME NEW fn \in SecurityCalls, NEW rows, NEW i \in DOMAIN rows
  PROVE  Decoded(fn, rows)[i] = Decoded(fn, <<rows[i]>>)[1]
  <1> DEFINE one == <<rows[i]>>
             items == FirstItems(rows)
             first == FirstItems(one)
  <1>1. SUFFICES Decoded(fn, rows)[i] = Decoded(fn, one)[1]
    OBVIOUS
  <1>2. DOMAIN one = 1 .. 1 /\ one[1] = rows[i]
    OBVIOUS
  <1> HIDE DEF one
  <1>3. items[i] = first[1] /\ DOMAIN items = DOMAIN rows /\ DOMAIN first = 1 .. 1
    BY <1>2 DEF FirstItems, Each
  <1> HIDE DEF items, first
  <1>4. CASE fn \in MessageCalls
    <2>1. Decoded(fn, rows) = Each(items, CoseDecode) /\ Decoded(fn, one) = Each(first, CoseDecode)
      BY <1>4, DecodedIs DEF items, first
    <2> QED
      BY <1>3, <2>1 DEF Each
  <1>5. CASE fn = "cose_key"
    <2>1. Decoded(fn, rows) = Each(items, DecodeKey) /\ Decoded(fn, one) = Each(first, DecodeKey)
      BY <1>5, DecodedIs DEF items, first
    <2> QED
      BY <1>3, <2>1 DEF Each
  <1>6. CASE fn = "cwt_claims"
    <2>1. Decoded(fn, rows) = Each(items, CwtClaims) /\ Decoded(fn, one) = Each(first, CwtClaims)
      BY <1>6, DecodedIs DEF items, first
    <2> QED
      BY <1>3, <2>1 DEF Each
  <1>7. CASE fn = "authdata"
    <2>1. Decoded(fn, rows) = Each(rows, ReadBlob) /\ Decoded(fn, one) = Each(one, ReadBlob)
      BY <1>7, DecodedIs
    <2> QED
      BY <1>2, <2>1 DEF Each
  <1> QED
    BY <1>4, <1>5, <1>6, <1>7 DEF SecurityCalls, MessageCalls

LEMMA BatchDecodes ==
  ASSUME NEW fn \in SecurityCalls, NEW n \in Nat, NEW rows, IsBatch(rows, n, Blobs[fn])
  PROVE  DecodesRight(fn, rows, n)
  <1>1. AllDecoded(fn, Decoded(fn, rows), n)
    BY AllDecode
  <1>2. ASSUME NEW i \in 1 .. n
        PROVE  /\ AllDecoded(fn, Decoded(fn, <<rows[i]>>), 1)
               /\ Agree(Decoded(fn, rows), i, Decoded(fn, <<rows[i]>>), 1)
    <2>1. IsBatch(<<rows[i]>>, 1, Blobs[fn])
      BY DEF IsBatch
    <2>2. AllDecoded(fn, Decoded(fn, <<rows[i]>>), 1)
      BY <2>1, AllDecode
    <2>3. i \in DOMAIN rows
      BY DEF IsBatch
    <2>4. Decoded(fn, rows)[i] = Decoded(fn, <<rows[i]>>)[1]
      BY <2>3, RowsDecodeAlone
    <2> QED
      BY <1>1, <2>2, <2>4 DEF Agree, AllDecoded
  <1> QED
    BY <1>1, <1>2 DEF DecodesRight

-----------------------------------------------------------------------------
(* Every call.                                                             *)

\* Nothing answered yet, the call failed, or the answer is what the whole batch
\* makes of its rows.
ScalarAnswered ==
  /\ sent.rows \in Rows(Blobs[call])
  /\ answer \in {None, Some(Failed), Some(Some(Built(call, Decoded(call, sent.rows))))}
TableAnswered ==
  /\ sent \in Rows(Blobs[call])
  /\ answer \in {None, Some(FannedOut(call, sent))}
AnswersInv ==
  /\ call \in SecurityCalls => ScalarAnswered
  /\ call \in FanCalls => TableAnswered

LEMMA AnswersStart == AnswersInit => AnswersInv
  <1>1. SecurityCalls \cap FanCalls = {}
    BY DEF SecurityCalls, FanCalls
  <1> QED
    BY <1>1 DEF AnswersInit, AnswersInv, ScalarAnswered, TableAnswered

LEMMA AnswersStep == AnswersInv /\ [AnswersNext]_<<call, sent, answer>> => AnswersInv'
  <1> SUFFICES ASSUME AnswersInv, [AnswersNext]_<<call, sent, answer>>
               PROVE  AnswersInv'
    OBVIOUS
  <1>1. SecurityCalls \cap FanCalls = {} /\ "seq_decode" \in FanCalls /\ "attestation" \in FanCalls
        /\ "seq_decode" # "attestation"
    BY DEF SecurityCalls, FanCalls
  <1>2. CASE CallSecurity
    <2> DEFINE input == BlobBytes(sent.type, sent.rows)
               column == Built(call, Decoded(call, sent.rows))
    <2>1. call \in SecurityCalls /\ sent.rows \in Rows(Blobs[call])
      BY <1>2 DEF CallSecurity, AnswersInv, ScalarAnswered
    <2>2. IsSome(input) => Get(input) = sent.rows
      BY OptionFacts DEF BlobBytes
    <2>3. Answered(Some(column)) \/ Answered(Failed)
      <3>1. CASE IsSome(input)
        BY <1>2, <2>2, <3>1 DEF CallSecurity
      <3>2. CASE ~IsSome(input)
        BY <1>2, <3>2 DEF CallSecurity
      <3> QED
        BY <3>1, <3>2
    <2> HIDE DEF column
    <2>4. call' = call /\ sent' = sent /\ answer' \in {Some(Failed), Some(Some(column))}
      BY <2>3 DEF Answered
    <2>5. ScalarAnswered'
      BY <2>1, <2>4 DEF ScalarAnswered, column
    <2> QED
      BY <1>1, <2>1, <2>4, <2>5 DEF AnswersInv
  <1>3. CASE CallSeqDecode
    <2>1. call = "seq_decode" /\ sent \in Rows(Blobs[call])
      BY <1>1, <1>3 DEF CallSeqDecode, AnswersInv, TableAnswered
    <2>2. FannedOut(call, sent) = SeqDecode(sent)
      BY <2>1 DEF FannedOut
    <2>3. call' = call /\ sent' = sent /\ answer' = Some(FannedOut(call, sent))
      BY <1>3, <2>2 DEF CallSeqDecode, Answered
    <2>4. TableAnswered'
      BY <2>1, <2>3 DEF TableAnswered
    <2> QED
      BY <1>1, <2>1, <2>3, <2>4 DEF AnswersInv
  <1>4. CASE CallAttestation
    <2>1. call = "attestation" /\ sent \in Rows(Blobs[call])
      BY <1>1, <1>4 DEF CallAttestation, AnswersInv, TableAnswered
    <2>2. FannedOut(call, sent) = AttestationTable(AttestationObjects(sent))
      BY <1>1, <2>1 DEF FannedOut
    <2>3. call' = call /\ sent' = sent /\ answer' = Some(FannedOut(call, sent))
      BY <1>4, <2>2 DEF CallAttestation, Answered
    <2>4. TableAnswered'
      BY <2>1, <2>3 DEF TableAnswered
    <2> QED
      BY <1>1, <2>1, <2>3, <2>4 DEF AnswersInv
  <1>5. CASE UNCHANGED <<call, sent, answer>>
    BY <1>5 DEF AnswersInv, ScalarAnswered, TableAnswered
  <1> QED
    BY <1>2, <1>3, <1>4, <1>5 DEF AnswersNext

LEMMA AnswersInvariant == AnswersSpec => []AnswersInv
  BY AnswersStart, AnswersStep, PTL DEF AnswersSpec

\* A scalar function of the security family answers row by row, for every batch:
\* each row of its column is what it answers to that row alone, and is NULL exactly
\* where the blob does not decode or the part it asks for is missing; the chains of
\* certificates of the other rows do not shift those of this one.
THEOREM RowsAnswered == AnswersSpec => []AnswersRowByRow
  <1>1. AnswersInv => AnswersRowByRow
    <2>1. SUFFICES ASSUME AnswersInv, call \in SecurityCalls, IsSome(answer), Get(answer) # Failed
                   PROVE  AnswersRowByRow
      BY DEF AnswersRowByRow
    <2> DEFINE rows == sent.rows
               d == Decoded(call, rows)
               one(i) == Decoded(call, <<rows[i]>>)
    <2>2. rows \in Rows(Blobs[call]) /\ Get(Get(answer)) = Built(call, d)
      <3> DEFINE column == Built(call, d)
      <3> HIDE DEF column
      <3>1. rows \in Rows(Blobs[call]) /\ answer \in {None, Some(Failed), Some(Some(column))}
        BY <2>1 DEF AnswersInv, ScalarAnswered, column
      <3>2. answer = Some(Some(column))
        BY <2>1, <3>1, OptionFacts
      <3> QED
        BY <3>1, <3>2, OptionFacts DEF column
    <2>3. PICK n \in Nat : IsBatch(rows, n, Blobs[call]) /\ Len(rows) = n
      BY <2>2, BatchOf
    <2>4. DOMAIN rows = 1 .. n
      BY <2>3 DEF IsBatch
    <2>5. DecodesRight(call, rows, n)
      BY <2>1, <2>3, BatchDecodes
    <2>6. /\ AllDecoded(call, d, n)
          /\ \A i \in 1 .. n : AllDecoded(call, one(i), 1) /\ Agree(d, i, one(i), 1)
      BY <2>5 DEF DecodesRight
    <2> HIDE DEF d, one
    <2>7. ASSUME NEW i \in 1 .. n
          PROVE  /\ ReadRow(Built(call, d), i) = ReadRow(Built(call, one(i)), 1)
                 /\ ReadRow(Built(call, d), i) # None <=> (IsSome(one(i)[1]) /\ HasAnswer(call, Get(one(i)[1])))
      <3>1. d[i] = one(i)[1]
        BY <2>6 DEF Agree
      <3>2. BuildsAlike(call, d, i, one(i), 1) /\ BuildsWhere(call, d, i)
        BY <2>1, <2>6, AllAlike
      <3> QED
        BY <3>1, <3>2 DEF BuildsAlike, BuildsWhere, Same3
    <2> QED
      BY <2>2, <2>4, <2>7 DEF AnswersRowByRow, one
  <1> QED
    BY <1>1, AnswersInvariant, PTL

\* A table function keeps its rows to their parents, for every batch: the parents
\* ascend, and the rows with one parent are a run of those it makes of that input
\* row alone, whatever NULLs, sequences or other blobs the batch has around it.
THEOREM RowsFanOut == AnswersSpec => []FansOutPerRow
  <1>1. AnswersInv => FansOutPerRow
    <2>1. SUFFICES ASSUME AnswersInv, call \in FanCalls, IsSome(answer)
                   PROVE  FansOutPerRow
      BY DEF FansOutPerRow
    <2> DEFINE out == FannedOut(call, sent)
    <2>2. sent \in Rows(Blobs[call]) /\ answer \in {None, Some(out)}
      BY <2>1 DEF AnswersInv, TableAnswered
    <2>3. FansRight(call, sent)
      BY <2>1, <2>2, SequencesFanOut, ObjectsFanOut DEF FanCalls
    <2> HIDE DEF out
    <2>4. Get(answer) = out
      BY <2>1, <2>2, OptionFacts
    <2>5. ParentsInOrder(out, Len(sent)) /\ \A i \in DOMAIN sent : RowsOf(out, i, FannedOut(call, <<sent[i]>>))
      BY <2>3 DEF FansRight, out
    <2> QED
      BY <2>4, <2>5 DEF FansOutPerRow, ParentsInOrder, RowsOf
  <1> QED
    BY <1>1, AnswersInvariant, PTL
=============================================================================
