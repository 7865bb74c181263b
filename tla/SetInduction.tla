---------------------------- MODULE SetInduction ----------------------------
(***************************************************************************)
(* Induction on the natural numbers, stated about a set of numbers rather  *)
(* than a predicate, so that the proofs about recursive functions can cite *)
(* it: each names the set of the numbers it has shown its claim for.  Then *)
(* the states a fold goes through, by that induction.                      *)
(***************************************************************************)
EXTENDS Integers, SequencesExt, WellFoundedInduction, TLAPS

\* Every set of natural numbers that has an element has a least one.
LEMMA LeastElement ==
  ASSUME NEW T \in SUBSET Nat, T # {}
  PROVE  \E m \in T : \A k \in T : m <= k
  <1>1. IsWellFoundedOn(OpToRel(<, Nat), Nat)
    BY NatLessThanWellFounded
  <1>2. PICK x \in T : \A y \in T : ~ (<<y, x>> \in OpToRel(<, Nat))
    BY <1>1, WFMin
  <1>3. \A y \in T : ~ (y < x)
    BY <1>2 DEF OpToRel
  <1> QED
    BY <1>3

\* A set that has 0, and with every number the next one, has all of them.
LEMMA Induction ==
  ASSUME NEW S, 0 \in S, \A n \in Nat : n \in S => n + 1 \in S
  PROVE  \A n \in Nat : n \in S
  <1> DEFINE T == Nat \ S
  <1>1. SUFFICES ASSUME T # {}
                 PROVE  FALSE
    OBVIOUS
  <1>2. PICK m \in T : \A k \in T : m <= k
    BY <1>1, LeastElement
  <1>3. m # 0 /\ m - 1 \in Nat
    BY <1>2
  <1>4. m - 1 \in S
    BY <1>2, <1>3
  <1>5. (m - 1) + 1 = m
    BY <1>2
  <1> QED
    BY <1>2, <1>3, <1>4, <1>5

-----------------------------------------------------------------------------
(* Folds.  FoldLeft folds over the set of a sequence's indices, the        *)
(* greatest last.                                                          *)

LEMMA MaxOfRun ==
  ASSUME NEW n \in Nat, NEW s \in SUBSET (1 .. n + 1), n + 1 \in s
  PROVE  Max(s) = n + 1
  <1>1. \A y \in s : n + 1 >= y
    OBVIOUS
  <1>2. \A x \in s : (\A y \in s : x >= y) => x = n + 1
    OBVIOUS
  <1> QED
    BY <1>1, <1>2 DEF Max

LEMMA MaxInside ==
  ASSUME NEW n \in Nat, NEW s \in SUBSET (1 .. n), s # {}
  PROVE  Max(s) \in s
  <1> DEFINE S == {k \in Nat : \A t \in SUBSET (1 .. k) : t # {} => Max(t) \in t}
  <1>1. 0 \in S
    <2>1. SUBSET (1 .. 0) = {{}}
      OBVIOUS
    <2> QED
      BY <2>1
  <1>2. ASSUME NEW k \in Nat, k \in S
        PROVE  k + 1 \in S
    <2>1. SUFFICES ASSUME NEW t \in SUBSET (1 .. k + 1), t # {}
                   PROVE  Max(t) \in t
      OBVIOUS
    <2>2. CASE k + 1 \in t
      BY <2>2, MaxOfRun
    <2>3. CASE k + 1 \notin t
      <3>1. t \in SUBSET (1 .. k)
        BY <2>3
      <3> QED
        BY <1>2, <2>1, <3>1
    <2> QED
      BY <2>2, <2>3
  <1> HIDE DEF S
  <1>3. n \in S
    BY <1>1, <1>2, Induction
  <1> QED
    BY <1>3 DEF S

\* The values of a fold at every set of indices up to n.
IsFold(it, n, base, step) ==
  it = [s \in SUBSET (1 .. n) |-> IF s = {} THEN base ELSE step[Max(s)][it[s \ {Max(s)}]]]

HasFold(n, X, base, step) == \E it \in [SUBSET (1 .. n) -> X] : IsFold(it, n, base, step)

LEMMA FoldExists ==
  ASSUME NEW n \in Nat, NEW X, NEW base \in X, NEW step \in [1 .. n -> [X -> X]]
  PROVE  HasFold(n, X, base, step)
  <1> DEFINE S == {k \in Nat : k <= n => HasFold(k, X, base, step)}
  <1>1. 0 \in S
    <2> DEFINE it == [s \in SUBSET (1 .. 0) |-> base]
    <2>1. SUBSET (1 .. 0) = {{}}
      OBVIOUS
    <2>2. it \in [SUBSET (1 .. 0) -> X]
      OBVIOUS
    <2>3. IsFold(it, 0, base, step)
      BY <2>1 DEF IsFold
    <2> HIDE DEF it
    <2> QED
      BY <2>2, <2>3 DEF HasFold
  <1>2. ASSUME NEW k \in Nat, k \in S
        PROVE  k + 1 \in S
    <2>1. SUFFICES ASSUME k + 1 <= n
                   PROVE  HasFold(k + 1, X, base, step)
      OBVIOUS
    <2>2. PICK it \in [SUBSET (1 .. k) -> X] : IsFold(it, k, base, step)
      <3>1. k <= n
        BY <2>1
      <3>2. HasFold(k, X, base, step)
        BY <1>2, <3>1
      <3> QED
        BY <3>2 DEF HasFold
    <2> DEFINE g == [s \in SUBSET (1 .. k + 1) |->
                       IF k + 1 \in s THEN step[k + 1][it[s \ {k + 1}]] ELSE it[s]]
    <2>3. k + 1 \in 1 .. n
      BY <2>1
    <2>4. ASSUME NEW s \in SUBSET (1 .. k + 1), k + 1 \in s
          PROVE  /\ g[s] = step[k + 1][it[s \ {k + 1}]]
                 /\ s \ {k + 1} \in SUBSET (1 .. k)
      BY <2>4
    <2>5. ASSUME NEW s \in SUBSET (1 .. k)
          PROVE  g[s] = it[s]
      <3>1. s \in SUBSET (1 .. k + 1) /\ k + 1 \notin s
        OBVIOUS
      <3> QED
        BY <3>1
    <2>6. ASSUME NEW s \in SUBSET (1 .. k + 1), k + 1 \notin s
          PROVE  s \in SUBSET (1 .. k)
      BY <2>6
    <2>7. g \in [SUBSET (1 .. k + 1) -> X]
      <3>1. ASSUME NEW s \in SUBSET (1 .. k + 1)
            PROVE  g[s] \in X
        <4>1. CASE k + 1 \in s
          BY <2>2, <2>3, <2>4, <4>1
        <4>2. CASE k + 1 \notin s
          BY <2>2, <2>5, <2>6, <4>2
        <4> QED
          BY <4>1, <4>2
      <3> QED
        BY <3>1
    <2>8. g = [s \in SUBSET (1 .. k + 1) |-> g[s]]
      OBVIOUS
    <2> HIDE DEF g
    <2>9. ASSUME NEW s \in SUBSET (1 .. k + 1)
          PROVE  g[s] = IF s = {} THEN base ELSE step[Max(s)][g[s \ {Max(s)}]]
      <3>1. CASE k + 1 \in s
        <4>1. Max(s) = k + 1
          BY <3>1, MaxOfRun
        <4>2. g[s \ {k + 1}] = it[s \ {k + 1}]
          BY <2>4, <2>5, <3>1
        <4> QED
          BY <2>4, <3>1, <4>1, <4>2
      <3>2. CASE k + 1 \notin s
        <4>1. s \in SUBSET (1 .. k) /\ g[s] = it[s]
          BY <2>5, <2>6, <3>2
        <4>2. it[s] = IF s = {} THEN base ELSE step[Max(s)][it[s \ {Max(s)}]]
          BY <2>2, <4>1 DEF IsFold
        <4>3. s \ {Max(s)} \in SUBSET (1 .. k)
          BY <4>1
        <4> QED
          BY <2>5, <4>1, <4>2, <4>3
      <3> QED
        BY <3>1, <3>2
    <2>10. IsFold(g, k + 1, base, step)
      BY <2>8, <2>9 DEF IsFold
    <2> QED
      BY <2>7, <2>10 DEF HasFold
  <1> HIDE DEF S
  <1>3. n \in S
    BY <1>1, <1>2, Induction
  <1> QED
    BY <1>3 DEF S

\* it is such a fold, as far as its values stay in X.
FoldsIn(it, n, X, base, step) ==
  /\ it[{}] = base
  /\ \A s \in SUBSET (1 .. n) :
       s # {} /\ it[s \ {Max(s)}] \in X => it[s] = step[Max(s)][it[s \ {Max(s)}]]

\* Its values at 1 .. 0, 1 .. 1 and so on: the states of a loop.
IsLoop(f, it, n, base, step) ==
  /\ f[0] = base
  /\ \A i \in 1 .. n : f[i] = step[i][f[i - 1]]
  /\ f[n] = it[1 .. n]
HasLoop(it, n, X, base, step) == \E f \in [0 .. n -> X] : IsLoop(f, it, n, base, step)

LEMMA FoldRun ==
  ASSUME NEW n \in Nat, NEW X, NEW base \in X, NEW step \in [1 .. n -> [X -> X]],
         NEW it, FoldsIn(it, n, X, base, step)
  PROVE  HasLoop(it, n, X, base, step)
  <1> DEFINE S == {k \in Nat : k <= n => it[1 .. k] \in X}
             f == [i \in 0 .. n |-> it[1 .. i]]
  <1>1. ASSUME NEW i \in 1 .. n, it[1 .. i - 1] \in X
        PROVE  it[1 .. i] = step[i][it[1 .. i - 1]]
    <2>1. 1 .. i \in SUBSET (1 .. n) /\ 1 .. i # {}
      <3>1. i \in 1 .. i
        OBVIOUS
      <3>2. \A j \in 1 .. i : j \in 1 .. n
        OBVIOUS
      <3> QED
        BY <3>1, <3>2
    <2>2. (1 .. i) \ {i} = 1 .. i - 1
      OBVIOUS
    <2>3. Max(1 .. i) = i
      <3>1. i - 1 \in Nat /\ (i - 1) + 1 = i /\ i \in 1 .. i
        OBVIOUS
      <3>2. 1 .. i \in SUBSET (1 .. (i - 1) + 1) /\ (i - 1) + 1 \in 1 .. i
        BY <3>1
      <3>3. Max(1 .. i) = (i - 1) + 1
        BY <3>1, <3>2, MaxOfRun
      <3> QED
        BY <3>1, <3>3
    <2> QED
      BY <1>1, <2>1, <2>2, <2>3 DEF FoldsIn
  <1>2. 0 \in S
    <2>1. 1 .. 0 = {}
      OBVIOUS
    <2> QED
      BY <2>1 DEF FoldsIn
  <1>3. ASSUME NEW k \in Nat, k \in S
        PROVE  k + 1 \in S
    <2>1. SUFFICES ASSUME k + 1 <= n
                   PROVE  it[1 .. k + 1] \in X
      OBVIOUS
    <2>2. k + 1 \in 1 .. n /\ (k + 1) - 1 = k /\ it[1 .. k] \in X
      BY <1>3, <2>1
    <2> QED
      BY <1>1, <2>2
  <1> HIDE DEF S
  <1>4. \A k \in Nat : k \in S
    BY <1>2, <1>3, Induction
  <1>5. \A k \in 0 .. n : it[1 .. k] \in X
    BY <1>4 DEF S
  <1>6. f \in [0 .. n -> X] /\ f[n] = it[1 .. n]
    BY <1>5
  <1>7. f[0] = base
    <2>1. 1 .. 0 = {}
      OBVIOUS
    <2> QED
      BY <2>1 DEF FoldsIn
  <1>8. ASSUME NEW i \in 1 .. n
        PROVE  f[i] = step[i][f[i - 1]]
    <2>1. i - 1 \in 0 .. n
      OBVIOUS
    <2> QED
      BY <1>1, <1>5, <2>1
  <1> HIDE DEF f
  <1> QED
    BY <1>6, <1>7, <1>8 DEF IsLoop, HasLoop
=============================================================================
