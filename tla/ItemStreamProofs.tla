-------------------------- MODULE ItemStreamProofs --------------------------
(***************************************************************************)
(* ItemStream, for every nesting limit, read size and set of streams: the  *)
(* incremental readers agree with the decoders that are given all bytes at *)
(* once, and implement ItemFeed.                                           *)
(*                                                                         *)
(* The decoders are recursive functions.  That they satisfy the equations  *)
(* they are defined by is proved first: a function that satisfies one for  *)
(* the deepest items, or the last bytes, extends to the next.              *)
(***************************************************************************)
EXTENDS ItemStream, SetInduction, SequenceTheorems, FiniteSetTheorems

Kind == {"none", "truncated", "malformed", "nesting"}

Places(b) == 0 .. Len(b)
Input(w, b) == w \in Wire /\ b \in Seq(Head_)

\* What decoding at byte p may come to.
Outcome(b, p, e) ==
  /\ e \in [at : p .. Len(b), error : Kind]
  /\ e.error = "truncated" => e.at = Len(b)
  /\ e.error # "truncated" => e.at > p

-----------------------------------------------------------------------------
(* One item.                                                               *)

LEMMA Inputs ==
  ASSUME NEW w, NEW b, Input(w, b)
  PROVE  /\ Len(b) \in Nat
         /\ Nesting[w] \in Nat \ {0}
         /\ \A p \in 1 .. Len(b) : b[p] \in Head_
         /\ \A p \in 1 .. Len(b) : Children[b[p]] \in 0 .. 2
  BY ItemStreamAssumption DEF Input, Head_, Children

\* What one function says of items that start anywhere.
Outcomes(b, f) == \A q \in Places(b) : Outcome(b, q, f[q])

\* An item's end is an outcome if those of the items in it are.
LEMMA HeadEndOutcome ==
  ASSUME NEW w, NEW b, Input(w, b), NEW inner,
         NEW p \in Places(b), NEW d \in 0 .. Nesting[w],
         d < Nesting[w] => Outcomes(b, inner)
  PROVE  Outcome(b, p, HeadEnd(w, b, inner, p, d))
  <1> DEFINE first == inner[p + 1]
             second == inner[first.at]
  <1>1. Len(b) \in Nat /\ Nesting[w] \in Nat
    BY Inputs
  <1>2. CASE p = Len(b) \/ Malformed(w, b[p + 1]) \/ Children[b[p + 1]] = 0 \/ d = Nesting[w]
    <2> DEFINE e == HeadEnd(w, b, inner, p, d)
    <2>1. CASE p = Len(b)
      <3>1. e = [at |-> p, error |-> "truncated"]
        BY <2>1 DEF HeadEnd
      <3> QED
        BY <1>1, <2>1, <3>1 DEF Outcome, Kind
    <2>2. CASE p # Len(b)
      <3>1. p + 1 \in p .. Len(b) /\ p + 1 > p
        BY <1>1, <2>2 DEF Places
      <3>2. \E why \in Kind \ {"truncated"} : e = [at |-> p + 1, error |-> why]
        BY <1>2, <2>2 DEF HeadEnd, Kind
      <3> QED
        BY <3>1, <3>2 DEF Outcome
    <2> QED
      BY <2>1, <2>2
  <1>3. CASE ~ (p = Len(b) \/ Malformed(w, b[p + 1]) \/ Children[b[p + 1]] = 0 \/ d = Nesting[w])
    <2>1. p + 1 \in Places(b) /\ d < Nesting[w]
      BY <1>1, <1>3 DEF Places
    <2>2. Outcome(b, p + 1, first)
      BY <2>1 DEF Outcomes
    <2>3. CASE Children[b[p + 1]] = 1 \/ first.error # "none"
      <3>1. HeadEnd(w, b, inner, p, d) = first
        BY <1>3, <2>3 DEF HeadEnd
      <3>2. Outcome(b, p, first)
        BY <1>1, <2>2 DEF Outcome, Places
      <3> QED
        BY <3>1, <3>2
    <2>4. CASE ~ (Children[b[p + 1]] = 1 \/ first.error # "none")
      <3>1. HeadEnd(w, b, inner, p, d) = second
        BY <1>3, <2>4 DEF HeadEnd
      <3>2. first.at \in Places(b) /\ first.at > p
        BY <1>1, <2>2, <2>4 DEF Outcome, Places
      <3>3. Outcome(b, first.at, second)
        BY <2>1, <3>2 DEF Outcomes
      <3>4. Outcome(b, p, second)
        BY <1>1, <3>2, <3>3 DEF Outcome, Places
      <3> QED
        BY <3>1, <3>4
    <2> QED
      BY <2>3, <2>4
  <1> QED
    BY <1>2, <1>3

\* At the deepest level it does not depend on the items in it.
LEMMA HeadEndDeepest ==
  ASSUME NEW w, NEW b, NEW f, NEW g, NEW p
  PROVE  HeadEnd(w, b, f, p, Nesting[w]) = HeadEnd(w, b, g, p, Nesting[w])
  BY DEF HeadEnd

\* f is the function ItemEnd is defined by.
IsEnd(w, b, f) ==
  f = [d \in 0 .. Nesting[w] |-> [p \in 0 .. Len(b) |-> HeadEnd(w, b, f[d + 1], p, d)]]

\* f is that function for items inside at least d others.
EndsBelow(w, b, d, f) ==
  \A e \in d .. Nesting[w] : f[e] = [p \in 0 .. Len(b) |-> HeadEnd(w, b, f[e + 1], p, e)]

LEMMA EndExists ==
  ASSUME NEW w, NEW b, Input(w, b)
  PROVE  \E f : IsEnd(w, b, f)
  <1> DEFINE N == Nesting[w]
             Level(f, e) == [p \in 0 .. Len(b) |-> HeadEnd(w, b, f[e + 1], p, e)]
             S == {k \in Nat : k <= N => \E f : EndsBelow(w, b, N - k, f)}
  <1>1. N \in Nat
    BY Inputs
  <1>2. 0 \in S
    <2> DEFINE f == [e \in {N} |-> [p \in 0 .. Len(b) |-> HeadEnd(w, b, <<>>, p, e)]]
    <2>1. f[N] = [p \in 0 .. Len(b) |-> HeadEnd(w, b, <<>>, p, N)]
      OBVIOUS
    <2> HIDE DEF f
    <2>2. f[N] = [p \in 0 .. Len(b) |-> HeadEnd(w, b, f[N + 1], p, N)]
      <3>1. \A p \in 0 .. Len(b) : HeadEnd(w, b, <<>>, p, N) = HeadEnd(w, b, f[N + 1], p, N)
        BY HeadEndDeepest
      <3> QED
        BY <2>1, <3>1
    <2>3. \A e \in N - 0 .. N : e = N
      BY <1>1
    <2>4. EndsBelow(w, b, N - 0, f)
      BY <2>2, <2>3 DEF EndsBelow
    <2> QED
      BY <2>4
  <1>3. ASSUME NEW k \in Nat, k \in S
        PROVE  k + 1 \in S
    <2>1. SUFFICES ASSUME k + 1 <= N
                   PROVE  \E g : EndsBelow(w, b, N - (k + 1), g)
      OBVIOUS
    <2>2. PICK f : EndsBelow(w, b, N - k, f)
      BY <1>1, <1>3, <2>1
    <2> DEFINE d == N - (k + 1)
               g == [e \in d .. N + 1 |-> IF e = d THEN Level(f, d) ELSE f[e]]
    <2>3. d \in Nat /\ d + 1 = N - k /\ d + 1 <= N
      BY <1>1, <2>1
    <2>4. g[d] = Level(f, d) /\ \A e \in d + 1 .. N + 1 : g[e] = f[e]
      BY <1>1, <2>3
    <2> HIDE DEF g, d
    <2>5. ASSUME NEW e \in d .. N
          PROVE  g[e] = Level(g, e)
      <3>1. g[e + 1] = f[e + 1]
        BY <1>1, <2>3, <2>4
      <3>2. CASE e = d
        BY <2>4, <3>1, <3>2
      <3>3. CASE e # d
        <4>1. e \in N - k .. N /\ g[e] = f[e]
          BY <1>1, <2>3, <2>4, <3>3
        <4>2. f[e] = Level(f, e)
          BY <2>2, <4>1 DEF EndsBelow
        <4> QED
          BY <3>1, <4>1, <4>2
      <3> QED
        BY <3>2, <3>3
    <2>6. EndsBelow(w, b, d, g)
      BY <2>5 DEF EndsBelow
    <2> QED
      BY <2>6 DEF d
  <1>4. N \in S
    <2> HIDE DEF S
    <2> QED
      BY <1>1, <1>2, <1>3, Induction
  <1>5. PICK f : EndsBelow(w, b, N - N, f)
    BY <1>1, <1>4
  <1> DEFINE g == [d \in 0 .. N |-> f[d]]
  <1>6. \A d \in 0 .. N : g[d] = f[d]
    OBVIOUS
  <1>7. g = [d \in 0 .. N |-> g[d]]
    OBVIOUS
  <1> HIDE DEF g
  <1>8. ASSUME NEW d \in 0 .. N
        PROVE  g[d] = Level(g, d)
    <2>1. g[d] = Level(f, d)
      BY <1>1, <1>5, <1>6 DEF EndsBelow
    <2>2. CASE d = N
      <3>1. \A p \in 0 .. Len(b) : HeadEnd(w, b, f[d + 1], p, d) = HeadEnd(w, b, g[d + 1], p, d)
        BY <2>2, HeadEndDeepest
      <3> QED
        BY <2>1, <3>1
    <2>3. CASE d # N
      <3>1. g[d + 1] = f[d + 1]
        BY <1>1, <1>6, <2>3
      <3> QED
        BY <2>1, <3>1
    <2> QED
      BY <2>2, <2>3
  <1>9. g = [d \in 0 .. N |-> Level(g, d)]
    BY <1>7, <1>8
  <1> QED
    BY <1>9 DEF IsEnd

End(w, b) == CHOOSE f : IsEnd(w, b, f)

LEMMA ItemEndIs ==
  ASSUME NEW w, NEW b, NEW p
  PROVE  ItemEnd(w, b, p) = End(w, b)[0][p]
  BY Zenon DEF ItemEnd, End, IsEnd

\* The equation the decoders of ciborium and rmpv are defined by.
LEMMA EndEquation ==
  ASSUME NEW w, NEW b, Input(w, b), NEW p \in Places(b), NEW d \in 0 .. Nesting[w]
  PROVE  End(w, b)[d][p] = HeadEnd(w, b, End(w, b)[d + 1], p, d)
  <1>1. IsEnd(w, b, End(w, b))
    BY EndExists, Zenon DEF End
  <1> DEFINE f == End(w, b)
  <1>2. f = [e \in 0 .. Nesting[w] |-> [q \in 0 .. Len(b) |-> HeadEnd(w, b, f[e + 1], q, e)]]
    BY <1>1 DEF IsEnd
  <1> HIDE DEF f
  <1>3. f[d] = [q \in 0 .. Len(b) |-> HeadEnd(w, b, f[d + 1], q, d)]
    BY <1>2
  <1>4. f[d][p] = HeadEnd(w, b, f[d + 1], p, d)
    BY <1>3 DEF Places
  <1> QED
    BY <1>4 DEF f

\* Every decoder stops within the bytes, and behind where it started.
LEMMA EndOutcomes ==
  ASSUME NEW w, NEW b, Input(w, b)
  PROVE  \A d \in 0 .. Nesting[w] : Outcomes(b, End(w, b)[d])
  <1> DEFINE N == Nesting[w]
             S == {k \in Nat : k <= N => Outcomes(b, End(w, b)[N - k])}
  <1>1. N \in Nat
    BY Inputs
  <1>2. 0 \in S
    <2>1. N \in 0 .. N /\ ~ (N < N) /\ N - 0 = N
      BY <1>1
    <2>2. \A p \in Places(b) : Outcome(b, p, End(w, b)[N][p])
      <3>1. SUFFICES ASSUME NEW p \in Places(b)
                     PROVE  Outcome(b, p, End(w, b)[N][p])
        OBVIOUS
      <3>2. Outcome(b, p, HeadEnd(w, b, End(w, b)[N + 1], p, N))
        BY <2>1, HeadEndOutcome
      <3> QED
        BY <2>1, <3>2, EndEquation
    <2> QED
      BY <2>1, <2>2 DEF Outcomes
  <1>3. ASSUME NEW k \in Nat, k \in S
        PROVE  k + 1 \in S
    <2>1. SUFFICES ASSUME k + 1 <= N
                   PROVE  Outcomes(b, End(w, b)[N - (k + 1)])
      OBVIOUS
    <2> DEFINE d == N - (k + 1)
    <2>2. d \in 0 .. N /\ d + 1 = N - k
      BY <1>1, <2>1
    <2>3. Outcomes(b, End(w, b)[N - k])
      BY <1>1, <1>3, <2>1
    <2> HIDE DEF d
    <2>4. Outcomes(b, End(w, b)[d + 1])
      BY <2>2, <2>3
    <2>5. \A p \in Places(b) : Outcome(b, p, End(w, b)[d][p])
      BY <2>2, <2>4, HeadEndOutcome, EndEquation
    <2>6. Outcomes(b, End(w, b)[d])
      BY <2>5 DEF Outcomes
    <2> QED
      BY <2>6 DEF d
  <1>4. \A k \in Nat : k \in S
    <2> HIDE DEF S
    <2> QED
      BY <1>2, <1>3, Induction
  <1>5. ASSUME NEW d \in 0 .. N
        PROVE  Outcomes(b, End(w, b)[d])
    <2>1. N - d \in Nat /\ N - d <= N /\ N - (N - d) = d
      BY <1>1
    <2> QED
      BY <1>4, <2>1
  <1> QED
    BY <1>5

LEMMA ItemEndOutcome ==
  ASSUME NEW w, NEW b, Input(w, b), NEW p \in Places(b)
  PROVE  Outcome(b, p, ItemEnd(w, b, p))
  BY EndOutcomes, ItemEndIs, Inputs DEF Outcomes

-----------------------------------------------------------------------------
(* A sequence of items.                                                    *)

Run(b) == [items : Seq(Places(b) \X Places(b)), error : Kind]

\* It depends on the run from behind the first item only.
LEMMA ItemsFromLocal ==
  ASSUME NEW w, NEW b, Input(w, b), NEW f, NEW g, NEW p \in Places(b),
         \A q \in p + 1 .. Len(b) : f[q] = g[q]
  PROVE  ItemsFrom(w, b, f, p) = ItemsFrom(w, b, g, p)
  <1> DEFINE e == ItemEnd(w, b, p)
  <1>1. CASE p = Len(b) \/ e.error # "none"
    BY <1>1 DEF ItemsFrom
  <1>2. CASE p # Len(b) /\ e.error = "none"
    <2>1. Outcome(b, p, e) /\ Len(b) \in Nat
      BY ItemEndOutcome, Inputs
    <2>2. e.at \in p + 1 .. Len(b)
      BY <1>2, <2>1 DEF Outcome, Places
    <2>3. f[e.at] = g[e.at]
      BY <2>2
    <2> QED
      BY <1>2, <2>3 DEF ItemsFrom
  <1> QED
    BY <1>1, <1>2

\* f is the function ParseSeq is defined by, and is so for the bytes from p on.
IsRun(w, b, f) == f = [p \in 0 .. Len(b) |-> ItemsFrom(w, b, f, p)]
RunsBelow(w, b, q, f) == \A p \in q .. Len(b) : f[p] = ItemsFrom(w, b, f, p)

LEMMA RunExists ==
  ASSUME NEW w, NEW b, Input(w, b)
  PROVE  \E f : IsRun(w, b, f)
  <1> DEFINE L == Len(b)
             S == {k \in Nat : k <= L => \E f : RunsBelow(w, b, L - k, f)}
  <1>1. L \in Nat
    BY Inputs
  <1>2. 0 \in S
    <2> DEFINE f == [p \in {L} |-> [items |-> <<>>, error |-> "none"]]
    <2>1. f[L] = ItemsFrom(w, b, f, L)
      BY DEF ItemsFrom
    <2> HIDE DEF f
    <2>2. \A p \in L - 0 .. L : p = L
      BY <1>1
    <2>3. RunsBelow(w, b, L - 0, f)
      BY <2>1, <2>2 DEF RunsBelow
    <2> QED
      BY <2>3
  <1>3. ASSUME NEW k \in Nat, k \in S
        PROVE  k + 1 \in S
    <2>1. SUFFICES ASSUME k + 1 <= L
                   PROVE  \E g : RunsBelow(w, b, L - (k + 1), g)
      OBVIOUS
    <2>2. PICK f : RunsBelow(w, b, L - k, f)
      BY <1>1, <1>3, <2>1
    <2> DEFINE q == L - (k + 1)
               g == [p \in q .. L |-> IF p = q THEN ItemsFrom(w, b, f, q) ELSE f[p]]
    <2>3. q \in Nat /\ q + 1 = L - k /\ q + 1 <= L
      BY <1>1, <2>1
    <2> HIDE DEF q, L
    <2>4. g[q] = ItemsFrom(w, b, f, q) /\ \A p \in q + 1 .. L : g[p] = f[p]
      BY <1>1, <2>3
    <2> USE DEF L
    <2> HIDE DEF g
    <2>5. ASSUME NEW p \in q .. L
          PROVE  g[p] = ItemsFrom(w, b, g, p)
      <3>1. p \in Places(b) /\ \A s \in p + 1 .. L : f[s] = g[s]
        BY <1>1, <2>3, <2>4 DEF Places
      <3>2. ItemsFrom(w, b, f, p) = ItemsFrom(w, b, g, p)
        BY <3>1, ItemsFromLocal
      <3>3. CASE p = q
        BY <2>4, <3>2, <3>3
      <3>4. CASE p # q
        <4>1. p \in L - k .. L /\ g[p] = f[p]
          BY <1>1, <2>3, <2>4, <3>4
        <4>2. f[p] = ItemsFrom(w, b, f, p)
          BY <2>2, <4>1 DEF RunsBelow
        <4> QED
          BY <3>2, <4>1, <4>2
      <3> QED
        BY <3>3, <3>4
    <2>6. RunsBelow(w, b, q, g)
      BY <2>5 DEF RunsBelow
    <2> QED
      BY <2>6 DEF q
  <1>4. L \in S
    <2> HIDE DEF S
    <2> QED
      BY <1>1, <1>2, <1>3, Induction
  <1>5. PICK f : RunsBelow(w, b, L - L, f)
    BY <1>1, <1>4
  <1> DEFINE g == [p \in 0 .. L |-> f[p]]
  <1>6. \A p \in 0 .. L : g[p] = f[p]
    OBVIOUS
  <1>7. g = [p \in 0 .. L |-> g[p]]
    OBVIOUS
  <1> HIDE DEF g
  <1>8. ASSUME NEW p \in 0 .. L
        PROVE  g[p] = ItemsFrom(w, b, g, p)
    <2>1. g[p] = ItemsFrom(w, b, f, p)
      BY <1>1, <1>5, <1>6 DEF RunsBelow
    <2>2. p \in Places(b) /\ \A s \in p + 1 .. L : f[s] = g[s]
      BY <1>1, <1>6 DEF Places
    <2> QED
      BY <2>1, <2>2, ItemsFromLocal
  <1>9. g = [p \in 0 .. L |-> ItemsFrom(w, b, g, p)]
    BY <1>7, <1>8
  <1> QED
    BY <1>9 DEF IsRun

Runs(w, b) == CHOOSE f : IsRun(w, b, f)

LEMMA ParseSeqIs ==
  ASSUME NEW w, NEW b
  PROVE  ParseSeq(w, b) = Runs(w, b)[0]
  BY Zenon DEF ParseSeq, Runs, IsRun

LEMMA RunsEquation ==
  ASSUME NEW w, NEW b, Input(w, b), NEW p \in Places(b)
  PROVE  Runs(w, b)[p] = ItemsFrom(w, b, Runs(w, b), p)
  <1>1. IsRun(w, b, Runs(w, b))
    BY RunExists, Zenon DEF Runs
  <1> DEFINE f == Runs(w, b)
  <1>2. f = [q \in 0 .. Len(b) |-> ItemsFrom(w, b, f, q)]
    BY <1>1 DEF IsRun
  <1> HIDE DEF f
  <1>3. f[p] = ItemsFrom(w, b, f, p)
    BY <1>2 DEF Places
  <1> QED
    BY <1>3 DEF f

\* Its three cases: the end of the input,
LEMMA RunAtEnd ==
  ASSUME NEW w, NEW b, Input(w, b)
  PROVE  Runs(w, b)[Len(b)] = [items |-> <<>>, error |-> "none"]
  <1>1. Len(b) \in Places(b)
    BY Inputs DEF Places
  <1>2. Runs(w, b)[Len(b)] = ItemsFrom(w, b, Runs(w, b), Len(b))
    BY <1>1, RunsEquation
  <1> QED
    BY <1>2, Zenon DEF ItemsFrom

\* something that is no item,
LEMMA RunAtDamage ==
  ASSUME NEW w, NEW b, Input(w, b), NEW p \in Places(b), p # Len(b),
         ItemEnd(w, b, p).error # "none"
  PROVE  Runs(w, b)[p] = [items |-> <<>>, error |-> ItemEnd(w, b, p).error]
  BY RunsEquation DEF ItemsFrom

\* and an item, with the run from behind it.
LEMMA RunAtItem ==
  ASSUME NEW w, NEW b, Input(w, b), NEW p \in Places(b), p # Len(b),
         ItemEnd(w, b, p).error = "none"
  PROVE  LET e == ItemEnd(w, b, p)
             r == Runs(w, b)[e.at]
         IN  Runs(w, b)[p] = [items |-> <<<<p, e.at>>>> \o r.items, error |-> r.error]
  <1>1. Runs(w, b)[p] = ItemsFrom(w, b, Runs(w, b), p)
    BY RunsEquation
  <1> QED
    BY <1>1, Zenon DEF ItemsFrom

LEMMA RunsType ==
  ASSUME NEW w, NEW b, Input(w, b)
  PROVE  \A p \in Places(b) : Runs(w, b)[p] \in Run(b)
  <1> DEFINE L == Len(b)
             S == {k \in Nat : k <= L => \A p \in L - k .. L : Runs(w, b)[p] \in Run(b)}
  <1>1. L \in Nat
    BY Inputs
  <1>2. 0 \in S
    <2> DEFINE T == Places(b) \X Places(b)
    <2>3. <<>> \in Seq(T) /\ "none" \in Kind
      BY DEF Kind
    <2>4. Runs(w, b)[L] = [items |-> <<>>, error |-> "none"]
      BY RunAtEnd
    <2>1. Runs(w, b)[L] \in Run(b)
      BY <2>3, <2>4 DEF Run
    <2>2. \A p \in L - 0 .. L : p = L
      BY <1>1
    <2> QED
      BY <2>1, <2>2
  <1>3. ASSUME NEW k \in Nat, k \in S
        PROVE  k + 1 \in S
    <2> DEFINE q == L - (k + 1)
               e == ItemEnd(w, b, q)
    <2>1. SUFFICES ASSUME k + 1 <= L
                   PROVE  \A p \in q .. L : Runs(w, b)[p] \in Run(b)
      OBVIOUS
    <2>2. q \in Places(b) /\ q # L /\ q + 1 = L - k
      BY <1>1, <2>1 DEF Places
    <2>3. Outcome(b, q, e)
      BY <2>2, ItemEndOutcome
    <2> HIDE DEF q
    <2>6. \A p \in L - k .. L : Runs(w, b)[p] \in Run(b)
      BY <1>1, <1>3, <2>1
    <2>7. \A p \in q .. L : p = q \/ p \in L - k .. L
      BY <1>1, <2>1, <2>2 DEF Places
    <2>4. CASE e.error # "none"
      <3>1. Runs(w, b)[q] = [items |-> <<>>, error |-> e.error]
        BY <2>2, <2>4, RunAtDamage
      <3> HIDE DEF e
      <3>2. Runs(w, b)[q] \in Run(b)
        BY <2>3, <3>1 DEF Run, Outcome
      <3> QED
        BY <2>6, <2>7, <3>2
    <2>5. CASE e.error = "none"
      <3> DEFINE r == Runs(w, b)[e.at]
      <3>1. Runs(w, b)[q] = [items |-> <<<<q, e.at>>>> \o r.items, error |-> r.error]
        BY <2>2, <2>5, RunAtItem, Zenon
      <3>2. e.at \in L - k .. L /\ e.at \in Places(b)
        <4> HIDE DEF e
        <4>1. e.at \in q .. Len(b) /\ e.at > q
          BY <2>3, <2>5 DEF Outcome
        <4> QED
          BY <1>1, <2>1, <2>2, <4>1 DEF Places
      <3>3. r \in Run(b)
        BY <2>6, <3>2
      <3> DEFINE T == Places(b) \X Places(b)
                 one == <<<<q, e.at>>>>
      <3> HIDE DEF r, e
      <3>7. <<q, e.at>> \in T /\ r.items \in Seq(T)
        BY <2>2, <3>2, <3>3 DEF Run
      <3> HIDE DEF T
      <3>4. one \in Seq(T) /\ r.items \in Seq(T)
        BY <3>7
      <3> HIDE DEF one
      <3>5. one \o r.items \in Seq(T)
        BY <3>4
      <3> USE DEF T, one
      <3>6. Runs(w, b)[q] \in Run(b)
        BY <3>1, <3>3, <3>5 DEF Run
      <3> QED
        BY <2>6, <2>7, <3>6
    <2> QED
      BY <2>4, <2>5
  <1>4. L \in S
    <2> HIDE DEF S
    <2> QED
      BY <1>1, <1>2, <1>3, Induction
  <1> QED
    BY <1>1, <1>4 DEF Places

\* The case of an item, index by index.
LEMMA RunAtItemIndexed ==
  ASSUME NEW w, NEW b, Input(w, b), NEW p \in Places(b), p # Len(b),
         ItemEnd(w, b, p).error = "none"
  PROVE  LET e == ItemEnd(w, b, p)
             r == Runs(w, b)[p]
             s == Runs(w, b)[e.at]
         IN  /\ e.at \in Places(b) /\ e.at > p
             /\ r.error = s.error
             /\ Len(s.items) \in Nat
             /\ Len(r.items) = 1 + Len(s.items)
             /\ r.items[1] = <<p, e.at>>
             /\ \A i \in 1 .. Len(s.items) : r.items[1 + i] = s.items[i]
  <1> DEFINE e == ItemEnd(w, b, p)
             s == Runs(w, b)[e.at]
             T == Places(b) \X Places(b)
             one == <<<<p, e.at>>>>
  <1>1. e.at \in Places(b) /\ e.at > p
    BY ItemEndOutcome, Inputs DEF Outcome, Places
  <1>2. s \in Run(b)
    BY <1>1, RunsType
  <1>3. Runs(w, b)[p] = [items |-> one \o s.items, error |-> s.error]
    BY RunAtItem
  <1> HIDE DEF s, e
  <1>4. one \in Seq(T) /\ s.items \in Seq(T) /\ Len(one) = 1 /\ one[1] = <<p, e.at>>
    BY <1>1, <1>2 DEF Run
  <1> DEFINE more == s.items
  <1> HIDE DEF one, T, more
  <1>6. more \in Seq(T) /\ Len(more) \in Nat
    BY <1>4 DEF more
  <1>5. /\ Len(one \o more) = 1 + Len(more)
        /\ (one \o more)[1] = <<p, e.at>>
        /\ \A i \in 1 .. Len(more) : (one \o more)[1 + i] = more[i]
    <2>1. /\ Len(one \o more) = Len(one) + Len(more)
          /\ \A i \in 1 .. Len(one) + Len(more) :
               (one \o more)[i] = IF i <= Len(one) THEN one[i] ELSE more[i - Len(one)]
      BY <1>4, <1>6, ConcatProperties
    <2>2. \A i \in 1 .. Len(more) : 1 + i \in 1 .. 1 + Len(more) /\ ~ (1 + i <= 1) /\ (1 + i) - 1 = i
      BY <1>6
    <2>3. 1 \in 1 .. 1 + Len(more)
      BY <1>6
    <2> QED
      BY <1>4, <2>1, <2>2, <2>3
  <1> QED
    BY <1>1, <1>3, <1>5, <1>6 DEF e, s, more

\* What ParseSeq answers.
LEMMA ParseSeqType ==
  ASSUME NEW w, NEW b, Input(w, b)
  PROVE  /\ ParseSeq(w, b) \in Run(b)
         /\ Len(ParseSeq(w, b).items) \in Nat
  <1>1. ParseSeq(w, b) \in Run(b)
    BY ParseSeqIs, RunsType, Inputs DEF Places
  <1> QED
    BY <1>1 DEF Run

-----------------------------------------------------------------------------
(* The parsers agree.                                                      *)

\* Nothing is wrong and nothing is found only at the end of the input.
LEMMA RunEmpty ==
  ASSUME NEW w, NEW b, Input(w, b), NEW p \in Places(b),
         Len(Runs(w, b)[p].items) = 0, Runs(w, b)[p].error = "none"
  PROVE  p = Len(b)
  <1>1. CASE p # Len(b) /\ ItemEnd(w, b, p).error # "none"
    <2>1. Runs(w, b)[p] = [items |-> <<>>, error |-> ItemEnd(w, b, p).error]
      BY <1>1, RunAtDamage
    <2> QED
      BY <1>1, <2>1
  <1>2. CASE p # Len(b) /\ ItemEnd(w, b, p).error = "none"
    <2> DEFINE s == Runs(w, b)[ItemEnd(w, b, p).at]
    <2>1. Len(s.items) \in Nat /\ Len(Runs(w, b)[p].items) = 1 + Len(s.items)
      BY <1>2, RunAtItemIndexed
    <2> QED
      BY <2>1
  <1> QED
    BY <1>1, <1>2

LEMMA ParsersAgreeOnInputs ==
  ASSUME Input(wire, bytes)
  PROVE  ParsersAgree
  <1> DEFINE e == ItemEnd(wire, bytes, 0)
             r == Runs(wire, bytes)[0]
             s == Runs(wire, bytes)[e.at]
             L == Len(bytes)
  <1>1. L \in Nat /\ 0 \in Places(bytes)
    BY Inputs DEF Places
  <1>2. Outcome(bytes, 0, e)
    BY <1>1, ItemEndOutcome
  <1>3. r \in Run(bytes) /\ ParseSeq(wire, bytes) = r
    BY <1>1, RunsType, ParseSeqIs
  <1>4. r.items \in Seq(Places(bytes) \X Places(bytes)) /\ e.error \in Kind
    BY <1>2, <1>3 DEF Run, Outcome
  <1> SUFFICES /\ ParseWhole(wire, bytes) = "none" <=> (Len(r.items) = 1 /\ r.error = "none")
               /\ ParseWhole(wire, bytes) = "trailing" <=>
                    (Len(r.items) > 1 \/ (Len(r.items) = 1 /\ r.error # "none"))
               /\ e.error = "none" <=> r.items # <<>>
    BY <1>3, Zenon DEF ParsersAgree, Parse
  <1> HIDE DEF r, s, e
  <1>5. CASE 0 = L
    <2>1. e.error = "truncated"
      BY <1>2, <1>5 DEF Outcome
    <2>2. r = [items |-> <<>>, error |-> "none"]
      BY <1>5, RunAtEnd DEF r
    <2>3. ParseWhole(wire, bytes) = "truncated"
      BY <2>1 DEF ParseWhole, e
    <2> QED
      BY <2>1, <2>2, <2>3
  <1>6. CASE 0 # L /\ e.error # "none"
    <2>1. r = [items |-> <<>>, error |-> e.error]
      BY <1>1, <1>6, RunAtDamage DEF r, e
    <2>2. ParseWhole(wire, bytes) = e.error
      BY <1>6 DEF ParseWhole, e
    <2> QED
      BY <1>4, <1>6, <2>1, <2>2 DEF Kind
  <1>7. CASE 0 # L /\ e.error = "none"
    <2>1. /\ e.at \in Places(bytes)
          /\ Len(s.items) \in Nat
          /\ Len(r.items) = 1 + Len(s.items)
          /\ r.error = s.error
      BY <1>1, <1>7, RunAtItemIndexed DEF r, s, e
    <2>2. r.items # <<>>
      BY <2>1
    <2>3. CASE e.at = L
      <3>1. s = [items |-> <<>>, error |-> "none"]
        BY <2>3, RunAtEnd DEF s
      <3>2. ParseWhole(wire, bytes) = "none"
        BY <1>7, <2>3 DEF ParseWhole, e
      <3> QED
        BY <1>7, <2>1, <2>2, <3>1, <3>2
    <2>4. CASE e.at # L
      <3>1. ~ (Len(s.items) = 0 /\ s.error = "none")
        BY <2>1, <2>4, RunEmpty DEF s
      <3>2. ParseWhole(wire, bytes) = "trailing"
        BY <1>7, <2>4 DEF ParseWhole, e
      <3> QED
        BY <1>7, <2>1, <2>2, <3>1, <3>2
    <2> QED
      BY <2>3, <2>4
  <1> QED
    BY <1>5, <1>6, <1>7

-----------------------------------------------------------------------------
(* A file cut after n bytes.                                               *)

\* What the cut makes of an outcome.
CutAt(n, e) ==
  IF e.error # "truncated" /\ e.at <= n THEN e ELSE [at |-> n, error |-> "truncated"]

LEMMA CutInput ==
  ASSUME NEW w, NEW b, Input(w, b), NEW n \in Places(b)
  PROVE  /\ Input(w, SubSeq(b, 1, n))
         /\ Len(SubSeq(b, 1, n)) = n
         /\ \A p \in 1 .. n : SubSeq(b, 1, n)[p] = b[p]
  <1>1. b \in Seq(Head_) /\ Len(b) \in Nat /\ n \in 0 .. Len(b)
    BY Inputs DEF Input, Places
  <1>2. \A i \in 1 .. n : b[i] \in Head_
    BY <1>1
  <1>3. /\ SubSeq(b, 1, n) \in Seq(Head_)
        /\ Len(SubSeq(b, 1, n)) = n
        /\ \A p \in 1 .. n : SubSeq(b, 1, n)[p] = b[p]
    BY <1>1, <1>2
  <1> QED
    BY <1>3 DEF Input

LEMMA HeadEndCut ==
  ASSUME NEW w, NEW b, Input(w, b), NEW n \in Places(b), NEW inner, NEW cut,
         NEW p \in 0 .. n, NEW d \in 0 .. Nesting[w],
         d < Nesting[w] => Outcomes(b, inner) /\ \A q \in 0 .. n : cut[q] = CutAt(n, inner[q])
  PROVE  HeadEnd(w, SubSeq(b, 1, n), cut, p, d) = CutAt(n, HeadEnd(w, b, inner, p, d))
  <1> DEFINE c == SubSeq(b, 1, n)
             N == Nesting[w]
             whole == HeadEnd(w, b, inner, p, d)
  <1>1. Len(b) \in Nat /\ N \in Nat /\ n \in 0 .. Len(b)
    BY Inputs DEF Places
  <1>2. Len(c) = n /\ \A i \in 1 .. n : c[i] = b[i]
    BY CutInput
  <1>3. p \in Places(b)
    BY <1>1 DEF Places
  <1>4. Outcome(b, p, whole)
    BY <1>3, HeadEndOutcome
  <1> HIDE DEF c
  <1>5. CASE p = n
    <2>1. HeadEnd(w, c, cut, p, d) = [at |-> n, error |-> "truncated"]
      BY <1>2, <1>5 DEF HeadEnd
    <2>2. whole.error # "truncated" => ~ (whole.at <= n)
      BY <1>1, <1>4, <1>5 DEF Outcome
    <2> QED
      BY <2>1, <2>2 DEF CutAt, c
  <1>6. CASE p # n
    <2>1. p # Len(b) /\ p # Len(c) /\ p + 1 \in 1 .. n /\ c[p + 1] = b[p + 1]
      BY <1>1, <1>2, <1>6
    <2>2. CASE Malformed(w, b[p + 1]) \/ Children[b[p + 1]] = 0 \/ d = N
      <3>1. HeadEnd(w, c, cut, p, d) = whole
        BY <2>1, <2>2 DEF HeadEnd
      <3>2. whole.error # "truncated" /\ whole.at = p + 1
        BY <2>1, <2>2 DEF HeadEnd
      <3> QED
        BY <2>1, <3>1, <3>2 DEF CutAt, c
    <2>3. CASE ~ (Malformed(w, b[p + 1]) \/ Children[b[p + 1]] = 0 \/ d = N)
      <3> DEFINE first == inner[p + 1]
                 second == inner[first.at]
                 single == Children[b[p + 1]] = 1
      <3>1. d < N /\ p + 1 \in Places(b)
        BY <1>1, <2>1, <2>3 DEF Places
      <3>2. Outcome(b, p + 1, first) /\ cut[p + 1] = CutAt(n, first)
        BY <2>1, <3>1 DEF Outcomes
      <3>3. whole = IF single \/ first.error # "none" THEN first ELSE second
        BY <2>1, <2>3 DEF HeadEnd
      <3>4. HeadEnd(w, c, cut, p, d) =
              IF single \/ cut[p + 1].error # "none" THEN cut[p + 1] ELSE cut[cut[p + 1].at]
        BY <2>1, <2>3 DEF HeadEnd
      <3>5. CASE first.error # "truncated" /\ first.at <= n
        <4>1. cut[p + 1] = first
          BY <3>2, <3>5 DEF CutAt
        <4>2. first.at \in 0 .. n
          BY <1>1, <3>2, <3>5 DEF Outcome
        <4>3. cut[first.at] = CutAt(n, second)
          BY <3>1, <4>2
        <4>4. CutAt(n, first) = first
          BY <3>5 DEF CutAt
        <4> QED
          BY <3>3, <3>4, <4>1, <4>3, <4>4 DEF c
      <3>6. CASE ~ (first.error # "truncated" /\ first.at <= n)
        <4>1. cut[p + 1] = [at |-> n, error |-> "truncated"]
          BY <3>2, <3>6 DEF CutAt
        <4>2. CutAt(n, first) = [at |-> n, error |-> "truncated"]
          BY <3>6 DEF CutAt
        <4>3. ASSUME ~ (single \/ first.error # "none")
              PROVE  CutAt(n, second) = [at |-> n, error |-> "truncated"]
          <5>1. first.at \in Places(b) /\ first.at > n
            BY <1>1, <3>2, <3>6, <4>3 DEF Outcome, Places
          <5>2. Outcome(b, first.at, second)
            BY <3>1, <5>1 DEF Outcomes
          <5>3. ~ (second.at <= n)
            BY <1>1, <5>1, <5>2 DEF Outcome, Places
          <5> QED
            BY <5>3 DEF CutAt
        <4>4. HeadEnd(w, c, cut, p, d) = [at |-> n, error |-> "truncated"]
          BY <3>4, <4>1
        <4>5. CutAt(n, whole) = [at |-> n, error |-> "truncated"]
          BY <3>3, <4>2, <4>3
        <4> QED
          BY <4>4, <4>5 DEF c
      <3> QED
        BY <3>5, <3>6
    <2> QED
      BY <2>2, <2>3
  <1> QED
    BY <1>5, <1>6

LEMMA ItemEndCut ==
  ASSUME NEW w, NEW b, Input(w, b), NEW n \in Places(b), NEW p \in 0 .. n
  PROVE  ItemEnd(w, SubSeq(b, 1, n), p) = CutAt(n, ItemEnd(w, b, p))
  <1> DEFINE c == SubSeq(b, 1, n)
             N == Nesting[w]
             Cuts(d) == \A q \in 0 .. n : End(w, c)[d][q] = CutAt(n, End(w, b)[d][q])
             S == {k \in Nat : k <= N => Cuts(N - k)}
  <1>1. N \in Nat /\ n \in 0 .. Len(b) /\ Len(b) \in Nat
    BY Inputs DEF Places
  <1>2. Input(w, c) /\ Len(c) = n
    BY CutInput
  <1> HIDE DEF c
  <1>3. ASSUME NEW d \in 0 .. N, d < N => Cuts(d + 1)
        PROVE  Cuts(d)
    <2>1. SUFFICES ASSUME NEW q \in 0 .. n
                   PROVE  End(w, c)[d][q] = CutAt(n, End(w, b)[d][q])
      OBVIOUS
    <2>2. q \in Places(b) /\ q \in Places(c)
      BY <1>1, <1>2 DEF Places
    <2>3. d < N => Outcomes(b, End(w, b)[d + 1])
      BY <1>1, EndOutcomes
    <2>4. d < N => \A s \in 0 .. n : End(w, c)[d + 1][s] = CutAt(n, End(w, b)[d + 1][s])
      BY <1>3
    <2> HIDE DEF Cuts
    <2>5. HeadEnd(w, c, End(w, c)[d + 1], q, d) = CutAt(n, HeadEnd(w, b, End(w, b)[d + 1], q, d))
      BY <2>3, <2>4, HeadEndCut DEF c
    <2>6. End(w, c)[d][q] = HeadEnd(w, c, End(w, c)[d + 1], q, d)
      BY <1>2, <2>2, EndEquation
    <2>7. End(w, b)[d][q] = HeadEnd(w, b, End(w, b)[d + 1], q, d)
      BY <2>2, EndEquation
    <2> QED
      BY <2>5, <2>6, <2>7
  <1> HIDE DEF Cuts
  <1>4. 0 \in S
    <2>1. N \in 0 .. N /\ ~ (N < N) /\ N - 0 = N
      BY <1>1
    <2> QED
      BY <1>3, <2>1
  <1>5. ASSUME NEW k \in Nat, k \in S
        PROVE  k + 1 \in S
    <2>1. SUFFICES ASSUME k + 1 <= N
                   PROVE  Cuts(N - (k + 1))
      OBVIOUS
    <2>2. N - (k + 1) \in 0 .. N /\ (N - (k + 1)) + 1 = N - k
      BY <1>1, <2>1
    <2>3. Cuts((N - (k + 1)) + 1)
      BY <1>1, <1>5, <2>1, <2>2
    <2> QED
      BY <1>3, <2>2, <2>3
  <1>6. N \in S
    <2> HIDE DEF S
    <2> QED
      BY <1>1, <1>4, <1>5, Induction
  <1>7. Cuts(0)
    BY <1>1, <1>6
  <1> QED
    BY <1>7, ItemEndIs DEF Cuts, c

\* The items of a run end behind its start, one behind the other.
LEMMA RunEnds ==
  ASSUME NEW w, NEW b, Input(w, b)
  PROVE  \A p \in Places(b) : \A i \in DOMAIN Runs(w, b)[p].items : Runs(w, b)[p].items[i][2] > p
  <1> DEFINE L == Len(b)
             Late(p) == \A i \in DOMAIN Runs(w, b)[p].items : Runs(w, b)[p].items[i][2] > p
             S == {k \in Nat : k <= L => \A p \in L - k .. L : Late(p)}
  <1>1. L \in Nat
    BY Inputs
  <1>2. 0 \in S
    <2>1. Runs(w, b)[L] = [items |-> <<>>, error |-> "none"]
      BY RunAtEnd
    <2>2. Late(L)
      BY <2>1
    <2>3. \A p \in L - 0 .. L : p = L
      BY <1>1
    <2> HIDE DEF Late
    <2> QED
      BY <2>2, <2>3
  <1>3. ASSUME NEW k \in Nat, k \in S
        PROVE  k + 1 \in S
    <2> DEFINE q == L - (k + 1)
               e == ItemEnd(w, b, q)
               r == Runs(w, b)[q]
               s == Runs(w, b)[e.at]
    <2>1. SUFFICES ASSUME k + 1 <= L
                   PROVE  \A p \in q .. L : Late(p)
      OBVIOUS
    <2>2. q \in Places(b) /\ q # L /\ q + 1 = L - k
      BY <1>1, <2>1 DEF Places
    <2> HIDE DEF q
    <2>3. \A p \in L - k .. L : Late(p)
      BY <1>1, <1>3, <2>1
    <2>4. \A p \in q .. L : p = q \/ p \in L - k .. L
      BY <1>1, <2>1, <2>2 DEF Places
    <2>5. CASE e.error # "none"
      <3>1. r = [items |-> <<>>, error |-> e.error]
        BY <2>2, <2>5, RunAtDamage
      <3>2. Late(q)
        BY <3>1
      <3> HIDE DEF Late
      <3> QED
        BY <2>3, <2>4, <3>2
    <2>6. CASE e.error = "none"
      <3>1. /\ e.at \in Places(b) /\ e.at > q
            /\ Len(s.items) \in Nat
            /\ Len(r.items) = 1 + Len(s.items)
            /\ r.items[1] = <<q, e.at>>
            /\ \A i \in 1 .. Len(s.items) : r.items[1 + i] = s.items[i]
        BY <2>2, <2>6, RunAtItemIndexed
      <3>2. e.at \in L - k .. L
        <4> HIDE DEF e
        <4> QED
          BY <1>1, <2>2, <3>1 DEF Places
      <3>3. Late(e.at)
        <4> HIDE DEF Late
        <4> QED
          BY <2>3, <3>2
      <3>4. s \in Run(b) /\ r \in Run(b)
        BY <2>2, <3>1, RunsType
      <3> HIDE DEF e, s, r
      <3>5. /\ DOMAIN s.items = 1 .. Len(s.items)
            /\ DOMAIN r.items = 1 .. 1 + Len(s.items)
            /\ \A i \in 1 .. Len(s.items) : s.items[i][2] \in Nat
        <4> DEFINE T == Places(b) \X Places(b)
        <4>1. s.items \in Seq(T) /\ r.items \in Seq(T)
          BY <3>4 DEF Run
        <4>2. \A x \in T : x[2] \in Nat
          BY <1>1 DEF Places
        <4> HIDE DEF T
        <4> QED
          BY <3>1, <4>1, <4>2
      <3>6. ASSUME NEW i \in 1 .. 1 + Len(s.items)
            PROVE  r.items[i][2] > q
        <4>1. CASE i = 1
          BY <3>1, <4>1
        <4>2. CASE i # 1
          <5>1. i - 1 \in 1 .. Len(s.items) /\ 1 + (i - 1) = i
            BY <3>1, <4>2
          <5>2. r.items[i] = s.items[i - 1]
            BY <3>1, <5>1
          <5>3. s.items[i - 1][2] > e.at /\ s.items[i - 1][2] \in Nat
            BY <3>3, <3>5, <5>1 DEF s
          <5> QED
            BY <1>1, <2>2, <3>1, <5>2, <5>3 DEF Places
        <4> QED
          BY <4>1, <4>2
      <3>7. Late(q)
        BY <3>5, <3>6 DEF r
      <3> HIDE DEF Late
      <3> QED
        BY <2>3, <2>4, <3>7
    <2> QED
      BY <2>5, <2>6
  <1>4. L \in S
    <2> HIDE DEF S
    <2> QED
      BY <1>1, <1>2, <1>3, Induction
  <1>5. \A p \in L - L .. L : Late(p)
    BY <1>1, <1>4
  <1> HIDE DEF Late
  <1>6. \A p \in Places(b) : Late(p)
    BY <1>1, <1>5 DEF Places
  <1> QED
    BY <1>6 DEF Late

\* What a cut after n bytes leaves of an undamaged run r that starts at p.
Kept(n, p, r, cut) ==
  \E k \in 0 .. Len(r.items) :
    /\ {i \in DOMAIN r.items : r.items[i][2] <= n} = 1 .. k
    /\ Len(cut.items) = k
    /\ \A i \in 1 .. k : cut.items[i] = r.items[i]
    /\ cut.error = "none" <=> n \in {p} \cup {r.items[i][2] : i \in DOMAIN r.items}

\* The items of a run, and where they end.
LEMMA RunItems ==
  ASSUME NEW w, NEW b, Input(w, b), NEW p \in Places(b)
  PROVE  LET s == Runs(w, b)[p].items
         IN  /\ s \in Seq(Places(b) \X Places(b))
             /\ Len(s) \in Nat
             /\ DOMAIN s = 1 .. Len(s)
             /\ \A i \in 1 .. Len(s) : s[i][2] \in p + 1 .. Len(b)
  <1> DEFINE s == Runs(w, b)[p].items
             T == Places(b) \X Places(b)
  <1>1. s \in Seq(T)
    BY RunsType DEF Run
  <1>2. \A i \in DOMAIN s : s[i][2] > p
    BY RunEnds
  <1>3. Len(b) \in Nat /\ \A x \in T : x[2] \in 0 .. Len(b)
    BY Inputs DEF Places
  <1> HIDE DEF s, T
  <1>4. Len(s) \in Nat /\ DOMAIN s = 1 .. Len(s) /\ \A i \in 1 .. Len(s) : s[i] \in T
    BY <1>1
  <1>5. \A i \in 1 .. Len(s) : s[i][2] \in p + 1 .. Len(b)
    BY <1>2, <1>3, <1>4 DEF Places
  <1> QED
    BY <1>1, <1>4, <1>5 DEF s, T

\* A run that starts at the cut,
LEMMA KeptAtCut ==
  ASSUME NEW w, NEW b, Input(w, b), NEW n \in Places(b)
  PROVE  Kept(n, n, Runs(w, b)[n], [items |-> <<>>, error |-> "none"])
  <1> DEFINE s == Runs(w, b)[n].items
  <1>1. Len(s) \in Nat /\ DOMAIN s = 1 .. Len(s) /\ \A i \in 1 .. Len(s) : s[i][2] \in n + 1 .. Len(b)
    BY RunItems
  <1> HIDE DEF s
  <1>2. n \in Nat /\ Len(b) \in Nat
    BY Inputs DEF Places
  <1>3. {i \in DOMAIN s : s[i][2] <= n} = 1 .. 0
    BY <1>1, <1>2
  <1>4. 0 \in 0 .. Len(s)
    BY <1>1
  <1> QED
    BY <1>3, <1>4 DEF Kept, s

\* one whose first item the cut goes through,
LEMMA KeptInside ==
  ASSUME NEW w, NEW b, Input(w, b), NEW n \in Places(b), NEW p \in 0 .. n, p # n,
         ItemEnd(w, b, p).error = "none", ItemEnd(w, b, p).at > n
  PROVE  Kept(n, p, Runs(w, b)[p], [items |-> <<>>, error |-> "truncated"])
  <1> DEFINE e == ItemEnd(w, b, p)
             r == Runs(w, b)[p]
             s == Runs(w, b)[e.at]
  <1>1. Len(b) \in Nat /\ n \in 0 .. Len(b) /\ p \in Places(b) /\ p # Len(b)
    BY Inputs DEF Places
  <1>2. /\ e.at \in Places(b)
        /\ Len(s.items) \in Nat
        /\ Len(r.items) = 1 + Len(s.items)
        /\ r.items[1] = <<p, e.at>>
        /\ \A i \in 1 .. Len(s.items) : r.items[1 + i] = s.items[i]
    BY <1>1, RunAtItemIndexed
  <1>3. \A i \in 1 .. Len(s.items) : s.items[i][2] \in e.at + 1 .. Len(b)
    BY <1>2, RunItems
  <1>4. DOMAIN r.items = 1 .. Len(r.items)
    BY <1>1, RunItems
  <1>5. e.at > n
    OBVIOUS
  <1> HIDE DEF e, r, s
  <1>6. ASSUME NEW i \in 1 .. Len(r.items)
        PROVE  ~ (r.items[i][2] <= n)
    <2>1. CASE i = 1
      BY <1>1, <1>2, <1>5, <2>1 DEF Places
    <2>2. CASE i # 1
      <3>1. i - 1 \in 1 .. Len(s.items) /\ 1 + (i - 1) = i
        BY <1>2, <2>2
      <3>2. r.items[i] = s.items[i - 1]
        BY <1>2, <3>1
      <3>3. r.items[i][2] \in e.at + 1 .. Len(b)
        BY <1>3, <3>1, <3>2
      <3> QED
        BY <1>1, <1>2, <1>5, <3>3 DEF Places
    <2> QED
      BY <2>1, <2>2
  <1>7. {i \in DOMAIN r.items : r.items[i][2] <= n} = 1 .. 0
    BY <1>4, <1>6
  <1>8. n \notin {p} \cup {r.items[i][2] : i \in DOMAIN r.items}
    BY <1>1, <1>4, <1>6
  <1>9. 0 \in 0 .. Len(r.items)
    BY <1>2
  <1> QED
    BY <1>7, <1>8, <1>9 DEF Kept, r

\* and one whose first item is left of it.
LEMMA KeptBehindItem ==
  ASSUME NEW w, NEW b, Input(w, b), NEW n \in Places(b), NEW p \in 0 .. n, p # n,
         ItemEnd(w, b, p).error = "none", ItemEnd(w, b, p).at <= n, NEW cut, NEW rest,
         Len(rest.items) \in Nat,
         Kept(n, ItemEnd(w, b, p).at, Runs(w, b)[ItemEnd(w, b, p).at], rest),
         cut.error = rest.error,
         Len(cut.items) = 1 + Len(rest.items),
         cut.items[1] = <<p, ItemEnd(w, b, p).at>>,
         \A i \in 1 .. Len(rest.items) : cut.items[1 + i] = rest.items[i]
  PROVE  Kept(n, p, Runs(w, b)[p], cut)
  <1> DEFINE e == ItemEnd(w, b, p)
             r == Runs(w, b)[p]
             s == Runs(w, b)[e.at]
  <1>1. Len(b) \in Nat /\ n \in 0 .. Len(b) /\ p \in Places(b) /\ p # Len(b)
    BY Inputs DEF Places
  <1>2. /\ e.at \in Places(b)
        /\ e.at > p
        /\ Len(s.items) \in Nat
        /\ Len(r.items) = 1 + Len(s.items)
        /\ r.items[1] = <<p, e.at>>
        /\ \A i \in 1 .. Len(s.items) : r.items[1 + i] = s.items[i]
    BY <1>1, RunAtItemIndexed
  <1>3. DOMAIN r.items = 1 .. Len(r.items) /\ DOMAIN s.items = 1 .. Len(s.items)
    BY <1>1, <1>2, RunItems
  <1>4. e.at <= n /\ cut.items[1] = <<p, e.at>>
    OBVIOUS
  <1>5. PICK k \in 0 .. Len(s.items) :
          /\ {i \in DOMAIN s.items : s.items[i][2] <= n} = 1 .. k
          /\ Len(rest.items) = k
          /\ \A i \in 1 .. k : rest.items[i] = s.items[i]
          /\ rest.error = "none" <=> n \in {e.at} \cup {s.items[i][2] : i \in DOMAIN s.items}
    BY DEF Kept
  <1> HIDE DEF e, r, s
  <1>6. \A i \in 1 .. Len(r.items) :
          IF i = 1 THEN r.items[i][2] = e.at
          ELSE i - 1 \in 1 .. Len(s.items) /\ r.items[i] = s.items[i - 1]
    <2> TAKE i \in 1 .. Len(r.items)
    <2>1. CASE i = 1
      BY <1>2, <2>1
    <2>2. CASE i # 1
      <3>1. i - 1 \in 1 .. Len(s.items) /\ 1 + (i - 1) = i
        BY <1>2, <2>2
      <3> QED
        BY <1>2, <2>2, <3>1
    <2> QED
      BY <2>1, <2>2
  <1>7. {i \in DOMAIN r.items : r.items[i][2] <= n} = 1 .. k + 1
    <2>1. \A j \in 1 .. Len(s.items) : s.items[j][2] <= n <=> j \in 1 .. k
      BY <1>3, <1>5
    <2>2. \A i \in 1 .. Len(r.items) : r.items[i][2] <= n <=> i \in 1 .. k + 1
      <3> TAKE i \in 1 .. Len(r.items)
      <3>1. CASE i = 1
        BY <1>2, <1>4, <1>5, <1>6, <3>1
      <3>2. CASE i # 1
        <4>1. i - 1 \in 1 .. Len(s.items) /\ r.items[i] = s.items[i - 1]
          BY <1>6, <3>2
        <4>2. r.items[i][2] <= n <=> i - 1 \in 1 .. k
          BY <2>1, <4>1
        <4>3. i - 1 \in 1 .. k <=> i \in 1 .. k + 1
          BY <1>2, <3>2
        <4> QED
          BY <4>2, <4>3
      <3> QED
        BY <3>1, <3>2
    <2>3. \A i \in 1 .. k + 1 : i \in 1 .. Len(r.items)
      BY <1>2
    <2> QED
      BY <1>3, <2>2, <2>3
  <1>8. \A i \in 1 .. k + 1 : cut.items[i] = r.items[i]
    <2> TAKE i \in 1 .. k + 1
    <2>1. CASE i = 1
      BY <1>2, <1>4, <2>1
    <2>2. CASE i # 1
      <3>1. i - 1 \in 1 .. k /\ 1 + (i - 1) = i /\ i - 1 \in 1 .. Len(s.items)
        BY <1>2, <2>2
      <3>2. cut.items[i] = rest.items[i - 1]
        BY <1>5, <3>1
      <3>3. r.items[i] = s.items[i - 1]
        BY <1>2, <3>1
      <3> QED
        BY <1>5, <3>1, <3>2, <3>3
    <2> QED
      BY <2>1, <2>2
  <1>9. n \in {p} \cup {r.items[i][2] : i \in DOMAIN r.items}
          <=> n \in {e.at} \cup {s.items[i][2] : i \in DOMAIN s.items}
    <2>1. ASSUME NEW i \in 1 .. Len(r.items), n = r.items[i][2]
          PROVE  n \in {e.at} \cup {s.items[j][2] : j \in 1 .. Len(s.items)}
      BY <1>6, <2>1
    <2>2. ASSUME NEW j \in 1 .. Len(s.items), n = s.items[j][2]
          PROVE  n \in {r.items[i][2] : i \in 1 .. Len(r.items)}
      <3>1. 1 + j \in 1 .. Len(r.items) /\ r.items[1 + j] = s.items[j]
        BY <1>2
      <3> QED
        BY <2>2, <3>1
    <2>3. e.at \in {r.items[i][2] : i \in 1 .. Len(r.items)}
      <3>1. 1 \in 1 .. Len(r.items)
        BY <1>2
      <3> QED
        BY <1>6, <3>1
    <2> QED
      BY <1>3, <2>1, <2>2, <2>3
  <1>10. k + 1 \in 0 .. Len(r.items) /\ Len(cut.items) = k + 1
    BY <1>2, <1>5
  <1>11. cut.error = "none" <=> n \in {p} \cup {r.items[i][2] : i \in DOMAIN r.items}
    BY <1>5, <1>9
  <1>12. Kept(n, p, r, cut)
    BY <1>7, <1>8, <1>10, <1>11 DEF Kept
  <1> QED
    BY <1>12 DEF r

LEMMA RunCut ==
  ASSUME NEW w, NEW b, Input(w, b), NEW n \in Places(b)
  PROVE  \A p \in 0 .. n : Runs(w, b)[p].error = "none" =>
           Kept(n, p, Runs(w, b)[p], Runs(w, SubSeq(b, 1, n))[p])
  <1> DEFINE c == SubSeq(b, 1, n)
             Holds(p) == Runs(w, b)[p].error = "none" => Kept(n, p, Runs(w, b)[p], Runs(w, c)[p])
             S == {k \in Nat : k <= n => \A p \in n - k .. n : Holds(p)}
  <1>1. n \in 0 .. Len(b) /\ Len(b) \in Nat
    BY Inputs DEF Places
  <1>2. Input(w, c) /\ Len(c) = n
    BY CutInput
  <1>3. \A p \in 0 .. n : ItemEnd(w, c, p) = CutAt(n, ItemEnd(w, b, p))
    BY ItemEndCut
  <1> HIDE DEF c
  <1>4. 0 \in S
    <2>1. Runs(w, c)[n] = [items |-> <<>>, error |-> "none"]
      BY <1>2, RunAtEnd
    <2>2. Holds(n)
      BY <2>1, KeptAtCut
    <2>3. \A p \in n - 0 .. n : p = n
      BY <1>1
    <2> HIDE DEF Holds
    <2> QED
      BY <2>2, <2>3
  <1>5. ASSUME NEW k \in Nat, k \in S
        PROVE  k + 1 \in S
    <2> DEFINE q == n - (k + 1)
               e == ItemEnd(w, b, q)
    <2>1. SUFFICES ASSUME k + 1 <= n
                   PROVE  \A p \in q .. n : Holds(p)
      OBVIOUS
    <2>2. q \in 0 .. n /\ q # n /\ q + 1 = n - k
      BY <1>1, <2>1
    <2>3. q \in Places(b) /\ q \in Places(c) /\ q # Len(b) /\ q # Len(c)
      BY <1>1, <1>2, <2>2 DEF Places
    <2> HIDE DEF q
    <2>4. \A p \in n - k .. n : Holds(p)
      <3> HIDE DEF Holds
      <3> QED
        BY <1>1, <1>5, <2>1
    <2>5. \A p \in q .. n : p = q \/ p \in n - k .. n
      BY <1>1, <2>1, <2>2
    <2>6. ItemEnd(w, c, q) = CutAt(n, e)
      BY <1>3, <2>2
    <2>7. Outcome(b, q, e)
      BY <2>3, ItemEndOutcome
    <2>8. ASSUME Runs(w, b)[q].error = "none"
          PROVE  Kept(n, q, Runs(w, b)[q], Runs(w, c)[q])
      <3>1. e.error = "none"
        <4>1. SUFFICES ASSUME e.error # "none"
                       PROVE  FALSE
          OBVIOUS
        <4>2. Runs(w, b)[q] = [items |-> <<>>, error |-> e.error]
          BY <2>3, <4>1, RunAtDamage
        <4> QED
          BY <2>8, <4>1, <4>2
      <3>2. CASE e.at > n
        <4>1. ItemEnd(w, c, q) = [at |-> n, error |-> "truncated"]
          <5> HIDE DEF e
          <5>1. ~ (e.at <= n)
            BY <1>1, <2>2, <2>7, <3>2 DEF Outcome
          <5> QED
            BY <2>6, <5>1 DEF CutAt
        <4>2. Runs(w, c)[q] = [items |-> <<>>, error |-> "truncated"]
          <5>1. ItemEnd(w, c, q).error = "truncated" /\ ItemEnd(w, c, q).error # "none"
            BY <4>1
          <5> QED
            BY <1>2, <2>3, <5>1, RunAtDamage
        <4> QED
          BY <2>2, <3>1, <3>2, <4>2, KeptInside
      <3>3. CASE ~ (e.at > n)
        <4>1. e.at \in n - k .. n /\ e.at <= n /\ e.at \in Places(b)
          <5> HIDE DEF e
          <5> QED
            BY <1>1, <2>2, <2>7, <3>1, <3>3 DEF Outcome, Places
        <4>2. ItemEnd(w, c, q) = e
          <5> HIDE DEF e
          <5> QED
            BY <2>6, <3>1, <4>1 DEF CutAt
        <4> DEFINE rest == Runs(w, c)[e.at]
        <4>3. /\ Len(rest.items) \in Nat
              /\ Runs(w, c)[q].error = rest.error
              /\ Len(Runs(w, c)[q].items) = 1 + Len(rest.items)
              /\ Runs(w, c)[q].items[1] = <<q, e.at>>
              /\ \A i \in 1 .. Len(rest.items) : Runs(w, c)[q].items[1 + i] = rest.items[i]
          BY <1>2, <2>3, <3>1, <4>2, RunAtItemIndexed
        <4>4. Runs(w, b)[e.at].error = "none"
          BY <2>3, <2>8, <3>1, RunAtItemIndexed
        <4>5. Kept(n, e.at, Runs(w, b)[e.at], rest)
          BY <2>4, <4>1, <4>4
        <4> QED
          BY <2>2, <3>1, <4>1, <4>3, <4>5, KeptBehindItem
      <3> QED
        BY <3>2, <3>3
    <2>9. Holds(q)
      BY <2>8
    <2> HIDE DEF Holds
    <2> QED
      BY <2>4, <2>5, <2>9
  <1>6. n \in S
    <2> HIDE DEF S
    <2> QED
      BY <1>1, <1>4, <1>5, Induction
  <1>7. \A p \in n - n .. n : Holds(p)
    <2> HIDE DEF Holds
    <2> QED
      BY <1>1, <1>6
  <1> HIDE DEF Holds
  <1>8. \A p \in 0 .. n : Holds(p)
    BY <1>1, <1>7
  <1> QED
    BY <1>8 DEF Holds, c

LEMMA CutKeepsWholeItemsOnInputs ==
  ASSUME Input(wire, bytes)
  PROVE  CutKeepsWholeItems
  <1> DEFINE whole == ParseSeq(wire, bytes)
             Whole(n) == {i \in DOMAIN whole.items : whole.items[i][2] <= n}
             cut(n) == ParseSeq(wire, SubSeq(bytes, 1, n))
             T == Places(bytes) \X Places(bytes)
  <1>1. SUFFICES ASSUME whole.error = "none", NEW n \in 0 .. Len(bytes)
                 PROVE  /\ cut(n).items = SubSeq(whole.items, 1, Cardinality(Whole(n)))
                        /\ cut(n).error = "none" <=>
                             n \in {0} \cup {whole.items[i][2] : i \in DOMAIN whole.items}
    BY Zenon DEF CutKeepsWholeItems
  <1>2. n \in Places(bytes) /\ 0 \in 0 .. n /\ Len(bytes) \in Nat /\ 0 \in Places(bytes)
    BY Inputs DEF Places
  <1>3. whole = Runs(wire, bytes)[0] /\ cut(n) = Runs(wire, SubSeq(bytes, 1, n))[0]
    BY ParseSeqIs
  <1>4. Kept(n, 0, whole, cut(n))
    BY <1>1, <1>2, <1>3, RunCut
  <1>5. whole.items \in Seq(T) /\ Len(whole.items) \in Nat
    BY <1>2, <1>3, RunItems
  <1>6. cut(n).items \in Seq(T)
    <2> DEFINE c == SubSeq(bytes, 1, n)
    <2>1. Input(wire, c) /\ Len(c) = n
      BY <1>2, CutInput
    <2>2. 0 \in Places(c) /\ \A p \in Places(c) : p \in Places(bytes)
      BY <1>2, <2>1 DEF Places
    <2>3. Runs(wire, c)[0].items \in Seq(Places(c) \X Places(c))
      BY <2>1, <2>2, RunItems
    <2> DEFINE U == Places(c) \X Places(c)
    <2>4. U \subseteq T
      BY <2>2
    <2>5. Runs(wire, c)[0].items \in Seq(U)
      BY <2>3
    <2> HIDE DEF U, T
    <2>6. Runs(wire, c)[0].items \in Seq(T)
      BY <2>4, <2>5, SeqMonotonic
    <2> QED
      BY <1>3, <2>6
  <1>7. PICK k \in 0 .. Len(whole.items) :
          /\ Whole(n) = 1 .. k
          /\ Len(cut(n).items) = k
          /\ \A i \in 1 .. k : cut(n).items[i] = whole.items[i]
          /\ cut(n).error = "none" <=> n \in {0} \cup {whole.items[i][2] : i \in DOMAIN whole.items}
    BY <1>4 DEF Kept
  <1>8. Cardinality(Whole(n)) = k
    <2>1. Cardinality(1 .. k) = IF 1 > k THEN 0 ELSE k - 1 + 1
      BY <1>5, FS_Interval
    <2>2. Cardinality(1 .. k) = k
      <3> HIDE DEF whole
      <3> QED
        BY <1>5, <2>1
    <2> QED
      BY <1>7, <2>2, Zenon
  <1> HIDE DEF whole, cut, T
  <1>9. /\ SubSeq(whole.items, 1, k) \in Seq(T)
        /\ Len(SubSeq(whole.items, 1, k)) = k
        /\ \A i \in 1 .. k : SubSeq(whole.items, 1, k)[i] = whole.items[i]
    BY <1>5
  <1>10. cut(n).items = SubSeq(whole.items, 1, k)
    BY <1>6, <1>7, <1>9, SeqEqual
  <1> QED
    BY <1>7, <1>8, <1>10

-----------------------------------------------------------------------------
(* The readers.                                                            *)

Result ==
  [kind : {"item"}, range : Nat \X Nat]
  \cup [kind : {"error"}, index : Nat, why : {"truncated", "malformed", "nesting", "io"}]
  \cup {NoItem}

TypeInv ==
  /\ wire \in Wire /\ bytes \in Streams
  /\ at \in Places(bytes) /\ start \in 0 .. at
  /\ buffered \in 0 .. Chunk /\ at + buffered <= Len(bytes)
  /\ call \in {"idle", "check", "decode"}
  /\ done \in BOOLEAN /\ faulted \in BOOLEAN
  /\ index \in Nat /\ results \in Seq(Result)

\* Room for the answer of the call that is on, and for those given.
CallInv ==
  /\ Len(results) <= MaxCalls
  /\ call # "idle" => ~done /\ Len(results) < MaxCalls

\* Items, then the end or an error, then nothing.
OrderInv ==
  /\ index <= Len(results)
  /\ \A i \in 1 .. Len(results) : results[i].kind = "item" <=> i <= index
  /\ \A i \in index + 2 .. Len(results) : results[i] = NoItem
  /\ done <=> index < Len(results)
  /\ faulted => done

\* The whole stream decoded at once, and what is left of it from the item the
\* reader is at or in.
Whole == Runs(wire, bytes)[0]
Rest == Runs(wire, bytes)[IF call = "decode" THEN start ELSE at]

\* The items returned are the first of the whole,
ReturnedInv ==
  /\ index <= Len(Whole.items)
  /\ \A i \in 1 .. index : results[i].range = Whole.items[i]

\* what a reader that has not stopped still has to read are the others,
RestInv ==
  ~done =>
    /\ Whole.error = Rest.error
    /\ Len(Whole.items) = index + Len(Rest.items)
    /\ \A i \in 1 .. Len(Rest.items) : Whole.items[index + i] = Rest.items[i]

\* the byte taken last is not the last of the item being decoded,
DecodeInv ==
  call = "decode" =>
    LET e == ItemEnd(wire, bytes, start)
    IN  start # Len(bytes) /\ (at < e.at \/ e.error = "truncated")

\* and a reader no read has failed stops where the whole ends.
StoppedInv ==
  done /\ ~faulted =>
    /\ index = Len(Whole.items)
    /\ results[index + 1] = IF Whole.error = "none" THEN NoItem ELSE Error(index, Whole.error)

IInv ==
  TypeInv /\ CallInv /\ OrderInv /\ ReturnedInv /\ RestInv /\ DecodeInv /\ StoppedInv

-----------------------------------------------------------------------------
(* What the invariant says of the wire and of the bytes.                   *)

LEMMA InputInv ==
  ASSUME TypeInv
  PROVE  /\ Input(wire, bytes)
         /\ Len(bytes) \in Nat
         /\ 0 \in Places(bytes)
         /\ (IF call = "decode" THEN start ELSE at) \in Places(bytes)
  <1>1. Input(wire, bytes)
    BY ItemStreamAssumption DEF TypeInv, Input
  <1> QED
    BY <1>1, Inputs DEF TypeInv, Places

LEMMA WholeType ==
  ASSUME TypeInv
  PROVE  /\ Whole = ParseSeq(wire, bytes)
         /\ Whole.items \in Seq(Places(bytes) \X Places(bytes))
         /\ Len(Whole.items) \in Nat /\ DOMAIN Whole.items = 1 .. Len(Whole.items)
         /\ Whole.error \in Kind
         /\ Len(Rest.items) \in Nat
  <1>1. Whole \in Run(bytes)
    BY InputInv, RunsType DEF Whole
  <1> QED
    BY <1>1, InputInv, RunItems, ParseSeqIs DEF Whole, Rest, Run

LEMMA InitInv ==
  ASSUME Init
  PROVE  IInv
  <1>1. TypeInv
    <2>4. <<>> \in Seq(Result)
      OBVIOUS
    <2>1. bytes \in Seq(Head_)
      BY ItemStreamAssumption DEF Init
    <2>2. Len(bytes) \in Nat
      BY <2>1
    <2>3. Chunk \in Nat /\ results \in Seq(Result)
      BY <2>4, ItemStreamAssumption DEF Init
    <2>5. at \in Places(bytes) /\ start \in 0 .. at /\ at + buffered <= Len(bytes)
      BY <2>2 DEF Init, Places
    <2>6. buffered \in 0 .. Chunk /\ index \in Nat
      BY <2>3 DEF Init
    <2> QED
      BY <2>3, <2>5, <2>6 DEF Init, TypeInv
  <1>2. CallInv /\ OrderInv /\ DecodeInv /\ StoppedInv
    BY ItemStreamAssumption DEF Init, CallInv, OrderInv, DecodeInv, StoppedInv
  <1>3. Rest = Whole /\ index = 0 /\ Len(Whole.items) \in Nat
    BY <1>1, WholeType DEF Init, Rest, Whole
  <1>4. ReturnedInv /\ RestInv
    BY <1>3 DEF ReturnedInv, RestInv
  <1> QED
    BY <1>1, <1>2, <1>4 DEF IInv

-----------------------------------------------------------------------------
(* Steps, by what they do to the results.                                  *)

\* A step that returns nothing, and leaves the item the reader is at or in.
LEMMA QuietStep ==
  ASSUME IInv,
         wire' = wire, bytes' = bytes, index' = index, done' = done,
         results' = results, faulted' = faulted,
         at' \in Places(bytes), start' \in 0 .. at',
         buffered' \in 0 .. Chunk, at' + buffered' <= Len(bytes),
         call' \in {"check", "decode"}, ~done, Len(results) < MaxCalls,
         (IF call' = "decode" THEN start' ELSE at') = (IF call = "decode" THEN start ELSE at),
         DecodeInv'
  PROVE  IInv'
  <1>1. TypeInv'
    BY DEF IInv, TypeInv, Places
  <1>2. CallInv'
    BY DEF IInv, CallInv
  <1>3. OrderInv'
    BY DEF IInv, OrderInv
  <1>4. Whole' = Whole /\ Rest' = Rest
    BY Zenon DEF Whole, Rest
  <1>5. ReturnedInv' /\ RestInv' /\ StoppedInv'
    BY <1>4 DEF IInv, ReturnedInv, RestInv, StoppedInv
  <1> QED
    BY <1>1, <1>2, <1>3, <1>5 DEF IInv

\* A step that stops the reader, with the end or an error.
LEMMA StopStep ==
  ASSUME IInv, NEW r \in Result, r.kind # "item",
         wire' = wire, bytes' = bytes, index' = index, start' = start,
         at' \in Places(bytes), at <= at',
         buffered' \in 0 .. Chunk, at' + buffered' <= Len(bytes),
         ~done, Len(results) < MaxCalls, Stop(r), faulted' \in BOOLEAN,
         ~faulted' => /\ index = Len(Whole.items)
                      /\ r = IF Whole.error = "none" THEN NoItem ELSE Error(index, Whole.error)
  PROVE  IInv'
  <1>1. /\ results \in Seq(Result) /\ index \in Nat /\ index = Len(results) /\ Len(results) \in Nat
        /\ at \in Nat /\ start \in 0 .. at
    BY DEF IInv, TypeInv, OrderInv, Places
  <1>2. done' = TRUE /\ call' = "idle" /\ results' = Append(results, r)
    BY DEF Stop, Return
  <1>3. /\ results' \in Seq(Result) /\ Len(results') = index + 1
        /\ results'[index + 1] = r
        /\ \A i \in 1 .. index : results'[i] = results[i]
    BY <1>1, <1>2
  <1>4. TypeInv'
    BY <1>1, <1>2, <1>3 DEF IInv, TypeInv, Places
  <1>5. CallInv'
    BY <1>1, <1>2, <1>3, ItemStreamAssumption DEF IInv, CallInv
  <1>6. OrderInv'
    <2>1. \A i \in 1 .. index + 1 : results'[i].kind = "item" <=> i <= index
      <3> TAKE i \in 1 .. index + 1
      <3>1. CASE i = index + 1
        BY <1>1, <1>3, <3>1
      <3>2. CASE i # index + 1
        <4>1. i \in 1 .. index
          BY <1>1, <3>2
        <4> QED
          BY <1>1, <1>3, <4>1 DEF IInv, OrderInv
      <3> QED
        BY <3>1, <3>2
    <2> QED
      BY <1>1, <1>2, <1>3, <2>1 DEF OrderInv
  <1>7. Whole' = Whole
    BY DEF Whole
  <1>8. ReturnedInv'
    BY <1>1, <1>3, <1>7 DEF IInv, ReturnedInv
  <1>9. RestInv' /\ DecodeInv'
    BY <1>2 DEF RestInv, DecodeInv
  <1>10. StoppedInv'
    BY <1>3, <1>7 DEF StoppedInv, Error
  <1> QED
    BY <1>4, <1>5, <1>6, <1>8, <1>9, <1>10 DEF IInv

\* An answer of a reader that has stopped.
LEMMA AskStoppedStep ==
  ASSUME IInv, AskStopped
  PROVE  IInv'
  <1>1. /\ results \in Seq(Result) /\ index \in Nat /\ index < Len(results) /\ Len(results) \in Nat
    BY DEF IInv, TypeInv, OrderInv, AskStopped
  <1>2. /\ done /\ done' /\ call' = "idle" /\ results' = Append(results, NoItem)
        /\ wire' = wire /\ bytes' = bytes /\ index' = index /\ faulted' = faulted
        /\ Len(results) < MaxCalls
    BY DEF AskStopped, Return
  <1>3. NoItem \in Result /\ NoItem.kind # "item"
    BY DEF Result, NoItem
  <1>4. /\ results' \in Seq(Result) /\ Len(results') = Len(results) + 1
        /\ results'[Len(results) + 1] = NoItem
        /\ \A i \in 1 .. Len(results) : results'[i] = results[i]
    BY <1>1, <1>2, <1>3
  <1>5. TypeInv'
    BY <1>2, <1>4 DEF IInv, TypeInv, Places, AskStopped
  <1>6. CallInv'
    BY <1>1, <1>2, <1>4, ItemStreamAssumption DEF CallInv
  <1>7. OrderInv'
    <2>1. \A i \in 1 .. Len(results') : i = Len(results) + 1 \/ i \in 1 .. Len(results)
      BY <1>1, <1>4
    <2>2. \A i \in 1 .. Len(results') : results'[i].kind = "item" <=> i <= index
      BY <1>1, <1>3, <1>4, <2>1 DEF IInv, OrderInv
    <2>3. \A i \in index + 2 .. Len(results') : results'[i] = NoItem
      <3> TAKE i \in index + 2 .. Len(results')
      <3>1. CASE i = Len(results) + 1
        BY <1>4, <3>1
      <3>2. CASE i # Len(results) + 1
        <4>1. i \in index + 2 .. Len(results) /\ i \in 1 .. Len(results)
          BY <1>1, <1>4, <3>2
        <4> QED
          BY <1>4, <4>1 DEF IInv, OrderInv
      <3> QED
        BY <3>1, <3>2
    <2> QED
      BY <1>1, <1>2, <1>4, <2>2, <2>3 DEF IInv, OrderInv
  <1>8. Whole' = Whole
    BY <1>2 DEF Whole
  <1>9. ReturnedInv'
    BY <1>1, <1>2, <1>4, <1>8 DEF IInv, ReturnedInv
  <1>10. RestInv' /\ DecodeInv'
    BY <1>2 DEF RestInv, DecodeInv
  <1>11. StoppedInv'
    <2>1. index + 1 \in 1 .. Len(results)
      BY <1>1
    <2>2. results'[index + 1] = results[index + 1]
      BY <1>4, <2>1
    <2> QED
      BY <1>2, <1>8, <2>2 DEF IInv, StoppedInv, Error
  <1> QED
    BY <1>5, <1>6, <1>7, <1>9, <1>10, <1>11 DEF IInv

\* The item whose last byte is taken is the next one of the whole.
LEMMA NextItem ==
  ASSUME IInv, call = "decode", ItemEnd(wire, bytes, start).error = "none"
  PROVE  LET e == ItemEnd(wire, bytes, start)
             s == Runs(wire, bytes)[e.at]
         IN  /\ e.at \in Places(bytes) /\ e.at > start
             /\ Len(s.items) \in Nat
             /\ Whole.error = s.error
             /\ Len(Whole.items) = index + 1 + Len(s.items)
             /\ Whole.items[index + 1] = <<start, e.at>>
             /\ \A i \in 1 .. Len(s.items) : Whole.items[index + 1 + i] = s.items[i]
  <1> DEFINE e == ItemEnd(wire, bytes, start)
             s == Runs(wire, bytes)[e.at]
  <1>1. /\ ~done /\ index \in Nat /\ Rest = Runs(wire, bytes)[start]
        /\ start # Len(bytes) /\ start \in Places(bytes)
    BY InputInv DEF IInv, TypeInv, CallInv, DecodeInv, Rest
  <1>2. Input(wire, bytes)
    BY InputInv DEF IInv
  <1>3. /\ e.at \in Places(bytes) /\ e.at > start
        /\ Rest.error = s.error
        /\ Len(s.items) \in Nat
        /\ Len(Rest.items) = 1 + Len(s.items)
        /\ Rest.items[1] = <<start, e.at>>
        /\ \A i \in 1 .. Len(s.items) : Rest.items[1 + i] = s.items[i]
    BY <1>1, <1>2, RunAtItemIndexed
  <1>4. /\ Whole.error = Rest.error
        /\ Len(Whole.items) = index + Len(Rest.items)
        /\ \A i \in 1 .. Len(Rest.items) : Whole.items[index + i] = Rest.items[i]
    BY <1>1 DEF IInv, RestInv
  <1> HIDE DEF e, s
  <1>5. Whole.items[index + 1] = <<start, e.at>>
    <2>1. 1 \in 1 .. Len(Rest.items)
      BY <1>3
    <2> QED
      BY <1>3, <1>4, <2>1
  <1>6. \A i \in 1 .. Len(s.items) : Whole.items[index + 1 + i] = s.items[i]
    <2> TAKE i \in 1 .. Len(s.items)
    <2>1. 1 + i \in 1 .. Len(Rest.items) /\ index + (1 + i) = index + 1 + i
      BY <1>1, <1>3
    <2>2. Whole.items[index + (1 + i)] = Rest.items[1 + i]
      BY <1>4, <2>1
    <2> QED
      BY <1>3, <2>1, <2>2
  <1>7. Len(Whole.items) = index + 1 + Len(s.items)
    <2> DEFINE m == Len(Whole.items)
               n == Len(s.items)
    <2>1. index \in Nat /\ n \in Nat /\ m = index + (1 + n)
      BY <1>1, <1>3, <1>4
    <2> HIDE DEF m, n
    <2>2. m = index + 1 + n
      BY <2>1
    <2> QED
      BY <2>2 DEF m, n
  <1> QED
    BY <1>3, <1>4, <1>5, <1>6, <1>7 DEF e, s

\* A step that returns it.
LEMMA ItemDecodedStep ==
  ASSUME IInv, ItemDecoded
  PROVE  IInv'
  <1> DEFINE e == ItemEnd(wire, bytes, start)
             s == Runs(wire, bytes)[e.at]
             r == Item(start, at + 1)
  <1>1. /\ call = "decode" /\ call' = "idle" /\ ~done /\ done' = done
        /\ e = [at |-> at + 1, error |-> "none"]
        /\ at' = at + 1 /\ buffered' = buffered - 1 /\ buffered > 0
        /\ index' = index + 1 /\ results' = Append(results, r)
        /\ wire' = wire /\ bytes' = bytes /\ start' = start /\ faulted' = faulted
    BY DEF IInv, CallInv, ItemDecoded, Count, Return
  <1>2. /\ results \in Seq(Result) /\ index \in Nat /\ index = Len(results) /\ Len(results) \in Nat
        /\ at \in Nat /\ start \in 0 .. at /\ buffered \in 0 .. Chunk
        /\ at + buffered <= Len(bytes) /\ Len(bytes) \in Nat /\ Chunk \in Nat
    BY <1>1, InputInv, ItemStreamAssumption DEF IInv, TypeInv, OrderInv, Places
  <1>3. e.error = "none" /\ e.at = at + 1
    BY <1>1
  <1>4. /\ Len(s.items) \in Nat
        /\ Whole.error = s.error
        /\ Len(Whole.items) = index + 1 + Len(s.items)
        /\ Whole.items[index + 1] = <<start, e.at>>
        /\ \A i \in 1 .. Len(s.items) : Whole.items[index + 1 + i] = s.items[i]
    BY <1>1, <1>3, NextItem
  <1>5. r \in Result /\ r.kind = "item" /\ r.range = <<start, at + 1>>
    BY <1>2 DEF Result, Item
  <1> HIDE DEF e, r
  <1>6. /\ results' \in Seq(Result) /\ Len(results') = index + 1
        /\ results'[index + 1] = r
        /\ \A i \in 1 .. index : results'[i] = results[i]
    BY <1>1, <1>2, <1>5
  <1>7. \A i \in 1 .. index + 1 : i = index + 1 \/ i \in 1 .. index
    BY <1>2
  <1>8. TypeInv'
    BY <1>1, <1>2, <1>6 DEF IInv, TypeInv, Places
  <1>9. CallInv'
    BY <1>1, <1>2, <1>6, ItemStreamAssumption DEF IInv, CallInv
  <1>10. OrderInv'
    <2>1. \A i \in 1 .. index + 1 : results'[i].kind = "item"
      BY <1>2, <1>5, <1>6, <1>7 DEF IInv, OrderInv
    <2>2. ~done' /\ ~faulted'
      BY <1>1 DEF IInv, OrderInv
    <2> QED
      BY <1>1, <1>2, <1>6, <2>1, <2>2 DEF OrderInv
  <1>11. Whole' = Whole /\ Rest' = s
    BY <1>1, <1>3 DEF Whole, Rest
  <1>12. ReturnedInv'
    <2>1. index + 1 <= Len(Whole.items)
      <3> DEFINE m == Len(Whole.items)
                 n == Len(s.items)
      <3>1. index \in Nat /\ n \in Nat /\ m = index + 1 + n
        BY <1>2, <1>4
      <3> HIDE DEF m, n
      <3>2. index + 1 <= m
        BY <3>1
      <3> QED
        BY <3>2 DEF m
    <2>2. \A i \in 1 .. index + 1 : results'[i].range = Whole.items[i]
      BY <1>2, <1>3, <1>4, <1>5, <1>6, <1>7 DEF IInv, ReturnedInv
    <2> QED
      BY <1>1, <1>11, <2>1, <2>2 DEF ReturnedInv
  <1> HIDE DEF s
  <1>13. RestInv'
    BY <1>1, <1>2, <1>4, <1>11 DEF RestInv
  <1>14. DecodeInv' /\ StoppedInv'
    BY <1>1 DEF DecodeInv, StoppedInv
  <1> QED
    BY <1>8, <1>9, <1>10, <1>12, <1>13, <1>14 DEF IInv

\* An error or the end stops the reader where the whole does.
LEMMA EndOfInputStep ==
  ASSUME IInv, EndOfInput
  PROVE  IInv'
  <1>1. /\ call = "check" /\ ~done /\ at = Len(bytes) /\ buffered = 0 /\ Stop(NoItem)
        /\ wire' = wire /\ bytes' = bytes /\ at' = at /\ buffered' = buffered
        /\ start' = start /\ index' = index /\ faulted' = faulted /\ Len(results) < MaxCalls
    BY DEF EndOfInput, CleanEnd, SourceEmpty, IInv, CallInv
  <1>2. Rest = [items |-> <<>>, error |-> "none"]
    BY <1>1, InputInv, RunAtEnd DEF IInv, Rest
  <1>3. Whole.error = "none" /\ index = Len(Whole.items)
    BY <1>1, <1>2 DEF IInv, RestInv, TypeInv
  <1>4. NoItem \in Result /\ NoItem.kind # "item"
    BY DEF Result, NoItem
  <1>5. /\ at' \in Places(bytes) /\ at <= at' /\ at' + buffered' <= Len(bytes)
        /\ buffered' \in 0 .. Chunk /\ faulted' \in BOOLEAN
    BY <1>1, InputInv DEF IInv, TypeInv, Places
  <1> QED
    BY <1>1, <1>3, <1>4, <1>5, StopStep

LEMMA ErrorResult ==
  ASSUME TypeInv, NEW why \in {"truncated", "malformed", "nesting", "io"}
  PROVE  Error(index, why) \in Result /\ Error(index, why).kind # "item"
  BY DEF TypeInv, Result, Error

\* Damage ends the whole where the reader is.
LEMMA DamageEnds ==
  ASSUME IInv, call = "decode", ItemEnd(wire, bytes, start).error # "none"
  PROVE  /\ Whole.error = ItemEnd(wire, bytes, start).error
         /\ index = Len(Whole.items)
  <1>1. ~done /\ start # Len(bytes) /\ start \in Places(bytes) /\ Input(wire, bytes)
    BY InputInv DEF IInv, CallInv, DecodeInv
  <1>2. Rest = [items |-> <<>>, error |-> ItemEnd(wire, bytes, start).error]
    BY <1>1, RunAtDamage DEF Rest
  <1> QED
    BY <1>1, <1>2 DEF IInv, RestInv, TypeInv

LEMMA ItemRefusedStep ==
  ASSUME IInv, ItemRefused
  PROVE  IInv'
  <1> DEFINE e == ItemEnd(wire, bytes, start)
  <1>1. /\ call = "decode" /\ ~done /\ buffered > 0
        /\ e.error \in {"malformed", "nesting"} /\ Stop(Error(index, e.error))
        /\ wire' = wire /\ bytes' = bytes /\ at' = at + 1 /\ buffered' = buffered - 1
        /\ start' = start /\ index' = index /\ faulted' = faulted /\ Len(results) < MaxCalls
    BY DEF ItemRefused, BadItem, IInv, CallInv
  <1>2. Whole.error = e.error /\ index = Len(Whole.items)
    BY <1>1, DamageEnds
  <1>3. Error(index, e.error) \in Result /\ Error(index, e.error).kind # "item"
    BY <1>1, ErrorResult DEF IInv
  <1> HIDE DEF e
  <1>4. /\ at' \in Places(bytes) /\ at <= at' /\ at' + buffered' <= Len(bytes)
        /\ buffered' \in 0 .. Chunk /\ faulted' \in BOOLEAN
    BY <1>1, InputInv, ItemStreamAssumption DEF IInv, TypeInv, Places
  <1>5. Error(index, e.error) = IF Whole.error = "none" THEN NoItem ELSE Error(index, Whole.error)
    BY <1>1, <1>2
  <1> QED
    BY <1>1, <1>2, <1>3, <1>4, <1>5, StopStep

LEMMA ItemCutStep ==
  ASSUME IInv, ItemCut
  PROVE  IInv'
  <1> DEFINE e == ItemEnd(wire, bytes, start)
  <1>1. /\ call = "decode" /\ ~done /\ buffered = 0 /\ at = Len(bytes)
        /\ Stop(Error(index, "truncated"))
        /\ wire' = wire /\ bytes' = bytes /\ at' = at /\ buffered' = buffered
        /\ start' = start /\ index' = index /\ faulted' = faulted /\ Len(results) < MaxCalls
    BY DEF ItemCut, BadItem, SourceEmpty, IInv, CallInv
  <1>2. e.error = "truncated"
    <2>1. Outcome(bytes, start, e) /\ (at < e.at \/ e.error = "truncated")
      BY <1>1, InputInv, ItemEndOutcome DEF IInv, DecodeInv
    <2> HIDE DEF e
    <2> QED
      BY <1>1, <2>1, InputInv DEF Outcome, IInv, TypeInv, Places
  <1>3. Whole.error = "truncated" /\ index = Len(Whole.items)
    BY <1>1, <1>2, DamageEnds
  <1>4. Error(index, "truncated") \in Result /\ Error(index, "truncated").kind # "item"
    BY ErrorResult DEF IInv
  <1>5. /\ at' \in Places(bytes) /\ at <= at' /\ at' + buffered' <= Len(bytes)
        /\ buffered' \in 0 .. Chunk /\ faulted' \in BOOLEAN
    BY <1>1, InputInv DEF IInv, TypeInv, Places
  <1> QED
    BY <1>1, <1>3, <1>4, <1>5, StopStep

\* A failed read says nothing of the stream.
LEMMA FailedReadStep ==
  ASSUME IInv, CheckFails \/ ReadFails
  PROVE  IInv'
  <1>1. PICK why \in {"malformed", "io"} :
          /\ Stop(Error(index, why)) /\ faulted' = TRUE
          /\ ~done /\ Len(results) < MaxCalls
          /\ wire' = wire /\ bytes' = bytes /\ at' = at /\ buffered' = buffered
          /\ start' = start /\ index' = index
    BY DEF CheckFails, ReadFails, BadItem, Classify, IInv, CallInv
  <1>2. Error(index, why) \in Result /\ Error(index, why).kind # "item"
    BY ErrorResult DEF IInv
  <1>3. /\ at' \in Places(bytes) /\ at <= at' /\ at' + buffered' <= Len(bytes)
        /\ buffered' \in 0 .. Chunk /\ faulted' \in BOOLEAN
    BY <1>1, InputInv DEF IInv, TypeInv, Places
  <1> QED
    BY <1>1, <1>2, <1>3, StopStep

LEMMA QuietSteps ==
  ASSUME IInv, Ask \/ Refill \/ BeginItem \/ TakeByte
  PROVE  IInv'
  <1>1. /\ Len(bytes) \in Nat /\ at \in 0 .. Len(bytes) /\ start \in 0 .. at
        /\ buffered \in 0 .. Chunk /\ Chunk \in Nat /\ at + buffered <= Len(bytes)
    BY InputInv, ItemStreamAssumption DEF IInv, TypeInv, Places
  <1>2. CASE Ask
    <2>1. DecodeInv'
      BY <1>2 DEF Ask, DecodeInv
    <2>2. OrderInv /\ call = "idle" /\ ~done /\ call' = "check" /\ Len(results) < MaxCalls
      BY <1>2 DEF Ask, IInv
    <2> QED
      BY <1>1, <1>2, <2>1, <2>2, QuietStep DEF Ask, Places
  <1>3. CASE Refill
    <2>1. PICK k \in 1 .. Chunk : at + k <= Len(bytes) /\ buffered' = k
      BY <1>3 DEF Refill
    <2>2. DecodeInv'
      BY <1>3 DEF Refill, DecodeInv, IInv
    <2>3. ~done /\ Len(results) < MaxCalls /\ call' \in {"check", "decode"}
      BY <1>3 DEF Refill, IInv, CallInv
    <2> QED
      BY <1>1, <1>3, <2>1, <2>2, <2>3, QuietStep DEF Refill, Places
  <1>4. CASE BeginItem
    <2>1. at # Len(bytes)
      BY <1>1, <1>4 DEF BeginItem, CleanEnd, SourceEmpty
    <2> DEFINE e == ItemEnd(wire, bytes, at)
    <2>2. Outcome(bytes, at, e)
      BY <1>1, InputInv, ItemEndOutcome DEF IInv, Places
    <2>3. at < e.at \/ e.error = "truncated"
      <3> HIDE DEF e
      <3> QED
        BY <1>1, <2>2 DEF Outcome
    <2>4. DecodeInv'
      BY <1>4, <2>1, <2>3 DEF BeginItem, DecodeInv
    <2>5. ~done /\ Len(results) < MaxCalls
      BY <1>4 DEF BeginItem, IInv, CallInv
    <2> HIDE DEF e
    <2> QED
      BY <1>1, <1>4, <2>4, <2>5, QuietStep DEF BeginItem, Places
  <1>5. CASE TakeByte
    <2>1. DecodeInv'
      <3> DEFINE e == ItemEnd(wire, bytes, start)
      <3>1. e.at > at + 1 \/ e.error = "truncated"
        BY <1>5 DEF TakeByte
      <3>2. at' = at + 1 /\ start' = start /\ wire' = wire /\ bytes' = bytes
        BY <1>5 DEF TakeByte
      <3>3. start # Len(bytes)
        BY <1>5 DEF TakeByte, IInv, DecodeInv
      <3>4. at' < e.at \/ e.error = "truncated"
        <4>1. Outcome(bytes, start, e)
          BY <1>1, InputInv, ItemEndOutcome DEF IInv, Places
        <4> HIDE DEF e
        <4> QED
          BY <1>1, <3>1, <3>2, <4>1 DEF Outcome
      <3> QED
        BY <3>2, <3>3, <3>4 DEF DecodeInv
    <2>2. ~done /\ Len(results) < MaxCalls
      BY <1>5 DEF TakeByte, IInv, CallInv
    <2>3. /\ buffered > 0 /\ at' = at + 1 /\ buffered' = buffered - 1 /\ call = "decode"
          /\ wire' = wire /\ bytes' = bytes /\ call' = call /\ start' = start
          /\ index' = index /\ done' = done /\ results' = results /\ faulted' = faulted
      BY <1>5 DEF TakeByte
    <2>4. at' \in Places(bytes) /\ start' \in 0 .. at' /\ buffered' \in 0 .. Chunk /\ at' + buffered' <= Len(bytes)
      BY <1>1, <2>3 DEF Places
    <2> QED
      BY <2>1, <2>2, <2>3, <2>4, QuietStep
  <1> QED
    BY <1>2, <1>3, <1>4, <1>5

LEMMA NextInv ==
  ASSUME IInv, [Next]_vars
  PROVE  IInv'
  <1>1. CASE UNCHANGED vars
    BY <1>1 DEF vars, IInv, TypeInv, CallInv, OrderInv, ReturnedInv, RestInv, DecodeInv, StoppedInv, Whole, Rest
  <1> QED
    BY <1>1, QuietSteps, AskStoppedStep, EndOfInputStep, FailedReadStep, ItemDecodedStep,
       ItemRefusedStep, ItemCutStep DEF Next, Decoder

THEOREM Invariance == Spec => []IInv
  BY InitInv, NextInv, PTL DEF Spec

-----------------------------------------------------------------------------
(* What follows from the invariant.                                        *)

LEMMA YieldedIs ==
  ASSUME IInv
  PROVE  /\ Yielded = 1 .. index
         /\ index \in Nat /\ Len(results) \in Nat /\ index <= Len(results)
         /\ DOMAIN results = 1 .. Len(results)
         /\ \A i \in 1 .. Len(results) : results[i] \in Result
  <1>1. /\ index \in Nat /\ Len(results) \in Nat /\ index <= Len(results)
        /\ DOMAIN results = 1 .. Len(results)
        /\ \A i \in 1 .. Len(results) : results[i] \in Result
    BY DEF IInv, TypeInv, OrderInv
  <1>2. \A i \in 1 .. Len(results) : results[i].kind = "item" <=> i <= index
    BY DEF IInv, OrderInv
  <1> QED
    BY <1>1, <1>2 DEF Yielded

LEMMA TypeHolds ==
  ASSUME IInv
  PROVE  TypeOK
  <1>1. index = Cardinality(Yielded)
    <2>2. index \in Nat /\ Yielded = 1 .. index
      BY YieldedIs
    <2>1. Cardinality(1 .. index) = IF 1 > index THEN 0 ELSE index - 1 + 1
      BY <2>2, FS_Interval
    <2> QED
      BY <2>1, <2>2
  <1> QED
    BY <1>1 DEF IInv, TypeInv, CallInv, TypeOK, Places

LEMMA StreamingHolds ==
  ASSUME IInv
  PROVE  StreamingAgrees
  <1> DEFINE whole == ParseSeq(wire, bytes)
  <1>1. whole = Whole /\ DOMAIN Whole.items = 1 .. Len(Whole.items) /\ Len(Whole.items) \in Nat
        /\ Whole.error \in Kind
    BY WholeType DEF IInv
  <1>2. \A i \in Yielded : i <= Len(Whole.items) /\ results[i].range = Whole.items[i]
    BY <1>1, YieldedIs DEF IInv, ReturnedInv
  <1>3. ASSUME done, ~faulted
        PROVE  /\ Yielded = DOMAIN Whole.items
               /\ Errors = IF Whole.error = "none" THEN {}
                           ELSE {Error(Len(Whole.items), Whole.error)}
    <2>1. /\ index = Len(Whole.items)
          /\ results[index + 1] = IF Whole.error = "none" THEN NoItem ELSE Error(index, Whole.error)
          /\ index + 1 \in 1 .. Len(results)
      BY <1>3, YieldedIs DEF IInv, StoppedInv, OrderInv
    <2>2. \A i \in 1 .. Len(results) : i = index + 1 \/ results[i].kind # "error"
      <3> TAKE i \in 1 .. Len(results)
      <3>1. CASE i <= index
        BY <3>1 DEF IInv, OrderInv
      <3>2. CASE i > index + 1
        <4>1. i \in index + 2 .. Len(results)
          BY <3>2, YieldedIs
        <4> QED
          BY <4>1 DEF IInv, OrderInv, NoItem
      <3> QED
        BY <3>1, <3>2, YieldedIs
    <2>3. Errors = {r \in {results[index + 1]} : r.kind = "error"}
      BY <2>1, <2>2, YieldedIs DEF Errors
    <2>4. CASE Whole.error = "none"
      BY <1>1, <2>1, <2>3, <2>4, YieldedIs DEF NoItem
    <2>5. CASE Whole.error # "none"
      BY <1>1, <2>1, <2>3, <2>5, YieldedIs DEF Error
    <2> QED
      BY <2>4, <2>5
  <1> QED
    BY <1>1, <1>2, <1>3, Zenon DEF StreamingAgrees

\* Types; the index counts the items next_item has returned (seq.rs:83).
THEOREM ItemStreamTypeCorrect == Spec => []TypeOK
  BY Invariance, TypeHolds, PTL

\* However the bytes arrive, next_item (seq.rs, msgpack.rs) returns the items of
\* parse_seq and its error, with the number of the bad item.
THEOREM ReadersAgree == Spec => []StreamingAgrees
  BY Invariance, StreamingHolds, PTL

LEMMA InputHolds ==
  ASSUME IInv
  PROVE  Input(wire, bytes)
  BY InputInv DEF IInv

\* parse, parse_strict and parse_seq (value.rs, seq.rs, msgpack.rs) accept the
\* same documents.
THEOREM SameDocuments == Spec => []ParsersAgree
  BY Invariance, InputHolds, ParsersAgreeOnInputs, PTL

\* A row file cut anywhere (copy/to.rs:172) still yields its whole items, and the
\* cut is noticed unless it falls between two of them.
THEOREM CutsAreNoticed == Spec => []CutKeepsWholeItems
  BY Invariance, InputHolds, CutKeepsWholeItemsOnInputs, PTL

-----------------------------------------------------------------------------
(* ItemStream implements ItemFeed.                                         *)

\* The outcome ItemFeed sees, in terms of the invariant.
LEMMA OutcomeIs ==
  ASSUME IInv
  PROVE  FeedOutcome = IF ~done THEN "open"
                       ELSE IF results[index + 1] = NoItem THEN "end" ELSE "error"
  <1>1. /\ index \in Nat /\ Len(results) \in Nat /\ index <= Len(results)
        /\ DOMAIN results = 1 .. Len(results)
        /\ \A i \in 1 .. Len(results) : results[i] \in Result
    BY YieldedIs
  <1>2. \A i \in 1 .. index : results[i].kind = "item"
    BY <1>1 DEF IInv, OrderInv
  <1>3. CASE ~done
    <2>1. index = Len(results)
      <3>1. ~(index < Len(results))
        BY <1>3, Zenon DEF IInv, OrderInv
      <3>2. index \in Nat /\ Len(results) \in Nat /\ index <= Len(results)
        BY <1>1
      <3> QED
        BY <3>1, <3>2
    <2>2. ~ \E i \in DOMAIN results : results[i].kind = "error"
      BY <1>1, <1>2, <2>1
    <2>3. ~ (results # <<>> /\ results[Len(results)] = NoItem)
      <3>1. SUFFICES ASSUME results # <<>>
                     PROVE  results[Len(results)] # NoItem
        OBVIOUS
      <3>2. Len(results) \in 1 .. index
        BY <2>1, <1>1, <3>1 DEF IInv, TypeInv
      <3> QED
        BY <1>2, <3>2 DEF NoItem
    <2> QED
      BY <1>3, <2>2, <2>3 DEF FeedOutcome
  <1>4. CASE done
    <2>1. index < Len(results) /\ index + 1 \in 1 .. Len(results) /\ Len(results) \in 1 .. Len(results)
      BY <1>1, <1>4 DEF IInv, OrderInv
    <2>2. \A i \in index + 2 .. Len(results) : results[i] = NoItem
      BY DEF IInv, OrderInv
    <2>3. results[index + 1] \in Result /\ results[index + 1].kind # "item"
      BY <1>1, <2>1 DEF IInv, OrderInv
    <2>4. CASE results[index + 1] = NoItem
      <3>1. \A i \in 1 .. Len(results) : i <= index \/ results[i] = NoItem
        <4> TAKE i \in 1 .. Len(results)
        <4>1. i <= index \/ i = index + 1 \/ i \in index + 2 .. Len(results)
          BY <1>1
        <4> QED
          BY <2>2, <2>4, <4>1
      <3>2. ~ \E i \in DOMAIN results : results[i].kind = "error"
        <4>1. ASSUME NEW i \in 1 .. Len(results)
              PROVE  results[i].kind # "error"
          <5>1. CASE i <= index
            <6>1. i \in 1 .. index
              BY <1>1, <5>1
            <6> QED
              BY <1>2, <6>1
          <5>2. CASE results[i] = NoItem
            BY <5>2 DEF NoItem
          <5> QED
            BY <3>1, <5>1, <5>2
        <4> QED
          BY <1>1, <4>1
      <3>3. results[Len(results)] = NoItem
        BY <1>1, <2>1, <3>1
      <3>4. results # <<>>
        BY <2>1, <1>1
      <3> QED
        BY <1>4, <2>4, <3>2, <3>3, <3>4 DEF FeedOutcome
    <2>5. CASE results[index + 1] # NoItem
      <3>1. results[index + 1].kind = "error"
        BY <2>3, <2>5 DEF Result
      <3> QED
        BY <1>1, <1>4, <2>1, <2>5, <3>1 DEF FeedOutcome
    <2> QED
      BY <2>4, <2>5
  <1> QED
    BY <1>3, <1>4

\* What the items handed out are while nothing but items was returned.
LEMMA FedIs ==
  ASSUME IInv
  PROVE  /\ Fed \in Seq(Nat \X Nat)
         /\ Len(Fed) = index
         /\ \A i \in 1 .. index : Fed[i] = results[i].range
  <1>1. /\ Yielded = 1 .. index /\ index \in Nat /\ index <= Len(results) /\ Len(results) \in Nat
        /\ \A i \in 1 .. Len(results) : results[i] \in Result
    BY YieldedIs
  <1>2. \A i \in 1 .. index : results[i].range \in Nat \X Nat
    <2> TAKE i \in 1 .. index
    <2>1. results[i] \in Result /\ results[i].kind = "item"
      BY <1>1 DEF IInv, OrderInv
    <2> QED
      BY <2>1 DEF Result, NoItem
  <1>3. Fed = [i \in 1 .. index |-> results[i].range]
    BY <1>1 DEF Fed
  <1> QED
    BY <1>1, <1>2, <1>3

\* The same of the state a step leads to.
LEMMA OutcomeInvariant ==
  IInv => FeedOutcome = IF ~done THEN "open"
                        ELSE IF results[index + 1] = NoItem THEN "end" ELSE "error"
  BY OutcomeIs

LEMMA OutcomeNext ==
  IInv' => FeedOutcome' = IF ~done' THEN "open"
                          ELSE IF results'[index' + 1] = NoItem THEN "end" ELSE "error"
  <1>1. (IInv => FeedOutcome = IF ~done THEN "open"
                               ELSE IF results[index + 1] = NoItem THEN "end" ELSE "error")'
    BY OutcomeInvariant, PTL
  <1> QED
    BY <1>1

LEMMA FedInvariant ==
  IInv => /\ Yielded = 1 .. index
          /\ Fed \in Seq(Nat \X Nat)
          /\ Len(Fed) = index
          /\ \A i \in 1 .. index : Fed[i] = results[i].range
  BY YieldedIs, FedIs

LEMMA FedNext ==
  IInv' => /\ Yielded' = 1 .. index'
           /\ Fed' \in Seq(Nat \X Nat)
           /\ Len(Fed') = index'
           /\ \A i \in 1 .. index' : Fed'[i] = results'[i].range
  <1>1. (IInv => /\ Yielded = 1 .. index
                 /\ Fed \in Seq(Nat \X Nat)
                 /\ Len(Fed) = index
                 /\ \A i \in 1 .. index : Fed[i] = results[i].range)'
    BY FedInvariant, PTL
  <1> QED
    BY <1>1

\* A step that keeps the items and the outcome is invisible.
LEMMA Invisible ==
  ASSUME wire' = wire, bytes' = bytes, Fed' = Fed, FeedOutcome' = FeedOutcome
  PROVE  [File!Feed \/ File!End \/ File!Fail]_<<<<wire, bytes>>, Fed, FeedOutcome>>
  OBVIOUS

LEMMA SameResults ==
  ASSUME results' = results
  PROVE  Fed' = Fed /\ FeedOutcome' = FeedOutcome
  BY Zenon DEF Fed, Yielded, FeedOutcome

\* A step that stops the reader without an item is its end or its failure.
LEMMA StopMaps ==
  ASSUME IInv, IInv', NEW r \in Result, r.kind # "item",
         wire' = wire, bytes' = bytes, index' = index, ~done, Stop(r),
         r = NoItem => Whole.error = "none" /\ index = Len(Whole.items)
  PROVE  File!End \/ File!Fail
  <1>1. /\ done' = TRUE /\ results' = Append(results, r)
        /\ results \in Seq(Result) /\ index = Len(results) /\ index \in Nat
    BY YieldedIs DEF Stop, Return, IInv, TypeInv, OrderInv
  <1>2. results'[index + 1] = r /\ \A i \in 1 .. index : results'[i] = results[i]
    BY <1>1
  <1>3. FeedOutcome = "open" /\ FeedOutcome' = IF r = NoItem THEN "end" ELSE "error"
    <2>1. FeedOutcome' = IF ~done' THEN "open"
                         ELSE IF results'[index' + 1] = NoItem THEN "end" ELSE "error"
      BY OutcomeNext
    <2> QED
      BY <1>1, <1>2, <2>1, OutcomeIs
  <1>4. Fed' = Fed
    <2>1. Yielded = 1 .. index /\ Yielded' = 1 .. index
      BY YieldedIs, FedNext
    <2>2. Fed' = [i \in 1 .. index |-> results'[i].range]
      BY <2>1 DEF Fed
    <2>3. Fed = [i \in 1 .. index |-> results[i].range]
      BY <2>1 DEF Fed
    <2> QED
      BY <1>2, <2>2, <2>3
  <1>5. CASE r = NoItem
    <2>1. Whole = ParseSeq(wire, bytes) /\ Whole.items \in Seq(Places(bytes) \X Places(bytes))
      BY WholeType DEF IInv
    <2>2. Whole.error = "none" /\ index = Len(Whole.items)
      BY <1>5
    <2>3. Fed = Whole.items
      <3> DEFINE T == Places(bytes) \X Places(bytes)
      <3>1. Whole.items \in Seq(T)
        BY <2>1
      <3>2. Len(Fed) = index /\ \A i \in 1 .. index : Fed[i] = Whole.items[i]
        BY FedIs DEF IInv, ReturnedInv
      <3>3. T \subseteq Nat \X Nat
        BY InputInv DEF IInv, Places
      <3> HIDE DEF T
      <3>4. Whole.items \in Seq(Nat \X Nat)
        BY <3>1, <3>3, SeqMonotonic
      <3> QED
        BY <2>2, <3>2, <3>4, FedIs, SeqEqual
    <2>4. Fed = FeedItems(<<wire, bytes>>) /\ ~FeedDamaged(<<wire, bytes>>)
      BY <2>1, <2>2, <2>3 DEF FeedItems, FeedDamaged
    <2>5. File!End
      BY <1>3, <1>4, <1>5, <2>4 DEF File!End
    <2> QED
      BY <2>5
  <1>6. CASE r # NoItem
    BY <1>3, <1>4, <1>6 DEF File!Fail
  <1> QED
    BY <1>5, <1>6

\* The step that returns an item hands it out.
LEMMA ItemMaps ==
  ASSUME IInv, IInv', ItemDecoded
  PROVE  File!Feed
  <1> DEFINE e == ItemEnd(wire, bytes, start)
             s == Runs(wire, bytes)[e.at]
             r == Item(start, at + 1)
  <1>1. /\ call = "decode" /\ ~done /\ ~done'
        /\ e = [at |-> at + 1, error |-> "none"]
        /\ index' = index + 1 /\ results' = Append(results, r)
        /\ wire' = wire /\ bytes' = bytes
    BY DEF IInv, CallInv, ItemDecoded, Count, Return
  <1>2. results \in Seq(Result) /\ index = Len(results) /\ index \in Nat
    BY <1>1, YieldedIs DEF IInv, TypeInv, OrderInv
  <1>3. /\ results'[index + 1] = r /\ \A i \in 1 .. index : results'[i] = results[i]
        /\ r.range = <<start, e.at>>
    BY <1>1, <1>2 DEF Item
  <1>4. e.error = "none"
    BY <1>1
  <1>5. /\ Len(s.items) \in Nat
        /\ Len(Whole.items) = index + 1 + Len(s.items)
        /\ Whole.items[index + 1] = <<start, e.at>>
    BY <1>1, <1>4, NextItem
  <1> HIDE DEF e, r, s
  <1>6. index < Len(Whole.items)
    <2> DEFINE m == Len(Whole.items)
               n == Len(s.items)
    <2>1. n \in Nat /\ m = index + 1 + n
      BY <1>5
    <2> HIDE DEF m, n
    <2>2. index < m
      BY <1>2, <2>1
    <2> QED
      BY <2>2 DEF m
  <1>7. Whole = ParseSeq(wire, bytes)
    BY WholeType DEF IInv
  <1>8. FeedOutcome = "open" /\ FeedOutcome' = "open"
    <2>1. FeedOutcome' = IF ~done' THEN "open"
                         ELSE IF results'[index' + 1] = NoItem THEN "end" ELSE "error"
      BY OutcomeNext
    <2> QED
      BY <1>1, <2>1, OutcomeIs
  <1>9. Fed \in Seq(Nat \X Nat) /\ Len(Fed) = index /\ \A i \in 1 .. index : Fed[i] = results[i].range
    BY FedIs
  <1>10. /\ Fed' \in Seq(Nat \X Nat) /\ Len(Fed') = index + 1
         /\ \A i \in 1 .. index + 1 : Fed'[i] = results'[i].range
    <2>1. /\ Fed' \in Seq(Nat \X Nat) /\ Len(Fed') = index'
          /\ \A i \in 1 .. index' : Fed'[i] = results'[i].range
      BY FedNext
    <2> QED
      BY <1>1, <2>1
  <1>11. Fed' = Append(Fed, Whole.items[index + 1])
    <2> DEFINE x == Whole.items[index + 1]
    <2>1. x = results'[index + 1].range
      BY <1>3, <1>5
    <2>2. Fed'[index + 1] = x /\ x \in Nat \X Nat
      <3>1. index + 1 \in 1 .. index + 1
        BY <1>2
      <3>2. Fed'[index + 1] \in Nat \X Nat
        BY <1>10, <3>1
      <3> QED
        BY <1>10, <2>1, <3>1, <3>2
    <2> HIDE DEF x
    <2>3. /\ Append(Fed, x) \in Seq(Nat \X Nat) /\ Len(Append(Fed, x)) = index + 1
          /\ Append(Fed, x)[index + 1] = x
          /\ \A i \in 1 .. index : Append(Fed, x)[i] = Fed[i]
      BY <1>2, <1>9, <2>2
    <2>4. \A i \in 1 .. index + 1 : Fed'[i] = Append(Fed, x)[i]
      <3> TAKE i \in 1 .. index + 1
      <3>1. CASE i = index + 1
        BY <2>2, <2>3, <3>1
      <3>2. CASE i # index + 1
        <4>1. i \in 1 .. index
          BY <1>2, <3>2
        <4>2. Fed'[i] = results'[i].range
          BY <1>10
        <4> QED
          BY <1>3, <1>9, <2>3, <4>1, <4>2
      <3> QED
        BY <3>1, <3>2
    <2>5. Fed' = Append(Fed, x)
      BY <1>10, <2>3, <2>4, SeqEqual
    <2> QED
      BY <2>5 DEF x
  <1> QED
    BY <1>1, <1>6, <1>7, <1>8, <1>9, <1>11 DEF File!Feed, FeedItems

LEMMA StepMaps ==
  ASSUME IInv, IInv', [Next]_vars
  PROVE  [File!Feed \/ File!End \/ File!Fail]_<<<<wire, bytes>>, Fed, FeedOutcome>>
  <1>1. CASE UNCHANGED vars \/ Ask \/ Refill \/ BeginItem \/ TakeByte
    <2>1. wire' = wire /\ bytes' = bytes /\ results' = results
      BY <1>1 DEF vars, Ask, Refill, BeginItem, TakeByte
    <2> QED
      BY <2>1, SameResults, Invisible
  <1>2. CASE AskStopped
    <2>1. /\ wire' = wire /\ bytes' = bytes /\ done' = done /\ done /\ index' = index
          /\ results' = Append(results, NoItem)
      BY <1>2 DEF AskStopped, Return
    <2>2. /\ results \in Seq(Result) /\ index \in Nat /\ index + 1 \in 1 .. Len(results)
          /\ Yielded = 1 .. index /\ Yielded' = 1 .. index
      <3>1. index < Len(results)
        BY <2>1, Zenon DEF IInv, OrderInv
      <3>2. results \in Seq(Result) /\ index \in Nat
        BY DEF IInv, TypeInv
      <3>3. Yielded = 1 .. index /\ Yielded' = 1 .. index
        BY <2>1, YieldedIs, FedNext
      <3> QED
        BY <3>1, <3>2, <3>3
    <2>3. \A i \in 1 .. index + 1 : results'[i] = results[i]
      BY <2>1, <2>2
    <2>4. FeedOutcome' = FeedOutcome
      <3>1. FeedOutcome' = IF ~done' THEN "open"
                           ELSE IF results'[index' + 1] = NoItem THEN "end" ELSE "error"
        BY OutcomeNext
      <3> QED
        BY <2>1, <2>2, <2>3, <3>1, OutcomeIs
    <2>5. Fed' = Fed
      <3>1. Fed' = [i \in 1 .. index |-> results'[i].range]
        BY <2>2 DEF Fed
      <3>2. Fed = [i \in 1 .. index |-> results[i].range]
        BY <2>2 DEF Fed
      <3> QED
        BY <2>2, <2>3, <3>1, <3>2
    <2> QED
      BY <2>1, <2>4, <2>5, Invisible
  <1>3. CASE EndOfInput
    <2>1. /\ ~done /\ Stop(NoItem) /\ at = Len(bytes) /\ call = "check"
          /\ wire' = wire /\ bytes' = bytes /\ index' = index
      BY <1>3 DEF EndOfInput, CleanEnd, SourceEmpty, IInv, CallInv
    <2>2. Rest = [items |-> <<>>, error |-> "none"]
      BY <2>1, InputInv, RunAtEnd DEF IInv, Rest
    <2>3. Whole.error = "none" /\ index = Len(Whole.items)
      BY <2>1, <2>2 DEF IInv, RestInv, TypeInv
    <2>4. NoItem \in Result /\ NoItem.kind # "item"
      BY DEF Result, NoItem
    <2> QED
      BY <2>1, <2>3, <2>4, StopMaps
  <1>4. CASE CheckFails \/ ReadFails \/ ItemRefused \/ ItemCut
    <2>1. PICK why \in {"truncated", "malformed", "nesting", "io"} :
            Stop(Error(index, why)) /\ ~done /\ wire' = wire /\ bytes' = bytes /\ index' = index
      <3>1. CASE CheckFails \/ ReadFails
        BY <3>1 DEF CheckFails, ReadFails, BadItem, Classify, IInv, CallInv
      <3>2. CASE ItemRefused
        BY <3>2 DEF ItemRefused, BadItem, IInv, CallInv
      <3>3. CASE ItemCut
        BY <3>3 DEF ItemCut, BadItem, IInv, CallInv
      <3> QED
        BY <1>4, <3>1, <3>2, <3>3
    <2>2. Error(index, why) \in Result /\ Error(index, why).kind # "item"
      BY ErrorResult DEF IInv
    <2>3. Error(index, why) # NoItem
      BY DEF Error, NoItem
    <2> QED
      BY <2>1, <2>2, <2>3, StopMaps
  <1>5. CASE ItemDecoded
    BY <1>5, ItemMaps
  <1> QED
    BY <1>1, <1>2, <1>3, <1>4, <1>5 DEF Next, Decoder

LEMMA InitMaps ==
  ASSUME Init
  PROVE  File!Init
  <1>1. IInv /\ ~done /\ index = 0
    BY InitInv DEF Init
  <1>2. FeedOutcome = "open"
    BY <1>1, OutcomeIs
  <1>3. Fed = <<>>
    BY <1>1, FedIs
  <1> QED
    BY <1>2, <1>3 DEF File!Init

\* SeqReader and StreamReader hand out the items in order, then the end or one
\* error, once, and nothing after it: what CopyFrom takes a source to be.
THEOREM ReadersImplementItemFeed == Spec => ImplementsItemFeed
  BY InitMaps, StepMaps, Invariance, PTL DEF Spec, ImplementsItemFeed, File!Spec
=============================================================================
