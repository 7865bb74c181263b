--------------------------- MODULE SecurityProofs ---------------------------
(***************************************************************************)
(* The safety of Security for every key, authenticator and statement, and  *)
(* of Messages for every message and claim set, in envelopes of any depth. *)
(*                                                                         *)
(* A call is one step, so the argument is about what the code computes.    *)
(* Its loops are folds: a lemma for each gives the states the loop goes    *)
(* through, and what holds of them is shown by induction on how far it is. *)
(* Bytes are read with a cursor: Reads(b, o, s) says that s stands at o in *)
(* bytes that may end before s does, and passes from a concatenation to    *)
(* its parts as the cursor moves over them.                                *)
(***************************************************************************)
EXTENDS Messages, SetInduction, SequenceTheorems

-----------------------------------------------------------------------------
(* The loops.                                                              *)

\* The loops over the entries of a key (DecodeKey).
FirstPass(es) == FoldLeft(KeyEntry, NoKey, es)
SecondPass(key, es) == FoldLeft(RescanEntry, key, es)

\* DecodeKey's loop over the entries of a key.
LEMMA KeyScan ==
  ASSUME NEW n \in Nat, NEW es, DOMAIN es = 1 .. n, NEW X, NoKey \in X,
         \A x \in X, i \in 1 .. n : KeyEntry(x, es[i]) \in X
  PROVE  \E f \in [0 .. n -> X] : /\ f[0] = NoKey
                                  /\ \A i \in 1 .. n : f[i] = KeyEntry(f[i - 1], es[i])
                                  /\ FirstPass(es) = f[n]
  <1> DEFINE step == [i \in 1 .. n |-> [x \in X |-> KeyEntry(x, es[i])]]
             fold(g) == g = [s \in SUBSET DOMAIN es |->
                               IF s = {} THEN NoKey ELSE KeyEntry(g[s \ {Max(s)}], es[Max(s)])]
             it == CHOOSE g : fold(g)
  <1>1. step \in [1 .. n -> [X -> X]]
    OBVIOUS
  <1>2. ASSUME NEW i \in 1 .. n, NEW x \in X
        PROVE  step[i][x] = KeyEntry(x, es[i])
    OBVIOUS
  <1>3. FirstPass(es) = it[DOMAIN es]
    BY DEF FirstPass, FoldLeft, MapThenFoldSet
  <1> HIDE DEF step
  <1>4. PICK g \in [SUBSET (1 .. n) -> X] : IsFold(g, n, NoKey, step)
    BY <1>1, FoldExists DEF HasFold
  <1>5. fold(g)
    <2>1. ASSUME NEW s \in SUBSET (1 .. n), s # {}
          PROVE  step[Max(s)][g[s \ {Max(s)}]] = KeyEntry(g[s \ {Max(s)}], es[Max(s)])
      <3>1. Max(s) \in 1 .. n /\ g[s \ {Max(s)}] \in X
        BY <2>1, MaxInside
      <3> QED
        BY <1>2, <3>1
    <2>2. g = [s \in SUBSET (1 .. n) |-> IF s = {} THEN NoKey ELSE step[Max(s)][g[s \ {Max(s)}]]]
      BY <1>4 DEF IsFold
    <2> QED
      BY <2>1, <2>2
  <1>6. fold(it)
    BY <1>5
  <1> HIDE DEF it
  <1>7. it[{}] = NoKey
    BY <1>6
  <1>8. ASSUME NEW s \in SUBSET (1 .. n), s # {}, it[s \ {Max(s)}] \in X
        PROVE  it[s] = step[Max(s)][it[s \ {Max(s)}]]
    <2>1. Max(s) \in 1 .. n
      BY <1>8, MaxInside
    <2>2. it[s] = KeyEntry(it[s \ {Max(s)}], es[Max(s)])
      BY <1>6, <1>8
    <2> QED
      BY <1>2, <1>8, <2>1, <2>2
  <1>9. PICK f \in [0 .. n -> X] : IsLoop(f, it, n, NoKey, step)
    <2>1. FoldsIn(it, n, X, NoKey, step)
      BY <1>7, <1>8 DEF FoldsIn
    <2> QED
      BY <1>1, <2>1, FoldRun DEF HasLoop
  <1>10. \A i \in 1 .. n : f[i] = KeyEntry(f[i - 1], es[i])
    <2>1. \A i \in 1 .. n : f[i - 1] \in X
      OBVIOUS
    <2> QED
      BY <1>2, <1>9, <2>1 DEF IsLoop
  <1> QED
    BY <1>3, <1>9, <1>10 DEF IsLoop

\* The second loop over them.
IsSecondPass(f, n, key, es) ==
  /\ f[0] = key
  /\ \A i \in 1 .. n : f[i] = RescanEntry(f[i - 1], es[i])
  /\ SecondPass(key, es) = f[n]
HasSecondPass(n, X, key, es) == \E f \in [0 .. n -> X] : IsSecondPass(f, n, key, es)

LEMMA RescanScan ==
  ASSUME NEW n \in Nat, NEW es, DOMAIN es = 1 .. n, NEW X, NEW key \in X,
         \A x \in X, i \in 1 .. n : RescanEntry(x, es[i]) \in X
  PROVE  HasSecondPass(n, X, key, es)
  <1> DEFINE step == [i \in 1 .. n |-> [x \in X |-> RescanEntry(x, es[i])]]
             fold(g) == g = [s \in SUBSET DOMAIN es |->
                               IF s = {} THEN key ELSE RescanEntry(g[s \ {Max(s)}], es[Max(s)])]
             it == CHOOSE g : fold(g)
  <1>1. step \in [1 .. n -> [X -> X]]
    OBVIOUS
  <1>2. ASSUME NEW i \in 1 .. n, NEW x \in X
        PROVE  step[i][x] = RescanEntry(x, es[i])
    OBVIOUS
  <1>3. SecondPass(key, es) = it[DOMAIN es]
    BY DEF SecondPass, FoldLeft, MapThenFoldSet
  <1> HIDE DEF step
  <1>4. PICK g \in [SUBSET (1 .. n) -> X] : IsFold(g, n, key, step)
    BY <1>1, FoldExists DEF HasFold
  <1>5. fold(g)
    <2>1. ASSUME NEW s \in SUBSET (1 .. n), s # {}
          PROVE  step[Max(s)][g[s \ {Max(s)}]] = RescanEntry(g[s \ {Max(s)}], es[Max(s)])
      <3>1. Max(s) \in 1 .. n /\ g[s \ {Max(s)}] \in X
        BY <2>1, MaxInside
      <3> QED
        BY <1>2, <3>1
    <2>2. g = [s \in SUBSET (1 .. n) |-> IF s = {} THEN key ELSE step[Max(s)][g[s \ {Max(s)}]]]
      BY <1>4 DEF IsFold
    <2> QED
      BY <2>1, <2>2
  <1>6. fold(it)
    BY <1>5
  <1> HIDE DEF it
  <1>7. it[{}] = key
    BY <1>6
  <1>8. ASSUME NEW s \in SUBSET (1 .. n), s # {}, it[s \ {Max(s)}] \in X
        PROVE  it[s] = step[Max(s)][it[s \ {Max(s)}]]
    <2>1. Max(s) \in 1 .. n
      BY <1>8, MaxInside
    <2>2. it[s] = RescanEntry(it[s \ {Max(s)}], es[Max(s)])
      BY <1>6, <1>8
    <2> QED
      BY <1>2, <1>8, <2>1, <2>2
  <1>9. PICK f \in [0 .. n -> X] : IsLoop(f, it, n, key, step)
    <2>1. FoldsIn(it, n, X, key, step)
      BY <1>7, <1>8 DEF FoldsIn
    <2> QED
      BY <1>1, <2>1, FoldRun DEF HasLoop
  <1>10. \A i \in 1 .. n : f[i] = RescanEntry(f[i - 1], es[i])
    <2>1. \A i \in 1 .. n : f[i - 1] \in X
      OBVIOUS
    <2> QED
      BY <1>2, <1>9, <2>1 DEF IsLoop
  <1> QED
    BY <1>3, <1>9, <1>10 DEF IsLoop, IsSecondPass, HasSecondPass

\* The loop of BigEndian.
IsNumberPass(f, n, es) ==
  /\ f[0] = 0
  /\ \A i \in 1 .. n : f[i] = 256 * f[i - 1] + es[i]
  /\ BigEndian(es) = f[n]
HasNumberPass(n, X, es) == \E f \in [0 .. n -> X] : IsNumberPass(f, n, es)

LEMMA NumberScan ==
  ASSUME NEW n \in Nat, NEW es, DOMAIN es = 1 .. n, NEW X, 0 \in X,
         \A x \in X, i \in 1 .. n : 256 * x + es[i] \in X
  PROVE  HasNumberPass(n, X, es)
  <1> DEFINE step == [i \in 1 .. n |-> [x \in X |-> 256 * x + es[i]]]
             fold(g) == g = [s \in SUBSET DOMAIN es |->
                               IF s = {} THEN 0 ELSE 256 * g[s \ {Max(s)}] + es[Max(s)]]
             it == CHOOSE g : fold(g)
  <1>1. step \in [1 .. n -> [X -> X]]
    OBVIOUS
  <1>2. ASSUME NEW i \in 1 .. n, NEW x \in X
        PROVE  step[i][x] = 256 * x + es[i]
    OBVIOUS
  <1>3. BigEndian(es) = it[DOMAIN es]
    BY DEF BigEndian, FoldLeft, MapThenFoldSet
  <1> HIDE DEF step
  <1>4. PICK g \in [SUBSET (1 .. n) -> X] : IsFold(g, n, 0, step)
    BY <1>1, FoldExists DEF HasFold
  <1>5. fold(g)
    <2>1. ASSUME NEW s \in SUBSET (1 .. n), s # {}
          PROVE  step[Max(s)][g[s \ {Max(s)}]] = 256 * g[s \ {Max(s)}] + es[Max(s)]
      <3>1. Max(s) \in 1 .. n /\ g[s \ {Max(s)}] \in X
        BY <2>1, MaxInside
      <3> QED
        BY <1>2, <3>1
    <2>2. g = [s \in SUBSET (1 .. n) |-> IF s = {} THEN 0 ELSE step[Max(s)][g[s \ {Max(s)}]]]
      BY <1>4 DEF IsFold
    <2> QED
      BY <2>1, <2>2
  <1>6. fold(it)
    BY <1>5
  <1> HIDE DEF it
  <1>7. it[{}] = 0
    BY <1>6
  <1>8. ASSUME NEW s \in SUBSET (1 .. n), s # {}, it[s \ {Max(s)}] \in X
        PROVE  it[s] = step[Max(s)][it[s \ {Max(s)}]]
    <2>1. Max(s) \in 1 .. n
      BY <1>8, MaxInside
    <2>2. it[s] = 256 * it[s \ {Max(s)}] + es[Max(s)]
      BY <1>6, <1>8
    <2> QED
      BY <1>2, <1>8, <2>1, <2>2
  <1>9. PICK f \in [0 .. n -> X] : IsLoop(f, it, n, 0, step)
    <2>1. FoldsIn(it, n, X, 0, step)
      BY <1>7, <1>8 DEF FoldsIn
    <2> QED
      BY <1>1, <2>1, FoldRun DEF HasLoop
  <1>10. \A i \in 1 .. n : f[i] = 256 * f[i - 1] + es[i]
    <2>1. \A i \in 1 .. n : f[i - 1] \in X
      OBVIOUS
    <2> QED
      BY <1>2, <1>9, <2>1 DEF IsLoop
  <1> QED
    BY <1>3, <1>9, <1>10 DEF IsLoop, IsNumberPass, HasNumberPass

\* The loop of ByteStrings.
IsBytesPass(f, n, es) ==
  /\ f[0] = <<>>
  /\ \A i \in 1 .. n : f[i] = WithBytes(f[i - 1], es[i])
  /\ ByteStrings(es) = f[n]
HasBytesPass(n, X, es) == \E f \in [0 .. n -> X] : IsBytesPass(f, n, es)

LEMMA BytesScan ==
  ASSUME NEW n \in Nat, NEW es, DOMAIN es = 1 .. n, NEW X, <<>> \in X,
         \A x \in X, i \in 1 .. n : WithBytes(x, es[i]) \in X
  PROVE  HasBytesPass(n, X, es)
  <1> DEFINE step == [i \in 1 .. n |-> [x \in X |-> WithBytes(x, es[i])]]
             fold(g) == g = [s \in SUBSET DOMAIN es |->
                               IF s = {} THEN <<>> ELSE WithBytes(g[s \ {Max(s)}], es[Max(s)])]
             it == CHOOSE g : fold(g)
  <1>1. step \in [1 .. n -> [X -> X]]
    OBVIOUS
  <1>2. ASSUME NEW i \in 1 .. n, NEW x \in X
        PROVE  step[i][x] = WithBytes(x, es[i])
    OBVIOUS
  <1>3. ByteStrings(es) = it[DOMAIN es]
    BY DEF ByteStrings, FoldLeft, MapThenFoldSet
  <1> HIDE DEF step
  <1>4. PICK g \in [SUBSET (1 .. n) -> X] : IsFold(g, n, <<>>, step)
    BY <1>1, FoldExists DEF HasFold
  <1>5. fold(g)
    <2>1. ASSUME NEW s \in SUBSET (1 .. n), s # {}
          PROVE  step[Max(s)][g[s \ {Max(s)}]] = WithBytes(g[s \ {Max(s)}], es[Max(s)])
      <3>1. Max(s) \in 1 .. n /\ g[s \ {Max(s)}] \in X
        BY <2>1, MaxInside
      <3> QED
        BY <1>2, <3>1
    <2>2. g = [s \in SUBSET (1 .. n) |-> IF s = {} THEN <<>> ELSE step[Max(s)][g[s \ {Max(s)}]]]
      BY <1>4 DEF IsFold
    <2> QED
      BY <2>1, <2>2
  <1>6. fold(it)
    BY <1>5
  <1> HIDE DEF it
  <1>7. it[{}] = <<>>
    BY <1>6
  <1>8. ASSUME NEW s \in SUBSET (1 .. n), s # {}, it[s \ {Max(s)}] \in X
        PROVE  it[s] = step[Max(s)][it[s \ {Max(s)}]]
    <2>1. Max(s) \in 1 .. n
      BY <1>8, MaxInside
    <2>2. it[s] = WithBytes(it[s \ {Max(s)}], es[Max(s)])
      BY <1>6, <1>8
    <2> QED
      BY <1>2, <1>8, <2>1, <2>2
  <1>9. PICK f \in [0 .. n -> X] : IsLoop(f, it, n, <<>>, step)
    <2>1. FoldsIn(it, n, X, <<>>, step)
      BY <1>7, <1>8 DEF FoldsIn
    <2> QED
      BY <1>1, <2>1, FoldRun DEF HasLoop
  <1>10. \A i \in 1 .. n : f[i] = WithBytes(f[i - 1], es[i])
    <2>1. \A i \in 1 .. n : f[i - 1] \in X
      OBVIOUS
    <2> QED
      BY <1>2, <1>9, <2>1 DEF IsLoop
  <1> QED
    BY <1>3, <1>9, <1>10 DEF IsLoop, IsBytesPass, HasBytesPass

-----------------------------------------------------------------------------
(* Keys.                                                                   *)

\* What the first n of some named values say of a name.
Found(k, n, f) == IF \E i \in 1 .. n : k[i][1] = f THEN Lookup(k, f) ELSE None

LEMMA SequenceFacts ==
  ASSUME NEW k, IsSequence(k)
  PROVE  Len(k) \in Nat /\ DOMAIN k = 1 .. Len(k)
  BY DEF IsSequence

LEMMA KeyIsSequence ==
  ASSUME NEW k, IsKey(k)
  PROVE  /\ NamesOnce(k)
         /\ Len(k) \in Nat /\ DOMAIN k = 1 .. Len(k)
  BY SequenceFacts DEF IsKey, NamesOnce

\* A name is looked up where it is: it is there once.
LEMMA LookupHits ==
  ASSUME NEW k, NamesOnce(k), NEW i \in DOMAIN k
  PROVE  Lookup(k, k[i][1]) = Some(k[i][2])
  <1> DEFINE hits == {j \in DOMAIN k : k[j][1] = k[i][1]}
  <1>1. \A j \in hits : j = i
    BY DEF NamesOnce
  <1>2. hits = {i}
    BY <1>1
  <1>3. (CHOOSE j \in hits : TRUE) = i
    BY <1>2
  <1> QED
    BY <1>2, <1>3 DEF Lookup

LEMMA LookupMisses ==
  ASSUME NEW k, NEW f, \A i \in DOMAIN k : k[i][1] # f
  PROVE  Lookup(k, f) = None
  <1>1. {i \in DOMAIN k : k[i][1] = f} = {}
    OBVIOUS
  <1> QED
    BY <1>1 DEF Lookup

\* All of them, none of them, and one more.
LEMMA FoundAll ==
  ASSUME NEW k, NamesOnce(k), NEW f
  PROVE  Found(k, Len(k), f) = Lookup(k, f)
  BY SequenceFacts, LookupMisses DEF Found, NamesOnce

LEMMA FoundNothing ==
  ASSUME NEW k, NEW f
  PROVE  Found(k, 0, f) = None
  BY DEF Found

LEMMA FoundNext ==
  ASSUME NEW k, NamesOnce(k), NEW n \in 1 .. Len(k), NEW f
  PROVE  Found(k, n, f) = IF k[n][1] = f THEN Some(k[n][2]) ELSE Found(k, n - 1, f)
  <1>1. n \in DOMAIN k
    BY SequenceFacts DEF NamesOnce
  <1>2. CASE k[n][1] = f
    <2>1. n \in 1 .. n
      OBVIOUS
    <2> QED
      BY <1>1, <1>2, <2>1, LookupHits DEF Found
  <1>3. CASE k[n][1] # f
    <2>1. (\E i \in 1 .. n : k[i][1] = f) <=> (\E i \in 1 .. n - 1 : k[i][1] = f)
      BY <1>3
    <2> QED
      BY <1>3, <2>1 DEF Found
  <1> QED
    BY <1>2, <1>3

-----------------------------------------------------------------------------
(* What the code makes of an entry.                                        *)

Entry(k, i) == WireKey(k).entries[i]

LEMMA EntryRead ==
  ASSUME NEW k, IsKey(k), NEW i \in DOMAIN k
  PROVE  /\ AsInt(Entry(k, i)[1]) = Some(Parameter[k[i][1]])
         /\ k[i][1] \in Numbered => Named(Entry(k, i)[2]) = Some(k[i][2])
         /\ k[i][1] \notin Numbered => /\ AsBytes(Entry(k, i)[2]) = Some(k[i][2])
                                       /\ Named(Entry(k, i)[2]) = None
  <1> DEFINE f == k[i][1]
  <1>1. /\ Entry(k, i)[1] = Int_(Parameter[f])
        /\ f \in Numbered => Entry(k, i)[2] = Int_(k[i][2].name)
        /\ f \notin Numbered => Entry(k, i)[2] = Bytes(k[i][2])
    BY DEF Entry, WireKey, Map
  <1>2. f \in KeyField
    BY DEF IsKey
  <1>3. Parameter[f] \in -3 .. 3
    BY <1>2 DEF Parameter, KeyField
  <1>4. -I64 <= Parameter[f] /\ Parameter[f] < I64
    BY <1>3, SecurityAssumption, ValuesAssumption
  <1>5. AsInt(Int_(Parameter[f])) = Some(Parameter[f])
    BY <1>4 DEF AsInt, Is, Int_
  <1>6. ASSUME f \in Numbered
        PROVE  Named(Int_(k[i][2].name)) = Some(k[i][2])
    <2>1. k[i][2].name \in -I64 .. I64 - 1 /\ k[i][2] = [name |-> k[i][2].name]
      BY <1>6 DEF IsKey
    <2> DEFINE m == k[i][2].name
    <2>2. -I64 <= m /\ m < I64
      BY <2>1, ValuesAssumption
    <2> HIDE DEF m
    <2>3. IsSome(AsInt(Int_(m)))
      BY <2>2 DEF AsInt, Is, Int_, IsSome, Some, None
    <2>4. Named(Int_(m)) = Some([name |-> m])
      BY <2>3 DEF Named, Int_
    <2> QED
      BY <2>1, <2>4 DEF m
  <1>7. /\ AsBytes(Bytes(k[i][2])) = Some(k[i][2])
        /\ Named(Bytes(k[i][2])) = None
    BY DEF AsBytes, Named, AsInt, Is, Bytes, IsSome, None
  <1> QED
    BY <1>1, <1>5, <1>6, <1>7

\* A field of a key: where KeyEntry puts an entry depends on the key type only
\* for the numbers two types share.
LEMMA EntryKept ==
  ASSUME NEW k, IsKey(k), NEW i \in DOMAIN k, NEW key, key = [f \in KeyField |-> key[f]],
         k[i][1] \in {"n", "e"} => key.kty = Rsa,
         k[i][1] \in {"crv", "x", "y"} => key.kty # Rsa
  PROVE  KeyEntry(key, Entry(k, i)) = [key EXCEPT ![k[i][1]] = Some(k[i][2])]
  <1> DEFINE e == Entry(k, i)
             f == k[i][1]
  <1>1. f \in KeyField
    BY DEF IsKey
  <1>2. AsInt(e[1]) = <<Parameter[f]>>
    BY EntryRead DEF Some
  <1>3. \A a, b : <<a>> = <<b>> => a = b
    OBVIOUS
  <1> HIDE DEF e
  <1>4. CASE f \in {"kty", "kid", "alg"}
    BY <1>2, <1>3, <1>4, EntryRead DEF KeyEntry, Parameter, KeyField, Numbered, Some, e
  <1>5. CASE f \in {"n", "e"}
    BY <1>2, <1>3, <1>5, EntryRead DEF KeyEntry, Parameter, KeyField, Numbered, Some, e
  <1>6. CASE f \in {"crv", "x", "y"}
    BY <1>2, <1>3, <1>6, EntryRead DEF KeyEntry, Parameter, KeyField, Numbered, Some, e
  <1> QED
    BY <1>1, <1>4, <1>5, <1>6 DEF KeyField

\* The modulus of an RSA key, met before its type, is taken for a curve and read
\* as none.
LEMMA EntryMistaken ==
  ASSUME NEW k, IsKey(k), NEW i \in DOMAIN k, k[i][1] = "n",
         NEW key, key = [f \in KeyField |-> key[f]], key.kty # Rsa, key.crv = None
  PROVE  KeyEntry(key, Entry(k, i)) = key
  <1>1. AsInt(Entry(k, i)[1]) = Some(-1) /\ Named(Entry(k, i)[2]) = None
    BY EntryRead DEF Parameter, KeyField, Numbered
  <1>2. KeyEntry(key, Entry(k, i)) = [key EXCEPT !.crv = None]
    <2>1. Some(-1) # Some(1) /\ Some(-1) # Some(2) /\ Some(-1) # Some(3)
      BY DEF Some
    <2> QED
      BY <1>1, <2>1 DEF KeyEntry
  <1> QED
    BY <1>2

\* An RSA key lists its type before its exponent.
KtyBeforeE(k) ==
  Lookup(k, "kty") = Rsa =>
    \A i, j \in DOMAIN k : k[i][1] = "kty" /\ k[j][1] = "e" => i < j

\* The loop has read the first n parameters, except perhaps the modulus.
Agrees(k, n, key) ==
  /\ key = [f \in KeyField |-> key[f]]
  /\ \A f \in KeyField \ {"n"} : key[f] = Found(k, n, f)
  /\ key["n"] \in {None, Found(k, n, "n")}

LEMMA AgreesNext ==
  ASSUME NEW k, IsKey(k), KtyBeforeE(k), NEW n \in 1 .. Len(k), NEW key, Agrees(k, n - 1, key)
  PROVE  Agrees(k, n, KeyEntry(key, Entry(k, n)))
  <1> DEFINE f == k[n][1]
  <1>1. n \in DOMAIN k /\ f \in KeyField
    BY KeyIsSequence DEF IsKey
  <1>2. f \notin IF Lookup(k, "kty") = Rsa THEN {"crv", "x", "y"} ELSE {"n", "e"}
    BY <1>1 DEF IsKey
  <1>3. key.kty = Found(k, n - 1, "kty") /\ key.crv = Found(k, n - 1, "crv")
    BY DEF Agrees, KeyField
  <1>4. key = [g \in KeyField |-> key[g]]
    BY DEF Agrees
  <1>5. \A g \in KeyField : Found(k, n, g) = IF f = g THEN Some(k[n][2]) ELSE Found(k, n - 1, g)
    BY FoundNext, KeyIsSequence
  <1>6. Rsa # None
    BY DEF Rsa, Some, None
  <1> HIDE DEF f
  <1>7. CASE KeyEntry(key, Entry(k, n)) = [key EXCEPT ![f] = Some(k[n][2])]
    <2> DEFINE new == [key EXCEPT ![f] = Some(k[n][2])]
    <2>1. \A g \in KeyField : new[g] = IF f = g THEN Some(k[n][2]) ELSE key[g]
      BY <1>1, <1>4
    <2>2. new = [g \in KeyField |-> new[g]]
      BY <1>4
    <2> HIDE DEF new
    <2>3. new["n"] \in {None, Found(k, n, "n")}
      BY <1>5, <2>1 DEF Agrees, KeyField
    <2>4. \A g \in KeyField \ {"n"} : new[g] = Found(k, n, g)
      BY <1>5, <2>1 DEF Agrees
    <2> QED
      BY <1>7, <2>2, <2>3, <2>4 DEF Agrees, new
  <1>8. CASE Lookup(k, "kty") = Rsa /\ (f = "n" => key.kty = Rsa)
    <2>1. f = "e" => key.kty = Rsa
      <3>1. SUFFICES ASSUME f = "e"
                     PROVE  key.kty = Rsa
        OBVIOUS
      <3>2. PICK i \in DOMAIN k : k[i][1] = "kty"
        BY <1>6, <1>8, LookupMisses
      <3>3. i < n
        BY <1>1, <1>8, <3>1, <3>2 DEF KtyBeforeE, f
      <3>4. i \in 1 .. n - 1
        BY <3>2, <3>3, KeyIsSequence
      <3> QED
        BY <1>3, <1>8, <3>2, <3>4 DEF Found
    <2>2. KeyEntry(key, Entry(k, n)) = [key EXCEPT ![f] = Some(k[n][2])]
      BY <1>1, <1>2, <1>4, <1>8, <2>1, EntryKept DEF f
    <2> QED
      BY <1>7, <2>2
  <1>9. CASE f = "n" /\ key.kty # Rsa
    <2>1. Lookup(k, "kty") = Rsa
      BY <1>2, <1>9
    <2>2. key.crv = None
      <3>1. \A i \in DOMAIN k : k[i][1] # "crv"
        BY <2>1 DEF IsKey
      <3>2. Lookup(k, "crv") = None
        BY <3>1, LookupMisses
      <3> QED
        BY <1>3, <3>2 DEF Found
    <2>3. KeyEntry(key, Entry(k, n)) = key
      BY <1>1, <1>4, <1>9, <2>2, EntryMistaken DEF f
    <2>4. key["n"] = None
      <3>1. \A i \in 1 .. n - 1 : k[i][1] # "n"
        <4>1. SUFFICES ASSUME NEW i \in 1 .. n - 1, k[i][1] = "n"
                       PROVE  FALSE
          OBVIOUS
        <4>2. i \in DOMAIN k /\ i # n
          BY KeyIsSequence
        <4> QED
          BY <1>1, <1>9, <4>1, <4>2, KeyIsSequence DEF NamesOnce, f
      <3>2. Found(k, n - 1, "n") = None
        BY <3>1 DEF Found
      <3> QED
        BY <3>2 DEF Agrees
    <2>5. \A g \in KeyField \ {"n"} : key[g] = Found(k, n, g)
      BY <1>5, <1>9 DEF Agrees
    <2> QED
      BY <1>4, <2>3, <2>4, <2>5 DEF Agrees
  <1>10. CASE Lookup(k, "kty") # Rsa
    <2>1. key.kty # Rsa
      BY <1>3, <1>6, <1>10 DEF Found
    <2>2. KeyEntry(key, Entry(k, n)) = [key EXCEPT ![f] = Some(k[n][2])]
      BY <1>1, <1>2, <1>4, <1>10, <2>1, EntryKept DEF f
    <2> QED
      BY <1>7, <2>2
  <1> QED
    BY <1>8, <1>9, <1>10

LEMMA FirstScan ==
  ASSUME NEW k, IsKey(k), KtyBeforeE(k)
  PROVE  Agrees(k, Len(k), FirstPass(WireKey(k).entries))
  <1> DEFINE es == WireKey(k).entries
             values == {None} \cup {Named(es[i][2]) : i \in 1 .. Len(k)} \cup {AsBytes(es[i][2]) : i \in 1 .. Len(k)}
             X == [KeyField -> values]
  <1>1. Len(k) \in Nat /\ DOMAIN es = 1 .. Len(k)
    BY KeyIsSequence DEF WireKey, Map
  <1>2. NoKey \in X
    BY DEF NoKey
  <1>3. ASSUME NEW x \in X, NEW i \in 1 .. Len(k)
        PROVE  KeyEntry(x, es[i]) \in X
    <2>1. Named(es[i][2]) \in values /\ AsBytes(es[i][2]) \in values
      OBVIOUS
    <2> HIDE DEF values, es
    <2> QED
      BY <2>1 DEF KeyEntry
  <1>4. PICK f \in [0 .. Len(k) -> X] :
               /\ f[0] = NoKey
               /\ \A i \in 1 .. Len(k) : f[i] = KeyEntry(f[i - 1], es[i])
               /\ FirstPass(es) = f[Len(k)]
    <2> HIDE DEF es, values
    <2>1. \A x \in X, i \in 1 .. Len(k) : KeyEntry(x, es[i]) \in X
      BY <1>3
    <2> HIDE DEF X
    <2> QED
      BY <1>1, <1>2, <2>1, KeyScan
  <1> HIDE DEF X, values
  <1> DEFINE S == {n \in Nat : n <= Len(k) => Agrees(k, n, f[n])}
  <1>5. 0 \in S
    <2>1. Agrees(k, 0, NoKey)
      BY FoundNothing DEF Agrees, NoKey, KeyField
    <2> QED
      BY <1>4, <2>1
  <1>6. ASSUME NEW n \in Nat, n \in S
        PROVE  n + 1 \in S
    <2>1. SUFFICES ASSUME n + 1 <= Len(k)
                   PROVE  Agrees(k, n + 1, f[n + 1])
      OBVIOUS
    <2>2. n + 1 \in 1 .. Len(k) /\ (n + 1) - 1 = n /\ Agrees(k, n, f[n])
      BY <1>1, <1>6, <2>1
    <2>3. f[n + 1] = KeyEntry(f[n], Entry(k, n + 1))
      BY <1>4, <2>2 DEF Entry
    <2> QED
      BY <2>2, <2>3, AgreesNext
  <1> HIDE DEF S
  <1>7. \A n \in Nat : n \in S
    BY <1>5, <1>6, Induction
  <1> QED
    BY <1>1, <1>4, <1>7 DEF S

\* What the second loop has after n entries, from a key without a modulus.
LEMMA RescanKept ==
  ASSUME NEW k, IsKey(k), NEW i \in DOMAIN k, k[i][1] \notin {"crv", "x", "y"}, NEW key
  PROVE  RescanEntry(key, Entry(k, i)) =
           IF k[i][1] \in {"n", "e"} THEN [key EXCEPT ![k[i][1]] = Some(k[i][2])] ELSE key
  <1> DEFINE e == Entry(k, i)
             f == k[i][1]
  <1>1. f \in KeyField
    BY DEF IsKey
  <1>2. AsInt(e[1]) = <<Parameter[f]>>
    BY EntryRead DEF Some
  <1>3. \A a, b : <<a>> = <<b>> => a = b
    OBVIOUS
  <1> HIDE DEF e
  <1>4. CASE f \in {"n", "e"}
    BY <1>2, <1>3, <1>4, EntryRead DEF RescanEntry, Parameter, KeyField, Numbered, Some, e
  <1>5. CASE f \in {"kty", "kid", "alg"}
    BY <1>2, <1>3, <1>5 DEF RescanEntry, Parameter, KeyField, Some, e
  <1> QED
    BY <1>1, <1>4, <1>5 DEF KeyField, e, f

Rescanned(k, n, key, new) ==
  /\ new = [f \in KeyField |-> new[f]]
  /\ \A f \in KeyField \ {"n"} : new[f] = key[f]
  /\ new["n"] = Found(k, n, "n")

LEMMA SecondScan ==
  ASSUME NEW k, IsKey(k), Lookup(k, "kty") = Rsa,
         NEW key, Agrees(k, Len(k), key), key["n"] = None
  PROVE  Rescanned(k, Len(k), key, SecondPass(key, WireKey(k).entries))
  <1> DEFINE es == WireKey(k).entries
             values == {None} \cup {key[f] : f \in KeyField} \cup {AsBytes(es[i][2]) : i \in 1 .. Len(k)}
             X == [KeyField -> values]
  <1>1. Len(k) \in Nat /\ DOMAIN es = 1 .. Len(k)
    BY KeyIsSequence DEF WireKey, Map
  <1>2. key \in X
    BY DEF Agrees
  <1>3. ASSUME NEW x \in X, NEW i \in 1 .. Len(k)
        PROVE  RescanEntry(x, es[i]) \in X
    <2>1. AsBytes(es[i][2]) \in values
      OBVIOUS
    <2> HIDE DEF values, es
    <2> QED
      BY <2>1 DEF RescanEntry
  <1>4. PICK f \in [0 .. Len(k) -> X] : IsSecondPass(f, Len(k), key, es)
    <2> HIDE DEF es, values
    <2>1. \A x \in X, i \in 1 .. Len(k) : RescanEntry(x, es[i]) \in X
      BY <1>3
    <2> HIDE DEF X
    <2> QED
      BY <1>1, <1>2, <2>1, RescanScan DEF HasSecondPass
  <1> HIDE DEF X, values
  <1> DEFINE S == {n \in Nat : n <= Len(k) => Rescanned(k, n, key, f[n])}
  <1>5. 0 \in S
    <2>1. Rescanned(k, 0, key, key)
      BY FoundNothing DEF Agrees, Rescanned
    <2> QED
      BY <1>4, <2>1 DEF IsSecondPass
  <1>6. ASSUME NEW n \in Nat, n \in S
        PROVE  n + 1 \in S
    <2>1. SUFFICES ASSUME n + 1 <= Len(k)
                   PROVE  Rescanned(k, n + 1, key, f[n + 1])
      OBVIOUS
    <2> DEFINE m == n + 1
    <2>2. m \in 1 .. Len(k) /\ m - 1 = n /\ Rescanned(k, n, key, f[n])
      BY <1>1, <1>6, <2>1
    <2>3. f[m] = RescanEntry(f[n], Entry(k, m))
      BY <1>4, <2>2 DEF Entry, IsSecondPass
    <2> HIDE DEF m
    <2> DEFINE g == k[m][1]
    <2>4. m \in DOMAIN k /\ g \in KeyField /\ g \notin {"crv", "x", "y"}
      BY <2>2, KeyIsSequence DEF IsKey
    <2>5. f[m] = IF g \in {"n", "e"} THEN [f[n] EXCEPT ![g] = Some(k[m][2])] ELSE f[n]
      BY <2>3, <2>4, RescanKept
    <2>6. Found(k, m, "n") = IF g = "n" THEN Some(k[m][2]) ELSE Found(k, n, "n")
      BY <2>2, FoundNext, KeyIsSequence
    <2>7. g = "e" => key["e"] = Some(k[m][2])
      <3>1. SUFFICES ASSUME g = "e"
                     PROVE  key["e"] = Some(k[m][2])
        OBVIOUS
      <3>2. key["e"] = Lookup(k, "e")
        BY FoundAll, KeyIsSequence DEF Agrees, KeyField
      <3> QED
        BY <2>4, <3>1, <3>2, LookupHits, KeyIsSequence
    <2>8. f[n] = [h \in KeyField |-> f[n][h]]
      BY <2>2 DEF Rescanned
    <2> HIDE DEF g
    <2>9. Rescanned(k, m, key, f[m])
      <3>1. CASE g \notin {"n", "e"}
        BY <2>2, <2>5, <2>6, <3>1 DEF Rescanned
      <3>2. CASE g \in {"n", "e"}
        <4> DEFINE new == [f[n] EXCEPT ![g] = Some(k[m][2])]
        <4>1. \A h \in KeyField : new[h] = IF g = h THEN Some(k[m][2]) ELSE f[n][h]
          BY <2>4, <2>8
        <4>2. new = [h \in KeyField |-> new[h]]
          BY <2>8
        <4>3. f[m] = new
          BY <2>5, <3>2
        <4> HIDE DEF new
        <4>4. new["n"] = Found(k, m, "n")
          BY <2>2, <2>6, <4>1 DEF Rescanned, KeyField
        <4>5. \A h \in KeyField \ {"n"} : new[h] = key[h]
          BY <2>2, <2>7, <3>2, <4>1 DEF Rescanned
        <4> QED
          BY <4>2, <4>3, <4>4, <4>5 DEF Rescanned
      <3> QED
        BY <3>1, <3>2
    <2> QED
      BY <2>9 DEF m
  <1> HIDE DEF S
  <1>7. \A n \in Nat : n \in S
    BY <1>5, <1>6, Induction
  <1> QED
    BY <1>1, <1>4, <1>7 DEF S, IsSecondPass

\* A key is read back, if an RSA key lists its type before its exponent.
LEMMA KeyDecoded ==
  ASSUME NEW k, IsKey(k), KtyBeforeE(k)
  PROVE  DecodeKey(WireKey(k)) = Some([f \in KeyField |-> Lookup(k, f)])
  <1> DEFINE key == FirstPass(WireKey(k).entries)
             last == SecondPass(key, WireKey(k).entries)
             meant == [f \in KeyField |-> Lookup(k, f)]
  <1>1. DecodeKey(WireKey(k)) = IF key.kty = Rsa /\ key.n = None THEN Some(last) ELSE Some(key)
    <2>1. Is(WireKey(k), "map")
      BY DEF WireKey, Map, Is
    <2> QED
      BY <2>1 DEF DecodeKey, FirstPass, SecondPass
  <1>2. Agrees(k, Len(k), key)
    BY FirstScan
  <1> HIDE DEF key
  <1>3. /\ key = [f \in KeyField |-> key[f]]
        /\ \A f \in KeyField \ {"n"} : key[f] = Lookup(k, f)
        /\ key["n"] \in {None, Lookup(k, "n")}
    BY <1>2, FoundAll, KeyIsSequence DEF Agrees
  <1>4. key.kty = Lookup(k, "kty")
    BY <1>3 DEF KeyField
  <1>5. CASE key.kty = Rsa /\ key.n = None
    <2>1. Rescanned(k, Len(k), key, last)
      BY <1>2, <1>4, <1>5, SecondScan
    <2> HIDE DEF last
    <2>2. \A f \in KeyField : last[f] = Lookup(k, f)
      BY <1>3, <2>1, FoundAll, KeyIsSequence DEF Rescanned
    <2>3. last = [f \in KeyField |-> last[f]]
      BY <2>1 DEF Rescanned
    <2>4. last = meant
      BY <2>2, <2>3
    <2> QED
      BY <1>1, <1>5, <2>4
  <1>6. CASE ~(key.kty = Rsa /\ key.n = None)
    <2>1. key["n"] = Lookup(k, "n")
      <3>1. CASE key.kty = Rsa
        BY <1>3, <1>6, <3>1
      <3>2. CASE key.kty # Rsa
        <4>1. \A i \in DOMAIN k : k[i][1] # "n"
          BY <1>4, <3>2 DEF IsKey
        <4> QED
          BY <1>3, <4>1, LookupMisses
      <3> QED
        BY <3>1, <3>2
    <2>2. \A f \in KeyField : key[f] = Lookup(k, f)
      BY <1>3, <2>1
    <2>3. key = meant
      BY <1>3, <2>2
    <2> QED
      BY <1>1, <1>6, <2>3
  <1> QED
    BY <1>5, <1>6

-----------------------------------------------------------------------------
(* Bytes.                                                                  *)

\* The bytes s stand behind the first o of b, as far as b goes.
Reads(b, o, s) == \A i \in 1 .. Len(s) : o + i <= Len(b) => b[o + i] = s[i]

LEMMA ReadsWhole ==
  ASSUME NEW s \in Seq(Byte), NEW n \in 0 .. Len(s)
  PROVE  /\ SubSeq(s, 1, n) \in Seq(Byte)
         /\ Len(SubSeq(s, 1, n)) = n
         /\ Reads(SubSeq(s, 1, n), 0, s)
  <1>1. Len(s) \in Nat /\ \A i \in 1 .. Len(s) : s[i] \in Byte
    BY ElementOfSeq, LenProperties
  <1>2. n \in Int /\ 1 \in Int /\ \A i \in 1 .. n : s[i] \in Byte
    BY <1>1
  <1>3. /\ SubSeq(s, 1, n) \in Seq(Byte)
        /\ Len(SubSeq(s, 1, n)) = IF 1 <= n THEN n - 1 + 1 ELSE 0
        /\ \A i \in 1 .. n - 1 + 1 : SubSeq(s, 1, n)[i] = s[1 + i - 1]
    BY <1>2, SubSeqProperties
  <1>4. Len(SubSeq(s, 1, n)) = n
    BY <1>1, <1>3
  <1>5. ASSUME NEW i \in 1 .. Len(s), 0 + i <= n
        PROVE  SubSeq(s, 1, n)[0 + i] = s[i]
    <2>1. i \in 1 .. n - 1 + 1 /\ 1 + i - 1 = i /\ 0 + i = i
      BY <1>1, <1>5
    <2> QED
      BY <1>3, <2>1
  <1> QED
    BY <1>3, <1>4, <1>5 DEF Reads

LEMMA ReadsParts ==
  ASSUME NEW b \in Seq(Byte), NEW o \in Nat, NEW s \in Seq(Byte), NEW t \in Seq(Byte), Reads(b, o, s \o t)
  PROVE  Reads(b, o, s) /\ Reads(b, o + Len(s), t)
  <1>1. /\ Len(s \o t) = Len(s) + Len(t)
        /\ \A i \in 1 .. Len(s) + Len(t) : (s \o t)[i] = IF i <= Len(s) THEN s[i] ELSE t[i - Len(s)]
    BY ConcatProperties
  <1>2. Len(b) \in Nat /\ Len(s) \in Nat /\ Len(t) \in Nat
    BY LenProperties
  <1>3. ASSUME NEW i \in 1 .. Len(s), o + i <= Len(b)
        PROVE  b[o + i] = s[i]
    <2>1. i \in 1 .. Len(s) + Len(t) /\ i <= Len(s)
      BY <1>2
    <2> QED
      BY <1>1, <1>3, <2>1 DEF Reads
  <1>4. ASSUME NEW i \in 1 .. Len(t), (o + Len(s)) + i <= Len(b)
        PROVE  b[(o + Len(s)) + i] = t[i]
    <2> DEFINE j == Len(s) + i
    <2>1. j \in 1 .. Len(s) + Len(t) /\ ~(j <= Len(s)) /\ j - Len(s) = i /\ o + j = (o + Len(s)) + i
      BY <1>2
    <2> HIDE DEF j
    <2>2. (s \o t)[j] = t[i]
      BY <1>1, <2>1
    <2>3. b[o + j] = (s \o t)[j]
      BY <1>1, <1>4, <2>1 DEF Reads
    <2> QED
      BY <2>1, <2>2, <2>3
  <1> QED
    BY <1>3, <1>4 DEF Reads

LEMMA SliceReads ==
  ASSUME NEW b \in Seq(Byte), NEW o \in Nat, NEW s \in Seq(Byte), Reads(b, o, s), o + Len(s) <= Len(b)
  PROVE  Slice(b, o, Len(s)) = s
  <1> DEFINE l == Len(s)
             c == Slice(b, o, l)
  <1>1. Len(b) \in Nat /\ l \in Nat /\ o + 1 \in Int /\ o + l \in Int
    BY LenProperties
  <1>2. \A i \in o + 1 .. o + l : b[i] \in Byte
    <2>1. ASSUME NEW i \in o + 1 .. o + l
          PROVE  i \in 1 .. Len(b)
      BY <1>1
    <2> QED
      BY <2>1, ElementOfSeq
  <1>3. /\ c \in Seq(Byte)
        /\ Len(c) = IF o + 1 <= o + l THEN (o + l) - (o + 1) + 1 ELSE 0
        /\ \A i \in 1 .. (o + l) - (o + 1) + 1 : c[i] = b[(o + 1) + i - 1]
    BY <1>1, <1>2, SubSeqProperties DEF Slice
  <1> HIDE DEF c
  <1>4. Len(c) = l
    BY <1>1, <1>3
  <1>5. ASSUME NEW i \in 1 .. l
        PROVE  c[i] = s[i]
    <2>1. i \in 1 .. (o + l) - (o + 1) + 1 /\ (o + 1) + i - 1 = o + i /\ o + i <= Len(b)
      BY <1>1
    <2> QED
      BY <1>3, <2>1 DEF Reads
  <1>6. c = s
    BY <1>3, <1>4, <1>5, SeqEqual
  <1> QED
    BY <1>6 DEF c

LEMMA AnySeq ==
  ASSUME NEW S, NEW n \in Nat, NEW s \in [1 .. n -> S]
  PROVE  s \in Seq(S) /\ Len(s) = n
  OBVIOUS

\* The remainders of a number exist.
IsRemainder(rest, n, len) ==
  rest = [k \in 0 .. len |-> IF k = 0 THEN n ELSE rest[k - 1] \div 256]
HasRemainder(n, len) == \E rest \in [0 .. len -> Nat] : IsRemainder(rest, n, len)

LEMMA RemainderIs ==
  ASSUME NEW n \in Nat, NEW len \in Nat
  PROVE  /\ Remainder(n, len) \in [0 .. len -> Nat]
         /\ IsRemainder(Remainder(n, len), n, len)
  <1> DEFINE S == {k \in Nat : HasRemainder(n, k)}
  <1>1. 0 \in S
    <2> DEFINE g == [k \in 0 .. 0 |-> n]
    <2>1. g \in [0 .. 0 -> Nat] /\ IsRemainder(g, n, 0)
      BY DEF IsRemainder
    <2> QED
      BY <2>1 DEF HasRemainder
  <1>2. ASSUME NEW k \in Nat, k \in S
        PROVE  k + 1 \in S
    <2>1. PICK g \in [0 .. k -> Nat] : IsRemainder(g, n, k)
      BY <1>2 DEF HasRemainder
    <2>2. g = [i \in 0 .. k |-> IF i = 0 THEN n ELSE g[i - 1] \div 256]
      BY <2>1 DEF IsRemainder
    <2> DEFINE h == [i \in 0 .. k + 1 |-> IF i <= k THEN g[i] ELSE g[k] \div 256]
    <2>3. \A i \in 0 .. k : g[i] \in Nat
      BY <2>1
    <2>4. g[k] \div 256 \in Nat
      BY <2>3
    <2>5. h \in [0 .. k + 1 -> Nat]
      BY <2>3, <2>4
    <2>6. ASSUME NEW i \in 0 .. k + 1
          PROVE  h[i] = IF i = 0 THEN n ELSE h[i - 1] \div 256
      <3>1. CASE i = 0
        BY <2>2, <3>1
      <3>2. CASE i \in 1 .. k
        <4>1. i \in 0 .. k /\ i - 1 \in 0 .. k /\ i # 0 /\ i <= k /\ i - 1 <= k /\ i - 1 \in 0 .. k + 1
          BY <3>2
        <4>2. g[i] = g[i - 1] \div 256
          BY <2>2, <4>1
        <4> QED
          BY <4>1, <4>2
      <3>3. CASE i = k + 1
        BY <3>3
      <3> QED
        BY <3>1, <3>2, <3>3
    <2>7. h = [i \in 0 .. k + 1 |-> h[i]]
      OBVIOUS
    <2> HIDE DEF h
    <2>8. IsRemainder(h, n, k + 1)
      BY <2>6, <2>7 DEF IsRemainder
    <2> QED
      BY <2>5, <2>8 DEF HasRemainder
  <1> HIDE DEF S
  <1>3. len \in S
    BY <1>1, <1>2, Induction
  <1>4. PICK g \in [0 .. len -> Nat] : IsRemainder(g, n, len)
    BY <1>3 DEF S, HasRemainder
  <1> DEFINE r == Remainder(n, len)
             c == CHOOSE rest : IsRemainder(rest, n, len)
  <1>5. IsRemainder(c, n, len)
    BY <1>4, Zenon
  <1>6. r = [k \in 0 .. len |-> IF k = 0 THEN n ELSE r[k - 1] \div 256]
    <2>1. r = c
      BY DEF Remainder, IsRemainder
    <2> HIDE DEF r, c
    <2>2. IsRemainder(r, n, len)
      BY <1>5, <2>1
    <2> QED
      BY <2>2 DEF IsRemainder
  <1> HIDE DEF r
  <1> DEFINE T == {k \in Nat : k <= len => r[k] \in Nat}
  <1>7. 0 \in T
    BY <1>6
  <1>8. ASSUME NEW k \in Nat, k \in T
        PROVE  k + 1 \in T
    <2>1. SUFFICES ASSUME k + 1 <= len
                   PROVE  r[k + 1] \in Nat
      OBVIOUS
    <2>2. r[k] \in Nat
      BY <1>8, <2>1
    <2>3. k + 1 \in 0 .. len /\ k + 1 # 0 /\ (k + 1) - 1 = k
      BY <2>1
    <2>4. r[k + 1] = r[k] \div 256
      BY <1>6, <2>3
    <2> QED
      BY <2>2, <2>4
  <1> HIDE DEF T
  <1>9. \A k \in Nat : k \in T
    BY <1>7, <1>8, Induction
  <1>10. \A k \in 0 .. len : r[k] \in Nat
    BY <1>9 DEF T
  <1>11. r \in [0 .. len -> Nat]
    BY <1>6, <1>10
  <1> QED
    BY <1>6, <1>11 DEF r, IsRemainder

\* A number that fits comes back from its bytes.
LEMMA NumberRead ==
  ASSUME NEW len \in Nat, NEW n, FitsBytes(n, len)
  PROVE  /\ BytesOf(n, len) \in Seq(Byte)
         /\ Len(BytesOf(n, len)) = len
         /\ BigEndian(BytesOf(n, len)) = n
  <1> DEFINE r == Remainder(n, len)
             s == BytesOf(n, len)
  <1>1. n \in Nat /\ r[len] = 0
    BY DEF FitsBytes
  <1>2. r \in [0 .. len -> Nat] /\ r = [k \in 0 .. len |-> IF k = 0 THEN n ELSE r[k - 1] \div 256]
    BY <1>1, RemainderIs DEF IsRemainder
  <1>3. s = [i \in 1 .. len |-> r[len - i] % 256]
    BY DEF BytesOf
  <1> HIDE DEF r, s
  <1>4. s \in [1 .. len -> Byte]
    <2>1. ASSUME NEW i \in 1 .. len
          PROVE  r[len - i] % 256 \in Byte
      <3>1. len - i \in 0 .. len
        OBVIOUS
      <3>2. r[len - i] \in Nat
        BY <1>2, <3>1
      <3> QED
        BY <3>2 DEF Byte
    <2> QED
      BY <1>3, <2>1
  <1>5. s \in Seq(Byte) /\ Len(s) = len
    BY <1>4, AnySeq
  <1>6. ASSUME NEW x \in Nat, NEW i \in 1 .. len
        PROVE  256 * x + s[i] \in Nat
    <2>1. s[i] \in Byte
      BY <1>4
    <2> QED
      BY <2>1 DEF Byte
  <1>7. PICK f \in [0 .. len -> Nat] : IsNumberPass(f, len, s)
    <2>1. \A x \in Nat, i \in 1 .. len : 256 * x + s[i] \in Nat
      BY <1>6
    <2>2. DOMAIN s = 1 .. len /\ 0 \in Nat
      BY <1>4
    <2> DEFINE X == Nat
    <2>3. 0 \in X /\ \A x \in X, i \in 1 .. len : 256 * x + s[i] \in X
      BY <2>1
    <2> HIDE DEF X
    <2>4. HasNumberPass(len, X, s)
      BY <2>2, <2>3, NumberScan
    <2> QED
      BY <2>4 DEF X, HasNumberPass
  <1> DEFINE T == {k \in Nat : k <= len => f[k] = r[len - k]}
  <1>8. 0 \in T
    BY <1>1, <1>7 DEF IsNumberPass
  <1>9. ASSUME NEW k \in Nat, k \in T
        PROVE  k + 1 \in T
    <2>1. SUFFICES ASSUME k + 1 <= len
                   PROVE  f[k + 1] = r[len - (k + 1)]
      OBVIOUS
    <2> DEFINE j == len - k
    <2>2. j \in 0 .. len /\ j # 0 /\ j - 1 = len - (k + 1) /\ j - 1 \in 0 .. len
      BY <2>1
    <2>3. f[k] = r[j]
      BY <1>9, <2>1
    <2>4. k + 1 \in 1 .. len /\ (k + 1) - 1 = k
      BY <2>1
    <2>5. f[k + 1] = 256 * f[k] + s[k + 1]
      BY <1>7, <2>4 DEF IsNumberPass
    <2>6. s[k + 1] = r[j - 1] % 256
      BY <1>3, <2>2, <2>4
    <2>7. r[j] = r[j - 1] \div 256
      BY <1>2, <2>2
    <2>8. r[j - 1] \in Nat
      BY <1>2, <2>2
    <2>9. \A x \in Nat : 256 * (x \div 256) + (x % 256) = x
      OBVIOUS
    <2> HIDE DEF j
    <2>10. f[k + 1] = 256 * (r[j - 1] \div 256) + (r[j - 1] % 256)
      BY <2>3, <2>5, <2>6, <2>7
    <2>11. f[k + 1] = r[j - 1]
      BY <2>8, <2>9, <2>10
    <2> QED
      BY <2>2, <2>11
  <1> HIDE DEF T
  <1>10. len \in T
    BY <1>8, <1>9, Induction
  <1>11. f[len] = r[0]
    BY <1>10 DEF T
  <1>12. r[0] = n
    BY <1>2
  <1> QED
    BY <1>5, <1>7, <1>11, <1>12 DEF s, IsNumberPass

-----------------------------------------------------------------------------
(* Items in the bytes.                                                     *)

Ints(pairs) == [i \in DOMAIN pairs |-> <<Int_(pairs[i][1]), Int_(pairs[i][2])>>]

LEMMA SmallRead ==
  ASSUME NEW n \in SmallInts
  PROVE  SmallByte(n) \in Byte /\ IsSmall(SmallByte(n)) /\ Small(SmallByte(n)) = Int_(n)
  <1>1. CASE n >= 0
    BY <1>1 DEF SmallInts, SmallByte, IsSmall, Small, Byte
  <1>2. CASE ~(n >= 0)
    <2>1. SmallByte(n) = 31 - n /\ 31 - n \in 32 .. 55 /\ 31 - (31 - n) = n
      BY <1>2 DEF SmallInts, SmallByte
    <2> QED
      BY <2>1 DEF IsSmall, Small, Byte
  <1> QED
    BY <1>1, <1>2

LEMMA SmallMapBytes ==
  ASSUME NEW pairs, IsSmallMap(pairs)
  PROVE  /\ Len(pairs) \in 0 .. 23 /\ DOMAIN pairs = 1 .. Len(pairs)
         /\ \A i \in 1 .. Len(pairs) : pairs[i][1] \in SmallInts /\ pairs[i][2] \in SmallInts
         /\ SmallMap(pairs) \in Seq(Byte)
         /\ Len(SmallMap(pairs)) = 1 + 2 * Len(pairs)
         /\ SmallMap(pairs)[1] = 160 + Len(pairs)
         /\ \A i \in 1 .. Len(pairs) : /\ SmallMap(pairs)[2 * i] = SmallByte(pairs[i][1])
                                       /\ SmallMap(pairs)[2 * i + 1] = SmallByte(pairs[i][2])
  <1> DEFINE l == Len(pairs)
             s == SmallMap(pairs)
             byte(i) == IF i = 1 THEN 160 + l ELSE SmallByte(pairs[i \div 2][IF i % 2 = 0 THEN 1 ELSE 2])
  <1>1. l \in 0 .. 23 /\ DOMAIN pairs = 1 .. l
    <2>1. pairs \in Seq(Range(pairs)) /\ l < 24
      BY DEF IsSmallMap, IsSequence
    <2>2. l \in Nat /\ DOMAIN pairs = 1 .. l
      BY <2>1, LenProperties
    <2> HIDE DEF l
    <2> QED
      BY <2>1, <2>2
  <1>2. \A i \in 1 .. l : pairs[i][1] \in SmallInts /\ pairs[i][2] \in SmallInts
    BY <1>1 DEF IsSmallMap
  <1>3. s = [i \in 1 .. 1 + 2 * l |-> byte(i)]
    BY DEF SmallMap
  <1> HIDE DEF l, s
  <1>4. ASSUME NEW i \in 1 .. 1 + 2 * l
        PROVE  byte(i) \in Byte
    <2>1. CASE i = 1
      <3>1. byte(i) = 160 + l
        BY <2>1
      <3> HIDE DEF byte
      <3> QED
        BY <1>1, <3>1 DEF Byte
    <2>2. CASE i # 1
      <3>1. i \div 2 \in 1 .. l
        BY <1>1, <2>2
      <3>2. pairs[i \div 2][IF i % 2 = 0 THEN 1 ELSE 2] \in SmallInts
        BY <1>2, <3>1
      <3> QED
        BY <2>2, <3>2, SmallRead
    <2> QED
      BY <2>1, <2>2
  <1>5. s \in Seq(Byte) /\ Len(s) = 1 + 2 * l
    <2>1. 1 + 2 * l \in Nat
      BY <1>1
    <2>2. s \in [1 .. 1 + 2 * l -> Byte]
      BY <1>3, <1>4
    <2> HIDE DEF byte
    <2> QED
      BY <2>1, <2>2, AnySeq
  <1>6. s[1] = 160 + l
    BY <1>1, <1>3
  <1>7. ASSUME NEW i \in 1 .. l
        PROVE  s[2 * i] = SmallByte(pairs[i][1]) /\ s[2 * i + 1] = SmallByte(pairs[i][2])
    <2>1. /\ 2 * i \in 1 .. 1 + 2 * l /\ 2 * i # 1 /\ (2 * i) \div 2 = i /\ (2 * i) % 2 = 0
          /\ 2 * i + 1 \in 1 .. 1 + 2 * l /\ 2 * i + 1 # 1 /\ (2 * i + 1) \div 2 = i /\ (2 * i + 1) % 2 # 0
      BY <1>1
    <2> QED
      BY <1>3, <2>1
  <1> QED
    BY <1>1, <1>2, <1>5, <1>6, <1>7 DEF l, s

\* A map is read whole or not at all.
LEMMA MapRead ==
  ASSUME NEW b \in Seq(Byte), NEW o \in Nat, NEW pairs, IsSmallMap(pairs), Reads(b, o, SmallMap(pairs))
  PROVE  ReadItem(b, o) = IF o + 1 + 2 * Len(pairs) <= Len(b)
                          THEN Some(<<Map(Ints(pairs)), 1 + 2 * Len(pairs)>>)
                          ELSE None
  <1> DEFINE l == Len(pairs)
             s == SmallMap(pairs)
             key(i) == b[o + 2 * i]
             val(i) == b[o + 2 * i + 1]
             read == [i \in 1 .. l |-> <<Small(key(i)), Small(val(i))>>]
  <1>1. Len(b) \in Nat /\ l \in 0 .. 23 /\ DOMAIN pairs = 1 .. l /\ Len(s) = 1 + 2 * l
    BY SmallMapBytes, LenProperties
  <1>2. CASE o >= Len(b)
    <2>1. ~(o + 1 + 2 * l <= Len(b))
      BY <1>1, <1>2
    <2> QED
      BY <1>2, <2>1 DEF ReadItem
  <1>3. CASE o < Len(b)
    <2>1. b[o + 1] = 160 + l
      <3>1. 1 \in 1 .. Len(s) /\ o + 1 <= Len(b)
        BY <1>1, <1>3
      <3> QED
        BY <3>1, SmallMapBytes DEF Reads
    <2>2. ~IsSmall(160 + l) /\ 160 <= 160 + l /\ 160 + l < 184 /\ (160 + l) - 160 = l
      <3> HIDE DEF l
      <3> QED
        BY <1>1 DEF IsSmall
    <2>3. ~(o >= Len(b))
      BY <1>1, <1>3
    <2>4. CASE ~(o + 1 + 2 * l <= Len(b))
      BY <2>1, <2>2, <2>3, <2>4 DEF ReadItem
    <2>5. CASE o + 1 + 2 * l <= Len(b)
      <3>1. ASSUME NEW i \in 1 .. l
            PROVE  key(i) = SmallByte(pairs[i][1]) /\ val(i) = SmallByte(pairs[i][2])
        <4>1. /\ 2 * i \in 1 .. Len(s) /\ o + 2 * i <= Len(b)
              /\ 2 * i + 1 \in 1 .. Len(s) /\ o + (2 * i + 1) <= Len(b)
              /\ o + (2 * i + 1) = o + 2 * i + 1
          BY <1>1, <2>5
        <4>2. key(i) = s[2 * i] /\ val(i) = s[2 * i + 1]
          BY <4>1 DEF Reads
        <4> QED
          BY <4>2, SmallMapBytes
      <3>2. \A i \in 1 .. l : pairs[i][1] \in SmallInts /\ pairs[i][2] \in SmallInts
        BY SmallMapBytes
      <3>3. \A i \in 1 .. l : IsSmall(key(i)) /\ IsSmall(val(i))
        BY <3>1, <3>2, SmallRead
      <3>4. read = Ints(pairs)
        <4>1. \A i \in 1 .. l : Small(key(i)) = Int_(pairs[i][1]) /\ Small(val(i)) = Int_(pairs[i][2])
          BY <3>1, <3>2, SmallRead
        <4> HIDE DEF l, key, val
        <4> QED
          BY <1>1, <4>1 DEF Ints
      <3>5. ReadItem(b, o) = Some(<<Map(read), 1 + 2 * l>>)
        BY <2>1, <2>2, <2>3, <2>5, <3>3 DEF ReadItem
      <3> QED
        BY <2>5, <3>4, <3>5
    <2> QED
      BY <2>4, <2>5
  <1> QED
    BY <1>1, <1>2, <1>3

\* A key of small numbers, as an item, is the key as it is sent.
LEMMA KeyItem ==
  ASSUME NEW k, IsKey(k), \A i \in DOMAIN k : k[i][1] \in Numbered
  PROVE  Map(Ints(NumberPairs(k))) = WireKey(k)
  <1> DEFINE ps == NumberPairs(k)
  <1>1. /\ DOMAIN ps = DOMAIN k
        /\ \A i \in DOMAIN k : ps[i][1] = Parameter[k[i][1]] /\ ps[i][2] = k[i][2].name
    BY DEF NumberPairs
  <1> HIDE DEF ps
  <1>2. Ints(ps) = [i \in DOMAIN k |-> <<Int_(Parameter[k[i][1]]), Int_(k[i][2].name)>>]
    BY <1>1 DEF Ints
  <1>3. WireKey(k).entries = [i \in DOMAIN k |-> <<Int_(Parameter[k[i][1]]), Int_(k[i][2].name)>>]
    BY DEF WireKey, Map
  <1>4. WireKey(k) = Map(WireKey(k).entries)
    BY DEF WireKey, Map
  <1> QED
    BY <1>2, <1>3, <1>4 DEF ps

-----------------------------------------------------------------------------
(* Attested credential data.                                               *)

KeyOf(k) == [f \in KeyField |-> Lookup(k, f)]

CredentialBytes(c) == c.aaguid \o BytesOf(Len(c.id), 2) \o c.id \o SmallMap(NumberPairs(c.key))

LEMMA CredentialFacts ==
  ASSUME NEW c, IsCredential(c)
  PROVE  /\ c.aaguid \in Seq(Byte) /\ Len(c.aaguid) = AaguidLen
         /\ c.id \in Seq(Byte) /\ FitsBytes(Len(c.id), 2)
         /\ IsKey(c.key) /\ IsSmallMap(NumberPairs(c.key)) /\ Lookup(c.key, "kty") # Rsa
         /\ \A i \in DOMAIN c.key : c.key[i][1] \in Numbered
  BY DEF IsCredential

LEMMA Lengths == RpLen \in Nat \ {0} /\ CountLen \in Nat \ {0} /\ AaguidLen \in Nat \ {0} /\ FixedLen \in Nat
  BY WebAuthnAssumption DEF FixedLen

LEMMA ConcatBytes ==
  ASSUME NEW s \in Seq(Byte), NEW t \in Seq(Byte)
  PROVE  s \o t \in Seq(Byte) /\ Len(s \o t) = Len(s) + Len(t)
  BY ConcatProperties

LEMMA CredentialLayout ==
  ASSUME NEW c, IsCredential(c)
  PROVE  /\ CredentialBytes(c) \in Seq(Byte)
         /\ Len(CredentialBytes(c)) = AaguidLen + 2 + Len(c.id) + (1 + 2 * Len(NumberPairs(c.key)))
         /\ \A b \in Seq(Byte), o \in Nat : Reads(b, o, CredentialBytes(c)) =>
              /\ Reads(b, o, c.aaguid)
              /\ Reads(b, o + AaguidLen, BytesOf(Len(c.id), 2))
              /\ Reads(b, o + AaguidLen + 2, c.id)
              /\ Reads(b, o + AaguidLen + 2 + Len(c.id), SmallMap(NumberPairs(c.key)))
  <1> DEFINE p1 == c.aaguid
             p2 == BytesOf(Len(c.id), 2)
             p3 == c.id
             p4 == SmallMap(NumberPairs(c.key))
             size == Len(c.id)
             pairs == Len(NumberPairs(c.key))
  <1>1. p1 \in Seq(Byte) /\ Len(p1) = AaguidLen /\ p3 \in Seq(Byte) /\ size \in Nat
    BY CredentialFacts, LenProperties
  <1>2. p2 \in Seq(Byte) /\ Len(p2) = 2
    <2>1. FitsBytes(size, 2) /\ 2 \in Nat
      BY CredentialFacts
    <2> QED
      BY <2>1, NumberRead
  <1>3. p4 \in Seq(Byte) /\ Len(p4) = 1 + 2 * pairs /\ pairs \in Nat
    BY CredentialFacts, SmallMapBytes
  <1>4. CredentialBytes(c) = ((p1 \o p2) \o p3) \o p4
    BY DEF CredentialBytes
  <1>5. Len(p3) = size
    OBVIOUS
  <1> HIDE DEF p1, p2, p3, p4, size, pairs
  <1>6. p1 \o p2 \in Seq(Byte) /\ Len(p1 \o p2) = AaguidLen + 2
    <2>1. p1 \o p2 \in Seq(Byte) /\ Len(p1 \o p2) = Len(p1) + Len(p2)
      BY <1>1, <1>2, ConcatBytes
    <2> QED
      BY <1>1, <1>2, <2>1
  <1>7. (p1 \o p2) \o p3 \in Seq(Byte) /\ Len((p1 \o p2) \o p3) = AaguidLen + 2 + size
    <2> DEFINE q == p1 \o p2
    <2> HIDE DEF q
    <2>1. q \o p3 \in Seq(Byte) /\ Len(q \o p3) = Len(q) + Len(p3)
      BY <1>1, <1>6, ConcatBytes DEF q
    <2> QED
      BY <1>5, <1>6, <2>1 DEF q
  <1>8. /\ ((p1 \o p2) \o p3) \o p4 \in Seq(Byte)
        /\ Len(((p1 \o p2) \o p3) \o p4) = AaguidLen + 2 + size + (1 + 2 * pairs)
    <2> DEFINE q == (p1 \o p2) \o p3
    <2> HIDE DEF q
    <2>1. q \o p4 \in Seq(Byte) /\ Len(q \o p4) = Len(q) + Len(p4)
      BY <1>3, <1>7, ConcatBytes DEF q
    <2> QED
      BY <1>3, <1>7, <2>1 DEF q
  <1>9. ASSUME NEW b \in Seq(Byte), NEW o \in Nat, Reads(b, o, ((p1 \o p2) \o p3) \o p4)
        PROVE  /\ Reads(b, o, p1)
               /\ Reads(b, o + AaguidLen, p2)
               /\ Reads(b, o + AaguidLen + 2, p3)
               /\ Reads(b, o + AaguidLen + 2 + size, p4)
    <2>1. Reads(b, o, (p1 \o p2) \o p3) /\ Reads(b, o + (AaguidLen + 2 + size), p4)
      BY <1>3, <1>7, <1>9, ReadsParts
    <2>2. Reads(b, o, p1 \o p2) /\ Reads(b, o + (AaguidLen + 2), p3)
      BY <1>1, <1>6, <2>1, ReadsParts
    <2>3. Reads(b, o, p1) /\ Reads(b, o + AaguidLen, p2)
      BY <1>1, <1>2, <2>2, ReadsParts
    <2>4. o + (AaguidLen + 2 + size) = o + AaguidLen + 2 + size /\ o + (AaguidLen + 2) = o + AaguidLen + 2
      BY <1>1, Lengths
    <2> QED
      BY <2>1, <2>2, <2>3, <2>4
  <1> QED
    BY <1>4, <1>8, <1>9 DEF p1, p2, p3, p4, size, pairs

\* The credential is read back, and the cursor stands behind its key.
LEMMA CredentialRead ==
  ASSUME NEW c, IsCredential(c), NEW b \in Seq(Byte), Reads(b, FixedLen, CredentialBytes(c))
  PROVE  Attested(b) = IF FixedLen + Len(CredentialBytes(c)) <= Len(b)
                       THEN Some([aaguid |-> Some(c.aaguid), cred_id |-> Some(c.id), key |-> Some(KeyOf(c.key)),
                                  cursor |-> FixedLen + Len(CredentialBytes(c))])
                       ELSE None
  <1> DEFINE pairs == NumberPairs(c.key)
             size == Len(c.id)
             id == FixedLen + AaguidLen + 2
             len == BigEndian(Slice(b, FixedLen + AaguidLen, 2))
             item == ReadItem(b, id + len)
             key == DecodeKey(Get(item)[1])
             end == id + size + (1 + 2 * Len(pairs))
  <1>1. /\ Reads(b, FixedLen, c.aaguid)
        /\ Reads(b, FixedLen + AaguidLen, BytesOf(Len(c.id), 2))
        /\ Reads(b, FixedLen + AaguidLen + 2, c.id)
        /\ Reads(b, FixedLen + AaguidLen + 2 + Len(c.id), SmallMap(NumberPairs(c.key)))
    BY Lengths, CredentialLayout
  <1>2. Len(b) \in Nat /\ size \in Nat /\ Len(pairs) \in Nat
    BY CredentialFacts, SmallMapBytes, LenProperties
  <1>3. FixedLen + Len(CredentialBytes(c)) = end
    <2>1. Len(CredentialBytes(c)) = AaguidLen + 2 + size + (1 + 2 * Len(pairs))
      BY CredentialLayout
    <2> HIDE DEF size, pairs
    <2> QED
      BY <1>2, <2>1, Lengths
  <1>4. Attested(b) =
          IF id <= Len(b) /\ id + len <= Len(b) /\ IsSome(item) /\ IsSome(key)
          THEN Some([aaguid |-> Some(Slice(b, FixedLen, AaguidLen)), cred_id |-> Some(Slice(b, id, len)),
                     key |-> key, cursor |-> (id + len) + Get(item)[2]])
          ELSE None
    BY DEF Attested, KeyEnd
  <1>5. CASE ~(id <= Len(b))
    <2>1. ~(end <= Len(b))
      <3> HIDE DEF size, pairs
      <3> QED
        BY <1>2, <1>5, Lengths
    <2> QED
      BY <1>3, <1>4, <1>5, <2>1
  <1>6. CASE id <= Len(b)
    <2>1. len = size
      <3>1. FitsBytes(size, 2) /\ 2 \in Nat
        BY CredentialFacts
      <3>2. /\ BytesOf(size, 2) \in Seq(Byte) /\ Len(BytesOf(size, 2)) = 2
            /\ BigEndian(BytesOf(size, 2)) = size
        BY <3>1, NumberRead
      <3>3. FixedLen + AaguidLen \in Nat /\ FixedLen + AaguidLen + 2 <= Len(b)
        BY <1>6, Lengths
      <3>4. Slice(b, FixedLen + AaguidLen, Len(BytesOf(size, 2))) = BytesOf(size, 2)
        BY <1>1, <3>2, <3>3, SliceReads
      <3> QED
        BY <3>2, <3>4
    <2>2. item = IF end <= Len(b) THEN Some(<<Map(Ints(pairs)), 1 + 2 * Len(pairs)>>) ELSE None
      <3>1. id + size \in Nat
        <4> HIDE DEF size
        <4> QED
          BY <1>2, Lengths
      <3>2. ReadItem(b, id + size) = IF id + size + 1 + 2 * Len(pairs) <= Len(b)
                                     THEN Some(<<Map(Ints(pairs)), 1 + 2 * Len(pairs)>>) ELSE None
        BY <1>1, <3>1, CredentialFacts, MapRead
      <3>3. id + size + 1 + 2 * Len(pairs) = end
        <4> HIDE DEF size, pairs
        <4> QED
          BY <1>2, Lengths
      <3> QED
        BY <2>1, <3>2, <3>3
    <2>3. CASE ~(end <= Len(b))
      BY <1>3, <1>4, <2>2, <2>3 DEF IsSome
    <2>4. CASE end <= Len(b)
      <3>1. item = <<<<Map(Ints(pairs)), 1 + 2 * Len(pairs)>>>>
        BY <2>2, <2>4 DEF Some
      <3>2. IsSome(item) /\ Get(item)[1] = Map(Ints(pairs)) /\ Get(item)[2] = 1 + 2 * Len(pairs)
        <4> HIDE DEF item
        <4> QED
          BY <3>1 DEF IsSome, None, Get
      <3>3. key = Some(KeyOf(c.key))
        <4>1. Map(Ints(pairs)) = WireKey(c.key)
          BY CredentialFacts, KeyItem
        <4>2. KtyBeforeE(c.key)
          BY CredentialFacts DEF KtyBeforeE
        <4>3. DecodeKey(WireKey(c.key)) = Some([f \in KeyField |-> Lookup(c.key, f)])
          BY <4>2, CredentialFacts, KeyDecoded
        <4> QED
          BY <3>2, <4>1, <4>3 DEF KeyOf
      <3>4. Slice(b, FixedLen, AaguidLen) = c.aaguid
        <4>1. FixedLen + Len(c.aaguid) <= Len(b)
          BY <1>2, <1>6, CredentialFacts, Lengths
        <4>2. Slice(b, FixedLen, Len(c.aaguid)) = c.aaguid
          BY <1>1, <4>1, CredentialFacts, Lengths, SliceReads
        <4> QED
          BY <4>2, CredentialFacts
      <3>5. Slice(b, id, len) = c.id
        <4>1. id \in Nat /\ id + size <= Len(b)
          <5> HIDE DEF size, pairs
          <5> QED
            BY <1>2, <2>4, Lengths
        <4>2. Slice(b, id, size) = c.id
          BY <1>1, <4>1, CredentialFacts, SliceReads
        <4> QED
          BY <2>1, <4>2
      <3>6. id + len <= Len(b) /\ (id + len) + (1 + 2 * Len(pairs)) = end
        <4> HIDE DEF size, pairs, len
        <4> QED
          BY <1>2, <2>1, <2>4, Lengths
      <3>7. IsSome(key)
        <4> HIDE DEF key
        <4> QED
          BY <3>3 DEF IsSome, Some, None
      <3> HIDE DEF item, key, len, id, end, pairs, size
      <3> QED
        BY <1>3, <1>4, <1>6, <2>4, <3>2, <3>3, <3>4, <3>5, <3>6, <3>7
    <2> QED
      BY <2>3, <2>4
  <1> QED
    BY <1>5, <1>6

-----------------------------------------------------------------------------
(* authenticatorData.                                                      *)

FlagByte(a) ==
  a.flags + (IF IsSome(a.credential) THEN 64 ELSE 0) + (IF IsSome(a.ext) THEN 128 ELSE 0)
Attachment(a) == IF IsSome(a.credential) THEN CredentialBytes(Get(a.credential)) ELSE <<>>
Trailer(a) == IF IsSome(a.ext) THEN SmallMap(Get(a.ext)) ELSE <<>>

\* Where the extensions start.
Behind(a) == FixedLen + Len(Attachment(a))

LEMMA FlagsRead ==
  ASSUME NEW a, IsAuthenticator(a)
  PROVE  /\ FlagByte(a) \in Byte
         /\ (FlagByte(a) \div 1) % 2 = 1 <=> a.flags % 2 = 1
         /\ (FlagByte(a) \div 4) % 2 = 1 <=> (a.flags \div 4) % 2 = 1
         /\ (FlagByte(a) \div 8) % 2 = 1 <=> (a.flags \div 8) % 2 = 1
         /\ (FlagByte(a) \div 16) % 2 = 1 <=> (a.flags \div 16) % 2 = 1
         /\ (FlagByte(a) \div 64) % 2 = 1 <=> IsSome(a.credential)
         /\ (FlagByte(a) \div 128) % 2 = 1 <=> IsSome(a.ext)
  <1> DEFINE f == a.flags
  <1>1. f \in 0 .. 63
    BY DEF IsAuthenticator
  <1>2. FlagByte(a) = f + (IF IsSome(a.credential) THEN 64 ELSE 0) + (IF IsSome(a.ext) THEN 128 ELSE 0)
    BY DEF FlagByte
  <1>3. CASE ~IsSome(a.credential) /\ ~IsSome(a.ext)
    <2>1. FlagByte(a) = f
      BY <1>1, <1>2, <1>3
    <2> HIDE DEF f
    <2> QED
      BY <1>1, <1>3, <2>1 DEF Byte, f
  <1>4. CASE IsSome(a.credential) /\ ~IsSome(a.ext)
    <2>1. FlagByte(a) = f + 64
      BY <1>1, <1>2, <1>4
    <2> QED
      BY <1>1, <1>4, <2>1 DEF Byte
  <1>5. CASE ~IsSome(a.credential) /\ IsSome(a.ext)
    <2>1. FlagByte(a) = f + 128
      BY <1>1, <1>2, <1>5
    <2> QED
      BY <1>1, <1>5, <2>1 DEF Byte
  <1>6. CASE IsSome(a.credential) /\ IsSome(a.ext)
    <2>1. FlagByte(a) = f + 192
      BY <1>1, <1>2, <1>6
    <2> QED
      BY <1>1, <1>6, <2>1 DEF Byte
  <1> QED
    BY <1>3, <1>4, <1>5, <1>6

LEMMA AuthenticatorFacts ==
  ASSUME NEW a, IsAuthenticator(a)
  PROVE  /\ a.rp \in Seq(Byte) /\ Len(a.rp) = RpLen
         /\ FitsBytes(a.count, CountLen)
         /\ IsSome(a.credential) => IsCredential(Get(a.credential))
         /\ IsSome(a.ext) => IsSmallMap(Get(a.ext))
         /\ Attachment(a) \in Seq(Byte) /\ Len(Attachment(a)) \in Nat
         /\ ~IsSome(a.credential) => Len(Attachment(a)) = 0
         /\ Trailer(a) \in Seq(Byte) /\ Len(Trailer(a)) \in Nat
         /\ ~IsSome(a.ext) => Len(Trailer(a)) = 0
  <1>1. /\ a.rp \in Seq(Byte) /\ Len(a.rp) = RpLen
        /\ FitsBytes(a.count, CountLen)
        /\ IsSome(a.credential) => IsCredential(Get(a.credential))
        /\ IsSome(a.ext) => IsSmallMap(Get(a.ext))
    BY DEF IsAuthenticator
  <1>2. <<>> \in Seq(Byte) /\ Len(<<>>) = 0
    BY EmptySeq
  <1>3. Attachment(a) \in Seq(Byte) /\ (~IsSome(a.credential) => Len(Attachment(a)) = 0)
    BY <1>1, <1>2, CredentialLayout DEF Attachment
  <1>4. Trailer(a) \in Seq(Byte) /\ (~IsSome(a.ext) => Len(Trailer(a)) = 0)
    BY <1>1, <1>2, SmallMapBytes DEF Trailer
  <1>5. Len(Attachment(a)) \in Nat /\ Len(Trailer(a)) \in Nat
    BY <1>3, <1>4, LenProperties
  <1> QED
    BY <1>1, <1>3, <1>4, <1>5

LEMMA AuthenticatorLayout ==
  ASSUME NEW a, IsAuthenticator(a)
  PROVE  /\ AuthBytes(a) \in Seq(Byte)
         /\ Len(AuthBytes(a)) = Behind(a) + Len(Trailer(a))
         /\ \A b \in Seq(Byte) : Reads(b, 0, AuthBytes(a)) =>
              /\ Reads(b, 0, a.rp)
              /\ RpLen + 1 <= Len(b) => b[RpLen + 1] = FlagByte(a)
              /\ Reads(b, RpLen + 1, BytesOf(a.count, CountLen))
              /\ Reads(b, FixedLen, Attachment(a))
              /\ Reads(b, Behind(a), Trailer(a))
  <1> DEFINE p1 == a.rp
             p2 == <<FlagByte(a)>>
             p3 == BytesOf(a.count, CountLen)
             p4 == Attachment(a)
             p5 == Trailer(a)
             l4 == Len(p4)
             l5 == Len(p5)
  <1>1. p1 \in Seq(Byte) /\ Len(p1) = RpLen
    BY AuthenticatorFacts
  <1>2. p2 \in Seq(Byte) /\ Len(p2) = 1 /\ p2[1] = FlagByte(a)
    BY FlagsRead
  <1>3. p3 \in Seq(Byte) /\ Len(p3) = CountLen
    BY AuthenticatorFacts, Lengths, NumberRead
  <1>4. p4 \in Seq(Byte) /\ l4 \in Nat /\ p5 \in Seq(Byte) /\ l5 \in Nat
    BY AuthenticatorFacts
  <1>5. AuthBytes(a) = (((p1 \o p2) \o p3) \o p4) \o p5
    BY DEF AuthBytes, FlagByte, Attachment, Trailer, CredentialBytes
  <1>6. Behind(a) = FixedLen + l4 /\ Len(p4) = l4 /\ Len(p5) = l5
    BY DEF Behind
  <1> HIDE DEF p1, p2, p3, p4, p5, l4, l5
  <1> DEFINE q2 == p1 \o p2
             q3 == q2 \o p3
             q4 == q3 \o p4
             q5 == q4 \o p5
  <1>7. q2 \in Seq(Byte) /\ Len(q2) = RpLen + 1
    <2>1. q2 \in Seq(Byte) /\ Len(q2) = Len(p1) + Len(p2)
      BY <1>1, <1>2, ConcatBytes
    <2> HIDE DEF q2
    <2> QED
      BY <1>1, <1>2, <2>1
  <1>8. q3 \in Seq(Byte) /\ Len(q3) = FixedLen
    <2> HIDE DEF q2
    <2>1. q3 \in Seq(Byte) /\ Len(q3) = Len(q2) + Len(p3)
      BY <1>3, <1>7, ConcatBytes
    <2> HIDE DEF q3
    <2> QED
      BY <1>3, <1>7, <2>1 DEF FixedLen
  <1>9. q4 \in Seq(Byte) /\ Len(q4) = Behind(a)
    <2> HIDE DEF q3
    <2>1. q4 \in Seq(Byte) /\ Len(q4) = Len(q3) + Len(p4)
      BY <1>4, <1>8, ConcatBytes
    <2> HIDE DEF q4
    <2> QED
      BY <1>6, <1>8, <2>1
  <1>10. q5 \in Seq(Byte) /\ Len(q5) = Behind(a) + l5
    <2> HIDE DEF q4
    <2>1. q5 \in Seq(Byte) /\ Len(q5) = Len(q4) + Len(p5)
      BY <1>4, <1>9, ConcatBytes
    <2> HIDE DEF q5
    <2> QED
      BY <1>6, <1>9, <2>1
  <1> HIDE DEF q2, q3, q4, q5
  <1>11. ASSUME NEW b \in Seq(Byte), Reads(b, 0, q5)
         PROVE  /\ Reads(b, 0, p1)
                /\ RpLen + 1 <= Len(b) => b[RpLen + 1] = FlagByte(a)
                /\ Reads(b, RpLen + 1, p3)
                /\ Reads(b, FixedLen, p4)
                /\ Reads(b, Behind(a), p5)
    <2>1. Reads(b, 0, q4) /\ Reads(b, 0 + Len(q4), p5)
      BY <1>4, <1>9, <1>11, ReadsParts DEF q5
    <2>2. Reads(b, 0, q3) /\ Reads(b, 0 + Len(q3), p4)
      BY <1>4, <1>8, <2>1, ReadsParts DEF q4
    <2>3. Reads(b, 0, q2) /\ Reads(b, 0 + Len(q2), p3)
      BY <1>3, <1>7, <2>2, ReadsParts DEF q3
    <2>4. Reads(b, 0, p1) /\ Reads(b, 0 + Len(p1), p2)
      BY <1>1, <1>2, <2>3, ReadsParts DEF q2
    <2>5. RpLen + 1 <= Len(b) => b[RpLen + 1] = FlagByte(a)
      <3>1. Reads(b, RpLen, p2)
        BY <1>1, <2>4, Lengths
      <3>2. 1 \in 1 .. Len(p2)
        BY <1>2
      <3> QED
        BY <1>2, <3>1, <3>2 DEF Reads
    <2>6. 0 + Len(q2) = RpLen + 1 /\ 0 + Len(q3) = FixedLen /\ 0 + Len(q4) = Behind(a)
      BY <1>4, <1>6, <1>7, <1>8, <1>9, Lengths
    <2> QED
      BY <2>1, <2>2, <2>3, <2>4, <2>5, <2>6
  <1>12. AuthBytes(a) = q5
    BY <1>5 DEF q2, q3, q4, q5
  <1> QED
    BY <1>10, <1>11, <1>12 DEF p1, p3, p4, p5, l5

\* What is read of the first n bytes: nothing before the end of the credential,
\* no extensions before the end of all bytes.
LEMMA AuthenticatorRead ==
  ASSUME NEW a, IsAuthenticator(a), NEW n \in 0 .. Len(AuthBytes(a))
  PROVE  AuthData(SubSeq(AuthBytes(a), 1, n)) =
           IF n < Behind(a) THEN None
           ELSE IF n = Len(AuthBytes(a)) THEN Some(Meant(a))
           ELSE Some([Meant(a) EXCEPT !.extensions = None])
  <1> DEFINE b == SubSeq(AuthBytes(a), 1, n)
             c == Get(a.credential)
             att == IF IsSome(a.credential) THEN Attested(b) ELSE Some(Unattested)
             ext == IF IsSome(a.ext) THEN Extensions(b, Get(att).cursor) ELSE None
             of(x) == IF IsSome(a.credential) THEN Some(x) ELSE None
             read(x) == [rp_id_hash |-> a.rp,
                         up |-> a.flags % 2 = 1, uv |-> (a.flags \div 4) % 2 = 1,
                         be |-> (a.flags \div 8) % 2 = 1, bs |-> (a.flags \div 16) % 2 = 1,
                         at |-> IsSome(a.credential), ed |-> IsSome(a.ext),
                         sign_count |-> a.count,
                         aaguid |-> of(c.aaguid), cred_id |-> of(c.id), key |-> of(KeyOf(c.key)),
                         extensions |-> x]
  <1>1. b \in Seq(Byte) /\ Len(b) = n /\ Reads(b, 0, AuthBytes(a)) /\ n \in Nat
    <2>1. AuthBytes(a) \in Seq(Byte)
      BY AuthenticatorLayout
    <2>2. Len(AuthBytes(a)) \in Nat
      BY <2>1, LenProperties
    <2> QED
      BY <2>1, <2>2, ReadsWhole
  <1>2. Behind(a) \in Nat /\ FixedLen <= Behind(a)
    BY AuthenticatorFacts, Lengths DEF Behind
  <1> HIDE DEF b
  <1>3. CASE n < FixedLen
    <2>1. Len(b) < FixedLen /\ n < Behind(a)
      BY <1>1, <1>2, <1>3, Lengths
    <2>2. AuthData(b) = None
      BY <2>1 DEF AuthData
    <2> QED
      BY <2>1, <2>2 DEF b
  <1>4. CASE ~(n < FixedLen)
    <2>1. /\ Reads(b, 0, a.rp)
          /\ b[RpLen + 1] = FlagByte(a)
          /\ Reads(b, RpLen + 1, BytesOf(a.count, CountLen))
          /\ Reads(b, FixedLen, Attachment(a))
          /\ Reads(b, Behind(a), Trailer(a))
      <3>1. RpLen + 1 <= Len(b)
        BY <1>1, <1>4, Lengths DEF FixedLen
      <3> QED
        BY <1>1, <3>1, AuthenticatorLayout
    <2>2. /\ Flag(b, 1) = (a.flags % 2 = 1)
          /\ Flag(b, 4) = ((a.flags \div 4) % 2 = 1)
          /\ Flag(b, 8) = ((a.flags \div 8) % 2 = 1)
          /\ Flag(b, 16) = ((a.flags \div 16) % 2 = 1)
          /\ Flag(b, 64) = IsSome(a.credential)
          /\ Flag(b, 128) = IsSome(a.ext)
      <3>1. \A bit : Flag(b, bit) = ((FlagByte(a) \div bit) % 2 = 1)
        BY <2>1 DEF Flag
      <3>2. IsSome(a.credential) \in BOOLEAN /\ IsSome(a.ext) \in BOOLEAN
        BY DEF IsSome
      <3> QED
        BY <3>1, <3>2, FlagsRead
    <2>3. Slice(b, 0, RpLen) = a.rp
      <3>1. 0 + Len(a.rp) <= Len(b)
        BY <1>1, <1>4, AuthenticatorFacts, Lengths DEF FixedLen
      <3>2. Slice(b, 0, Len(a.rp)) = a.rp
        BY <1>1, <2>1, <3>1, AuthenticatorFacts, SliceReads
      <3> QED
        BY <3>2, AuthenticatorFacts
    <2>4. BigEndian(Slice(b, RpLen + 1, CountLen)) = a.count
      <3> DEFINE s == BytesOf(a.count, CountLen)
      <3>1. s \in Seq(Byte) /\ Len(s) = CountLen /\ BigEndian(s) = a.count
        BY AuthenticatorFacts, Lengths, NumberRead
      <3>2. Reads(b, RpLen + 1, s)
        BY <2>1
      <3> HIDE DEF s
      <3>3. RpLen + 1 \in Nat /\ RpLen + 1 + Len(s) <= Len(b)
        BY <1>1, <1>4, <3>1, Lengths DEF FixedLen
      <3>4. Slice(b, RpLen + 1, Len(s)) = s
        BY <1>1, <3>1, <3>2, <3>3, SliceReads
      <3> QED
        BY <3>1, <3>4
    <2>5. AuthData(b) =
            IF ~IsSome(att) THEN None
            ELSE Some([rp_id_hash |-> a.rp,
                       up |-> a.flags % 2 = 1, uv |-> (a.flags \div 4) % 2 = 1,
                       be |-> (a.flags \div 8) % 2 = 1, bs |-> (a.flags \div 16) % 2 = 1,
                       at |-> IsSome(a.credential), ed |-> IsSome(a.ext),
                       sign_count |-> a.count,
                       aaguid |-> Get(att).aaguid, cred_id |-> Get(att).cred_id, key |-> Get(att).key,
                       extensions |-> ext])
      <3>1. ~(Len(b) < FixedLen)
        BY <1>1, <1>4
      <3> QED
        BY <2>2, <2>3, <2>4, <3>1 DEF AuthData
    <2>6. att = IF n < Behind(a) THEN None
                ELSE Some([aaguid |-> of(c.aaguid), cred_id |-> of(c.id), key |-> of(KeyOf(c.key)),
                           cursor |-> Behind(a)])
      <3>1. CASE IsSome(a.credential)
        <4>1. IsCredential(c) /\ Attachment(a) = CredentialBytes(c)
          BY <3>1, AuthenticatorFacts DEF Attachment
        <4>2. Reads(b, FixedLen, CredentialBytes(c)) /\ Behind(a) = FixedLen + Len(CredentialBytes(c))
          BY <2>1, <4>1 DEF Behind
        <4> HIDE DEF c
        <4>3. Attested(b) = IF Behind(a) <= n
                            THEN Some([aaguid |-> Some(c.aaguid), cred_id |-> Some(c.id), key |-> Some(KeyOf(c.key)),
                                       cursor |-> Behind(a)])
                            ELSE None
          BY <1>1, <4>1, <4>2, CredentialRead
        <4>4. Behind(a) <= n <=> ~(n < Behind(a))
          BY <1>1, <1>2
        <4> QED
          BY <3>1, <4>3, <4>4
      <3>2. CASE ~IsSome(a.credential)
        <4>1. Behind(a) = FixedLen
          BY <3>2, AuthenticatorFacts, Lengths DEF Behind
        <4> QED
          BY <1>4, <3>2, <4>1 DEF Unattested
      <3> QED
        BY <3>1, <3>2
    <2> HIDE DEF att
    <2>7. CASE n < Behind(a)
      <3>1. ~IsSome(att)
        BY <2>6, <2>7 DEF IsSome
      <3> QED
        BY <2>5, <2>7, <3>1 DEF b
    <2>8. CASE ~(n < Behind(a))
      <3>1. att = <<[aaguid |-> of(c.aaguid), cred_id |-> of(c.id), key |-> of(KeyOf(c.key)),
                     cursor |-> Behind(a)]>>
        BY <2>6, <2>8 DEF Some
      <3>2. /\ IsSome(att)
            /\ Get(att).aaguid = of(c.aaguid) /\ Get(att).cred_id = of(c.id)
            /\ Get(att).key = of(KeyOf(c.key)) /\ Get(att).cursor = Behind(a)
        <4> HIDE DEF of
        <4> QED
          BY <3>1 DEF IsSome, None, Get
      <3>3. AuthData(b) = Some(read(ext))
        <4> HIDE DEF of, ext
        <4> QED
          BY <2>5, <3>2
      <3>4. ext = IF IsSome(a.ext) /\ n = Len(AuthBytes(a)) THEN Some(Json(Map(Ints(Get(a.ext))))) ELSE None
        <4>1. CASE ~IsSome(a.ext)
          BY <4>1
        <4>2. CASE IsSome(a.ext)
          <5> DEFINE e == Get(a.ext)
          <5>1. IsSmallMap(e) /\ Trailer(a) = SmallMap(e)
            BY <4>2, AuthenticatorFacts DEF Trailer
          <5>2. Len(AuthBytes(a)) = Behind(a) + (1 + 2 * Len(e)) /\ Len(e) \in Nat
            <6>1. Len(e) \in 0 .. 23 /\ Len(SmallMap(e)) = 1 + 2 * Len(e)
              BY <5>1, SmallMapBytes
            <6>2. Len(AuthBytes(a)) = Behind(a) + Len(SmallMap(e))
              BY <5>1, AuthenticatorLayout
            <6> HIDE DEF e
            <6> QED
              BY <6>1, <6>2
          <5>3. Reads(b, Behind(a), SmallMap(e))
            BY <2>1, <5>1
          <5>4. ext = Extensions(b, Behind(a))
            BY <3>2, <4>2
          <5> HIDE DEF e, ext
          <5>5. ReadItem(b, Behind(a)) = IF Behind(a) + 1 + 2 * Len(e) <= n
                                         THEN Some(<<Map(Ints(e)), 1 + 2 * Len(e)>>) ELSE None
            BY <1>1, <1>2, <5>1, <5>3, MapRead
          <5>6. Behind(a) + 1 + 2 * Len(e) <= n <=> n = Len(AuthBytes(a))
            BY <1>1, <1>2, <5>2
          <5>7. CASE n = Len(AuthBytes(a))
            <6>1. ReadItem(b, Behind(a)) = <<<<Map(Ints(e)), 1 + 2 * Len(e)>>>>
              BY <5>5, <5>6, <5>7 DEF Some
            <6>2. Behind(a) < Len(b)
              BY <1>1, <1>2, <5>2, <5>7
            <6>3. IsSome(ReadItem(b, Behind(a))) /\ Get(ReadItem(b, Behind(a)))[1] = Map(Ints(e))
              BY <6>1 DEF IsSome, None, Get
            <6> QED
              BY <4>2, <5>4, <5>7, <6>2, <6>3 DEF Extensions, e
          <5>8. CASE n # Len(AuthBytes(a))
            <6>1. ~IsSome(ReadItem(b, Behind(a)))
              BY <5>5, <5>6, <5>8 DEF IsSome
            <6> QED
              BY <5>4, <5>8, <6>1 DEF Extensions
          <5> QED
            BY <5>7, <5>8
        <4> QED
          BY <4>1, <4>2
      <3> HIDE DEF ext
      <3>5. Meant(a) = read(IF IsSome(a.ext) THEN Some(Json(Map(Ints(Get(a.ext))))) ELSE None)
        BY DEF Meant, KeyOf, Ints
      <3>6. [Meant(a) EXCEPT !.extensions = None] = read(None)
        BY <3>5
      <3> HIDE DEF read
      <3>7. CASE n = Len(AuthBytes(a))
        <4>1. Meant(a) = read(ext)
          BY <3>4, <3>5, <3>7
        <4> QED
          BY <2>8, <3>3, <3>7, <4>1 DEF b
      <3>8. CASE n # Len(AuthBytes(a))
        <4>1. ext = None
          BY <3>4, <3>8
        <4> QED
          BY <2>8, <3>3, <3>6, <3>8, <4>1 DEF b
      <3> QED
        BY <3>7, <3>8
    <2> QED
      BY <2>7, <2>8
  <1> QED
    BY <1>3, <1>4

-----------------------------------------------------------------------------
(* The attestation object.                                                 *)

\* An entry is found in whatever order the entries are.
LEMMA EntryFound ==
  ASSUME NEW es, DOMAIN es = 1 .. 3,
         es[1][1] # es[2][1], es[1][1] # es[3][1], es[2][1] # es[3][1],
         NEW o \in [1 .. 3 -> 1 .. 3], IsInjective(o),
         NEW j \in 1 .. 3, NEW name, es[j][1] = Text(name)
  PROVE  MapGet(Ordered(es, o), name) = Some(es[j][2])
  <1> DEFINE s == Ordered(es, o)
             hits == {i \in DOMAIN s : s[i][1] = Text(name)}
  <1>1. DOMAIN s = 1 .. 3 /\ \A i \in 1 .. 3 : s[i] = es[o[i]]
    BY DEF Ordered
  <1>2. o[1] # o[2] /\ o[1] # o[3] /\ o[2] # o[3]
    BY DEF IsInjective
  <1>3. PICK i \in 1 .. 3 : o[i] = j
    <2>1. o[1] \in 1 .. 3 /\ o[2] \in 1 .. 3 /\ o[3] \in 1 .. 3
      OBVIOUS
    <2>2. o[1] = j \/ o[2] = j \/ o[3] = j
      BY <1>2, <2>1
    <2> QED
      BY <2>2
  <1>4. ASSUME NEW k \in 1 .. 3, k # i
        PROVE  s[k][1] # Text(name)
    <2>1. o[k] \in 1 .. 3 /\ o[k] # j
      BY <1>3, <1>4 DEF IsInjective
    <2>2. es[o[k]][1] # es[j][1]
      <3>1. o[k] \in {1, 2, 3} /\ j \in {1, 2, 3}
        BY <2>1
      <3> QED
        BY <2>1, <3>1
    <2> QED
      BY <1>1, <2>2
  <1>5. s[i][1] = Text(name)
    BY <1>1, <1>3
  <1>6. hits = {i}
    BY <1>1, <1>4, <1>5
  <1>7. Min({i}) = i
    BY DEF Min
  <1>8. MapGet(s, name) = Some(s[i][2])
    <2> HIDE DEF s
    <2> QED
      BY <1>6, <1>7 DEF MapGet
  <1> QED
    BY <1>1, <1>3, <1>8

\* t is the first k elements of s.
Copies(t, k, s) == Len(t) = k /\ \A i \in 1 .. k : t[i] = s[i]

\* Byte strings alone, in order.
LEMMA ByteStringsRead ==
  ASSUME NEW s, IsSequence(s)
  PROVE  ByteStrings([i \in DOMAIN s |-> Bytes(s[i])]) = s
  <1> DEFINE R == Range(s)
             X == Seq(R)
             es == [i \in DOMAIN s |-> Bytes(s[i])]
             n == Len(s)
  <1>1. s \in Seq(R)
    BY DEF IsSequence
  <1>2. n \in Nat /\ DOMAIN s = 1 .. n /\ \A i \in 1 .. n : s[i] \in R
    BY <1>1, LenProperties, ElementOfSeq
  <1>3. DOMAIN es = 1 .. n /\ \A i \in 1 .. n : Is(es[i], "bytes") /\ es[i].bytes = s[i]
    BY <1>2 DEF Is, Bytes
  <1> HIDE DEF R, es, n
  <1>4. <<>> \in X
    OBVIOUS
  <1>5. \A x \in X, i \in 1 .. n :
          WithBytes(x, es[i]) \in X
    <2>1. \A x \in X, i \in 1 .. n : Append(x, s[i]) \in X
      BY <1>2, AppendProperties
    <2> QED
      BY <1>3, <2>1 DEF WithBytes
  <1>6. PICK f \in [0 .. n -> X] : IsBytesPass(f, n, es)
    <2> HIDE DEF X
    <2>1. HasBytesPass(n, X, es)
      BY <1>2, <1>3, <1>4, <1>5, BytesScan
    <2> QED
      BY <2>1 DEF HasBytesPass
  <1> DEFINE T == {k \in Nat : k <= n => Copies(f[k], k, s)}
  <1>7. 0 \in T
    BY <1>6 DEF IsBytesPass, Copies
  <1>8. ASSUME NEW k \in Nat, k \in T
        PROVE  k + 1 \in T
    <2>1. SUFFICES ASSUME k + 1 <= n
                   PROVE  Copies(f[k + 1], k + 1, s)
      OBVIOUS
    <2>2. Copies(f[k], k, s)
      BY <1>2, <1>8, <2>1
    <2>3. k + 1 \in 1 .. n /\ (k + 1) - 1 = k /\ k \in 0 .. n
      BY <1>2, <2>1
    <2>4. f[k + 1] = Append(f[k], s[k + 1])
      BY <1>3, <1>6, <2>3 DEF IsBytesPass, WithBytes
    <2>5. f[k] \in Seq(R) /\ s[k + 1] \in R
      BY <1>2, <1>6, <2>3
    <2> DEFINE g == f[k]
               e == s[k + 1]
    <2> HIDE DEF g, e
    <2>6. /\ Len(Append(g, e)) = Len(g) + 1
          /\ \A i \in 1 .. Len(g) : Append(g, e)[i] = g[i]
          /\ Append(g, e)[Len(g) + 1] = e
      BY <2>5, AppendProperties DEF g, e
    <2>7. Len(g) = k /\ \A i \in 1 .. k : g[i] = s[i]
      BY <2>2 DEF g, Copies
    <2>8. Len(Append(g, e)) = k + 1
      BY <2>6, <2>7
    <2>9. ASSUME NEW i \in 1 .. k + 1
          PROVE  Append(g, e)[i] = s[i]
      <3>1. CASE i \in 1 .. k
        BY <2>6, <2>7, <3>1
      <3>2. CASE i = k + 1
        BY <2>6, <2>7, <3>2 DEF e
      <3>3. i \in 1 .. k \/ i = k + 1
        BY <1>8
      <3> QED
        BY <3>1, <3>2, <3>3
    <2> QED
      BY <2>4, <2>8, <2>9 DEF g, e, Copies
  <1> HIDE DEF T
  <1>9. n \in T
    BY <1>2, <1>7, <1>8, Induction
  <1>10. Copies(f[n], n, s)
    BY <1>9 DEF T
  <1>11. f[n] \in Seq(R)
    BY <1>2, <1>6
  <1>12. f[n] = s
    <2>1. Len(f[n]) = Len(s) /\ \A i \in 1 .. Len(f[n]) : f[n][i] = s[i]
      BY <1>10 DEF n, Copies
    <2> DEFINE t == f[n]
    <2> HIDE DEF t
    <2> QED
      BY <1>1, <1>11, <2>1, SeqEqual DEF t
  <1> QED
    BY <1>6, <1>12 DEF IsBytesPass, es

\* An attestation statement, and the object around it.
LEMMA StatementRead ==
  ASSUME NEW s, IsStatement(s)
  PROVE  /\ Is(WireStatement(s), "map")
         /\ MapGet(WireStatement(s).entries, "alg") = Some(Int_(s.alg))
         /\ MapGet(WireStatement(s).entries, "sig") = Some(Bytes(s.sig))
         /\ MapGet(WireStatement(s).entries, "x5c") = Some(Array([i \in DOMAIN s.x5c |-> Bytes(s.x5c[i])]))
  <1> DEFINE es == WireStatement(s).entries
  <1>1. /\ Is(WireStatement(s), "map")
        /\ DOMAIN es = 1 .. 3
        /\ es[1] = <<Text("alg"), Int_(s.alg)>>
        /\ es[2] = <<Text("sig"), Bytes(s.sig)>>
        /\ es[3] = <<Text("x5c"), Array([i \in DOMAIN s.x5c |-> Bytes(s.x5c[i])])>>
    BY DEF WireStatement, Map, Is
  <1>2. Text("alg") # Text("sig") /\ Text("alg") # Text("x5c") /\ Text("sig") # Text("x5c")
    BY DEF Text
  <1> HIDE DEF es
  <1> DEFINE hits(name) == {i \in DOMAIN es : es[i][1] = Text(name)}
  <1>3. hits("alg") = {1} /\ hits("sig") = {2} /\ hits("x5c") = {3}
    <2>1. DOMAIN es = {1, 2, 3}
      BY <1>1
    <2>2. es[1][1] = Text("alg") /\ es[2][1] = Text("sig") /\ es[3][1] = Text("x5c")
      BY <1>1
    <2> QED
      BY <1>2, <2>1, <2>2
  <1>4. \A i \in 1 .. 3 : Min({i}) = i
    BY DEF Min
  <1>5. /\ MapGet(es, "alg") = Some(es[Min({1})][2])
        /\ MapGet(es, "sig") = Some(es[Min({2})][2])
        /\ MapGet(es, "x5c") = Some(es[Min({3})][2])
    <2>1. {1} # {} /\ {2} # {} /\ {3} # {}
      OBVIOUS
    <2> QED
      BY <1>3, <2>1 DEF MapGet
  <1>6. Min({1}) = 1 /\ Min({2}) = 2 /\ Min({3}) = 3
    BY <1>4
  <1> QED
    BY <1>1, <1>5, <1>6 DEF es

LEMMA AttestationRead ==
  ASSUME NEW a, IsAuthenticator(a), NEW s, IsStatement(s), NEW o \in [1 .. 3 -> 1 .. 3], IsInjective(o)
  PROVE  Attestation(Map(Ordered(AttestationEntries(a, s), o))) =
           Some([fmt |-> "packed", auth |-> Meant(a),
                 alg |-> Some([name |-> s.alg]), sig |-> Some(s.sig),
                 x5c |-> s.x5c, att_stmt |-> Json(WireStatement(s))])
  <1> DEFINE es == AttestationEntries(a, s)
             v == Map(Ordered(es, o))
             w == WireStatement(s)
             bytes == Bytes(Opaque(AuthBytes(a)))
  <1>1. /\ DOMAIN es = 1 .. 3
        /\ es[1] = <<Text("fmt"), Text("packed")>> /\ es[2] = <<Text("attStmt"), w>>
        /\ es[3] = <<Text("authData"), bytes>>
    BY DEF AttestationEntries
  <1>2. Text("fmt") # Text("attStmt") /\ Text("fmt") # Text("authData") /\ Text("attStmt") # Text("authData")
    BY DEF Text
  <1>3. Is(v, "map") /\ v.entries = Ordered(es, o)
    BY DEF Map, Is
  <1> HIDE DEF es, v, w, bytes
  <1>4. /\ MapGet(v.entries, "fmt") = Some(Text("packed"))
        /\ MapGet(v.entries, "attStmt") = Some(w)
        /\ MapGet(v.entries, "authData") = Some(bytes)
    <2>1. es[1][1] = Text("fmt") /\ es[2][1] = Text("attStmt") /\ es[3][1] = Text("authData")
      BY <1>1
    <2>2. es[1][1] # es[2][1] /\ es[1][1] # es[3][1] /\ es[2][1] # es[3][1]
      BY <1>2, <2>1
    <2>3. es[1][2] = Text("packed") /\ es[2][2] = w /\ es[3][2] = bytes
      BY <1>1
    <2>4. 1 \in 1 .. 3 /\ 2 \in 1 .. 3 /\ 3 \in 1 .. 3
      OBVIOUS
    <2>5. MapGet(Ordered(es, o), "fmt") = Some(es[1][2])
      BY <1>1, <2>1, <2>2, <2>4, EntryFound
    <2>6. MapGet(Ordered(es, o), "attStmt") = Some(es[2][2])
      BY <1>1, <2>1, <2>2, <2>4, EntryFound
    <2>7. MapGet(Ordered(es, o), "authData") = Some(es[3][2])
      BY <1>1, <2>1, <2>2, <2>4, EntryFound
    <2> QED
      BY <1>3, <2>3, <2>5, <2>6, <2>7
  <1>5. /\ Is(bytes, "bytes") /\ bytes.bytes.raw = AuthBytes(a)
        /\ Is(Text("packed"), "text") /\ Text("packed").text = "packed"
    BY DEF bytes, Bytes, Opaque, Is, Text
  <1>6. AuthData(AuthBytes(a)) = Some(Meant(a))
    <2> DEFINE l == Len(AuthBytes(a))
    <2>1. AuthBytes(a) \in Seq(Byte) /\ l = Behind(a) + Len(Trailer(a))
      BY AuthenticatorLayout
    <2>2. l \in Nat /\ ~(l < Behind(a))
      <3>1. Behind(a) \in Nat /\ Len(Trailer(a)) \in Nat
        BY AuthenticatorFacts, Lengths DEF Behind
      <3> HIDE DEF l
      <3> QED
        BY <2>1, <3>1
    <2>3. SubSeq(AuthBytes(a), 1, l) = AuthBytes(a)
      <3> DEFINE b == AuthBytes(a)
                 c == SubSeq(b, 1, l)
      <3>1. c \in Seq(Byte) /\ Len(c) = l /\ Reads(c, 0, b)
        BY <2>1, <2>2, ReadsWhole
      <3> HIDE DEF b, c
      <3>2. \A i \in 1 .. Len(c) : c[i] = b[i]
        <4>1. l = Len(b)
          BY DEF b
        <4> HIDE DEF l
        <4>2. \A i \in 1 .. l : 0 + i = i /\ 0 + i <= l
          BY <2>2
        <4> QED
          BY <3>1, <4>1, <4>2 DEF Reads
      <3>3. b \in Seq(Byte) /\ Len(c) = Len(b)
        BY <2>1, <3>1 DEF b
      <3>4. c = b
        BY <3>1, <3>2, <3>3, SeqEqual
      <3> QED
        BY <3>4 DEF b, c
    <2>4. l \in 0 .. Len(AuthBytes(a))
      BY <2>2
    <2> QED
      BY <2>2, <2>3, <2>4, AuthenticatorRead
  <1>7. \A x : Some(x) = <<x>> /\ Get(<<x>>) = x /\ IsSome(<<x>>)
    BY DEF Some, Get, IsSome, None
  <1>8. /\ IsSome(MapGet(w.entries, "alg")) /\ Get(MapGet(w.entries, "alg")) = Int_(s.alg)
        /\ IsSome(MapGet(w.entries, "sig")) /\ Get(MapGet(w.entries, "sig")) = Bytes(s.sig)
        /\ IsSome(MapGet(w.entries, "x5c"))
        /\ Get(MapGet(w.entries, "x5c")) = Array([i \in DOMAIN s.x5c |-> Bytes(s.x5c[i])])
        /\ Is(w, "map")
    BY <1>7, StatementRead DEF w
  <1>9. Named(Int_(s.alg)) = Some([name |-> s.alg])
    <2> DEFINE m == s.alg
    <2>1. -I64 <= m /\ m < I64
      BY ValuesAssumption DEF IsStatement
    <2> HIDE DEF m
    <2>2. IsSome(AsInt(Int_(m)))
      BY <2>1 DEF AsInt, Is, Int_, IsSome, Some, None
    <2>3. Named(Int_(m)) = Some([name |-> m])
      BY <2>2 DEF Named, Int_
    <2> QED
      BY <2>3 DEF m
  <1>10. AsBytes(Bytes(s.sig)) = Some(s.sig)
    BY DEF AsBytes, Bytes, Is
  <1>11. X5c(Array([i \in DOMAIN s.x5c |-> Bytes(s.x5c[i])])) = s.x5c
    <2>1. ByteStrings([i \in DOMAIN s.x5c |-> Bytes(s.x5c[i])]) = s.x5c
      BY ByteStringsRead DEF IsStatement
    <2> QED
      BY <2>1 DEF X5c, Array, Is
  <1>12. /\ IsSome(MapGet(v.entries, "fmt")) /\ Get(MapGet(v.entries, "fmt")) = Text("packed")
         /\ IsSome(MapGet(v.entries, "attStmt")) /\ Get(MapGet(v.entries, "attStmt")) = w
         /\ IsSome(MapGet(v.entries, "authData")) /\ Get(MapGet(v.entries, "authData")) = bytes
    BY <1>4, <1>7
  <1>13. IsSome(AuthData(AuthBytes(a))) /\ Get(AuthData(AuthBytes(a))) = Meant(a)
    BY <1>6, <1>7
  <1>14. Attestation(v) =
           Some([fmt |-> "packed", auth |-> Meant(a),
                 alg |-> Some([name |-> s.alg]), sig |-> Some(s.sig),
                 x5c |-> s.x5c, att_stmt |-> Json(w)])
    BY <1>3, <1>5, <1>8, <1>9, <1>10, <1>11, <1>12, <1>13 DEF Attestation
  <1> QED
    BY <1>14 DEF es, v, w

-----------------------------------------------------------------------------
(* The properties.                                                         *)

\* Every call is of something that can be meant, and is answered by the code.
Asked ==
  \/ call = "cose_key" /\ sent \in Keys
  \/ /\ call = "authdata" /\ sent.auth \in Authenticators
     /\ sent.cut \in 0 .. Len(AuthBytes(sent.auth))
  \/ /\ call = "attestation" /\ sent.auth \in Authenticators /\ sent.stmt \in Statements
     /\ sent.order \in [1 .. 3 -> 1 .. 3] /\ IsInjective(sent.order)

Result ==
  IF call = "cose_key" THEN DecodeKey(WireKey(sent))
  ELSE IF call = "authdata" THEN AuthData(SubSeq(AuthBytes(sent.auth), 1, sent.cut))
  ELSE Attestation(Map(Ordered(AttestationEntries(sent.auth, sent.stmt), sent.order)))

SecurityInv == Asked /\ answer \in {None, Some(Result)}

LEMMA SecurityInitially == SecurityInit => SecurityInv
  <1>1. ASSUME call = "authdata", NEW a \in Authenticators, NEW n \in 0 .. Len(AuthBytes(a)),
               sent = [auth |-> a, cut |-> n]
        PROVE  Asked
    BY <1>1 DEF Asked
  <1>2. ASSUME call = "attestation", NEW a \in Authenticators, NEW s \in Statements,
               NEW o \in {p \in [1 .. 3 -> 1 .. 3] : IsInjective(p)},
               sent = [auth |-> a, stmt |-> s, order |-> o]
        PROVE  Asked
    BY <1>2 DEF Asked
  <1>3. call = "cose_key" /\ sent \in Keys => Asked
    BY DEF Asked
  <1> QED
    BY <1>1, <1>2, <1>3 DEF SecurityInit, SecurityInv

LEMMA SecurityStep ==
  ASSUME SecurityInv, [SecurityNext]_vars
  PROVE  SecurityInv'
  <1>1. Asked' /\ Result' = Result
    BY DEF SecurityInv, SecurityNext, CoseKey, ReadAuthData, ReadAttestation, Answered, Done, vars, Asked, Result
  <1>2. CASE CoseKey
    <2>1. answer' = Some(Result)
      BY <1>2 DEF CoseKey, Answered, Result
    <2> QED
      BY <1>1, <2>1 DEF SecurityInv
  <1>3. CASE ReadAuthData
    <2>1. answer' = Some(Result)
      BY <1>3 DEF ReadAuthData, Answered, Result
    <2> QED
      BY <1>1, <2>1 DEF SecurityInv
  <1>4. CASE ReadAttestation
    <2>1. answer' = Some(Result)
      BY <1>4 DEF ReadAttestation, Answered, Result
    <2> QED
      BY <1>1, <2>1 DEF SecurityInv
  <1>5. CASE Done \/ UNCHANGED vars
    <2>1. answer' = answer
      BY <1>5 DEF Done, vars
    <2> QED
      BY <1>1, <2>1 DEF SecurityInv
  <1> QED
    BY <1>2, <1>3, <1>4, <1>5 DEF SecurityNext

LEMMA SecurityInvariant == SecuritySpec => []SecurityInv
  <1>1. SecurityInit => SecurityInv
    BY SecurityInitially
  <1>2. SecurityInv /\ [SecurityNext]_vars => SecurityInv'
    BY SecurityStep
  <1> QED
    BY <1>1, <1>2, PTL DEF SecuritySpec

LEMMA AnswerIsResult ==
  ASSUME SecurityInv, IsSome(answer)
  PROVE  Get(answer) = Result
  <1>1. answer = <<Result>>
    BY DEF SecurityInv, IsSome, Some
  <1> QED
    BY <1>1 DEF Get

KeysOrdered == \A k \in Keys : KtyBeforeE(k)

\* The parameters of a key are read back whatever their order, if each RSA key
\* lists its type before its exponent: decode_value takes an exponent it meets
\* first for an x-coordinate, and nothing takes that back (run cose_key_order).
THEOREM KeysComeBack ==
  KeysOrdered /\ SecuritySpec => []KeyReadsBack
  <1> DEFINE Inv == KeysOrdered /\ SecurityInv
  <1>1. KeysOrdered /\ SecurityInit => Inv
    BY SecurityInitially
  <1>2. Inv /\ [SecurityNext]_vars => Inv'
    <2>1. SUFFICES ASSUME Inv, [SecurityNext]_vars
                   PROVE  Inv'
      OBVIOUS
    <2> QED
      BY <2>1, SecurityStep DEF KeysOrdered
  <1>3. Inv => KeyReadsBack
    <2>1. SUFFICES ASSUME Inv, Answer("cose_key")
                   PROVE  Get(answer) = Some([f \in KeyField |-> Lookup(sent, f)])
      BY DEF KeyReadsBack
    <2>2. call = "cose_key" /\ sent \in Keys /\ Get(answer) = DecodeKey(WireKey(sent))
      BY <2>1, AnswerIsResult DEF Answer, SecurityInv, Asked, Result
    <2>3. IsKey(sent) /\ KtyBeforeE(sent)
      BY <2>1, <2>2, SecurityAssumption DEF KeysOrdered
    <2> QED
      BY <2>2, <2>3, KeyDecoded
  <1> HIDE DEF Inv
  <1>4. KeysOrdered /\ SecuritySpec => []Inv
    BY <1>1, <1>2, PTL DEF SecuritySpec
  <1> QED
    BY <1>3, <1>4, PTL

\* Whatever an authenticator says is read back from its bytes, and from the
\* attestation object around them, in any order; what is cut off is not made up.
THEOREM AuthenticatorsComeBack == SecuritySpec => []AuthenticatorReadsBack
  <1>1. SecurityInv => AuthenticatorReadsBack
    <2>1. ASSUME SecurityInv, Answer("authdata")
          PROVE  IF sent.cut = Len(AuthBytes(sent.auth)) THEN Get(answer) = Some(Meant(sent.auth))
                 ELSE Get(answer) \in {None, Some([Meant(sent.auth) EXCEPT !.extensions = None])}
      <3>1. /\ sent.auth \in Authenticators /\ sent.cut \in 0 .. Len(AuthBytes(sent.auth))
            /\ Get(answer) = AuthData(SubSeq(AuthBytes(sent.auth), 1, sent.cut))
        BY <2>1, AnswerIsResult DEF Answer, SecurityInv, Asked, Result
      <3>2. IsAuthenticator(sent.auth)
        BY <3>1, SecurityAssumption
      <3>3. Len(AuthBytes(sent.auth)) = Behind(sent.auth) + Len(Trailer(sent.auth))
        BY <3>2, AuthenticatorLayout
      <3>4. Behind(sent.auth) \in Nat /\ Len(Trailer(sent.auth)) \in Nat
        BY <3>2, AuthenticatorFacts, Lengths DEF Behind
      <3>5. sent.cut = Len(AuthBytes(sent.auth)) => ~(sent.cut < Behind(sent.auth))
        BY <3>1, <3>3, <3>4
      <3> QED
        BY <3>1, <3>2, <3>5, AuthenticatorRead
    <2>2. ASSUME SecurityInv, Answer("attestation")
          PROVE  Get(answer) = Some([fmt |-> "packed", auth |-> Meant(sent.auth),
                                     alg |-> Some([name |-> sent.stmt.alg]), sig |-> Some(sent.stmt.sig),
                                     x5c |-> sent.stmt.x5c, att_stmt |-> Json(WireStatement(sent.stmt))])
      <3>1. /\ sent.auth \in Authenticators /\ sent.stmt \in Statements
            /\ sent.order \in [1 .. 3 -> 1 .. 3] /\ IsInjective(sent.order)
            /\ Get(answer) = Attestation(Map(Ordered(AttestationEntries(sent.auth, sent.stmt), sent.order)))
        BY <2>2, AnswerIsResult DEF Answer, SecurityInv, Asked, Result
      <3>2. IsAuthenticator(sent.auth) /\ IsStatement(sent.stmt)
        BY <3>1, SecurityAssumption
      <3> QED
        BY <3>1, <3>2, AttestationRead
    <2> QED
      BY <2>1, <2>2 DEF AuthenticatorReadsBack
  <1> QED
    BY <1>1, SecurityInvariant, PTL

-----------------------------------------------------------------------------
(* Messages: the recursive functions.                                      *)

\* The stack of envelopes a sender makes.
IsStack(at, v, layers, len) == at = [n \in 0 .. len |-> IF n = 0 THEN v ELSE Wrap(at[n - 1], layers[n])]
HasStack(v, layers, len) == \E at : IsStack(at, v, layers, len)

LEMMA StackIs ==
  ASSUME NEW v, NEW layers, Len(layers) \in Nat
  PROVE  /\ DOMAIN Stack(v, layers) = 0 .. Len(layers)
         /\ Stack(v, layers)[0] = v
         /\ \A n \in 1 .. Len(layers) : Stack(v, layers)[n] = Wrap(Stack(v, layers)[n - 1], layers[n])
  <1> DEFINE S == {k \in Nat : HasStack(v, layers, k)}
  <1>1. 0 \in S
    <2> DEFINE g == [n \in 0 .. 0 |-> v]
    <2>1. IsStack(g, v, layers, 0)
      BY DEF IsStack
    <2> QED
      BY <2>1 DEF HasStack
  <1>2. ASSUME NEW k \in Nat, k \in S
        PROVE  k + 1 \in S
    <2>1. PICK g : IsStack(g, v, layers, k)
      BY <1>2 DEF HasStack
    <2>2. g = [n \in 0 .. k |-> IF n = 0 THEN v ELSE Wrap(g[n - 1], layers[n])]
      BY <2>1 DEF IsStack
    <2> DEFINE h == [n \in 0 .. k + 1 |-> IF n <= k THEN g[n] ELSE Wrap(g[k], layers[n])]
    <2>3. ASSUME NEW n \in 0 .. k + 1
          PROVE  h[n] = IF n = 0 THEN v ELSE Wrap(h[n - 1], layers[n])
      <3>1. CASE n = 0
        BY <2>2, <3>1
      <3>2. CASE n \in 1 .. k
        <4>1. n \in 0 .. k /\ n # 0 /\ n <= k /\ n - 1 <= k /\ n - 1 \in 0 .. k + 1
          BY <3>2
        <4>2. g[n] = Wrap(g[n - 1], layers[n])
          BY <2>2, <4>1
        <4> QED
          BY <4>1, <4>2
      <3>3. CASE n = k + 1
        <4>1. n # 0 /\ ~(n <= k) /\ n - 1 = k /\ k <= k /\ n - 1 \in 0 .. k + 1
          BY <3>3
        <4> QED
          BY <4>1
      <3> QED
        BY <3>1, <3>2, <3>3
    <2>4. h = [n \in 0 .. k + 1 |-> h[n]]
      OBVIOUS
    <2> HIDE DEF h
    <2>5. IsStack(h, v, layers, k + 1)
      BY <2>3, <2>4 DEF IsStack
    <2> QED
      BY <2>5 DEF HasStack
  <1> HIDE DEF S
  <1>3. Len(layers) \in S
    BY <1>1, <1>2, Induction
  <1>4. PICK g : IsStack(g, v, layers, Len(layers))
    BY <1>3 DEF S, HasStack
  <1> DEFINE r == Stack(v, layers)
             c == CHOOSE at : IsStack(at, v, layers, Len(layers))
  <1>5. IsStack(c, v, layers, Len(layers))
    BY <1>4, Zenon
  <1>6. r = c
    BY DEF Stack, IsStack
  <1> HIDE DEF r, c
  <1>7. r = [n \in 0 .. Len(layers) |-> IF n = 0 THEN v ELSE Wrap(r[n - 1], layers[n])]
    BY <1>5, <1>6 DEF IsStack
  <1>8. DOMAIN r = 0 .. Len(layers) /\ r[0] = v
    <2>1. 0 \in 0 .. Len(layers)
      BY CoseAssumption
    <2> QED
      BY <1>7, <2>1
  <1>9. ASSUME NEW n \in 1 .. Len(layers)
        PROVE  r[n] = Wrap(r[n - 1], layers[n])
    <2>1. n \in 0 .. Len(layers) /\ n # 0
      OBVIOUS
    <2> QED
      BY <1>7, <2>1
  <1> QED
    BY <1>8, <1>9 DEF r

\* What one step takes off a value, and the code's loop over the tags.
Taken(v, tags) == IF Is(v, "tag") /\ v.tag \in tags THEN v.inner ELSE v

IsUnwrapped(at, v, tags, len) == at = [n \in 0 .. len |-> IF n = 0 THEN v ELSE Taken(at[n - 1], tags)]
HasUnwrapped(v, tags, len) == \E at : IsUnwrapped(at, v, tags, len)

LEMMA UnwrappedIs ==
  ASSUME NEW v, NEW tags
  PROVE  /\ DOMAIN Unwrapped(v, tags) = 0 .. MaxNesting
         /\ Unwrapped(v, tags)[0] = v
         /\ \A n \in 1 .. MaxNesting : Unwrapped(v, tags)[n] = Taken(Unwrapped(v, tags)[n - 1], tags)
  <1> DEFINE S == {k \in Nat : HasUnwrapped(v, tags, k)}
  <1>1. 0 \in S
    <2> DEFINE g == [n \in 0 .. 0 |-> v]
    <2>1. IsUnwrapped(g, v, tags, 0)
      BY DEF IsUnwrapped
    <2> QED
      BY <2>1 DEF HasUnwrapped
  <1>2. ASSUME NEW k \in Nat, k \in S
        PROVE  k + 1 \in S
    <2>1. PICK g : IsUnwrapped(g, v, tags, k)
      BY <1>2 DEF HasUnwrapped
    <2>2. g = [n \in 0 .. k |-> IF n = 0 THEN v ELSE Taken(g[n - 1], tags)]
      BY <2>1 DEF IsUnwrapped
    <2> DEFINE h == [n \in 0 .. k + 1 |-> IF n <= k THEN g[n] ELSE Taken(g[k], tags)]
    <2>3. ASSUME NEW n \in 0 .. k + 1
          PROVE  h[n] = IF n = 0 THEN v ELSE Taken(h[n - 1], tags)
      <3>1. CASE n = 0
        BY <2>2, <3>1
      <3>2. CASE n \in 1 .. k
        <4>1. n \in 0 .. k /\ n # 0 /\ n <= k /\ n - 1 <= k /\ n - 1 \in 0 .. k + 1
          BY <3>2
        <4>2. g[n] = Taken(g[n - 1], tags)
          BY <2>2, <4>1
        <4> QED
          BY <4>1, <4>2
      <3>3. CASE n = k + 1
        <4>1. n # 0 /\ ~(n <= k) /\ n - 1 = k /\ k <= k /\ n - 1 \in 0 .. k + 1
          BY <3>3
        <4> QED
          BY <4>1
      <3> QED
        BY <3>1, <3>2, <3>3
    <2>4. h = [n \in 0 .. k + 1 |-> h[n]]
      OBVIOUS
    <2> HIDE DEF h
    <2>5. IsUnwrapped(h, v, tags, k + 1)
      BY <2>3, <2>4 DEF IsUnwrapped
    <2> QED
      BY <2>5 DEF HasUnwrapped
  <1> HIDE DEF S
  <1>3. MaxNesting \in S
    BY <1>1, <1>2, Induction, CoseAssumption
  <1>4. PICK g : IsUnwrapped(g, v, tags, MaxNesting)
    BY <1>3 DEF S, HasUnwrapped
  <1> DEFINE r == Unwrapped(v, tags)
             c == CHOOSE at : IsUnwrapped(at, v, tags, MaxNesting)
  <1>5. IsUnwrapped(c, v, tags, MaxNesting)
    BY <1>4, Zenon
  <1>6. r = c
    BY DEF Unwrapped, IsUnwrapped, Taken
  <1> HIDE DEF r, c
  <1>7. r = [n \in 0 .. MaxNesting |-> IF n = 0 THEN v ELSE Taken(r[n - 1], tags)]
    BY <1>5, <1>6 DEF IsUnwrapped
  <1>8. DOMAIN r = 0 .. MaxNesting /\ r[0] = v
    <2>1. 0 \in 0 .. MaxNesting
      BY CoseAssumption
    <2> QED
      BY <1>7, <2>1
  <1>9. ASSUME NEW n \in 1 .. MaxNesting
        PROVE  r[n] = Taken(r[n - 1], tags)
    <2>1. n \in 0 .. MaxNesting /\ n # 0
      OBVIOUS
    <2> QED
      BY <1>7, <2>1
  <1> QED
    BY <1>8, <1>9 DEF r

\* The equation of Unveiled (extract_claims), as far as its first envelopes.
IsUnveiled(at, v, len) == at = [n \in 0 .. len |-> IF n = 0 THEN Some(v) ELSE Inside(at[n - 1])]
HasUnveiled(v, len) == \E at : IsUnveiled(at, v, len)

LEMMA UnveiledIs ==
  ASSUME NEW v
  PROVE  /\ DOMAIN Unveiled(v) = 0 .. MaxEnvelopes
         /\ Unveiled(v)[0] = Some(v)
         /\ \A n \in 1 .. MaxEnvelopes : Unveiled(v)[n] = Inside(Unveiled(v)[n - 1])
  <1> DEFINE S == {k \in Nat : HasUnveiled(v, k)}
  <1>1. 0 \in S
    <2> DEFINE g == [n \in 0 .. 0 |-> Some(v)]
    <2>1. IsUnveiled(g, v, 0)
      BY DEF IsUnveiled
    <2> QED
      BY <2>1 DEF HasUnveiled
  <1>2. ASSUME NEW k \in Nat, k \in S
        PROVE  k + 1 \in S
    <2>1. PICK g : IsUnveiled(g, v, k)
      BY <1>2 DEF HasUnveiled
    <2>2. g = [n \in 0 .. k |-> IF n = 0 THEN Some(v) ELSE Inside(g[n - 1])]
      BY <2>1 DEF IsUnveiled
    <2> DEFINE h == [n \in 0 .. k + 1 |-> IF n <= k THEN g[n] ELSE Inside(g[k])]
    <2>3. ASSUME NEW n \in 0 .. k + 1
          PROVE  h[n] = IF n = 0 THEN Some(v) ELSE Inside(h[n - 1])
      <3>1. CASE n = 0
        BY <2>2, <3>1
      <3>2. CASE n \in 1 .. k
        <4>1. n \in 0 .. k /\ n # 0 /\ n <= k /\ n - 1 <= k /\ n - 1 \in 0 .. k + 1
          BY <3>2
        <4>2. g[n] = Inside(g[n - 1])
          BY <2>2, <4>1
        <4> QED
          BY <4>1, <4>2
      <3>3. CASE n = k + 1
        <4>1. n # 0 /\ ~(n <= k) /\ n - 1 = k /\ k <= k /\ n - 1 \in 0 .. k + 1
          BY <3>3
        <4> QED
          BY <4>1
      <3> QED
        BY <3>1, <3>2, <3>3
    <2>4. h = [n \in 0 .. k + 1 |-> h[n]]
      OBVIOUS
    <2> HIDE DEF h
    <2>5. IsUnveiled(h, v, k + 1)
      BY <2>3, <2>4 DEF IsUnveiled
    <2> QED
      BY <2>5 DEF HasUnveiled
  <1> HIDE DEF S
  <1>3. MaxEnvelopes \in S
    BY <1>1, <1>2, Induction, CoseAssumption
  <1>4. PICK g : IsUnveiled(g, v, MaxEnvelopes)
    BY <1>3 DEF S, HasUnveiled
  <1> DEFINE r == Unveiled(v)
             c == CHOOSE at : IsUnveiled(at, v, MaxEnvelopes)
  <1>5. IsUnveiled(c, v, MaxEnvelopes)
    BY <1>4, Zenon
  <1>6. r = c
    BY DEF Unveiled, IsUnveiled
  <1> HIDE DEF r, c
  <1>7. r = [n \in 0 .. MaxEnvelopes |-> IF n = 0 THEN Some(v) ELSE Inside(r[n - 1])]
    BY <1>5, <1>6 DEF IsUnveiled
  <1>8. DOMAIN r = 0 .. MaxEnvelopes /\ r[0] = Some(v)
    <2>1. 0 \in 0 .. MaxEnvelopes
      BY CoseAssumption
    <2> QED
      BY <1>7, <2>1
  <1>9. ASSUME NEW n \in 1 .. MaxEnvelopes
        PROVE  r[n] = Inside(r[n - 1])
    <2>1. n \in 0 .. MaxEnvelopes /\ n # 0
      OBVIOUS
    <2> QED
      BY <1>7, <2>1
  <1> QED
    BY <1>8, <1>9 DEF r

-----------------------------------------------------------------------------
(* Header maps.                                                            *)

\* The loops over the entries of a header map (DecodeHeaderMap) and of a claim
\* set (CwtClaims).
HeaderPass(es) == FoldLeft(HeaderEntry, NoHeaders, es)
ClaimPass(es) == FoldLeft(ClaimEntry, NoClaims, es)

\* The states of the first.
IsHeaderPass(f, n, es) ==
  /\ f[0] = NoHeaders
  /\ \A i \in 1 .. n : f[i] = HeaderEntry(f[i - 1], es[i])
  /\ HeaderPass(es) = f[n]
HasHeaderPass(n, X, es) == \E f \in [0 .. n -> X] : IsHeaderPass(f, n, es)

LEMMA HeaderScan ==
  ASSUME NEW n \in Nat, NEW es, DOMAIN es = 1 .. n, NEW X, NoHeaders \in X,
         \A x \in X, i \in 1 .. n : HeaderEntry(x, es[i]) \in X
  PROVE  HasHeaderPass(n, X, es)
  <1> DEFINE step == [i \in 1 .. n |-> [x \in X |-> HeaderEntry(x, es[i])]]
             fold(g) == g = [s \in SUBSET DOMAIN es |->
                               IF s = {} THEN NoHeaders ELSE HeaderEntry(g[s \ {Max(s)}], es[Max(s)])]
             it == CHOOSE g : fold(g)
  <1>1. step \in [1 .. n -> [X -> X]]
    OBVIOUS
  <1>2. ASSUME NEW i \in 1 .. n, NEW x \in X
        PROVE  step[i][x] = HeaderEntry(x, es[i])
    OBVIOUS
  <1>3. HeaderPass(es) = it[DOMAIN es]
    BY DEF HeaderPass, FoldLeft, MapThenFoldSet
  <1> HIDE DEF step
  <1>4. PICK g \in [SUBSET (1 .. n) -> X] : IsFold(g, n, NoHeaders, step)
    BY <1>1, FoldExists DEF HasFold
  <1>5. fold(g)
    <2>1. ASSUME NEW s \in SUBSET (1 .. n), s # {}
          PROVE  step[Max(s)][g[s \ {Max(s)}]] = HeaderEntry(g[s \ {Max(s)}], es[Max(s)])
      <3>1. Max(s) \in 1 .. n /\ g[s \ {Max(s)}] \in X
        BY <2>1, MaxInside
      <3> QED
        BY <1>2, <3>1
    <2>2. g = [s \in SUBSET (1 .. n) |-> IF s = {} THEN NoHeaders ELSE step[Max(s)][g[s \ {Max(s)}]]]
      BY <1>4 DEF IsFold
    <2> QED
      BY <2>1, <2>2
  <1>6. fold(it)
    BY <1>5
  <1> HIDE DEF it
  <1>7. it[{}] = NoHeaders
    BY <1>6
  <1>8. ASSUME NEW s \in SUBSET (1 .. n), s # {}, it[s \ {Max(s)}] \in X
        PROVE  it[s] = step[Max(s)][it[s \ {Max(s)}]]
    <2>1. Max(s) \in 1 .. n
      BY <1>8, MaxInside
    <2>2. it[s] = HeaderEntry(it[s \ {Max(s)}], es[Max(s)])
      BY <1>6, <1>8
    <2> QED
      BY <1>2, <1>8, <2>1, <2>2
  <1>9. PICK f \in [0 .. n -> X] : IsLoop(f, it, n, NoHeaders, step)
    <2>1. FoldsIn(it, n, X, NoHeaders, step)
      BY <1>7, <1>8 DEF FoldsIn
    <2> QED
      BY <1>1, <2>1, FoldRun DEF HasLoop
  <1>10. \A i \in 1 .. n : f[i] = HeaderEntry(f[i - 1], es[i])
    <2>1. \A i \in 1 .. n : f[i - 1] \in X
      OBVIOUS
    <2> QED
      BY <1>2, <1>9, <2>1 DEF IsLoop
  <1> QED
    BY <1>3, <1>9, <1>10 DEF IsLoop, IsHeaderPass, HasHeaderPass

\* The states of the second.
IsClaimPass(f, n, es) ==
  /\ f[0] = NoClaims
  /\ \A i \in 1 .. n : f[i] = ClaimEntry(f[i - 1], es[i])
  /\ ClaimPass(es) = f[n]
HasClaimPass(n, X, es) == \E f \in [0 .. n -> X] : IsClaimPass(f, n, es)

LEMMA ClaimScan ==
  ASSUME NEW n \in Nat, NEW es, DOMAIN es = 1 .. n, NEW X, NoClaims \in X,
         \A x \in X, i \in 1 .. n : ClaimEntry(x, es[i]) \in X
  PROVE  HasClaimPass(n, X, es)
  <1> DEFINE step == [i \in 1 .. n |-> [x \in X |-> ClaimEntry(x, es[i])]]
             fold(g) == g = [s \in SUBSET DOMAIN es |->
                               IF s = {} THEN NoClaims ELSE ClaimEntry(g[s \ {Max(s)}], es[Max(s)])]
             it == CHOOSE g : fold(g)
  <1>1. step \in [1 .. n -> [X -> X]]
    OBVIOUS
  <1>2. ASSUME NEW i \in 1 .. n, NEW x \in X
        PROVE  step[i][x] = ClaimEntry(x, es[i])
    OBVIOUS
  <1>3. ClaimPass(es) = it[DOMAIN es]
    BY DEF ClaimPass, FoldLeft, MapThenFoldSet
  <1> HIDE DEF step
  <1>4. PICK g \in [SUBSET (1 .. n) -> X] : IsFold(g, n, NoClaims, step)
    BY <1>1, FoldExists DEF HasFold
  <1>5. fold(g)
    <2>1. ASSUME NEW s \in SUBSET (1 .. n), s # {}
          PROVE  step[Max(s)][g[s \ {Max(s)}]] = ClaimEntry(g[s \ {Max(s)}], es[Max(s)])
      <3>1. Max(s) \in 1 .. n /\ g[s \ {Max(s)}] \in X
        BY <2>1, MaxInside
      <3> QED
        BY <1>2, <3>1
    <2>2. g = [s \in SUBSET (1 .. n) |-> IF s = {} THEN NoClaims ELSE step[Max(s)][g[s \ {Max(s)}]]]
      BY <1>4 DEF IsFold
    <2> QED
      BY <2>1, <2>2
  <1>6. fold(it)
    BY <1>5
  <1> HIDE DEF it
  <1>7. it[{}] = NoClaims
    BY <1>6
  <1>8. ASSUME NEW s \in SUBSET (1 .. n), s # {}, it[s \ {Max(s)}] \in X
        PROVE  it[s] = step[Max(s)][it[s \ {Max(s)}]]
    <2>1. Max(s) \in 1 .. n
      BY <1>8, MaxInside
    <2>2. it[s] = ClaimEntry(it[s \ {Max(s)}], es[Max(s)])
      BY <1>6, <1>8
    <2> QED
      BY <1>2, <1>8, <2>1, <2>2
  <1>9. PICK f \in [0 .. n -> X] : IsLoop(f, it, n, NoClaims, step)
    <2>1. FoldsIn(it, n, X, NoClaims, step)
      BY <1>7, <1>8 DEF FoldsIn
    <2> QED
      BY <1>1, <2>1, FoldRun DEF HasLoop
  <1>10. \A i \in 1 .. n : f[i] = ClaimEntry(f[i - 1], es[i])
    <2>1. \A i \in 1 .. n : f[i - 1] \in X
      OBVIOUS
    <2> QED
      BY <1>2, <1>9, <2>1 DEF IsLoop
  <1> QED
    BY <1>3, <1>9, <1>10 DEF IsLoop, IsClaimPass, HasClaimPass

LEMMA HeaderFields ==
  /\ DOMAIN Label = {1, 2, 3, 4, 5, 33, 34}
  /\ Range(Label) = {"alg", "crit", "content_type", "kid", "iv", "x5chain", "x5t"}
  <1>1. DOMAIN Label = {1, 2, 3, 4, 5, 33, 34}
    BY DEF Label
  <1>2. /\ Label[1] = "alg" /\ Label[2] = "crit" /\ Label[3] = "content_type" /\ Label[4] = "kid"
        /\ Label[5] = "iv" /\ Label[33] = "x5chain" /\ Label[34] = "x5t"
    BY DEF Label
  <1> QED
    BY <1>1, <1>2 DEF Range

LEMMA ClaimFields ==
  /\ DOMAIN Claim = 1 .. 7
  /\ Range(Claim) = {"iss", "sub", "aud", "exp", "nbf", "iat", "cti"}
  <1>1. DOMAIN Claim = 1 .. 7 /\ 1 .. 7 = {1, 2, 3, 4, 5, 6, 7}
    BY DEF Claim
  <1>2. /\ Claim[1] = "iss" /\ Claim[2] = "sub" /\ Claim[3] = "aud" /\ Claim[4] = "exp"
        /\ Claim[5] = "nbf" /\ Claim[6] = "iat" /\ Claim[7] = "cti"
    BY DEF Claim
  <1> QED
    BY <1>1, <1>2 DEF Range

\* The field of a name is found under its number, and no other name has one.
LEMMA FieldFound ==
  ASSUME NEW labels, DOMAIN labels \subseteq 1 .. 34, 11 \notin DOMAIN labels, NEW f, NEW w
  PROVE  FieldOf(labels, <<Int_(LabelIn(labels, f)), w>>) = IF f \in Range(labels) THEN Some(f) ELSE None
  <1> DEFINE k == LabelIn(labels, f)
  <1>1. k \in 1 .. 34 /\ IF f \in Range(labels) THEN k \in DOMAIN labels /\ labels[k] = f ELSE k \notin DOMAIN labels
    <2>1. CASE f \in Range(labels)
      <3>1. \E l \in DOMAIN labels : labels[l] = f
        BY <2>1 DEF Range
      <3>2. k = CHOOSE l \in DOMAIN labels : labels[l] = f
        BY <2>1 DEF LabelIn
      <3>3. k \in DOMAIN labels /\ labels[k] = f
        BY <3>1, <3>2
      <3> QED
        BY <2>1, <3>3
    <2>2. CASE f \notin Range(labels)
      BY <2>2 DEF LabelIn
    <2> QED
      BY <2>1, <2>2
  <1> HIDE DEF k
  <1>2. -I64 <= k /\ k < I64
    BY <1>1, MessagesAssumption, ValuesAssumption
  <1>3. AsInt(Int_(k)) = <<k>>
    BY <1>2 DEF AsInt, Int_, Is, Some
  <1>4. FieldOf(labels, <<Int_(k), w>>) = IF k \in DOMAIN labels THEN Some(labels[k]) ELSE None
    <2>1. IsSome(<<k>>) /\ Get(<<k>>) = k
      BY DEF IsSome, Get, None
    <2> QED
      BY <1>3, <2>1 DEF FieldOf
  <1> QED
    BY <1>1, <1>4 DEF k

\* A parameter is read as what was meant, in each form it is sent in.
LEMMA HeaderRead ==
  ASSUME NEW f \in Range(Label), NEW x, IsHeader(f, x)
  PROVE  HeaderValue(f, WireHeader(f, x)) = Some(x)
  <1>0. \A y : Some(y) = <<y>> /\ IsSome(<<y>>) /\ Get(<<y>>) = y
    BY DEF Some, IsSome, Get, None
  <1>1. ASSUME NEW y, IsName(y)
        PROVE  Named(Int_(y.name)) = Some(y)
    <2> DEFINE m == y.name
    <2>1. -I64 <= m /\ m < I64
      BY <1>1, ValuesAssumption DEF IsName, Registered
    <2>2. y = [name |-> m]
      BY <1>1 DEF IsName
    <2> HIDE DEF m
    <2>3. AsInt(Int_(m)) = Some(m) /\ Int_(m).n = m
      BY <2>1 DEF AsInt, Is, Int_
    <2>4. Named(Int_(m)) = Some([name |-> m])
      BY <1>0, <2>3 DEF Named
    <2> QED
      BY <2>2, <2>4 DEF m
  <1>2. CASE f \in {"alg", "content_type"}
    <2>1. HeaderValue(f, WireHeader(f, x)) = OrElse(Named(WireHeader(f, x)), TextOf(WireHeader(f, x)))
      BY <1>2 DEF HeaderValue
    <2>2. CASE "name" \in DOMAIN x
      <3>1. IsName(x) /\ WireHeader(f, x) = Int_(x.name)
        BY <1>2, <2>2 DEF IsHeader, WireHeader
      <3> QED
        BY <1>0, <1>1, <2>1, <3>1 DEF OrElse
    <2>3. CASE "name" \notin DOMAIN x
      <3>1. x = [text |-> x.text] /\ WireHeader(f, x) = Text(x.text)
        BY <1>2, <2>3 DEF IsHeader, WireHeader
      <3> DEFINE t == x.text
      <3>2. Named(Text(t)) = None /\ TextOf(Text(t)) = Some([text |-> t])
        BY DEF Named, AsInt, Is, Text, IsSome, None, TextOf
      <3> HIDE DEF t
      <3>3. x = [text |-> t] /\ WireHeader(f, x) = Text(t)
        BY <3>1 DEF t
      <3> QED
        BY <2>1, <3>2, <3>3 DEF OrElse, IsSome
    <2> QED
      BY <2>2, <2>3
  <1>3. CASE f = "crit"
    BY <1>3 DEF HeaderValue, WireHeader, IsHeader
  <1>4. CASE f \in {"kid", "iv"}
    <2>1. WireHeader(f, x) = Bytes(x)
      BY <1>4 DEF WireHeader
    <2>2. HeaderValue(f, Bytes(x)) = AsBytes(Bytes(x))
      BY <1>4 DEF HeaderValue
    <2>3. AsBytes(Bytes(x)) = Some(x)
      BY DEF AsBytes, Bytes, Is
    <2> QED
      BY <2>1, <2>2, <2>3
  <1>5. CASE f = "x5chain"
    <2>1. IsSequence(x) /\ x # <<>>
      BY <1>5 DEF IsHeader
    <2>2. HeaderValue(f, WireHeader(f, x)) = X5Chain(WireHeader(f, x))
      BY <1>5 DEF HeaderValue
    <2>3. CASE Len(x) = 1
      <3>1. x = <<x[1]>>
        BY <2>1, <2>3 DEF IsSequence
      <3> DEFINE y == x[1]
      <3>2. WireHeader(f, x) = Bytes(y)
        BY <1>5, <2>3 DEF WireHeader
      <3> HIDE DEF y
      <3>3. X5Chain(Bytes(y)) = Some(<<y>>)
        BY DEF X5Chain, Bytes, Is
      <3> QED
        BY <2>2, <3>1, <3>2, <3>3 DEF y
    <2>4. CASE Len(x) # 1
      <3> DEFINE items == [i \in DOMAIN x |-> Bytes(x[i])]
      <3>1. WireHeader(f, x) = Array(items)
        BY <1>5, <2>4 DEF WireHeader
      <3>2. ByteStrings(items) = x
        BY <2>1, ByteStringsRead
      <3> HIDE DEF items
      <3>3. X5Chain(Array(items)) = Some(x)
        BY <2>1, <3>2 DEF X5Chain, Array, Is
      <3> QED
        BY <2>2, <3>1, <3>3
    <2> QED
      BY <2>3, <2>4
  <1>6. CASE f = "x5t"
    <2> DEFINE y == Get(x[1])
               b == x[2]
    <2>1. x = <<Some(y), b>> /\ IsName(y)
      BY <1>6 DEF IsHeader
    <2>2. WireHeader(f, x) = Array(<<Int_(y.name), Bytes(b)>>)
      BY <1>6 DEF WireHeader
    <2>3. HeaderValue(f, WireHeader(f, x)) = X5t(WireHeader(f, x))
      BY <1>6 DEF HeaderValue
    <2> HIDE DEF y, b
    <2> DEFINE items == <<Int_(y.name), Bytes(b)>>
    <2>4. Len(items) = 2 /\ items[1] = Int_(y.name) /\ items[2] = Bytes(b)
      OBVIOUS
    <2>5. Is(Array(items), "array") /\ Array(items).items = items
      BY DEF Array, Is
    <2>6. AsBytes(Bytes(b)) = Some(b) /\ Bytes(b).bytes = b
      BY DEF AsBytes, Bytes, Is
    <2> HIDE DEF items
    <2>7. X5t(Array(items)) = Some(<<Some(y), b>>)
      BY <1>0, <1>1, <2>1, <2>4, <2>5, <2>6 DEF X5t
    <2> QED
      BY <2>1, <2>2, <2>3, <2>7 DEF items
  <1> QED
    BY <1>2, <1>3, <1>4, <1>5, <1>6, HeaderFields

\* The entries of a header map as it is written, and what each does to the result.
HeaderPairs(hs) == [i \in DOMAIN hs |-> <<Int_(LabelIn(Label, hs[i][1])), WireHeader(hs[i][1], hs[i][2])>>]

LEMMA HeaderStep ==
  ASSUME NEW hs, IsHeaders(hs), NEW i \in DOMAIN hs, NEW h
  PROVE  HeaderEntry(h, HeaderPairs(hs)[i]) =
           IF hs[i][1] \in Range(Label) THEN [h EXCEPT ![hs[i][1]] = Some(hs[i][2])] ELSE h
  <1> DEFINE f == hs[i][1]
             x == hs[i][2]
             w == WireHeader(f, x)
             entry == <<Int_(LabelIn(Label, f)), w>>
  <1>1. HeaderPairs(hs)[i] = entry /\ entry[2] = w
    BY DEF HeaderPairs
  <1>2. IsHeader(f, x)
    BY DEF IsHeaders
  <1>3. FieldOf(Label, entry) = IF f \in Range(Label) THEN Some(f) ELSE None
    <2>1. DOMAIN Label \subseteq 1 .. 34 /\ 11 \notin DOMAIN Label
      BY HeaderFields
    <2> HIDE DEF f, w
    <2> QED
      BY <2>1, FieldFound
  <1>4. f \in Range(Label) => HeaderValue(f, w) = Some(x)
    BY <1>2, HeaderRead
  <1>5. IsSome(Some(f)) /\ Get(Some(f)) = f /\ ~IsSome(None)
    BY DEF IsSome, Some, Get, None
  <1> HIDE DEF f, x, w, entry
  <1>6. HeaderEntry(h, entry) = IF f \in Range(Label) THEN [h EXCEPT ![f] = Some(x)] ELSE h
    BY <1>1, <1>3, <1>4, <1>5 DEF HeaderEntry
  <1> QED
    BY <1>1, <1>6 DEF f, x

\* A header map is read as what was meant, in any order.
LEMMA HeaderMapRead ==
  ASSUME NEW hs, IsHeaders(hs)
  PROVE  DecodeHeaderMap(WireHeaders(hs)) = [f \in Range(Label) |-> Lookup(hs, f)]
  <1> DEFINE es == HeaderPairs(hs)
             V == {None} \cup {Some(hs[i][2]) : i \in DOMAIN hs}
             X == [Range(Label) -> V]
  <1>1. NamesOnce(hs) /\ Len(hs) \in Nat /\ DOMAIN hs = 1 .. Len(hs)
    BY SequenceFacts DEF IsHeaders, NamesOnce
  <1>2. DOMAIN es = 1 .. Len(hs)
    BY <1>1 DEF HeaderPairs
  <1>3. NoHeaders \in X
    BY DEF NoHeaders
  <1>4. ASSUME NEW x \in X, NEW i \in 1 .. Len(hs)
        PROVE  HeaderEntry(x, es[i]) \in X
    <2>1. HeaderEntry(x, es[i]) = IF hs[i][1] \in Range(Label) THEN [x EXCEPT ![hs[i][1]] = Some(hs[i][2])] ELSE x
      <3>1. i \in DOMAIN hs
        BY <1>1
      <3> HIDE DEF X, V
      <3> QED
        BY <3>1, HeaderStep
    <2>2. Some(hs[i][2]) \in V
      BY <1>1
    <2> HIDE DEF V, es
    <2> QED
      BY <2>1, <2>2
  <1>5. HasHeaderPass(Len(hs), X, es)
    <2> HIDE DEF es, X
    <2> QED
      BY <1>1, <1>2, <1>3, <1>4, HeaderScan
  <1>6. PICK r \in [0 .. Len(hs) -> X] : IsHeaderPass(r, Len(hs), es)
    BY <1>5 DEF HasHeaderPass
  <1> HIDE DEF V, es
  <1> DEFINE S == {n \in Nat : n <= Len(hs) => \A f \in Range(Label) : r[n][f] = Found(hs, n, f)}
  <1>7. 0 \in S
    <2>1. r[0] = NoHeaders
      BY <1>6 DEF IsHeaderPass
    <2> QED
      BY <1>1, <2>1, FoundNothing DEF NoHeaders
  <1>8. ASSUME NEW n \in Nat, n \in S
        PROVE  n + 1 \in S
    <2> SUFFICES ASSUME n + 1 <= Len(hs)
                 PROVE  \A f \in Range(Label) : r[n + 1][f] = Found(hs, n + 1, f)
      OBVIOUS
    <2> DEFINE m == n + 1
    <2>1. n <= Len(hs) /\ n \in 0 .. Len(hs) /\ m \in 1 .. Len(hs) /\ m - 1 = n /\ m \in DOMAIN hs
      BY <1>1
    <2>2. r[m] = HeaderEntry(r[n], es[m])
      BY <1>6, <2>1 DEF IsHeaderPass
    <2>3. HeaderEntry(r[n], es[m]) =
            IF hs[m][1] \in Range(Label) THEN [r[n] EXCEPT ![hs[m][1]] = Some(hs[m][2])] ELSE r[n]
      BY <2>1, HeaderStep DEF es
    <2>4. r[n] \in X /\ DOMAIN r[n] = Range(Label)
      BY <2>1
    <2>5. \A f \in Range(Label) : r[n][f] = Found(hs, n, f)
      BY <1>8, <2>1
    <2>6. \A f : Found(hs, m, f) = IF hs[m][1] = f THEN Some(hs[m][2]) ELSE Found(hs, n, f)
      BY <1>1, <2>1, FoundNext
    <2> HIDE DEF m
    <2> QED
      BY <2>2, <2>3, <2>4, <2>5, <2>6 DEF m
  <1>9. \A n \in Nat : n \in S
    <2> HIDE DEF S
    <2> QED
      BY <1>7, <1>8, Induction
  <1>10. \A f \in Range(Label) : r[Len(hs)][f] = Lookup(hs, f)
    BY <1>1, <1>9, FoundAll
  <1>11. r[Len(hs)] \in X /\ HeaderPass(es) = r[Len(hs)]
    BY <1>1, <1>6 DEF IsHeaderPass
  <1>12. DecodeHeaderMap(WireHeaders(hs)) = HeaderPass(es)
    <2>1. WireHeaders(hs) = Map(es)
      BY DEF WireHeaders, HeaderPairs, es
    <2>2. Is(Map(es), "map") /\ Map(es).entries = es
      BY DEF Map, Is
    <2> QED
      BY <2>1, <2>2 DEF DecodeHeaderMap, HeaderPass
  <1> QED
    BY <1>10, <1>11, <1>12

-----------------------------------------------------------------------------
(* Messages.                                                               *)

\* A decoded message that says what the sender meant.
Parameters(hs) == [f \in Range(Label) |-> Lookup(hs, f)]
Decoded(tag, type, protected, unprotected, payload, signature, recipients) ==
  [tag |-> tag, type |-> type, protected |-> protected, unprotected |-> unprotected,
   payload |-> payload, signature |-> signature, recipients |-> recipients]
Says(o, m) ==
  \E tag, type, signature, recipients :
    o = Some(Decoded(tag, type, Parameters(m.protected), Parameters(m.unprotected), m.payload,
                     signature, recipients))

\* The array of a message is decoded alike under every tag.
LEMMA ArrayRead ==
  ASSUME NEW m, IsMessage(m), NEW tag
  PROVE  Says(DecodeArray(WireMessage(m), tag), m)
  <1> DEFINE hp == WireHeaders(m.protected)
             hu == WireHeaders(m.unprotected)
             p == IF m.wrapped THEN Bytes(Encoding(hp)) ELSE hp
             pay == IF IsSome(m.payload) THEN Bytes(Get(m.payload)) ELSE Null
             sig == Bytes(Opaque(9))
             items == <<p, hu, pay, sig>>
             v == Array(items)
  <1>1. WireMessage(m) = v
    BY DEF WireMessage
  <1>2. IsHeaders(m.protected) /\ IsHeaders(m.unprotected) /\ (IsSome(m.payload) => m.payload = Some(Get(m.payload)))
    BY DEF IsMessage
  <1>3. DecodeHeaderMap(hu) = Parameters(m.unprotected) /\ DecodeHeaderMap(hp) = Parameters(m.protected)
    BY <1>2, HeaderMapRead DEF Parameters
  <1>4. DecodeProtected(p) = Parameters(m.protected)
    <2>1. ~Is(hp, "bytes")
      BY DEF WireHeaders, Map, Is
    <2> HIDE DEF hp
    <2>2. DecodeProtected(hp) = DecodeHeaderMap(hp)
      BY <2>1 DEF DecodeProtected
    <2>3. Is(Bytes(Encoding(hp)), "bytes") /\ Bytes(Encoding(hp)).bytes = Encoding(hp)
      BY DEF Is, Bytes
    <2>4. ParseBytes(Encoding(hp)) = Some(hp)
      BY DEF ParseBytes, Encoding
    <2>5. IsSome(Some(hp)) /\ Get(Some(hp)) = hp
      BY DEF IsSome, Some, Get, None
    <2>6. DecodeProtected(Bytes(Encoding(hp))) = DecodeHeaderMap(hp)
      BY <2>3, <2>4, <2>5 DEF DecodeProtected
    <2> QED
      BY <1>3, <2>2, <2>6
  <1>5. AsBytes(pay) = m.payload
    <2>1. CASE IsSome(m.payload)
      <3> DEFINE b == Get(m.payload)
      <3>1. pay = Bytes(b) /\ m.payload = Some(b)
        BY <1>2, <2>1
      <3> HIDE DEF pay, b
      <3> QED
        BY <3>1 DEF AsBytes, Bytes, Is
    <2>2. CASE ~IsSome(m.payload)
      BY <2>2 DEF IsSome, AsBytes, Null, Is
    <2> QED
      BY <2>1, <2>2
  <1> HIDE DEF p, hu, pay, sig
  <1>6. Len(items) = 4 /\ items[1] = p /\ items[2] = hu /\ items[3] = pay /\ items[4] = sig
    OBVIOUS
  <1>7. Is(v, "array") /\ v.items = items
    BY DEF Is, Array
  <1> HIDE DEF v, items
  <1> DEFINE type == IF IsSome(tag) THEN TypeForTag(Get(tag)) ELSE "Sign1"
             signature == AsBytes(sig)
             recipients == IF Is(sig, "array") THEN Some(Json(sig)) ELSE None
  <1>8. DecodeArray(v, tag) = Some(Decoded(tag, type, DecodeProtected(p), DecodeHeaderMap(hu), AsBytes(pay),
                                           signature, recipients))
    <2> DEFINE n == Len(v.items)
               last == v.items[4]
    <2>1. n = 4 /\ last = sig /\ v.items[1] = p /\ v.items[2] = hu /\ v.items[3] = pay /\ Is(v, "array")
      BY <1>6, <1>7
    <2> HIDE DEF n, last
    <2>2. ~(~Is(v, "array") \/ n < 3) /\ n >= 4 /\ n # 3
      BY <2>1
    <2>3. DecodeArray(v, tag) =
            Some([tag |-> tag,
                  type |-> IF IsSome(tag) THEN TypeForTag(Get(tag)) ELSE "Sign1",
                  protected |-> DecodeProtected(v.items[1]),
                  unprotected |-> DecodeHeaderMap(v.items[2]),
                  payload |-> AsBytes(v.items[3]),
                  signature |-> AsBytes(last),
                  recipients |-> IF Is(last, "array") THEN Some(Json(last)) ELSE None])
      BY <2>2 DEF DecodeArray, n, last
    <2> QED
      BY <2>1, <2>3 DEF Decoded
  <1> HIDE DEF type, signature, recipients
  <1> QED
    BY <1>1, <1>3, <1>4, <1>5, <1>8 DEF Says

\* What CoseDecode finds under the envelopes is decoded.
LEMMA MessageDecoded ==
  ASSUME NEW m, IsMessage(m), NEW value,
         Unwrapped(value, {55799, 61})[MaxNesting] \in {WireMessage(m), Tag(18, WireMessage(m))}
  PROVE  Says(CoseDecode(value), m)
  <1> DEFINE at == Unwrapped(value, {55799, 61})
             v == at[MaxNesting]
             envelopes == Cardinality({n \in DOMAIN at : IsTag(at[n], 61)})
             message == IF Is(v, "tag") THEN DecodeArray(v.inner, Some(v.tag))
                        ELSE DecodeArray(v, IF envelopes > 0 THEN Some(61) ELSE None)
  <1>1. CoseDecode(value) =
          IF IsSome(message) /\ envelopes > 1 THEN Some([Get(message) EXCEPT !.tag = Some(61)]) ELSE message
    BY DEF CoseDecode, Within
  <1> HIDE DEF at, envelopes
  <1>2. Says(message, m)
    <2>1. CASE v = WireMessage(m)
      <3>1. ~Is(WireMessage(m), "tag")
        BY DEF WireMessage, Array, Is
      <3> QED
        BY <2>1, <3>1, ArrayRead
    <2>2. CASE v = Tag(18, WireMessage(m))
      <3> DEFINE w == WireMessage(m)
      <3> HIDE DEF w
      <3>1. Is(Tag(18, w), "tag") /\ Tag(18, w).inner = w
        BY DEF Tag, Is
      <3>2. message = DecodeArray(w, Some(v.tag))
        BY <2>2, <3>1 DEF w
      <3> QED
        BY <3>2, ArrayRead DEF w
    <2> QED
      BY <2>1, <2>2 DEF at
  <1> HIDE DEF message
  <1>3. PICK tag, type, signature, recipients :
          message = Some(Decoded(tag, type, Parameters(m.protected), Parameters(m.unprotected), m.payload,
                                 signature, recipients))
    BY <1>2 DEF Says
  <1> DEFINE d == Decoded(tag, type, Parameters(m.protected), Parameters(m.unprotected), m.payload,
                          signature, recipients)
             e == Decoded(Some(61), type, Parameters(m.protected), Parameters(m.unprotected), m.payload,
                          signature, recipients)
  <1>4. [d EXCEPT !.tag = Some(61)] = e
    BY DEF Decoded
  <1>5. Says(Some(e), m)
    BY DEF Says
  <1> HIDE DEF e, d
  <1>6. Get(message) = d
    BY <1>3 DEF Get, Some, d
  <1>7. CASE IsSome(message) /\ envelopes > 1
    BY <1>1, <1>4, <1>5, <1>6, <1>7
  <1>8. CASE ~(IsSome(message) /\ envelopes > 1)
    BY <1>1, <1>2, <1>8
  <1> QED
    BY <1>7, <1>8

\* One tag at most is taken off a value with none inside.
LEMMA UnwrappedOnce ==
  ASSUME NEW v, NEW tags, Taken(Taken(v, tags), tags) = Taken(v, tags)
  PROVE  Unwrapped(v, tags)[MaxNesting] = Taken(v, tags)
  <1> DEFINE at == Unwrapped(v, tags)
             u == Taken(v, tags)
             S == {n \in Nat : n + 1 <= MaxNesting => at[n + 1] = u}
  <1>1. at[0] = v /\ \A n \in 1 .. MaxNesting : at[n] = Taken(at[n - 1], tags)
    BY UnwrappedIs
  <1>2. Taken(u, tags) = u /\ Taken(v, tags) = u
    OBVIOUS
  <1> HIDE DEF at, u
  <1>3. 0 \in S
    <2>1. SUFFICES ASSUME 1 <= MaxNesting PROVE at[1] = u
      OBVIOUS
    <2>2. 1 \in 1 .. MaxNesting /\ 1 - 1 = 0
      BY <2>1, CoseAssumption
    <2> QED
      BY <1>1, <1>2, <2>2
  <1>4. ASSUME NEW n \in Nat, n \in S
        PROVE  n + 1 \in S
    <2> DEFINE j == n + 1
    <2>1. SUFFICES ASSUME j + 1 <= MaxNesting PROVE at[j + 1] = u
      OBVIOUS
    <2>2. j + 1 \in 1 .. MaxNesting /\ (j + 1) - 1 = j /\ at[j] = u
      BY <1>4, <2>1, CoseAssumption
    <2> QED
      BY <1>1, <1>2, <2>2
  <1> HIDE DEF S
  <1>5. MaxNesting - 1 \in S
    <2>1. MaxNesting - 1 \in Nat
      BY CoseAssumption, MessagesAssumption
    <2> QED
      BY <1>3, <1>4, <2>1, Induction
  <1>6. (MaxNesting - 1) + 1 = MaxNesting
    BY CoseAssumption
  <1> QED
    BY <1>5, <1>6, CoseAssumption DEF S, at, u

\* A message in its envelopes: a tag of its own, if it has one, is the innermost.
OwnTag(m) == IF m.layers # <<>> /\ m.layers[1] = "tagged" THEN 1 ELSE 0

LEMMA EnvelopesTaken ==
  ASSUME NEW m, IsMessage(m)
  PROVE  Unwrapped(Written(WireMessage(m), m.layers), {55799, 61})[MaxNesting]
           \in {WireMessage(m), Tag(18, WireMessage(m))}
  <1> DEFINE c == WireMessage(m)
             L == Len(m.layers)
             b == OwnTag(m)
             w == Stack(c, m.layers)
             T == {55799, 61}
             at == Unwrapped(w[L], T)
             S == {n \in Nat : n <= MaxNesting => at[n] = w[IF n <= L - b THEN L - n ELSE b]}
  <1>1. /\ IsSequence(m.layers) /\ L \in Nat /\ L <= MaxNesting
        /\ \A i \in 1 .. L : m.layers[i] \in {"self-described", "cwt"} \/ (i = 1 /\ m.layers[i] = "tagged")
    BY SequenceFacts DEF IsMessage
  <1>2. w[0] = c /\ \A n \in 1 .. L : w[n] = Wrap(w[n - 1], m.layers[n])
    BY <1>1, StackIs
  <1>3. at[0] = w[L] /\ \A n \in 1 .. MaxNesting : at[n] = Taken(at[n - 1], T)
    BY UnwrappedIs
  <1>4. b \in {0, 1} /\ b <= L /\ (b = 1 => m.layers[1] = "tagged") /\ (b = 0 /\ L > 0 => m.layers[1] # "tagged")
    <2>1. CASE m.layers = <<>>
      BY <2>1, <1>1 DEF OwnTag
    <2>2. CASE m.layers # <<>>
      <3>1. L > 0
        BY <1>1, <2>2 DEF IsSequence
      <3> QED
        BY <2>2, <3>1 DEF OwnTag
    <2> QED
      BY <2>1, <2>2
  <1>5. Is(c, "array")
    BY DEF WireMessage, Array, Is
  <1> HIDE DEF c, L, b, w, at
  <1>6. w[b] \in {c, Tag(18, c)} /\ Taken(w[b], T) = w[b]
    <2>1. CASE b = 0
      <3>1. ~Is(c, "tag")
        BY <1>5 DEF Is
      <3> QED
        BY <1>2, <2>1, <3>1 DEF Taken
    <2>2. CASE b = 1
      <3>1. 1 \in 1 .. L /\ 1 - 1 = 0 /\ m.layers[1] = "tagged"
        BY <1>1, <1>4, <2>2
      <3>2. w[1] = Wrap(c, "tagged")
        BY <1>2, <3>1
      <3>3. Wrap(c, "tagged") = Tag(18, c)
        BY DEF Wrap
      <3>4. Tag(18, c).tag = 18
        BY DEF Tag
      <3> QED
        BY <2>2, <3>2, <3>3, <3>4 DEF Taken
    <2> QED
      BY <1>4, <2>1, <2>2
  <1>7. ASSUME NEW k \in 1 .. L, k > b
        PROVE  Taken(w[k], T) = w[k - 1]
    <2> DEFINE u == w[k - 1]
    <2>1. m.layers[k] \in {"self-described", "cwt"}
      BY <1>1, <1>4, <1>7
    <2>2. w[k] = Wrap(u, m.layers[k])
      BY <1>2
    <2> HIDE DEF u
    <2>3. Wrap(u, "self-described") = Tag(55799, u) /\ Wrap(u, "cwt") = Tag(61, u)
      BY DEF Wrap
    <2>4. Taken(Tag(55799, u), T) = u /\ Taken(Tag(61, u), T) = u
      BY DEF Taken, Tag, Is
    <2> QED
      BY <2>1, <2>2, <2>3, <2>4 DEF u
  <1>8. 0 \in S
    <2>1. 0 <= L - b /\ L - 0 = L
      BY <1>1, <1>4
    <2> QED
      BY <1>3, <2>1
  <1>9. ASSUME NEW n \in Nat, n \in S
        PROVE  n + 1 \in S
    <2> DEFINE j == n + 1
    <2>1. SUFFICES ASSUME j <= MaxNesting PROVE at[j] = w[IF j <= L - b THEN L - j ELSE b]
      OBVIOUS
    <2>2. j \in 1 .. MaxNesting /\ j - 1 = n /\ n <= MaxNesting
      BY <2>1, CoseAssumption
    <2>3. at[j] = Taken(w[IF n <= L - b THEN L - n ELSE b], T)
      BY <1>3, <1>9, <2>2
    <2>4. CASE j <= L - b
      <3>1. n <= L - b /\ L - n \in 1 .. L /\ L - n > b /\ (L - n) - 1 = L - j
        BY <1>1, <1>4, <2>4
      <3>2. Taken(w[L - n], T) = w[(L - n) - 1]
        BY <1>7, <3>1
      <3> QED
        BY <2>3, <2>4, <3>1, <3>2
    <2>5. CASE ~(j <= L - b)
      <3>1. (IF n <= L - b THEN L - n ELSE b) = b
        BY <1>1, <1>4, <2>5
      <3> QED
        BY <1>6, <2>3, <2>5, <3>1
    <2> QED
      BY <2>4, <2>5
  <1> HIDE DEF S
  <1>10. MaxNesting \in S
    BY <1>8, <1>9, Induction, CoseAssumption
  <1>11. at[MaxNesting] = w[b]
    <2>1. (IF MaxNesting <= L - b THEN L - MaxNesting ELSE b) = b
      BY <1>1, <1>4, CoseAssumption
    <2> QED
      BY <1>10, <2>1 DEF S
  <1> QED
    BY <1>6, <1>11 DEF c, L, w, at, Written

LEMMA MessageRead ==
  ASSUME NEW m, IsMessage(m)
  PROVE  Says(CoseDecode(Written(WireMessage(m), m.layers)), m)
  BY EnvelopesTaken, MessageDecoded

\* The headers and the payload of a message are those meant.
LEMMA MessageAnswer ==
  ASSUME NEW m, IsMessage(m), NEW o, Says(o, m)
  PROVE  /\ IsSome(o)
         /\ MergedHeaders(Get(o)) =
              [f \in DOMAIN NoHeaders |-> OrElse(Lookup(m.protected, f), Lookup(m.unprotected, f))]
         /\ Get(o).payload = m.payload
  <1> DEFINE hp == Parameters(m.protected)
             hu == Parameters(m.unprotected)
  <1>1. PICK tag, type, signature, recipients :
          o = Some(Decoded(tag, type, hp, hu, m.payload, signature, recipients))
    BY DEF Says
  <1> DEFINE d == Decoded(tag, type, hp, hu, m.payload, signature, recipients)
  <1>2. IsSome(o) /\ Get(o) = d
    <2> HIDE DEF d
    <2> QED
      BY <1>1 DEF IsSome, Some, Get, None, d
  <1> HIDE DEF hp, hu
  <1>3. d.protected = hp /\ d.unprotected = hu /\ d.payload = m.payload
    BY DEF Decoded
  <1> HIDE DEF d
  <1>4. MergedHeaders(d) = [f \in DOMAIN NoHeaders |-> OrElse(hp[f], hu[f])]
    BY <1>3 DEF MergedHeaders
  <1>5. \A f \in DOMAIN NoHeaders : hp[f] = Lookup(m.protected, f) /\ hu[f] = Lookup(m.unprotected, f)
    BY DEF NoHeaders, hp, hu, Parameters
  <1> QED
    BY <1>2, <1>3, <1>4, <1>5

-----------------------------------------------------------------------------
(* Claims.                                                                 *)

\* Each envelope around claims is opened.
Plain(v) == [protected |-> <<>>, unprotected |-> <<>>, wrapped |-> FALSE, payload |-> Some(Encoding(v)), layers |-> <<>>]

LEMMA EnvelopeOpened ==
  ASSUME NEW v, NEW layer \in {"self-described", "cwt", "sign1", "untagged"}
  PROVE  Opened(Wrap(v, layer)) = Some(v) /\ ~Is(Wrap(v, layer), "map")
  <1>1. CASE layer \in {"self-described", "cwt"}
    <2>1. Wrap(v, layer) \in {Tag(55799, v), Tag(61, v)}
      BY <1>1 DEF Wrap
    <2> DEFINE w == Wrap(v, layer)
    <2> HIDE DEF w
    <2>2. (IsTag(w, 55799) \/ IsTag(w, 61)) /\ w.inner = v /\ ~Is(w, "map")
      BY <2>1 DEF w, Tag, IsTag, Is
    <2> QED
      BY <2>2 DEF Opened, w
  <1>2. CASE layer \in {"sign1", "untagged"}
    <2> DEFINE m == Plain(v)
               c == Array(<<Map(<<>>), Map(<<>>), Bytes(Encoding(v)), Bytes(Opaque(9))>>)
               w == Wrap(v, layer)
    <2>1. w = c \/ w = Tag(18, c)
      BY <1>2 DEF Wrap
    <2>2. IsSequence(<<>>) /\ NamesOnce(<<>>) /\ Len(<<>>) = 0
      BY DEF IsSequence, NamesOnce
    <2>3. IsMessage(m)
      <3>1. IsHeaders(<<>>)
        BY <2>2 DEF IsHeaders
      <3>2. Get(Some(Encoding(v))) = Encoding(v)
        BY DEF Get, Some
      <3>3. /\ m.protected = <<>> /\ m.unprotected = <<>> /\ m.payload = Some(Encoding(v)) /\ m.layers = <<>>
        BY DEF Plain
      <3> HIDE DEF m
      <3>4. \A i \in DOMAIN m.layers : m.layers[i] \in {"self-described", "cwt"}
        BY <3>3
      <3> QED
        BY <2>2, <3>1, <3>2, <3>3, <3>4, CoseAssumption DEF IsMessage
    <2>4. WireMessage(m) = c
      <3>1. WireHeaders(<<>>) = Map(<<>>)
        <4>1. [i \in DOMAIN <<>> |-> <<Int_(LabelIn(Label, <<>>[i][1])), WireHeader(<<>>[i][1], <<>>[i][2])>>] = <<>>
          OBVIOUS
        <4> QED
          BY <4>1 DEF WireHeaders
      <3>2. IsSome(Some(Encoding(v))) /\ Get(Some(Encoding(v))) = Encoding(v)
        BY DEF Get, Some, IsSome, None
      <3>3. /\ m.protected = <<>> /\ m.unprotected = <<>> /\ m.payload = Some(Encoding(v)) /\ m.wrapped = FALSE
        BY DEF Plain
      <3> HIDE DEF m
      <3> QED
        BY <3>1, <3>2, <3>3 DEF WireMessage
    <2>5. /\ ~Is(c, "map") /\ ~Is(c, "tag") /\ Is(c, "array")
          /\ ~IsTag(c, 55799) /\ ~IsTag(c, 61)
      BY DEF Is, IsTag, Array
    <2> HIDE DEF c
    <2>6. /\ ~Is(Tag(18, c), "map") /\ Is(Tag(18, c), "tag") /\ Tag(18, c).tag = 18
          /\ ~IsTag(Tag(18, c), 55799) /\ ~IsTag(Tag(18, c), 61)
      BY DEF Is, IsTag, Tag
    <2> HIDE DEF w
    <2>7. Taken(w, {55799, 61}) = w
      BY <2>1, <2>5, <2>6 DEF Taken
    <2>8. Unwrapped(w, {55799, 61})[MaxNesting] = w
      BY <2>7, UnwrappedOnce
    <2>9. Says(CoseDecode(w), m)
      <3> HIDE DEF m
      <3> QED
        BY <2>1, <2>3, <2>4, <2>8, MessageDecoded
    <2>10. IsSome(CoseDecode(w)) /\ Get(CoseDecode(w)).payload = Some(Encoding(v))
      <3>1. m.payload = Some(Encoding(v))
        BY DEF Plain
      <3> HIDE DEF m
      <3> QED
        BY <2>3, <2>9, <3>1, MessageAnswer
    <2>11. IsSome(Some(Encoding(v))) /\ Get(Some(Encoding(v))) = Encoding(v) /\ ParseBytes(Encoding(v)) = Some(v)
      BY DEF IsSome, Get, Some, None, ParseBytes, Encoding
    <2>12. Opened(w) = Some(v)
      <3> HIDE DEF m
      <3> QED
        BY <2>1, <2>5, <2>6, <2>10, <2>11 DEF Opened, Payload, Parsed
    <2> QED
      BY <2>1, <2>5, <2>6, <2>12 DEF w
  <1> QED
    BY <1>1, <1>2

\* The claims of a CWT are found under its envelopes.
LEMMA ClaimsFound ==
  ASSUME NEW v, NEW layers, Is(v, "map"), IsSequence(layers), Len(layers) <= MaxEnvelopes,
         \A i \in DOMAIN layers : layers[i] \in {"self-described", "cwt", "sign1", "untagged"}
  PROVE  ExtractClaims(Written(v, layers)) = Some(v)
  <1> DEFINE L == Len(layers)
             w == Stack(v, layers)
             at == Unveiled(w[L])
             S == {n \in Nat : n <= MaxEnvelopes => at[n] = Some(w[IF n <= L THEN L - n ELSE 0])}
  <1>0. \A x : IsSome(Some(x)) /\ Get(Some(x)) = x
    BY DEF IsSome, Some, Get, None
  <1>1. L \in Nat /\ L <= MaxEnvelopes /\ DOMAIN layers = 1 .. L
    BY SequenceFacts
  <1>2. w[0] = v /\ \A n \in 1 .. L : w[n] = Wrap(w[n - 1], layers[n])
    BY <1>1, StackIs
  <1>3. at[0] = Some(w[L]) /\ \A n \in 1 .. MaxEnvelopes : at[n] = Inside(at[n - 1])
    BY UnveiledIs
  <1> HIDE DEF L, w, at
  <1>4. Inside(Some(w[0])) = Some(w[0])
    BY <1>0, <1>2 DEF Inside
  <1>5. ASSUME NEW k \in 1 .. L
        PROVE  Inside(Some(w[k])) = Some(w[k - 1])
    <2> DEFINE u == w[k - 1]
               layer == layers[k]
    <2>1. layer \in {"self-described", "cwt", "sign1", "untagged"} /\ w[k] = Wrap(u, layer)
      BY <1>1, <1>2
    <2> HIDE DEF u, layer
    <2>2. Opened(w[k]) = Some(u) /\ ~Is(w[k], "map")
      BY <2>1, EnvelopeOpened
    <2> QED
      BY <1>0, <2>2 DEF Inside, u
  <1>6. 0 \in S
    <2>1. 0 <= L /\ L - 0 = L
      BY <1>1
    <2> QED
      BY <1>3, <2>1
  <1>7. ASSUME NEW n \in Nat, n \in S
        PROVE  n + 1 \in S
    <2> DEFINE j == n + 1
    <2>1. SUFFICES ASSUME j <= MaxEnvelopes PROVE at[j] = Some(w[IF j <= L THEN L - j ELSE 0])
      OBVIOUS
    <2>2. j \in 1 .. MaxEnvelopes /\ j - 1 = n /\ n <= MaxEnvelopes
      BY <2>1, CoseAssumption
    <2>3. at[j] = Inside(Some(w[IF n <= L THEN L - n ELSE 0]))
      BY <1>3, <1>7, <2>2
    <2>4. CASE j <= L
      <3>1. n <= L /\ L - n \in 1 .. L /\ (L - n) - 1 = L - j
        BY <1>1, <2>4
      <3>2. Inside(Some(w[L - n])) = Some(w[(L - n) - 1])
        BY <1>5, <3>1
      <3> QED
        BY <2>3, <2>4, <3>1, <3>2
    <2>5. CASE ~(j <= L)
      <3>1. (IF n <= L THEN L - n ELSE 0) = 0
        BY <1>1, <2>5
      <3> QED
        BY <1>4, <2>3, <2>5, <3>1
    <2> QED
      BY <2>4, <2>5
  <1> HIDE DEF S
  <1>8. MaxEnvelopes \in S
    BY <1>6, <1>7, Induction, CoseAssumption
  <1>9. at[MaxEnvelopes] = Some(w[0])
    <2>1. (IF MaxEnvelopes <= L THEN L - MaxEnvelopes ELSE 0) = 0
      BY <1>1, CoseAssumption
    <2> QED
      BY <1>8, <2>1, CoseAssumption DEF S
  <1> QED
    BY <1>0, <1>2, <1>9 DEF ExtractClaims, ClaimsMap, at, w, L, Written

\* An instant is the same number of seconds in each of its forms.
LEMMA InstantRead ==
  ASSUME NEW x \in Registered
  PROVE  /\ AsSeconds(Int_(x)) = Some(x)
         /\ AsSeconds(Tag(1, Int_(x))) = Some(x)
         /\ AsSeconds(Float(IF x < 0 THEN 2 * x - 1 ELSE 2 * x + 1)) = Some(x)
  <1>1. x \in Int /\ -I64 <= x /\ x < I64 /\ I64 \in Int
    BY ValuesAssumption DEF Registered
  <1>2. AsInt(Int_(x)) = Some(x) /\ ~Is(Int_(x), "float") /\ ~Is(Int_(x), "tag")
    BY <1>1 DEF AsInt, Int_, Is
  <1> DEFINE i == Int_(x)
             t == Tag(1, i)
             h == IF x < 0 THEN 2 * x - 1 ELSE 2 * x + 1
             f == Float(h)
  <1> HIDE DEF i
  <1>3. Taken(i, Nat) = i
    BY <1>2 DEF Taken, i
  <1>4. Taken(t, Nat) = i
    BY DEF Taken, Tag, Is
  <1>5. Unwrapped(i, Nat)[MaxNesting] = i /\ Unwrapped(t, Nat)[MaxNesting] = i
    <2> HIDE DEF t
    <2> QED
      BY <1>3, <1>4, UnwrappedOnce
  <1>6. AsSeconds(i) = Some(x) /\ AsSeconds(t) = Some(x)
    <2> HIDE DEF t
    <2> QED
      BY <1>2, <1>5 DEF AsSeconds, i
  <1>7. AsSeconds(f) = Some(x)
    <2> HIDE DEF h
    <2>1. Taken(f, Nat) = f /\ Is(f, "float") /\ f.half = h
      BY DEF Taken, Float, Is
    <2> HIDE DEF f
    <2>2. Unwrapped(f, Nat)[MaxNesting] = f
      BY <2>1, UnwrappedOnce
    <2>3. AsSeconds(f) = Some(Saturated(IF h >= 0 THEN h \div 2 ELSE -((-h) \div 2)))
      BY <2>1, <2>2 DEF AsSeconds
    <2>4. (IF h >= 0 THEN h \div 2 ELSE -((-h) \div 2)) = x
      BY <1>1 DEF h
    <2>5. Saturated(x) = x
      BY <1>1 DEF Saturated
    <2> QED
      BY <2>3, <2>4, <2>5
  <1> QED
    BY <1>6, <1>7 DEF i

LEMMA ClaimRead ==
  ASSUME NEW f \in Range(Claim), NEW x, NEW form, IsClaim(f, x, form)
  PROVE  ClaimValue(f, WireClaim(f, x, form)[2]) = Some(x)
  <1>1. CASE f \in Instants
    <2>0. f \in Instants /\ f \notin {"iss", "sub", "aud"} /\ f # "cti"
      BY <1>1 DEF Instants
    <2>1. x \in Registered /\ form \in {"plain", "tagged", "float"}
      BY <2>0 DEF IsClaim
    <2>2. f # "cti" /\ f \in {"exp", "nbf", "iat"}
      BY <1>1 DEF Instants
    <2> DEFINE h == IF x < 0 THEN 2 * x - 1 ELSE 2 * x + 1
    <2>3. WireClaim(f, x, form)[2] \in {Int_(x), Tag(1, Int_(x)), Float(h)}
      <3> HIDE DEF h
      <3>1. CASE form = "plain"
        BY <1>1, <2>2, <3>1 DEF WireClaim
      <3>2. CASE form = "tagged"
        BY <3>2 DEF WireClaim
      <3>3. CASE form = "float"
        BY <3>3 DEF WireClaim, h
      <3> QED
        BY <2>1, <3>1, <3>2, <3>3
    <2>4. \A w : ClaimValue(f, w) = AsSeconds(w)
      BY <2>2 DEF ClaimValue
    <2>5. AsSeconds(Int_(x)) = Some(x) /\ AsSeconds(Tag(1, Int_(x))) = Some(x) /\ AsSeconds(Float(h)) = Some(x)
      BY <2>1, InstantRead
    <2> HIDE DEF h
    <2> QED
      BY <2>3, <2>4, <2>5
  <1>2. CASE f \in {"iss", "sub", "aud"}
    <2>1. form = "plain" /\ AsClaimText(x.json) = Some(x) /\ f \notin Instants /\ f # "cti"
      BY <1>2 DEF IsClaim, Instants
    <2>2. WireClaim(f, x, form)[2] = x.json
      BY <2>1 DEF WireClaim
    <2> QED
      BY <1>2, <2>1, <2>2 DEF ClaimValue
  <1>3. CASE f = "cti"
    <2>1. form = "plain"
      BY <1>3 DEF IsClaim, Instants
    <2>2. WireClaim(f, x, form)[2] = Bytes(x)
      BY <1>3, <2>1 DEF WireClaim
    <2>3. AsBytes(Bytes(x)) = Some(x)
      BY DEF AsBytes, Bytes, Is
    <2> QED
      BY <1>3, <2>2, <2>3 DEF ClaimValue
  <1> QED
    BY <1>1, <1>2, <1>3, ClaimFields DEF Instants

\* The entries of a claim set as it is written, and what each does to the result.
ClaimPairs(cs) == [i \in DOMAIN cs |-> WireClaim(cs[i][1], cs[i][2], cs[i][3])]
AreClaims(cs) == NamesOnce(cs) /\ \A i \in DOMAIN cs : IsClaim(cs[i][1], cs[i][2], cs[i][3])

LEMMA ClaimStep ==
  ASSUME NEW cs, AreClaims(cs), NEW i \in DOMAIN cs, NEW claims
  PROVE  ClaimEntry(claims, ClaimPairs(cs)[i]) =
           IF cs[i][1] \in Range(Claim) THEN [claims EXCEPT ![cs[i][1]] = Some(cs[i][2])]
           ELSE [claims EXCEPT !.extra = {y \in claims.extra : y[1] # cs[i][1]} \cup {<<cs[i][1], cs[i][2]>>}]
  <1> DEFINE f == cs[i][1]
             x == cs[i][2]
             form == cs[i][3]
             entry == WireClaim(f, x, form)
  <1>1. ClaimPairs(cs)[i] = entry
    BY DEF ClaimPairs
  <1>2. IsClaim(f, x, form)
    BY DEF AreClaims
  <1> HIDE DEF f, x, form
  <1>3. IsSome(Some(f)) /\ Get(Some(f)) = f /\ ~IsSome(None)
    BY DEF IsSome, Some, Get, None
  <1>4. CASE f \in Range(Claim)
    <2> DEFINE w == entry[2]
    <2>1. entry = <<Int_(LabelIn(Claim, f)), w>>
      <3>1. \E u : entry = <<Int_(LabelIn(Claim, f)), u>>
        BY <1>4 DEF WireClaim
      <3>2. PICK u : entry = <<Int_(LabelIn(Claim, f)), u>>
        BY <3>1
      <3> HIDE DEF entry
      <3> QED
        BY <3>2
    <2>2. DOMAIN Claim \subseteq 1 .. 34 /\ 11 \notin DOMAIN Claim
      BY ClaimFields
    <2>3. ClaimValue(f, w) = Some(x)
      BY <1>2, <1>4, ClaimRead
    <2> HIDE DEF w, entry
    <2>4. FieldOf(Claim, entry) = Some(f)
      BY <1>4, <2>1, <2>2, FieldFound
    <2>5. ClaimEntry(claims, entry) = [claims EXCEPT ![f] = Some(x)]
      BY <1>3, <2>3, <2>4 DEF ClaimEntry, w
    <2> QED
      BY <1>1, <1>4, <2>5 DEF f, x
  <1>5. CASE f \notin Range(Claim)
    <2>1. f \notin {"iss", "sub", "aud", "exp", "nbf", "iat", "cti"}
      BY <1>5, ClaimFields
    <2>2. form = "plain" /\ x = Json(x.json)
      BY <1>2, <2>1 DEF IsClaim, Instants
    <2>3. entry[1] = Text(f) /\ entry[2] = x.json
      BY <1>5, <2>1, <2>2 DEF WireClaim, Instants
    <2> HIDE DEF entry
    <2>4. ~Is(Text(f), "int") /\ Is(Text(f), "text") /\ Text(f).text = f
      BY DEF Text, Is
    <2>5. FieldOf(Claim, entry) = None
      BY <1>3, <2>3, <2>4 DEF FieldOf, AsInt
    <2>6. ExtraName(entry[1]) = f /\ Json(entry[2]) = x
      BY <2>2, <2>3, <2>4 DEF ExtraName
    <2>7. ClaimEntry(claims, entry) =
            [claims EXCEPT !.extra = {y \in claims.extra : y[1] # f} \cup {<<f, x>>}]
      BY <1>3, <2>5, <2>6 DEF ClaimEntry
    <2> QED
      BY <1>1, <1>5, <2>7 DEF f, x
  <1> QED
    BY <1>4, <1>5

\* What the first n claims leave in the result: fields, and the private ones.
PrivateOf(cs, n) == {<<cs[i][1], cs[i][2]>> : i \in {j \in 1 .. n : cs[j][1] \notin Range(Claim)}}
Collected(r, cs, n) ==
  /\ \A f \in Range(Claim) : r[f] = Found(cs, n, f)
  /\ r["extra"] = PrivateOf(cs, n)

LEMMA CollectedNext ==
  ASSUME NEW cs, AreClaims(cs), NEW n \in 1 .. Len(cs), NEW r, DOMAIN r = Range(Claim) \cup {"extra"},
         Collected(r, cs, n - 1)
  PROVE  Collected(ClaimEntry(r, ClaimPairs(cs)[n]), cs, n)
  <1> DEFINE f == cs[n][1]
             x == cs[n][2]
             new == ClaimEntry(r, ClaimPairs(cs)[n])
  <1>1. NamesOnce(cs) /\ Len(cs) \in Nat /\ DOMAIN cs = 1 .. Len(cs) /\ n \in DOMAIN cs
    BY SequenceFacts DEF AreClaims, NamesOnce
  <1>2. new = IF f \in Range(Claim) THEN [r EXCEPT ![f] = Some(x)]
              ELSE [r EXCEPT !.extra = {y \in r.extra : y[1] # f} \cup {<<f, x>>}]
    BY <1>1, ClaimStep
  <1>3. \A g : Found(cs, n, g) = IF f = g THEN Some(x) ELSE Found(cs, n - 1, g)
    BY <1>1, FoundNext
  <1>4. "extra" \notin Range(Claim)
    BY ClaimFields
  <1>5. r["extra"] = PrivateOf(cs, n - 1) /\ \A g \in Range(Claim) : r[g] = Found(cs, n - 1, g)
    BY DEF Collected
  <1>6. PrivateOf(cs, n) = IF f \in Range(Claim) THEN PrivateOf(cs, n - 1) ELSE PrivateOf(cs, n - 1) \cup {<<f, x>>}
    <2>1. 1 .. n = 1 .. n - 1 \cup {n} /\ n \notin 1 .. n - 1
      OBVIOUS
    <2> QED
      BY <2>1 DEF PrivateOf
  <1>7. {y \in PrivateOf(cs, n - 1) : y[1] # f} = PrivateOf(cs, n - 1)
    <2>1. ASSUME NEW i \in 1 .. n - 1
          PROVE  cs[i][1] # f
      <3>1. i \in DOMAIN cs /\ i # n
        BY <1>1
      <3> QED
        BY <1>1, <3>1 DEF NamesOnce
    <2> QED
      BY <2>1 DEF PrivateOf
  <1> HIDE DEF new, f, x
  <1>8. CASE f \in Range(Claim)
    <2>1. new = [r EXCEPT ![f] = Some(x)]
      BY <1>2, <1>8
    <2>2. new["extra"] = r["extra"]
      BY <1>4, <1>8, <2>1
    <2>3. \A g \in Range(Claim) : new[g] = IF f = g THEN Some(x) ELSE r[g]
      BY <1>8, <2>1
    <2> QED
      BY <1>3, <1>5, <1>6, <1>8, <2>2, <2>3 DEF Collected, new
  <1>9. CASE f \notin Range(Claim)
    <2>1. new = [r EXCEPT !.extra = {y \in r.extra : y[1] # f} \cup {<<f, x>>}]
      BY <1>2, <1>9
    <2>2. new["extra"] = PrivateOf(cs, n)
      BY <1>5, <1>6, <1>7, <1>9, <2>1
    <2>3. \A g \in Range(Claim) : new[g] = r[g] /\ f # g
      BY <1>4, <1>9, <2>1
    <2> QED
      BY <1>3, <1>5, <2>2, <2>3 DEF Collected, new
  <1> QED
    BY <1>8, <1>9

LEMMA ClaimScanned ==
  ASSUME NEW cs, AreClaims(cs)
  PROVE  Collected(ClaimPass(ClaimPairs(cs)), cs, Len(cs))
         /\ DOMAIN ClaimPass(ClaimPairs(cs)) = Range(Claim) \cup {"extra"}
         /\ ClaimPass(ClaimPairs(cs)) = [f \in DOMAIN ClaimPass(ClaimPairs(cs)) |-> ClaimPass(ClaimPairs(cs))[f]]
  <1> DEFINE es == ClaimPairs(cs)
             V == {None} \cup {Some(cs[i][2]) : i \in DOMAIN cs}
             W == {<<cs[i][1], cs[i][2]>> : i \in DOMAIN cs}
             D == Range(Claim) \cup {"extra"}
             X == {r \in [D -> V \cup SUBSET W] : r["extra"] \in SUBSET W}
  <1>1. NamesOnce(cs) /\ Len(cs) \in Nat /\ DOMAIN cs = 1 .. Len(cs)
    BY SequenceFacts DEF AreClaims, NamesOnce
  <1>2. DOMAIN es = 1 .. Len(cs)
    BY <1>1 DEF ClaimPairs
  <1>3. "extra" \notin Range(Claim)
    BY ClaimFields
  <1>4. NoClaims \in X
    BY <1>3 DEF NoClaims
  <1>5. ASSUME NEW r \in X, NEW i \in 1 .. Len(cs)
        PROVE  ClaimEntry(r, es[i]) \in X
    <2> DEFINE f == cs[i][1]
               p == <<cs[i][1], cs[i][2]>>
               E == {y \in r.extra : y[1] # f} \cup {p}
    <2>1. ClaimEntry(r, es[i]) = IF f \in Range(Claim) THEN [r EXCEPT ![f] = Some(cs[i][2])]
                                 ELSE [r EXCEPT !.extra = E]
      <3>1. i \in DOMAIN cs
        BY <1>1
      <3> HIDE DEF X, V, W, D
      <3> QED
        BY <3>1, ClaimStep
    <2>2. Some(cs[i][2]) \in V /\ p \in W
      BY <1>1
    <2>3. r \in [D -> V \cup SUBSET W] /\ r["extra"] \in SUBSET W
      OBVIOUS
    <2>4. E \in SUBSET W
      <3> HIDE DEF W, p
      <3> QED
        BY <2>2, <2>3
    <2> HIDE DEF V, W, es, E, p, f
    <2>5. CASE f \in Range(Claim)
      <3>1. [r EXCEPT ![f] = Some(cs[i][2])] \in [D -> V \cup SUBSET W]
        BY <2>2, <2>3
      <3>2. [r EXCEPT ![f] = Some(cs[i][2])]["extra"] = r["extra"]
        BY <1>3, <2>3, <2>5
      <3> QED
        BY <2>1, <2>3, <2>5, <3>1, <3>2
    <2>6. CASE f \notin Range(Claim)
      <3>1. [r EXCEPT !.extra = E] \in [D -> V \cup SUBSET W]
        BY <2>3, <2>4
      <3>2. [r EXCEPT !.extra = E]["extra"] = E
        BY <2>3
      <3> QED
        BY <2>1, <2>4, <2>6, <3>1, <3>2
    <2> QED
      BY <2>5, <2>6
  <1>6. HasClaimPass(Len(cs), X, es)
    <2> HIDE DEF es, X
    <2> QED
      BY <1>1, <1>2, <1>4, <1>5, ClaimScan
  <1>7. PICK r \in [0 .. Len(cs) -> X] : IsClaimPass(r, Len(cs), es)
    BY <1>6 DEF HasClaimPass
  <1>8. \A n \in 0 .. Len(cs) : DOMAIN r[n] = D /\ r[n] = [f \in D |-> r[n][f]]
    <2> HIDE DEF V, W
    <2>1. \A n \in 0 .. Len(cs) : r[n] \in [D -> V \cup SUBSET W]
      OBVIOUS
    <2> QED
      BY <2>1
  <1> HIDE DEF V, W, X, es
  <1> DEFINE S == {n \in Nat : n <= Len(cs) => Collected(r[n], cs, n)}
  <1>9. 0 \in S
    <2>1. r[0] = NoClaims
      BY <1>7 DEF IsClaimPass
    <2>2. PrivateOf(cs, 0) = {}
      BY DEF PrivateOf
    <2>3. Collected(NoClaims, cs, 0)
      BY <1>3, <2>2, FoundNothing DEF NoClaims, Collected
    <2> QED
      BY <2>1, <2>3
  <1>10. ASSUME NEW n \in Nat, n \in S
         PROVE  n + 1 \in S
    <2> DEFINE m == n + 1
    <2>1. SUFFICES ASSUME m <= Len(cs) PROVE Collected(r[m], cs, m)
      OBVIOUS
    <2>2. n <= Len(cs) /\ n \in 0 .. Len(cs) /\ m \in 1 .. Len(cs) /\ m - 1 = n
      BY <1>1, <2>1
    <2>3. r[m] = ClaimEntry(r[n], ClaimPairs(cs)[m])
      BY <1>7, <2>2 DEF IsClaimPass, es
    <2>4. Collected(r[n], cs, n) /\ DOMAIN r[n] = Range(Claim) \cup {"extra"}
      BY <1>8, <1>10, <2>2
    <2> HIDE DEF m, S
    <2> QED
      BY <2>2, <2>3, <2>4, CollectedNext
  <1> HIDE DEF S
  <1>11. Len(cs) \in S
    BY <1>1, <1>9, <1>10, Induction
  <1>12. ClaimPass(es) = r[Len(cs)] /\ Collected(r[Len(cs)], cs, Len(cs))
    BY <1>1, <1>7, <1>11 DEF IsClaimPass, S
  <1> QED
    BY <1>1, <1>8, <1>12 DEF es

LEMMA ClaimsRead ==
  ASSUME NEW c, IsClaimSet(c)
  PROVE  CwtClaims(Written(WireClaims(c.claims), c.layers)) =
           Some([f \in Range(Claim) \cup {"extra"} |->
                   IF f = "extra" THEN {<<p[1], p[2]>> : p \in {q \in Range(c.claims) : q[1] \notin Range(Claim)}}
                   ELSE Lookup(c.claims, f)])
  <1> DEFINE cs == c.claims
             v == WireClaims(cs)
             es == ClaimPairs(cs)
             r == ClaimPass(es)
  <1>1. AreClaims(cs) /\ NamesOnce(cs) /\ Len(cs) \in Nat /\ DOMAIN cs = 1 .. Len(cs)
    BY SequenceFacts DEF AreClaims, NamesOnce, IsClaimSet
  <1>2. v = Map(es)
    BY DEF WireClaims, ClaimPairs
  <1>3. Is(v, "map") /\ v.entries = es
    <2> HIDE DEF es, v
    <2> QED
      BY <1>2 DEF Map, Is
  <1> HIDE DEF v, es, r, cs
  <1>4. ExtractClaims(Written(v, c.layers)) = Some(v)
    BY <1>3, ClaimsFound DEF IsClaimSet
  <1>5. IsSome(Some(v)) /\ Get(Some(v)) = v
    BY DEF IsSome, Some, Get, None
  <1>6. CwtClaims(Written(v, c.layers)) = Some(r)
    BY <1>3, <1>4, <1>5 DEF CwtClaims, DecodeClaims, ClaimPass, r
  <1>7. /\ Collected(r, cs, Len(cs)) /\ DOMAIN r = Range(Claim) \cup {"extra"}
        /\ r = [f \in DOMAIN r |-> r[f]]
    BY <1>1, ClaimScanned DEF r, es
  <1>8. "extra" \notin Range(Claim)
    BY ClaimFields
  <1>9. \A f \in Range(Claim) : r[f] = Lookup(cs, f)
    BY <1>1, <1>7, FoundAll DEF Collected
  <1>10. r["extra"] = {<<p[1], p[2]>> : p \in {q \in Range(cs) : q[1] \notin Range(Claim)}}
    <2>1. r["extra"] = {<<cs[i][1], cs[i][2]>> : i \in {j \in 1 .. Len(cs) : cs[j][1] \notin Range(Claim)}}
      BY <1>7 DEF Collected, PrivateOf
    <2> DEFINE J == {j \in 1 .. Len(cs) : cs[j][1] \notin Range(Claim)}
               Q == {q \in Range(cs) : q[1] \notin Range(Claim)}
    <2>2. ASSUME NEW q \in Q
          PROVE  \E j \in J : q = cs[j]
      BY <1>1 DEF Range
    <2>3. ASSUME NEW j \in J
          PROVE  cs[j] \in Q
      BY <1>1 DEF Range
    <2> HIDE DEF J, Q
    <2>4. {<<cs[i][1], cs[i][2]>> : i \in J} = {<<p[1], p[2]>> : p \in Q}
      BY <2>2, <2>3
    <2> QED
      BY <2>1, <2>4 DEF J, Q
  <1> QED
    BY <1>6, <1>7, <1>8, <1>9, <1>10 DEF v, cs

-----------------------------------------------------------------------------
(* The properties.                                                         *)

\* Every call is of a message or a claim set that can be meant, and is answered
\* by the code.
MessagesAsked ==
  \/ call = "cose_headers" /\ sent \in Messages
  \/ call = "cwt_claims" /\ sent \in ClaimSets

HeadersResult ==
  LET d == CoseDecode(Written(WireMessage(sent), sent.layers))
  IN  IF IsSome(d) THEN Some([headers |-> MergedHeaders(Get(d)), payload |-> Get(d).payload]) ELSE None
ClaimsResult == CwtClaims(Written(WireClaims(sent.claims), sent.layers))

MessagesInv ==
  /\ MessagesAsked
  /\ answer \in {None, Some(IF call = "cose_headers" THEN HeadersResult ELSE ClaimsResult)}

LEMMA MessagesStep ==
  ASSUME MessagesInv, [MessagesNext]_vars
  PROVE  MessagesInv'
  <1>1. call' = call /\ sent' = sent
    BY DEF MessagesNext, CoseHeaders, ReadClaims, Answered, Done, vars
  <1>2. MessagesAsked' /\ HeadersResult' = HeadersResult /\ ClaimsResult' = ClaimsResult
    BY <1>1 DEF MessagesInv, MessagesAsked, HeadersResult, ClaimsResult
  <1>3. CASE CoseHeaders
    <2>1. call = "cose_headers" /\ answer' = Some(HeadersResult)
      BY <1>3 DEF CoseHeaders, Answered, HeadersResult
    <2> QED
      BY <1>1, <1>2, <2>1 DEF MessagesInv
  <1>4. CASE ReadClaims
    <2>1. call # "cose_headers" /\ answer' = Some(ClaimsResult)
      BY <1>4 DEF ReadClaims, Answered, ClaimsResult
    <2> QED
      BY <1>1, <1>2, <2>1 DEF MessagesInv
  <1>5. CASE Done \/ UNCHANGED vars
    <2>1. answer' = answer
      BY <1>5 DEF Done, vars
    <2> QED
      BY <1>1, <1>2, <2>1 DEF MessagesInv
  <1> QED
    BY <1>3, <1>4, <1>5 DEF MessagesNext

LEMMA MessagesInvariant == MessagesSpec => []MessagesInv
  <1>1. MessagesInit => MessagesInv
    BY DEF MessagesInit, MessagesInv, MessagesAsked
  <1>2. MessagesInv /\ [MessagesNext]_vars => MessagesInv'
    BY MessagesStep
  <1> QED
    BY <1>1, <1>2, PTL DEF MessagesSpec

\* The headers and the payload of every message come back: under any stack of
\* envelopes that parse() can read, tagged or not, whatever the order of the
\* header entries and whether the protected map is wrapped in a byte string, with
\* the protected map first where both name a parameter.
THEOREM MessagesComeBack == MessagesSpec => []HeadersReadBack
  <1>1. MessagesInv => HeadersReadBack
    <2>1. SUFFICES ASSUME MessagesInv, Answer("cose_headers")
                   PROVE  HeadersReadBack
      BY DEF HeadersReadBack
    <2>2. sent \in Messages /\ IsSome(answer) /\ answer \in {None, Some(HeadersResult)}
      BY <2>1 DEF MessagesInv, MessagesAsked, Answer
    <2>3. Get(answer) = HeadersResult
      BY <2>2 DEF IsSome, Some, Get
    <2> DEFINE d == CoseDecode(Written(WireMessage(sent), sent.layers))
    <2>4. IsMessage(sent)
      BY <2>2, MessagesAssumption
    <2>5. Says(d, sent)
      BY <2>4, MessageRead
    <2> HIDE DEF d
    <2>6. /\ IsSome(d) /\ Get(d).payload = sent.payload
          /\ MergedHeaders(Get(d)) =
               [f \in DOMAIN NoHeaders |-> OrElse(Lookup(sent.protected, f), Lookup(sent.unprotected, f))]
      BY <2>4, <2>5, MessageAnswer
    <2> QED
      BY <2>3, <2>6 DEF HeadersReadBack, HeadersResult, d
  <1> QED
    BY <1>1, MessagesInvariant, PTL

\* The claims of every CWT come back: found through any stack of tags and of
\* messages around messages, whatever their order, an instant the same in each
\* of its forms, and the private claims among them.
THEOREM ClaimsComeBack == MessagesSpec => []ClaimsReadBack
  <1>1. MessagesInv => ClaimsReadBack
    <2>1. SUFFICES ASSUME MessagesInv, Answer("cwt_claims")
                   PROVE  ClaimsReadBack
      BY DEF ClaimsReadBack
    <2>2. sent \in ClaimSets /\ IsSome(answer) /\ answer \in {None, Some(ClaimsResult)}
      BY <2>1 DEF MessagesInv, MessagesAsked, Answer
    <2>3. Get(answer) = ClaimsResult
      BY <2>2 DEF IsSome, Some, Get
    <2>4. IsClaimSet(sent)
      BY <2>2, MessagesAssumption
    <2> QED
      BY <2>3, <2>4, ClaimsRead DEF ClaimsReadBack, ClaimsResult
  <1> QED
    BY <1>1, MessagesInvariant, PTL
=============================================================================
