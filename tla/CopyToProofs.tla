---------------------------- MODULE CopyToProofs ----------------------------
(***************************************************************************)
(* The safety of CopyTo for any number of statements and destinations,     *)
(* rows of any length and any buffer, down to none.  The invariant is      *)
(* stated piece by piece: what an open file holds, followed by what its    *)
(* BufWriter holds, is all that the sink has taken so far of the output,   *)
(* as long as nobody else touched the file.                                *)
(***************************************************************************)
EXTENDS CopyTo, SequenceTheorems, TLAPS

\* The i-th piece of the output of e.
PieceAt(e, i) == <<e, i>>

\* s is where the output of e goes on, from its piece o on.
Continues(e, o, s) == \A i \in 1 .. Len(s) : s[i] = PieceAt(e, o + i)

\* How long the output is, and how much of it the sink has taken.
Total(e) == Start(e, Len(Rows(e)) + 1)
Taken(e) == Start(e, encoded[e] + 1) + part[e]

IsWhole(e, s) == Len(s) = Total(e) /\ Continues(e, 0, s)

\* Storage gives the rows back as they were sent.
StoredInv ==
  \A e \in Execs :
    /\ Len(stored[e]) <= Len(Rows(e))
    /\ \A k \in 1 .. Len(stored[e]) : stored[e][k] = k

\* A row is only partly taken while it is written past the buffer of a file.
Midway(e) ==
  part[e] > 0 =>
    Local(e) /\ encoded[e] < Len(stored[e]) /\ Taken(e) < End(e, encoded[e] + 1)

\* What a phase says of the statement in it.
PhaseInv ==
  \A e \in Execs :
    /\ encoded[e] <= Len(stored[e])
    /\ Midway(e)
    /\ phase[e] = "sink" => encoded[e] = 0 /\ part[e] = 0 /\ buf[e] = <<>> /\ off[e] = 0
    /\ phase[e] \in {"spill", "flush", "drop"} => Local(e)
    /\ phase[e] = "put" => ~Local(e)
    /\ phase[e] \in FileOpen \cup {"put", "ok", "crashed"} => ~Refused(e) /\ Len(stored[e]) = Len(Rows(e))
    /\ phase[e] \in {"flush", "put", "ok"} => encoded[e] = Len(stored[e])

\* The statements that have opened their file and are answerable for it.
Answerable(e) ==
  /\ Local(e) /\ ~touched[e]
  /\ phase[e] \in FileOpen \cup {"ok", "crashed"} \/ (phase[e] = "failed" /\ encoded[e] + off[e] > 0)

\* Nobody else has an answerable statement's file open.
AloneInv ==
  \A e \in Execs : Answerable(e) => \A f \in Rivals(e) : phase[f] \notin FileOpen

\* A file holds the beginning of the output, at most what the sink has taken;
\* while it is open, the BufWriter holds the rest of that.
FileOf(e) ==
  /\ Continues(e, 0, store[Path(e)])
  /\ Len(store[Path(e)]) <= Taken(e)
  /\ phase[e] \in FileOpen =>
       /\ off[e] = Len(store[Path(e)])
       /\ off[e] + Len(buf[e]) = Taken(e)
       /\ Continues(e, off[e], buf[e])

FileInv == \A e \in Execs : Answerable(e) => FileOf(e)

\* The buffer of a remote object holds all that was encoded.
ObjectOf(e) ==
  ~Local(e) /\ phase[e] \in {"encode", "put"} =>
    Len(buf[e]) = Taken(e) /\ Continues(e, 0, buf[e])

ObjectInv == \A e \in Execs : ObjectOf(e)

\* Success leaves the whole output.
OkInv == \A e \in Execs : phase[e] = "ok" /\ ~touched[e] => IsWhole(e, store[Path(e)])

\* A remote object is the old one or the whole output of a statement.
RemoteInv ==
  \A p \in Paths : Dest[p] # "local" =>
    store[p] = <<Old>> \/ \E e \in Execs : Path(e) = p /\ KindOf(e) = "remote" /\ IsWhole(e, store[p])

\* What every step preserves.
WInv == TypeOK /\ StoredInv /\ PhaseInv /\ AloneInv /\ FileInv /\ ObjectInv /\ OkInv /\ RemoteInv

-----------------------------------------------------------------------------
\* Where the parts of a statement live.
LEMMA StatementFacts ==
  ASSUME TypeOK, NEW e \in Execs
  PROVE  /\ Path(e) \in Paths /\ Rows(e) \in Seq(Row) /\ Len(Rows(e)) \in Nat /\ Growing(Rows(e))
         /\ KindOf(e) \in DestKind /\ stmt[e].valid \in BOOLEAN
         /\ stored[e] \in Seq(Nat) /\ Len(stored[e]) \in Nat /\ encoded[e] \in Nat
         /\ part[e] \in Nat
         /\ buf[e] \in Seq(Piece) /\ Len(buf[e]) \in Nat /\ off[e] \in Nat
         /\ store[Path(e)] \in Seq(Piece) /\ Len(store[Path(e)]) \in Nat
         /\ touched[e] \in BOOLEAN /\ BufPieces \in Nat
  <1>1. stmt[e] \in Statement /\ Dest \in [Paths -> DestKind] /\ BufPieces \in Nat
    BY CopyToAssumption DEF TypeOK
  <1>2. Path(e) \in Paths /\ Rows(e) \in Seq(Row) /\ stmt[e].valid \in BOOLEAN /\ Growing(Rows(e))
    BY <1>1 DEF Statement, Path, Rows
  <1> QED
    BY <1>1, <1>2 DEF TypeOK, KindOf

\* Where rows start and end: each behind the ones before it.
LEMMA RowEnds ==
  ASSUME TypeOK, NEW e \in Execs
  PROVE  /\ \A k \in 1 .. Len(Rows(e)) + 1 : Start(e, k) \in Nat
         /\ \A k \in 1 .. Len(Rows(e)) :
              /\ End(e, k) \in Nat /\ Start(e, k) < End(e, k)
              /\ Start(e, k + 1) = End(e, k) /\ End(e, k) <= Total(e)
         /\ Start(e, 1) = 0 /\ Total(e) \in Nat
  <1> DEFINE rows == Rows(e)
  <1>1. rows \in Seq(Row) /\ Len(rows) \in Nat /\ Growing(rows) /\ rows = stmt[e].rows
    BY StatementFacts DEF Rows
  <1>2. \A k \in 1 .. Len(rows) : rows[k].end \in Nat
    <2> HIDE DEF rows
    <2> TAKE k \in 1 .. Len(rows)
    <2>1. rows[k] \in Row
      BY <1>1, ElementOfSeq
    <2> QED
      BY <2>1 DEF Row
  <1>s. \A k : Start(e, k) = StartIn(rows, k) /\ End(e, k) = rows[k].end
    BY <1>1 DEF Start, End
  <1>t. Total(e) = StartIn(rows, Len(rows) + 1)
    BY <1>s DEF Total
  <1> HIDE DEF rows
  <1>3. \A k \in 1 .. Len(rows) + 1 : StartIn(rows, k) \in Nat
    BY <1>1, <1>2 DEF StartIn
  <1>4. \A k \in 1 .. Len(rows) : StartIn(rows, k) < rows[k].end /\ StartIn(rows, k + 1) = rows[k].end
    BY <1>1, <1>2 DEF StartIn, Growing
  <1>5. \A k \in 1 .. Len(rows) : rows[k].end <= StartIn(rows, Len(rows) + 1)
    <2> TAKE k \in 1 .. Len(rows)
    <2>1. CASE k = Len(rows)
      BY <2>1, <1>1, <1>2, <1>4
    <2>2. CASE k # Len(rows)
      <3>1. k + 1 \in 1 .. Len(rows) /\ Len(rows) \in 1 .. Len(rows)
        BY <2>2, <1>1
      <3>2. StartIn(rows, k + 1) < rows[Len(rows)].end
        BY <3>1, <1>1 DEF Growing
      <3> QED
        BY <3>1, <3>2, <1>2, <1>4
    <2> QED
      BY <2>1, <2>2
  <1>6. StartIn(rows, 1) = 0 /\ StartIn(rows, Len(rows) + 1) \in Nat
    BY <1>1, <1>3 DEF StartIn
  <1> QED
    BY <1>s, <1>t, <1>2, <1>3, <1>4, <1>5, <1>6 DEF rows

\* A piece of an output is a piece.
LEMMA PieceType ==
  ASSUME NEW e \in Execs, NEW i \in Nat
  PROVE  PieceAt(e, i) \in Piece
  BY DEF PieceAt, Piece

\* The sink has taken a number of pieces, all of them when all rows are encoded.
LEMMA TakenFacts ==
  ASSUME TypeOK, NEW e \in Execs, encoded[e] <= Len(stored[e]), Len(stored[e]) <= Len(Rows(e)), Midway(e)
  PROVE  /\ Taken(e) \in Nat /\ Taken(e) <= Total(e)
         /\ encoded[e] = Len(Rows(e)) => Taken(e) = Total(e) /\ part[e] = 0
  <1>1. /\ encoded[e] \in Nat /\ part[e] \in Nat /\ Len(stored[e]) \in Nat /\ Len(Rows(e)) \in Nat
        /\ encoded[e] + 1 \in 1 .. Len(Rows(e)) + 1
    BY StatementFacts
  <1>2. Start(e, encoded[e] + 1) \in Nat /\ Total(e) \in Nat
    BY <1>1, RowEnds
  <1>3. CASE encoded[e] = Len(Rows(e))
    BY <1>1, <1>2, <1>3 DEF Taken, Midway, Total
  <1>4. CASE encoded[e] # Len(Rows(e))
    <2>1. encoded[e] + 1 \in 1 .. Len(Rows(e))
      BY <1>1, <1>4
    <2>2. /\ End(e, encoded[e] + 1) \in Nat /\ Start(e, encoded[e] + 1) < End(e, encoded[e] + 1)
          /\ End(e, encoded[e] + 1) <= Total(e)
      BY <2>1, RowEnds
    <2>3. Taken(e) < End(e, encoded[e] + 1)
      BY <1>1, <1>2, <2>2 DEF Taken, Midway
    <2> QED
      BY <1>1, <1>2, <1>4, <2>2, <2>3 DEF Taken
  <1> QED
    BY <1>3, <1>4

\* What is left of the row being written goes on where the sink stands.
LEMMA RestIs ==
  ASSUME TypeOK, StoredInv, PhaseInv, NEW e \in Execs, encoded[e] # Len(stored[e])
  PROVE  /\ NextRow(e) = encoded[e] + 1 /\ encoded[e] + 1 \in 1 .. Len(Rows(e))
         /\ encoded[e] + 1 <= Len(stored[e])
         /\ Rest(e) \in Seq(Piece) /\ Len(Rest(e)) \in Nat /\ Len(Rest(e)) > 0
         /\ Taken(e) \in Nat /\ Taken(e) + Len(Rest(e)) = End(e, encoded[e] + 1)
         /\ Continues(e, Taken(e), Rest(e))
  <1> DEFINE k == encoded[e] + 1
  <1>1. /\ encoded[e] \in Nat /\ part[e] \in Nat /\ Len(stored[e]) \in Nat /\ Len(Rows(e)) \in Nat
        /\ encoded[e] <= Len(stored[e]) /\ Len(stored[e]) <= Len(Rows(e)) /\ Midway(e)
    BY StatementFacts DEF PhaseInv, StoredInv
  <1>2. k \in 1 .. Len(Rows(e)) /\ k \in 1 .. Len(stored[e]) /\ NextRow(e) = k
    BY <1>1 DEF NextRow, StoredInv
  <1> HIDE DEF k
  <1> DEFINE a == Start(e, k)
             z == End(e, k)
             p == part[e]
             row == Pieces(e, k)
             rest == Rest(e)
  <1>3. a \in Nat /\ z \in Nat /\ a < z
    BY <1>1, <1>2, RowEnds
  <1>4. Taken(e) = a + p /\ a + p < z /\ p \in Nat
    BY <1>1, <1>3 DEF Taken, Midway, k
  <1>5. row = [i \in 1 .. z - a |-> PieceAt(e, a + i)]
    BY DEF Pieces, PieceAt
  <1>6. rest = SubSeq(row, p + 1, Len(row))
    BY <1>2 DEF Rest
  <1> HIDE DEF a, z, p, row, rest
  <1>7. \A i \in 1 .. z - a : PieceAt(e, a + i) \in Piece
    BY <1>3, PieceType
  <1>8. row \in Seq(Piece) /\ Len(row) = z - a /\ \A i \in 1 .. z - a : row[i] = PieceAt(e, a + i)
    BY <1>3, <1>5, <1>7
  <1>9. /\ rest \in Seq(Piece) /\ Len(rest) = z - a - p
        /\ \A i \in 1 .. z - a - p : rest[i] = row[p + i]
    <2>1. p <= Len(row)
      BY <1>3, <1>4, <1>8
    <2> QED
      BY <2>1, <1>3, <1>4, <1>6, <1>8
  <1>10. \A i \in 1 .. Len(rest) : rest[i] = PieceAt(e, a + p + i)
    <2> TAKE i \in 1 .. Len(rest)
    <2>1. p + i \in 1 .. z - a /\ a + (p + i) = a + p + i /\ i \in 1 .. z - a - p
      BY <1>3, <1>4, <1>9
    <2> QED
      BY <2>1, <1>8, <1>9
  <1>11. Len(rest) \in Nat /\ Len(rest) > 0 /\ a + p + Len(rest) = z
    BY <1>3, <1>4, <1>9
  <1>12. Continues(e, Taken(e), rest)
    BY <1>4, <1>10 DEF Continues
  <1> QED
    BY <1>1, <1>2, <1>3, <1>4, <1>9, <1>11, <1>12 DEF rest, z, k

\* A stretch of the output followed by the next one is a stretch.
LEMMA ContinueOn ==
  ASSUME NEW e \in Execs, NEW o \in Nat, NEW s \in Seq(Piece), NEW t \in Seq(Piece),
         Continues(e, o, s), Continues(e, o + Len(s), t)
  PROVE  s \o t \in Seq(Piece) /\ Len(s \o t) = Len(s) + Len(t) /\ Continues(e, o, s \o t)
  <1> DEFINE l == Len(s)
             n == Len(t)
             st == s \o t
  <1>1. l \in Nat /\ n \in Nat
    OBVIOUS
  <1>2. /\ st \in Seq(Piece) /\ Len(st) = l + n
        /\ \A i \in 1 .. l + n : st[i] = IF i <= l THEN s[i] ELSE t[i - l]
    BY ConcatProperties
  <1> HIDE DEF st
  <1>3. ASSUME NEW i \in 1 .. l + n PROVE st[i] = PieceAt(e, o + i)
    <2>1. CASE i <= l
      BY <2>1, <1>1, <1>2 DEF Continues
    <2>2. CASE i > l
      <3>1. i - l \in 1 .. n /\ o + l + (i - l) = o + i /\ ~(i <= l)
        BY <2>2, <1>1
      <3> QED
        BY <3>1, <1>2 DEF Continues
    <2> QED
      BY <2>1, <2>2, <1>1
  <1> QED
    BY <1>2, <1>3 DEF Continues, st

\* The first n pieces of a stretch, and the others.
LEMMA ContinueCut ==
  ASSUME NEW e \in Execs, NEW o \in Nat, NEW s \in Seq(Piece), NEW n \in 1 .. Len(s),
         Continues(e, o, s)
  PROVE  /\ SubSeq(s, 1, n) \in Seq(Piece) /\ Len(SubSeq(s, 1, n)) = n
         /\ Continues(e, o, SubSeq(s, 1, n))
         /\ SubSeq(s, n + 1, Len(s)) \in Seq(Piece) /\ Len(SubSeq(s, n + 1, Len(s))) = Len(s) - n
         /\ Continues(e, o + n, SubSeq(s, n + 1, Len(s)))
  <1> DEFINE l == Len(s)
             out == SubSeq(s, 1, n)
             rest == SubSeq(s, n + 1, l)
  <1>1. l \in Nat /\ n \in Nat /\ n >= 1 /\ n <= l
    OBVIOUS
  <1>2. out \in Seq(Piece) /\ Len(out) = n /\ \A i \in 1 .. n : out[i] = s[i]
    BY <1>1
  <1>3. rest \in Seq(Piece) /\ Len(rest) = l - n /\ \A i \in 1 .. l - n : rest[i] = s[n + i]
    BY <1>1
  <1> HIDE DEF l, out, rest
  <1>l. l = Len(s)
    BY DEF l
  <1>4. \A i \in 1 .. n : out[i] = PieceAt(e, o + i)
    BY <1>1, <1>2, <1>l DEF Continues
  <1>5. \A i \in 1 .. l - n : rest[i] = PieceAt(e, o + n + i)
    <2> TAKE i \in 1 .. l - n
    <2>1. n + i \in 1 .. Len(s) /\ o + (n + i) = o + n + i
      BY <1>1, <1>l
    <2> QED
      BY <2>1, <1>3 DEF Continues
  <1> QED
    BY <1>2, <1>3, <1>4, <1>5 DEF Continues, l, out, rest

\* What Whole is, piece by piece.
LEMMA WholeIs ==
  ASSUME TypeOK, NEW e \in Execs
  PROVE  /\ Whole(e) \in Seq(Piece)
         /\ Len(Whole(e)) = Total(e)
         /\ \A i \in 1 .. Total(e) : Whole(e)[i] = PieceAt(e, i)
  <1>1. Total(e) \in Nat
    BY RowEnds
  <1>2. Whole(e) = [i \in 1 .. Total(e) |-> PieceAt(e, i)]
    BY DEF Whole, Total, PieceAt
  <1>3. \A i \in 1 .. Total(e) : PieceAt(e, i) \in Piece
    BY <1>1, PieceType
  <1> QED
    BY <1>1, <1>2, <1>3

\* IsWhole says that a file is the whole output.
LEMMA WholeIsWhole ==
  ASSUME TypeOK, NEW e \in Execs, NEW s \in Seq(Piece), IsWhole(e, s)
  PROVE  s = Whole(e)
  <1>1. Len(s) = Len(Whole(e)) /\ Whole(e) \in Seq(Piece)
    BY WholeIs DEF IsWhole
  <1>2. \A i \in 1 .. Len(s) : s[i] = Whole(e)[i]
    BY <1>1, WholeIs DEF IsWhole, Continues
  <1> QED
    BY <1>1, <1>2, SeqEqual

\* The invariant holds before the first batch.
LEMMA InitW == Init => WInv
  <1> SUFFICES ASSUME Init PROVE WInv
    OBVIOUS
  <1>1. TypeOK
    BY CopyToAssumption DEF Init, TypeOK, Piece, FileOpen, Settled
  <1>2. \A e \in Execs : part[e] = 0
    BY DEF Init
  <1>3. StoredInv /\ PhaseInv /\ OkInv /\ RemoteInv
    BY <1>1, <1>2, StatementFacts DEF Init, StoredInv, PhaseInv, OkInv, RemoteInv, Midway, FileOpen
  <1>4. \A e \in Execs : ~Answerable(e) /\ phase[e] = "sink"
    BY DEF Init, Answerable, FileOpen
  <1>5. AloneInv /\ FileInv /\ ObjectInv
    BY <1>4 DEF AloneInv, FileInv, ObjectInv, ObjectOf
  <1> QED
    BY <1>1, <1>3, <1>5 DEF WInv

-----------------------------------------------------------------------------
(* The steps.                                                              *)

\* stmt, and all that is said of it, never changes.
LEMMA SameStatement ==
  ASSUME UNCHANGED stmt, NEW f \in Execs
  PROVE  /\ Local(f)' = Local(f) /\ Refused(f)' = Refused(f) /\ Rows(f)' = Rows(f)
         /\ Path(f)' = Path(f) /\ Rivals(f)' = Rivals(f) /\ KindOf(f)' = KindOf(f)
         /\ Total(f)' = Total(f)
  BY DEF Local, KindOf, Path, Refused, Rows, Rivals, Total, Start

\* A statement no row of which moves on keeps its place in the output.
LEMMA SameTaken ==
  ASSUME UNCHANGED stmt, NEW f \in Execs, encoded'[f] = encoded[f], part'[f] = part[f]
  PROVE  /\ Taken(f)' = Taken(f)
         /\ stored'[f] = stored[f] => Midway(f)' = Midway(f)
  BY SameStatement DEF Taken, Start, End, Midway

\* A step that leaves the file of f alone, and its buffer while the file is open.
LEMMA FileKept ==
  ASSUME NEW f \in Execs, FileOf(f), UNCHANGED stmt,
         encoded'[f] = encoded[f], part'[f] = part[f], off'[f] = off[f],
         store'[Path(f)] = store[Path(f)],
         phase'[f] \in FileOpen => phase[f] \in FileOpen /\ buf'[f] = buf[f]
  PROVE  FileOf(f)'
  <1>1. Path(f)' = Path(f) /\ Taken(f)' = Taken(f)
    BY SameStatement, SameTaken
  <1>2. Continues(f, 0, store[Path(f)])' /\ (Len(store[Path(f)]) <= Taken(f))'
    BY <1>1 DEF FileOf, Continues, PieceAt
  <1> QED
    BY <1>1, <1>2 DEF FileOf, Continues, PieceAt

\* A step that leaves the buffer of f alone.
LEMMA ObjectKept ==
  ASSUME NEW f \in Execs, ObjectOf(f), UNCHANGED stmt,
         encoded'[f] = encoded[f], part'[f] = part[f], buf'[f] = buf[f],
         phase'[f] \in {"encode", "put"} => phase[f] \in {"encode", "put"} \/ Local(f)
  PROVE  ObjectOf(f)'
  BY SameStatement, SameTaken DEF ObjectOf, Continues, PieceAt

\* A step that changes no remote object.
LEMMA RemoteKept ==
  ASSUME RemoteInv, UNCHANGED stmt, \A p \in Paths : Dest[p] # "local" => store'[p] = store[p]
  PROVE  RemoteInv'
  <1> SUFFICES ASSUME NEW p \in Paths, Dest[p] # "local"
               PROVE  (store[p] = <<Old>> \/ \E f \in Execs : Path(f) = p /\ KindOf(f) = "remote" /\ IsWhole(f, store[p]))'
    BY DEF RemoteInv
  <1>1. store'[p] = store[p]
    OBVIOUS
  <1>2. ASSUME NEW f \in Execs, Path(f) = p, KindOf(f) = "remote", IsWhole(f, store[p])
        PROVE  (Path(f) = p /\ KindOf(f) = "remote" /\ IsWhole(f, store[p]))'
    BY <1>1, <1>2, SameStatement DEF IsWhole, Continues, PieceAt
  <1> QED
    BY <1>1, <1>2 DEF RemoteInv

\* A step that leaves alone what a finished statement is judged by.
LEMMA OkKept ==
  ASSUME OkInv, UNCHANGED stmt,
         \A f \in Execs : phase'[f] = "ok" /\ ~touched'[f] =>
           phase[f] = "ok" /\ ~touched[f] /\ store'[Path(f)] = store[Path(f)]
  PROVE  OkInv'
  <1> SUFFICES ASSUME NEW f \in Execs, phase'[f] = "ok", ~touched'[f]
               PROVE  IsWhole(f, store'[Path(f)])
    BY SameStatement DEF OkInv, IsWhole, Continues, PieceAt
  <1> QED
    BY DEF OkInv

\* A concatenation, element by element.
LEMMA Concat ==
  ASSUME NEW S, NEW s \in Seq(S), NEW t \in Seq(S)
  PROVE  /\ s \o t \in Seq(S)
         /\ Len(s \o t) = Len(s) + Len(t)
         /\ \A i \in 1 .. Len(s) + Len(t) : (s \o t)[i] = IF i <= Len(s) THEN s[i] ELSE t[i - Len(s)]
  BY ConcatProperties

\* A step of e that only moves it on from one phase to another.
LEMMA MoveOn ==
  ASSUME WInv, NEW e \in Execs,
         NEW q \in ({"put"} \cup FileOpen \cup Settled) \ {"crashed"},
         Goto(e, q),
         UNCHANGED <<stmt, stored, encoded, part, buf, off, store, touched>>,
         q \in {"spill", "flush", "drop", "ok"} => Local(e),
         q = "put" => ~Local(e) /\ phase[e] = "encode",
         q = "encode" => Local(e) \/ phase[e] \in {"sink", "encode"},
         q # "failed" => ~Refused(e) /\ Len(stored[e]) = Len(Rows(e)),
         q \in {"flush", "put", "ok"} => encoded[e] = Len(stored[e]),
         q = "ok" => buf[e] = <<>>,
         Local(e) => phase[e] \in FileOpen \/ (q = "failed" /\ encoded[e] + off[e] = 0)
  PROVE  WInv'
  <1>0. TypeOK /\ StoredInv /\ PhaseInv /\ AloneInv /\ FileInv /\ ObjectInv /\ OkInv /\ RemoteInv
    BY DEF WInv
  <1> USE DEF Goto
  <1>1. TypeOK'
    BY <1>0 DEF TypeOK, Local, KindOf, Path
  <1>2. StoredInv'
    BY <1>0 DEF StoredInv, Rows
  <1>p. /\ phase \in [Execs -> {"sink", "put"} \cup FileOpen \cup Settled]
        /\ phase' = [phase EXCEPT ![e] = q]
        /\ \A f \in Execs : /\ Local(f)' = Local(f) /\ Refused(f)' = Refused(f) /\ Rows(f)' = Rows(f)
                            /\ Path(f)' = Path(f) /\ Rivals(f)' = Rivals(f) /\ KindOf(f)' = KindOf(f)
    BY <1>0, SameStatement DEF TypeOK
  <1>m. \A f \in Execs : Midway(f)'
    BY <1>0, SameTaken DEF PhaseInv
  <1>3. PhaseInv'
    BY <1>0, <1>p, <1>m DEF PhaseInv, FileOpen, Settled
  <1>4. \A f \in Execs : Answerable(f)' => Answerable(f)
    BY <1>0, <1>p, StatementFacts DEF Answerable, FileOpen, Settled
  <1>5. AloneInv'
    <2> SUFFICES ASSUME NEW f \in Execs, Answerable(f)', NEW g \in Rivals(f), phase'[g] \in FileOpen
                 PROVE  FALSE
      BY <1>p DEF AloneInv
    <2>1. Answerable(f) /\ g \in Execs /\ phase[g] \notin FileOpen
      BY <1>0, <1>4 DEF AloneInv, Rivals
    <2>2. g = e /\ ~Local(g) /\ Local(f)
      BY <2>1, <1>p DEF Answerable, FileOpen
    <2> QED
      BY <2>2 DEF Rivals, Local, KindOf
  <1>6. FileInv'
    <2> SUFFICES ASSUME NEW f \in Execs, Answerable(f)' PROVE FileOf(f)'
      BY DEF FileInv
    <2>1. Answerable(f) /\ FileOf(f)
      BY <1>0, <1>4 DEF FileInv
    <2>2. phase'[f] \in FileOpen => phase[f] \in FileOpen
      BY <2>1, <1>p DEF Answerable, FileOpen
    <2> QED
      BY <2>1, <2>2, FileKept
  <1>7. ObjectInv'
    <2> SUFFICES ASSUME NEW f \in Execs PROVE ObjectOf(f)'
      BY DEF ObjectInv
    <2>1. ObjectOf(f)
      BY <1>0 DEF ObjectInv
    <2>2. CASE f = e /\ phase[e] = "sink" /\ ~Local(e)
      <3>1. buf[e] = <<>> /\ encoded[e] = 0 /\ part[e] = 0
        BY <2>2, <1>0 DEF PhaseInv
      <3>2. Taken(e) = 0
        BY <3>1, <1>0, RowEnds DEF Taken
      <3>3. Taken(e)' = 0
        BY <3>2, SameTaken
      <3> QED
        BY <2>2, <3>1, <3>3 DEF ObjectOf, Continues
    <2>3. CASE ~(f = e /\ phase[e] = "sink" /\ ~Local(e))
      <3>1. phase'[f] \in {"encode", "put"} => phase[f] \in {"encode", "put"} \/ Local(f)
        BY <2>3, <1>0, <1>p DEF PhaseInv
      <3> QED
        BY <2>1, <3>1, ObjectKept
    <2> QED
      BY <2>2, <2>3
  <1>8. OkInv'
    <2> SUFFICES ASSUME NEW f \in Execs, phase'[f] = "ok", ~touched[f]
                 PROVE  IsWhole(f, store[Path(f)])
      BY <1>p, SameStatement DEF OkInv, IsWhole, Continues, PieceAt
    <2>1. CASE f # e
      BY <2>1, <1>0, <1>p DEF OkInv
    <2>2. CASE f = e
      <3>1. q = "ok" /\ Local(e) /\ phase[e] \in FileOpen /\ Answerable(e)
        BY <2>2, <1>p, <1>0 DEF FileOpen, Answerable
      <3>2. /\ Len(store[Path(e)]) + Len(buf[e]) = Taken(e) /\ Len(buf[e]) = 0
            /\ encoded[e] = Len(Rows(e)) /\ Continues(e, 0, store[Path(e)])
        BY <3>1, <1>0, StatementFacts DEF FileInv, FileOf
      <3>3. Taken(e) = Total(e)
        BY <3>1, <3>2, <1>0, StatementFacts, TakenFacts DEF PhaseInv
      <3> QED
        BY <2>2, <3>2, <3>3, <1>0, StatementFacts DEF IsWhole
    <2> QED
      BY <2>1, <2>2
  <1>9. RemoteInv'
    BY <1>0, RemoteKept
  <1> QED
    BY <1>1, <1>2, <1>3, <1>5, <1>6, <1>7, <1>8, <1>9 DEF WInv

\* A batch goes to the end of what storage holds.
LEMMA WriteBatchStep ==
  ASSUME WInv, NEW e \in Execs, WriteBatch(e)
  PROVE  WInv'
  <1>0. TypeOK /\ StoredInv /\ PhaseInv /\ AloneInv /\ FileInv /\ ObjectInv /\ OkInv /\ RemoteInv
    BY DEF WInv
  <1>1. PICK n \in 1 .. Len(Rows(e)) - Sent(e) : stored' = [stored EXCEPT ![e] = @ \o Batch(e, n)]
    BY DEF WriteBatch, AppendShard
  <1>2. /\ phase[e] = "sink"
        /\ UNCHANGED <<stmt, phase, encoded, part, buf, off, store, touched>>
        /\ \A f \in Execs : /\ Local(f)' = Local(f) /\ Refused(f)' = Refused(f) /\ Rows(f)' = Rows(f)
                            /\ Path(f)' = Path(f) /\ Rivals(f)' = Rivals(f) /\ KindOf(f)' = KindOf(f)
    BY SameStatement DEF WriteBatch
  <1>3. /\ stored[e] \in Seq(Nat) /\ Len(stored[e]) \in Nat /\ Len(Rows(e)) \in Nat
        /\ n \in Nat /\ n + Len(stored[e]) <= Len(Rows(e))
    BY <1>0, StatementFacts DEF Sent
  <1>b. Batch(e, n) = [k \in 1 .. n |-> Len(stored[e]) + k] /\ Batch(e, n) \in Seq(Nat) /\ Len(Batch(e, n)) = n
    BY <1>3 DEF Sent, Batch
  <1>4. stored'[e] = stored[e] \o Batch(e, n) /\ \A f \in Execs \ {e} : stored'[f] = stored[f]
    BY <1>0, <1>1 DEF TypeOK
  <1>5. /\ stored'[e] \in Seq(Nat) /\ Len(stored'[e]) = Len(stored[e]) + n
        /\ \A k \in 1 .. Len(stored[e]) + n :
             stored'[e][k] = IF k <= Len(stored[e]) THEN stored[e][k] ELSE Batch(e, n)[k - Len(stored[e])]
    BY <1>3, <1>b, <1>4, Concat
  <1>c. \A k \in 1 .. Len(stored'[e]) : stored'[e][k] = k
    <2> TAKE k \in 1 .. Len(stored'[e])
    <2>1. k \in 1 .. Len(stored[e]) + n
      BY <1>5
    <2>2. CASE k <= Len(stored[e])
      <3>1. k \in 1 .. Len(stored[e])
        BY <2>1, <2>2, <1>3
      <3>2. stored[e][k] = k
        BY <3>1, <1>0 DEF StoredInv
      <3> QED
        BY <2>1, <2>2, <3>2, <1>5
    <2>3. CASE k > Len(stored[e])
      <3>1. k - Len(stored[e]) \in 1 .. n
        BY <2>1, <2>3, <1>3
      <3>2. Batch(e, n)[k - Len(stored[e])] = Len(stored[e]) + (k - Len(stored[e]))
        BY <3>1, <1>b
      <3> QED
        BY <2>1, <2>3, <3>2, <1>3, <1>5
    <2> QED
      BY <2>1, <2>2, <2>3, <1>3
  <1>6. TypeOK'
    BY <1>0, <1>1, <1>2, <1>5, <1>4 DEF TypeOK
  <1>7. StoredInv'
    <2> SUFFICES ASSUME NEW f \in Execs
                 PROVE  /\ Len(stored'[f]) <= Len(Rows(f))
                        /\ \A k \in 1 .. Len(stored'[f]) : stored'[f][k] = k
      BY <1>2 DEF StoredInv
    <2>1. CASE f = e
      BY <2>1, <1>3, <1>5, <1>c
    <2>2. CASE f # e
      BY <2>2, <1>0, <1>4 DEF StoredInv
    <2> QED
      BY <2>1, <2>2
  <1>8. PhaseInv'
    <2> SUFFICES ASSUME NEW f \in Execs
                 PROVE  /\ encoded[f] <= Len(stored'[f])
                        /\ phase[f] # "sink" => Len(stored'[f]) = Len(stored[f])
                        /\ Midway(f)'
      BY <1>0, <1>2 DEF PhaseInv, FileOpen
    <2>1. CASE f = e
      <3>1. encoded[e] = 0 /\ part[e] = 0
        BY <1>0, <1>2 DEF PhaseInv
      <3>2. Midway(e)'
        BY <3>1, <1>2 DEF Midway
      <3> QED
        BY <2>1, <3>1, <3>2, <1>2, <1>3, <1>5
    <2>2. CASE f # e
      <3>1. stored'[f] = stored[f] /\ Midway(f)
        BY <2>2, <1>0, <1>4 DEF PhaseInv
      <3>2. Midway(f)'
        BY <3>1, <1>2, SameTaken
      <3> QED
        BY <3>1, <3>2, <1>0 DEF PhaseInv
    <2> QED
      BY <2>1, <2>2
  <1>9. AloneInv' /\ FileInv' /\ ObjectInv'
    <2>1. \A f \in Execs : Answerable(f)' = Answerable(f)
      BY <1>2 DEF Answerable
    <2>2. FileInv'
      <3> SUFFICES ASSUME NEW f \in Execs, Answerable(f)' PROVE FileOf(f)'
        BY DEF FileInv
      <3> QED
        BY <2>1, <1>0, <1>2, FileKept DEF FileInv
    <2>3. ObjectInv'
      <3> SUFFICES ASSUME NEW f \in Execs PROVE ObjectOf(f)'
        BY DEF ObjectInv
      <3> QED
        BY <1>0, <1>2, ObjectKept DEF ObjectInv
    <2> QED
      BY <2>1, <2>2, <2>3, <1>0, <1>2 DEF AloneInv
  <1>10. OkInv' /\ RemoteInv'
    BY <1>0, <1>2, OkKept, RemoteKept
  <1> QED
    BY <1>6, <1>7, <1>8, <1>9, <1>10 DEF WInv

\* The file starts empty, and every rival is answerable no more.
LEMMA CreateFileStep ==
  ASSUME WInv, NEW e \in Execs, CreateFile(e)
  PROVE  WInv'
  <1>0. TypeOK /\ StoredInv /\ PhaseInv /\ AloneInv /\ FileInv /\ ObjectInv /\ OkInv /\ RemoteInv
    BY DEF WInv
  <1>1. /\ phase[e] = "sink" /\ Len(stored[e]) = Len(Rows(e)) /\ ~Refused(e) /\ Local(e)
        /\ UNCHANGED <<stmt, stored, encoded, part, buf, off>>
        /\ \A f \in Execs : /\ Local(f)' = Local(f) /\ Refused(f)' = Refused(f) /\ Rows(f)' = Rows(f)
                            /\ Path(f)' = Path(f) /\ Rivals(f)' = Rivals(f) /\ KindOf(f)' = KindOf(f)
    BY SameStatement DEF CreateFile, AllSent, Sent
  <1>2. /\ phase' = [phase EXCEPT ![e] = "encode"]
        /\ store' = [store EXCEPT ![Path(e)] = <<>>]
        /\ touched' = [f \in Execs |->
             touched[f] \/ f \in Rivals(e) \/ (f = e /\ \E g \in Rivals(e) : phase[g] \in FileOpen)]
    BY DEF CreateFile, Goto
  <1>3. TypeOK'
    BY <1>0, <1>1, <1>2, StatementFacts DEF TypeOK, FileOpen
  <1>m. \A f \in Execs : Midway(f)'
    BY <1>0, <1>1, SameTaken DEF PhaseInv
  <1>4. StoredInv' /\ PhaseInv'
    BY <1>0, <1>1, <1>2, <1>m DEF StoredInv, PhaseInv, TypeOK, FileOpen
  <1>5. \A f \in Execs : Answerable(f)' => f = e \/ (Answerable(f) /\ Path(f) # Path(e))
    BY <1>0, <1>1, <1>2 DEF Answerable, Rivals, TypeOK
  <1>6. AloneInv'
    <2> SUFFICES ASSUME NEW f \in Execs, Answerable(f)', NEW g \in Rivals(f), phase'[g] \in FileOpen
                 PROVE  FALSE
      BY <1>1 DEF AloneInv
    <2>1. CASE f = e
      BY <2>1, <1>0, <1>1, <1>2 DEF Answerable, Rivals, TypeOK
    <2>2. CASE f # e
      <3>1. Answerable(f) /\ g # e /\ g \in Execs
        BY <2>2, <1>5 DEF Rivals
      <3> QED
        BY <3>1, <1>0, <1>2 DEF AloneInv, TypeOK
    <2> QED
      BY <2>1, <2>2
  <1>7. FileInv'
    <2> SUFFICES ASSUME NEW f \in Execs, Answerable(f)' PROVE FileOf(f)'
      BY DEF FileInv
    <2>1. CASE f = e
      <3>1. store'[Path(e)] = <<>> /\ encoded[e] = 0 /\ part[e] = 0 /\ buf[e] = <<>> /\ off[e] = 0
        BY <1>0, <1>1, <1>2, StatementFacts DEF PhaseInv, TypeOK
      <3>2. Taken(e) = 0
        BY <3>1, <1>0, RowEnds DEF Taken
      <3>3. Taken(e)' = 0
        BY <3>2, <1>1, SameTaken
      <3> QED
        BY <2>1, <3>1, <3>3, <1>1 DEF FileOf, Continues
    <2>2. CASE f # e
      <3>1. Answerable(f) /\ store'[Path(f)] = store[Path(f)] /\ phase'[f] = phase[f]
        BY <2>2, <1>0, <1>2, <1>5, StatementFacts DEF TypeOK
      <3> QED
        BY <3>1, <1>0, <1>1, FileKept DEF FileInv
    <2> QED
      BY <2>1, <2>2
  <1>8. ObjectInv'
    <2> SUFFICES ASSUME NEW f \in Execs PROVE ObjectOf(f)'
      BY DEF ObjectInv
    <2>1. phase'[f] \in {"encode", "put"} => phase[f] \in {"encode", "put"} \/ Local(f)
      BY <1>0, <1>1, <1>2 DEF TypeOK
    <2> QED
      BY <2>1, <1>0, <1>1, ObjectKept DEF ObjectInv
  <1>9. OkInv'
    <2> SUFFICES ASSUME NEW f \in Execs, phase'[f] = "ok", ~touched'[f]
                 PROVE  phase[f] = "ok" /\ ~touched[f] /\ store'[Path(f)] = store[Path(f)]
      BY <1>0, <1>1, OkKept
    <2>1. f # e /\ phase[f] = "ok" /\ ~touched[f] /\ Path(f) # Path(e)
      BY <1>0, <1>2 DEF TypeOK, Rivals
    <2> QED
      BY <2>1, <1>0, <1>2, StatementFacts DEF TypeOK
  <1>10. RemoteInv'
    <2>1. \A p \in Paths : Dest[p] # "local" => store'[p] = store[p]
      BY <1>0, <1>1, <1>2 DEF Local, KindOf, TypeOK
    <2> QED
      BY <1>0, <1>1, <2>1, RemoteKept
  <1> QED
    BY <1>3, <1>4, <1>6, <1>7, <1>8, <1>9, <1>10 DEF WInv

\* A row that goes into the buffer ends where the next one starts.
LEMMA EncodeRowStep ==
  ASSUME WInv, NEW e \in Execs, EncodeRow(e)
  PROVE  WInv'
  <1>0. TypeOK /\ StoredInv /\ PhaseInv /\ AloneInv /\ FileInv /\ ObjectInv /\ OkInv /\ RemoteInv
    BY DEF WInv
  <1>1. /\ phase[e] = "encode" /\ encoded[e] # Len(stored[e]) /\ Fits(e)
        /\ UNCHANGED <<stmt, phase, stored, off, store, touched>>
        /\ buf' = [buf EXCEPT ![e] = @ \o Rest(e)]
        /\ encoded' = [encoded EXCEPT ![e] = @ + 1]
        /\ part' = [part EXCEPT ![e] = 0]
        /\ \A f \in Execs : /\ Local(f)' = Local(f) /\ Refused(f)' = Refused(f) /\ Rows(f)' = Rows(f)
                            /\ Path(f)' = Path(f) /\ Rivals(f)' = Rivals(f) /\ KindOf(f)' = KindOf(f)
    BY SameStatement DEF EncodeRow, Writing, AllEncoded
  <1>2. /\ encoded[e] + 1 \in 1 .. Len(Rows(e)) /\ encoded[e] + 1 <= Len(stored[e])
        /\ Rest(e) \in Seq(Piece) /\ Len(Rest(e)) \in Nat /\ Taken(e) \in Nat
        /\ Taken(e) + Len(Rest(e)) = End(e, encoded[e] + 1) /\ Continues(e, Taken(e), Rest(e))
    BY <1>0, <1>1, RestIs
  <1>3. /\ encoded'[e] = encoded[e] + 1 /\ part'[e] = 0 /\ buf'[e] = buf[e] \o Rest(e)
        /\ \A f \in Execs \ {e} : encoded'[f] = encoded[f] /\ part'[f] = part[f] /\ buf'[f] = buf[f]
    BY <1>0, <1>1 DEF TypeOK
  <1>4. buf[e] \in Seq(Piece) /\ Len(buf[e]) \in Nat /\ off[e] \in Nat /\ encoded[e] \in Nat
        /\ BufPieces \in Nat /\ Len(store[Path(e)]) \in Nat
    BY <1>0, StatementFacts
  <1>5. buf'[e] \in Seq(Piece) /\ Len(buf'[e]) = Len(buf[e]) + Len(Rest(e))
    BY <1>2, <1>3, <1>4, Concat
  <1>t. Taken(e)' = Taken(e) + Len(Rest(e))
    <2>1. Start(e, encoded[e] + 1 + 1) = End(e, encoded[e] + 1) /\ End(e, encoded[e] + 1) \in Nat
      BY <1>0, <1>2, RowEnds
    <2>2. Taken(e)' = Start(e, encoded[e] + 1 + 1) + 0
      BY <1>1, <1>3 DEF Taken, Start
    <2> QED
      BY <2>1, <2>2, <1>2
  \* What the new pieces go on from is whatever the old ones did.
  <1>c. ASSUME NEW o \in Nat, o + Len(buf[e]) = Taken(e), Continues(e, o, buf[e])
        PROVE  o + Len(buf'[e]) = Taken(e)' /\ Continues(e, o, buf'[e])
    <2>1. Continues(e, o + Len(buf[e]), Rest(e))
      BY <1>2, <1>c
    <2>2. Continues(e, o, buf[e] \o Rest(e))
      BY <2>1, <1>2, <1>4, <1>c, ContinueOn
    <2>3. o + Len(buf'[e]) = Taken(e)'
      BY <1>2, <1>4, <1>5, <1>t, <1>c
    <2> QED
      BY <2>2, <2>3, <1>3
  <1>6. TypeOK'
    <2>1. buf' \in [Execs -> Seq(Piece)] /\ encoded' \in [Execs -> Nat] /\ part' \in [Execs -> Nat]
      BY <1>0, <1>1, <1>3, <1>5 DEF TypeOK
    <2>2. \A f \in Execs : Local(f) => Len(buf'[f]) <= BufPieces
      BY <1>0, <1>1, <1>3, <1>5 DEF TypeOK, Fits
    <2> QED
      BY <2>1, <2>2, <1>0, <1>1 DEF TypeOK
  <1>m. \A f \in Execs : Midway(f)'
    <2> TAKE f \in Execs
    <2>1. CASE f = e
      BY <2>1, <1>3 DEF Midway
    <2>2. CASE f # e
      BY <2>2, <1>0, <1>1, <1>3, SameTaken DEF PhaseInv
    <2> QED
      BY <2>1, <2>2
  <1>7. StoredInv' /\ PhaseInv'
    BY <1>0, <1>1, <1>2, <1>3, <1>m DEF StoredInv, PhaseInv
  <1>8. \A f \in Execs : Answerable(f)' => Answerable(f)
    BY <1>0, <1>1, <1>3 DEF Answerable, FileOpen
  <1>9. AloneInv'
    BY <1>0, <1>1, <1>8 DEF AloneInv
  <1>10. FileInv'
    <2> SUFFICES ASSUME NEW f \in Execs, Answerable(f)' PROVE FileOf(f)'
      BY DEF FileInv
    <2>1. Answerable(f) /\ FileOf(f)
      BY <1>0, <1>8 DEF FileInv
    <2>2. CASE f # e
      BY <2>1, <2>2, <1>1, <1>3, FileKept
    <2>3. CASE f = e
      <3>1. /\ Continues(e, 0, store[Path(e)]) /\ off[e] = Len(store[Path(e)])
            /\ off[e] + Len(buf[e]) = Taken(e) /\ Continues(e, off[e], buf[e])
        BY <2>1, <2>3, <1>1 DEF FileOf, FileOpen
      <3>2. off[e] + Len(buf'[e]) = Taken(e)' /\ Continues(e, off[e], buf'[e])
        BY <3>1, <1>4, <1>c
      <3>3. Len(store[Path(e)]) <= Taken(e)'
        <4>1. \A a, b, c : a \in Nat /\ b \in Nat /\ a + b = c => a <= c
          OBVIOUS
        <4>2. Len(buf'[e]) \in Nat
          BY <1>2, <1>4, <1>5
        <4> QED
          BY <4>1, <4>2, <3>1, <3>2, <1>4
      <3> QED
        BY <2>3, <3>1, <3>2, <3>3, <1>1 DEF FileOf, Continues, PieceAt
    <2> QED
      BY <2>2, <2>3
  <1>11. ObjectInv'
    <2> SUFFICES ASSUME NEW f \in Execs PROVE ObjectOf(f)'
      BY DEF ObjectInv
    <2>1. ObjectOf(f)
      BY <1>0 DEF ObjectInv
    <2>2. CASE f # e
      BY <2>1, <2>2, <1>1, <1>3, ObjectKept
    <2>3. CASE f = e
      <3> SUFFICES ASSUME ~Local(e) PROVE Len(buf'[e]) = Taken(e)' /\ Continues(e, 0, buf'[e])
        BY <2>3, <1>1 DEF ObjectOf, Continues, PieceAt
      <3>1. 0 + Len(buf[e]) = Taken(e) /\ Continues(e, 0, buf[e])
        BY <2>1, <2>3, <1>1, <1>4 DEF ObjectOf
      <3>2. 0 + Len(buf'[e]) = Taken(e)' /\ Continues(e, 0, buf'[e])
        BY <3>1, <1>c
      <3> QED
        BY <3>2, <1>2, <1>4, <1>5
    <2> QED
      BY <2>2, <2>3
  <1>12. OkInv' /\ RemoteInv'
    BY <1>0, <1>1, OkKept, RemoteKept
  <1> QED
    BY <1>6, <1>7, <1>9, <1>10, <1>11, <1>12 DEF WInv

\* What n pieces written at the end of a file leave there.
LEMMA OverwriteEnd ==
  ASSUME NEW file \in Seq(Piece), NEW s \in Seq(Piece)
  PROVE  /\ Overwrite(file, Len(file), s) \in Seq(Piece)
         /\ Len(Overwrite(file, Len(file), s)) = Len(file) + Len(s)
         /\ \A i \in 1 .. Len(file) + Len(s) :
              Overwrite(file, Len(file), s)[i] = IF i <= Len(file) THEN file[i] ELSE s[i - Len(file)]
  <1> DEFINE l == Len(file)
             n == Len(s)
             new == Overwrite(file, l, s)
  <1>1. l \in Nat /\ n \in Nat
    OBVIOUS
  <1>2. (IF l + n > l THEN l + n ELSE l) = l + n
    BY <1>1
  <1>3. new = [i \in 1 .. l + n |-> IF l < i /\ i <= l + n THEN s[i - l] ELSE IF i <= l THEN file[i] ELSE Hole]
    BY <1>2 DEF Overwrite
  <1>4. \A i \in 1 .. l + n : new[i] = IF i <= l THEN file[i] ELSE s[i - l]
    BY <1>1, <1>3
  <1>5. \A i \in 1 .. l + n : new[i] \in Piece
    <2> TAKE i \in 1 .. l + n
    <2>1. CASE i <= l
      BY <2>1, <1>1, <1>4, ElementOfSeq
    <2>2. CASE i > l
      BY <2>2, <1>1, <1>4, ElementOfSeq
    <2> QED
      BY <2>1, <2>2, <1>1
  <1>6. new \in Seq(Piece) /\ Len(new) = l + n
    BY <1>1, <1>3, <1>5
  <1> QED
    BY <1>4, <1>6

\* Wherever they are written, a file stays a file.
LEMMA OverwriteType ==
  ASSUME NEW file \in Seq(Piece), NEW s \in Seq(Piece), NEW o \in Nat
  PROVE  Overwrite(file, o, s) \in Seq(Piece)
  <1> DEFINE l == Len(file)
             n == Len(s)
             top == IF o + n > l THEN o + n ELSE l
             new == Overwrite(file, o, s)
  <1>1. l \in Nat /\ n \in Nat /\ top \in Nat
    OBVIOUS
  <1>2. new = [i \in 1 .. top |-> IF o < i /\ i <= o + n THEN s[i - o] ELSE IF i <= l THEN file[i] ELSE Hole]
    BY DEF Overwrite
  <1>3. \A i \in 1 .. top : new[i] \in Piece
    <2> TAKE i \in 1 .. top
    <2>1. CASE o < i /\ i <= o + n
      <3>1. i - o \in 1 .. n
        BY <2>1, <1>1
      <3> QED
        BY <2>1, <3>1, <1>2, ElementOfSeq
    <2>2. CASE ~(o < i /\ i <= o + n) /\ i <= l
      <3>1. i \in 1 .. l
        BY <2>2, <1>1
      <3> QED
        BY <2>2, <3>1, <1>2, ElementOfSeq
    <2>3. CASE ~(o < i /\ i <= o + n) /\ ~(i <= l)
      BY <2>3, <1>2 DEF Piece
    <2> QED
      BY <2>1, <2>2, <2>3
  <1> HIDE DEF top
  <1> QED
    BY <1>1, <1>2, <1>3

\* Whoever writes out at its own offset appends to a file nobody else touches;
\* whoever else is answerable for a file is so for another one.
LEMMA AppendStep ==
  ASSUME WInv, NEW e \in Execs, NEW out \in Seq(Piece), Local(e), phase[e] \in FileOpen,
         UNCHANGED <<stmt, phase, stored, touched>>,
         store' = [store EXCEPT ![Path(e)] = Overwrite(@, off[e], out)],
         off' = [off EXCEPT ![e] = @ + Len(out)],
         \A f \in Execs \ {e} : encoded'[f] = encoded[f] /\ part'[f] = part[f] /\ buf'[f] = buf[f],
         Answerable(e) =>
           /\ Continues(e, off[e], out) /\ Continues(e, off'[e], buf'[e])
           /\ off'[e] + Len(buf'[e]) = Taken(e)' /\ off'[e] <= Taken(e)'
  PROVE  /\ AloneInv' /\ FileInv' /\ ObjectInv' /\ OkInv' /\ RemoteInv'
         /\ off' \in [Execs -> Nat] /\ store' \in [Paths -> Seq(Piece)]
  <1>0. TypeOK /\ PhaseInv /\ AloneInv /\ FileInv /\ ObjectInv /\ OkInv /\ RemoteInv
    BY DEF WInv
  <1>2. \A f \in Execs : /\ Local(f)' = Local(f) /\ Refused(f)' = Refused(f) /\ Rows(f)' = Rows(f)
                        /\ Path(f)' = Path(f) /\ Rivals(f)' = Rivals(f) /\ KindOf(f)' = KindOf(f)
    BY SameStatement
  <1> DEFINE here == store[Path(e)]
             new == Overwrite(here, off[e], out)
  <1>3. here \in Seq(Piece) /\ off[e] \in Nat /\ Len(out) \in Nat /\ Path(e) \in Paths
    BY <1>0, StatementFacts
  <1>4. new \in Seq(Piece)
    BY <1>3, OverwriteType
  <1>6. /\ off'[e] = off[e] + Len(out) /\ store'[Path(e)] = new
        /\ \A f \in Execs \ {e} : off'[f] = off[f]
        /\ \A p \in Paths \ {Path(e)} : store'[p] = store[p]
    BY <1>0, <1>3 DEF TypeOK
  <1> HIDE DEF here, new
  <1>7. off' \in [Execs -> Nat] /\ store' \in [Paths -> Seq(Piece)]
    <2>1. \A f \in Execs : off'[f] \in Nat
      BY <1>0, <1>3, <1>6 DEF TypeOK
    <2>2. \A p \in Paths : store'[p] \in Seq(Piece)
      BY <1>0, <1>4, <1>6 DEF TypeOK
    <2>3. off' = [f \in Execs |-> off'[f]] /\ store' = [p \in Paths |-> store'[p]]
      BY <1>0 DEF TypeOK
    <2> QED
      BY <2>1, <2>2, <2>3
  <1>9. \A f \in Execs : Answerable(f)' <=> Answerable(f)
    BY <1>2, <1>6 DEF Answerable, FileOpen
  <1>10. AloneInv'
    BY <1>0, <1>2, <1>9 DEF AloneInv
  <1>11. \A f \in Execs \ {e} : Answerable(f) => Path(f) # Path(e)
    BY <1>0 DEF AloneInv, Rivals
  <1>12. FileInv'
    <2> SUFFICES ASSUME NEW f \in Execs, Answerable(f)' PROVE FileOf(f)'
      BY DEF FileInv
    <2>0. Answerable(f) /\ FileOf(f)
      BY <1>0, <1>9 DEF FileInv
    <2>1. CASE f # e
      <3>1. store'[Path(f)] = store[Path(f)] /\ off'[f] = off[f]
        BY <2>0, <2>1, <1>0, <1>6, <1>11, StatementFacts
      <3> QED
        BY <2>0, <2>1, <3>1, FileKept
    <2>2. CASE f = e
      <3>1. Continues(e, 0, here) /\ off[e] = Len(here)
        BY <2>0, <2>2 DEF FileOf, here
      <3>2. /\ Len(new) = off[e] + Len(out)
            /\ \A i \in 1 .. off[e] + Len(out) : new[i] = IF i <= off[e] THEN here[i] ELSE out[i - off[e]]
        <4>1. /\ Len(Overwrite(here, Len(here), out)) = Len(here) + Len(out)
              /\ \A i \in 1 .. Len(here) + Len(out) : Overwrite(here, Len(here), out)[i] =
                   IF i <= Len(here) THEN here[i] ELSE out[i - Len(here)]
          BY <1>3, OverwriteEnd
        <4>2. new = Overwrite(here, Len(here), out)
          BY <3>1 DEF new
        <4> QED
          BY <4>1, <4>2, <3>1
      <3>a. Continues(e, off[e], out)
        BY <2>0, <2>2
      <3>3. Continues(e, 0, new)
        <4> SUFFICES ASSUME NEW i \in 1 .. off[e] + Len(out) PROVE new[i] = PieceAt(e, i)
          BY <3>2, <1>3 DEF Continues
        <4>1. CASE i <= off[e]
          <5>1. i \in 1 .. Len(here) /\ 0 + i = i
            BY <4>1, <3>1, <1>3
          <5> QED
            BY <4>1, <5>1, <3>1, <3>2 DEF Continues
        <4>2. CASE i > off[e]
          <5>1. i - off[e] \in 1 .. Len(out) /\ off[e] + (i - off[e]) = i /\ ~(i <= off[e])
            BY <4>2, <1>3
          <5> QED
            BY <5>1, <3>2, <3>a DEF Continues
        <4> QED
          BY <4>1, <4>2, <1>3
      <3>4. Continues(e, 0, store'[Path(e)]) /\ Len(store'[Path(e)]) = off'[e]
        BY <3>2, <3>3, <1>6
      <3> QED
        BY <2>0, <2>2, <3>4, <1>2 DEF FileOf, Continues, PieceAt
    <2> QED
      BY <2>1, <2>2
  <1>13. ObjectInv'
    <2> SUFFICES ASSUME NEW f \in Execs PROVE ObjectOf(f)'
      BY DEF ObjectInv
    <2>1. CASE f = e
      BY <2>1, <1>2 DEF ObjectOf
    <2>2. CASE f # e
      BY <2>2, <1>0, ObjectKept DEF ObjectInv
    <2> QED
      BY <2>1, <2>2
  <1>14. OkInv'
    <2>1. ASSUME NEW f \in Execs, phase[f] = "ok", ~touched[f]
          PROVE  store'[Path(f)] = store[Path(f)]
      <3>1. f # e
        BY <2>1 DEF FileOpen
      <3>2. CASE Local(f)
        BY <2>1, <3>1, <3>2, <1>0, <1>6, <1>11, StatementFacts DEF Answerable
      <3>3. CASE ~Local(f)
        BY <3>3, <1>0, <1>6, StatementFacts DEF Local, KindOf
      <3> QED
        BY <3>2, <3>3
    <2> QED
      BY <2>1, <1>0, OkKept
  <1>15. RemoteInv'
    BY <1>0, <1>6, RemoteKept DEF Local, KindOf
  <1> QED
    BY <1>7, <1>10, <1>12, <1>13, <1>14, <1>15

\* Pieces leave the buffer for the file.
LEMMA WriteSomeStep ==
  ASSUME WInv, NEW e \in Execs, WriteSome(e)
  PROVE  WInv'
  <1>0. TypeOK /\ StoredInv /\ PhaseInv /\ AloneInv /\ FileInv /\ ObjectInv /\ OkInv /\ RemoteInv
    BY DEF WInv
  <1> DEFINE l == Len(buf[e])
  <1>1. PICK n \in 1 .. l :
          /\ store' = [store EXCEPT ![Path(e)] = Overwrite(@, off[e], SubSeq(buf[e], 1, n))]
          /\ off' = [off EXCEPT ![e] = @ + n]
          /\ buf' = [buf EXCEPT ![e] = SubSeq(@, n + 1, Len(@))]
    BY DEF WriteSome, Drain
  <1> DEFINE out == SubSeq(buf[e], 1, n)
             rest == SubSeq(buf[e], n + 1, l)
  <1>2. /\ phase[e] \in {"spill", "flush", "drop"} /\ phase[e] \in FileOpen /\ Local(e)
        /\ UNCHANGED <<stmt, phase, stored, encoded, part, touched>>
        /\ \A f \in Execs : /\ Local(f)' = Local(f) /\ Refused(f)' = Refused(f) /\ Rows(f)' = Rows(f)
                            /\ Path(f)' = Path(f) /\ Rivals(f)' = Rivals(f) /\ KindOf(f)' = KindOf(f)
    BY <1>0, SameStatement DEF WriteSome, PhaseInv, FileOpen
  <1>3. /\ buf[e] \in Seq(Piece) /\ l \in Nat /\ n \in Nat /\ n >= 1 /\ n <= l
        /\ off[e] \in Nat /\ BufPieces \in Nat
    BY <1>0, StatementFacts
  <1>4. out \in Seq(Piece) /\ Len(out) = n /\ rest \in Seq(Piece) /\ Len(rest) = l - n
    BY <1>3
  <1>6. /\ buf'[e] = rest /\ off'[e] = off[e] + n
        /\ \A f \in Execs \ {e} : buf'[f] = buf[f] /\ off'[f] = off[f]
    BY <1>0, <1>1 DEF TypeOK
  <1>a. ASSUME Answerable(e)
        PROVE  /\ Continues(e, off[e], out) /\ Continues(e, off'[e], buf'[e])
               /\ off'[e] + Len(buf'[e]) = Taken(e)' /\ off'[e] <= Taken(e)'
    <2>1. off[e] + l = Taken(e) /\ Continues(e, off[e], buf[e])
      BY <1>a, <1>0, <1>2 DEF FileInv, FileOf
    <2>2. Continues(e, off[e], out) /\ Continues(e, off[e] + n, rest)
      BY <2>1, <1>3, ContinueCut
    <2>3. Taken(e)' = Taken(e)
      BY <1>2, SameTaken
    <2>4. off[e] + n + (l - n) = off[e] + l /\ off[e] + n <= off[e] + l
      BY <1>3
    <2> QED
      BY <2>1, <2>2, <2>3, <2>4, <1>4, <1>6
  <1> HIDE DEF out, rest
  <1>b. /\ AloneInv' /\ FileInv' /\ ObjectInv' /\ OkInv' /\ RemoteInv'
        /\ off' \in [Execs -> Nat] /\ store' \in [Paths -> Seq(Piece)]
    <2>1. store' = [store EXCEPT ![Path(e)] = Overwrite(@, off[e], out)] /\ off' = [off EXCEPT ![e] = @ + Len(out)]
      BY <1>1, <1>4 DEF out
    <2>2. \A f \in Execs \ {e} : encoded'[f] = encoded[f] /\ part'[f] = part[f] /\ buf'[f] = buf[f]
      BY <1>2, <1>6
    <2> QED
      BY <2>1, <2>2, <1>2, <1>4, <1>a, AppendStep
  <1>7. TypeOK'
    <2>1. buf' \in [Execs -> Seq(Piece)]
      BY <1>0, <1>1, <1>4 DEF TypeOK, rest
    <2>2. \A f \in Execs : Local(f) => Len(buf'[f]) <= BufPieces
      <3> TAKE f \in Execs
      <3> HAVE Local(f)
      <3>1. Len(buf[f]) <= BufPieces
        BY <1>0 DEF TypeOK
      <3>2. Len(buf'[e]) = l - n
        BY <1>4, <1>6
      <3> QED
        BY <3>1, <3>2, <1>3, <1>6
    <2> QED
      BY <2>1, <2>2, <1>0, <1>2, <1>b DEF TypeOK
  <1>8. StoredInv' /\ PhaseInv'
    <2>1. \A f \in Execs : Midway(f)'
      BY <1>0, <1>2, SameTaken DEF PhaseInv
    <2> QED
      BY <2>1, <1>0, <1>2, <1>6 DEF StoredInv, PhaseInv
  <1> QED
    BY <1>7, <1>8, <1>b DEF WInv

\* Pieces of a long row go to the file past the empty buffer.
LEMMA WriteRowStep ==
  ASSUME WInv, NEW e \in Execs, WriteRow(e)
  PROVE  WInv'
  <1>0. TypeOK /\ StoredInv /\ PhaseInv /\ AloneInv /\ FileInv /\ ObjectInv /\ OkInv /\ RemoteInv
    BY DEF WInv
  <1> DEFINE k == encoded[e] + 1
             l == Len(Rest(e))
  <1>1. PICK n \in 1 .. l :
          /\ store' = [store EXCEPT ![Path(e)] = Overwrite(@, off[e], SubSeq(Rest(e), 1, n))]
          /\ off' = [off EXCEPT ![e] = @ + n]
          /\ part' = [part EXCEPT ![e] = IF n = l THEN 0 ELSE @ + n]
          /\ encoded' = [encoded EXCEPT ![e] = IF n = l THEN @ + 1 ELSE @]
    BY DEF WriteRow, RowWritten
  <1> DEFINE out == SubSeq(Rest(e), 1, n)
  <1>2. /\ phase[e] = "encode" /\ phase[e] \in FileOpen /\ encoded[e] # Len(stored[e])
        /\ ~Fits(e) /\ Local(e) /\ buf[e] = <<>>
        /\ UNCHANGED <<stmt, phase, stored, buf, touched>>
        /\ \A f \in Execs : /\ Local(f)' = Local(f) /\ Refused(f)' = Refused(f) /\ Rows(f)' = Rows(f)
                            /\ Path(f)' = Path(f) /\ Rivals(f)' = Rivals(f) /\ KindOf(f)' = KindOf(f)
    BY SameStatement DEF WriteRow, Writing, AllEncoded, Fits, FileOpen
  <1>3. /\ k \in 1 .. Len(Rows(e)) /\ k <= Len(stored[e])
        /\ Rest(e) \in Seq(Piece) /\ l \in Nat /\ Taken(e) \in Nat
        /\ Taken(e) + l = End(e, k) /\ Continues(e, Taken(e), Rest(e))
        /\ encoded[e] \in Nat /\ part[e] \in Nat /\ off[e] \in Nat /\ n \in Nat /\ n >= 1 /\ n <= l
    BY <1>0, <1>2, RestIs, StatementFacts
  <1>4. out \in Seq(Piece) /\ Len(out) = n /\ Continues(e, Taken(e), out)
    BY <1>3, ContinueCut
  <1>5. /\ off'[e] = off[e] + n
        /\ part'[e] = (IF n = l THEN 0 ELSE part[e] + n)
        /\ encoded'[e] = (IF n = l THEN k ELSE encoded[e])
        /\ \A f \in Execs \ {e} : encoded'[f] = encoded[f] /\ part'[f] = part[f]
        /\ encoded' \in [Execs -> Nat] /\ part' \in [Execs -> Nat]
    <2>1. encoded \in [Execs -> Nat] /\ part \in [Execs -> Nat] /\ off \in [Execs -> Nat]
      BY <1>0 DEF TypeOK
    <2> QED
      BY <2>1, <1>1, <1>3
  <1>t. Taken(e)' = Taken(e) + n
    <2>1. CASE n = l
      <3>1. Start(e, k + 1) = End(e, k) /\ End(e, k) \in Nat
        BY <1>0, <1>3, RowEnds
      <3>2. Taken(e)' = Start(e, k + 1) + 0
        BY <2>1, <1>2, <1>5 DEF Taken, Start
      <3> QED
        BY <2>1, <3>1, <3>2, <1>3
    <2>2. CASE n # l
      <3>1. Start(e, k) \in Nat
        BY <1>0, <1>3, RowEnds
      <3>2. Taken(e)' = Start(e, k) + (part[e] + n)
        BY <2>2, <1>2, <1>5 DEF Taken, Start
      <3> QED
        BY <3>1, <3>2, <1>3 DEF Taken
    <2> QED
      BY <2>1, <2>2
  <1>a. ASSUME Answerable(e)
        PROVE  /\ Continues(e, off[e], out) /\ Continues(e, off'[e], buf'[e])
               /\ off'[e] + Len(buf'[e]) = Taken(e)' /\ off'[e] <= Taken(e)'
    <2>1. off[e] + Len(buf[e]) = Taken(e)
      BY <1>a, <1>0, <1>2 DEF FileInv, FileOf
    <2>2. off[e] = Taken(e) /\ Len(buf'[e]) = 0 /\ buf'[e] = <<>>
      BY <2>1, <1>2, <1>3
    <2>3. Continues(e, off'[e], buf'[e])
      BY <2>2 DEF Continues
    <2> QED
      BY <2>2, <2>3, <1>3, <1>4, <1>5, <1>t
  <1> HIDE DEF out
  <1>b. /\ AloneInv' /\ FileInv' /\ ObjectInv' /\ OkInv' /\ RemoteInv'
        /\ off' \in [Execs -> Nat] /\ store' \in [Paths -> Seq(Piece)]
    <2>1. store' = [store EXCEPT ![Path(e)] = Overwrite(@, off[e], out)] /\ off' = [off EXCEPT ![e] = @ + Len(out)]
      BY <1>1, <1>4 DEF out
    <2>2. \A f \in Execs \ {e} : encoded'[f] = encoded[f] /\ part'[f] = part[f] /\ buf'[f] = buf[f]
      BY <1>2, <1>5
    <2> QED
      BY <2>1, <2>2, <1>2, <1>4, <1>a, AppendStep
  <1>7. TypeOK'
    BY <1>0, <1>2, <1>5, <1>b DEF TypeOK
  <1>8. StoredInv' /\ PhaseInv'
    <2>1. Midway(e)'
      <3> SUFFICES ASSUME n # l PROVE encoded[e] < Len(stored[e]) /\ Taken(e)' < End(e, k)
        BY <1>2, <1>5 DEF Midway, End
      <3> QED
        BY <1>0, <1>3, <1>t, StatementFacts
    <2>2. \A f \in Execs \ {e} : Midway(f)'
      BY <1>0, <1>2, <1>5, SameTaken DEF PhaseInv
    <2>3. encoded'[e] <= Len(stored[e])
      BY <1>0, <1>3, <1>5, StatementFacts DEF PhaseInv
    <2>4. StoredInv'
      BY <1>0, <1>2 DEF StoredInv
    <2>5. \A f \in Execs : encoded'[f] <= Len(stored[f]) /\ Midway(f)'
      BY <2>1, <2>2, <2>3, <1>0, <1>5 DEF PhaseInv
    <2>6. \A f \in Execs : f # e => encoded'[f] = encoded[f] /\ part'[f] = part[f] /\ off'[f] = off[f]
      BY <1>0, <1>1, <1>5 DEF TypeOK
    <2> QED
      BY <2>4, <2>5, <2>6, <1>0, <1>2 DEF PhaseInv, FileOpen
  <1> QED
    BY <1>7, <1>8, <1>b DEF WInv

\* The object is stored, whether or not close() hears of it.
LEMMA PutStored ==
  ASSUME WInv, NEW e \in Execs, NEW q \in {"ok", "failed"},
         phase[e] = "put", KindOf(e) = "remote", PutObject(e), Goto(e, q),
         UNCHANGED <<stmt, stored, encoded, part, buf, off>>
  PROVE  WInv'
  <1>0. TypeOK /\ StoredInv /\ PhaseInv /\ AloneInv /\ FileInv /\ ObjectInv /\ OkInv /\ RemoteInv
    BY DEF WInv
  <1>1. /\ ~Local(e) /\ Path(e) \in Paths /\ Dest[Path(e)] # "local"
        /\ \A f \in Execs : /\ Local(f)' = Local(f) /\ Refused(f)' = Refused(f) /\ Rows(f)' = Rows(f)
                            /\ Path(f)' = Path(f) /\ Rivals(f)' = Rivals(f) /\ KindOf(f)' = KindOf(f)
    BY <1>0, SameStatement, StatementFacts DEF Local, KindOf
  <1>2. /\ phase' = [phase EXCEPT ![e] = q]
        /\ store' = [store EXCEPT ![Path(e)] = buf[e]]
        /\ touched' = [f \in Execs |-> touched[f] \/ f \in Rivals(e)]
    BY DEF PutObject, Goto
  <1>3. IsWhole(e, buf[e])
    <2>1. encoded[e] = Len(Rows(e)) /\ Taken(e) = Total(e)
      BY <1>0, StatementFacts, TakenFacts DEF PhaseInv
    <2> QED
      BY <2>1, <1>0, <1>1 DEF ObjectInv, ObjectOf, IsWhole
  <1>4. TypeOK'
    BY <1>0, <1>1, <1>2, StatementFacts DEF TypeOK, FileOpen, Settled
  <1>m. \A f \in Execs : Midway(f)'
    BY <1>0, SameTaken DEF PhaseInv
  <1>5. StoredInv' /\ PhaseInv'
    BY <1>0, <1>1, <1>2, <1>m DEF StoredInv, PhaseInv, TypeOK, FileOpen
  <1>6. \A f \in Execs : phase'[f] \in FileOpen \cup {"encode", "put", "sink", "crashed"} =>
                           f # e /\ phase'[f] = phase[f]
    BY <1>0, <1>2 DEF TypeOK, FileOpen
  <1>7. \A f \in Execs : Answerable(f)' => Answerable(f) /\ f # e /\ store'[Path(f)] = store[Path(f)]
    <2> SUFFICES ASSUME NEW f \in Execs, Answerable(f)'
                 PROVE  Answerable(f) /\ f # e /\ store'[Path(f)] = store[Path(f)]
      OBVIOUS
    <2>1. Local(f) /\ f # e
      BY <1>1 DEF Answerable
    <2>2. Answerable(f)
      BY <2>1, <1>0, <1>1, <1>2 DEF Answerable, TypeOK
    <2> QED
      BY <2>1, <2>2, <1>0, <1>1, <1>2, StatementFacts DEF TypeOK, Local, KindOf
  <1>8. AloneInv'
    <2> SUFFICES ASSUME NEW f \in Execs, Answerable(f)', NEW g \in Rivals(f), phase'[g] \in FileOpen
                 PROVE  FALSE
      BY <1>1 DEF AloneInv
    <2>1. Answerable(f) /\ phase[g] \in FileOpen
      BY <1>6, <1>7 DEF Rivals
    <2> QED
      BY <2>1, <1>0 DEF AloneInv
  <1>9. FileInv'
    <2> SUFFICES ASSUME NEW f \in Execs, Answerable(f)' PROVE FileOf(f)'
      BY DEF FileInv
    <2>1. /\ Answerable(f) /\ FileOf(f) /\ store'[Path(f)] = store[Path(f)]
          /\ phase'[f] \in FileOpen => phase[f] \in FileOpen
      BY <1>0, <1>6, <1>7 DEF FileInv
    <2> QED
      BY <2>1, FileKept
  <1>10. ObjectInv'
    <2> SUFFICES ASSUME NEW f \in Execs PROVE ObjectOf(f)'
      BY DEF ObjectInv
    <2>1. ObjectOf(f) /\ (phase'[f] \in {"encode", "put"} => phase[f] \in {"encode", "put"})
      BY <1>0, <1>6 DEF ObjectInv
    <2> QED
      BY <2>1, ObjectKept
  <1>11. OkInv'
    <2> SUFFICES ASSUME NEW f \in Execs, phase'[f] = "ok", ~touched'[f]
                 PROVE  IsWhole(f, store'[Path(f)])
      BY <1>1, SameStatement DEF OkInv, IsWhole, Continues, PieceAt
    <2>1. CASE f = e
      BY <2>1, <1>0, <1>1, <1>2, <1>3 DEF TypeOK
    <2>2. CASE f # e
      <3>1. phase[f] = "ok" /\ ~touched[f] /\ Path(f) # Path(e) /\ Path(f) \in Paths
        BY <2>2, <1>0, <1>2, StatementFacts DEF TypeOK, Rivals
      <3>2. store'[Path(f)] = store[Path(f)]
        BY <3>1, <1>0, <1>2 DEF TypeOK
      <3> QED
        BY <3>1, <3>2, <1>0 DEF OkInv
    <2> QED
      BY <2>1, <2>2
  <1>12. RemoteInv'
    <2> SUFFICES ASSUME NEW p \in Paths, Dest[p] # "local"
                 PROVE  \/ store'[p] = <<Old>>
                        \/ \E f \in Execs : Path(f) = p /\ KindOf(f) = "remote" /\ IsWhole(f, store'[p])
      BY <1>1, SameStatement DEF RemoteInv, IsWhole, Continues, PieceAt
    <2>1. CASE p = Path(e)
      BY <2>1, <1>0, <1>1, <1>2, <1>3 DEF TypeOK
    <2>2. CASE p # Path(e)
      <3>1. store'[p] = store[p]
        BY <2>2, <1>0, <1>2 DEF TypeOK
      <3> QED
        BY <3>1, <1>0 DEF RemoteInv
    <2> QED
      BY <2>1, <2>2
  <1> QED
    BY <1>4, <1>5, <1>8, <1>9, <1>10, <1>11, <1>12 DEF WInv

\* A crash loses the buffer and leaves the file as it is.
LEMMA CrashStep ==
  ASSUME WInv, NEW e \in Execs, Crash(e)
  PROVE  WInv'
  <1>0. TypeOK /\ StoredInv /\ PhaseInv /\ AloneInv /\ FileInv /\ ObjectInv /\ OkInv /\ RemoteInv
    BY DEF WInv
  <1>1. /\ phase[e] \in FileOpen \cup {"put"}
        /\ phase' = [phase EXCEPT ![e] = "crashed"]
        /\ buf' = [buf EXCEPT ![e] = <<>>]
        /\ UNCHANGED <<stmt, stored, encoded, part, off, store, touched>>
        /\ \A f \in Execs : /\ Local(f)' = Local(f) /\ Refused(f)' = Refused(f) /\ Rows(f)' = Rows(f)
                            /\ Path(f)' = Path(f) /\ Rivals(f)' = Rivals(f) /\ KindOf(f)' = KindOf(f)
    BY SameStatement DEF Crash, Goto
  <1>2. phase'[e] = "crashed" /\ \A f \in Execs \ {e} : phase'[f] = phase[f] /\ buf'[f] = buf[f]
    BY <1>0, <1>1 DEF TypeOK
  <1>3. TypeOK'
    BY <1>0, <1>1, StatementFacts DEF TypeOK, Settled
  <1>m. \A f \in Execs : Midway(f)'
    BY <1>0, <1>1, SameTaken DEF PhaseInv
  <1>4. StoredInv' /\ PhaseInv'
    BY <1>0, <1>1, <1>2, <1>m DEF StoredInv, PhaseInv, FileOpen
  <1>5. \A f \in Execs : phase'[f] \in FileOpen \cup {"put", "ok"} => f # e
    BY <1>2 DEF FileOpen
  <1>6. \A f \in Execs : Answerable(f)' => Answerable(f)
    BY <1>0, <1>1, <1>2 DEF Answerable, PhaseInv, FileOpen
  <1>7. AloneInv'
    <2> SUFFICES ASSUME NEW f \in Execs, Answerable(f)', NEW g \in Rivals(f), phase'[g] \in FileOpen
                 PROVE  FALSE
      BY <1>1 DEF AloneInv
    <2>1. Answerable(f) /\ phase[g] \in FileOpen
      BY <1>2, <1>5, <1>6 DEF Rivals
    <2> QED
      BY <2>1, <1>0 DEF AloneInv
  <1>8. FileInv'
    <2> SUFFICES ASSUME NEW f \in Execs, Answerable(f)' PROVE FileOf(f)'
      BY DEF FileInv
    <2>1. /\ FileOf(f)
          /\ phase'[f] \in FileOpen => phase[f] \in FileOpen /\ buf'[f] = buf[f]
      BY <1>0, <1>2, <1>5, <1>6 DEF FileInv
    <2> QED
      BY <2>1, <1>1, FileKept
  <1>9. ObjectInv'
    <2> SUFFICES ASSUME NEW f \in Execs PROVE ObjectOf(f)'
      BY DEF ObjectInv
    <2>1. CASE f = e
      BY <2>1, <1>2 DEF ObjectOf
    <2>2. CASE f # e
      BY <2>2, <1>0, <1>1, <1>2, ObjectKept DEF ObjectInv
    <2> QED
      BY <2>1, <2>2
  <1>10. OkInv' /\ RemoteInv'
    BY <1>0, <1>1, <1>2, OkKept, RemoteKept
  <1> QED
    BY <1>3, <1>4, <1>7, <1>8, <1>9, <1>10 DEF WInv

\* The steps of close() that only go on to another phase.
LEMMA PhaseSteps ==
  ASSUME WInv, NEW e \in Execs,
         \/ WriteFails(e) \/ RefuseClose(e) \/ CreateFails(e) \/ BufferRemote(e)
         \/ NeedSpill(e) \/ EncodeFails(e) \/ EncodeDone(e) \/ SpillDone(e)
         \/ DiskFails(e) \/ DropDone(e) \/ FlushDone(e) \/ PutFails(e)
  PROVE  WInv'
  <1>0. TypeOK /\ PhaseInv
    BY DEF WInv
  <1>p. /\ phase[e] = "sink" => encoded[e] = 0 /\ off[e] = 0
        /\ phase[e] \in {"spill", "flush", "drop"} => Local(e)
        /\ phase[e] = "put" => ~Local(e)
        /\ phase[e] \in FileOpen => ~Refused(e) /\ Len(stored[e]) = Len(Rows(e))
        /\ phase[e] = "flush" => encoded[e] = Len(stored[e])
    BY <1>0 DEF PhaseInv
  <1>1. CASE WriteFails(e)
    BY <1>1, <1>p, MoveOn DEF WriteFails, Settled
  <1>2. CASE RefuseClose(e)
    BY <1>2, <1>p, MoveOn DEF RefuseClose, AllSent, Settled
  <1>3. CASE CreateFails(e)
    BY <1>3, <1>p, MoveOn DEF CreateFails, AllSent, Settled
  <1>4. CASE BufferRemote(e)
    BY <1>4, <1>p, MoveOn DEF BufferRemote, AllSent, Sent, FileOpen
  <1>5. CASE NeedSpill(e)
    BY <1>5, <1>p, MoveOn DEF NeedSpill, Writing, Fits, FileOpen
  <1>6. CASE EncodeFails(e)
    <2>1. CASE Local(e)
      BY <2>1, <1>6, <1>p, MoveOn DEF EncodeFails, Abandon, FileOpen
    <2>2. CASE ~Local(e)
      BY <2>2, <1>6, <1>p, MoveOn DEF EncodeFails, Abandon, Settled
    <2> QED
      BY <2>1, <2>2
  <1>7. CASE EncodeDone(e)
    <2>1. CASE Local(e)
      BY <2>1, <1>7, <1>p, MoveOn DEF EncodeDone, AllEncoded, FileOpen
    <2>2. CASE ~Local(e)
      BY <2>2, <1>7, <1>p, MoveOn DEF EncodeDone, AllEncoded, FileOpen
    <2> QED
      BY <2>1, <2>2
  <1>8. CASE SpillDone(e)
    BY <1>8, <1>p, MoveOn DEF SpillDone, FileOpen
  <1>9. CASE DiskFails(e)
    BY <1>9, <1>p, MoveOn DEF DiskFails, Writing, Fits, FileOpen
  <1>10. CASE DropDone(e)
    BY <1>10, <1>p, MoveOn DEF DropDone, FileOpen, Settled
  <1>11. CASE FlushDone(e)
    BY <1>11, <1>p, MoveOn DEF FlushDone, FileOpen, Settled
  <1>12. CASE PutFails(e)
    BY <1>12, <1>p, MoveOn DEF PutFails, FileOpen, Settled
  <1> QED
    BY <1>1, <1>2, <1>3, <1>4, <1>5, <1>6, <1>7, <1>8, <1>9, <1>10, <1>11, <1>12

\* The invariant is inductive.
LEMMA NextW == WInv /\ [Next]_vars => WInv'
  <1> SUFFICES ASSUME WInv, [Next]_vars PROVE WInv'
    OBVIOUS
  <1>1. CASE UNCHANGED vars
    <2>0. TypeOK /\ StoredInv /\ PhaseInv /\ AloneInv /\ FileInv /\ ObjectInv /\ OkInv /\ RemoteInv
      BY DEF WInv
    <2>1. /\ UNCHANGED <<stmt, phase, stored, encoded, part, buf, off, store, touched>>
          /\ \A f \in Execs : /\ Local(f)' = Local(f) /\ Refused(f)' = Refused(f) /\ Rows(f)' = Rows(f)
                              /\ Path(f)' = Path(f) /\ Rivals(f)' = Rivals(f) /\ KindOf(f)' = KindOf(f)
      BY <1>1, SameStatement DEF vars
    <2>2. TypeOK'
      BY <2>0, <2>1 DEF TypeOK
    <2>m. \A f \in Execs : Midway(f)'
      BY <2>0, <2>1, SameTaken DEF PhaseInv
    <2>3. StoredInv' /\ PhaseInv'
      BY <2>0, <2>1, <2>m DEF StoredInv, PhaseInv
    <2>a. \A f \in Execs : Answerable(f)' = Answerable(f)
      BY <2>1 DEF Answerable
    <2>b. AloneInv'
      BY <2>0, <2>1, <2>a DEF AloneInv
    <2>c. FileInv'
      <3> SUFFICES ASSUME NEW f \in Execs, Answerable(f)' PROVE FileOf(f)'
        BY DEF FileInv
      <3> QED
        BY <2>0, <2>1, <2>a, FileKept DEF FileInv
    <2>d. ObjectInv'
      <3> SUFFICES ASSUME NEW f \in Execs PROVE ObjectOf(f)'
        BY DEF ObjectInv
      <3> QED
        BY <2>0, <2>1, ObjectKept DEF ObjectInv
    <2>5. OkInv' /\ RemoteInv'
      BY <2>0, <2>1, OkKept, RemoteKept
    <2> QED
      BY <2>2, <2>3, <2>b, <2>c, <2>d, <2>5 DEF WInv
  <1>2. ASSUME NEW e \in Execs, Step(e)
        PROVE  WInv'
    <2>1. CASE WriteBatch(e)
      BY <2>1, WriteBatchStep
    <2>2. CASE CreateFile(e)
      BY <2>2, CreateFileStep
    <2>3. CASE EncodeRow(e)
      BY <2>3, EncodeRowStep
    <2>4. CASE WriteSome(e)
      BY <2>4, WriteSomeStep
    <2>7. CASE WriteRow(e)
      BY <2>7, WriteRowStep
    <2>5. CASE PutDone(e)
      BY <2>5, PutStored DEF PutDone
    <2>6. CASE PutAnswerLost(e)
      BY <2>6, PutStored DEF PutAnswerLost
    <2> QED
      BY <1>2, <2>1, <2>2, <2>3, <2>4, <2>5, <2>6, <2>7, PhaseSteps DEF Step
  <1>3. ASSUME NEW e \in Execs, Crash(e)
        PROVE  WInv'
    BY <1>3, CrashStep
  <1> QED
    BY <1>1, <1>2, <1>3 DEF Next, Done

\* The invariant holds of every behaviour.
THEOREM CopyToInvariant == Spec => []WInv
  BY InitW, NextW, PTL DEF Spec

-----------------------------------------------------------------------------
(* The theorems.                                                           *)

\* Every variable keeps its type and the BufWriter to its capacity.
THEOREM CopyToTypeCorrect == Spec => []TypeOK
  <1>1. WInv => TypeOK
    BY DEF WInv
  <1> QED
    BY <1>1, CopyToInvariant, PTL

\* A COPY TO that reports success has written every row of its source, in order
\* and nothing else, for any rows, batches, buffer and short writes.
THEOREM SuccessIsWhole == Spec => []SuccessWritesAll
  <1>1. WInv => SuccessWritesAll
    <2> SUFFICES ASSUME WInv, NEW e \in Execs, phase[e] = "ok", ~touched[e]
                 PROVE  store[Path(e)] = Whole(e) /\ encoded[e] = Len(Rows(e))
      BY DEF SuccessWritesAll
    <2>1. TypeOK /\ IsWhole(e, store[Path(e)])
      BY DEF WInv, OkInv
    <2>2. store[Path(e)] = Whole(e)
      BY <2>1, StatementFacts, WholeIsWhole
    <2>3. encoded[e] = Len(Rows(e))
      BY DEF WInv, PhaseInv
    <2> QED
      BY <2>2, <2>3
  <1> QED
    BY <1>1, CopyToInvariant, PTL

\* What a failed or killed COPY TO leaves is a beginning of its file.
THEOREM FailureLeavesPrefix == Spec => []LocalPrefix
  <1>1. WInv => LocalPrefix
    <2> SUFFICES ASSUME WInv, NEW e \in Execs, Local(e), ~touched[e],
                        phase[e] \in FileOpen \cup {"crashed"} \/ (phase[e] = "failed" /\ encoded[e] + off[e] > 0)
                 PROVE  IsPrefixOf(store[Path(e)], Whole(e))
      BY DEF LocalPrefix
    <2> DEFINE here == store[Path(e)]
    <2>0. TypeOK /\ StoredInv /\ PhaseInv /\ FileInv
      BY DEF WInv
    <2>1. Continues(e, 0, here) /\ Len(here) <= Taken(e)
      BY <2>0 DEF FileInv, FileOf, Answerable
    <2>2. Taken(e) \in Nat /\ Taken(e) <= Total(e)
      BY <2>0, TakenFacts DEF PhaseInv, StoredInv
    <2>3. Len(here) \in Nat /\ Total(e) \in Nat /\ Len(Whole(e)) = Total(e)
      BY <2>0, StatementFacts, RowEnds, WholeIs
    <2> HIDE DEF here
    <2>5. Len(here) <= Total(e)
      BY <2>1, <2>2, <2>3
    <2>6. ASSUME NEW i \in 1 .. Len(here)
          PROVE  here[i] = Whole(e)[i]
      <3>1. i \in 1 .. Total(e) /\ 0 + i = i
        BY <2>3, <2>5
      <3> QED
        BY <3>1, <2>0, <2>1, WholeIs DEF Continues
    <2> QED
      BY <2>3, <2>5, <2>6 DEF IsPrefixOf, here
  <1> QED
    BY <1>1, CopyToInvariant, PTL

\* A remote object is the old one or the whole output of one statement.
THEOREM ObjectIsOldOrWhole == Spec => []RemoteAllOrNothing
  <1>1. WInv => RemoteAllOrNothing
    <2> SUFFICES ASSUME WInv, NEW p \in Paths, Dest[p] # "local", store[p] # <<Old>>
                 PROVE  \E e \in Execs : Path(e) = p /\ KindOf(e) = "remote" /\ store[p] = Whole(e)
      BY DEF RemoteAllOrNothing
    <2>1. TypeOK /\ store[p] \in Seq(Piece)
      BY DEF WInv, TypeOK
    <2>2. PICK e \in Execs : Path(e) = p /\ KindOf(e) = "remote" /\ IsWhole(e, store[p])
      BY DEF WInv, RemoteInv
    <2>3. store[p] = Whole(e)
      BY <2>1, <2>2, WholeIsWhole
    <2> QED
      BY <2>2, <2>3
  <1> QED
    BY <1>1, CopyToInvariant, PTL

\* A destination changes only under a statement that may write it and whose
\* source was read to the end.
THEOREM ChangesWarranted == Spec => ChangeIsWarranted
  <1> DEFINE Warranted == \A p \in Paths : store'[p] # store[p] =>
               \E e \in Execs :
                 /\ Path(e) = p /\ stmt[e].valid /\ Dest[p] \in {"local", "remote"}
                 /\ Sent(e) = Len(Rows(e))
                 /\ phase'[e] # phase[e] \/ off'[e] # off[e]
  <1>1. ASSUME WInv, [Next]_vars
        PROVE  [Warranted]_vars
    <2>0. TypeOK /\ PhaseInv
      BY <1>1 DEF WInv
    <2>1. CASE UNCHANGED store
      BY <2>1
    <2>2. ASSUME NEW e \in Execs, CreateFile(e)
          PROVE  Warranted
      <3>1. \A p \in Paths : store'[p] # store[p] => p = Path(e)
        BY <2>0, <2>2 DEF CreateFile, TypeOK
      <3>2. stmt[e].valid /\ Dest[Path(e)] = "local" /\ Sent(e) = Len(Rows(e))
        BY <2>0, <2>2, StatementFacts DEF CreateFile, AllSent, Refused, Local, KindOf
      <3>3. phase'[e] # phase[e]
        BY <2>0, <2>2 DEF CreateFile, AllSent, Goto, TypeOK
      <3> QED
        BY <3>1, <3>2, <3>3
    <2>3. ASSUME NEW e \in Execs, WriteSome(e)
          PROVE  Warranted
      <3>1. \A p \in Paths : store'[p] # store[p] => p = Path(e)
        BY <2>0, <2>3 DEF WriteSome, TypeOK
      <3>2. stmt[e].valid /\ Dest[Path(e)] = "local" /\ Sent(e) = Len(Rows(e))
        BY <2>0, <2>3, StatementFacts DEF WriteSome, PhaseInv, FileOpen, Refused, Local, KindOf, Sent
      <3>3. off'[e] # off[e]
        <4>1. PICK n \in 1 .. Len(buf[e]) : off' = [off EXCEPT ![e] = @ + n]
          BY <2>3 DEF WriteSome
        <4> QED
          BY <4>1, <2>0, StatementFacts DEF TypeOK
      <3> QED
        BY <3>1, <3>2, <3>3
    <2>7. ASSUME NEW e \in Execs, WriteRow(e)
          PROVE  Warranted
      <3>1. \A p \in Paths : store'[p] # store[p] => p = Path(e)
        BY <2>0, <2>7 DEF WriteRow, TypeOK
      <3>2. stmt[e].valid /\ Dest[Path(e)] = "local" /\ Sent(e) = Len(Rows(e))
        BY <2>0, <2>7, StatementFacts DEF WriteRow, Writing, Fits, PhaseInv, FileOpen, Refused, Local, KindOf, Sent
      <3>3. off'[e] # off[e]
        <4>1. PICK n \in 1 .. Len(Rest(e)) : off' = [off EXCEPT ![e] = @ + n]
          BY <2>7 DEF WriteRow
        <4> QED
          BY <4>1, <2>0, StatementFacts DEF TypeOK
      <3> QED
        BY <3>1, <3>2, <3>3
    <2>4. ASSUME NEW e \in Execs, PutDone(e) \/ PutAnswerLost(e)
          PROVE  Warranted
      <3>1. \A p \in Paths : store'[p] # store[p] => p = Path(e)
        BY <2>0, <2>4 DEF PutDone, PutAnswerLost, PutObject, TypeOK
      <3>2. stmt[e].valid /\ Dest[Path(e)] = "remote" /\ Sent(e) = Len(Rows(e))
        BY <2>0, <2>4, StatementFacts DEF PutDone, PutAnswerLost, PhaseInv, Refused, KindOf, Sent
      <3>3. phase'[e] # phase[e]
        BY <2>0, <2>4 DEF PutDone, PutAnswerLost, Goto, TypeOK
      <3> QED
        BY <3>1, <3>2, <3>3
    <2> HIDE DEF Warranted
    <2>5. CASE Next
      <3>1. CASE Done
        BY <3>1, <2>1 DEF Done, vars
      <3>2. ASSUME NEW e \in Execs, Step(e) \/ Crash(e)
            PROVE  UNCHANGED store \/ Warranted
        BY <3>2, <2>2, <2>3, <2>4, <2>7 DEF Step, Crash, WriteBatch, WriteFails, RefuseClose, CreateFails, BufferRemote,
           EncodeRow, NeedSpill, EncodeFails, EncodeDone, SpillDone, DiskFails, DropDone, FlushDone, PutFails
      <3> QED
        BY <2>5, <3>1, <3>2, <2>1 DEF Next, Warranted
    <2>6. CASE UNCHANGED vars
      BY <2>6
    <2> QED
      BY <1>1, <2>5, <2>6
  <1>2. ChangeIsWarranted <=> [][Warranted]_vars
    BY DEF ChangeIsWarranted
  <1> HIDE DEF Warranted
  <1> QED
    BY <1>1, <1>2, CopyToInvariant, PTL DEF Spec
=============================================================================
