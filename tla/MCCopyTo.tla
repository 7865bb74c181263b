------------------------------ MODULE MCCopyTo ------------------------------
(***************************************************************************)
(* CopyTo on small instances: two statements aimed at one destination of   *)
(* each kind.  Statements on different destinations share nothing.         *)
(***************************************************************************)
EXTENDS CopyTo, SequencesExt

CONSTANTS
  MaxRows,     \* bound: rows of one statement
  AllRows,     \* bound: rows of all statements together
  RowSizes     \* bound: pieces a row may encode to

MCDest == [p \in Paths |-> p]

Shapes == [good : {TRUE}, size : RowSizes] \cup {[good |-> FALSE, size |-> 1]}

\* The rows of these shapes, one behind the other.
Laid(shapes) ==
  [k \in DOMAIN shapes |->
     [good |-> shapes[k].good,
      end |-> FoldLeft(LAMBDA sum, shape : sum + shape.size, 0, SubSeq(shapes, 1, k))]]

RowSeqs == {Laid(shapes) : shapes \in UNION {[1 .. n -> Shapes] : n \in 0 .. MaxRows}}

RowCount(s) == FoldFunctionOnSet(LAMBDA one, sum : Len(one.rows) + sum, 0, s, Execs)

MCStatements ==
  {s \in [Execs -> [valid : BOOLEAN, dest : Paths, rows : RowSeqs]] :
     /\ \A e, f \in Execs : s[e].dest = s[f].dest
     /\ RowCount(s) <= AllRows}
=============================================================================
