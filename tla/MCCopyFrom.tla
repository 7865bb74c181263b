----------------------------- MODULE MCCopyFrom -----------------------------
(* CopyFrom on small statements: up to two sources of up to MaxItems items,  *)
(* every mix of row kinds, truncated tails and unreadable sources.           *)
EXTENDS CopyFrom

CONSTANT MaxItems   \* the most items of one source

Items == UNION {[1 .. n -> RowKind] : n \in 0 .. MaxItems}
Readable == [opens : {TRUE}, items : Items, torn : BOOLEAN]
Unreadable == [opens |-> FALSE, items |-> <<>>, torn |-> FALSE]
MCSources == Readable \cup {Unreadable}

MCJobs ==
  [resolves : {TRUE}, ignoreErrors : BOOLEAN,
   sources : {<<>>} \cup {<<s>> : s \in MCSources} \cup (MCSources \X MCSources)]
  \cup [resolves : {FALSE}, ignoreErrors : BOOLEAN, sources : {<<Unreadable>>}]

\* Three sources of at most one item, any of them unreadable.
ShortSources == {s \in MCSources : Len(s.items) <= 1}
MCThreeFiles ==
  [resolves : {TRUE}, ignoreErrors : BOOLEAN,
   sources : ShortSources \X ShortSources \X ShortSources]

MCAllJobs == MCJobs \cup MCThreeFiles

=============================================================================
