------------------------------- MODULE Values -------------------------------
(***************************************************************************)
(* CBOR values (ciborium::value::Value), as records with a kind, and       *)
(* Option, as a sequence of at most one element.  A map is the sequence of *)
(* its entries <<key, value>>, in order and with duplicates, as ciborium   *)
(* keeps it.                                                               *)
(***************************************************************************)
EXTENDS Integers, Sequences

CONSTANT I64   \* 2^63: a CBOR integer lies in -2 * I64 .. 2 * I64 - 1

ASSUME ValuesAssumption == I64 \in Nat \ {0}

None == <<>>
Some(x) == <<x>>
IsSome(o) == o # None
Get(o) == o[1]
OrElse(o, p) == IF IsSome(o) THEN o ELSE p

Int_(n) == [kind |-> "int", n |-> n]
Float(h) == [kind |-> "float", half |-> h]      \* the float h / 2
Bytes(b) == [kind |-> "bytes", bytes |-> b]
Text(s) == [kind |-> "text", text |-> s]
Bool(b) == [kind |-> "bool", bool |-> b]
Array(s) == [kind |-> "array", items |-> s]
Map(es) == [kind |-> "map", entries |-> es]
Tag(t, v) == [kind |-> "tag", tag |-> t, inner |-> v]
Null == [kind |-> "null"]
Is(v, k) == v.kind = k
IsTag(v, t) == v.kind = "tag" /\ v.tag = t
=============================================================================
