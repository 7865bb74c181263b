---------------------------- MODULE MCItemStream ----------------------------
(* ItemStream on every short stream of heads.                                *)
EXTENDS ItemStream

CONSTANT MaxBytes   \* the longest stream

MCStreams == UNION {[1 .. n -> Head_] : n \in 0 .. MaxBytes}
MCNesting == [cbor |-> 1, msgpack |-> 2]
=============================================================================
