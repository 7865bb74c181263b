------------------------------ MODULE CoseKeys ------------------------------
(***************************************************************************)
(* What the decoders of security/ share, and COSE keys                     *)
(* (cbor-core/src/security/cose_key.rs).                                   *)
(*                                                                         *)
(* The contents of a byte string are opaque, or they are the encoding of a *)
(* value, which parse() gives back.  A number looked up in the registry is *)
(* named after itself; a value rendered as JSON keeps the value.  Texts    *)
(* are strings.  An operator that may fail returns an Option.              *)
(***************************************************************************)
EXTENDS Values, SequencesExt

Opaque(x) == [kind |-> "raw", raw |-> x]
Encoding(v) == [kind |-> "encoding", of |-> v]
Trailed(v) == [kind |-> "trailed", of |-> v]   \* an encoding with bytes behind it
ParseBytes(b) == IF b.kind \in {"encoding", "trailed"} THEN Some(b.of) ELSE None
ParseStrict(b) == IF b.kind = "encoding" THEN Some(b.of) ELSE None

AsInt(v) == IF Is(v, "int") /\ -I64 <= v.n /\ v.n < I64 THEN Some(v.n) ELSE None
AsBytes(v) == IF Is(v, "bytes") THEN Some(v.bytes) ELSE None
TextOf(v) == IF Is(v, "text") THEN Some([text |-> v.text]) ELSE None
Named(v) == IF IsSome(AsInt(v)) THEN Some([name |-> v.n]) ELSE None
Json(v) == [json |-> v]

\* The byte strings among values, in order.
WithBytes(found, v) == IF Is(v, "bytes") THEN Append(found, v.bytes) ELSE found
ByteStrings(items) == FoldLeft(WithBytes, <<>>, items)

-----------------------------------------------------------------------------
(* COSE_Key.                                                               *)

KeyField == {"kty", "kid", "alg", "crv", "x", "y", "n", "e"}
NoKey == [f \in KeyField |-> None]
Rsa == Some([name |-> 3])

\* What the parameters -1, -2 and -3 mean depends on the key type seen so far.
KeyEntry(key, entry) ==
  LET label == AsInt(entry[1])
      v == entry[2]
      rsa == key.kty = Rsa
  IN  IF label = Some(1) THEN [key EXCEPT !.kty = Named(v)]
      ELSE IF label = Some(2) THEN [key EXCEPT !.kid = AsBytes(v)]
      ELSE IF label = Some(3) THEN [key EXCEPT !.alg = Named(v)]
      ELSE IF label = Some(-1) THEN IF rsa THEN [key EXCEPT !.n = AsBytes(v)]
                                    ELSE [key EXCEPT !.crv = Named(v)]
      ELSE IF label = Some(-2) THEN IF rsa THEN [key EXCEPT !.e = AsBytes(v)]
                                    ELSE [key EXCEPT !.x = AsBytes(v)]
      ELSE IF label = Some(-3) /\ ~rsa THEN [key EXCEPT !.y = AsBytes(v)]
      ELSE key

RescanEntry(key, entry) ==
  CASE AsInt(entry[1]) = Some(-1) -> [key EXCEPT !.n = AsBytes(entry[2])]
    [] AsInt(entry[1]) = Some(-2) -> [key EXCEPT !.e = AsBytes(entry[2])]
    [] OTHER -> key

\* A seeded slip: one pass only.
DecodeKeyOnePass(v) == IF ~Is(v, "map") THEN None ELSE Some(FoldLeft(KeyEntry, NoKey, v.entries))

\* The entries are scanned again when they ended without an RSA modulus.
DecodeKey(v) ==
  LET key == FoldLeft(KeyEntry, NoKey, v.entries)
  IN  IF ~Is(v, "map") THEN None
      ELSE IF key.kty = Rsa /\ key.n = None THEN Some(FoldLeft(RescanEntry, key, v.entries))
      ELSE Some(key)
=============================================================================
