-------------------------------- MODULE Cose --------------------------------
(***************************************************************************)
(* The structural decoders of signed and encrypted CBOR: COSE messages     *)
(* (cbor-core/src/security/cose.rs) and CWT claim sets (cwt.rs).           *)
(***************************************************************************)
EXTENDS CoseKeys

CONSTANTS
  MaxNesting,     \* MAX_NESTING (value.rs): how deep parse() lets values nest
  MaxEnvelopes    \* envelopes around claims, also in payloads: a bound of the model

ASSUME CoseAssumption == MaxNesting \in Nat /\ MaxEnvelopes \in Nat

\* A value, and what is left of it as tags of this set are taken off.
Unwrapped(v, tags) ==
  LET at[n \in 0 .. MaxNesting] ==
        IF n = 0 THEN v
        ELSE LET outer == at[n - 1]
             IN  IF Is(outer, "tag") /\ outer.tag \in tags THEN outer.inner ELSE outer
  IN  at

-----------------------------------------------------------------------------
(* Header maps.                                                            *)

Label ==
  [k \in 1 .. 5 \cup {33, 34} |->
     CASE k = 1 -> "alg" [] k = 2 -> "crit" [] k = 3 -> "content_type" [] k = 4 -> "kid"
       [] k = 5 -> "iv" [] k = 33 -> "x5chain" [] k = 34 -> "x5t"]
NoHeaders == [f \in Range(Label) |-> None]

X5Chain(v) ==
  IF Is(v, "bytes") THEN Some(<<v.bytes>>)
  ELSE IF Is(v, "array") /\ ByteStrings(v.items) # <<>> THEN Some(ByteStrings(v.items))
  ELSE None

X5t(v) ==
  IF Is(v, "array") /\ Len(v.items) = 2 /\ IsSome(AsBytes(v.items[2]))
  THEN Some(<<Named(v.items[1]), v.items[2].bytes>>) ELSE None

HeaderValue(field, v) ==
  CASE field \in {"alg", "content_type"} -> OrElse(Named(v), TextOf(v))
    [] field = "crit"                    -> Some(Json(v))
    [] field \in {"kid", "iv"}           -> AsBytes(v)
    [] field = "x5chain"                 -> X5Chain(v)
    [] field = "x5t"                     -> X5t(v)

\* The field an entry sets: none for a key that is no common label.
FieldOf(labels, entry) ==
  LET k == AsInt(entry[1]) IN IF IsSome(k) /\ Get(k) \in DOMAIN labels THEN Some(labels[Get(k)]) ELSE None

HeaderEntry(h, entry) ==
  LET f == FieldOf(Label, entry)
  IN  IF IsSome(f) THEN [h EXCEPT ![Get(f)] = HeaderValue(Get(f), entry[2])] ELSE h
DecodeHeaderMap(v) == IF Is(v, "map") THEN FoldLeft(HeaderEntry, NoHeaders, v.entries) ELSE NoHeaders

\* The protected header is wrapped in a byte string; some senders leave the map.
DecodeProtected(v) ==
  IF Is(v, "bytes")
  THEN IF IsSome(ParseBytes(v.bytes)) THEN DecodeHeaderMap(Get(ParseBytes(v.bytes))) ELSE NoHeaders
  ELSE DecodeHeaderMap(v)

\* A seeded slip: the unprotected header wins.
MergedUnprotected(d) == [f \in DOMAIN NoHeaders |-> OrElse(d.unprotected[f], d.protected[f])]

MergedHeaders(d) == [f \in DOMAIN NoHeaders |-> OrElse(d.protected[f], d.unprotected[f])]

-----------------------------------------------------------------------------
(* Messages.                                                               *)

TypeForTag(t) ==
  CASE t = 18 -> "Sign1" [] t = 98 -> "Sign" [] t = 16 -> "Encrypt0"
    [] t = 96 -> "Encrypt" [] t = 17 -> "Mac0" [] t = 97 -> "Mac"
    [] t = 61 -> "CWT" [] OTHER -> "unknown"

DecodeArray(v, tag) ==
  LET n == Len(v.items)
      last == v.items[4]
  IN  IF ~Is(v, "array") \/ n < 3 THEN None
      ELSE Some([tag |-> tag,
                 type |-> IF IsSome(tag) THEN TypeForTag(Get(tag))
                          ELSE IF n = 3 THEN "Encrypt0" ELSE "Sign1",
                 protected |-> DecodeProtected(v.items[1]),
                 unprotected |-> DecodeHeaderMap(v.items[2]),
                 payload |-> AsBytes(v.items[3]),
                 signature |-> IF n >= 4 THEN AsBytes(last) ELSE None,
                 recipients |-> IF n >= 4 /\ Is(last, "array") THEN Some(Json(last)) ELSE None])

\* decode_value: through self-describe tags and CWT envelopes to the message.  A
\* tagged message keeps its tag in one envelope, and loses it to a second.
Within(message, envelopes) ==
  IF IsSome(message) /\ envelopes > 1 THEN Some([Get(message) EXCEPT !.tag = Some(61)]) ELSE message
CoseDecode(value) ==
  LET at == Unwrapped(value, {55799, 61})
      v == at[MaxNesting]
      envelopes == Cardinality({n \in DOMAIN at : IsTag(at[n], 61)})
  IN  Within(IF Is(v, "tag") THEN DecodeArray(v.inner, Some(v.tag))
             ELSE DecodeArray(v, IF envelopes > 0 THEN Some(61) ELSE None), envelopes)

-----------------------------------------------------------------------------
(* CWT claims.                                                             *)

Claim == <<"iss", "sub", "aud", "exp", "nbf", "iat", "cti">>

AsClaimText(v) ==
  IF Is(v, "text") \/ Is(v, "int") \/ Is(v, "bytes") THEN Some(Json(v)) ELSE None

\* `as i64` of a float saturates.
Saturated(n) == IF n >= I64 THEN I64 - 1 ELSE IF n < -I64 THEN -I64 ELSE n

\* A seeded slip: a float is rounded down, not towards zero.
AsSecondsFloor(value) ==
  LET v == Unwrapped(value, Nat)[MaxNesting]
  IN  IF Is(v, "float") THEN Some(Saturated(v.half \div 2)) ELSE AsInt(v)

\* as_seconds: a float drops its fraction, every tag is transparent.
AsSeconds(value) ==
  LET v == Unwrapped(value, Nat)[MaxNesting]
      whole == IF v.half >= 0 THEN v.half \div 2 ELSE -((-v.half) \div 2)
  IN  IF Is(v, "float") THEN Some(Saturated(whole)) ELSE AsInt(v)

ClaimValue(field, v) ==
  CASE field \in {"iss", "sub", "aud"} -> AsClaimText(v)
    [] field \in {"exp", "nbf", "iat"} -> AsSeconds(v)
    [] field = "cti"                   -> AsBytes(v)

\* What one envelope holds: what a self-describe or a CWT tag is on, or what the
\* payload of a message is the encoding of.
Payload(message) == IF IsSome(message) THEN Get(message).payload ELSE None
Parsed(payload) == IF IsSome(payload) THEN ParseBytes(Get(payload)) ELSE None
Opened(v) ==
  IF IsTag(v, 55799) \/ IsTag(v, 61) THEN Some(v.inner)
  ELSE IF Is(v, "tag") \/ Is(v, "array") THEN Parsed(Payload(CoseDecode(v)))
  ELSE None

\* extract_claims: envelope after envelope, to a map or to an error.
Inside(v) == IF IsSome(v) /\ ~Is(Get(v), "map") THEN Opened(Get(v)) ELSE v
Unveiled(value) ==
  LET at[n \in 0 .. MaxEnvelopes] == IF n = 0 THEN Some(value) ELSE Inside(at[n - 1]) IN at
ClaimsMap(v) == IF IsSome(v) /\ Is(Get(v), "map") THEN v ELSE None
ExtractClaims(value) == ClaimsMap(Unveiled(value)[MaxEnvelopes])

\* The name of a private claim: texts as they are, integers in decimal.
ExtraName(k) == IF Is(k, "text") THEN k.text ELSE ToString(IF Is(k, "int") THEN k.n ELSE k)

NoClaims == [f \in Range(Claim) \cup {"extra"} |-> IF f = "extra" THEN {} ELSE None]
ClaimEntry(claims, entry) ==
  LET f == FieldOf(Claim, entry)
      name == ExtraName(entry[1])
      others == {x \in claims.extra : x[1] # name}
  IN  IF IsSome(f) THEN [claims EXCEPT ![Get(f)] = ClaimValue(Get(f), entry[2])]
      ELSE [claims EXCEPT !.extra = others \cup {<<name, Json(entry[2])>>}]

DecodeClaims(claims) ==
  IF IsSome(claims) THEN Some(FoldLeft(ClaimEntry, NoClaims, Get(claims).entries)) ELSE None
CwtClaims(value) == DecodeClaims(ExtractClaims(value))
=============================================================================
