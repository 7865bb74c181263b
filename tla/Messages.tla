------------------------------ MODULE Messages ------------------------------
(***************************************************************************)
(* Security with the calls that read COSE messages and CWT claims, in any  *)
(* stack of envelopes: a sender orders header entries and claims as it     *)
(* likes, wraps the protected header or not, and sends a certificate alone *)
(* or in an array and an instant as a number, a float or tagged.           *)
(***************************************************************************)
EXTENDS Security, Cose

CONSTANTS
  Messages,        \* COSE messages: [protected, unprotected, wrapped, payload, layers]
  ClaimSets        \* CWTs: [claims, layers]

-----------------------------------------------------------------------------
(* What a sender means, and how it is written.                             *)

\* A value in an envelope, and in a stack of them, the innermost first.
Wrap(v, layer) ==
  CASE layer = "self-described" -> Tag(55799, v)
    [] layer = "cwt"            -> Tag(61, v)
    [] layer = "tagged"         -> Tag(18, v)
    [] layer \in {"sign1", "untagged"} ->
         LET message == Array(<<Map(<<>>), Map(<<>>), Bytes(Encoding(v)), Bytes(Opaque(9))>>)
         IN  IF layer = "sign1" THEN Tag(18, message) ELSE message
Stack(v, layers) ==
  LET at[n \in 0 .. Len(layers)] == IF n = 0 THEN v ELSE Wrap(at[n - 1], layers[n]) IN at
Written(v, layers) == Stack(v, layers)[Len(layers)]

Registered == -I64 .. I64 - 1
IsName(x) == x.name \in Registered /\ x = [name |-> x.name]

\* The number of a registered name, and for any other name one that is not.
LabelIn(labels, f) == IF f \in Range(labels) THEN CHOOSE l \in DOMAIN labels : labels[l] = f ELSE 11

\* A header parameter, and the form it is sent in: a chain of one is sent alone.
IsHeader(f, x) ==
  CASE f \in {"alg", "content_type"} -> IF "name" \in DOMAIN x THEN IsName(x) ELSE x = [text |-> x.text]
    [] f = "crit"                    -> x = Json(x.json)
    [] f = "x5chain"                 -> IsSequence(x) /\ x # <<>>
    [] f = "x5t"                     -> x = <<Some(Get(x[1])), x[2]>> /\ IsName(Get(x[1]))
    [] OTHER                         -> TRUE
IsHeaders(hs) == NamesOnce(hs) /\ \A i \in DOMAIN hs : IsHeader(hs[i][1], hs[i][2])

WireHeader(f, x) ==
  CASE f \in {"alg", "content_type"} -> IF "name" \in DOMAIN x THEN Int_(x.name) ELSE Text(x.text)
    [] f = "crit"                    -> x.json
    [] f \in {"kid", "iv"}           -> Bytes(x)
    [] f = "x5chain"                 -> IF Len(x) = 1 THEN Bytes(x[1]) ELSE Array([i \in DOMAIN x |-> Bytes(x[i])])
    [] f = "x5t"                     -> Array(<<Int_(Get(x[1]).name), Bytes(x[2])>>)
    [] OTHER                         -> x
WireHeaders(hs) == Map([i \in DOMAIN hs |-> <<Int_(LabelIn(Label, hs[i][1])), WireHeader(hs[i][1], hs[i][2])>>])

\* A message, tagged or not, in envelopes as deep as parse() goes.
IsMessage(m) ==
  /\ IsHeaders(m.protected) /\ IsHeaders(m.unprotected)
  /\ IsSome(m.payload) => m.payload = Some(Get(m.payload))
  /\ IsSequence(m.layers) /\ Len(m.layers) <= MaxNesting
  /\ \A i \in DOMAIN m.layers : m.layers[i] \in {"self-described", "cwt"} \/ (i = 1 /\ m.layers[i] = "tagged")

WireMessage(m) ==
  LET protected == WireHeaders(m.protected)
  IN  Array(<<IF m.wrapped THEN Bytes(Encoding(protected)) ELSE protected,
              WireHeaders(m.unprotected),
              IF IsSome(m.payload) THEN Bytes(Get(m.payload)) ELSE Null,
              Bytes(Opaque(9))>>)

\* A claim: <<field or private name, value, form>>.
Instants == {"exp", "nbf", "iat"}
IsClaim(f, x, form) ==
  CASE f \in Instants               -> x \in Registered /\ form \in {"plain", "tagged", "float"}
    [] f \in {"iss", "sub", "aud"}  -> form = "plain" /\ AsClaimText(x.json) = Some(x)
    [] f = "cti"                    -> form = "plain"
    [] OTHER                        -> form = "plain" /\ x = Json(x.json)
IsClaimSet(c) ==
  /\ NamesOnce(c.claims)
  /\ \A i \in DOMAIN c.claims : IsClaim(c.claims[i][1], c.claims[i][2], c.claims[i][3])
  /\ IsSequence(c.layers) /\ Len(c.layers) <= MaxEnvelopes
  /\ \A i \in DOMAIN c.layers : c.layers[i] \in {"self-described", "cwt", "sign1", "untagged"}

WireClaim(f, x, form) ==
  <<IF f \in Range(Claim) THEN Int_(LabelIn(Claim, f)) ELSE Text(f),
    CASE form = "tagged" -> Tag(1, Int_(x))
      [] form = "float"  -> Float(IF x < 0 THEN 2 * x - 1 ELSE 2 * x + 1)
      [] form = "plain"  -> IF f = "cti" THEN Bytes(x) ELSE IF f \in Instants THEN Int_(x) ELSE x.json>>
WireClaims(cs) == Map([i \in DOMAIN cs |-> WireClaim(cs[i][1], cs[i][2], cs[i][3])])

\* A tag around an instant is taken off; registered numbers are i64s.
ASSUME MessagesAssumption ==
  /\ MaxNesting > 0 /\ I64 > 34
  /\ \A m \in Messages : IsMessage(m)
  /\ \A c \in ClaimSets : IsClaimSet(c)

-----------------------------------------------------------------------------
(* The calls.                                                              *)

MessagesInit ==
  /\ answer = None
  /\ \/ call = "cose_headers" /\ sent \in Messages
     \/ call = "cwt_claims" /\ sent \in ClaimSets

\* cose_headers and cose_payload of one blob.
CoseHeaders ==
  LET d == CoseDecode(Written(WireMessage(sent), sent.layers))
  IN  Answered("cose_headers",
        IF IsSome(d) THEN Some([headers |-> MergedHeaders(Get(d)), payload |-> Get(d).payload]) ELSE None)

ReadClaims == Answered("cwt_claims", CwtClaims(Written(WireClaims(sent.claims), sent.layers)))

MessagesNext == CoseHeaders \/ ReadClaims \/ Done

MessagesSpec == MessagesInit /\ [][MessagesNext]_vars

-----------------------------------------------------------------------------
(* Properties.                                                             *)

\* A message's headers and payload are read back whatever envelopes it came in
\* and however the sender ordered and wrapped its header maps; a parameter in
\* both maps is taken from the protected one (merged_headers).
HeadersReadBack ==
  Answer("cose_headers") =>
    Get(answer) = Some([headers |-> [f \in DOMAIN NoHeaders |->
                                       OrElse(Lookup(sent.protected, f), Lookup(sent.unprotected, f))],
                        payload |-> sent.payload])

\* "Unwraps a tag 61 / COSE envelope automatically" (cwt.rs): the claims are found
\* through every stack of envelopes, an instant in each of its forms is the same
\* number of seconds, and no private claim is lost.
ClaimsReadBack ==
  Answer("cwt_claims") =>
    LET private == {c \in Range(sent.claims) : c[1] \notin Range(Claim)}
    IN  Get(answer) = Some([f \in Range(Claim) \cup {"extra"} |->
                              IF f = "extra" THEN {<<c[1], c[2]>> : c \in private}
                              ELSE Lookup(sent.claims, f)])
=============================================================================
