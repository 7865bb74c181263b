------------------------------ MODULE Security ------------------------------
(***************************************************************************)
(* The API of security/ that reads keys and authenticators, one action per *)
(* call.  A sender, which is no part of the code, means something and      *)
(* writes it down in one of the ways the standards leave open: entries in  *)
(* any order, bytes cut anywhere.  The properties compare what a call      *)
(* answers with what was meant.                                            *)
(***************************************************************************)
EXTENDS WebAuthn

CONSTANTS
  Keys,            \* COSE keys: sequences of <<parameter, value>>
  Authenticators,  \* authenticatorData: [rp, flags, count, credential, ext]
  Statements       \* attestation statements: [alg, sig, x5c]

-----------------------------------------------------------------------------
(* What a sender means, and how it is written.                             *)

IsSequence(s) == s \in Seq(Range(s))

\* A sequence of pairs, or longer tuples, each with a name of its own; and the
\* value with a name.
NamesOnce(pairs) ==
  IsSequence(pairs) /\ \A i, j \in DOMAIN pairs : pairs[i][1] = pairs[j][1] => i = j
Lookup(pairs, f) ==
  LET hits == {i \in DOMAIN pairs : pairs[i][1] = f}
  IN  IF hits = {} THEN None ELSE Some(pairs[CHOOSE i \in hits : TRUE][2])

Numbered == {"kty", "alg", "crv"}
Parameter == [f \in KeyField |->
  CASE f = "kty" -> 1 [] f = "kid" -> 2 [] f = "alg" -> 3
    [] f \in {"crv", "n"} -> -1 [] f \in {"x", "e"} -> -2 [] f = "y" -> -3]

\* A key: each parameter at most once, and only those its type has.
IsKey(k) ==
  /\ NamesOnce(k)
  /\ \A i \in DOMAIN k : /\ k[i][1] \in KeyField
                         /\ k[i][1] \in Numbered => k[i][2].name \in -I64 .. I64 - 1
                                                  /\ k[i][2] = [name |-> k[i][2].name]
  /\ \A i \in DOMAIN k :
       k[i][1] \notin IF Lookup(k, "kty") = Rsa THEN {"crv", "x", "y"} ELSE {"n", "e"}

WireKey(k) ==
  Map([i \in DOMAIN k |->
         <<Int_(Parameter[k[i][1]]),
           IF k[i][1] \in Numbered THEN Int_(k[i][2].name) ELSE Bytes(k[i][2])>>])

Byte == 0 .. 255

\* A number in len bytes, and what is left of it when they are too few.
Remainder(n, len) ==
  LET rest[k \in 0 .. len] == IF k = 0 THEN n ELSE rest[k - 1] \div 256 IN rest
BytesOf(n, len) == [i \in 1 .. len |-> Remainder(n, len)[len - i] % 256]
FitsBytes(n, len) == n \in Nat /\ Remainder(n, len)[len] = 0

\* A map of small integers to small integers.
SmallInts == -24 .. 23
IsSmallMap(pairs) ==
  /\ IsSequence(pairs) /\ Len(pairs) < 24
  /\ \A i \in DOMAIN pairs : {pairs[i][1], pairs[i][2]} \subseteq SmallInts
SmallByte(n) == IF n >= 0 THEN n ELSE 31 - n
SmallMap(pairs) ==
  [i \in 1 .. 1 + 2 * Len(pairs) |->
     IF i = 1 THEN 160 + Len(pairs) ELSE SmallByte(pairs[i \div 2][IF i % 2 = 0 THEN 1 ELSE 2])]
NumberPairs(k) == [i \in DOMAIN k |-> <<Parameter[k[i][1]], k[i][2].name>>]

IsCredential(c) ==
  /\ c.aaguid \in Seq(Byte) /\ Len(c.aaguid) = AaguidLen
  /\ c.id \in Seq(Byte) /\ FitsBytes(Len(c.id), 2)
  /\ IsKey(c.key) /\ IsSmallMap(NumberPairs(c.key))
  /\ Lookup(c.key, "kty") # Rsa /\ \A i \in DOMAIN c.key : c.key[i][1] \in Numbered

\* 64 and 128 are the flags of the parts that may be missing.
IsAuthenticator(a) ==
  /\ a.rp \in Seq(Byte) /\ Len(a.rp) = RpLen
  /\ a.flags \in 0 .. 63
  /\ FitsBytes(a.count, CountLen)
  /\ IsSome(a.credential) => IsCredential(Get(a.credential))
  /\ IsSome(a.ext) => IsSmallMap(Get(a.ext))

AuthBytes(a) ==
  LET c == Get(a.credential)
  IN  a.rp \o <<a.flags + (IF IsSome(a.credential) THEN 64 ELSE 0) + (IF IsSome(a.ext) THEN 128 ELSE 0)>>
      \o BytesOf(a.count, CountLen)
      \o (IF IsSome(a.credential)
          THEN c.aaguid \o BytesOf(Len(c.id), 2) \o c.id \o SmallMap(NumberPairs(c.key)) ELSE <<>>)
      \o (IF IsSome(a.ext) THEN SmallMap(Get(a.ext)) ELSE <<>>)

IsStatement(s) == s.alg \in -I64 .. I64 - 1 /\ IsSequence(s.x5c)

WireStatement(s) ==
  Map(<<<<Text("alg"), Int_(s.alg)>>, <<Text("sig"), Bytes(s.sig)>>,
        <<Text("x5c"), Array([i \in DOMAIN s.x5c |-> Bytes(s.x5c[i])])>>>>)
AttestationEntries(a, s) ==
  <<<<Text("fmt"), Text("packed")>>, <<Text("attStmt"), WireStatement(s)>>,
    <<Text("authData"), Bytes(Opaque(AuthBytes(a)))>>>>
Ordered(seq, order) == [i \in DOMAIN seq |-> seq[order[i]]]

\* Registered numbers are i64s.
ASSUME SecurityAssumption ==
  /\ I64 > 3
  /\ \A k \in Keys : IsKey(k)
  /\ \A a \in Authenticators : IsAuthenticator(a)
  /\ \A s \in Statements : IsStatement(s)

-----------------------------------------------------------------------------
(* The calls.                                                              *)

VARIABLES
  call,    \* the function called
  sent,    \* what was meant, and how it was written
  answer   \* an Option: what the call answered
vars == <<call, sent, answer>>

SecurityInit ==
  /\ answer = None
  /\ \/ call = "cose_key" /\ sent \in Keys
     \/ /\ call = "authdata"
        /\ \E a \in Authenticators : \E n \in 0 .. Len(AuthBytes(a)) : sent = [auth |-> a, cut |-> n]
     \/ /\ call = "attestation"
        /\ \E a \in Authenticators, s \in Statements, o \in {p \in [1 .. 3 -> 1 .. 3] : IsInjective(p)} :
             sent = [auth |-> a, stmt |-> s, order |-> o]

Answered(name, result) ==
  /\ call = name
  /\ answer = None
  /\ answer' = Some(result)
  /\ UNCHANGED <<call, sent>>

CoseKey == Answered("cose_key", DecodeKey(WireKey(sent)))

ReadAuthData == Answered("authdata", AuthData(SubSeq(AuthBytes(sent.auth), 1, sent.cut)))

ReadAttestation ==
  Answered("attestation", Attestation(Map(Ordered(AttestationEntries(sent.auth, sent.stmt), sent.order))))

Done == IsSome(answer) /\ UNCHANGED vars

SecurityNext == CoseKey \/ ReadAuthData \/ ReadAttestation \/ Done

SecuritySpec == SecurityInit /\ [][SecurityNext]_vars

-----------------------------------------------------------------------------
(* Properties.                                                             *)

Answer(name) == call = name /\ IsSome(answer)

\* A key's parameters are read back in whatever order its map lists them, though
\* what -1, -2 and -3 mean depends on the key type (cose_key::decode_value).
KeyReadsBack ==
  Answer("cose_key") => Get(answer) = Some([f \in KeyField |-> Lookup(sent, f)])

\* "RSA fields may appear before `kty` in encoding order; re-scan if needed."
\* (cose_key.rs): whatever the order, the modulus and the exponent are read.
RsaFieldsInAnyOrder ==
  Answer("cose_key") /\ Lookup(sent, "kty") = Rsa =>
    /\ Get(Get(answer)).n = Lookup(sent, "n")
    /\ Get(Get(answer)).e = Lookup(sent, "e")

\* What authenticatorData of this authenticator says.
Meant(a) ==
  LET c == Get(a.credential)
      of(x) == IF IsSome(a.credential) THEN Some(x) ELSE None
      ints(pairs) == [i \in DOMAIN pairs |-> <<Int_(pairs[i][1]), Int_(pairs[i][2])>>]
  IN  [rp_id_hash |-> a.rp,
       up |-> a.flags % 2 = 1, uv |-> (a.flags \div 4) % 2 = 1,
       be |-> (a.flags \div 8) % 2 = 1, bs |-> (a.flags \div 16) % 2 = 1,
       at |-> IsSome(a.credential), ed |-> IsSome(a.ext),
       sign_count |-> a.count,
       aaguid |-> of(c.aaguid), cred_id |-> of(c.id), key |-> of([f \in KeyField |-> Lookup(c.key, f)]),
       extensions |-> IF IsSome(a.ext) THEN Some(Json(Map(ints(Get(a.ext))))) ELSE None]

\* authenticatorData is read back field by field past a credential id of declared
\* and a key of discovered length, also inside an attestation object of any
\* order; bytes cut anywhere are refused, unless only extensions are missing.
AuthenticatorReadsBack ==
  /\ Answer("authdata") =>
       IF sent.cut = Len(AuthBytes(sent.auth)) THEN Get(answer) = Some(Meant(sent.auth))
       ELSE Get(answer) \in {None, Some([Meant(sent.auth) EXCEPT !.extensions = None])}
  /\ Answer("attestation") =>
       Get(answer) = Some([fmt |-> "packed", auth |-> Meant(sent.auth),
                           alg |-> Some([name |-> sent.stmt.alg]), sig |-> Some(sent.stmt.sig),
                           x5c |-> sent.stmt.x5c, att_stmt |-> Json(WireStatement(sent.stmt))])
=============================================================================
