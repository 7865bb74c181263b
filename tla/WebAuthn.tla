------------------------------ MODULE WebAuthn ------------------------------
(***************************************************************************)
(* cbor-core/src/security/webauthn.rs: the byte layout of                  *)
(* authenticatorData, walked with a cursor past fields of given, declared  *)
(* and discovered length, and the attestation object around it.            *)
(***************************************************************************)
EXTENDS CoseKeys

CONSTANTS
  RpLen,      \* 32: bytes of the RP id hash
  CountLen,   \* 4: bytes of the signature counter
  AaguidLen   \* 16

ASSUME WebAuthnAssumption == {RpLen, CountLen, AaguidLen} \subseteq Nat \ {0}

FixedLen == RpLen + 1 + CountLen

\* A byte is a number below 256.  Slice(b, from, n): the n bytes behind from.
Slice(b, from, n) == SubSeq(b, from + 1, from + n)
BigEndian(b) == FoldLeft(LAMBDA acc, byte : 256 * acc + byte, 0, b)
Flag(b, bit) == (b[RpLen + 1] \div bit) % 2 = 1

-----------------------------------------------------------------------------
(* ciborium on the bytes: small integers, and maps of them.                *)

IsSmall(byte) == byte < 24 \/ (32 <= byte /\ byte < 56)
Small(byte) == Int_(IF byte < 24 THEN byte ELSE 31 - byte)

\* <<value, bytes consumed>> of the item that starts behind from.
ReadItem(b, from) ==
  LET head == b[from + 1]
      pairs == head - 160
      entry(i) == <<b[from + 2 * i], b[from + 2 * i + 1]>>
  IN  IF from >= Len(b) THEN None
      ELSE IF IsSmall(head) THEN Some(<<Small(head), 1>>)
      ELSE IF /\ 160 <= head /\ head < 184
              /\ from + 1 + 2 * pairs <= Len(b)
              /\ \A i \in 1 .. pairs : IsSmall(entry(i)[1]) /\ IsSmall(entry(i)[2])
      THEN Some(<<Map([i \in 1 .. pairs |-> <<Small(entry(i)[1]), Small(entry(i)[2])>>]),
                  1 + 2 * pairs>>)
      ELSE None

-----------------------------------------------------------------------------
(* authenticatorData.                                                      *)

\* A seeded slip: the key is read but not stepped over.
KeyEndStuck(start, consumed) == start

\* Where the credential public key ends: it declares no length, the parser finds it.
KeyEnd(start, consumed) == start + consumed

\* Attested credential data, and the cursor behind them: None when they are cut
\* or the key is not a map.
Attested(b) ==
  LET fits == FixedLen + AaguidLen + 2 <= Len(b)
      len == BigEndian(Slice(b, FixedLen + AaguidLen, 2))
      id == FixedLen + AaguidLen + 2
      item == ReadItem(b, id + len)
      key == DecodeKey(Get(item)[1])
  IN  IF fits /\ id + len <= Len(b) /\ IsSome(item) /\ IsSome(key)
      THEN Some([aaguid |-> Some(Slice(b, FixedLen, AaguidLen)), cred_id |-> Some(Slice(b, id, len)),
                 key |-> key, cursor |-> KeyEnd(id + len, Get(item)[2])])
      ELSE None

Unattested == [aaguid |-> None, cred_id |-> None, key |-> None, cursor |-> FixedLen]

\* Extensions that do not parse are left out, not an error.
Extensions(b, cursor) ==
  LET item == ReadItem(b, cursor)
  IN  IF cursor < Len(b) /\ IsSome(item) THEN Some(Json(Get(item)[1])) ELSE None

AuthData(b) ==
  LET attested == IF Flag(b, 64) THEN Attested(b) ELSE Some(Unattested)
      a == Get(attested)
  IN  IF Len(b) < FixedLen \/ ~IsSome(attested) THEN None
      ELSE Some([rp_id_hash |-> Slice(b, 0, RpLen),
                 up |-> Flag(b, 1), uv |-> Flag(b, 4), be |-> Flag(b, 8), bs |-> Flag(b, 16),
                 at |-> Flag(b, 64), ed |-> Flag(b, 128),
                 sign_count |-> BigEndian(Slice(b, RpLen + 1, CountLen)),
                 aaguid |-> a.aaguid, cred_id |-> a.cred_id, key |-> a.key,
                 extensions |-> IF Flag(b, 128) THEN Extensions(b, a.cursor) ELSE None])

-----------------------------------------------------------------------------
(* The attestation object.                                                 *)

\* map_get: the first entry of that name.
MapGet(entries, name) ==
  LET hits == {i \in DOMAIN entries : entries[i][1] = Text(name)}
  IN  IF hits = {} THEN None ELSE Some(entries[Min(hits)][2])

X5c(v) ==
  IF Is(v, "array") THEN ByteStrings(v.items)
  ELSE IF Is(v, "bytes") THEN <<v.bytes>> ELSE <<>>

Attestation(v) ==
  LET fmt == MapGet(v.entries, "fmt")
      data == MapGet(v.entries, "authData")
      stmt == MapGet(v.entries, "attStmt")
      auth == AuthData(Get(data).bytes.raw)
      OfStatement(name, Read(_), absent) ==
        IF IsSome(stmt) /\ Is(Get(stmt), "map") /\ IsSome(MapGet(Get(stmt).entries, name))
        THEN Read(Get(MapGet(Get(stmt).entries, name))) ELSE absent
  IN  IF \/ ~Is(v, "map")
         \/ ~IsSome(fmt) \/ ~Is(Get(fmt), "text")
         \/ ~IsSome(data) \/ ~Is(Get(data), "bytes")
         \/ ~IsSome(auth)
      THEN None
      ELSE Some([fmt |-> Get(fmt).text, auth |-> Get(auth),
                 alg |-> OfStatement("alg", Named, None),
                 sig |-> OfStatement("sig", AsBytes, None),
                 x5c |-> OfStatement("x5c", X5c, <<>>),
                 att_stmt |-> IF IsSome(stmt) THEN Json(Get(stmt)) ELSE Json(Map(<<>>))])
=============================================================================
