------------------------------ MODULE Answers ------------------------------
(***************************************************************************)
(* The security decoders applied to a column of blobs: the scalar          *)
(* functions (cbor-worker/src/scalar/) that answer with a column of as     *)
(* many rows, and the table functions (table/) that fan a row out into     *)
(* any number.  One action is one call with one batch; each row of a batch *)
(* is NULL (None) or a blob.                                               *)
(***************************************************************************)
EXTENDS ArrowIo, WebAuthn

CONSTANTS
  Blobs,     \* the blobs a function meets: a set for every function
  MaxRows,   \* rows of a batch of blobs
  Value      \* the values in the messages among them, with their parts

SecurityCalls == {"cose_decode", "cose_headers", "cose_payload", "cose_x5chain", "cose_x5t", "cose_key",
                  "cwt_claims", "authdata"}
FanCalls == {"seq_decode", "attestation"}
MessageCalls == {"cose_decode", "cose_headers", "cose_payload", "cose_x5chain", "cose_x5t"}

\* What ciborium returns: the parts of a value are values, and so is what a byte
\* string in one is the encoding of.
IsValue(v) ==
  /\ Is(v, "array") => v.items \in Seq(Value)
  /\ Is(v, "map") => v.entries \in Seq(Value \X Value)
  /\ Is(v, "tag") => v.inner \in Value
  /\ Is(v, "bytes") /\ IsSome(ParseBytes(v.bytes)) => Get(ParseBytes(v.bytes)) \in Value

ASSUME AnswersAssumption ==
  /\ MaxRows \in Nat
  /\ \A v \in Value : IsValue(v)
  /\ \A fn \in MessageCalls : \A b \in Blobs[fn] : IsSome(ParseBytes(b)) => Get(ParseBytes(b)) \in Value
  /\ \A b \in Blobs["seq_decode"] : b.items \in Seq(Range(b.items))

-----------------------------------------------------------------------------
(* The scalar functions.                                                   *)

\* The value of every row's blob: its first item; NULL for NULL and for a blob
\* that does not decode.
FirstItems(rows) == Each(rows, ParseBytes)

ReadBlob(b) == AuthData(b.raw)

\* What each function goes on with: the decoded rows.
Decoded(fn, rows) ==
  CASE fn \in MessageCalls -> Each(FirstItems(rows), CoseDecode)
    [] fn = "cose_key"     -> Each(FirstItems(rows), DecodeKey)
    [] fn = "cwt_claims"   -> Each(FirstItems(rows), CwtClaims)
    [] fn = "authdata"     -> Each(rows, ReadBlob)

BuildCoseDecode(d) ==
  StructOf(d, [tag |-> OptArray(AndThen(d, "tag")), msg_type |-> OptArray(Mapped(d, "type")),
               protected |-> HeaderArrayOpt(Mapped(d, "protected")),
               unprotected |-> HeaderArrayOpt(Mapped(d, "unprotected")),
               payload |-> OptArray(AndThen(d, "payload")),
               signature |-> OptArray(AndThen(d, "signature")),
               recipients |-> OptArray(AndThen(d, "recipients"))])

BuildCoseHeaders(d) == HeaderArrayOpt(Every(d, MergedHeaders))
BuildCosePayload(d) == OptArray(AndThen(d, "payload"))
BuildCoseX5chain(d) == ListBinaryArray(AndThen(Every(d, MergedHeaders), "x5chain"))
BuildCoseX5t(d) == OptArray(Mapped(AndThen(Every(d, MergedHeaders), "x5t"), 2))
BuildCoseKey(keys) == CoseKeyArray(keys)

ExtraOf(c) == IF c.extra = {} THEN None ELSE Some(c.extra)
BuildCwt(claims) ==
  LET column(f) == CASE f \in {"exp", "nbf", "iat"} -> TsArray(AndThen(claims, f))
                     [] f = "extra" -> OptArray(Each(claims, ExtraOf))
                     [] OTHER -> OptArray(AndThen(claims, f))
  IN  StructOf(claims, [f \in Range(Claim) \cup {"extra"} |-> column(f)])

AuthFields == {"rp_id_hash", "up", "uv", "be", "bs", "at", "ed", "sign_count",
               "aaguid", "cred_id", "key", "extensions"}
BuildAuthData(parsed) ==
  LET column(f) ==
        CASE f \in {"aaguid", "cred_id", "extensions"} -> OptArray(AndThen(parsed, f))
          [] f = "key" -> CoseKeyArray(AndThen(parsed, f))
          [] OTHER     -> OptArray(Mapped(parsed, f))
  IN  StructOf(parsed, [f \in AuthFields |-> column(f)])

\* The column a scalar function makes of what it decoded.
Built(fn, decoded) ==
  CASE fn = "cose_decode"  -> BuildCoseDecode(decoded)
    [] fn = "cose_headers" -> BuildCoseHeaders(decoded)
    [] fn = "cose_payload" -> BuildCosePayload(decoded)
    [] fn = "cose_x5chain" -> BuildCoseX5chain(decoded)
    [] fn = "cose_x5t"     -> BuildCoseX5t(decoded)
    [] fn = "cose_key"     -> BuildCoseKey(decoded)
    [] fn = "cwt_claims"   -> BuildCwt(decoded)
    [] fn = "authdata"     -> BuildAuthData(decoded)

-----------------------------------------------------------------------------
(* The table functions: any number of rows out for a row in, each with its *)
(* parent.                                                                 *)

\* A seeded slip: NULL rows are not counted.
ParentCounted(rows, i) == Cardinality({j \in 1 .. i : IsSome(rows[j])}) - 1

\* The input row a row comes from, from zero.
Parent(rows, i) == i - 1

\* The rows out of every input row, NULL or not.
Fan(outs) ==
  FlattenSeq([i \in DOMAIN outs |->
    [k \in DOMAIN Lists(outs)[i] |-> [parent |-> Parent(outs, i), row |-> Lists(outs)[i][k]]]])

\* seq_decode of a blob of whole items, and what is behind them.
SeqItems(b) == [k \in DOMAIN b.items |-> [idx |-> k - 1, value |-> Json(b.items[k])]]
SeqDecode(rows) == Fan(Every(rows, SeqItems))

\* An attestation object is one row, anything else none.
AttestationObjects(rows) == Each(FirstItems(rows), Attestation)
AttestationRows(a) ==
  <<[fmt |-> a.fmt, aaguid |-> a.auth.aaguid, sign_count |-> a.auth.sign_count,
     rp_id_hash |-> a.auth.rp_id_hash, up |-> a.auth.up, uv |-> a.auth.uv, cred_id |-> a.auth.cred_id,
     alg |-> a.alg, sig |-> a.sig, x5c |-> a.x5c, att_stmt |-> a.att_stmt]>>
AttestationTable(objects) == Fan(Every(objects, AttestationRows))

FannedOut(fn, rows) ==
  CASE fn = "seq_decode"  -> SeqDecode(rows)
    [] fn = "attestation" -> AttestationTable(AttestationObjects(rows))

-----------------------------------------------------------------------------
(* The calls.                                                              *)

VARIABLES
  call,      \* the function called
  sent,      \* its arguments
  answer     \* an Option: what it answered

Failed == None
Rows(blobs) == UNION {[1 .. n -> {None} \cup {Some(b) : b \in blobs}] : n \in 0 .. MaxRows}

AnswersInit ==
  /\ answer = None
  /\ \/ /\ call \in SecurityCalls
        /\ \E rows \in Rows(Blobs[call]), t \in {"BLOB", "BIGINT"} : sent = [type |-> t, rows |-> rows]
     \/ /\ call \in FanCalls
        /\ sent \in Rows(Blobs[call])

Answered(result) ==
  /\ answer = None
  /\ answer' = Some(result)
  /\ UNCHANGED <<call, sent>>

\* process: the input is read first, an argument of another type fails the call.
CallSecurity ==
  /\ call \in SecurityCalls
  /\ LET input == BlobBytes(sent.type, sent.rows)
     IN  IF IsSome(input)
         THEN \E decoded \in {Decoded(call, Get(input))} : Answered(Some(Built(call, decoded)))
         ELSE Answered(Failed)

CallSeqDecode == call = "seq_decode" /\ Answered(SeqDecode(sent))

CallAttestation ==
  /\ call = "attestation"
  /\ \E objects \in {AttestationObjects(sent)} : Answered(AttestationTable(objects))

AnswersNext == CallSecurity \/ CallSeqDecode \/ CallAttestation

AnswersSpec == AnswersInit /\ [][AnswersNext]_<<call, sent, answer>>

-----------------------------------------------------------------------------
(* Properties.                                                             *)

\* Whether a row that decodes has an answer: a function of one part of a message
\* has none where that part is missing.
HasAnswer(fn, d) ==
  CASE fn = "cose_payload" -> IsSome(d.payload)
    [] fn = "cose_x5chain" -> IsSome(MergedHeaders(d).x5chain)
    [] fn = "cose_x5t"     -> IsSome(MergedHeaders(d).x5t)
    [] OTHER               -> TRUE

\* "a malformed blob yields a NULL output" (scalar/common.rs): every row of a
\* scalar function's answer is what it answers to that row alone, NULL to NULL;
\* a struct is NULL exactly if its blob does not decode, not a struct of NULLs.
AnswersRowByRow ==
  call \in SecurityCalls /\ IsSome(answer) /\ Get(answer) # Failed =>
    LET rows == sent.rows
        column == Get(Get(answer))
    IN  \A i \in DOMAIN rows : \A alone \in {Decoded(call, <<rows[i]>>)} :
          /\ ReadRow(column, i) = ReadRow(Built(call, alone), 1)
          /\ ReadRow(column, i) # None <=> (IsSome(alone[1]) /\ HasAnswer(call, Get(alone[1])))

\* "every output row" names its input row (table/seq.rs): the rows a table function
\* makes of an input row, NULL or not a sequence or not an attestation object in
\* between, are those it makes of that row alone, in order, and name it.
FansOutPerRow ==
  call \in FanCalls /\ IsSome(answer) =>
    LET out == Get(answer)
    IN  /\ \A j \in DOMAIN out : /\ out[j].parent \in 0 .. Len(sent) - 1
                                 /\ j > 1 => out[j - 1].parent <= out[j].parent
        /\ \A i \in DOMAIN sent : \A alone \in {FannedOut(call, <<sent[i]>>)} :
             \E first \in 0 .. Len(out) :
               /\ {j \in DOMAIN out : out[j].parent = i - 1} = first + 1 .. first + Len(alone)
               /\ \A k \in DOMAIN alone : out[first + k].row = alone[k].row
=============================================================================
