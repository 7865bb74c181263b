----------------------------- MODULE MCBatches -----------------------------
(***************************************************************************)
(* Batches with small integers (I64 = 40), authenticatorData with one byte *)
(* for each hash and ten microseconds in a second, so that late instants   *)
(* saturate: every batch of up to three rows for a few schemas and blobs,  *)
(* with NULLs, malformed blobs and values of other types among them.       *)
(***************************************************************************)
EXTENDS Batches

Name(n) == [name |-> n]
One == <<65>>
Two == <<65, 66>>
Type(name) == [type |-> name]
List(t) == [type |-> "LIST", child |-> t]
FixedList(t, n) == [type |-> "ARRAY", child |-> t, size |-> n]
Struct(x, y) == [type |-> "STRUCT", fields |-> <<[name |-> One, type |-> x], [name |-> Two, type |-> y]>>]
MapOf(k, v) == [type |-> "MAP", key |-> k, child |-> v]

Numbers_ == {Null, Int_(1), Tag(1, Int_(39)), Int_(40), Text(One)}
Listish == {Null, Array(<<>>), Array(<<Int_(1), Null>>), Array(<<Text(Two)>>), Tag(4, Array(<<Int_(2), Int_(3)>>)), Int_(1)}
Mapish == {Null, Map(<<>>), Map(<<<<Text(Two), Int_(1)>>, <<Text(One), Array(<<Int_(1), Bool(TRUE)>>)>>>>),
           Map(<<<<Text(One), Array(<<Int_(1)>>)>>, <<Text(One), Null>>>>), Map(<<<<Null, Null>>>>), Array(<<>>)}

\* A column type, and cells for it.
Cases ==
  {<<Type("BIGINT"), Numbers_ \cup {Float(6), Float(7), Float(80)}>>, <<Type("BOOLEAN"), {Null, Bool(FALSE), Int_(1)}>>,
   <<Type("VARCHAR"), Numbers_ \cup Mapish>>,
   <<Type("BLOB"), {Null, Bytes(One), Text(Two), Int_(1)}>>,
   <<[type |-> "FIXED_BLOB", size |-> 2], {Null, Bytes(One), Text(Two)}>>,
   <<List(Type("BIGINT")), Listish>>, <<List(List(Type("BIGINT"))), {Array(<<l, l>>) : l \in Listish} \cup {Null}>>,
   <<FixedList(Type("BIGINT"), 2), Listish>>,
   <<Struct(List(Type("VARCHAR")), FixedList(Type("BIGINT"), 2)),
     Mapish \cup {Map(<<<<Tag(1, Text(Two)), Array(<<Int_(1), Int_(2)>>)>>>>)}>>,
   <<MapOf(Type("VARCHAR"), Type("VARCHAR")), Mapish>>,
   <<MapOf(Type("BIGINT"), Type("VARCHAR")), {Map(<<<<Int_(2), Null>>, <<Int_(-3), Null>>>>), Null, Map(<<>>), Int_(1)}>>,
   <<List(Struct(Type("BIGINT"), MapOf(Type("VARCHAR"), Type("BIGINT")))),
     {Null, Array(<<Null, Map(<<>>)>>), Array(<<Map(<<<<Text(Two), Map(<<<<Text(One), Int_(1)>>>>)>>>>)>>), Array(<<Int_(1)>>)}>>}

Sequences_(s, n) == UNION {[1 .. k -> s] : k \in 0 .. n}
Schema(t) == <<[name |-> One, type |-> t], [name |-> Two, type |-> Type("BOOLEAN")]>>
Maps(c) == {Map(<<<<Text(Two), Bool(TRUE)>>, <<Text(One), v>>>>) : v \in c} \cup {Map(<<>>)}
Arrays(c) == {Array(<<v, Bool(FALSE)>>) : v \in c} \cup {Array(<<>>)}
Batch(t, shape, rows) == {[schema |-> Schema(t), shape |-> shape, rows |-> r] : r \in rows}
MCLoads == UNION {Batch(c[1], "map", Sequences_(Maps(c[2]), 2) \ {<<>>})
                  \cup Batch(c[1], "array", Sequences_(Arrays(c[2]), 2) \ {<<>>}) : c \in Cases}
           \cup Batch(FixedList(Type("BIGINT"), 2), "array", [1 .. 3 -> Arrays(Listish)])

\* Columns DuckDB holds: cells that convert.
MCColumned ==
  UNION {{[type |-> c[1], values |-> vs] : vs \in Sequences_({v \in c[2] : Convert(c[1], v) # None}, 2)} : c \in Cases}

Docs == {Encoding(Map(<<<<Text(Two), Tag(1, Int_(2))>>, <<Text(One), Tag(1, Array(<<Tag(1, Null)>>))>>>>)),
         Encoding(Map(<<<<Int_(1), Null>>, <<Int_(1), Null>>>>)), Encoding(Null), Trailed(Int_(1)), Opaque(1)}

Header(k, x) == <<Int_(k), x>>
Sign1(protected, unprotected, payload) ==
  Array(<<Map(protected), Map(unprotected), payload, Bytes(Opaque(9))>>)
Messages ==
  {Encoding(Tag(18, Sign1(<<Header(1, Int_(-7))>>, <<Header(33, Array(<<Bytes(Opaque(1)), Bytes(Opaque(2))>>))>>, Null))),
   Trailed(Sign1(<<Header(33, Bytes(Opaque(3)))>>, <<Header(34, Array(<<Int_(5), Bytes(Opaque(4))>>))>>, Bytes(Opaque(5)))),
   Encoding(Map(<<>>)), Opaque(1)}
Keys == {Encoding(Map(<<<<Int_(1), Int_(2)>>, <<Int_(-2), Bytes(Opaque(1))>>>>)), Encoding(Map(<<>>)), Encoding(Null), Opaque(1)}
Claims == {Encoding(Map(<<<<Int_(4), Int_(n)>>, <<Text("scope"), Null>>>>)) : n \in {-5, 0, 3, 4}}
          \cup {Encoding(Map(<<<<Int_(7), Bytes(Opaque(1))>>>>)), Encoding(Int_(1))}

Plain == <<7, 1, 0, 3>>
WithKey == <<7, 65, 0, 3, 9, 0, 1, 5, 161, 1, 1>>
Attest(data, stmt) == Encoding(Map(<<<<Text("fmt"), Text("packed")>>, <<Text("authData"), Bytes(Opaque(data))>>>> \o stmt))

Blob ==
  [c \in {"to_json", "diagnostic", "is_valid", "well_formed", "tags", "untag", "canonical"} |-> Docs]
  @@ [c \in {"cose_decode", "cose_headers", "cose_payload", "cose_x5chain", "cose_x5t"} |-> Messages]
  @@ "cose_key" :> Keys @@ "cwt_claims" :> Claims
  @@ "authdata" :> {Opaque(Plain), Opaque(WithKey), Opaque(SubSeq(WithKey, 1, 9)), Opaque(<<>>)}
  @@ "seq_decode" :> {[kind |-> "sequence", items |-> s, rest |-> r] :
                        s \in {<<>>, <<Int_(1)>>, <<Null, Text(One), Int_(1)>>}, r \in BOOLEAN}
  @@ "attestation" :> {Attest(Plain, <<>>), Attest(<<7>>, <<>>), Encoding(Null), Opaque(1),
                       Attest(WithKey, <<<<Text("attStmt"), Map(<<<<Text("x5c"), Array(<<Bytes(Opaque(2))>>)>>>>)>>>>)}

\* The values in the blobs, with their parts, those in byte strings included.
RECURSIVE Parts(_)
Parts(v) ==
  {v} \cup
  CASE Is(v, "array") -> UNION {Parts(v.items[i]) : i \in DOMAIN v.items}
    [] Is(v, "map")   -> UNION {Parts(v.entries[i][1]) \cup Parts(v.entries[i][2]) : i \in DOMAIN v.entries}
    [] Is(v, "tag")   -> Parts(v.inner)
    [] Is(v, "bytes") -> UNION {Parts(x) : x \in Range(ParseBytes(v.bytes))}
    [] OTHER          -> {}
MCValue == UNION {UNION {Parts(v) : v \in Range(ParseBytes(b))} : b \in Messages}

MCTexts == {None, Some(JsonNumber(39)), Some(JsonArray(<<JsonString(One)>>)),
            Some(JsonObject([n \in {One, Two} |-> Null]))}
=============================================================================
