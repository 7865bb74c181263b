-------------------------------- MODULE Trees --------------------------------
(***************************************************************************)
(* The views of a decoded value: the deterministic encodings               *)
(* (cbor-core/src/codec/encode.rs), the duplicate-key check (value.rs,     *)
(* validate.rs), JSON in both directions (codec/json.rs), diagnostic       *)
(* notation (codec/diagnostic.rs) and the tag views (codec/tags.rs).       *)
(*                                                                         *)
(* Texts, byte strings and JSON keys are sequences of characters, which    *)
(* are numbers; a JSON object is a function of its keys, sorted by name    *)
(* when it is written out.                                                 *)
(***************************************************************************)
EXTENDS Values, SequencesExt

Mode == {"core", "ctap2"}

-----------------------------------------------------------------------------
(* Floats: halves, and those that halves do not tell apart.                *)

NegativeZero == [kind |-> "float", half |-> 0, negative |-> TRUE]
NaN(p) == [kind |-> "float", payload |-> p]
IsNaN(v) == "payload" \in DOMAIN v
IsNegative(v) == "negative" \in DOMAIN v \/ v.half < 0
Magnitude(v) == IF v.half < 0 THEN -v.half ELSE v.half

\* Half a float in sixteen bits: sign, exponent with bias 15, fraction.
FloatBits(v) ==
  LET h == Magnitude(v)
      e == CHOOSE k \in 0 .. 10 : 2 ^ k <= h /\ h < 2 ^ (k + 1)
  IN  IF IsNaN(v) THEN 32256 + v.payload
      ELSE (IF IsNegative(v) THEN 32768 ELSE 0)
           + (IF h = 0 THEN 0 ELSE (e + 14) * 1024 + (h - 2 ^ e) * 2 ^ (10 - e))

-----------------------------------------------------------------------------
(* The encoding of small values, and its order.                            *)

HeadOf(major, n) == IF n < 24 THEN <<32 * major + n>> ELSE <<32 * major + 24, n>>

RECURSIVE Encode(_)
Encode(v) ==
  CASE Is(v, "int")   -> IF v.n >= 0 THEN HeadOf(0, v.n) ELSE HeadOf(1, -1 - v.n)
    [] Is(v, "bytes") -> HeadOf(2, Len(v.bytes)) \o v.bytes
    [] Is(v, "text")  -> HeadOf(3, Len(v.text)) \o v.text
    [] Is(v, "array") -> FoldLeft(LAMBDA acc, x : acc \o Encode(x), HeadOf(4, Len(v.items)), v.items)
    [] Is(v, "map")   -> FoldLeft(LAMBDA acc, e : acc \o Encode(e[1]) \o Encode(e[2]),
                                  HeadOf(5, Len(v.entries)), v.entries)
    [] Is(v, "tag")   -> HeadOf(6, v.tag) \o Encode(v.inner)
    [] Is(v, "bool")  -> <<IF v.bool THEN 245 ELSE 244>>
    [] Is(v, "null")  -> <<246>>
    [] Is(v, "float") -> <<249, FloatBits(v) \div 256, FloatBits(v) % 256>>

\* The byte order of Rust's slices.
Bytewise(a, b) ==
  \/ Len(a) < Len(b) /\ IsPrefix(a, b)
  \/ \E i \in 1 .. Len(a) : /\ i <= Len(b) /\ a[i] < b[i]
                            /\ \A j \in 1 .. i - 1 : a[j] = b[j]

KeyLess(mode, a, b) ==
  CASE mode = "core"  -> Bytewise(a, b)
    [] mode = "ctap2" -> Len(a) < Len(b) \/ (Len(a) = Len(b) /\ Bytewise(a, b))

\* The entries by the bytes of their keys; equal keys stay as they were.
SortEntries(es, mode) ==
  LET key == [i \in DOMAIN es |-> Encode(es[i][1])]
      Before(i, j) == KeyLess(mode, key[i], key[j]) \/ (key[i] = key[j] /\ i < j)
      order == SortSeq([i \in DOMAIN es |-> i], Before)
  IN  [i \in DOMAIN es |-> es[order[i]]]

\* A seeded slip: the keys are sorted as they came, and rewritten afterwards.
RECURSIVE CanonicalizeLate(_, _)
CanonicalizeLate(v, mode) ==
  LET C(x) == CanonicalizeLate(x, mode)
      sorted == SortEntries(v.entries, mode)
  IN  CASE Is(v, "array") -> Array([i \in DOMAIN v.items |-> C(v.items[i])])
        [] Is(v, "map")   -> Map([i \in DOMAIN sorted |-> <<C(sorted[i][1]), C(sorted[i][2])>>])
        [] Is(v, "tag")   -> Tag(v.tag, C(v.inner))
        [] OTHER          -> v

RECURSIVE Canonicalize(_, _)
Canonicalize(v, mode) ==
  LET C(x) == Canonicalize(x, mode)
      es == v.entries
  IN  CASE Is(v, "array") -> Array([i \in DOMAIN v.items |-> C(v.items[i])])
        [] Is(v, "map")   -> Map(SortEntries([i \in DOMAIN es |-> <<C(es[i][1]), C(es[i][2])>>], mode))
        [] Is(v, "tag")   -> Tag(v.tag, C(v.inner))
        [] OTHER          -> v

\* canonical, and encode in its canonical modes
Canonical(v, mode) == Encode(Canonicalize(v, mode))

-----------------------------------------------------------------------------
(* Duplicate keys.                                                         *)

\* Equal kinds with equal contents; arrays and maps element by element, in the
\* order they were encoded in.  Floats are compared as numbers, so that the two
\* zeros are equal, but what is not a number equals its like.
RECURSIVE ValuesEqual(_, _)
ValuesEqual(a, b) ==
  CASE a.kind # b.kind -> FALSE
    [] Is(a, "float")  -> IF IsNaN(a) \/ IsNaN(b) THEN IsNaN(a) /\ IsNaN(b) ELSE a.half = b.half
    [] Is(a, "tag")    -> a.tag = b.tag /\ ValuesEqual(a.inner, b.inner)
    [] Is(a, "array")  -> /\ Len(a.items) = Len(b.items)
                          /\ \A i \in DOMAIN a.items : ValuesEqual(a.items[i], b.items[i])
    [] Is(a, "map")    -> /\ Len(a.entries) = Len(b.entries)
                          /\ \A i \in DOMAIN a.entries, part \in {1, 2} :
                               ValuesEqual(a.entries[i][part], b.entries[i][part])
    [] OTHER           -> a = b

\* A seeded slip: keys are only compared with their neighbours.
RECURSIVE HasDuplicateNeighbours(_)
HasDuplicateNeighbours(v) ==
  CASE Is(v, "map")   -> \/ \E i \in 2 .. Len(v.entries) : ValuesEqual(v.entries[i - 1][1], v.entries[i][1])
                         \/ \E i \in DOMAIN v.entries :
                              HasDuplicateNeighbours(v.entries[i][1]) \/ HasDuplicateNeighbours(v.entries[i][2])
    [] Is(v, "array") -> \E i \in DOMAIN v.items : HasDuplicateNeighbours(v.items[i])
    [] Is(v, "tag")   -> HasDuplicateNeighbours(v.inner)
    [] OTHER          -> FALSE

RECURSIVE HasDuplicateKeys(_)
HasDuplicateKeys(v) ==
  CASE Is(v, "map")   -> \/ \E i, j \in DOMAIN v.entries :
                              i < j /\ ValuesEqual(v.entries[i][1], v.entries[j][1])
                         \/ \E i \in DOMAIN v.entries :
                              HasDuplicateKeys(v.entries[i][1]) \/ HasDuplicateKeys(v.entries[i][2])
    [] Is(v, "array") -> \E i \in DOMAIN v.items : HasDuplicateKeys(v.items[i])
    [] Is(v, "tag")   -> HasDuplicateKeys(v.inner)
    [] OTHER          -> FALSE

\* well_formed of a blob that parses
WellFormed(v) == IF HasDuplicateKeys(v) THEN "duplicate-key" ELSE "ok"

-----------------------------------------------------------------------------
(* JSON.                                                                   *)

RECURSIVE Decimal(_)
Decimal(n) ==
  IF n < 0 THEN <<45>> \o Decimal(-n)
  ELSE IF n < 10 THEN <<48 + n>> ELSE Decimal(n \div 10) \o <<48 + (n % 10)>>

\* base64url: another writing of the same bytes, in other characters.
B64Url(b) == <<66>> \o b

JsonString(s) == [kind |-> "string", chars |-> s]
JsonNumber(n) == [kind |-> "number", n |-> n]
JsonArray(s) == [kind |-> "array", items |-> s]
JsonObject(f) == [kind |-> "object", fields |-> f]
JsonDouble(v) == [kind |-> "double", float |-> v]

\* A seeded slip: only an i64 is a number.
IntToJsonSigned(n) == IF -I64 <= n /\ n < I64 THEN JsonNumber(n) ELSE JsonString(Decimal(n))

\* Beyond u64 and i64 a number becomes a string.
IntToJson(n) == IF -I64 <= n /\ n < 2 * I64 THEN JsonNumber(n) ELSE JsonString(Decimal(n))

\* A float as Rust displays it, and with the point that JSON and the diagnostic
\* notation keep.
FloatChars(v) ==
  IF IsNaN(v) THEN <<78>>
  ELSE (IF IsNegative(v) THEN <<45>> ELSE <<>>)
       \o Decimal(Magnitude(v) \div 2) \o (IF v.half % 2 = 0 THEN <<>> ELSE <<46, 53>>)
PointChars(v) == IF IsNaN(v) \/ v.half % 2 # 0 THEN FloatChars(v) ELSE FloatChars(v) \o <<46, 48>>

\* JSON has no number for what is not one.
FloatToJson(v) == IF IsNaN(v) THEN Null ELSE JsonDouble(v)

\* serde_json's text: the quotes of strings, no spaces, fields by their names.
RECURSIVE JsonChars(_)
JsonChars(j) ==
  LET Listed(open, parts, close) ==
        <<open>> \o FoldLeft(LAMBDA acc, p : acc \o (IF acc = <<>> THEN <<>> ELSE <<44>>) \o p, <<>>, parts) \o <<close>>
      names == SortSeq(SetToSeq(DOMAIN j.fields), Bytewise)
  IN  CASE j.kind = "null"   -> <<110>>
        [] j.kind = "bool"   -> IF j.bool THEN <<116>> ELSE <<102>>
        [] j.kind = "number" -> Decimal(j.n)
        [] j.kind = "double" -> PointChars(j.float)
        [] j.kind = "string" -> <<34>> \o j.chars \o <<34>>
        [] j.kind = "array"  -> Listed(91, [i \in DOMAIN j.items |-> JsonChars(j.items[i])], 93)
        [] j.kind = "object" -> Listed(123, [i \in DOMAIN names |->
                                  <<34>> \o names[i] \o <<34, 58>> \o JsonChars(j.fields[names[i]])], 125)

RECURSIVE ToJson(_)

\* Scalar keys as text, any other as the JSON it renders as: a tag is transparent
\* there too, and a map's entries are in the order of their names.
JsonKey(k) ==
  CASE Is(k, "text")  -> k.text
    [] Is(k, "int")   -> Decimal(k.n)
    [] Is(k, "bytes") -> B64Url(k.bytes)
    [] Is(k, "bool")  -> IF k.bool THEN <<116>> ELSE <<102>>
    [] Is(k, "null")  -> <<110>>
    [] Is(k, "float") -> FloatChars(k)
    [] OTHER          -> JsonChars(ToJson(k))

\* to_json_value: of entries whose keys read the same, the last one stays.
ToJson(v) ==
  LET last(name) == CHOOSE i \in DOMAIN v.entries :
                      /\ JsonKey(v.entries[i][1]) = name
                      /\ \A j \in DOMAIN v.entries : j > i => JsonKey(v.entries[j][1]) # name
  IN  CASE Is(v, "null")  -> v
        [] Is(v, "bool")  -> v
        [] Is(v, "int")   -> IntToJson(v.n)
        [] Is(v, "float") -> FloatToJson(v)
        [] Is(v, "text")  -> JsonString(v.text)
        [] Is(v, "bytes") -> JsonString(B64Url(v.bytes))
        [] Is(v, "array") -> JsonArray([i \in DOMAIN v.items |-> ToJson(v.items[i])])
        [] Is(v, "map")   -> JsonObject([name \in {JsonKey(v.entries[i][1]) : i \in DOMAIN v.entries} |->
                                           ToJson(v.entries[last(name)][2])])
        [] Is(v, "tag")   -> ToJson(v.inner)

\* json_to_cbor: an object's fields come in the order of their names.
RECURSIVE JsonToCbor(_)
JsonToCbor(j) ==
  LET names == SortSeq(SetToSeq(DOMAIN j.fields), Bytewise)
  IN  CASE j.kind = "null"   -> j
        [] j.kind = "bool"   -> j
        [] j.kind = "number" -> Int_(j.n)
        [] j.kind = "double" -> j.float
        [] j.kind = "string" -> Text(j.chars)
        [] j.kind = "array"  -> Array([i \in DOMAIN j.items |-> JsonToCbor(j.items[i])])
        [] j.kind = "object" -> Map([i \in DOMAIN names |->
                                       <<Text(names[i]), JsonToCbor(j.fields[names[i]])>>])

\* from_json
FromJson(j) == Canonicalize(JsonToCbor(j), "core")

-----------------------------------------------------------------------------
(* Diagnostic notation, as the sequence of its tokens.                     *)

RECURSIVE Render(_)
Render(v) ==
  LET Listed(open, parts, close) ==
        <<open>> \o FoldLeft(LAMBDA acc, p : acc \o (IF acc = <<>> THEN <<>> ELSE <<",">>) \o p, <<>>, parts)
        \o <<close>>
  IN  CASE Is(v, "null")  -> <<"null">>
        [] Is(v, "bool")  -> <<IF v.bool THEN "true" ELSE "false">>
        [] Is(v, "int")   -> <<ToString(v.n)>>
        [] Is(v, "float") -> <<ToString(PointChars(v))>>
        [] Is(v, "text")  -> <<"'", ToString(v.text), "'">>
        [] Is(v, "bytes") -> <<"h'", ToString(v.bytes), "'">>
        [] Is(v, "array") -> Listed("[", [i \in DOMAIN v.items |-> Render(v.items[i])], "]")
        [] Is(v, "map")   -> Listed("{", [i \in DOMAIN v.entries |->
                                            Render(v.entries[i][1]) \o <<":">> \o Render(v.entries[i][2])], "}")
        [] Is(v, "tag")   -> <<ToString(v.tag), "(">> \o Render(v.inner) \o <<")">>

-----------------------------------------------------------------------------
(* Tags.                                                                   *)

\* walk: the tags below a value, outermost first, each with where it stands and
\* what it holds; the keys of maps are not searched.
RECURSIVE Tags(_, _)
Tags(v, path) ==
  CASE Is(v, "tag")   -> <<[tag |-> v.tag, path |-> path, value |-> ToJson(v.inner)]>> \o Tags(v.inner, path)
    [] Is(v, "array") -> FlattenSeq([i \in DOMAIN v.items |-> Tags(v.items[i], Append(path, <<ToString(i - 1)>>))])
    [] Is(v, "map")   -> FlattenSeq([i \in DOMAIN v.entries |-> Tags(v.entries[i][2], Append(path, Render(v.entries[i][1])))])
    [] OTHER          -> <<>>

\* A seeded slip: a tag inside the tag looked for is passed over.
RECURSIVE UntagOutermost(_, _)
UntagOutermost(v, want) ==
  CASE Is(v, "tag")   -> IF v.tag = want THEN <<ToJson(v.inner)>> ELSE UntagOutermost(v.inner, want)
    [] Is(v, "array") -> FlattenSeq([i \in DOMAIN v.items |-> UntagOutermost(v.items[i], want)])
    [] Is(v, "map")   -> FlattenSeq([i \in DOMAIN v.entries |-> UntagOutermost(v.entries[i][2], want)])
    [] OTHER          -> <<>>

\* collect_tag
RECURSIVE Untag(_, _)
Untag(v, want) ==
  CASE Is(v, "tag")   -> (IF v.tag = want THEN <<ToJson(v.inner)>> ELSE <<>>) \o Untag(v.inner, want)
    [] Is(v, "array") -> FlattenSeq([i \in DOMAIN v.items |-> Untag(v.items[i], want)])
    [] Is(v, "map")   -> FlattenSeq([i \in DOMAIN v.entries |-> Untag(v.entries[i][2], want)])
    [] OTHER          -> <<>>
=============================================================================
