------------------------------ MODULE Adapters ------------------------------
(***************************************************************************)
(* The codec and the views applied to a column (cbor-worker/src/scalar/    *)
(* codec.rs): the rows decoded, and the column built of what they are.     *)
(***************************************************************************)
EXTENDS Columns

ViewCalls == {"to_json", "diagnostic", "is_valid", "well_formed", "tags", "untag", "canonical"}

\* The only item of every row's blob; NULL for NULL and for a blob that is none.
OnlyItems(rows) == Each(rows, ParseStrict)

\* What each function goes on with: the decoded rows, or the blobs themselves.
Items(fn, rows) == IF fn \in {"is_valid", "well_formed"} THEN rows ELSE OnlyItems(rows)

\* build_to_json, and process of decode
BuildToJson(values) == OptArray(Every(values, ToJson))

BuildDiagnostic(values) == OptArray(Every(values, Render))

BuildIsValid(rows) == OptArray(Every(rows, LAMBDA b : IsSome(ParseStrict(b))))

BuildWellFormed(rows) ==
  LET report == Every(rows, LAMBDA b : IF IsSome(ParseStrict(b)) THEN WellFormed(b.of) ELSE "ill-formed")
  IN  StructOf(report, [ok |-> OptArray(Every(report, LAMBDA r : r = "ok")),
                        kind |-> OptArray(Each(report, LAMBDA r : IF r = "ok" THEN None ELSE Some(r)))])

TagStruct(hits) ==
  LET part(f) == OptArray([i \in DOMAIN hits |-> Some(hits[i][f])])
  IN  [valid |-> None, fields |-> [f \in {"tag", "path", "value"} |-> part(f)]]
BuildTags(values) ==
  LET hits == Every(values, LAMBDA v : Tags(v, <<>>)) IN ListOf(hits, TagStruct(FlattenSeq(Lists(hits))))

UntagColumn(values, want) == OptArray(Every(values, LAMBDA v : Untag(v, want)))

CanonicalColumn(values, mode) == OptArray(Every(values, LAMBDA v : Canonical(v, mode)))

\* The column a view makes of what it decoded.
Viewed(fn, decoded) ==
  CASE fn = "to_json"      -> BuildToJson(decoded)
    [] fn = "diagnostic"   -> BuildDiagnostic(decoded)
    [] fn = "is_valid"     -> BuildIsValid(decoded)
    [] fn = "well_formed"  -> BuildWellFormed(decoded)
    [] fn = "tags"         -> BuildTags(decoded)
    [] fn = "untag"        -> UntagColumn(decoded, 1)
    [] fn = "canonical"    -> CanonicalColumn(decoded, "core")

\* A seeded slip: a NULL cell is encoded, as an item of its own.
StaysNullNever(v) == FALSE

\* encode: a NULL cell stays NULL.
StaysNull(v) == Is(v, "null")

\* encode: the cells of a column of any type.  A mode of None is "shortest".
EncodeColumn(type, column, rows, mode) ==
  LET value(i) == ValueAt(type, column, i)
      written(v) == IF IsSome(mode) THEN Canonicalize(v, Get(mode)) ELSE v
  IN  OptArray([i \in 1 .. rows |-> IF StaysNull(value(i)) THEN None ELSE Some(Encode(written(value(i))))])

\* from_json of VARCHARs, each the text of a JSON value or of none (None).
FromJsonColumn(rows) ==
  OptArray(Each(rows, LAMBDA text : IF IsSome(text) THEN Some(Encode(FromJson(Get(text)))) ELSE None))
=============================================================================
