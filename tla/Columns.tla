------------------------------ MODULE Columns ------------------------------
(***************************************************************************)
(* Rows into Arrow columns and back: build_column for everything that is   *)
(* not a number (cbor-worker/src/value_out.rs), value_at (value_in.rs),    *)
(* the projection of rows onto a schema (copy/from.rs) and of batches onto *)
(* rows (copy/to.rs).                                                      *)
(*                                                                         *)
(* An array keeps its elements side by side: a list array is the           *)
(* concatenation of its rows' elements with an offset for every row, a     *)
(* struct array one column per field; a row that is NULL has its place in  *)
(* each of them.  Texts are sequences of characters, which are also their  *)
(* UTF-8 bytes.                                                            *)
(***************************************************************************)
EXTENDS Trees, ArrowIo

\* Tags are transparent to every target.
RECURSIVE Content(_)
Content(v) == IF Is(v, "tag") THEN Content(v.inner) ELSE v

IsNull(v) == Is(Content(v), "null")

\* The validity of rows, left out where every row is valid.
NullBuffer(vs) == IF \E i \in DOMAIN vs : IsNull(vs[i]) THEN Some([i \in DOMAIN vs |-> ~IsNull(vs[i])]) ELSE None

-----------------------------------------------------------------------------
(* Scalar cells: None when the value does not fit, Some(cell) otherwise,   *)
(* where the cell of a NULL is None.                                       *)

\* text_of: text verbatim, anything else as its JSON.
TextCell(v) == Some(Some(IF Is(v, "text") THEN v.text ELSE JsonChars(ToJson(v))))

BytesCell(v) ==
  CASE Is(v, "bytes") -> Some(Some(v.bytes))
    [] Is(v, "text")  -> Some(Some(v.text))
    [] OTHER          -> None

FixedBytesCell(v, size) ==
  IF IsSome(BytesCell(v)) /\ Len(Get(Get(BytesCell(v)))) = size THEN BytesCell(v) ELSE None

BoolCell(v) == IF Is(v, "bool") THEN Some(Some(v.bool)) ELSE None

\* An integral float is taken for the integer it is.
Whole(v) ==
  CASE Is(v, "int") -> Some(v.n)
    [] Is(v, "float") /\ v.half % 2 = 0 -> Some(v.half \div 2)
    [] OTHER -> None
BigintCell(v) ==
  IF IsSome(Whole(v)) /\ -I64 <= Get(Whole(v)) /\ Get(Whole(v)) < I64 THEN Some(Whole(v)) ELSE None

ScalarTypes == {"BOOLEAN", "BIGINT", "VARCHAR", "BLOB", "FIXED_BLOB"}
ScalarCell(t, value) ==
  LET v == Content(value)
  IN  IF IsNull(value) THEN Some(None)
      ELSE CASE t.type = "BOOLEAN"    -> BoolCell(v)
             [] t.type = "BIGINT"     -> BigintCell(v)
             [] t.type = "VARCHAR"    -> TextCell(v)
             [] t.type = "BLOB"       -> BytesCell(v)
             [] t.type = "FIXED_BLOB" -> FixedBytesCell(v, t.size)

ScalarColumn(t, vs) ==
  LET cells == [i \in DOMAIN vs |-> ScalarCell(t, vs[i])]
  IN  IF \A i \in DOMAIN vs : IsSome(cells[i]) THEN Some([cells |-> [i \in DOMAIN vs |-> Get(cells[i])]]) ELSE None

-----------------------------------------------------------------------------
(* Nested columns.                                                         *)

RECURSIVE BuildColumn(_, _), ListColumn(_, _), ArrayColumn(_, _), StructColumn(_, _), MapColumn(_, _)

\* Every row is NULL or of this kind; its elements, a NULL row counting for none.
Shaped(vs, kind) == \A i \in DOMAIN vs : IsNull(vs[i]) \/ Is(Content(vs[i]), kind)
Elements(v) == IF IsNull(v) THEN <<>> ELSE IF Is(Content(v), "map") THEN Content(v).entries ELSE Content(v).items
Flat(vs) == FlattenSeq([i \in DOMAIN vs |-> Elements(vs[i])])
LengthsOf(vs) == [i \in DOMAIN vs |-> Len(Elements(vs[i]))]

ListColumn(t, vs) ==
  LET child == BuildColumn(t.child, Flat(vs))
  IN  IF Shaped(vs, "array") /\ IsSome(child)
      THEN Some([valid |-> NullBuffer(vs), offsets |-> Offsets(LengthsOf(vs)), child |-> Get(child)])
      ELSE None

\* A NULL row of fixed-size lists keeps the place of its elements.
FixedElements(v, size) == IF IsNull(v) THEN [i \in 1 .. size |-> Null] ELSE Elements(v)

ArrayColumn(t, vs) ==
  LET child == BuildColumn(t.child, FlattenSeq([i \in DOMAIN vs |-> FixedElements(vs[i], t.size)]))
  IN  IF /\ Shaped(vs, "array")
         /\ \A i \in DOMAIN vs : IsNull(vs[i]) \/ Len(Elements(vs[i])) = t.size
         /\ IsSome(child)
      THEN Some([valid |-> NullBuffer(vs), child |-> Get(child)]) ELSE None

\* The value of the first entry of that name, NULL where there is none.
FieldValue(entries, name) ==
  LET hits == SelectSeq(entries, LAMBDA e : e[1] = Text(name))
  IN  IF hits = <<>> THEN Null ELSE hits[1][2]

\* A struct finds its fields under tagged names as well, a row does not.
Untagged(entries) == [i \in DOMAIN entries |-> <<Content(entries[i][1]), entries[i][2]>>]

\* A seeded slip: a struct row of another shape becomes a row of NULLs.
StructShapedLoose(vs) == TRUE
StructShaped(vs) == Shaped(vs, "map")

StructColumn(t, vs) ==
  LET PerRow(v, name) == IF Is(Content(v), "map") THEN FieldValue(Untagged(Content(v).entries), name) ELSE Null
      Field(f) == BuildColumn(t.fields[f].type, [i \in DOMAIN vs |-> PerRow(vs[i], t.fields[f].name)])
  IN  IF StructShaped(vs) /\ \A f \in DOMAIN t.fields : IsSome(Field(f))
      THEN Some([valid |-> NullBuffer(vs), fields |-> [f \in DOMAIN t.fields |-> Get(Field(f))]]) ELSE None

\* The keys of a MAP are not nullable: StructArray::try_new refuses a NULL.
MapColumn(t, vs) ==
  LET flat == Flat(vs)
      keys == BuildColumn(t.key, [i \in DOMAIN flat |-> flat[i][1]])
      vals == BuildColumn(t.child, [i \in DOMAIN flat |-> flat[i][2]])
  IN  IF /\ Shaped(vs, "map")
         /\ IsSome(keys) /\ IsSome(vals)
         /\ \A i \in DOMAIN flat : ~IsNull(flat[i][1])
      THEN Some([valid |-> NullBuffer(vs), offsets |-> Offsets(LengthsOf(vs)),
                 keys |-> Get(keys), vals |-> Get(vals)]) ELSE None

BuildColumn(t, vs) ==
  CASE t.type \in ScalarTypes -> ScalarColumn(t, vs)
    [] t.type = "LIST"        -> ListColumn(t, vs)
    [] t.type = "ARRAY"       -> ArrayColumn(t, vs)
    [] t.type = "STRUCT"      -> StructColumn(t, vs)
    [] t.type = "MAP"         -> MapColumn(t, vs)

-----------------------------------------------------------------------------
(* value_at.                                                               *)

RECURSIVE ValueAt(_, _, _)
ValueAt(t, a, i) ==
  LET Listed(first, n) == Array([k \in 1 .. n |-> ValueAt(t.child, a.child, first + k)])
      start == a.offsets[i]
      length == a.offsets[i + 1] - start
      cell == a.cells[i]
  IN  IF t.type \in ScalarTypes
      THEN IF ~IsSome(cell) THEN Null
           ELSE CASE t.type = "BOOLEAN" -> Bool(Get(cell))
                  [] t.type = "BIGINT"  -> Int_(Get(cell))
                  [] t.type = "VARCHAR" -> Text(Get(cell))
                  [] OTHER              -> Bytes(Get(cell))
      ELSE IF ~IsValid(a, i) THEN Null
      ELSE CASE t.type = "LIST"   -> Listed(start, length)
             [] t.type = "ARRAY"  -> Listed((i - 1) * t.size, t.size)
             [] t.type = "STRUCT" -> Map([f \in DOMAIN t.fields |->
                                            <<Text(t.fields[f].name), ValueAt(t.fields[f].type, a.fields[f], i)>>])
             [] t.type = "MAP"    -> Map([k \in 1 .. length |->
                                            <<ValueAt(t.key, a.keys, start + k), ValueAt(t.child, a.vals, start + k)>>])

-----------------------------------------------------------------------------
(* Batches and rows.                                                       *)

\* One column's value of a row: by name, or by position.
Project(schema, c, shape, row) ==
  CASE shape = "map" /\ Is(row, "map")     -> FieldValue(row.entries, schema[c].name)
    [] shape = "array" /\ Is(row, "array") -> IF c <= Len(row.items) THEN row.items[c] ELSE Null
    [] OTHER                               -> Null

\* build_batch.
BuildBatch(schema, shape, rows) ==
  LET column(c) == BuildColumn(schema[c].type, [i \in DOMAIN rows |-> Project(schema, c, shape, rows[i])])
  IN  IF \A c \in DOMAIN schema : IsSome(column(c)) THEN Some([c \in DOMAIN schema |-> Get(column(c))]) ELSE None

\* The rows a failed batch is rebuilt from.
Kept(schema, shape, rows) == SelectSeq(rows, LAMBDA r : IsSome(BuildBatch(schema, shape, <<r>>)))

\* A seeded slip: a NULL takes no place in the row.
PlacedCompact(cells) == SelectSeq(cells, LAMBDA v : v # Null)
Placed(cells) == cells

\* A row of a batch as COPY TO writes it.
WriteRow(schema, shape, canonical, batch, i) ==
  LET cells == [c \in DOMAIN schema |-> ValueAt(schema[c].type, batch[c], i)]
      row == IF shape = "array" THEN Array(Placed(cells))
             ELSE Map([c \in DOMAIN schema |-> <<Text(schema[c].name), cells[c]>>])
  IN  IF IsSome(canonical) THEN Canonicalize(row, Get(canonical)) ELSE row
=============================================================================
