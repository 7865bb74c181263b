------------------------------ MODULE ArrowIo ------------------------------
(***************************************************************************)
(* The Arrow columns the worker answers with, and the builders that make   *)
(* them of a decoded value for every row (cbor-worker/src/arrow_io.rs).    *)
(*                                                                         *)
(* A column of scalars has its cells, a STRUCT column a validity and its   *)
(* fields by name, a LIST column a validity, offsets and its elements; a   *)
(* row that is NULL has its place in each of them.                         *)
(***************************************************************************)
EXTENDS Cose

CONSTANT Micros   \* 1,000,000: microseconds in a second

ASSUME ArrowIoAssumption == Micros \in Nat \ {0}

-----------------------------------------------------------------------------
(* Columns, and how DuckDB reads a row of one.                             *)

IsValid(a, i) == IsSome(a.valid) => Get(a.valid)[i]

\* Where rows of these lengths start, and where the last one ends.
Offsets(lens) ==
  LET start[i \in 1 .. Len(lens) + 1] == IF i = 1 THEN 0 ELSE start[i - 1] + lens[i - 1] IN start

\* One level of columns, the levels below it read by another operator: no answer
\* nests deeper than a list or struct in the headers of a message.
ReadVia(Below(_, _), a, i) ==
  IF "cells" \in DOMAIN a THEN a.cells[i]
  ELSE IF ~IsValid(a, i) THEN None
  ELSE IF "fields" \in DOMAIN a THEN Some([f \in DOMAIN a.fields |-> Below(a.fields[f], i)])
  ELSE Some([k \in 1 .. a.offsets[i + 1] - a.offsets[i] |-> Below(a.child, a.offsets[i] + k)])
ReadCell(a, i) == a.cells[i]
ReadFlat(a, i) == ReadVia(ReadCell, a, i)
ReadNested(a, i) == ReadVia(ReadFlat, a, i)
ReadRow(a, i) == ReadVia(ReadNested, a, i)

-----------------------------------------------------------------------------
(* Rows decoded: F of every row's value, where there is one.               *)

Each(col, F(_)) == [i \in DOMAIN col |-> IF IsSome(col[i]) THEN F(Get(col[i])) ELSE None]
Every(col, F(_)) == [i \in DOMAIN col |-> IF IsSome(col[i]) THEN Some(F(Get(col[i]))) ELSE None]

\* A field of every row's decoded value: one that is optional itself, and one
\* that every value has.
AndThen(col, f) == Each(col, LAMBDA x : x[f])
Mapped(col, f) == Every(col, LAMBDA x : x[f])

\* blob_bytes of every row: a cell that is neither NULL nor bytes is an error.
BlobBytes(type, cells) ==
  IF type \in {"BLOB", "VARCHAR"} \/ \A i \in DOMAIN cells : ~IsSome(cells[i]) THEN Some(cells) ELSE None

-----------------------------------------------------------------------------
(* Builders.                                                               *)

\* string_array, binary_array, bool_opt_array, u64_opt_array, u32_opt_array
OptArray(col) == [cells |-> col]

\* saturating_mul
Instant(secs) ==
  LET us == secs * Micros
  IN  IF us >= I64 THEN I64 - 1 ELSE IF us < -I64 THEN -I64 ELSE us
TsArray(col) == OptArray(Every(col, Instant))

Validity(col) == Some([i \in DOMAIN col |-> IsSome(col[i])])
StructOf(col, fields) == [valid |-> Validity(col), fields |-> fields]

Lists(col) == [i \in DOMAIN col |-> IF IsSome(col[i]) THEN Get(col[i]) ELSE <<>>]
ListOf(col, child) ==
  [valid |-> Validity(col), child |-> child,
   offsets |-> Offsets([i \in DOMAIN col |-> Len(Lists(col)[i])])]

ListBinaryArray(col) ==
  LET flat == FlattenSeq(Lists(col)) IN ListOf(col, OptArray([i \in DOMAIN flat |-> Some(flat[i])]))

X5tArray(col) ==
  StructOf(col, [hash_alg |-> OptArray(Mapped(col, 1)), thumbprint |-> OptArray(Mapped(col, 2))])

HeaderArray(hs) ==
  LET col(f) == [i \in DOMAIN hs |-> hs[i][f]]
  IN  [valid |-> None,
       fields |-> [f \in DOMAIN NoHeaders |->
                     CASE f = "x5chain" -> ListBinaryArray(col(f))
                       [] f = "x5t"     -> X5tArray(col(f))
                       [] OTHER         -> OptArray(col(f))]]

Defaults(col) == [i \in DOMAIN col |-> IF IsSome(col[i]) THEN Get(col[i]) ELSE NoHeaders]

\* A seeded slip: a row without headers has headers without values.
HeaderArrayDefaulted(col) == HeaderArray(Defaults(col))

HeaderArrayOpt(col) == [HeaderArray(Defaults(col)) EXCEPT !.valid = Validity(col)]

CoseKeyArray(col) == StructOf(col, [f \in KeyField |-> OptArray(AndThen(col, f))])
=============================================================================
