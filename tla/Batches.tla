------------------------------ MODULE Batches ------------------------------
(***************************************************************************)
(* Batches of rows, where the code works a column at a time and a user     *)
(* thinks a row at a time: a batch loaded by COPY FROM, written by COPY TO *)
(* and loaded again; a scalar function over a column of blobs; a table     *)
(* function that fans rows out.                                            *)
(***************************************************************************)
EXTENDS Adapters, Answers

CONSTANTS
  Loads,     \* COPY FROM batches: [schema, shape, rows]
  Columned,  \* typed columns: [type, values]
  Texts      \* VARCHARs: the text of a JSON value (Some) or of none (None)

VARIABLES
  written,   \* the rows COPY TO wrote of a loaded batch
  reloaded   \* an Option: the batch COPY FROM makes of them
vars == <<call, sent, answer, written, reloaded>>

Canonicals == {None, Some("core"), Some("ctap2")}

Init ==
  /\ written = None /\ reloaded = None
  /\ \/ AnswersInit
     \/ /\ answer = None
        /\ \/ /\ call = "copy_from"
              /\ \E b \in Loads, lenient \in BOOLEAN, c \in Canonicals :
                   sent = [schema |-> b.schema, shape |-> b.shape, rows |-> b.rows, lenient |-> lenient, canonical |-> c]
           \/ /\ call = "encode"
              /\ \E c \in Columned, m \in Canonicals : sent = [type |-> c.type, values |-> c.values, mode |-> m]
           \/ call = "from_json" /\ sent \in Rows(Texts)
           \/ /\ call \in ViewCalls
              /\ \E rows \in Rows(Blobs[call]), t \in {"BLOB", "BIGINT"} : sent = [type |-> t, rows |-> rows]

-----------------------------------------------------------------------------
(* COPY.                                                                   *)

\* next_batch, once it has its rows: a batch that fails is rebuilt from the rows
\* that build alone, or it is the statement's error.
LoadBatch ==
  /\ call = "copy_from" /\ answer = None
  /\ LET whole == BuildBatch(sent.schema, sent.shape, sent.rows)
         kept == IF IsSome(whole) \/ ~sent.lenient THEN sent.rows ELSE Kept(sent.schema, sent.shape, sent.rows)
         batch == BuildBatch(sent.schema, sent.shape, kept)
     IN  answer' = Some(IF IsSome(batch) THEN Some([batch |-> Get(batch), size |-> Len(kept)]) ELSE Failed)
  /\ UNCHANGED <<call, sent, written, reloaded>>

Loaded == call = "copy_from" /\ IsSome(answer) /\ Get(answer) # Failed

\* close, of one shard with this batch.
WriteBatch ==
  /\ Loaded /\ written = None
  /\ LET loaded == Get(Get(answer))
     IN  written' = Some([i \in 1 .. loaded.size |->
                            WriteRow(sent.schema, sent.shape, sent.canonical, loaded.batch, i)])
  /\ UNCHANGED <<call, sent, answer, reloaded>>

ReloadBatch ==
  /\ IsSome(written) /\ reloaded = None
  /\ reloaded' = Some(BuildBatch(sent.schema, sent.shape, Get(written)))
  /\ UNCHANGED <<call, sent, answer, written>>

-----------------------------------------------------------------------------
(* Functions.                                                              *)

CallEncode ==
  /\ call = "encode"
  /\ LET column == BuildColumn(sent.type, sent.values)
     IN  Answered(EncodeColumn(sent.type, Get(column), Len(sent.values), sent.mode))

CallFromJson == call = "from_json" /\ Answered(FromJsonColumn(sent))

\* process, of a view.
CallView ==
  /\ call \in ViewCalls
  /\ LET input == BlobBytes(sent.type, sent.rows)
     IN  IF IsSome(input)
         THEN \E items \in {Items(call, Get(input))} : Answered(Some(Viewed(call, items)))
         ELSE Answered(Failed)

Done ==
  /\ IsSome(answer)
  /\ Loaded => IsSome(reloaded)
  /\ UNCHANGED vars

Next ==
  \/ LoadBatch \/ WriteBatch \/ ReloadBatch
  \/ (AnswersNext \/ CallEncode \/ CallFromJson \/ CallView) /\ UNCHANGED <<written, reloaded>>
  \/ Done

Spec == Init /\ [][Next]_vars

-----------------------------------------------------------------------------
(* What a row means on its own.                                            *)

\* Some(value) of a cell as its column keeps it, None when it does not fit.
RECURSIVE Convert(_, _)
Convert(t, value) ==
  LET v == Content(value)
      cell == Get(Get(ScalarCell(t, value)))
      All(parts) == \A i \in DOMAIN parts : IsSome(parts[i])
      items == [i \in DOMAIN v.items |-> Convert(t.child, v.items[i])]
      fields == [f \in DOMAIN t.fields |-> Convert(t.fields[f].type, FieldValue(Untagged(v.entries), t.fields[f].name))]
      keys == [i \in DOMAIN v.entries |-> Convert(t.key, v.entries[i][1])]
      vals == [i \in DOMAIN v.entries |-> Convert(t.child, v.entries[i][2])]
  IN  CASE Is(v, "null") -> Some(Null)
        [] OTHER ->
      CASE t.type \in ScalarTypes -> IF ScalarCell(t, value) = None THEN None
                                     ELSE IF t.type = "BOOLEAN" THEN Some(Bool(cell))
                                     ELSE IF t.type = "BIGINT" THEN Some(Int_(cell))
                                     ELSE IF t.type = "VARCHAR" THEN Some(Text(cell)) ELSE Some(Bytes(cell))
        [] t.type \in {"LIST", "ARRAY"} ->
             IF /\ Is(v, "array") /\ (t.type = "ARRAY" => Len(v.items) = t.size)
                /\ All(items)
             THEN Some(Array([i \in DOMAIN items |-> Get(items[i])])) ELSE None
        [] t.type = "STRUCT" ->
             IF Is(v, "map") /\ All(fields)
             THEN Some(Map([f \in DOMAIN fields |-> <<Text(t.fields[f].name), Get(fields[f])>>])) ELSE None
        [] t.type = "MAP" ->
             IF Is(v, "map") /\ All(keys) /\ All(vals) /\ \A i \in DOMAIN keys : Get(keys[i]) # Null
             THEN Some(Map([i \in DOMAIN keys |-> <<Get(keys[i]), Get(vals[i])>>])) ELSE None

ConvertRow(row) == [c \in DOMAIN sent.schema |->
                      Convert(sent.schema[c].type, Project(sent.schema, c, sent.shape, row))]
Convertible(row) == \A c \in DOMAIN sent.schema : IsSome(ConvertRow(row)[c])
CellsOf(batch, i) == [c \in DOMAIN sent.schema |-> Some(ValueAt(sent.schema[c].type, batch[c], i))]

-----------------------------------------------------------------------------
(* Properties.                                                             *)

\* "only genuinely bad rows are dropped" (next_batch): under ignore_errors a batch
\* never fails and loads the convertible rows in their order; without it, one row
\* that does not convert is an error.  The cells of a row are those it has alone,
\* whatever NULLs, lists and structs its neighbours bring.
KeepsTheGoodRows ==
  call = "copy_from" /\ IsSome(answer) =>
    LET good == SelectSeq(sent.rows, Convertible)
    IN  IF sent.lenient \/ good = sent.rows
        THEN /\ Loaded
             /\ Get(Get(answer)).size = Len(good)
             /\ \A i \in DOMAIN good : CellsOf(Get(Get(answer)).batch, i) = ConvertRow(good[i])
        ELSE ~Loaded

\* The rows COPY TO writes of a loaded batch load again, into the same cells: a
\* canonical encoding may reorder the entries of a MAP and nothing else.
WritesLoadAgain ==
  IsSome(reloaded) =>
    LET cells(batch, i) == [c \in DOMAIN sent.schema |-> Canonicalize(ValueAt(sent.schema[c].type, batch[c], i), "core")]
        loaded == Get(Get(answer))
    IN  /\ IsSome(Get(reloaded))
        /\ \A i \in 1 .. loaded.size : cells(Get(Get(reloaded)), i) = cells(loaded.batch, i)

\* Row by row as well (AnswersRowByRow): encode, which answers the bytes of a row
\* as its column keeps it and NULL to NULL, from_json, and the views, where a blob
\* that is not one item is NULL, or ill-formed to the functions that judge it.
ViewsRowByRow ==
  /\ call = "encode" /\ IsSome(answer) =>
       \A i \in DOMAIN sent.values :
         LET v == Get(Convert(sent.type, sent.values[i]))
         IN  ReadRow(Get(answer), i) =
               (IF Is(v, "null") THEN None
                ELSE Some(IF IsSome(sent.mode) THEN Canonical(v, Get(sent.mode)) ELSE Encode(v)))
  /\ call = "from_json" /\ IsSome(answer) =>
       \A i \in DOMAIN sent : ReadRow(Get(answer), i) = ReadRow(FromJsonColumn(<<sent[i]>>), 1)
  /\ call \in ViewCalls /\ IsSome(answer) /\ Get(answer) # Failed =>
       LET column == Get(Get(answer))
       IN  \A i \in DOMAIN sent.rows : \A alone \in {Items(call, <<sent.rows[i]>>)} :
             /\ ReadRow(column, i) = ReadRow(Viewed(call, alone), 1)
             /\ ReadRow(column, i) # None <=> IsSome(alone[1])
=============================================================================
