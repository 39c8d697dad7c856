------------------------------ MODULE Formats ------------------------------
(***************************************************************************)
(* Formats of python/barca/_artifacts.py: which one a value is written in, *)
(* and what is read back.  A value is known by its kind and by the step it *)
(* comes from:                                                             *)
(*   none     None                                                         *)
(*   plain    what JSON gives back as it was                               *)
(*   loose    what JSON takes and gives back as something else: a tuple, a *)
(*            dictionary with keys that are no strings                     *)
(*   object   what only pickle writes                                      *)
(*   opaque   what nothing writes: a generator, a lock                     *)
(*   pandas, polars, lazy (a LazyFrame), pyarrow, duckdb (a relation)      *)
(*   framed   has to_parquet, of none of these libraries                   *)
(***************************************************************************)

None == [kind |-> "none", of |-> "none"]
Value(kind, of) == IF kind = "none" THEN None ELSE [kind |-> kind, of |-> of]

\* _frame_kind
FrameKind(v) ==
    IF v.kind \in {"pandas", "polars", "pyarrow", "duckdb"} THEN v.kind
    ELSE IF v.kind = "lazy" THEN "polars" ELSE "no"

\* _is_json_serializable
IsJson(v) == v.kind \in {"none", "plain", "loose"}

DetectFormat(v, explicit) ==
    IF explicit # "auto" THEN explicit
    ELSE IF FrameKind(v) # "no" THEN "parquet"
    ELSE IF IsJson(v) THEN "json" ELSE "pickle"

HasParquetWriter(v) == FrameKind(v) # "no" \/ v.kind = "framed"

ResolveFormat(v, fmt) == IF fmt = "parquet" /\ ~HasParquetWriter(v) THEN "pickle" ELSE fmt

\* What _serialize can write; no other format is known.
Writable(v, fmt) ==
    \/ fmt = "json" /\ IsJson(v)
    \/ fmt = "pickle" /\ v.kind \notin {"opaque", "duckdb"}
    \/ fmt = "parquet" /\ HasParquetWriter(v)

\* A file: its format, and the value as far as the format keeps it.
Written(v, fmt) ==
    [fmt |-> fmt,
     value |-> IF fmt = "json" /\ v.kind = "loose" THEN Value("plain", v.of)
               ELSE IF fmt = "parquet" THEN Value("frame", v.of) ELSE v]

\* _deserialize_local: the reader of a frame is chosen by the parameter's type.
ReadBack(file, frame) ==
    IF file.fmt = "parquet" THEN Value(frame, file.value.of) ELSE file.value

=============================================================================
