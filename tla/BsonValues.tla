----------------------------- MODULE BsonValues -----------------------------
(***************************************************************************)
(* The values leafmask reads from documents and configuration, and the     *)
(* conversions of src/toolkit.rs between them.                             *)
(*                                                                         *)
(* A value is <<type, payload>>.  Numbers, dates and object ids carry an   *)
(* integer; a string carries its rank in the server's string order, 0 for  *)
(* the empty one; a document carries a function from names to values, an   *)
(* array a sequence.  NaN is a double of its own kind: it has no order and  *)
(* equals nothing.  "masked" is a value known only by what it was computed *)
(* from.                                                                   *)
(***************************************************************************)
EXTENDS Integers, Sequences

CONSTANTS
  MinInt, MaxInt,  \* the bounds of i64
  ExactInts,       \* integers up to here are exact as f64 (2^53)
  DateText,        \* strings that parse as RFC 3339, and their instants
  IntText,         \* strings that parse as integers, and their values
  IdText           \* strings that parse as object ids, and their bytes

ASSUME WidthAssumption ==
  /\ MinInt \in Int /\ MaxInt \in Int /\ ExactInts \in Nat
  /\ MinInt < 0 /\ ExactInts < MaxInt

ASSUME TextAssumption ==
  /\ \A s \in DOMAIN IntText : IntText[s] \in MinInt..MaxInt
  /\ \A s \in DOMAIN DateText : DateText[s] \in MinInt..MaxInt

Absent == <<"absent", 0>>
Null   == <<"null", 0>>
Error  == <<"error", 0>>
True   == <<"bool", 1>>
False  == <<"bool", 0>>
NaN    == <<"nan", 0>>

Document(fields) == <<"document", fields>>
Names(v) == IF v[1] = "document" THEN DOMAIN v[2] ELSE {}

\* What is seen of a value without descending into it.
Value(v) ==
  /\ v = <<v[1], v[2]>>
  /\ \/ v \in {Absent, Null, True, False, NaN}
     \/ v[1] \in {"int32", "int64", "double", "decimal128", "datetime"} /\ v[2] \in Int
     \/ v[1] = "string" /\ v[2] \in Nat
     \/ v[1] \in {"array", "document", "objectId", "binary"}

\* Only documents are descended into: a path through an array is absent.
Child(v, name) == IF name \in Names(v) THEN v[2][name] ELSE Absent

\* A document with the field laid over it; anything else is replaced by one.
With(v, name, value) ==
  Document([x \in Names(v) \cup {name} |-> IF x = name THEN value ELSE v[2][x]])

\* What a path meets: the document first, the value at its end last.
Along(doc, path) ==
  LET at[n \in 0..Len(path)] == IF n = 0 THEN doc ELSE Child(at[n - 1], path[n])
  IN at

GetPath(doc, path) == Along(doc, path)[Len(path)]

\* Seeded fault: the documents on the way are made anew.
SetPathBare(doc, path, value) ==
  LET at[k \in 0..Len(path)] ==
        IF k = 0 THEN value
        ELSE With(IF k = Len(path) THEN doc ELSE Absent, path[Len(path) - k + 1], at[k - 1])
  IN at[Len(path)]

\* at[k] is what stands k names before the end of the path.
SetPath(doc, path, value) ==
  LET at[k \in 0..Len(path)] ==
        IF k = 0 THEN value
        ELSE With(Along(doc, path)[Len(path) - k], path[Len(path) - k + 1], at[k - 1])
  IN at[Len(path)]

-----------------------------------------------------------------------------
(* Numbers and dates *)

Clamp(n) == IF n < MinInt THEN MinInt ELSE IF n > MaxInt THEN MaxInt ELSE n

\* i64 as f64: beyond the mantissa, neighbours fall together.
AsFloat(n) ==
  IF n > ExactInts THEN n - (n % 2) ELSE IF n < -ExactInts THEN n + (n % 2) ELSE n

Numeric == {"int32", "int64", "double"}

\* A saturating conversion takes NaN to 0.
ToI64(v) ==
  CASE v = NaN -> <<"int64", 0>>
    [] v[1] \in Numeric -> <<"int64", Clamp(v[2])>>
    [] v[1] = "string" /\ v[2] \in DOMAIN IntText -> <<"int64", IntText[v[2]]>>
    [] OTHER -> Error

ToF64(v) ==
  CASE v = NaN -> NaN
    [] v[1] \in Numeric -> <<"double", AsFloat(v[2])>>
    [] v[1] = "string" /\ v[2] \in DOMAIN IntText -> <<"double", AsFloat(IntText[v[2]])>>
    [] OTHER -> Error

\* The input of every hash.  The width of an integer is part of it; null and the
\* empty string have none, and a date hashes like the integer of its millis.
HashableBytes(v) ==
  CASE v[1] \in {"string", "binary"} -> <<"utf8", v[2]>>
    [] v[1] = "null" -> <<"utf8", 0>>
    [] v[1] \in {"int64", "datetime"} -> <<"be8", v[2]>>
    [] OTHER -> v

-----------------------------------------------------------------------------
(* Casting to a declared type *)

ParamTypes ==
  {"string", "int", "float", "bool", "bytes", "objectId", "decimal128", "datetime", "binary", "any"}

FromDateText(v) ==
  IF v[2] \in DOMAIN DateText THEN <<"datetime", DateText[v[2]]>> ELSE Error

\* The types that are written as text.  Any text is binary.
TextKinds == {"datetime", "objectId", "decimal128", "binary", "bytes"}

FromText(v, kind) ==
  CASE kind = "datetime" -> FromDateText(v)
    [] kind = "objectId" /\ v[2] \in DOMAIN IdText -> <<"objectId", IdText[v[2]]>>
    [] kind = "decimal128" /\ v[2] \in DOMAIN IntText -> <<"decimal128", IntText[v[2]]>>
    [] kind \in {"binary", "bytes"} -> <<"binary", v[2]>>
    [] OTHER -> Error

\* Text keeps the digits of an integer and forgets its width.
Rendered(v) ==
  LET same == {s \in DOMAIN IntText : v[1] \in {"int32", "int64"} /\ IntText[s] = v[2]}
  IN IF same # {} THEN <<"string", CHOOSE s \in same : TRUE>>
     ELSE <<"rendered", <<IF v[1] = "int32" THEN "int64" ELSE v[1], v[2]>>>>

\* bson_to_typed: a value read from a document.
BsonToTyped(v, kind) ==
  CASE kind = "any" \/ v[1] = kind -> v
    [] kind = "bytes" /\ v[1] = "binary" -> v
    [] kind = "string" /\ v[1] \in Numeric \cup {"nan", "bool"} -> Rendered(v)
    [] kind = "int" -> ToI64(v)
    [] kind = "float" -> ToF64(v)
    [] kind \in TextKinds /\ v[1] = "string" -> FromText(v, kind)
    [] OTHER -> Error

\* yaml_to_typed: a value read from the configuration.  A fractional number is
\* not an integer here, though it is one when read from a document; an integer
\* may stand for a decimal.
YamlToTyped(v, kind) ==
  CASE kind = "any" \/ v[1] = kind -> v
    [] kind = "string" /\ v[1] \in Numeric \cup {"nan", "bool"} -> Rendered(v)
    [] kind = "int" /\ v[1] \notin {"double", "nan"} -> ToI64(v)
    [] kind = "float" -> ToF64(v)
    [] kind = "decimal128" /\ v[1] = "int64" -> <<"decimal128", v[2]>>
    [] kind \in TextKinds /\ v[1] = "string" -> FromText(v, kind)
    [] OTHER -> Error
=============================================================================
