----------------------------- MODULE Conditions -----------------------------
(***************************************************************************)
(* The condition language of src/transform/condition.rs, read twice: a     *)
(* `when` is evaluated in memory against the document about to be masked,  *)
(* and a `subset_conds` entry becomes a filter that the server evaluates.  *)
(*                                                                         *)
(* An expression is a disjunction (a sequence) of conjunctions (sequences) *)
(* of terms [path, op, rhs], as split_top cuts it at " or " and " and "    *)
(* outside quotes.  `rhs` is the sequence of literals on the right: one    *)
(* for a comparison, the list of an `in`, <<>> when no list was written.   *)
(* A term in which no operator is found is a bare field, whatever stands   *)
(* in it.                                                                  *)
(***************************************************************************)
EXTENDS BsonValues

Ranges      == {">", "<", ">=", "<="}
Comparisons == {"==", "!="} \cup Ranges
Memberships == {"in", "not in"}

EmptyText == <<"string", 0>>

\* parse refuses a blank expression and nothing else.
Blank == <<>>
ParseFails(expr) == expr = Blank

\* The number, or the instant, a value stands for: a set of one, or none.
FloatOf(v) == IF v[1] \in Numeric THEN {AsFloat(v[2])} ELSE {}

MillisOf(v) ==
  CASE v[1] = "datetime" -> {v[2]}
    [] v[1] = "string" /\ v[2] \in DOMAIN DateText -> {DateText[v[2]]}
    [] OTHER -> {}

Ordered(op, a, b) ==
  CASE op = ">" -> a > b [] op = "<" -> a < b [] op = ">=" -> a >= b [] op = "<=" -> a <= b

-----------------------------------------------------------------------------
(* In memory *)

BsonEq(a, b) ==
  CASE FloatOf(a) # {} /\ FloatOf(b) # {} -> FloatOf(a) = FloatOf(b)
    [] MillisOf(a) # {} /\ MillisOf(b) # {} -> MillisOf(a) = MillisOf(b)
    [] OTHER -> a = b /\ a # NaN

Among(v, literals) == \E i \in DOMAIN literals : BsonEq(v, literals[i])

EvalCompare(field, op, rhs) ==
  LET left == IF field = Absent THEN Null ELSE field
  IN CASE op \in {"==", "in"} -> Among(left, rhs)
       [] op \in {"!=", "not in"} -> ~Among(left, rhs)
       [] OTHER -> \/ \E a \in FloatOf(left), b \in FloatOf(rhs[1]) : Ordered(op, a, b)
                   \/ \E a \in MillisOf(left), b \in MillisOf(rhs[1]) : Ordered(op, a, b)

Truthy(v) ==
  /\ v \notin {Absent, Null, False, EmptyText}
  /\ ~(v[1] \in Numeric /\ v[2] = 0)

EvalTerm(t, doc) ==
  IF t.op \in Comparisons \cup Memberships
  THEN EvalCompare(GetPath(doc, t.path), t.op, t.rhs)
  ELSE Truthy(GetPath(doc, t.path))

Eval(expr, doc) ==
  \E i \in DOMAIN expr : \A j \in DOMAIN expr[i] : EvalTerm(expr[i][j], doc)

-----------------------------------------------------------------------------
(* As a filter: the same shape, with one query on a path per term *)

\* Seeded fault: a quoted date stays text.
FilterLiteralRaw(v) == v

\* A quoted literal that reads as a date becomes one.
FilterLiteral(v) ==
  IF v[1] = "string" /\ MillisOf(v) # {} THEN FromDateText(v) ELSE v

MongoOp(op) ==
  CASE op = "==" -> "$eq" [] op = "!=" -> "$ne" [] op = ">" -> "$gt" [] op = "<" -> "$lt"
    [] op = ">=" -> "$gte" [] op = "<=" -> "$lte" [] op = "in" -> "$in" [] op = "not in" -> "$nin"

FilterCompare(op, rhs) == [op |-> MongoOp(op), args |-> [i \in DOMAIN rhs |-> FilterLiteral(rhs[i])]]

FilterTerm(t) ==
  [path |-> t.path,
   queries |-> IF t.op \in Comparisons \cup Memberships THEN {FilterCompare(t.op, t.rhs)}
               ELSE {[op |-> "$exists", args |-> <<>>],
                     [op |-> "$nin", args |-> <<Null, False, <<"int32", 0>>, EmptyText>>]}]

ToFilter(expr) ==
  [i \in DOMAIN expr |-> [j \in DOMAIN expr[i] |-> FilterTerm(expr[i][j])]]

-----------------------------------------------------------------------------
(* How the server reads a filter *)

\* Values compare within their bracket only; every numeric type is one bracket,
\* compared exactly, NaN equals itself and is neither less nor more than
\* anything, and a missing field counts as null.
Bracket(v) ==
  CASE v[1] \in Numeric \cup {"decimal128"} -> "number" [] v[1] = "absent" -> "null" [] OTHER -> v[1]

ServerEq(a, b) == Bracket(a) = Bracket(b) /\ a[2] = b[2]

\* One of $eq, $in and their negations asks for equality, the others for order.
ServerMeets(op, c, a) ==
  CASE op \in {"$eq", "$ne", "$in", "$nin"} -> ServerEq(c, a)
    [] op = "$gt" -> Bracket(c) = Bracket(a) /\ c[2] > a[2]
    [] op = "$lt" -> Bracket(c) = Bracket(a) /\ c[2] < a[2]
    [] op = "$gte" -> Bracket(c) = Bracket(a) /\ c[2] >= a[2]
    [] op = "$lte" -> Bracket(c) = Bracket(a) /\ c[2] <= a[2]

\* A query on an array is met by the array or by any of its elements.
Candidates(v) == {v} \cup IF v[1] = "array" THEN {v[2][i] : i \in DOMAIN v[2]} ELSE {}

\* A path goes through an array by way of each document in it.  (It may also
\* name an element by its index; no path here is a number.)
Children(v, name) ==
  IF v[1] = "array"
  THEN {Child(v[2][i], name) : i \in {j \in DOMAIN v[2] : v[2][j][1] = "document"}}
  ELSE {Child(v, name)}

\* What a path meets on the server: a set of values after each of its names.
ReachedAlong(doc, path) ==
  LET at[n \in 0..Len(path)] ==
        IF n = 0 THEN {doc} ELSE UNION {Children(v, path[n]) : v \in at[n - 1]}
  IN at

Reached(doc, path) == ReachedAlong(doc, path)[Len(path)]

ServerMatches(values, q) ==
  LET some == \E v \in values : \E c \in Candidates(v), i \in DOMAIN q.args : ServerMeets(q.op, c, q.args[i])
  IN CASE q.op = "$exists" -> \E v \in values : v # Absent
       [] q.op \in {"$ne", "$nin"} -> ~some
       [] OTHER -> some

ServerSelects(filter, doc) ==
  \E i \in DOMAIN filter : \A j \in DOMAIN filter[i] :
     \A q \in filter[i][j].queries : ServerMatches(Reached(doc, filter[i][j].path), q)

-----------------------------------------------------------------------------
(* Where the two readings part *)

\* The literals of a term and the field they meet: arrays, decimals, integers
\* beyond the exact floats, NaN on both sides, text that reads as a date or is
\* compared by order, and truth values or null compared by order.
Huge(v) == v[1] \in Numeric /\ AsFloat(v[2]) # v[2]

Parts(t, field) ==
  \/ field[1] \in {"array", "decimal128"} \/ Huge(field)
  \/ \E i \in DOMAIN t.rhs :
       LET v == t.rhs[i]
       IN \/ Huge(v)
          \/ field[1] = "nan" /\ v[1] = "nan"
          \/ field[1] = "string" /\ v[1] = "string" /\ (MillisOf(v) # {} \/ t.op \in Ranges)
          \/ t.op \in Ranges /\ v[1] \in {"bool", "null"}

\* In memory a path ends at an array; on the server it goes on.
CrossesArray(doc, path) == \E n \in 0..(Len(path) - 1) : Along(doc, path)[n][1] = "array"

ReadingsPart(expr, doc) ==
  \E i \in DOMAIN expr : \E j \in DOMAIN expr[i] :
     LET t == expr[i][j]
     IN CrossesArray(doc, t.path) \/ Parts(t, GetPath(doc, t.path))
=============================================================================
