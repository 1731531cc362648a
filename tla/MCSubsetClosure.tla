--------------------------- MODULE MCSubsetClosure ---------------------------
(***************************************************************************)
(* Two orders (collection 1), two users (2) and a currency (3).  An order  *)
(* refers to users or to orders by their tag, as its kind or its own tag   *)
(* says; a user refers to a user (a cycle) and to an order; nothing refers *)
(* to the currency, whose own reference declares no target.                *)
(***************************************************************************)
EXTENDS SubsetClosure

I32(n) == <<"int32", n>>
I64(n) == <<"int64", n>>

MCDocs   == {<<1, I32(1)>>, <<1, I32(2)>>, <<2, I32(1)>>, <<2, I32(2)>>, <<3, I32(1)>>}
MCFields == {"ref", "kind", "meta.tag"}
MCDotted == {"meta.tag"}
MCValues == {"int32", "int64"} \X {1, 2}

Body(ref, kind, tag) ==
  [f \in MCFields |-> CASE f = "ref" -> ref [] f = "kind" -> kind [] OTHER -> tag]

\* A null reference finds the documents without a tag; an order without a kind
\* is none of the cases, unless its tag makes it one, which the code does not
\* see, no more than the kind that is an Int32.
MCBodies(c) ==
  CASE c = 1 -> {Body(I64(1), I64(1), I32(1)), Body(I32(1), I64(2), Missing),
                 Body(Null, I64(1), I32(1)), Body(I32(1), Missing, I32(1)),
                 Body(I32(1), I32(2), Missing), Body(I32(1), Missing, I64(2))}
    [] c = 2 -> {Body(I32(1), I64(2), Missing), Body(I64(2), I32(1), I32(1))}
    [] OTHER -> {Body(I32(1), Missing, Missing)}

Case(field, n, to)    == [field |-> field, value |-> <<"integer", n>>, to |-> to]
Plain(from, field, c) == [from |-> from, field |-> field, toField |-> "_id", notNull |-> FALSE,
                          fixed |-> c, cases |-> <<>>]

MCDeclarations ==
  {<<>>,
   <<[from |-> 1, field |-> "ref", toField |-> "meta.tag", notNull |-> TRUE, fixed |-> 0,
      cases |-> <<Case("kind", 1, 2), Case("kind", 2, 1), Case("meta.tag", 2, 2)>>],
     Plain(2, "ref", 2), Plain(2, "kind", 1), Plain(3, "ref", 0)>>}

MCConditions == {<<>>, <<{I32(1)}>>, <<{I32(1)}, {I32(2)}>>}
=============================================================================
