--------------------------- MODULE MCCustomCommand ---------------------------
EXTENDS CustomCommand, TLC

\* "a" fits one pipe; "n", a number, fits the two of them; "f" just fits the two
\* and what a streaming process holds; "b" does not.
MCSize == "a" :> 1 @@ "n" :> 3 @@ "f" :> 5 @@ "b" :> 6

MCLoads ==
  {"w1" :> <<x, "n">> @@ "w2" :> <<"n", y>> : x \in {"a", "b"}, y \in {"a", "f"}}
=============================================================================
