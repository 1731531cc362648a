------------------------------- MODULE Schema -------------------------------
(***************************************************************************)
(* The structure of a collection: what the server holds, what leafmask     *)
(* reads of it (src/mongo.rs), what a restore makes of what was read, and  *)
(* the drift between the two (src/validate/schema_diff.rs).                *)
(*                                                                         *)
(* The server's collection is [indexes, validator, options, docs]; options *)
(* map names to values and a view has the option "viewOn".  Its index is   *)
(* [name, keys, unique, more]: `keys` pairs a field with 1, -1, or Other   *)
(* for a direction that is not an integer (hashed, text, 2dsphere, a       *)
(* number stored as a double); `more` stands for whatever else the index   *)
(* was given (sparse, an expiry, a partial filter, a collation).           *)
(***************************************************************************)
EXTENDS Integers, Sequences, FiniteSets

Other == 0

IdIndex == [name |-> "_id_", keys |-> <<<<"_id", 1>>>>, unique |-> FALSE, more |-> FALSE]

IsView(c) == "viewOn" \in DOMAIN c.options

\* What the server keeps to: an index has a name of its own, and only a view does
\* without the automatic one.
IsCollection(c) ==
  /\ c = [indexes |-> c.indexes, validator |-> c.validator, options |-> c.options, docs |-> c.docs]
  /\ c.options = [k \in DOMAIN c.options |-> c.options[k]]
  /\ \A x, y \in c.indexes : x.name = y.name => x = y
  /\ IsView(c) \/ IdIndex \in c.indexes

\* A collection that does not exist reads like an empty one.
Nothing == [indexes |-> {}, validator |-> {}, options |-> <<>>, docs |-> 0]

-----------------------------------------------------------------------------
(* Reading *)

\* IndexSpec: what is no integer becomes 1, and `more` is lost.
Capture(ix) ==
  [name |-> ix.name, unique |-> ix.unique,
   keys |-> [i \in DOMAIN ix.keys |->
               <<ix.keys[i][1], IF ix.keys[i][2] = Other THEN 1 ELSE ix.keys[i][2]>>]]

\* read_structure.  An error of listIndexes reads as no indexes: a view has none
\* to list, and any other error (`lost`) passes for that.
ReadStructure(c, lost) ==
  [indexes |-> IF lost \/ IsView(c) THEN {} ELSE {Capture(ix) : ix \in c.indexes},
   validator |-> c.validator,
   options |-> c.options]

-----------------------------------------------------------------------------
(* Writing *)

\* ensure_collection of a collection that is not there.
Created(s) ==
  [indexes |-> IF IsView(s) THEN {} ELSE {IdIndex}, validator |-> s.validator,
   options |-> s.options, docs |-> 0]

Built(ix) == [name |-> ix.name, keys |-> ix.keys, unique |-> ix.unique, more |-> FALSE]

\* The server has an index of that name, or on those keys, already, and refuses
\* another definition; it has nothing to do for the same one.
Conflicts(c, ix) ==
  \E x \in c.indexes :
    /\ x # Built(ix)
    /\ x.name = ix.name \/ (x.keys = ix.keys /\ x.unique = ix.unique)

WithIndex(c, ix) == [c EXCEPT !.indexes = @ \cup {Built(ix)}]

-----------------------------------------------------------------------------
(* Drift *)

Named(s, name) == {ix \in s.indexes : ix.name = name}

OptionOf(s, k) == IF k \in DOMAIN s.options THEN {s.options[k]} ELSE {}

\* Seeded fault: an index of the same name is the same index.
DiffByName(recorded, live) ==
  {<<"index removed", r.name>> : r \in {x \in recorded.indexes : Named(live, x.name) = {}}}
  \cup {<<"index added", l.name>> : l \in {x \in live.indexes : Named(recorded, x.name) = {}}}
  \cup {<<"validator changed", "">> : b \in {x \in {TRUE} : recorded.validator # live.validator}}
  \cup {<<"option changed", k>> :
          k \in {x \in DOMAIN recorded.options \cup DOMAIN live.options :
                   OptionOf(recorded, x) # OptionOf(live, x)}}

\* diff_collection, between what was recorded and what is live.
DiffCollection(recorded, live) ==
  {<<"index removed", r.name>> : r \in {x \in recorded.indexes : Named(live, x.name) = {}}}
  \cup {<<"index changed", r.name>> :
          r \in {x \in recorded.indexes : Named(live, x.name) \notin {{}, {x}}}}
  \cup {<<"index added", l.name>> : l \in {x \in live.indexes : Named(recorded, x.name) = {}}}
  \cup {<<"validator changed", "">> : b \in {x \in {TRUE} : recorded.validator # live.validator}}
  \cup {<<"option changed", k>> :
          k \in {x \in DOMAIN recorded.options \cup DOMAIN live.options :
                   OptionOf(recorded, x) # OptionOf(live, x)}}
=============================================================================
