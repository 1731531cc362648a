---------------------------- MODULE Configuration ----------------------------
(***************************************************************************)
(* The configuration file, from its text to what commands read of it       *)
(* (src/config.rs, src/storage/selection.rs, the readers of src/cli.rs).   *)
(*                                                                         *)
(* A file is a function from paths of one or two keys to values.  A value  *)
(* is <<"text", t>>, <<"list", items>>, <<"env", variable>> for what is    *)
(* still to interpolate, Null where nothing is written, or Wrong: of a     *)
(* type that nobody who reads the path takes.  `dump` and `restore` stay   *)
(* raw and are decoded piece by piece, each reader taking its own keys.    *)
(* Where a key is no text (a number, a date, null), the path has NotText.  *)
(***************************************************************************)
EXTENDS Sequences

Null  == <<"null", "">>
Wrong == <<"wrong", "">>

NotText == "(not a text)"

DumpKeys ==
  {"transformation", "subset_conds", "include_databases", "exclude_databases",
   "include_collections", "exclude_collections"}

RestoreKeys ==
  {"insert_error_exclusions", "scripts", "clean", "include_collections", "exclude_collections",
   "include_indexes", "exclude_indexes"}

\* Decoded when the file is loaded; the backend takes whatever else `storage` has.
TypedPaths ==
  {<<"common", "tmp_dir">>, <<"common", "salt">>, <<"mongodb", "uri">>, <<"storage", "type">>,
   <<"resolved_warnings">>}

RawPaths == {<<"dump">>, <<"restore">>, <<"custom_transformers">>, <<"virtual_references">>}

\* Before anything is parsed: the environment has, for a variable, what YAML reads
\* where its text stands, and an undefined one leaves nothing in its place.
InterpolateEnv(file, env) ==
  [p \in DOMAIN file |->
     IF file[p][1] # "env" THEN file[p]
     ELSE IF file[p][2] \in DOMAIN env THEN env[file[p][2]] ELSE Null]

Decoded(p) == p[1] \notin {"dump", "restore", "storage"} \/ p = <<"storage", "type">>

\* deny_unknown_fields, for the sections that are decoded at once.
DecodeFails(file) ==
  \E p \in DOMAIN file :
    Decoded(p) /\ (p \notin TypedPaths \cup RawPaths \/ (p \in TypedPaths /\ file[p] = Wrong))

\* Seeded fault: `dump` is left to those who read it.
UnknownKeysSomewhere(file) ==
  \E p \in DOMAIN file : Len(p) = 2 /\ p[1] = "restore" /\ p[2] \notin RestoreKeys \cup {NotText}

\* check_section_keys, for the raw sections: it passes over a key that is no text.
UnknownKeys(file) ==
  \E p \in DOMAIN file :
    /\ Len(p) = 2 /\ p[2] # NotText
    /\ \/ p[1] = "dump" /\ p[2] \notin DumpKeys
       \/ p[1] = "restore" /\ p[2] \notin RestoreKeys

ParseFails(file) == DecodeFails(file) \/ UnknownKeys(file)

At(file, path) == IF path \in DOMAIN file THEN file[path] ELSE Null

-----------------------------------------------------------------------------
(* The storage backend *)

\* What a backend cannot do without, as a text.
NeededBy == [directory |-> "path", s3 |-> "bucket", azure |-> "container", ssh |-> "host"]

\* open_from_config
OpenFails(file) ==
  LET kind == At(file, <<"storage", "type">>)
  IN \/ kind[2] \notin DOMAIN NeededBy
     \/ At(file, <<"storage", NeededBy[kind[2]]>>)[1] # "text"

-----------------------------------------------------------------------------
(* The readers *)

TransformationKeys == {"transformation"}
SubsetKeys         == {"subset_conds"}
DumpFilterKeys     == {"include_databases", "exclude_databases", "include_collections", "exclude_collections"}
RestoreSectionKeys == {"insert_error_exclusions", "scripts", "clean"}
RestoreFilterKeys  == {"include_collections", "exclude_collections", "include_indexes", "exclude_indexes"}

\* A section that is no mapping or has a key that is no text, or a wrong value
\* under one of the reader's keys.
ReaderFails(file, section, keys) ==
  \/ At(file, <<section>>) = Wrong \/ <<section, NotText>> \in DOMAIN file
  \/ \E k \in keys : At(file, <<section, k>>) = Wrong

TransformationFails(file) == ReaderFails(file, "dump", TransformationKeys)
SubsetCondsFails(file)    == ReaderFails(file, "dump", SubsetKeys)
DumpFiltersFail(file)     == ReaderFails(file, "dump", DumpFilterKeys)
RestoreSectionFails(file) == ReaderFails(file, "restore", RestoreSectionKeys)
RestoreFiltersFail(file)  == ReaderFails(file, "restore", RestoreFilterKeys)
ReferencesFail(file)      == At(file, <<"virtual_references">>) = Wrong

\* What is listed at a path: nothing, if nothing is written there.
ListAt(file, path) == IF At(file, path)[1] = "list" THEN At(file, path)[2] ELSE {}

\* Whatever some reader takes; the backend takes what `storage` has.
ReadPaths ==
  TypedPaths \cup RawPaths
    \cup {<<"dump", k>> : k \in TransformationKeys \cup SubsetKeys \cup DumpFilterKeys}
    \cup {<<"restore", k>> : k \in RestoreSectionKeys \cup RestoreFilterKeys}

IsRead(p) == p \in ReadPaths \/ p[1] = "storage"

\* register_custom: one of two drivers, with what that driver needs.
CustomFails(def) == def.driver \notin {"command", "template"} \/ ~def.complete

RegistryFails(file) ==
  \/ At(file, <<"custom_transformers">>) = Wrong
  \/ \E def \in ListAt(file, <<"custom_transformers">>) : CustomFails(def)
=============================================================================
