---------------------------- MODULE MCCommandLine ----------------------------
EXTENDS CommandLine, TLC

Orders == <<"app", "orders">>
Recent == <<"app", "recent">>
Notes  == <<BenchDb, "notes">>
System == <<BenchDb, "system">>

Index(name, dir, unique, more) ==
  [name |-> name, keys |-> <<<<name, dir>>>>, unique |-> unique, more |-> more]

Collection(indexes, validator, options, docs) ==
  [indexes |-> {IdIndex} \cup indexes, validator |-> validator, options |-> options, docs |-> docs]

View(docs) == [indexes |-> {}, validator |-> {}, options |-> [viewOn |-> "orders"], docs |-> docs]

Plain   == Collection({}, {}, <<>>, 1)
Rich    == Collection({Index("day", -1, FALSE, FALSE), Index("mail", 1, TRUE, TRUE)}, {"v"}, [capped |-> "yes"], 1)
Hashed  == Collection({Index("user", Other, FALSE, FALSE)}, {}, <<>>, 0)
\* A hashed index beside a plain one, on one field.
Doubled == Collection({Index("user", Other, FALSE, FALSE),
                       [Index("user", 1, FALSE, FALSE) EXCEPT !.name = "byUser"]}, {}, <<>>, 0)

MCServers ==
  {Orders :> c : c \in {Rich, Hashed, Doubled}}
  \cup {Orders :> Plain @@ Recent :> View(docs) : docs \in {0, 1}}
  \cup {Notes :> Plain, System :> Plain, Notes :> Plain @@ System :> Plain}

MCUserWrites ==
  {[at |-> Notes, to |-> {Plain}], [at |-> Orders, to |-> {}],
   \* `day` turned round.
   [at |-> Orders, to |-> {[Rich EXCEPT !.indexes = {IdIndex, Index("day", 1, FALSE, FALSE), Index("mail", 1, TRUE, TRUE)}]}]}

Base ==
  <<"common", "salt">> :> <<"env", "SALT">> @@ <<"mongodb", "uri">> :> <<"env", "URI">>
  @@ <<"storage", "type">> :> <<"text", "directory">> @@ <<"storage", "path">> :> <<"text", "/dumps">>

With(section) == [file |-> section @@ Base, env |-> [URI |-> <<"text", "mongodb://">>]]

MCConfigs ==
  {With(<<>>),
   With(<<"dump", "include_databases">> :> <<"list", {"app"}>>
        @@ <<"restore", "clean">> :> <<"text", "true">>
        @@ <<"restore", "exclude_indexes">> :> <<"list", {"day"}>>),
   \* A misspelt key; one that is no text; a transformation that does not compile;
   \* no uri, and the dump section is wrong; a uri that YAML takes for something else.
   With(<<"dump", "transformations">> :> <<"list", {"hash"}>>),
   With(<<"dump", NotText>> :> <<"list", {"hash"}>>),
   With(<<"dump", "transformation">> :> <<"list", {"uncompilable"}>>),
   [With(<<"dump">> :> Wrong) EXCEPT !.env = <<>>],
   [With(<<>>) EXCEPT !.env = [URI |-> Wrong]]}

Typed(name, uri, configured) ==
  [name |-> name, uri |-> uri, configured |-> configured, flawed |-> FALSE]

MCCommands ==
  {[noIndexes |-> n, databases |-> {}] @@ Typed("dump", FALSE, TRUE) : n \in BOOLEAN}
  \cup {[clean |-> c, indexes |-> i] @@ Typed("restore", FALSE, TRUE) : c \in BOOLEAN, i \in {{}, {"mail"}}}
  \cup {Typed("validate_schema", FALSE, TRUE), Typed("validate_data", FALSE, TRUE),
         [Typed("validate_data", FALSE, TRUE) EXCEPT !.flawed = TRUE],
         Typed("list_transformers", FALSE, FALSE), Typed("list_dumps", FALSE, TRUE)}
  \cup {[sizes |-> <<1>>, keep |-> FALSE] @@ Typed("bench", TRUE, FALSE),
         [sizes |-> <<2, 1>>, keep |-> TRUE] @@ Typed("bench", FALSE, TRUE)}
=============================================================================
