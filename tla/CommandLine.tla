---------------------------- MODULE CommandLine ----------------------------
(***************************************************************************)
(* leafmask's commands against one MongoDB server, one after another, from *)
(* the checks of configuration and flags to the exit status (src/cli.rs,   *)
(* src/config.rs), with other users of the server between and beneath      *)
(* them.  It follows the structure of collections through dump, restore    *)
(* and `validate --schema` (Schema), and the bench through the database it *)
(* creates and drops (src/bench.rs).                                       *)
(*                                                                         *)
(* Collections are pairs <<database, name>>; a database exists while it    *)
(* has a collection.  Documents are counted: what happens to each is       *)
(* RestoreCollection's subject, and what parallel jobs change is DumpRun's *)
(* and RestoreRun's.                                                       *)
(***************************************************************************)
EXTENDS Schema, Configuration, SequencesExt

CONSTANTS
  Servers,      \* what the server may hold at first
  UserWrites,   \* what others may do: [at, to], `to` a set of at most one collection
  Configs,      \* configurations: a file and the environment, [file, env]
  Commands,     \* what may be typed
  MaxCommands, MaxUserWrites, MaxFailures

BenchDb == "leafmask_bench"
Marker  == <<BenchDb, "leafmask_bench_marker">>
Clients == <<BenchDb, "clients">>

ASSUME BoundsAssumption ==
  MaxCommands \in Nat /\ MaxUserWrites \in Nat /\ MaxFailures \in Nat

\* The marker is the bench's own name: nobody else makes or drops it, but for a
\* restore of a dump that has it.
ASSUME ServersAssumption ==
  \A s \in Servers : Marker \notin DOMAIN s /\ \A c \in DOMAIN s : IsCollection(s[c])

ASSUME UserWritesAssumption ==
  \A w \in UserWrites : w.at # Marker /\ \A x \in w.to : IsCollection(x)

ASSUME ConfigsAssumption ==
  \A c \in Configs : \A p \in DOMAIN c.file : p \in Seq(STRING) /\ Len(p) \in {1, 2}

ASSUME CommandsAssumption ==
  \A c \in Commands :
    c.name \in {"dump", "restore", "validate_schema", "validate_data", "bench",
                "list_transformers", "list_dumps"}

VARIABLES
  server,    \* from the collections that exist to their contents
  owner,     \* of each, who made it: a command, a user, or a user who put it where a
             \* bench runs or has left its marker (stray)
  config,
  dumps,     \* completed: for every collection, what was recorded and what was there
  cmd,       \* the running command
  step,
  todo,      \* collections still to do
  made,      \* the dump being made
  pending,   \* indexes still to create, or the drift found so far
  failed,    \* a collection's restore failed
  fresh,     \* the dump the server was restored from, untouched since
  blurred,   \* what the command read is not all there was at one moment
  commandsLeft, writesLeft, failuresLeft

worldVars == <<server, owner, dumps, fresh>>
localVars == <<todo, made, pending, failed, blurred>>
bounds    == <<commandsLeft, writesLeft, failuresLeft>>
vars      == <<worldVars, config, cmd, step, localVars, bounds>>

None == [name |-> "none"]

\* f, with `value` for x.
Bind(f, x, value) == [y \in DOMAIN f \cup {x} |-> IF y = x THEN value ELSE f[y]]

Present   == DOMAIN server
Live(c)   == IF c \in Present THEN server[c] ELSE Nothing
In(db)    == {c \in Present : c[1] = db}

TypeOK ==
  /\ DOMAIN owner = Present
  /\ config \in Configs
  /\ cmd \in Commands \cup {None}
  /\ failed \in BOOLEAN /\ blurred \in BOOLEAN
  /\ fresh \subseteq DOMAIN dumps

Init ==
  /\ server \in Servers
  /\ owner = [c \in DOMAIN server |-> "user"]
  /\ config \in Configs
  /\ dumps = <<>> /\ fresh = {}
  /\ cmd = None /\ step = "idle"
  /\ todo = <<>> /\ made = <<>> /\ pending = {} /\ failed = FALSE /\ blurred = FALSE
  /\ commandsLeft = MaxCommands /\ writesLeft = MaxUserWrites /\ failuresLeft = MaxFailures

-----------------------------------------------------------------------------
(* What a command checks before it acts *)

\* The file as a command finds it.
Settings == InterpolateEnv(config.file, config.env)

\* A list on the command line replaces the configured one.
ResolveList(cli, configured) == IF cli = {} THEN configured ELSE cli

RequireConfig == <<"locate", "load">>
OpenStorage   == RequireConfig \o <<"storage">>

\* What each command does before it touches the server, in its order.
DumpChecks ==
  OpenStorage \o <<"uri", "registry", "transformation", "references", "plan", "dump filters", "conditions">>
RestoreChecks == OpenStorage \o <<"uri", "restore", "restore filters", "dump">>
ValidateSchemaChecks == OpenStorage \o <<"uri", "dump">>
ValidateDataChecks ==
  <<"flags">> \o RequireConfig \o <<"uri", "registry", "transformation", "plan">>
BenchChecks(c) == <<"flags">> \o IF c.uri THEN <<>> ELSE <<"load", "uri">>

Checks(c) ==
  CASE c.name = "dump" -> DumpChecks
    [] c.name = "restore" -> RestoreChecks
    [] c.name = "validate_schema" -> ValidateSchemaChecks
    [] c.name = "validate_data" -> ValidateDataChecks
    [] c.name = "bench" -> BenchChecks(c)
    [] c.name = "list_transformers" -> <<"load", "registry">>
    [] c.name = "list_dumps" -> OpenStorage

UriMissing(c) == ~c.uri /\ ~(c.configured /\ At(Settings, <<"mongodb", "uri">>)[1] = "text")

\* A transformation that does not compile (TransformPlan says which do not), an
\* expression without a term.
PlanFails       == "uncompilable" \in ListAt(Settings, <<"dump", "transformation">>)
ConditionsFail  == SubsetCondsFails(Settings) \/ "blank" \in ListAt(Settings, <<"dump", "subset_conds">>)

\* Where a command can do without a file, one that is not named is absent, and
\* one that does not parse is an error all the same.
Fails(c, check) ==
  CASE check = "locate" -> ~c.configured
    [] check = "uri" -> UriMissing(c)
    [] check = "dump" -> dumps = <<>>
    [] check = "flags" -> c.flawed
    [] check = "load" -> c.configured /\ ParseFails(Settings)
    [] check = "registry" -> c.configured /\ RegistryFails(Settings)
    [] check = "storage" -> OpenFails(Settings)
    [] check = "transformation" -> TransformationFails(Settings)
    [] check = "references" -> ReferencesFail(Settings)
    [] check = "plan" -> PlanFails
    [] check = "dump filters" -> DumpFiltersFail(Settings)
    [] check = "conditions" -> ConditionsFail
    [] check = "restore" -> RestoreSectionFails(Settings)
    [] check = "restore filters" -> RestoreFiltersFail(Settings)

Refused(c) == \E i \in DOMAIN Checks(c) : Fails(c, Checks(c)[i])

\* Whatever ends a command: its locals are gone.
Exit ==
  /\ cmd' = None /\ step' = "idle"
  /\ todo' = <<>> /\ made' = <<>> /\ pending' = {} /\ failed' = FALSE /\ blurred' = FALSE

Begin ==
  /\ cmd = None /\ commandsLeft > 0
  /\ cmd' \in Commands
  /\ step' = "checks"
  /\ commandsLeft' = commandsLeft - 1
  /\ UNCHANGED <<worldVars, config, localVars, writesLeft, failuresLeft>>

Refuse ==
  /\ step = "checks" /\ Refused(cmd)
  /\ Exit
  /\ UNCHANGED <<worldVars, config, bounds>>

ReadOnly == {"validate_data", "list_transformers", "list_dumps"}

\* These print, and exit.
Report ==
  /\ step = "checks" /\ ~Refused(cmd) /\ cmd.name \in ReadOnly
  /\ Exit
  /\ UNCHANGED <<worldVars, config, bounds>>

\* Any call to the server or the storage may fail and end the command, and the
\* process may be killed, with everything done so far left as it is.
Interrupted ==
  /\ cmd # None /\ step # "checks" /\ failuresLeft > 0
  /\ failuresLeft' = failuresLeft - 1
  /\ Exit
  /\ UNCHANGED <<worldVars, config, commandsLeft, writesLeft>>

\* An error of listIndexes is one of those failures, but nobody hears of it.
Losing(isLost) == (isLost => failuresLeft > 0) /\ failuresLeft' = failuresLeft - IF isLost THEN 1 ELSE 0

-----------------------------------------------------------------------------
(* The server, changed by a command *)

Put(c, value) ==
  /\ server' = Bind(server, c, value)
  /\ owner' = IF c \in Present THEN owner ELSE Bind(owner, c, cmd.name)

DropAll(cs) ==
  /\ server' = Restrict(server, Present \ cs)
  /\ owner' = Restrict(owner, Present \ cs)

\* A collection that is there is left as it is.
Ensure(c, structure) ==
  IF c \in Present THEN UNCHANGED <<server, owner>> ELSE Put(c, Created(structure))

-----------------------------------------------------------------------------
(* dump *)

Included(c) ==
  LET databases == ResolveList(cmd.databases, ListAt(Settings, <<"dump", "include_databases">>))
  IN databases = {} \/ c[1] \in databases

\* System collections are never listed.
Listed == {c \in Present : c[2] # "system"}

StartDump ==
  /\ step = "checks" /\ cmd.name = "dump" /\ ~Refused(cmd)
  /\ step' = "dump"
  /\ todo' = SetToSeq({c \in Listed : Included(c)})
  /\ UNCHANGED <<worldVars, config, cmd, made, pending, failed, blurred, bounds>>

\* With --no-indexes the structure is not read.
DumpItem ==
  /\ step = "dump" /\ todo # <<>>
  /\ \E isLost \in BOOLEAN :
       /\ Losing(isLost)
       /\ isLost => ~cmd.noIndexes /\ Live(Head(todo)).indexes # {}
       /\ LET there == Live(Head(todo))
              read  == ReadStructure(IF cmd.noIndexes THEN Nothing ELSE there, isLost)
          IN made' = Bind(made, Head(todo), [recorded |-> read, docs |-> there.docs, there |-> there])
  /\ todo' = Tail(todo)
  /\ UNCHANGED <<worldVars, config, cmd, step, pending, failed, blurred, commandsLeft, writesLeft>>

FinishDump ==
  /\ step = "dump" /\ todo = <<>>
  /\ dumps' = Append(dumps, made)
  /\ Exit
  /\ UNCHANGED <<server, owner, fresh, config, bounds>>

-----------------------------------------------------------------------------
(* restore latest *)

Latest == Last(dumps)
Item   == Head(todo)

ExcludedIndexes(c) == ResolveList(c.indexes, ListAt(Settings, <<"restore", "exclude_indexes">>))
Cleans(c) == c.clean \/ At(Settings, <<"restore", "clean">>) = <<"text", "true">>

StartRestore ==
  /\ step = "checks" /\ cmd.name = "restore" /\ ~Refused(cmd)
  /\ step' = "clean"
  /\ todo' = SetToSeq(DOMAIN Latest)
  /\ fresh' = {}
  /\ UNCHANGED <<server, owner, dumps, config, cmd, made, pending, failed, blurred, bounds>>

\* What is left of a bench's database once a restore drops part of it is the
\* restore's.
Clean ==
  /\ step = "clean" /\ todo # <<>>
  /\ IF Cleans(cmd) /\ Item \in Present
     THEN /\ server' = Restrict(server, Present \ {Item})
          /\ owner' = [c \in Present \ {Item} |->
                         IF owner[c] = "bench" THEN "restore" ELSE owner[c]]
     ELSE UNCHANGED <<server, owner>>
  /\ step' = "ensure"
  /\ UNCHANGED <<dumps, fresh, config, cmd, localVars, bounds>>

\* Seeded fault: the options stay behind.
EnsureBare ==
  /\ step = "ensure"
  /\ Ensure(Item, [Latest[Item].recorded EXCEPT !.options = <<>>])
  /\ step' = "documents"
  /\ UNCHANGED <<dumps, fresh, config, cmd, localVars, bounds>>

EnsureCollection ==
  /\ step = "ensure"
  /\ Ensure(Item, Latest[Item].recorded)
  /\ step' = "documents"
  /\ UNCHANGED <<dumps, fresh, config, cmd, localVars, bounds>>

NextItem ==
  /\ todo' = Tail(todo)
  /\ step' = "clean"
  /\ pending' = {}

\* The automatic index is never declared.
Wanted(c) ==
  {ix \in Latest[c].recorded.indexes :
     ix.name # "_id_" /\ ix.name \notin ExcludedIndexes(cmd)}

\* An insert, or an index, makes the collection that somebody has dropped.
Target == IF Item \in Present THEN server[Item] ELSE Created(Nothing)

InsertDocuments ==
  /\ step = "documents"
  /\ Latest[Item].docs = 0 \/ ~IsView(Target)
  /\ IF Latest[Item].docs = 0 THEN UNCHANGED <<server, owner>>
     ELSE Put(Item, [Target EXCEPT !.docs = Latest[Item].docs])
  /\ pending' = Wanted(Item)
  /\ step' = "indexes"
  /\ UNCHANGED <<dumps, fresh, config, cmd, todo, made, failed, blurred, bounds>>

\* A view takes no documents: its collection fails, and the next one is tried.
InsertRefused ==
  /\ step = "documents"
  /\ Latest[Item].docs > 0 /\ IsView(Target)
  /\ failed' = TRUE
  /\ NextItem
  /\ UNCHANGED <<worldVars, config, cmd, made, blurred, bounds>>

CreateIndex ==
  /\ step = "indexes"
  /\ \E ix \in pending :
       /\ ~Conflicts(Target, ix) /\ ~IsView(Target)
       /\ Put(Item, WithIndex(Target, ix))
       /\ pending' = pending \ {ix}
  /\ UNCHANGED <<dumps, fresh, config, cmd, step, todo, made, failed, blurred, bounds>>

\* The collections after it are restored all the same, then the restore fails.
IndexRefused ==
  /\ step = "indexes"
  /\ \E ix \in pending : Conflicts(Target, ix) \/ IsView(Target)
  /\ failed' = TRUE
  /\ NextItem
  /\ UNCHANGED <<worldVars, config, cmd, made, blurred, bounds>>

ItemRestored ==
  /\ step = "indexes" /\ pending = {}
  /\ NextItem
  /\ UNCHANGED <<worldVars, config, cmd, made, failed, blurred, bounds>>

Whole(c) == Cleans(c) /\ ExcludedIndexes(c) = {}

FinishRestore ==
  /\ step = "clean" /\ todo = <<>>
  /\ fresh' = IF ~failed /\ Whole(cmd) /\ ~blurred THEN {Len(dumps)} ELSE {}
  /\ Exit
  /\ UNCHANGED <<server, owner, dumps, config, bounds>>

-----------------------------------------------------------------------------
(* validate --schema *)

StartValidate ==
  /\ step = "checks" /\ cmd.name = "validate_schema" /\ ~Refused(cmd)
  /\ step' = "diff"
  /\ todo' = SetToSeq(DOMAIN Latest)
  /\ UNCHANGED <<worldVars, config, cmd, made, pending, failed, blurred, bounds>>

\* Collections the dump does not have are not looked at.
DiffItem ==
  /\ step = "diff" /\ todo # <<>>
  /\ \E isLost \in BOOLEAN :
       /\ Losing(isLost)
       /\ isLost => Live(Item).indexes # {}
       /\ blurred' = (blurred \/ isLost)
       /\ pending' = pending \cup DiffCollection(Latest[Item].recorded, ReadStructure(Live(Item), isLost))
  /\ todo' = Tail(todo)
  /\ UNCHANGED <<worldVars, config, cmd, step, made, failed, commandsLeft, writesLeft>>

\* With --strict any drift is a failure; the printed report is the same.
FinishValidate ==
  /\ step = "diff" /\ todo = <<>>
  /\ Exit
  /\ UNCHANGED <<worldVars, config, bounds>>

-----------------------------------------------------------------------------
(* bench *)

\* `pending` is what listCollections answered.
StartBench ==
  /\ step = "checks" /\ cmd.name = "bench" /\ ~Refused(cmd)
  /\ step' = "guard"
  /\ todo' = cmd.sizes
  /\ fresh' = {}
  /\ UNCHANGED <<server, owner, dumps, config, cmd, made, pending, failed, blurred, bounds>>

ListDatabases ==
  /\ step = "guard" /\ todo # <<>>
  /\ step' = IF In(BenchDb) = {} THEN "mark" ELSE "list"
  /\ UNCHANGED <<worldVars, config, cmd, localVars, bounds>>

ListCollections ==
  /\ step = "list"
  /\ pending' = Listed \cap In(BenchDb)
  /\ step' = "decide"
  /\ UNCHANGED <<worldVars, config, cmd, todo, made, failed, blurred, bounds>>

GuardRefuses ==
  /\ step = "decide" /\ pending # {} /\ Marker \notin pending
  /\ Exit
  /\ UNCHANGED <<worldVars, config, bounds>>

\* Seeded fault: a database that exists is taken for a leftover.
GuardDropsAny ==
  /\ step = "decide"
  /\ DropAll(In(BenchDb))
  /\ step' = "mark" /\ pending' = {}
  /\ UNCHANGED <<dumps, fresh, config, cmd, todo, made, failed, blurred, bounds>>

GuardDrops ==
  /\ step = "decide" /\ (pending = {} \/ Marker \in pending)
  /\ DropAll(In(BenchDb))
  /\ step' = "mark" /\ pending' = {}
  /\ UNCHANGED <<dumps, fresh, config, cmd, todo, made, failed, blurred, bounds>>

BenchStep(from, to) ==
  /\ step = from /\ cmd.name = "bench"
  /\ step' = to
  /\ UNCHANGED <<dumps, fresh, config, cmd, todo, made, pending, failed, blurred, bounds>>

\* Seeded fault: the seeds come first.
MarkLater == BenchStep("mark", "seed") /\ Ensure(Clients, Nothing)

\* The marker first, in both of the databases a size creates.
Mark == BenchStep("mark", "seed") /\ Ensure(Marker, Nothing)
Seed == BenchStep("seed", "measure") /\ Put(Clients, [Created(Nothing) EXCEPT !.docs = Head(todo)])

\* The dump of Clients into a directory of the bench's own, then the drop.
Measure == BenchStep("measure", "remark") /\ DropAll(In(BenchDb))
Remark  == BenchStep("remark", "reload") /\ Ensure(Marker, Nothing)
Reload  == BenchStep("reload", "drop") /\ Put(Clients, [Created(Nothing) EXCEPT !.docs = Head(todo)])

\* The next size starts with the guard again.
SizeDone ==
  /\ step = "drop"
  /\ IF cmd.keep THEN UNCHANGED <<server, owner>> ELSE DropAll(In(BenchDb))
  /\ todo' = Tail(todo)
  /\ step' = "guard"
  /\ UNCHANGED <<dumps, fresh, config, cmd, made, pending, failed, blurred, bounds>>

FinishBench ==
  /\ step = "guard" /\ todo = <<>>
  /\ Exit
  /\ UNCHANGED <<worldVars, config, bounds>>

-----------------------------------------------------------------------------

\* A collection put into a database that bears the marker, or while a bench runs,
\* takes its chances.
UserWrite ==
  /\ writesLeft > 0
  /\ \E w \in UserWrites :
       LET stray == w.at[1] = BenchDb /\ (Marker \in Present \/ cmd.name = "bench")
       IN IF w.to = {} THEN DropAll({w.at})
          ELSE /\ server' = Bind(server, w.at, CHOOSE x \in w.to : TRUE)
               /\ owner' = Bind(owner, w.at, IF stray THEN "stray" ELSE "user")
  /\ writesLeft' = writesLeft - 1
  /\ fresh' = {}
  /\ blurred' = (cmd # None)
  /\ UNCHANGED <<dumps, config, cmd, step, todo, made, pending, failed, commandsLeft, failuresLeft>>

Bench ==
  \/ StartBench \/ ListDatabases \/ ListCollections \/ GuardRefuses \/ GuardDrops
  \/ Mark \/ Seed \/ Measure \/ Remark \/ Reload \/ SizeDone \/ FinishBench

Next ==
  \/ Begin \/ Refuse \/ Report \/ Interrupted
  \/ StartDump \/ DumpItem \/ FinishDump
  \/ StartRestore \/ Clean \/ EnsureCollection \/ InsertDocuments \/ InsertRefused
  \/ CreateIndex \/ IndexRefused \/ ItemRestored \/ FinishRestore
  \/ StartValidate \/ DiffItem \/ FinishValidate
  \/ Bench \/ UserWrite

Spec == Init /\ [][Next]_vars

-----------------------------------------------------------------------------
(* Properties *)

\* "It can never wipe a database it did not create": a bench drops nothing that
\* others had put into its database before it came, whatever other benches and
\* interruptions went before.  The guard does not see system collections, and it
\* believes a marker that came with a restored dump.
BenchSparesOthers ==
  [][(cmd.name = "bench" /\ writesLeft' = writesLeft
       /\ ~(Marker \in Present /\ owner[Marker] = "restore")) =>
       \A c \in Present \ DOMAIN server' : owner[c] # "user" \/ c[2] = "system"]_vars

\* "Every database the bench creates carries that marker": at whatever step a
\* bench is interrupted, the next one is not refused on its account.
BenchIsRecognized == (\E c \in In(BenchDb) : owner[c] = "bench") => Marker \in Present

\* A clean restore without index filters that reports success has put back the
\* structure its dump recorded, and `validate --schema` would find no drift.  A
\* dump without indexes, asked for or not, misses the automatic one.
RestoredAsRecorded ==
  \A d \in fresh : \A c \in DOMAIN dumps[d] :
    LET recorded == dumps[d][c].recorded
    IN recorded.indexes # {} \/ IsView(recorded)
         => DiffCollection(recorded, ReadStructure(Live(c), FALSE)) = {}

\* The report is empty exactly when every collection of the dump is there as it was
\* recorded, or is gone with nothing recorded of it, unless the server changed or
\* an error was passed over meanwhile.
DriftIsExact ==
  step = "diff" /\ todo = <<>> /\ ~blurred =>
    (pending = {} <=>
       \A c \in DOMAIN Latest :
         LET recorded == Latest[c].recorded
         IN IF c \in Present THEN recorded = ReadStructure(server[c], FALSE)
            ELSE recorded.indexes = {} /\ recorded.validator = {} /\ recorded.options = <<>>)

ReadsFile(c) == c.configured /\ ~(c.name = "bench" /\ c.uri)

\* "Failing the run is the only safe outcome": no command that reads the file starts
\* its work while the file has, in whichever section, a key spelt in a way that no
\* command's reader takes.  `bench --uri` reads no file, and a key that is no text
\* is a matter of its own (NoKeyIgnored).
MisspeltKeyStops ==
  cmd # None /\ step # "checks" /\ ReadsFile(cmd) =>
    \A p \in DOMAIN config.file : IsRead(p) \/ Last(p) = NotText

-----------------------------------------------------------------------------
(* What the repository's documents say and this code does not do *)

\* src/validate/schema_diff.rs: a structure read that fails propagates, "so a
\* connection problem is never silently rendered as 'everything was dropped'": an
\* index reported as removed is not there.
ReportedGoneIsGone ==
  step = "diff" =>
    \A drift \in pending :
      drift[1] = "index removed" =>
        \E c \in DOMAIN Latest : Named(Latest[c].recorded, drift[2]) # {} /\ Named(Live(c), drift[2]) = {}

\* .spectial/features/validate.schema-diff.yaml: "A collection the dump recorded that
\* no longer exists live is drift (everything it had is gone), not an error".
MissingIsDrift ==
  step = "diff" /\ todo = <<>> /\ ~blurred => (pending = {} => DOMAIN Latest \subseteq Present)

\* .spectial/features/config.loading.yaml: "An unknown top-level or section key is
\* rejected as an error naming the offending key, never silently ignored".
NoKeyIgnored ==
  cmd # None /\ step # "checks" /\ ReadsFile(cmd) => \A p \in DOMAIN config.file : IsRead(p)

\* .spectial/features/mongo.access-layer.yaml: "An index round-trips through the
\* abstraction with its ordered key specification, direction, uniqueness, and
\* name".
IndexRoundTrips ==
  LET Defined(c) == {[name |-> ix.name, keys |-> ix.keys, unique |-> ix.unique] : ix \in c.indexes}
  IN \A d \in fresh : \A c \in DOMAIN dumps[d] :
       dumps[d][c].recorded.indexes # {} => Defined(Live(c)) = Defined(dumps[d][c].there)
=============================================================================
