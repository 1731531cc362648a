# leafmask in TLA+

leafmask dumps a MongoDB deployment into object storage, masking documents on
the way, and restores such dumps. This directory holds TLA+ modules that model
its control, TLC configurations that check them on small instances, and TLAPS
proofs of what matters most. Paths below are relative to the repository
(`src/dump/create.rs` is the Rust source file); `PROJECT.json` maps each
definition to the lines it models and each hazard to the properties about it.

- [Inventory](#inventory): the system's components
- [Modules](#modules): what models what, and how state and actions correspond
- [Runs](#runs): what each run checks and shows, with its bounds
- [Fairness](#fairness)
- [Proofs](#proofs)
- [Where code and documents disagree](#where-code-and-documents-disagree)
- [Not modelled](#not-modelled)
- [Plan](#plan)

To check: `tlc -config DumpPool.cfg DumpRun`, and so on for the rows of the
table of runs; `tlapm DumpRunProofs.tla`, and so on for the modules named
`...Proofs`.

## Inventory

leafmask is one process per command. Its concurrency is: a scoped pool of worker
threads in a dump or a restore (`--jobs`), a background uploader thread for every
streamed upload, a child process for every custom transformer, and, on the
outside, other leafmask processes on the same storage and other clients of the
same database. It keeps nothing between commands but what is in storage and in
the target database, so every failure or kill shows there.

| Component (source) | State | Operations | Hard behaviour | What makes it correct |
|---|---|---|---|---|
| Dump driver (`src/dump/create.rs`) | item list, `next` cursor, `stop` flag, result slots | claim an item, dump it, report, join, collect, write `metadata.json` | workers interleave; a Relaxed flag; any call fails; a kill anywhere | a dump that lists as Done is complete; nothing is skipped silently; one writer per blob |
| Collection data writer (`src/dump/mod.rs`) | spool file or upload, `inner` taken by `finish` | create, write, finish, Drop | errors before, in and after `finish` | no partial blob under a Done dump; cleanup |
| Streaming multipart upload (`src/storage/multipart.rs`, sinks in `s3.rs`, `azure.rs`) | buffer, part schedule, bounded channel, tokens | write, finish, abort; send part, complete, abort upload | two threads and a bounded channel; the uploader dies first; a lost answer | all bytes once and in order, or no object; the real cause is reported; no deadlock |
| Dump management (`src/dump/management.rs`, listing in `src/dump/mod.rs`) | listing, metadata read per dump, selection | list, show, delete by id, prune | reads and deletes race with running dumps; deletes cut short; transient read errors | only what was asked for is lost; `latest` is complete; an interrupted delete can be repeated |
| Storage backends (`src/storage/*.rs`) | objects under a prefix | put, put_file, get, list, delete, exists | torn puts (directory, SSH), object-by-object deletes, errors passed over (SSH) | see above, per kind of backend |
| Restore driver (`src/restore/database.rs`, `cmd_restore` in `src/cli.rs`) | items, cursor, `stop`, slots, report | sequential or pooled items, tally, dependency-order index pass, scripts | interleaving, three kinds of failure, options that change the order | exit 0 means complete; the report is true; indexes after documents |
| Restore of one collection (`restore_item`, `insert_batch`, `src/restore/error_exclusions.rs`) | batch, position in it, counters; the target | clean, ensure, read, insert, resubmit, check count | refusals inside ordered batches, lost answers, truncated blobs, reruns | each document counted once; ok means whole; `--clean` is idempotent |
| Referential subsetting (`src/subset/*.rs`, filters in `src/cli.rs`) | visited set, work stack, ids | seed, follow a reference, build `$in` filters | cycles, polymorphic and missing references, a database that changes under the walk | the least closure, each document once; only writes can break a reference |
| Transformation plan, inheritance, dynamic parameters (`src/transform/apply.rs`, `inheritance.rs`, `dynamic.rs`) | compiled rules per collection | expand inherited entries, compile, decide, transform a document | one hop only, last entry wins, rules that share a document, parameters from the document | what a rule governs is masked, what none governs is untouched, a reference follows its target |
| Built-in transformers, toolkit, hash (`src/transform/builtin.rs`, `src/toolkit.rs`, `src/hash.rs`) | none | cast, validate parameters, hash, perturb, generate | the ends of i64, values of the wrong type | numbers within their bounds; same input, same output |
| Custom transformers (`src/transform/custom.rs`) | child process, its pipes, a mutex | one line out, one line in, per value | shared by the dump's workers; a child that dies, hangs or answers twice | an answer belongs to its value; no call blocks for ever |
| Conditions (`src/transform/condition.rs`) | none | evaluate, or push down as a filter | two implementations of one language | both agree on every document, outside a named list |
| Configuration (`src/config.rs`, `src/storage/selection.rs`, the readers in `src/cli.rs`) | none | interpolate, decode, read per command | raw sections decoded piece by piece | what nobody reads stops the command |
| MongoDB layer (`src/mongo.rs`) | client | cursors, insert_many, ensure, drop, index, structure | partial bulk writes, tolerated error codes, swallowed `listIndexes` errors | what the callers are told is what happened |
| Schema validation (`src/validate/schema_diff.rs`) | none | read both sides, compare | a server that changes, and the dump's own losses | the report is empty exactly for equal structures; a clean restore shows no drift |
| Bench (`src/bench.rs`) | the database `leafmask_bench` and its marker | guard, seed, dump, drop, restore, clean up, per size | interrupted between a drop and a marker; other users of the name | it drops only what a bench made, and always recognizes that |
| Scripts (`src/restore/scripts.rs`) | none | run a stage | failure between stages | a failing script stops the restore |
| Command line (`src/cli.rs`) | none | check, act, exit | order of checks and effects | nothing is touched before every check has passed |
| Catalog, preview, warnings (`src/catalog.rs`, `src/validate/preview.rs`, `warnings.rs`) | none | render | none | unit tests in the repository |

Interactions: the CLI computes the subset's filters and the transformation plan,
then calls `Dump::run`; its workers stream each collection through a writer,
which owns a spool file or an upload, into storage; `metadata.json` is put last
and is what makes a dump `Done`. `delete`, `list` and `restore` meet dumps only
through storage. `Restore::run` reads the metadata and drives one
`restore_item` per collection against the MongoDB sink.

## Modules

| Module | Models | Interacts with |
|---|---|---|
| `DumpRun` | one `dump` process, down to each call of `dump_item` | implements `AtomicDump` |
| `AtomicDump` | what a dump run promises of storage | |
| `MultipartUpload` | one streamed upload: both threads, channel, service | implements `AtomicBlob`, which justifies the atomic puts `DumpRun` has with `Multipart` |
| `AtomicBlob` | what an upload promises of its object | |
| `DumpStore` | many dump runs and delete commands on one storage | sees a dump run as `DumpRun` shows it: blobs first, metadata last, or abandoned |
| `RestoreRun` | one `restore` process | an item's documents are untouched, partial or loaded, as `RestoreCollection` leaves them |
| `RestoreCollection` | `restore_item` for one collection, document by document, over several runs | |
| `SubsetClosure`, `MCSubsetClosure` | the filters of one dump, and the dump that reads through them, over a changing database | |
| `BsonValues` | values, paths and casts (`toolkit.rs`) | extended by the next four |
| `Conditions` | the condition language, in memory and as a filter, and how the server reads the filter | |
| `Builtins` | declared parameters and the transformers | |
| `TransformPlan` | inheritance, compilation, application to a document | |
| `Masking`, `MCMasking` | a dump's documents passing through the plan | extends the four above |
| `CustomCommand`, `MCCustomCommand` | one `command` transformer under all dump workers | a transformer of `TransformPlan`, seen from inside |
| `Schema` | structure read, written and compared | |
| `Configuration` | the file, its readers and their errors | |
| `CommandLine`, `MCCommandLine` | sequences of commands against one server | extends `Schema` and `Configuration`; dump and restore are as coarse as these questions allow |
| `DumpRunProofs`, `MultipartUploadProofs`, `DumpStoreProofs`, `RestoreRunProofs`, `RestoreCollectionProofs`, `SubsetClosureProofs`, `CommandLineProofs` | theorems about `DumpRun`, `MultipartUpload`, ... | each extends the module it is about |
| `TransformProofs` | theorems about `Masking` and about `CustomCommand`, the two parts of `src/transform` with states | extends both; their names are disjoint |

Definitions introduced by "Seeded fault" are plausible bugs. No specification
uses them; putting one in the place of the definition it follows makes TLC
refute the property `PROJECT.json` names, which shows that the property can be
violated by the code it is about.

**DumpRun.** A worker's `wpc` is its position in the pool's loop (`check` the
flag, `claim`, `store` the flag, `report` the slot) or in `dump_item` (`create`
the writer, `stream`, `finish`/`putData`, `structure`, `meta`/`putMeta`); each
label is one call with a success and a failure action. `cursor` is `next`,
`stopped` the workers that have stored the flag (a Relaxed load may miss another
worker's store but not its own), `result` the slots. `mainPc` is the caller:
spawn, join, collect in order, put metadata. With `Sequential` (`--jobs 1`, the
default, or one item) the one worker has no flag, as `map` over the items has
none. Blobs are absent, partial or whole; `Multipart` separates backends whose
puts are atomic from those that can tear. `resource` is the spool file or upload:
`Drop`, a failed part or the end of `finish` tries to clean it up and passes over a
failure (`AfterCleanup`: it is `released` or `orphaned`); after `finish` has taken it
and failed nobody tries, and it stays `open`. `Crash` is enabled everywhere.

**MultipartUpload.** Bytes are numbered, a part is an interval, so gaps, overlaps
and reordering show. Writer actions follow `write` (fill the buffer, drain while
it holds a part, sends blocking on the bounded channel), `finish` (last part,
finish message, join) and `abort`; uploader actions follow `run_uploader`. The
service's answers are free: a part may fail, a complete may fail before or after
it took effect.

**DumpStore.** `StartDump`, `WriteObject`, `AbandonDump` are dump runs. A delete
command is `DeleteById` or `StartPrune`, one `ReadMetadata` per listed dump (any
error gives an Unknown stub dated to the epoch, as `list_metadata` has it),
`Select` by the rules of `select_for_deletion`, then `BeginDelete` and one action
per object, in the backend's order; it can fail or be killed between any two.
`hit`, `raced` and `cut` record which deletions have begun, met a running dump,
or were cut short: the properties' exceptions are stated with them.

**RestoreRun.** As `DumpRun`, with the two kinds of failure `restore_item` knows:
a failed collection goes into the report, a fatal one ends the run in the tally.
`--dependency-order` moves index creation behind the tally.

**RestoreCollection.** One collection, documents by number; the server refuses
duplicates (target already has the `_id`) and `Invalid` documents, and a
connection can be lost with any part of the batch taken. `OrderedResume` is the
resubmission of a batch behind a tolerated refusal. Runs follow each other on
whatever the last one left, with new options.

**SubsetClosure.** `pc` follows `resolve_dump_filters`: choose the path, seed in
`BTreeMap` order, pop a document and follow its edges one query at a time, build
the filters; then the dump reads each collection once. `work` is the stack,
`visited` and `included` the two records of admission. The edges of the document
in hand are positions in the graph, followed in ascending order; `left` are those
to come. A document is read as its
projection shows it (`Projection`), so a field that is not projected is missing to the
walk. `Change` writes one document between any two queries. A query is answered
as of one moment, in any order, and every document has an `_id`. References that
are null find documents without the field, as a MongoDB equality does. A value has its
type, because the code and the server differ there: the server compares numbers of
any type by value (`SameValue`), `resolve_target` compares Bson values of one type,
on a top-level key, with an integer that YAML makes an Int64 (`YamlToBson`, `Hits`,
`Dotted`). What a reference means is stated with the server's reading, and the two
properties about completeness are about documents whose discriminators the code
can read (`Legible`). `notNull` is
carried on the edge as in the code, and no action reads it.

**BsonValues, Conditions, Builtins, TransformPlan.** Pure operators, named after
the Rust functions. A value is a type and a payload; strings are ranks in the
server's order, with constants that say which of them read as a date or an
integer. i64 and f64 are kept as bounds (`MinInt`, `MaxInt`, and `ExactInts` in
the place of 2^53): casts saturate as `as i64` does, `saturating_add` is `Clamp`,
and integers beyond `ExactInts` fall together in pairs. An expression is already
cut at `or` and `and`; which side a term takes, and what its literal becomes, is
modelled. What the server does with a filter is external and follows MongoDB's
comparison brackets, null for a missing field, array elements, and the documents of
an array that a path goes through (`Reached`), where in memory it ends (`GetPath`).
`EvalMatchesFilter` names what it excepts in `ReadingsPart`: such paths, arrays and
decimals, integers beyond the exact floats, NaN against NaN (equal on the server
only), text that reads as a date or is compared by order, and truth values or null
compared by order. Text that a
transformer generates is `<<"masked", ...>>` with all it was computed from, so two
such values are equal exactly when the code's are (up to collisions of the hash).

**Masking.** `CompileOk` or `CompileRefused` is the compilation in `cmd_dump`,
which precedes all reading; each document is then skipped, written, or fails the
dump. `Scenarios` are configurations with the documents they are about. Every loop
of the code (along a path, over rules, entries, edges and what is inherited) is a
recursive function whose value at `n` is the state of the loop after `n` turns.
`ScenarioAssumption` says that lists are lists, and of the values that rules and
conditions read that they have a type and its payload; `DigestAssumption` that
`hash_u64` is unsigned.

**CustomCommand.** A line is one to a few cells, its last cell the newline, so that
pipes of `PipeCells` fill in the middle of a line. `Acquire`, `WriteCell`,
`ReadCell`, `Answered`, `Fail` are `transform` under the mutex; `ChildReads`,
`ChildWrites`, `ChildExits` the external process, of one of five `kinds`.
`Parses` takes a complete answer, or one that lacks only its newline at the end of
the stream, as `read_line` does. `DropTransformer` is `Drop`: the workers are joined
before the plan goes.

**Schema, Configuration, CommandLine.** Variables are interpolated before the file is
parsed, so the environment holds what YAML reads where a variable stands, which may
be of a wrong type (`InterpolateEnv`). `UnknownKeys` is `check_section_keys`, which
passes over a key that is no text (`NotText`); a reader of that section fails on it
later (`ReaderFails`), a command that does not read the section does not. `Checks` lists what a command checks, in the
order of `cmd_*`, before its first effect; a failed one leaves through `Refuse`.
Dump, restore and `validate --schema` go collection by collection and, in a
restore, call by call (`Clean`, `EnsureCollection`, `InsertDocuments`,
`CreateIndex`). The bench follows `bench_one`; the guard's two reads and its drop
are separate steps. `owner` records who made a collection, which the code cannot
know; only properties read it. `Interrupted` ends a command at any step and stands
for an error of the server or the storage as for a kill. `Losing` is the error of
`listIndexes` that nobody hears of. `UserWrite` is another client. `Target` is the
collection an insert or an index meets: the one there, or the one the server makes
implicitly. Of the server it is assumed that it keeps index names unique and
`_id_` on every collection that is no view (`IsCollection`), and of other clients
that they leave the bench's marker alone: the name is the bench's own.

## Runs

| Run | Instance | What it shows |
|---|---|---|
| `dump_pool` | `DumpRun`, 3 collections, 2 workers, tearing puts | type invariant; Done dumps are complete; an empty slot always lies behind a failed one; every spool file was removed, or its removal was tried, or `finish` had taken it and failed; one writer per blob; the pool and its join end; implements `AtomicDump` |
| `dump_sequential_upload` | `DumpRun`, 3 collections, one thread, uploads, no indexes | the same of uploads on the default path, where items go on after a failure: an upload is left only where its item's result says why |
| `multipart_upload` | parts of 2, then 4 units, channel of 2, writes up to 3, streams up to 16 | completed objects are whole, no byte is lost in flight, the cause is reported, an upload left behind has its reason, the writer always returns; implements `AtomicBlob` |
| `dump_store` | 3 dumps of 1 blob and metadata, 2 delete commands, every backend | complete dumps lose objects only to commands that asked; metadata without blobs is always the trace of a delete; deletion is complete or visibly cut short |
| `prune_running` | 2 dumps, 1 delete | violation: see below |
| `restore_run` | 3 collections, 1 or 2 threads, all options | exit 0 means complete; the report names exactly what is not loaded; indexes after documents |
| `restore_collection` | 4 documents, one invalid, batches of 3, 2 runs | every document accounted for once; ok is complete; a clean restore is exact; every run ends |
| `subset_closure` | 2 orders, 2 users, 1 currency; a polymorphic edge with Int32, Int64 and nested discriminators, and two cyclic ones; every database over the listed bodies; 1 write | where discriminators are legible: without writes the dump is exactly the least closure plus the free collections; with one, only references of the written document break; each document once; the walk ends |
| `masking` | configurations of up to two entries with nested, conditional, dynamic, marked and repeated rules; integers from -8 to 7, exact up to 4 | a condition means the same in memory and on the server, outside the listed exceptions; generated fields never show what was read; ungoverned paths are untouched; references follow; numbers stay in range |
| `custom_command` | 2 workers, one process of each kind, pipes of 2 cells | each value gets its own answer; no call blocks for ever under a process that answers line by line |
| `commands` | 4 commands from 13, 7 configurations, 8 servers, 1 foreign write, 1 failure | the bench spares what others put there before it and recognizes its own leftovers; a clean restore has the recorded structure and no drift; drift is exact, a collection that is gone being compared as nothing; a misspelt key, written as text, stops every command that reads the file |
| `lost_listing` | the same, 2 commands, no foreign write | violation: see below |

**Bounds, and why they suffice.** Three items and two workers are the smallest
instance in which one worker fails while another is busy and a third item is yet
unclaimed; the proofs cover every other number. Part sizes of 2 and 4 with writes
of up to 3 give writes that fill no part, exactly one and more than one, and a
stream that ends on, before and behind a boundary and a doubling; the channel's 2
slots fill. Batches of 3 over 4 documents give a full batch and a short one, with
the invalid document last in the first; two runs give every rerun on a half-filled
target. Three dumps are a protected, an expired and a running one, and the second
delete command repeats the first. In `subset_closure` an edge can find zero, one
or two documents, a cycle has length one or two and passes through both
collections, and a write can hit holder or target at any point of the walk or the
dump. In `masking` the integers are so few that every
operation meets both ends of the type and the end of the exact floats; the
properties speak of one document, or of a pair of a holder and its target, so
two or three documents per scenario are enough. In `custom_command` two cells per
pipe are less than a long line and more than a short one, so a streaming process
meets lines that fit (two pipes and the cell it holds) and lines that do not. In
`commands` four are the shortest sequences with a dump, an interrupted restore, a
repeated one and a comparison, or with an interrupted bench between two others;
one foreign write and one failure can fall on any step of any of them.
Bounds that only stop counters are named as such in the modules (`MaxRuns`,
`MaxDeletes`, `MaxBytes`, `MaxChanges`, `MaxCommands`, `MaxUserWrites`,
`MaxFailures`).

Some properties are stated but no run lists them, so that each run says only what
is hardest to test. `JoinedMeansOver` (`MultipartUpload`), `EveryCollectionTried`
(`RestoreRun`), `MetadataGoesLast` (`DumpStore`) and `FailedWorkerClaimsNoMore`
(`DumpRun` and `RestoreRun`) are proved instead. `ClaimedRunsToCompletion` (`DumpRun`)
and `Termination` (`RestoreRun`) are liveness properties: TLC finds them to hold at
the bounds of `dump_pool` and `restore_run` under `FairSpec`, and no proof covers them.

## Fairness

Safety properties need none. Liveness (`Termination`, `WriterReturns`, `RunEnds`)
assumes weak fairness of each thread's next step: the operating system runs every
thread that can run, a mutex or channel is granted, and every call to the server,
the storage service or the file system returns or fails (drivers and SDKs time
out). Fairness is of a step as a whole, success or failure, never of success.
Nobody has to start a run, a delete, a write by another client, or a crash.

`EveryCallReturns` in `CustomCommand` assumes the same of the workers, and of the
process that it goes on when it can read or write; the property is stated for
processes that then answer (`Cooperates`), since `read_line` has no timeout and a
process that keeps its answer blocks the dump. Nothing makes the process exit.
`DumpStore`, `Masking` and `CommandLine` have no liveness property and no fairness:
their commands are sequences of steps that only get fewer.

## Proofs

Eight modules hold theorems. They are proved for every value of the constants that
satisfies the named assumptions of the component's module, and TLC evaluates those
assumptions on every run of it. The bounds that only stop counters are among the
constants, so the theorems hold for runs, writes and failures of any number. In
each module the inductive invariant is called `IInv` (`MaskInv` for `Masking`); it was
checked with TLC on the run's instance before it was proved, and none of the safety
properties below is inductive without what it adds. Every safety property that a
passing run checks is proved.

| Theorem | States |
|---|---|
| `DumpRunProofs`: `DoneDumpsAreComplete`, `NothingIsSkipped`, `CleanupNeverForgets` | `DoneIsComplete`, `SkippedOnlyBehindAFailure`, `CleanupIsTried` |
| `BlobsHaveOneWriter`, `FailedWorkersStop`, `DumpIsAtomic` | the action properties `OneWriterPerBlob` and `FailedWorkerClaimsNoMore`; `DumpRun` implements `AtomicDump` |
| `MultipartUploadProofs`: `VisibleIsWhole`, `NothingIsLost`, `CauseIsBrought`, `LeftoversAreExplained` | `CompletedIsWhole`, `NothingLostInFlight`, `FinishBringsTheCause`, `LeftoverHasItsReason` |
| `NothingAfterAnswer`, `UploadIsAtomic` | the action property `JoinedMeansOver`; `MultipartUpload` implements `AtomicBlob` |
| `DumpStoreProofs`: `DeletionIsThorough`, `OnlyDeletesHarm`, `DeleteCanBeRepeated`, `EveryLossWasAsked` | `DeletedIsGone`, `HarmOnlyByDelete`, `MetadataGoesLast`, the action property `LossWasAsked` |
| `RestoreRunProofs`: `SuccessMeansComplete`, `ReportsAreTrue`, `IndexesComeLast`, `EverythingIsTried` | `SuccessIsComplete`, `ReportIsTrue`, `IndexesAfterDocuments`, `EveryCollectionTried` |
| `FailedWorkersStop` | the action property `FailedWorkerClaimsNoMore` |
| `RestoreCollectionProofs`: `DocumentsAreAccounted`, `OkMeansComplete`, `CleanIsIdempotent` | `EveryDocumentAccounted`, `OkIsComplete`, `CleanRestoreIsExact` |
| `SubsetClosureProofs`: `SubsetIsClosure`, `OnlyWritesBreakReferences`, `RecordedOnce` | `SubsetIsExact`, `IntactUnlessTouched`, `AdmittedOnce` |
| `TransformProofs`, of `Masking`: `ReadingsAgree`, `DerivedNeverLeak`, `UngovernedUntouched` | `EvalMatchesFilter`, `NothingLeaks`, `UngovernedIsUntouched` |
| `ReferencesSurvive`, `NumbersStayInRange`, `MaskTypeCorrect` | `ReferencesFollow`, `NumbersInRange`, `MaskTypeOK` |
| `TransformProofs`, of `CustomCommand`: `AnswersAreOwn` | `AnswersBelong` |
| `CommandLineProofs`: `BenchLeavesItsMarker`, `BenchIsHarmless`, `RestoreIsFaithful`, `ReportIsExact`, `UnknownKeysStop` | `BenchIsRecognized`, the action property `BenchSparesOthers`, `RestoredAsRecorded`, `DriftIsExact`, `MisspeltKeyStops` |
| `TypeCorrect`, in every module but `TransformProofs` | `TypeOK` |

**DumpRun and RestoreRun.** `IInv` adds the ownership that the code keeps only
implicitly: a worker at work owns one claimed item whose slot is empty
(`OwnsClaimed`), no two own the same one (`NoSharing`), and an empty slot below
the cursor has an owner (`ClaimedHasOwner`). When all workers have exited, an
empty slot is therefore at or above the cursor; a worker exits below the end only
because the flag is set (`ExitHasReason`), and the flag is set only once a result
below has failed or is about to be stored (`StopHasReason`); this gives
`NothingIsSkipped`. A dump's collector returns the first failure in order, so it
reaches the end only over ok slots (`CollectedIsOk`), an ok slot has whole blobs
(`BlobsBehindResult`, from `BlobsBehindProgress`), and metadata is written after
the end of collection (`MetadataIsLast`). In a restore the tally lists exactly the
failed slots it has passed (`TallyIsTrue`) and the index pass what it has indexed
(`PassIsTrue`), and a slot's result says what the target holds (`ResultIsTrue`).
That a failed worker claims no more needs a second invariant, `OwnStoreIsSeen`: a
worker that has failed has stored the flag before it looks at it, and does not miss
its own store. `CleanupNeverForgets` is `OpenHasReason` and `OrphanHasReason`, by which
a spool file or upload that is not cleaned up belongs to a worker on its way to, or
an item with, a result that explains it. The proof that a step keeps `IInv` has one lemma per kind of step; the
refinement maps each step of a dump to a step of the promise or a stutter.

**MultipartUpload.** The parts acknowledged, in the uploader's hand and in the
channel, in this order (`Flight`), are consecutive, have the sizes of the schedule,
and end where the buffer begins (`InOrder`), as long as the uploader is healthy and
the writer has not given up; each action moves a part along `Flight` or appends the
drained one. `Control` says which pairs of positions of the two threads occur, and
so that a finish message is the last and a joined uploader has exited. The upload is
completed only over an empty channel after a finish message, where `Flight` is the
whole stream. `UploadState` ties the upload to the uploader's exit, for
`LeftoversAreExplained`.

**DumpStore.** What a run has written is stored until a deletion of it begins
(`Written`); a command deletes only what it has selected, oldest first (`Command`),
and selects of the completed dumps only what the policy asks for (`Chosen`). The
delicate part is retention: the dumps counted as kept must still be complete when an
older one is deleted (`StillDone`), which holds because the command goes through
its selection from the oldest. What is stored of the dump at hand is still to be
deleted (`Listed`), except over SSH or in a race with its run.

**RestoreCollection.** Every document before the position of the restore is settled,
inserted or skipped for a tolerated reason, and the counters add up to the position
(`Accounted`); the position moves to behind the first refused document of a batch,
which is the least of a nonempty set of numbers. After a clean the target is
exactly the valid documents before the position (`Cleaned`).

**SubsetClosure.** The invariant of a graph search over a graph that changes: every
visited document that nobody has written is there (`Present`), and each of its
edges leads to visited documents, unless it waits on the stack or is among those
left of the document in hand (`Followed`); a stacked entry is what would be read now
(`Stacked`); all matches of a seeded condition are visited (`Seeded`). Without
writes, whatever is visited lies in every closed set (`Minimal`), so that at the
end, when nothing waits, it is the least one. What is dumped through the filters is
what is visited (`Filtered`, `Dumped`). All this is about the references as the walk
reads them (`Followable`), which are those of the specification where the
discriminators are legible. `FromEntries` is defined with `SelectSeq`,
of which nothing can be proved here; `DeclarationsAssumption` says that it returns
edges.

**Masking.** The machine is simple: `MaskInv` says that the plan is the compiled,
expanded configuration and that each record in `written` is what this plan makes of
a document already read, without an error. The rest is what the functions compute,
for paths, rules, entries and edges of any number. An induction theorem with an
operator as its parameter is of no use to the provers, so induction is on sets:
`SetInduction` says that a set with 0 and every successor holds all naturals, and
each loop has a lemma that gives the equations of its recursive function
(`AlongSteps`, `SetPathSteps`, `ApplyRulesSteps`, `InheritRuleSteps` and so on).
From these follow, in this order:

- what is written at a path is read back (`SetThenGet`), and a path that does not
  overlap it reads as before (`SetElsewhere`);
- a field that only one rule reaches ends up with the result of that rule
  (`RuleWrites`), one that none reaches as it was (`RulesElsewhere`), because each
  rule reads the original document;
- inheritance collects copies of marked rules and nothing else, and one for every
  field that a reference makes inherit (`ExpandInheritedServes`); pushing keeps all
  that was configured, and every copy finds a place (`PushRulesJoin`). `CompiledPlan`
  combines them: what the plan holds for a collection, in terms of its configured
  entries and of what it inherits.

`UngovernedUntouched` and `DerivedNeverLeak` follow from these. For
`ReferencesSurvive`, every rule the holder can inherit for the field is a copy of the
one marked rule, and a copy makes the same of the same value (`CopyAgrees`). For
`NumbersStayInRange`, casts give integers within i64 (`IntCast`), a digest scaled to a
range stays in it (`RangedBounds`), and what follows is clamped. `ReadingsAgree` is
`TermReadings`, one case for each operator over `EqualReadings`, `OrderedReadings` and
`BareReadings`, lifted to the expression; on a path that crosses no array the server
reaches one value, the one that `get_path` reads (`ReachedIsOne`).

**CustomCommand.** A process that answers line by line keeps, with the pipes, a
single line in motion: what the holder of the lock has read, what is in `stdout`,
owed, in `stdin` and unsent are five consecutive pieces of the line of the value
asked for and of its answer (`Flow`), and between two holders the way is empty
(`FlowOfHolder`). If the process dies, what the holder has read is a prefix of its
own answer (`PrefixAfterDeath`), which parses only for a number or when just the
newline is missing.

**CommandLine.** `Placed` says which step belongs to which command, `Parsed` that a
command past its checks has read its file without errors. `Marked`: whatever of a
bench is in its database has the marker beside it, and a marker that a bench put
there stands over nothing of a user; `Guarded`: what the guard has listed is what it
judges. Together they give that a bench drops nothing of others and recognizes its
own leftovers. `Compared` and `RestoredSoFar` are the loop invariants of `validate
--schema` and of a restore: the drift found so far is empty exactly if the
collections passed read as recorded, and the collections passed hold what was
recorded; `Unchanged` keeps this after the restore until somebody writes. The
lemmas they need are that a report is empty exactly for equal structures (`NoDrift`),
that an index written and read again is the recorded one (`WholeReadsAsRecorded`),
that the keys which pass the check are keys that a reader takes (`ParsedIsRead`), and
which checks a command makes (`ChecksAreMade`).

Only model-checked:

- Liveness (`Termination`, `WriterReturns`, `RunEnds`, `EveryCallReturns`): the
  proof system has no rule for fairness.
- The runs that end in a counterexample.

## Where code and documents disagree

Two are runs that end in a counterexample:

- `prune_running`: a running dump has no metadata and counts as Unknown from the
  epoch, so `--before-date` takes its blobs without `--prune-unsafe`; the run then
  publishes metadata and becomes `latest`, incomplete.
- `lost_listing`: `read_structure` drops any error of `listIndexes`
  (`src/mongo.rs:522`), so a connection lost for a moment makes `validate --schema`
  report every recorded index as removed; the comment at
  `src/validate/schema_diff.rs:138` says that such an error propagates and never
  looks as if everything was dropped. A dump loses its indexes the same way and is
  Done.

These have a definition in their module, which can be given to TLC as an
invariant or a property, and TLC refutes it:

- `DumpRun!NoClaimAfterFailure`: with `--jobs 1`, the default, the dump goes on to
  further collections after one has failed; `.spectial/features/dump.create.yaml`
  says that on the first failure no new collection is claimed.
- `DumpRun!NothingLeftBehind`: when `put_file` fails in `finish`, `inner` has been
  taken, `Drop` does nothing, and the spool file stays; the same document says none
  is left behind.
- `RestoreRun!NothingStartsAfterFatal`: with `--jobs 1 --exit-on-error`, further
  collections are restored (and, with `--clean`, dropped first) after a fatal
  failure; `docs/commands.md` says it aborts everything immediately.
- `DumpStore!RecentAreProtected`: one failing read of a completed dump's metadata
  makes it Unknown, and the dumps `--retain-recent` protects do not include it.
- `CommandLine!IndexRoundTrips`: an index direction that is no integer (hashed, text,
  a double) is read as 1 and restored as ascending; a hashed index beside a plain
  one on the same field then makes `create_index` fail.
  `.spectial/features/mongo.access-layer.yaml` says an index round-trips with its
  direction.
- `CommandLine!MissingIsDrift`: a collection that is gone is compared as an empty
  structure, so after `dump --no-indexes`, which records an empty one, its loss makes
  no drift; `.spectial/features/validate.schema-diff.yaml:19` and the comment at
  `src/validate/schema_diff.rs:136` call it drift.
- `CommandLine!NoKeyIgnored`: a key under `dump` or `restore` that is no text (a
  number, null, a date) is passed over (`src/config.rs:262`), and a command that does
  not decode that section ignores it; `.spectial/features/config.loading.yaml:11` says
  that no key is silently ignored. Commands that decode the section fail, as serde
  takes field names from text only.
- `SubsetClosure!ReferencesFollowCases`: a case of a polymorphic reference matches a
  document only if the discriminator is a top-level field of the type that YAML gave
  the configured value, an Int64 for an integer;
  `.spectial/features/subset.virtual-references.yaml:9` says it resolves to the case
  that matches the discriminator's value. The documents that such a reference means
  are left out, without an error.
- `SubsetClosure!EachByItsOwnCondition`: with references and conditions, `dump`
  follows the references; `docs/configuration/subsetting.md:12-21` and `57-61` say
  that it does not yet.
- `SubsetClosure!RequiredReferencesResolve`: nothing reads `not_null`, so a required
  reference that leads nowhere is dumped; `docs/configuration/subsetting.md:35` says
  it must resolve.
- `Masking!MalformedStops`: a malformed `when` is read as the name of a field, which
  no document has, so its rule never applies and the field is dumped as read;
  `.spectial/features/transform.apply-transformations.yaml` says it fails before
  the dump touches data.

Others met while modelling. On storage: a removal of a spool file or an abort of an
upload that fails is passed over everywhere, and Azure's abort makes no call; `delete` over SSH passes over files it
cannot unlink and reports success; the data blob of a collection `users.meta` and
the structure blob of `users` share a path; two dumps started in one second share
an id; a `write` to a streamed upload whose uploader has failed returns the
generic channel error, and the cause is lost with the aborted writer;
`remove_dir_all` may take metadata first, after which `delete --id` no longer
finds the rest; a half-deleted dump with metadata still counts for
`--retain-recent`. On references: a field that holds an array finds nothing, and
a null one finds every document without the referenced field, where that is not
`_id`. On masking: the hash of an integer depends on its width, so an Int32 holder
and an Int64 target part; a configured parameter that the transformer does not
declare is not looked at; a `query` compares types strictly, and integers written
in YAML are 64 bits wide; of two entries for a collection the later replaces the
earlier while inherited rules join the earlier; plans are keyed by collection
name without its database; `validate --data` compiles without references, so its
preview omits inherited rules; a lone quote as a literal panics. On structure:
what an index has beyond keys, name and uniqueness (sparse, an expiry, a partial
filter) is neither restored nor seen as drift; a view with documents under it
fails its restore; after `dump --no-indexes`, `validate --schema` reports `_id_` as
added. On a custom transformer: a process that dies in the middle of a number leaves
a shorter number, which parses; one that keeps its answer blocks the dump. On the bench:
a database of that name with system collections only looks empty to the guard, and the
guard believes a marker that came with a restored dump. On configuration: an undefined
variable in `common.salt` falls back to the public default salt with a warning only.

## Not modelled

- The text that transformers generate (names, addresses, templates, masked
  characters) and the digest itself: a constant operator.
- YAML and expression syntax: files are functions from paths, expressions are cut
  into terms. Quotes, escapes and precedence are unit-tested in the repository.
- Preview rows, warnings, tables, `list` and `show`: rendering.
- The gzip framing and extended-JSON text of blobs: a blob is whole or not, and
  `RestoreCollection` cuts it on document boundaries (the only cut the reader
  cannot see).
- The clash of blob paths and of dump ids in one second: names are abstracted to
  what they name.
- The 64-bit part size schedule against the services' limits: parts are counted in
  units.
- Two benches at once: each would take the other's marker for a leftover's and drop
  the other's database.
- Credentials, TLS and session handling of the backends: a call fails or not.
- The process that runs restore scripts: a stage succeeds or fails.

## Plan

Done, in this order: `DumpRun` with `AtomicDump` and its proofs, `MultipartUpload`
with `AtomicBlob`, `RestoreCollection` and `RestoreRun`, `DumpStore`,
`SubsetClosure`, `Masking` over the transformation modules, `CustomCommand`,
`CommandLine` with `Schema` and `Configuration`; then the proofs about
`RestoreRun`, `CustomCommand`, `MultipartUpload`, `RestoreCollection`, `DumpStore`,
`SubsetClosure`, `CommandLine` and `Masking`. Left are parts of the system that the
model sees from outside, as listed above.
