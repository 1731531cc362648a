------------------------------ MODULE DumpRun ------------------------------
(***************************************************************************)
(* One `leafmask dump` run: Dump::run, its worker pool, and the steps of   *)
(* dump_item, each one a call that can fail.  A collection is a number in  *)
(* source order, so TOC order and claim order are the order of numbers.    *)
(*                                                                         *)
(* Documents are abstracted away: a blob is absent, partial (a put that is *)
(* not atomic has begun) or whole.                                         *)
(***************************************************************************)
EXTENDS Integers, Sequences

CONSTANTS
  NumItems,   \* collections selected by --include/--exclude
  Jobs,       \* parallel_jobs
  Multipart,  \* S3, Azure (TRUE): streamed uploads, atomic puts.
              \* directory, SSH (FALSE): spool files, puts that can tear.
  NoIndexes   \* --no-indexes

ASSUME NumItemsAssumption  == NumItems \in Nat
ASSUME JobsAssumption      == Jobs \in Nat
ASSUME MultipartAssumption == Multipart \in BOOLEAN
ASSUME NoIndexesAssumption == NoIndexes \in BOOLEAN

Items == 1..NumItems

\* `jobs <= 1 || items.len() <= 1` maps over the items on the caller's thread,
\* modelled as one worker that does not look at the stop flag.
Sequential == Jobs <= 1 \/ NumItems <= 1
NumWorkers == IF Sequential THEN 1 ELSE IF Jobs < NumItems THEN Jobs ELSE NumItems
Workers    == 1..NumWorkers

FailPoints == {"create", "stream", "part", "finish", "structure", "meta"}
Results    == {"none", "ok"} \cup FailPoints
Blobs      == {"absent", "partial", "whole"}

\* "orphaned": its removal, or its abort, was tried and did not work.
Resources  == {"none", "open", "released", "orphaned"}

VARIABLES
  mainPc,     \* the caller's thread
  cursor,     \* `next`: the first item nobody has claimed
  stopped,    \* workers that have stored `stop = true`
  wpc,        \* worker program counters
  item,       \* the item a worker is on
  out,        \* the result of the item a worker is on
  result,     \* `results`: one slot per item
  data,       \* data blobs in storage
  meta,       \* collection structure blobs in storage
  resource,   \* an item's spool file or in-flight upload
  collected,  \* results already consumed by the caller
  toc,        \* table of contents being built
  metadata    \* metadata.json in storage

workerVars  == <<cursor, stopped, wpc, item, out, result>>
storageVars == <<data, meta, resource>>
mainVars    == <<mainPc, collected, toc, metadata>>
vars        == <<mainVars, workerVars, storageVars>>

Busy == {"create", "stream", "finish", "putData", "structure", "meta",
         "putMeta", "store", "report"}

TypeOK ==
  /\ mainPc \in {"start", "workers", "collect", "metadata", "putMetadata",
                 "done", "failed", "crashed"}
  /\ cursor \in 1..(NumItems + 1)
  /\ stopped \in SUBSET Workers
  /\ wpc \in [Workers -> {"check", "claim", "exited"} \cup Busy]
  /\ item \in [Workers -> Items \cup {0}]
  /\ out \in [Workers -> Results]
  /\ result \in [Items -> Results]
  /\ data \in [Items -> Blobs]
  /\ meta \in [Items -> Blobs]
  /\ resource \in [Items -> Resources]
  /\ collected \in 0..NumItems
  /\ toc \in Seq(Items)
  /\ metadata \in Blobs

\* The head of the worker loop: only the pool looks at the stop flag.
LoopHead == IF Sequential THEN "claim" ELSE "check"

\* What readers see of a blob while a put of it is in flight.
DuringPut == IF Multipart THEN "absent" ELSE "partial"

\* What a put that reported an error may have left behind.
AfterFailedPut == IF Multipart THEN {"absent", "whole"} ELSE Blobs

\* Cleaning up is best effort: the outcomes of `let _ = remove_file(..)`, of
\* the S3 abort (`let _ =` too), and of Azure's abort, which makes no call.
AfterCleanup == {"released", "orphaned"}

Init ==
  /\ mainPc = "start"
  /\ cursor = 1
  /\ stopped = {}
  /\ wpc = [w \in Workers |-> LoopHead]
  /\ item = [w \in Workers |-> 0]
  /\ out = [w \in Workers |-> "none"]
  /\ result = [i \in Items |-> "none"]
  /\ data = [i \in Items |-> "absent"]
  /\ meta = [i \in Items |-> "absent"]
  /\ resource = [i \in Items |-> "none"]
  /\ collected = 0
  /\ toc = <<>>
  /\ metadata = "absent"

-----------------------------------------------------------------------------
(* The worker loop *)

Goto(w, from, to) ==
  /\ mainPc = "workers"
  /\ wpc[w] = from
  /\ wpc' = [wpc EXCEPT ![w] = to]

\* dump_item returns Err at this point: in the pool the flag is stored before
\* the result is; a sequential run has no flag.
Fails(w, from, point) ==
  /\ Goto(w, from, IF Sequential THEN "report" ELSE "store")
  /\ out' = [out EXCEPT ![w] = point]

\* `stop.load(Relaxed)` read true: some worker has stored it.
LoadStopTrue(w) ==
  /\ stopped # {}
  /\ Goto(w, "check", "exited")
  /\ UNCHANGED <<mainVars, cursor, stopped, item, out, result, storageVars>>

\* It read false.  A Relaxed load may miss another worker's store, but never
\* the loading worker's own.
LoadStopFalse(w) ==
  /\ w \notin stopped
  /\ Goto(w, "check", "claim")
  /\ UNCHANGED <<mainVars, cursor, stopped, item, out, result, storageVars>>

\* Seeded faults: the bound is checked one too late, the increment can be lost,
\* items are handed out from the back.
ClaimPastEnd(w) ==
  /\ cursor <= NumItems + 1
  /\ Goto(w, "claim", "create")
  /\ item' = [item EXCEPT ![w] = cursor]
  /\ cursor' = cursor + 1
  /\ UNCHANGED <<mainVars, stopped, out, result, storageVars>>

ClaimTorn(w) ==
  /\ cursor <= NumItems
  /\ Goto(w, "claim", "create")
  /\ item' = [item EXCEPT ![w] = cursor]
  /\ cursor' \in {cursor, cursor + 1}
  /\ UNCHANGED <<mainVars, stopped, out, result, storageVars>>

ClaimFromBack(w) ==
  /\ cursor <= NumItems
  /\ Goto(w, "claim", "create")
  /\ item' = [item EXCEPT ![w] = NumItems + 1 - cursor]
  /\ cursor' = cursor + 1
  /\ UNCHANGED <<mainVars, stopped, out, result, storageVars>>

\* `next.fetch_add(1)`, or the sequential iterator's next().
Claim(w) ==
  /\ cursor <= NumItems
  /\ Goto(w, "claim", "create")
  /\ item' = [item EXCEPT ![w] = cursor]
  /\ cursor' = cursor + 1
  /\ UNCHANGED <<mainVars, stopped, out, result, storageVars>>

\* Seeded fault: a worker polls for work that cannot come.
NothingLeftPolls(w) ==
  /\ cursor > NumItems
  /\ Goto(w, "claim", LoopHead)
  /\ UNCHANGED <<mainVars, cursor, stopped, item, out, result, storageVars>>

NothingLeft(w) ==
  /\ cursor > NumItems
  /\ Goto(w, "claim", "exited")
  /\ UNCHANGED <<mainVars, cursor, stopped, item, out, result, storageVars>>

StoreStop(w) ==
  /\ Goto(w, "store", "report")
  /\ stopped' = stopped \cup {w}
  /\ UNCHANGED <<mainVars, cursor, item, out, result, storageVars>>

\* `*results[i].lock() = Some(result)`
Report(w) ==
  /\ Goto(w, "report", LoopHead)
  /\ result' = [result EXCEPT ![item[w]] = out[w]]
  /\ UNCHANGED <<mainVars, cursor, stopped, item, out, storageVars>>

-----------------------------------------------------------------------------
(* dump_item: dump_collection, read_structure, write_collection_meta *)

\* CollectionDataWriter::create opens the spool file or the upload.
CreateOk(w) ==
  /\ Goto(w, "create", "stream")
  /\ resource' = [resource EXCEPT ![item[w]] = "open"]
  /\ UNCHANGED <<mainVars, cursor, stopped, item, out, result,
                 data, meta>>

\* The call that opens an upload may have been carried out with its answer
\* lost; nobody then knows the upload's id.
CreateFails(w) ==
  /\ Fails(w, "create", "create")
  /\ \E left \in IF Multipart THEN {"none", "open"} ELSE {"none"} :
       resource' = [resource EXCEPT ![item[w]] = left]
  /\ UNCHANGED <<mainVars, cursor, stopped, item, result, data, meta>>

\* stream_documents: every document filtered, transformed and written.
StreamOk(w) ==
  /\ Goto(w, "stream", "finish")
  /\ UNCHANGED <<mainVars, cursor, stopped, item, out, result, storageVars>>

\* Seeded fault: the writer has no Drop.
StreamFailsNoDrop(w) ==
  /\ Fails(w, "stream", "stream")
  /\ UNCHANGED <<mainVars, cursor, stopped, item, result, storageVars>>

\* A read, transform or write error drops the writer unfinished: its Drop
\* tries to remove the spool file, or to abort the upload.
StreamFails(w) ==
  /\ Fails(w, "stream", "stream")
  /\ \E left \in AfterCleanup : resource' = [resource EXCEPT ![item[w]] = left]
  /\ UNCHANGED <<mainVars, cursor, stopped, item, result,
                 data, meta>>

\* finish: take `inner`, close the gzip stream, flush, and start the put (or
\* send the last part and wait for the uploader).
BeginFinish(w) ==
  /\ Goto(w, "finish", "putData")
  /\ data' = [data EXCEPT ![item[w]] = DuringPut]
  /\ UNCHANGED <<mainVars, cursor, stopped, item, out, result,
                 meta, resource>>

\* A completed upload is closed; a spool file is removed after its put, and a
\* failing removal is passed over.
FinishOk(w) ==
  /\ Goto(w, "putData", "structure")
  /\ data' = [data EXCEPT ![item[w]] = "whole"]
  /\ \E left \in IF Multipart THEN {"released"} ELSE AfterCleanup :
       resource' = [resource EXCEPT ![item[w]] = left]
  /\ UNCHANGED <<mainVars, cursor, stopped, item, out, result, meta>>

\* put_file, or the upload's complete call, reports an error.  `inner` is
\* gone, so Drop has nothing to clean up: the spool file, or the upload, stays.
\* An upload completed with its answer lost is closed all the same.
FinishFails(w) ==
  /\ Fails(w, "putData", "finish")
  /\ \E left \in AfterFailedPut :
       /\ data' = [data EXCEPT ![item[w]] = left]
       /\ resource' = IF Multipart /\ left = "whole"
                        THEN [resource EXCEPT ![item[w]] = "released"]
                        ELSE resource
  /\ UNCHANGED <<mainVars, cursor, stopped, item, result, meta>>

\* A part of a streamed upload failed: the uploader has tried to abort it.
PartFails(w) ==
  /\ Multipart
  /\ Fails(w, "putData", "part")
  /\ \E left \in AfterCleanup : resource' = [resource EXCEPT ![item[w]] = left]
  /\ UNCHANGED <<mainVars, cursor, stopped, item, result,
                 data, meta>>

\* `no_indexes` skips the read.  Otherwise indexes, validator and options are
\* read; an error of listIndexes itself counts as "no indexes".
StructureOk(w) ==
  /\ Goto(w, "structure", "meta")
  /\ UNCHANGED <<mainVars, cursor, stopped, item, out, result, storageVars>>

\* A failing index cursor, or a failing listCollections, is returned.
StructureFails(w) ==
  /\ ~NoIndexes
  /\ Fails(w, "structure", "structure")
  /\ UNCHANGED <<mainVars, cursor, stopped, item, result, storageVars>>

BeginMeta(w) ==
  /\ Goto(w, "meta", "putMeta")
  /\ meta' = [meta EXCEPT ![item[w]] = DuringPut]
  /\ UNCHANGED <<mainVars, cursor, stopped, item, out, result,
                 data, resource>>

MetaOk(w) ==
  /\ Goto(w, "putMeta", "report")
  /\ meta' = [meta EXCEPT ![item[w]] = "whole"]
  /\ out' = [out EXCEPT ![w] = "ok"]
  /\ UNCHANGED <<mainVars, cursor, stopped, item, result,
                 data, resource>>

MetaFails(w) ==
  /\ Fails(w, "putMeta", "meta")
  /\ \E left \in AfterFailedPut : meta' = [meta EXCEPT ![item[w]] = left]
  /\ UNCHANGED <<mainVars, cursor, stopped, item, result,
                 data, resource>>

DumpItem(w) ==
  \/ CreateOk(w) \/ CreateFails(w)
  \/ StreamOk(w) \/ StreamFails(w)
  \/ BeginFinish(w) \/ FinishOk(w) \/ FinishFails(w) \/ PartFails(w)
  \/ StructureOk(w) \/ StructureFails(w)
  \/ BeginMeta(w) \/ MetaOk(w) \/ MetaFails(w)

Worker(w) ==
  \/ LoadStopTrue(w) \/ LoadStopFalse(w)
  \/ Claim(w) \/ NothingLeft(w)
  \/ DumpItem(w)
  \/ StoreStop(w) \/ Report(w)

-----------------------------------------------------------------------------
(* The caller's thread *)

\* databases() and collections() answered: the items are known.
Spawn ==
  /\ mainPc = "start"
  /\ mainPc' = "workers"
  /\ UNCHANGED <<collected, toc, metadata, workerVars, storageVars>>

\* No tmp_dir, or the source cannot be enumerated.
StartFails ==
  /\ mainPc = "start"
  /\ mainPc' = "failed"
  /\ UNCHANGED <<collected, toc, metadata, workerVars, storageVars>>

\* Seeded fault: the caller goes on when the first worker exits.
JoinAny ==
  /\ mainPc = "workers"
  /\ \E w \in Workers : wpc[w] = "exited"
  /\ mainPc' = "collect"
  /\ UNCHANGED <<collected, toc, metadata, workerVars, storageVars>>

\* The end of thread::scope.
Join ==
  /\ mainPc = "workers"
  /\ \A w \in Workers : wpc[w] = "exited"
  /\ mainPc' = "collect"
  /\ UNCHANGED <<collected, toc, metadata, workerVars, storageVars>>

\* Seeded fault: failed slots are passed over like unclaimed ones.
CollectPastErrors ==
  /\ mainPc = "collect"
  /\ collected < NumItems
  /\ collected' = collected + 1
  /\ toc' = IF result[collected + 1] = "ok" THEN Append(toc, collected + 1) ELSE toc
  /\ UNCHANGED <<mainPc, metadata, workerVars, storageVars>>

\* Some(Ok) is pushed onto the TOC, None (never claimed) is passed over.
CollectOk ==
  /\ mainPc = "collect"
  /\ collected < NumItems
  /\ result[collected + 1] \notin FailPoints
  /\ collected' = collected + 1
  /\ toc' = IF result[collected + 1] = "ok" THEN Append(toc, collected + 1) ELSE toc
  /\ UNCHANGED <<mainPc, metadata, workerVars, storageVars>>

\* Some(Err(e)) => return Err(e)
CollectFails ==
  /\ mainPc = "collect"
  /\ collected < NumItems
  /\ result[collected + 1] \in FailPoints
  /\ mainPc' = "failed"
  /\ UNCHANGED <<collected, toc, metadata, workerVars, storageVars>>

CollectEnds ==
  /\ mainPc = "collect"
  /\ collected = NumItems
  /\ mainPc' = "metadata"
  /\ UNCHANGED <<collected, toc, metadata, workerVars, storageVars>>

BeginMetadata ==
  /\ mainPc = "metadata"
  /\ mainPc' = "putMetadata"
  /\ metadata' = DuringPut
  /\ UNCHANGED <<collected, toc, workerVars, storageVars>>

MetadataOk ==
  /\ mainPc = "putMetadata"
  /\ mainPc' = "done"
  /\ metadata' = "whole"
  /\ UNCHANGED <<collected, toc, workerVars, storageVars>>

MetadataFails ==
  /\ mainPc = "putMetadata"
  /\ mainPc' = "failed"
  /\ metadata' \in AfterFailedPut
  /\ UNCHANGED <<collected, toc, workerVars, storageVars>>

Main ==
  \/ Spawn \/ StartFails \/ Join
  \/ CollectOk \/ CollectFails \/ CollectEnds
  \/ BeginMetadata \/ MetadataOk \/ MetadataFails

Ended == mainPc \in {"done", "failed", "crashed"}

\* The process is killed.  A put of metadata.json that was in flight may still
\* have been applied.
Crash ==
  /\ ~Ended
  /\ mainPc' = "crashed"
  /\ metadata' \in IF mainPc = "putMetadata" THEN {metadata, "whole"} ELSE {metadata}
  /\ UNCHANGED <<collected, toc, workerVars, storageVars>>

\* The process has ended; nothing of it runs any more.
Terminating == Ended /\ UNCHANGED vars

Next == Main \/ (\E w \in Workers : Worker(w)) \/ Crash \/ Terminating

\* Every call the threads make returns, and the scheduler runs every thread.
\* Crash is never required.
Fairness == WF_vars(Main) /\ \A w \in Workers : WF_vars(Worker(w))

Spec     == Init /\ [][Next]_vars
FairSpec == Spec /\ Fairness

-----------------------------------------------------------------------------
(* Properties *)

Whole(i) == data[i] = "whole" /\ meta[i] = "whole"

\* A dump that readers will take for Done lists every selected collection, in
\* source order whatever order the workers finished in, and holds both blobs
\* of each (Dump::run writes metadata.json last, and only without errors).
DoneIsComplete ==
  metadata = "whole" => /\ toc = [i \in Items |-> i]
                        /\ \A i \in Items : Whole(i)

\* `None => continue` in Dump::run never drops a collection from a dump that
\* succeeds: an unclaimed slot always lies behind a failed one, which is
\* returned first.
SkippedOnlyBehindAFailure ==
  mainPc = "collect" =>
    \A i \in Items : result[i] = "none" => \E j \in 1..(i - 1) : result[j] \in FailPoints

\* Once an item's result is in its slot nobody touches its blobs again: the
\* cursor hands every item to one worker, and the scope outlives them all.
OneWriterPerBlob ==
  [][\A i \in Items : result[i] # "none" =>
       /\ data'[i] = data[i]
       /\ meta'[i] = meta[i]
       /\ result'[i] = result[i]]_vars

\* The results of an item whose spool file or upload nobody tries to clean up
\* (finish had taken it and failed, or the opening call's answer was lost), and
\* of one where somebody tried and the failure was passed over.
NobodyTried == IF Multipart THEN {"create", "finish"} ELSE {"finish"}
TriedInVain == IF Multipart THEN {"stream", "part"}
                            ELSE {"stream", "structure", "meta", "ok"}

\* When the process ends by itself, a spool file or upload was cleaned up, or
\* its cleanup was tried in vain, or its item's own result says why nobody
\* could: whichever worker failed, the writer's Drop and the uploader miss
\* none, and no collection that was dumped leaves an upload behind.
CleanupIsTried ==
  mainPc \in {"done", "failed"} =>
    \A i \in Items : /\ resource[i] = "open" => result[i] \in NobodyTried
                     /\ resource[i] = "orphaned" => result[i] \in TriedInVain

\* A pool worker whose collection failed claims no further one, however stale
\* its view of the other workers' stores.
FailedWorkerClaimsNoMore ==
  [][\A w \in Workers :
       item[w] # 0 /\ item'[w] # item[w] /\ ~Sequential => result[item[w]] = "ok"]_vars

\* "Items already claimed run to completion": a claimed item gets its result,
\* whatever happens to the others, unless the process is killed.
ClaimedRunsToCompletion ==
  \A i \in Items : cursor > i ~> (result[i] # "none" \/ mainPc = "crashed")

\* The run ends: no worker waits for work, no join for a worker, for ever.
Termination == <>Ended

\* The run implements the promise of AtomicDump.
Restorable ==
  IF metadata = "whole" THEN {i \in Items : Whole(i) /\ \E k \in DOMAIN toc : toc[k] = i}
                        ELSE {}

Outcome == IF Ended THEN (IF mainPc = "done" THEN "succeeded" ELSE mainPc) ELSE "running"

Promise == INSTANCE AtomicDump WITH
  Collections <- Items, outcome <- Outcome, restorable <- Restorable

AllOrNothing == Promise!Spec

-----------------------------------------------------------------------------
(* What the repository's documents say and this code does not do *)

\* .spectial/features/dump.create.yaml: "On the first failure no new
\* collection is claimed".
NoClaimAfterFailure ==
  [][(\E i \in Items : result[i] \in FailPoints) => cursor' = cursor]_vars

\* .spectial/features/dump.create.yaml: "no spool file or in-flight upload is
\* left behind".
NothingLeftBehind ==
  mainPc \in {"done", "failed"} =>
    \A i \in Items : resource[i] \notin {"open", "orphaned"}
=============================================================================
