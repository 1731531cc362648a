----------------------------- MODULE RestoreRun -----------------------------
(***************************************************************************)
(* One `leafmask restore` run: Restore::run, its sequential or pooled      *)
(* items, the tally, the dependency-order pass, the script stages and the  *)
(* exit status of cmd_restore.  A collection is a number in the order of   *)
(* the dump's metadata.                                                    *)
(*                                                                         *)
(* What restore_item does to one collection, document by document, is      *)
(* RestoreCollection; here its documents are untouched, partial or loaded. *)
(***************************************************************************)
EXTENDS Integers, Sequences

CONSTANTS
  NumItems,  \* collections of the dump the filters include
  MaxJobs    \* largest --jobs considered (bound)

ASSUME ItemsAssumption == NumItems \in Nat
ASSUME JobsAssumption  == MaxJobs \in Nat \ {0}

Items   == 1..NumItems
Workers == 1..MaxJobs

Options == [jobs : 1..MaxJobs, exitOnError : BOOLEAN, dependencyOrder : BOOLEAN]
Results == {"none", "ok", "failed", "fatal"}

VARIABLES
  opts,      \* RestoreOptions, fixed for the run
  mainPc,    \* the caller's thread
  cursor,    \* `next`
  stopped,   \* workers that have stored `stop = true`
  wpc,       \* worker program counters
  item,      \* the item a worker is on
  out,       \* the RestoreItemResult it is building
  result,    \* `results`; "none" is a slot nobody filled
  docs,      \* the target's documents, per collection
  indexed,   \* the target's secondary indexes, per collection
  tallied,   \* results consumed by the tally
  failed,    \* report.failed
  passed     \* collections the dependency-order pass is through with

workerVars == <<cursor, stopped, wpc, item, out, result>>
targetVars == <<docs, indexed>>
mainVars   == <<opts, mainPc, tallied, failed, passed>>
vars       == <<mainVars, workerVars, targetVars>>

TypeOK ==
  /\ opts \in Options
  /\ mainPc \in {"start", "workers", "tally", "indexes", "post", "ok", "error"}
  /\ cursor \in 1..(NumItems + 1)
  /\ stopped \in SUBSET Workers
  /\ wpc \in [Workers -> {"check", "claim", "setup", "load", "index", "report", "exited"}]
  /\ item \in [Workers -> Items \cup {0}]
  /\ out \in [Workers -> Results]
  /\ result \in [Items -> Results]
  /\ docs \in [Items -> {"untouched", "partial", "loaded"}]
  /\ indexed \in [Items -> {"none", "some", "all"}]
  /\ tallied \in 0..NumItems
  /\ failed \in Seq(Items)
  /\ passed \in 0..NumItems

\* `jobs <= 1 || items.len() <= 1` maps over the items on the caller's thread:
\* one worker that has no stop flag.
Sequential == opts.jobs <= 1 \/ NumItems <= 1
Pool       == 1..(IF Sequential THEN 1 ELSE IF opts.jobs < NumItems THEN opts.jobs ELSE NumItems)
LoopHead   == IF Sequential THEN "claim" ELSE "check"

Init ==
  /\ opts \in Options
  /\ mainPc = "start"
  /\ cursor = 1
  /\ stopped = {}
  /\ wpc = [w \in Workers |-> "exited"]
  /\ item = [w \in Workers |-> 0]
  /\ out = [w \in Workers |-> "none"]
  /\ result = [i \in Items |-> "none"]
  /\ docs = [i \in Items |-> "untouched"]
  /\ indexed = [i \in Items |-> "none"]
  /\ tallied = 0
  /\ failed = <<>>
  /\ passed = 0

-----------------------------------------------------------------------------
(* The worker loop *)

Goto(w, from, to) ==
  /\ mainPc = "workers"
  /\ wpc[w] = from
  /\ wpc' = [wpc EXCEPT ![w] = to]

LoadStopTrue(w) ==
  /\ stopped # {}
  /\ Goto(w, "check", "exited")
  /\ UNCHANGED <<mainVars, cursor, stopped, item, out, result, targetVars>>

\* A Relaxed load may miss another worker's store, never the worker's own.
LoadStopFalse(w) ==
  /\ w \notin stopped
  /\ Goto(w, "check", "claim")
  /\ UNCHANGED <<mainVars, cursor, stopped, item, out, result, targetVars>>

Claim(w) ==
  /\ cursor <= NumItems
  /\ Goto(w, "claim", "setup")
  /\ item' = [item EXCEPT ![w] = cursor]
  /\ cursor' = cursor + 1
  /\ UNCHANGED <<mainVars, stopped, out, result, targetVars>>

\* `next` keeps counting past the end; capped, as only `i >= len` is asked.
NothingLeft(w) ==
  /\ cursor > NumItems
  /\ Goto(w, "claim", "exited")
  /\ UNCHANGED <<mainVars, cursor, stopped, item, out, result, targetVars>>

-----------------------------------------------------------------------------
(* restore_item *)

\* One step of the item a worker is on, with what has become of the item.
Step(w, from, to, outcome) ==
  /\ Goto(w, from, to)
  /\ out' = [out EXCEPT ![w] = outcome]
  /\ UNCHANGED <<mainVars, cursor, stopped, item, result>>

\* The structure blob is read, the target dropped (--clean) and ensured.
SetupOk(w) ==
  /\ Step(w, "setup", "load", "none")
  /\ docs' = [docs EXCEPT ![item[w]] = "partial"]
  /\ UNCHANGED indexed

SetupFails(w) ==
  /\ Step(w, "setup", "report", "fatal")
  /\ \/ UNCHANGED docs
     \/ docs' = [docs EXCEPT ![item[w]] = "partial"]
  /\ UNCHANGED indexed

\* Seeded fault: indexes right after the documents, dependency order or not.
LoadOkIndexing(w) ==
  /\ Step(w, "load", "index", "none")
  /\ docs' = [docs EXCEPT ![item[w]] = "loaded"]
  /\ UNCHANGED indexed

LoadOk(w) ==
  /\ IF opts.dependencyOrder
     THEN Step(w, "load", "report", "ok")
     ELSE Step(w, "load", "index", "none")
  /\ docs' = [docs EXCEPT ![item[w]] = "loaded"]
  /\ UNCHANGED indexed

\* An insert error or a short blob: fatal only with --exit-on-error.
LoadFails(w) ==
  /\ Step(w, "load", "report", IF opts.exitOnError THEN "fatal" ELSE "failed")
  /\ UNCHANGED targetVars

IndexOk(w) ==
  /\ Step(w, "index", "report", "ok")
  /\ indexed' = [indexed EXCEPT ![item[w]] = "all"]
  /\ UNCHANGED docs

\* The error may be the answer's only, to the last index too.
IndexFails(w) ==
  /\ Step(w, "index", "report", "fatal")
  /\ \E some \in {"none", "some", "all"} : indexed' = [indexed EXCEPT ![item[w]] = some]
  /\ UNCHANGED docs

-----------------------------------------------------------------------------
(* Reporting a result *)

Slotted(w, stops) ==
  /\ Goto(w, "report", LoopHead)
  /\ result' = [result EXCEPT ![item[w]] = out[w]]
  /\ stopped' = IF stops THEN stopped \cup {w} ELSE stopped
  /\ UNCHANGED <<mainVars, cursor, item, out, targetVars>>

\* The flag is stored before the slot is filled, but no other thread reads the
\* slot before the join, and this one reads neither in between.
Report(w) == Slotted(w, ~Sequential /\ out[w] = "fatal" /\ opts.exitOnError)

-----------------------------------------------------------------------------
(* The caller's thread *)

\* resolve and the pre-data scripts, then the items.
Spawn ==
  /\ mainPc = "start"
  /\ mainPc' = "workers"
  /\ wpc' = [w \in Workers |-> IF w \in Pool THEN LoopHead ELSE "exited"]
  /\ UNCHANGED <<opts, tallied, failed, passed, cursor, stopped, item, out, result, targetVars>>

StartFails ==
  /\ mainPc = "start"
  /\ mainPc' = "error"
  /\ UNCHANGED <<opts, tallied, failed, passed, workerVars, targetVars>>

\* Seeded fault: the first worker to exit ends the scope.
JoinAny ==
  /\ mainPc = "workers"
  /\ \E w \in Pool : wpc[w] = "exited"
  /\ mainPc' = "tally"
  /\ UNCHANGED <<opts, tallied, failed, passed, workerVars, targetVars>>

Join ==
  /\ mainPc = "workers"
  /\ \A w \in Workers : wpc[w] = "exited"
  /\ mainPc' = "tally"
  /\ UNCHANGED <<opts, tallied, failed, passed, workerVars, targetVars>>

\* A slot nobody filled counts as an empty result (unwrap_or_default).
TallyResult ==
  /\ mainPc = "tally"
  /\ tallied < NumItems
  /\ result[tallied + 1] # "fatal"
  /\ tallied' = tallied + 1
  /\ failed' = IF result[tallied + 1] = "failed" THEN Append(failed, tallied + 1) ELSE failed
  /\ UNCHANGED <<opts, mainPc, passed, workerVars, targetVars>>

TallyFatal ==
  /\ mainPc = "tally"
  /\ tallied < NumItems
  /\ result[tallied + 1] = "fatal"
  /\ mainPc' = "error"
  /\ UNCHANGED <<opts, tallied, failed, passed, workerVars, targetVars>>

TallyEnds ==
  /\ mainPc = "tally"
  /\ tallied = NumItems
  /\ mainPc' = IF opts.dependencyOrder THEN "indexes" ELSE "post"
  /\ UNCHANGED <<opts, tallied, failed, passed, workerVars, targetVars>>

\* The dependency-order pass: every included collection, failed ones too.
PassIndexes ==
  /\ mainPc = "indexes"
  /\ passed < NumItems
  /\ passed' = passed + 1
  /\ indexed' = [indexed EXCEPT ![passed + 1] = "all"]
  /\ UNCHANGED <<opts, mainPc, tallied, failed, workerVars, docs>>

PassFails ==
  /\ mainPc = "indexes"
  /\ passed < NumItems
  /\ mainPc' = "error"
  /\ \E some \in {"none", "some", "all"} : indexed' = [indexed EXCEPT ![passed + 1] = some]
  /\ UNCHANGED <<opts, tallied, failed, passed, workerVars, docs>>

PassEnds ==
  /\ mainPc = "indexes"
  /\ passed = NumItems
  /\ mainPc' = "post"
  /\ UNCHANGED <<opts, tallied, failed, passed, workerVars, targetVars>>

\* Seeded fault: the exit status forgets the failed collections.
PostOkRegardless ==
  /\ mainPc = "post"
  /\ mainPc' = "ok"
  /\ UNCHANGED <<opts, tallied, failed, passed, workerVars, targetVars>>

\* After the post-data scripts cmd_restore still fails if a collection did.
PostOk ==
  /\ mainPc = "post"
  /\ mainPc' = IF failed = <<>> THEN "ok" ELSE "error"
  /\ UNCHANGED <<opts, tallied, failed, passed, workerVars, targetVars>>

PostFails ==
  /\ mainPc = "post"
  /\ mainPc' = "error"
  /\ UNCHANGED <<opts, tallied, failed, passed, workerVars, targetVars>>

-----------------------------------------------------------------------------

LoopStep(w) == LoadStopTrue(w) \/ LoadStopFalse(w) \/ Claim(w) \/ NothingLeft(w)

ItemStep(w) ==
  \/ SetupOk(w) \/ SetupFails(w) \/ LoadOk(w) \/ LoadFails(w)
  \/ IndexOk(w) \/ IndexFails(w)

WorkerStep(w) == LoopStep(w) \/ ItemStep(w) \/ Report(w)

MainStep ==
  \/ Spawn \/ StartFails \/ Join
  \/ TallyResult \/ TallyFatal \/ TallyEnds
  \/ PassIndexes \/ PassFails \/ PassEnds
  \/ PostOk \/ PostFails

Terminating == mainPc \in {"ok", "error"} /\ UNCHANGED vars

Next == MainStep \/ (\E w \in Workers : WorkerStep(w)) \/ Terminating

\* The scheduler runs every thread, and every call returns or fails.
Fairness == WF_vars(MainStep) /\ \A w \in Workers : WF_vars(WorkerStep(w))

Spec     == Init /\ [][Next]_vars
FairSpec == Spec /\ Fairness

-----------------------------------------------------------------------------
(* Properties *)

\* Exit status zero means the whole dump is in the target: every collection's
\* documents and indexes, whatever the jobs, the order and the error options.
SuccessIsComplete ==
  mainPc = "ok" => \A i \in Items : docs[i] = "loaded" /\ indexed[i] = "all"

\* Once the results are tallied without a fatal one, the report's failed names
\* are exactly the collections that are not loaded: no slot left unclaimed, no
\* result written late, is taken for an empty success.
ReportIsTrue ==
  mainPc \in {"indexes", "post"} =>
    \A i \in Items : (\E k \in DOMAIN failed : failed[k] = i) <=> docs[i] # "loaded"

\* --dependency-order: no index exists while a document may still come, in any
\* collection.
IndexesAfterDocuments ==
  opts.dependencyOrder /\ (\E i \in Items : indexed[i] # "none") =>
    \A w \in Workers : wpc[w] = "exited"

\* Without --exit-on-error every collection is tried, whatever fails before it
\* (restore_items_parallel: "without it every item runs regardless").
EveryCollectionTried ==
  mainPc \in {"tally", "indexes", "post", "ok"} /\ ~opts.exitOnError =>
    \A i \in Items : result[i] # "none"

\* With --exit-on-error a pool worker whose item was fatal claims no other: its
\* own store of `stop` is never missed by its own load.
FailedWorkerClaimsNoMore ==
  [][\A w \in Workers :
       opts.exitOnError /\ ~Sequential /\ out[w] = "fatal" => item'[w] = item[w]]_vars

\* Every restore ends.
Termination == <>(mainPc \in {"ok", "error"})

\* What docs/commands.md says: with --exit-on-error a failing collection
\* "aborts everything immediately".  (The pool may start an item already being
\* claimed; a sequential run has no such excuse.)
NothingStartsAfterFatal ==
  [][\A w \in Workers :
       opts.exitOnError /\ Sequential /\ (\E i \in Items : result[i] = "fatal") =>
         item'[w] = item[w]]_vars
=============================================================================
