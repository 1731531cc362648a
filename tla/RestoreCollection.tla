------------------------- MODULE RestoreCollection -------------------------
(***************************************************************************)
(* Restoring one collection: the clean, ensure, stream-and-insert and      *)
(* completeness steps of restore_item, with insert_documents and           *)
(* insert_batch down to the single document, against a server that refuses *)
(* documents, loses connections and keeps what earlier runs left.          *)
(*                                                                         *)
(* A restore can be killed or fail at any step and be run again, with      *)
(* other options; the dump in storage stays as it is.                      *)
(***************************************************************************)
EXTENDS Integers, FiniteSets, FiniteSetsExt

CONSTANTS
  NumDocs,    \* documents the dump wrote, in blob order
  Invalid,    \* those the target's validator refuses
  BatchSize,  \* --batch-size
  MaxRuns     \* restores attempted (bound)

ASSUME DocsAssumption  == NumDocs \in Nat /\ Invalid \subseteq 1..NumDocs
ASSUME BatchAssumption == BatchSize \in Nat
ASSUME RunsAssumption  == MaxRuns \in Nat

Docs   == 1..NumDocs
Kinds  == {"duplicate", "invalid"}

\* `batch_size.max(1)`
Batch == IF BatchSize < 1 THEN 1 ELSE BatchSize

VARIABLES
  opts,      \* this run's options: ordered, clean, tolerated error kinds
  blobLen,   \* whole documents the stored blob still has
  recorded,  \* document_count of the collection's meta blob
  target,    \* per _id, what the target holds: nothing, its own, the dump's
  pc,        \* restore_item
  read,      \* InsertOutcome
  inserted,
  skipped,
  start,     \* first document of batch[start..]
  stop,      \* last document of the batch
  result,    \* how the run ended
  runs

dump  == <<blobLen, recorded>>
tally == <<read, inserted, skipped>>
vars  == <<opts, dump, target, pc, tally, start, stop, result, runs>>

TypeOK ==
  /\ opts \in [ordered : BOOLEAN, clean : BOOLEAN, tolerated : SUBSET Kinds]
  /\ blobLen \in 0..NumDocs
  /\ recorded \in {0, NumDocs}
  /\ target \in [Docs -> {"absent", "own", "dump"}]
  /\ pc \in {"idle", "meta", "clean", "ensure", "open", "read", "insert", "check"}
  /\ read \in 0..NumDocs
  /\ inserted \in 0..NumDocs
  /\ skipped \in 0..NumDocs
  /\ start \in 0..(NumDocs + 1)
  /\ stop \in 0..NumDocs
  /\ result \in {"none", "ok", "insertError", "fatal", "killed"}
  /\ runs \in 0..MaxRuns

\* The blob may have been cut on a document boundary, and a dump older than
\* `document_count` records zero.
Init ==
  /\ opts \in [ordered : BOOLEAN, clean : BOOLEAN, tolerated : SUBSET Kinds]
  /\ blobLen \in 0..NumDocs
  /\ recorded \in {0, NumDocs}
  /\ target \in [Docs -> {"absent", "own"}]
  /\ pc = "idle"
  /\ read = 0 /\ inserted = 0 /\ skipped = 0
  /\ start = 0 /\ stop = 0
  /\ result = "none"
  /\ runs = 0

-----------------------------------------------------------------------------
(* restore_item *)

Start ==
  /\ pc = "idle"
  /\ runs < MaxRuns
  /\ runs' = runs + 1
  /\ opts' \in [ordered : BOOLEAN, clean : BOOLEAN, tolerated : SUBSET Kinds]
  /\ read' = 0 /\ inserted' = 0 /\ skipped' = 0
  /\ result' = "none"
  /\ pc' = "meta"
  /\ UNCHANGED <<dump, target, start, stop>>

Goto(from, to) == pc = from /\ pc' = to /\ UNCHANGED result

End(from, outcome) == pc = from /\ pc' = "idle" /\ result' = outcome

\* Seeded fault: --clean is forgotten.
ReadMetaUnclean ==
  /\ Goto("meta", "ensure") \/ End("meta", "fatal")
  /\ UNCHANGED <<opts, dump, target, tally, start, stop, runs>>

ReadMeta ==
  /\ \/ Goto("meta", IF opts.clean THEN "clean" ELSE "ensure")
     \/ End("meta", "fatal")
  /\ UNCHANGED <<opts, dump, target, tally, start, stop, runs>>

\* drop_collection; an error may come from the answer only.
Dropped == target' = [d \in Docs |-> "absent"]

Clean ==
  /\ \/ Goto("clean", "ensure") /\ Dropped
     \/ End("clean", "fatal") /\ (Dropped \/ UNCHANGED target)
  /\ UNCHANGED <<opts, dump, tally, start, stop, runs>>

\* ensure_collection: one that exists already is fine as it is.
Ensure ==
  /\ Goto("ensure", "open") \/ End("ensure", "fatal")
  /\ UNCHANGED <<opts, dump, target, tally, start, stop, runs>>

\* open_document_reader
Open ==
  /\ Goto("open", "read") \/ End("open", "insertError")
  /\ UNCHANGED <<opts, dump, target, tally, start, stop, runs>>

\* next_batch gives up to Batch documents; none means the end of the stream.
NextBatch ==
  /\ Goto("read", "insert")
  /\ read < blobLen
  /\ start' = read + 1
  /\ stop' = IF read + Batch < blobLen THEN read + Batch ELSE blobLen
  /\ read' = stop'
  /\ UNCHANGED <<opts, dump, target, inserted, skipped, runs>>

EndOfStream ==
  /\ Goto("read", "check")
  /\ read = blobLen
  /\ UNCHANGED <<opts, dump, target, tally, start, stop, runs>>

\* A read error or a corrupt document: the batch being read is lost with it.
ReadFails ==
  /\ End("read", "insertError")
  /\ UNCHANGED <<opts, dump, target, tally, start, stop, runs>>

\* Seeded fault: the completeness check asks for one document too few.
CheckAlmost ==
  /\ \/ read + 1 >= recorded /\ End("check", "ok")
     \/ read + 1 < recorded /\ End("check", "insertError")
  /\ UNCHANGED <<opts, dump, target, tally, start, stop, runs>>

\* Only a shortfall against the recorded count is an error.
Check ==
  /\ \/ read >= recorded /\ End("check", "ok")
     \/ read < recorded /\ End("check", "insertError")
  /\ UNCHANGED <<opts, dump, target, tally, start, stop, runs>>

-----------------------------------------------------------------------------
(* insert_batch and the server's insertMany *)

Slice     == start..stop
Refused   == {d \in Slice : d \in Invalid \/ target[d] # "absent"}
Kind(d)   == IF d \in Invalid THEN "invalid" ELSE "duplicate"
Offending == {d \in Refused : Kind(d) \notin opts.tolerated}

Insert(docs) == target' = [d \in Docs |-> IF d \in docs THEN "dump" ELSE target[d]]

\* Every document of the slice went in.
InsertAll ==
  /\ Goto("insert", "read")
  /\ Refused = {}
  /\ Insert(Slice)
  /\ inserted' = inserted + Cardinality(Slice)
  /\ UNCHANGED <<opts, dump, read, skipped, start, stop, runs>>

\* Seeded faults: resuming at the refused document (skipped wraps to keep the
\* loop finite), and one past the next.
OrderedResumeAt ==
  /\ pc = "insert" /\ opts.ordered
  /\ Refused # {} /\ Min(Refused) \notin Offending
  /\ Goto("insert", "insert")
  /\ Insert(start..(Min(Refused) - 1))
  /\ inserted' = inserted + (Min(Refused) - start)
  /\ skipped' = (skipped + 1) % NumDocs
  /\ start' = Min(Refused)
  /\ UNCHANGED <<opts, dump, read, stop, runs>>

OrderedResumePast ==
  /\ pc = "insert" /\ opts.ordered
  /\ Refused # {} /\ Min(Refused) \notin Offending
  /\ Goto("insert", IF Min(Refused) + 1 >= stop THEN "read" ELSE "insert")
  /\ Insert(start..(Min(Refused) - 1))
  /\ inserted' = inserted + (Min(Refused) - start)
  /\ skipped' = skipped + 1
  /\ start' = Min(Refused) + 2
  /\ UNCHANGED <<opts, dump, read, stop, runs>>

\* Ordered: the server stops at the first refusal; a tolerated one is skipped
\* and the rest submitted again from right behind it.
OrderedResume ==
  /\ pc = "insert" /\ opts.ordered
  /\ Refused # {} /\ Min(Refused) \notin Offending
  /\ Goto("insert", IF Min(Refused) = stop THEN "read" ELSE "insert")
  /\ Insert(start..(Min(Refused) - 1))
  /\ inserted' = inserted + (Min(Refused) - start)
  /\ skipped' = skipped + 1
  /\ start' = Min(Refused) + 1
  /\ UNCHANGED <<opts, dump, read, stop, runs>>

OrderedFails ==
  /\ End("insert", "insertError")
  /\ opts.ordered
  /\ Refused # {} /\ Min(Refused) \in Offending
  /\ Insert(start..(Min(Refused) - 1))
  /\ inserted' = inserted + (Min(Refused) - start)
  /\ UNCHANGED <<opts, dump, read, skipped, start, stop, runs>>

\* Unordered: the server attempts every document and reports all refusals.
UnorderedSkips ==
  /\ Goto("insert", "read")
  /\ ~opts.ordered
  /\ Refused # {} /\ Offending = {}
  /\ Insert(Slice \ Refused)
  /\ inserted' = inserted + Cardinality(Slice \ Refused)
  /\ skipped' = skipped + Cardinality(Refused)
  /\ UNCHANGED <<opts, dump, read, start, stop, runs>>

\* The tolerated refusals ahead of the first offending one have been counted.
UnorderedFails ==
  /\ End("insert", "insertError")
  /\ ~opts.ordered
  /\ Offending # {}
  /\ Insert(Slice \ Refused)
  /\ inserted' = inserted + Cardinality(Slice \ Refused)
  /\ skipped' = skipped + Cardinality({d \in Refused : d < Min(Offending)})
  /\ UNCHANGED <<opts, dump, read, start, stop, runs>>

\* The connection is lost: the server may have taken any accepted documents
\* (in order, a prefix) without the restore learning of it.
TakenUnseen ==
  IF opts.ordered
  THEN {start..k : k \in {j \in (start - 1)..stop : Refused \cap (start..j) = {}}}
  ELSE SUBSET (Slice \ Refused)

InsertLost ==
  /\ End("insert", "insertError")
  /\ \E docs \in TakenUnseen : Insert(docs)
  /\ UNCHANGED <<opts, dump, tally, start, stop, runs>>

\* The process is killed, perhaps with an insert or a drop in flight.
Crash ==
  /\ pc # "idle"
  /\ End(pc, "killed")
  /\ \/ UNCHANGED target
     \/ pc = "insert" /\ \E docs \in TakenUnseen : Insert(docs)
     \/ pc = "clean" /\ Dropped
  /\ UNCHANGED <<opts, dump, tally, start, stop, runs>>

-----------------------------------------------------------------------------

InsertBatch ==
  \/ InsertAll \/ OrderedResume \/ OrderedFails
  \/ UnorderedSkips \/ UnorderedFails \/ InsertLost

RestoreItem ==
  \/ ReadMeta \/ Clean \/ Ensure \/ Open
  \/ NextBatch \/ EndOfStream \/ ReadFails \/ InsertBatch \/ Check

\* Nobody has to restore again.
Terminating == pc = "idle" /\ UNCHANGED vars

Next == Start \/ RestoreItem \/ Crash \/ Terminating

\* Calls to storage and server return; nobody has to start a run.
Fairness == WF_vars(RestoreItem)

Spec     == Init /\ [][Next]_vars
FairSpec == Spec /\ Fairness

-----------------------------------------------------------------------------
(* Properties *)

\* Between batches every document read so far is in the target or was refused
\* and tolerated, and the report counts it exactly once (insert_batch submits
\* the rest of an ordered batch again after each tolerated failure).
EveryDocumentAccounted ==
  pc \in {"read", "check"} =>
    /\ read = inserted + skipped
    /\ \A d \in 1..read :
         \/ target[d] # "absent"
         \/ d \in Invalid /\ "invalid" \in opts.tolerated

\* A collection counts as restored only when its blob was complete and every
\* document is in the target, but for refusals the operator tolerates:
\* truncation on a document boundary, an unread tail, or a lost insert never
\* pass (given that the dump recorded its count).
OkIsComplete ==
  result = "ok" /\ recorded = NumDocs =>
    /\ blobLen = NumDocs
    /\ \A d \in Docs :
         \/ target[d] = "dump"
         \/ target[d] = "own" /\ (Kind(d) \in opts.tolerated)
         \/ d \in Invalid /\ "invalid" \in opts.tolerated

\* --clean makes a restore idempotent: when it succeeds the target holds
\* exactly the acceptable documents of the dump, whatever it held before and
\* wherever earlier runs failed or were killed.
CleanRestoreIsExact ==
  result = "ok" /\ opts.clean /\ recorded = NumDocs =>
    \A d \in Docs : target[d] = IF d \in Invalid THEN "absent" ELSE "dump"

\* Every run ends: resubmission of ordered batches makes progress.
RunEnds == pc # "idle" ~> pc = "idle"
=============================================================================
