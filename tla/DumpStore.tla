----------------------------- MODULE DumpStore -----------------------------
(***************************************************************************)
(* The life of dumps in storage: dump runs that write them, and the        *)
(* operator's `delete` (by id or by retention policy), which lists, reads  *)
(* metadata, selects and then deletes object by object, in a process of    *)
(* its own that can fail or be killed at any step.                         *)
(*                                                                         *)
(* Dumps are numbered in the order of their timestamps, which is also the  *)
(* order of their ids.  A dump's objects are its blobs and, the last in    *)
(* both writing and sorting order, its metadata.json.                      *)
(***************************************************************************)
EXTENDS Integers, FiniteSets, FiniteSetsExt

CONSTANTS
  NumDumps,    \* dumps ever started (bound)
  NumBlobs,    \* blobs of a dump
  Recents,     \* values of --retain-recent
  Cutoffs,     \* values of --before-date: a dump's number, 0 when not given
  Unsafes,     \* values of --prune-unsafe
  MaxDeletes,  \* delete commands issued (bound)
  Faults       \* whether storage calls of a delete fail and it can be killed

ASSUME DumpsAssumption   == NumDumps \in Nat
ASSUME BlobsAssumption   == NumBlobs \in Nat
ASSUME RecentsAssumption == Recents \subseteq Nat
ASSUME CutoffsAssumption == Cutoffs \subseteq Nat
ASSUME UnsafesAssumption == Unsafes \subseteq BOOLEAN
ASSUME DeletesAssumption == MaxDeletes \in Nat
ASSUME FaultsAssumption  == Faults \in BOOLEAN

Dumps    == 1..NumDumps
Metadata == NumBlobs + 1
Objects  == 1..Metadata
Policies == [retains : BOOLEAN, recent : Recents, before : Cutoffs, unsafe : Unsafes]
NoPolicy == [retains |-> FALSE, recent |-> 0, before |-> 0, unsafe |-> FALSE]

VARIABLES
  backend,   \* a directory, an object store (S3, Azure) or SSH
  stored,    \* objects in storage, per dump
  progress,  \* objects its run has written, per dump
  running,   \* dumps whose run goes on
  pc,        \* the delete command
  policy,    \* RetentionPolicy
  todo,      \* listed dumps whose metadata is yet to be read
  view,      \* what list_metadata has made of each dump
  selected,  \* ids to delete
  current,   \* the id being deleted, 0 for none
  pending,   \* objects storage.delete has listed and not yet deleted
  result,    \* how the last delete command ended
  hit,       \* dumps whose deletion has begun, by any command
  raced,     \* those of them whose run was going on
  cut,       \* those whose deletion was cut short and not repeated since
  deletes

dumpVars   == <<progress, running>>
planVars   == <<policy, todo, view, selected>>
deleteVars == <<pc, planVars, current, pending, result, hit, raced, cut, deletes>>
vars       == <<backend, stored, dumpVars, deleteVars>>

Complete(d) == stored[d] = Objects
Done(d)     == Metadata \in stored[d]

TypeOK ==
  /\ backend \in {"directory", "objects", "ssh"}
  /\ stored \in [Dumps -> SUBSET Objects]
  /\ progress \in [Dumps -> 0..Metadata]
  /\ running \in SUBSET Dumps
  /\ pc \in {"idle", "list", "next", "delete"}
  /\ policy \in Policies \cup {NoPolicy}
  /\ todo \in SUBSET Dumps
  /\ view \in [Dumps -> {"absent", "unknown", "done"}]
  /\ selected \in SUBSET Dumps
  /\ current \in Dumps \cup {0}
  /\ pending \in SUBSET Objects
  /\ result \in {"none", "ok", "error"}
  /\ hit \in SUBSET Dumps
  /\ raced \in SUBSET hit
  /\ cut \in SUBSET hit
  /\ deletes \in 0..MaxDeletes

Init ==
  /\ backend \in {"directory", "objects", "ssh"}
  /\ stored = [d \in Dumps |-> {}]
  /\ progress = [d \in Dumps |-> 0]
  /\ running = {}
  /\ pc = "idle"
  /\ policy = NoPolicy
  /\ todo = {}
  /\ view = [d \in Dumps |-> "absent"]
  /\ selected = {}
  /\ current = 0
  /\ pending = {}
  /\ result = "none"
  /\ hit = {}
  /\ raced = {}
  /\ cut = {}
  /\ deletes = 0

-----------------------------------------------------------------------------
(* Dump runs: DumpRun, seen from storage *)

Started(d) == progress[d] > 0 \/ d \in running

StartDump(d) ==
  /\ ~Started(d)
  /\ \A e \in 1..(d - 1) : Started(e)
  /\ running' = running \cup {d}
  /\ UNCHANGED <<backend, stored, progress, deleteVars>>

\* Seeded fault: the metadata is written first.
WriteMetadataFirst(d) ==
  /\ d \in running
  /\ progress' = [progress EXCEPT ![d] = @ + 1]
  /\ stored' = [stored EXCEPT ![d] = @ \cup {Metadata - progress[d]}]
  /\ running' = IF progress'[d] = Metadata THEN running \ {d} ELSE running
  /\ UNCHANGED <<backend, deleteVars>>

\* The blobs, then metadata.json.
WriteObject(d) ==
  /\ d \in running
  /\ progress' = [progress EXCEPT ![d] = @ + 1]
  /\ stored' = [stored EXCEPT ![d] = @ \cup {progress'[d]}]
  /\ running' = IF progress'[d] = Metadata THEN running \ {d} ELSE running
  /\ UNCHANGED <<backend, deleteVars>>

\* The run fails or dies; what it has written stays.
AbandonDump(d) ==
  /\ d \in running
  /\ progress[d] > 0
  /\ running' = running \ {d}
  /\ UNCHANGED <<backend, stored, progress, deleteVars>>

-----------------------------------------------------------------------------
(* Selecting: delete_dump, list_metadata and select_for_deletion *)

Begin ==
  /\ pc = "idle"
  /\ deletes < MaxDeletes
  /\ deletes' = deletes + 1
  /\ result' = "none"
  /\ UNCHANGED <<backend, stored, dumpVars, view, current, pending, hit, raced, cut>>

\* The metadata must be readable first; otherwise nothing happens.
DeleteById(d) ==
  /\ Begin
  /\ Done(d)
  /\ pc' = "next"
  /\ selected' = {d}
  /\ UNCHANGED <<policy, todo>>

\* What list_dumps may give: the ids that have objects; over SSH a directory that
\* cannot be read is passed over.
Listings ==
  LET present == {d \in Dumps : stored[d] # {}}
  IN {present} \cup IF Faults /\ backend = "ssh" THEN SUBSET present ELSE {}

StartPrune ==
  /\ Begin
  /\ pc' = "list"
  /\ policy' \in Policies
  /\ todo' \in Listings
  /\ UNCHANGED selected

\* Any error reading metadata, one of the moment too, gives an Unknown stub.
ReadMetadata(d) ==
  /\ pc = "list"
  /\ d \in todo /\ \A e \in todo : d <= e
  /\ todo' = todo \ {d}
  /\ \/ Done(d) /\ view' = [view EXCEPT ![d] = "done"]
     \/ ~Done(d) /\ view' = [view EXCEPT ![d] = "unknown"]
     \/ Faults /\ Done(d) /\ view' = [view EXCEPT ![d] = "unknown"]
  /\ UNCHANGED <<backend, stored, dumpVars, pc, policy, selected, current, pending, result, hit, raced, cut, deletes>>

\* The `recent` most recent of the dumps read as Done.
Protected ==
  IF policy.retains
  THEN {d \in Dumps : view[d] = "done" /\ Cardinality({e \in Dumps : e > d /\ view[e] = "done"}) < policy.recent}
  ELSE {}

\* An Unknown stub has no created_at, which counts as the epoch.
CreatedBefore(d) == policy.before > 0 /\ (view[d] = "unknown" \/ d < policy.before)

\* Seeded fault: protection from the count rule alone.
SelectedUnprotected ==
  {d \in Dumps : \/ view[d] = "done" /\ policy.retains /\ d \notin Protected
                 \/ view[d] # "absent" /\ CreatedBefore(d)
                 \/ view[d] = "unknown" /\ policy.unsafe}

Candidates ==
  {d \in Dumps \ Protected :
     \/ view[d] = "done" /\ policy.retains
     \/ view[d] # "absent" /\ CreatedBefore(d)
     \/ view[d] = "unknown" /\ policy.unsafe}

Select ==
  /\ pc = "list"
  /\ todo = {}
  /\ selected' = Candidates
  /\ pc' = "next"
  /\ UNCHANGED <<backend, stored, dumpVars, policy, todo, view, current, pending, result, hit, raced, cut, deletes>>

-----------------------------------------------------------------------------
(* Deleting: prune's loop and Storage::delete *)

\* Ids are deleted in order; storage.delete lists the id's objects first.
BeginDelete(d) ==
  /\ pc = "next"
  /\ d \in selected /\ \A e \in selected : d <= e
  /\ pc' = "delete"
  /\ current' = d
  /\ pending' = stored[d]
  /\ hit' = hit \cup {d}
  /\ raced' = IF d \in running THEN raced \cup {d} ELSE raced
  /\ UNCHANGED <<backend, stored, dumpVars, planVars, result, cut, deletes>>

\* The others go through the objects they listed, in sorted order; a
\* directory's remove_dir_all takes what it finds, in any order.
Targets ==
  IF backend = "directory"
  THEN stored[current]
  ELSE {o \in pending : \A p \in pending : o <= p}

DeleteObject(o) ==
  /\ pc = "delete"
  /\ o \in Targets
  /\ stored' = [stored EXCEPT ![current] = @ \ {o}]
  /\ pending' = pending \ {o}
  /\ UNCHANGED <<backend, dumpVars, pc, planVars, current, result, hit, raced, cut, deletes>>

\* Over SSH a file that cannot be unlinked is passed over.
UnlinkFails(o) ==
  /\ Faults
  /\ pc = "delete"
  /\ backend = "ssh"
  /\ o \in Targets
  /\ pending' = pending \ {o}
  /\ UNCHANGED <<backend, stored, dumpVars, pc, planVars, current, result, hit, raced, cut, deletes>>

\* Seeded fault: the last object, the metadata, is left.
DeletedButOne ==
  /\ pc = "delete"
  /\ Cardinality(Targets) <= 1
  /\ pc' = "next"
  /\ selected' = selected \ {current}
  /\ current' = 0
  /\ pending' = {}
  /\ cut' = cut \ {current}
  /\ UNCHANGED <<backend, stored, dumpVars, policy, todo, view, result, hit, raced, deletes>>

Deleted ==
  /\ pc = "delete"
  /\ Targets = {}
  /\ pc' = "next"
  /\ selected' = selected \ {current}
  /\ current' = 0
  /\ pending' = {}
  /\ cut' = cut \ {current}
  /\ UNCHANGED <<backend, stored, dumpVars, policy, todo, view, result, hit, raced, deletes>>

End(outcome) ==
  /\ pc' = "idle"
  /\ result' = outcome
  /\ policy' = NoPolicy
  /\ todo' = {}
  /\ view' = [d \in Dumps |-> "absent"]
  /\ selected' = {}
  /\ current' = 0
  /\ pending' = {}
  /\ cut' = IF current = 0 THEN cut ELSE cut \cup {current}
  /\ UNCHANGED <<backend, stored, dumpVars, hit, raced, deletes>>

\* --dry-run: what would be selected is printed.
DryRun == pc = "list" /\ todo = {} /\ End("ok")

DeletesDone == pc = "next" /\ selected = {} /\ End("ok")

\* A storage call fails, which ends the command, or the process is killed.
DeleteAborted == Faults /\ pc # "idle" /\ End("error")

-----------------------------------------------------------------------------

DumpStep ==
  \E d \in Dumps : StartDump(d) \/ WriteObject(d) \/ AbandonDump(d)

DeleteStep ==
  \/ StartPrune \/ Select \/ DryRun \/ Deleted \/ DeletesDone \/ DeleteAborted
  \/ \E d \in Dumps : DeleteById(d) \/ ReadMetadata(d) \/ BeginDelete(d)
  \/ \E o \in Objects : DeleteObject(o) \/ UnlinkFails(o)

Resting == pc = "idle" /\ running = {} /\ UNCHANGED vars

Next == DumpStep \/ DeleteStep \/ Resting

Spec == Init /\ [][Next]_vars

-----------------------------------------------------------------------------
(* Properties *)

\* Completed dumps that are more recent.
NewerDone(d) == {e \in Dumps : e > d /\ Done(e)}

\* A completed dump loses an object only to a command that asked for it: a
\* delete by its id; a count it exceeds; a date it lies before, unless the
\* count protects it.  The exceptions are a dump that was not complete when
\* its metadata was read and one whose metadata could not be read.
LossWasAsked ==
  [][\A d \in Dumps : Complete(d) /\ stored'[d] # stored[d] =>
       \/ view[d] = "absent" /\ d = current
       \/ view[d] = "unknown"
       \/ /\ policy.retains => Cardinality(NewerDone(d)) >= policy.recent
          /\ policy.retains \/ (policy.before > 0 /\ d < policy.before)]_vars

\* Metadata without all the blobs, which `latest` resolves to as if it were
\* complete, is the trace of a delete: one that goes on, was interrupted, took
\* blobs from under a dump run, or passed over the metadata (SSH).
HarmOnlyByDelete ==
  \A d \in Dumps : Done(d) /\ ~Complete(d) =>
    d = current \/ d \in cut \/ d \in raced \/ (backend = "ssh" /\ d \in hit)

\* Nothing is left of a dump whose deletion was begun, unless it was cut short
\* (and not repeated), the dump's run was still going on and writing, or the
\* storage is SSH, whose delete passes over files it cannot unlink.
DeletedIsGone ==
  backend # "ssh" =>
    \A d \in hit \ (raced \cup cut) : stored[d] = {} \/ d = current

\* On S3 and Azure an interrupted delete can be repeated: a completed dump
\* keeps its metadata until its blobs are gone, so `delete --id` finds it.
MetadataGoesLast ==
  backend = "objects" => \A d \in Dumps \ raced :
    progress[d] = Metadata /\ stored[d] # {} => Done(d)

\* What .spectial/features/dump.create.yaml:41 says: a partial dump is never
\* resolvable as `latest`, the most recent dump with metadata.
LatestIsComplete ==
  (\E d \in Dumps : Done(d)) /\ pc = "idle" => Complete(Max({d \in Dumps : Done(d)}))

\* What select_for_deletion says: "The N most recent completed dumps are
\* protected from every rule".
RecentAreProtected ==
  policy.retains /\ pc = "next" =>
    \A d \in selected : Complete(d) /\ view[d] # "absent" =>
      Cardinality(NewerDone(d)) >= policy.recent
=============================================================================
