--------------------------- MODULE DumpStoreProofs ---------------------------
(***************************************************************************)
(* Proofs about DumpStore, for any number of dumps, objects and commands,  *)
(* any retention policies, with or without faults.                         *)
(*                                                                         *)
(* The invariant ties what is stored to what was written: whole until a    *)
(* deletion begins, gone when it ends, and between the two what is stored  *)
(* is still to be deleted, unless the dump's run races with it.  A command *)
(* goes through its selection from the oldest, so the more recent dumps it *)
(* counted when it selected are there still.                               *)
(***************************************************************************)
EXTENDS DumpStore, FiniteSetTheorems, WellFoundedInduction, TLAPS

\* What a run has written is stored until the dump's deletion begins, and a
\* deletion that begins later than the run ends has it to itself.
Written ==
  \A d \in Dumps :
    /\ stored[d] \subseteq 1..progress[d]
    /\ d \in running => progress[d] < Metadata
    /\ d \notin hit => stored[d] = 1..progress[d]
    /\ d \in hit \ raced => d \notin running

\* A command deals with dumps that were started.
Known ==
  \A d \in Dumps :
    d \in todo \cup selected \cup hit \/ view[d] # "absent" => progress[d] > 0

Command ==
  /\ pc = "idle" => \A d \in Dumps : view[d] = "absent"
  /\ pc # "delete" => current = 0
  /\ pc = "delete" => current \in selected \cap hit /\ \A e \in selected : current <= e

\* The policy asks for the deletion of a dump read as completed.
Asked(d) ==
  /\ policy.retains => d \notin Protected
  /\ policy.retains \/ (policy.before > 0 /\ d < policy.before)

Chosen ==
  pc \in {"next", "delete"} => \A d \in selected : view[d] = "done" => Asked(d)

\* The completed dumps the command has seen and not come to are still complete.
StillDone ==
  \A e \in Dumps : view[e] = "done" =>
    /\ pc = "list" => Done(e)
    /\ pc = "next" => \A d \in selected : d <= e => Done(e)
    /\ pc = "delete" /\ current < e => Done(e)

\* Nothing escapes a deletion that lists before it deletes.
Listed ==
  pc = "delete" /\ backend # "ssh" /\ current \notin raced => stored[current] \subseteq pending

IInv ==
  /\ TypeOK
  /\ Written
  /\ Known
  /\ Command
  /\ Chosen
  /\ StillDone
  /\ Listed
  /\ DeletedIsGone
  /\ MetadataGoesLast

-----------------------------------------------------------------------------

USE DumpsAssumption, BlobsAssumption, RecentsAssumption, CutoffsAssumption, DeletesAssumption

\* A nonempty set of numbers has a least one.
LEMMA LeastOfNaturals ==
  ASSUME NEW S, S \subseteq Nat, S # {}
  PROVE  \E x \in S : \A y \in S : x <= y
  <1> DEFINE R == OpToRel(<, Nat)
  <1>1. IsWellFoundedOn(R, Nat)
    BY NatLessThanWellFounded
  <1>2. \A x, y \in Nat : y < x => <<y, x>> \in R
    BY DEF OpToRel
  <1> HIDE DEF R
  <1>3. PICK x \in S : \A y \in S : <<y, x>> \notin R
    BY <1>1, WFMin
  <1>4. \A y \in S : x <= y
    <2> SUFFICES ASSUME NEW y \in S PROVE x <= y
      OBVIOUS
    <2>1. x \in Nat /\ y \in Nat
      OBVIOUS
    <2>2. ~(y < x)
      BY <1>2, <1>3, <2>1
    <2> QED
      BY <2>1, <2>2
  <1> QED
    BY <1>4

\* What the arithmetic of the proofs needs of the constants.
LEMMA Ranges ==
  /\ Metadata \in Nat /\ Metadata >= 1 /\ Metadata \in Objects /\ Objects = 1..Metadata
  /\ Objects \subseteq Nat /\ Dumps \subseteq Nat /\ 0 \notin Dumps
  /\ \A d \in Dumps : 1 <= d
  BY DEF Metadata, Objects, Dumps

\* Sets of dumps are finite, so that their cardinalities count.
LEMMA FiniteDumps ==
  ASSUME NEW S, S \subseteq Dumps
  PROVE  IsFiniteSet(S) /\ Cardinality(S) \in Nat
  <1>1. IsFiniteSet(Dumps)
    BY FS_Interval DEF Dumps
  <1> QED
    BY <1>1, FS_Subset, FS_CardinalityType

\* Outside a directory, a deletion with nothing left to take has taken all it
\* listed.
LEMMA NothingPending ==
  ASSUME TypeOK, backend # "directory", Targets = {}
  PROVE  pending = {}
  <1>1. pending \subseteq Nat
    BY Ranges DEF TypeOK
  <1>2. SUFFICES ASSUME pending # {} PROVE FALSE
    OBVIOUS
  <1>3. PICK o \in pending : \A p \in pending : o <= p
    BY <1>1, <1>2, LeastOfNaturals
  <1> QED
    BY <1>3 DEF Targets

-----------------------------------------------------------------------------

\* The inductive invariant holds at first.
THEOREM InitIInv == Init => IInv
  <1> SUFFICES ASSUME Init PROVE IInv
    OBVIOUS
  <1> USE DEF Init
  <1>1. TypeOK
    BY Ranges DEF TypeOK
  <1>2. Written /\ Known /\ Command
    BY Ranges DEF Written, Known, Command
  <1>3. Chosen /\ StillDone /\ Listed
    BY DEF Chosen, StillDone, Listed
  <1>4. DeletedIsGone /\ MetadataGoesLast
    BY DEF DeletedIsGone, MetadataGoesLast
  <1> QED
    BY <1>1, <1>2, <1>3, <1>4 DEF IInv

\* The ways a command ends.
LEMMA Ending ==
  ASSUME DryRun \/ DeletesDone \/ DeleteAborted
  PROVE  \E outcome \in {"ok", "error"} : End(outcome)
  BY DEF DryRun, DeletesDone, DeleteAborted

\* No step breaks a type.
LEMMA TypeStep ==
  ASSUME IInv, [Next]_vars
  PROVE  TypeOK'
  <1> USE DEF dumpVars, planVars, deleteVars
  <1>0. TypeOK /\ Written /\ Command
    BY DEF IInv
  <1>1. ASSUME NEW d \in Dumps, StartDump(d)
        PROVE  TypeOK'
    BY <1>0, <1>1 DEF StartDump, TypeOK
  <1>2. ASSUME NEW d \in Dumps, WriteObject(d)
        PROVE  TypeOK'
    <2>1. progress[d] + 1 \in 1..Metadata
      BY <1>0, <1>2, Ranges DEF WriteObject, TypeOK, Written
    <2>2. progress' \in [Dumps -> 0..Metadata] /\ progress'[d] = progress[d] + 1
      BY <1>0, <1>2, <2>1 DEF WriteObject, TypeOK
    <2>3. stored' \in [Dumps -> SUBSET Objects]
      BY <1>0, <1>2, <2>1, <2>2, Ranges DEF WriteObject, TypeOK
    <2> QED
      BY <1>0, <1>2, <2>2, <2>3 DEF WriteObject, TypeOK
  <1>3. ASSUME NEW d \in Dumps, AbandonDump(d)
        PROVE  TypeOK'
    BY <1>0, <1>3 DEF AbandonDump, TypeOK
  <1>4. CASE StartPrune
    BY <1>0, <1>4 DEF StartPrune, Begin, Listings, TypeOK
  <1>5. CASE Select
    BY <1>0, <1>5 DEF Select, Candidates, TypeOK
  <1>6. CASE Deleted
    BY <1>0, <1>6 DEF Deleted, TypeOK
  <1>7. CASE DryRun \/ DeletesDone \/ DeleteAborted
    <2>1. PICK outcome \in {"ok", "error"} : End(outcome)
      BY <1>7, Ending
    <2>2. current # 0 => current \in hit
      BY <1>0 DEF Command
    <2> QED
      BY <1>0, <2>1, <2>2 DEF End, TypeOK
  <1>8. ASSUME NEW d \in Dumps, DeleteById(d)
        PROVE  TypeOK'
    BY <1>0, <1>8 DEF DeleteById, Begin, TypeOK
  <1>9. ASSUME NEW d \in Dumps, ReadMetadata(d)
        PROVE  TypeOK'
    BY <1>0, <1>9 DEF ReadMetadata, TypeOK
  <1>10. ASSUME NEW d \in Dumps, BeginDelete(d)
         PROVE  TypeOK'
    BY <1>0, <1>10 DEF BeginDelete, TypeOK
  <1>11. ASSUME NEW o \in Objects, DeleteObject(o)
         PROVE  TypeOK'
    BY <1>0, <1>11 DEF DeleteObject, TypeOK
  <1>12. ASSUME NEW o \in Objects, UnlinkFails(o)
         PROVE  TypeOK'
    BY <1>0, <1>12 DEF UnlinkFails, TypeOK
  <1>13. CASE Resting \/ UNCHANGED vars
    BY <1>0, <1>13 DEF Resting, vars, TypeOK
  <1> QED
    BY <1>1, <1>2, <1>3, <1>4, <1>5, <1>6, <1>7, <1>8, <1>9, <1>10, <1>11, <1>12, <1>13
    DEF Next, DumpStep, DeleteStep

\* What a step does to the objects stored.
LEMMA WriteEffect ==
  ASSUME IInv, NEW d \in Dumps, WriteObject(d)
  PROVE  /\ d \in running /\ progress[d] \in Nat /\ progress[d] < Metadata
         /\ progress'[d] = progress[d] + 1
         /\ stored'[d] = stored[d] \cup {progress[d] + 1}
         /\ \A e \in Dumps : e # d => progress'[e] = progress[e] /\ stored'[e] = stored[e]
         /\ running' \subseteq running
         /\ d \in running' => progress[d] + 1 # Metadata
         /\ UNCHANGED <<backend, deleteVars>>
  <1>1. TypeOK /\ Written
    BY DEF IInv
  <1> QED
    BY <1>1, Ranges DEF WriteObject, TypeOK, Written

\* A delete takes one object of the dump it is at, which it is marked to have hit.
LEMMA DeleteEffect ==
  ASSUME IInv, NEW o \in Objects, DeleteObject(o)
  PROVE  /\ pc = "delete" /\ current \in Dumps /\ current \in hit
         /\ stored'[current] = stored[current] \ {o}
         /\ \A e \in Dumps : e # current => stored'[e] = stored[e]
         /\ UNCHANGED <<backend, dumpVars, pc, planVars, current, result, hit, raced, cut, deletes>>
         /\ pending' = pending \ {o}
  <1>1. TypeOK /\ Command
    BY DEF IInv
  <1> QED
    BY <1>1 DEF DeleteObject, TypeOK, Command

\* A run writes in order; what is missing below its progress was deleted.
LEMMA WrittenStep ==
  ASSUME IInv, [Next]_vars
  PROVE  Written'
  <1> USE DEF dumpVars, planVars, deleteVars
  <1>0. TypeOK /\ Written /\ Known /\ Command
    BY DEF IInv
  <1>1. ASSUME NEW d \in Dumps, StartDump(d)
        PROVE  Written'
    <2>1. progress[d] = 0 /\ d \notin hit
      BY <1>0, <1>1 DEF StartDump, Started, TypeOK, Known
    <2> QED
      BY <1>0, <1>1, <2>1, Ranges DEF StartDump, TypeOK, Written
  <1>2. ASSUME NEW d \in Dumps, WriteObject(d)
        PROVE  Written'
    <2>1. ASSUME NEW e \in Dumps
          PROVE  /\ stored'[e] \subseteq 1..progress'[e]
                 /\ e \in running' => progress'[e] < Metadata
                 /\ e \notin hit => stored'[e] = 1..progress'[e]
                 /\ e \in hit \ raced => e \notin running'
      <3>1. CASE e # d
        BY <1>0, <1>2, <3>1, WriteEffect DEF Written
      <3>2. CASE e = d
        <4> DEFINE p == progress[d]
                   q == progress'[d]
        <4>1. /\ p \in Nat /\ p < Metadata /\ q = p + 1 /\ d \in running
              /\ stored'[d] = stored[d] \cup {q} /\ (d \in running' => q # Metadata)
          BY <1>2, WriteEffect
        <4>2. /\ stored[d] \subseteq 1..p
              /\ d \notin hit => stored[d] = 1..p
              /\ d \in hit => d \in raced
          BY <1>0, <4>1 DEF Written
        <4> HIDE DEF p, q
        <4>3. /\ stored'[d] \subseteq 1..q
              /\ d \notin hit => stored'[d] = 1..q
          BY <4>1, <4>2
        <4>4. d \in running' => q < Metadata
          BY <4>1, Ranges
        <4> QED
          BY <3>2, <4>2, <4>3, <4>4 DEF q
      <3> QED
        BY <3>1, <3>2
    <2> QED
      BY <1>2, <2>1, WriteEffect DEF Written
  <1>3. ASSUME NEW d \in Dumps, AbandonDump(d)
        PROVE  Written'
    BY <1>0, <1>3 DEF AbandonDump, Written
  <1>4. CASE \/ StartPrune \/ Select \/ Deleted
             \/ \E d \in Dumps : DeleteById(d) \/ ReadMetadata(d)
             \/ \E o \in Objects : UnlinkFails(o)
    BY <1>0, <1>4 DEF StartPrune, Begin, Select, Deleted, DeleteById, ReadMetadata, UnlinkFails, Written
  <1>5. CASE DryRun \/ DeletesDone \/ DeleteAborted
    <2>1. PICK outcome \in {"ok", "error"} : End(outcome)
      BY <1>5, Ending
    <2> QED
      BY <1>0, <2>1 DEF End, Written
  <1>6. ASSUME NEW d \in Dumps, BeginDelete(d)
        PROVE  Written'
    BY <1>0, <1>6 DEF BeginDelete, Written
  <1>7. ASSUME NEW o \in Objects, DeleteObject(o)
        PROVE  Written'
    BY <1>0, <1>7, DeleteEffect DEF Written
  <1>8. CASE Resting \/ UNCHANGED vars
    BY <1>0, <1>8 DEF Resting, vars, Written
  <1> QED
    BY <1>1, <1>2, <1>3, <1>4, <1>5, <1>6, <1>7, <1>8 DEF Next, DumpStep, DeleteStep

\* A command deals only with dumps that were started.
LEMMA KnownStep ==
  ASSUME IInv, [Next]_vars
  PROVE  Known'
  <1> USE DEF dumpVars, planVars, deleteVars
  <1>0. TypeOK /\ Written /\ Known /\ Command
    BY DEF IInv
  <1>1. \A d \in Dumps : stored[d] # {} => progress[d] > 0
    BY <1>0 DEF Written, TypeOK
  <1>2. CASE \E d \in Dumps : StartDump(d) \/ AbandonDump(d)
    BY <1>0, <1>2 DEF StartDump, AbandonDump, Known
  <1>3. ASSUME NEW d \in Dumps, WriteObject(d)
        PROVE  Known'
    BY <1>0, <1>3, WriteEffect DEF Known
  <1>4. CASE StartPrune
    BY <1>0, <1>1, <1>4 DEF StartPrune, Begin, Listings, Known
  <1>5. CASE Select
    <2>1. \A d \in Candidates : view[d] # "absent"
      BY <1>0 DEF Candidates, CreatedBefore
    <2> QED
      BY <1>0, <1>5, <2>1 DEF Select, Known
  <1>6. CASE Deleted
    BY <1>0, <1>6 DEF Deleted, Known
  <1>7. CASE DryRun \/ DeletesDone \/ DeleteAborted
    <2>1. PICK outcome \in {"ok", "error"} : End(outcome)
      BY <1>7, Ending
    <2> QED
      BY <1>0, <2>1 DEF End, Known
  <1>8. ASSUME NEW d \in Dumps, DeleteById(d)
        PROVE  Known'
    BY <1>0, <1>1, <1>8 DEF DeleteById, Begin, Done, Known
  <1>9. ASSUME NEW d \in Dumps, ReadMetadata(d)
        PROVE  Known'
    BY <1>0, <1>9 DEF ReadMetadata, Known, TypeOK
  <1>10. ASSUME NEW d \in Dumps, BeginDelete(d)
         PROVE  Known'
    BY <1>0, <1>10 DEF BeginDelete, Known
  <1>11. CASE \E o \in Objects : DeleteObject(o) \/ UnlinkFails(o)
    BY <1>0, <1>11 DEF DeleteObject, UnlinkFails, Known
  <1>12. CASE Resting \/ UNCHANGED vars
    BY <1>0, <1>12 DEF Resting, vars, Known
  <1> QED
    BY <1>2, <1>3, <1>4, <1>5, <1>6, <1>7, <1>8, <1>9, <1>10, <1>11, <1>12 DEF Next, DumpStep, DeleteStep

\* A delete works on dumps it has selected, one at a time.
LEMMA CommandStep ==
  ASSUME IInv, [Next]_vars
  PROVE  Command'
  <1> USE DEF dumpVars, planVars, deleteVars
  <1>0. TypeOK /\ Command
    BY DEF IInv
  <1>1. CASE DumpStep
    BY <1>0, <1>1 DEF DumpStep, StartDump, WriteObject, AbandonDump, Command
  <1>2. CASE StartPrune \/ \E d \in Dumps : DeleteById(d)
    BY <1>0, <1>2 DEF StartPrune, DeleteById, Begin, Command
  <1>3. CASE Select \/ Deleted
    BY <1>0, <1>3 DEF Select, Deleted, Command
  <1>4. CASE DryRun \/ DeletesDone \/ DeleteAborted
    <2>1. PICK outcome \in {"ok", "error"} : End(outcome)
      BY <1>4, Ending
    <2> QED
      BY <2>1 DEF End, Command
  <1>5. CASE \E d \in Dumps : ReadMetadata(d) \/ BeginDelete(d)
    BY <1>0, <1>5 DEF ReadMetadata, BeginDelete, Command
  <1>6. CASE \E o \in Objects : DeleteObject(o) \/ UnlinkFails(o)
    BY <1>0, <1>6 DEF DeleteObject, UnlinkFails, Command
  <1>7. CASE Resting \/ UNCHANGED vars
    BY <1>0, <1>7 DEF Resting, vars, Command
  <1> QED
    BY <1>1, <1>2, <1>3, <1>4, <1>5, <1>6, <1>7 DEF Next, DeleteStep

\* A completed dump is selected only if the policy asks for it.
LEMMA ChosenStep ==
  ASSUME IInv, [Next]_vars
  PROVE  Chosen'
  <1> USE DEF dumpVars, planVars, deleteVars
  <1>0. TypeOK /\ Command /\ Chosen
    BY DEF IInv
  <1>1. ASSUME UNCHANGED <<policy, view>>, selected' \subseteq selected,
               pc' \in {"next", "delete"} => pc \in {"next", "delete"}
        PROVE  Chosen'
    <2>1. Protected' = Protected
      BY <1>1 DEF Protected
    <2>2. \A d \in Dumps : Asked(d) => Asked(d)'
      BY <1>1, <2>1 DEF Asked
    <2>3. selected \subseteq Dumps
      BY <1>0 DEF TypeOK
    <2> QED
      BY <1>0, <1>1, <2>2, <2>3 DEF Chosen
  <1>2. CASE DumpStep
    BY <1>1, <1>2 DEF DumpStep, StartDump, WriteObject, AbandonDump
  <1>3. CASE StartPrune
    BY <1>3 DEF StartPrune, Chosen
  <1>4. ASSUME NEW d \in Dumps, DeleteById(d)
        PROVE  Chosen'
    BY <1>0, <1>4 DEF DeleteById, Begin, Command, Chosen
  <1>5. CASE Select
    <2>1. Protected' = Protected
      BY <1>5 DEF Select, Protected
    <2>2. \A d \in Candidates : view[d] = "done" => Asked(d)
      BY <1>0 DEF Candidates, CreatedBefore, Asked
    <2>3. \A d \in Candidates : view'[d] = "done" => Asked(d)'
      BY <1>5, <2>1, <2>2 DEF Select, Asked
    <2> QED
      BY <1>5, <2>3 DEF Select, Chosen
  <1>6. CASE Deleted \/ \E d \in Dumps : BeginDelete(d)
    BY <1>1, <1>6 DEF Deleted, BeginDelete
  <1>7. CASE \E d \in Dumps : ReadMetadata(d)
    BY <1>7 DEF ReadMetadata, Chosen
  <1>8. CASE DryRun \/ DeletesDone \/ DeleteAborted
    <2>1. PICK outcome \in {"ok", "error"} : End(outcome)
      BY <1>8, Ending
    <2> QED
      BY <2>1 DEF End, Chosen
  <1>9. CASE \E o \in Objects : DeleteObject(o) \/ UnlinkFails(o)
    BY <1>1, <1>9 DEF DeleteObject, UnlinkFails
  <1>10. CASE Resting \/ UNCHANGED vars
    BY <1>1, <1>10 DEF Resting, vars
  <1> QED
    BY <1>2, <1>3, <1>4, <1>5, <1>6, <1>7, <1>8, <1>9, <1>10 DEF Next, DeleteStep

\* A completed dump that a command has seen stays complete until it comes to it.
LEMMA StillDoneStep ==
  ASSUME IInv, [Next]_vars
  PROVE  StillDone'
  <1> USE DEF dumpVars, planVars, deleteVars
  <1>0. TypeOK /\ Command /\ StillDone
    BY DEF IInv
  <1>1. CASE \E d \in Dumps : StartDump(d) \/ AbandonDump(d)
    BY <1>0, <1>1 DEF StartDump, AbandonDump, StillDone, Done
  <1>2. ASSUME NEW d \in Dumps, WriteObject(d)
        PROVE  StillDone'
    <2>1. \A e \in Dumps : Done(e) => Done(e)'
      BY <1>2, WriteEffect DEF Done
    <2> QED
      BY <1>0, <1>2, <2>1, WriteEffect DEF StillDone
  <1>3. CASE StartPrune \/ \E d \in Dumps : DeleteById(d)
    BY <1>0, <1>3 DEF StartPrune, DeleteById, Begin, Command, StillDone
  <1>4. CASE Select
    BY <1>0, <1>4 DEF Select, StillDone, Done
  <1>5. CASE Deleted
    <2>1. \A d \in selected' : current < d
      BY <1>0, <1>5 DEF Deleted, Command, TypeOK, Dumps
    <2>2. \A e \in Dumps : current \in Nat /\ e \in Nat
      BY <1>0, Ranges DEF TypeOK
    <2>3. pc = "delete" /\ pc' = "next" /\ UNCHANGED <<stored, view>>
      BY <1>5 DEF Deleted
    <2>4. \A e \in Dumps : view'[e] = "done" => \A d \in selected' : d <= e => Done(e)'
      <3> SUFFICES ASSUME NEW e \in Dumps, view'[e] = "done", NEW d \in selected', d <= e
                   PROVE  Done(e)'
        OBVIOUS
      <3>1. d \in Nat
        BY <1>0, <1>5, Ranges DEF Deleted, TypeOK
      <3>2. current < e
        BY <2>1, <2>2, <3>1
      <3> QED
        BY <1>0, <2>3, <3>2 DEF StillDone, Done
    <2> QED
      BY <2>3, <2>4 DEF StillDone
  <1>6. ASSUME NEW d \in Dumps, BeginDelete(d)
        PROVE  StillDone'
    <2>1. \A e \in Dumps : d < e => d <= e
      BY DEF Dumps
    <2> QED
      BY <1>0, <1>6, <2>1 DEF BeginDelete, StillDone, Done
  <1>7. ASSUME NEW d \in Dumps, ReadMetadata(d)
        PROVE  StillDone'
    BY <1>0, <1>7 DEF ReadMetadata, StillDone, Done, TypeOK
  <1>8. CASE DryRun \/ DeletesDone \/ DeleteAborted
    <2>1. PICK outcome \in {"ok", "error"} : End(outcome)
      BY <1>8, Ending
    <2> QED
      BY <2>1 DEF End, StillDone
  <1>9. ASSUME NEW o \in Objects, DeleteObject(o)
        PROVE  StillDone'
    <2>1. \A e \in Dumps : current < e => stored'[e] = stored[e]
      BY <1>9, DeleteEffect DEF Dumps
    <2> QED
      BY <1>0, <1>9, <2>1, DeleteEffect DEF StillDone, Done
  <1>10. CASE Resting \/ UNCHANGED vars \/ \E o \in Objects : UnlinkFails(o)
    BY <1>0, <1>10 DEF Resting, UnlinkFails, vars, StillDone, Done
  <1> QED
    BY <1>1, <1>2, <1>3, <1>4, <1>5, <1>6, <1>7, <1>8, <1>9, <1>10 DEF Next, DumpStep, DeleteStep

\* A run that writes to a dump being deleted races with the deletion.
LEMMA WritersRace ==
  ASSUME IInv, NEW d \in Dumps, WriteObject(d), d \in hit
  PROVE  d \in raced
  BY WriteEffect DEF IInv, Written

\* What is stored of a dump under deletion is still to be deleted.
LEMMA ListedStep ==
  ASSUME IInv, [Next]_vars
  PROVE  Listed'
  <1> USE DEF dumpVars, planVars, deleteVars
  <1>0. TypeOK /\ Command /\ Listed
    BY DEF IInv
  <1>1. CASE \E d \in Dumps : StartDump(d) \/ AbandonDump(d)
    BY <1>0, <1>1 DEF StartDump, AbandonDump, Listed
  <1>2. ASSUME NEW d \in Dumps, WriteObject(d)
        PROVE  Listed'
    <2>1. pc = "delete" /\ current \notin raced => current \in Dumps /\ current # d
      BY <1>0, <1>2, WritersRace DEF Command, TypeOK
    <2> QED
      BY <1>0, <1>2, <2>1, WriteEffect DEF Listed
  <1>3. CASE \/ StartPrune \/ Select \/ Deleted
             \/ \E d \in Dumps : DeleteById(d) \/ ReadMetadata(d)
    BY <1>3 DEF StartPrune, Select, Deleted, DeleteById, ReadMetadata, Listed
  <1>4. CASE DryRun \/ DeletesDone \/ DeleteAborted
    <2>1. PICK outcome \in {"ok", "error"} : End(outcome)
      BY <1>4, Ending
    <2> QED
      BY <2>1 DEF End, Listed
  <1>5. ASSUME NEW d \in Dumps, BeginDelete(d)
        PROVE  Listed'
    BY <1>5 DEF BeginDelete, Listed
  <1>6. ASSUME NEW o \in Objects, DeleteObject(o)
        PROVE  Listed'
    BY <1>0, <1>6, DeleteEffect DEF Listed
  <1>7. CASE Resting \/ UNCHANGED vars \/ \E o \in Objects : UnlinkFails(o)
    BY <1>0, <1>7 DEF Resting, UnlinkFails, vars, Listed
  <1> QED
    BY <1>1, <1>2, <1>3, <1>4, <1>5, <1>6, <1>7 DEF Next, DumpStep, DeleteStep

\* A deletion that goes through leaves nothing of its dump.
LEMMA GoneStep ==
  ASSUME IInv, [Next]_vars
  PROVE  DeletedIsGone'
  <1> USE DEF dumpVars, planVars, deleteVars
  <1>0. TypeOK /\ Command /\ Listed /\ DeletedIsGone
    BY DEF IInv
  <1>1. CASE \E d \in Dumps : StartDump(d) \/ AbandonDump(d)
    BY <1>0, <1>1 DEF StartDump, AbandonDump, DeletedIsGone
  <1>2. ASSUME NEW d \in Dumps, WriteObject(d)
        PROVE  DeletedIsGone'
    BY <1>0, <1>2, WriteEffect, WritersRace DEF DeletedIsGone, TypeOK
  <1>3. CASE \/ StartPrune \/ Select
             \/ \E d \in Dumps : DeleteById(d) \/ ReadMetadata(d)
    BY <1>0, <1>3 DEF StartPrune, Begin, Select, DeleteById, ReadMetadata, DeletedIsGone
  <1>4. CASE Deleted
    <2>1. backend # "ssh" /\ current \notin raced => stored[current] = {}
      <3>1. CASE backend = "directory"
        BY <1>4, <3>1 DEF Deleted, Targets
      <3>2. CASE backend # "directory"
        <4>1. pending = {} /\ pc = "delete"
          BY <1>0, <1>4, <3>2, NothingPending DEF Deleted
        <4> QED
          BY <1>0, <4>1 DEF Listed
      <3> QED
        BY <3>1, <3>2
    <2> QED
      BY <1>0, <1>4, <2>1 DEF Deleted, DeletedIsGone
  <1>5. CASE DryRun \/ DeletesDone \/ DeleteAborted
    <2>1. PICK outcome \in {"ok", "error"} : End(outcome)
      BY <1>5, Ending
    <2>2. \A d \in hit : d # 0
      BY <1>0, Ranges DEF TypeOK
    <2> QED
      BY <1>0, <2>1, <2>2 DEF End, DeletedIsGone
  <1>6. ASSUME NEW d \in Dumps, BeginDelete(d)
        PROVE  DeletedIsGone'
    <2>1. \A e \in hit : e # current
      BY <1>0, <1>6, Ranges DEF BeginDelete, Command, TypeOK
    <2> QED
      BY <1>0, <1>6, <2>1 DEF BeginDelete, DeletedIsGone
  <1>7. ASSUME NEW o \in Objects, DeleteObject(o)
        PROVE  DeletedIsGone'
    BY <1>0, <1>7, DeleteEffect DEF DeletedIsGone, TypeOK
  <1>8. CASE Resting \/ UNCHANGED vars \/ \E o \in Objects : UnlinkFails(o)
    BY <1>0, <1>8 DEF Resting, UnlinkFails, vars, DeletedIsGone
  <1> QED
    BY <1>1, <1>2, <1>3, <1>4, <1>5, <1>6, <1>7, <1>8 DEF Next, DumpStep, DeleteStep

\* On object stores metadata is the last object to go.
LEMMA MetadataStep ==
  ASSUME IInv, [Next]_vars
  PROVE  MetadataGoesLast'
  <1> USE DEF dumpVars, planVars, deleteVars
  <1>0. TypeOK /\ Written /\ Command /\ Listed /\ MetadataGoesLast
    BY DEF IInv
  <1>1. CASE \E d \in Dumps : StartDump(d) \/ AbandonDump(d)
    BY <1>0, <1>1 DEF StartDump, AbandonDump, MetadataGoesLast, Done
  <1>2. ASSUME NEW d \in Dumps, WriteObject(d)
        PROVE  MetadataGoesLast'
    <2>1. \A e \in Dumps : e # d => progress'[e] = progress[e] /\ stored'[e] = stored[e]
      BY <1>2, WriteEffect
    <2>2. progress'[d] \in stored'[d]
      BY <1>2, WriteEffect
    <2>3. backend' = backend /\ raced' = raced
      BY <1>2, WriteEffect
    <2> QED
      BY <1>0, <2>1, <2>2, <2>3 DEF MetadataGoesLast, Done
  <1>3. CASE \/ StartPrune \/ Select \/ Deleted
             \/ \E d \in Dumps : DeleteById(d) \/ ReadMetadata(d) \/ BeginDelete(d)
    BY <1>0, <1>3 DEF StartPrune, Begin, Select, Deleted, DeleteById, ReadMetadata, BeginDelete,
                      MetadataGoesLast, Done
  <1>4. CASE DryRun \/ DeletesDone \/ DeleteAborted
    <2>1. PICK outcome \in {"ok", "error"} : End(outcome)
      BY <1>4, Ending
    <2> QED
      BY <1>0, <2>1 DEF End, MetadataGoesLast, Done
  <1>5. ASSUME NEW o \in Objects, DeleteObject(o)
        PROVE  MetadataGoesLast'
    <2>1. ASSUME backend = "objects", NEW d \in Dumps, d \notin raced,
                 progress[d] = Metadata, stored'[d] # {}
          PROVE  Metadata \in stored'[d]
      <3>1. CASE d # current
        BY <1>0, <1>5, <2>1, <3>1, DeleteEffect DEF MetadataGoesLast, Done
      <3>2. CASE d = current
        <4>1. stored'[d] = stored[d] \ {o} /\ stored[d] \subseteq Objects /\ stored[d] \subseteq pending
          BY <1>0, <1>5, <2>1, <3>2, DeleteEffect DEF Listed, TypeOK
        <4>2. Metadata \in stored[d]
          BY <1>0, <2>1, <4>1 DEF MetadataGoesLast, Done
        <4>3. \A p \in pending : o <= p
          BY <1>5, <2>1 DEF DeleteObject, Targets
        <4>4. o # Metadata
          BY <2>1, <4>1, <4>3, Ranges
        <4> QED
          BY <4>1, <4>2, <4>4
      <3> QED
        BY <3>1, <3>2
    <2>2. UNCHANGED <<backend, progress, raced>>
      BY <1>5, DeleteEffect
    <2> QED
      BY <2>1, <2>2 DEF MetadataGoesLast, Done
  <1>6. CASE Resting \/ UNCHANGED vars \/ \E o \in Objects : UnlinkFails(o)
    BY <1>0, <1>6 DEF Resting, UnlinkFails, vars, MetadataGoesLast, Done
  <1> QED
    BY <1>1, <1>2, <1>3, <1>4, <1>5, <1>6 DEF Next, DumpStep, DeleteStep

-----------------------------------------------------------------------------
(* Theorems *)

\* The inductive invariant holds in every reachable state.
THEOREM Invariance == Spec => []IInv
  <1>1. IInv /\ [Next]_vars => IInv'
    BY TypeStep, WrittenStep, KnownStep, CommandStep, ChosenStep, StillDoneStep, ListedStep,
       GoneStep, MetadataStep
    DEF IInv
  <1> QED
    BY InitIInv, <1>1, PTL DEF Spec

\* Every variable keeps its type; in particular a run never writes past its
\* metadata.json.
THEOREM TypeCorrect == Spec => []TypeOK
  <1>1. IInv => TypeOK
    BY DEF IInv
  <1> QED
    BY <1>1, Invariance, PTL

\* Nothing is left of a deleted dump, but where the deletion was cut short,
\* raced with the dump's run, or passed over files (SSH).
THEOREM DeletionIsThorough == Spec => []DeletedIsGone
  <1>1. IInv => DeletedIsGone
    BY DEF IInv
  <1> QED
    BY <1>1, Invariance, PTL

\* Metadata without all of its blobs is the trace of a delete: a dump run,
\* however it ends, leaves metadata only over a complete dump.
THEOREM OnlyDeletesHarm == Spec => []HarmOnlyByDelete
  <1>1. IInv => HarmOnlyByDelete
    <2> SUFFICES ASSUME IInv, NEW d \in Dumps, Done(d), ~Complete(d),
                        d # current, d \notin cut \cup raced
                 PROVE  backend = "ssh" /\ d \in hit
      BY DEF HarmOnlyByDelete
    <2>1. d \in hit
      <3>1. SUFFICES ASSUME d \notin hit PROVE FALSE
        OBVIOUS
      <3>2. stored[d] = 1..progress[d] /\ progress[d] \in 0..Metadata
        BY <3>1 DEF IInv, Written, TypeOK
      <3>3. progress[d] = Metadata
        BY <3>2, Ranges DEF Done
      <3> QED
        BY <3>2, <3>3, Ranges DEF Complete
    <2>2. stored[d] # {}
      BY DEF Done
    <2>3. backend = "ssh"
      BY <2>1, <2>2 DEF IInv, DeletedIsGone
    <2> QED
      BY <2>1, <2>3
  <1> QED
    BY <1>1, Invariance, PTL

\* On S3 and Azure an interrupted delete of a completed dump can be repeated:
\* metadata.json, which `delete --id` reads first, is deleted last.
THEOREM DeleteCanBeRepeated == Spec => []MetadataGoesLast
  <1>1. IInv => MetadataGoesLast
    BY DEF IInv
  <1> QED
    BY <1>1, Invariance, PTL

\* A dump that a retention policy deletes is in excess of the more recent
\* completed dumps it keeps, as they are now and not as they were listed.
LEMMA AskedNow ==
  ASSUME IInv, pc = "delete", view[current] = "done"
  PROVE  /\ policy.retains => Cardinality(NewerDone(current)) >= policy.recent
         /\ policy.retains \/ (policy.before > 0 /\ current < policy.before)
  <1>1. current \in Dumps /\ Asked(current)
    BY DEF IInv, Command, Chosen, TypeOK
  <1>2. ASSUME policy.retains
        PROVE  Cardinality(NewerDone(current)) >= policy.recent
    <2> DEFINE seen == {e \in Dumps : e > current /\ view[e] = "done"}
               now == NewerDone(current)
    <2>1. ~(Cardinality(seen) < policy.recent)
      BY <1>1, <1>2 DEF Asked, Protected
    <2>2. seen \subseteq now
      BY <1>1 DEF IInv, StillDone, NewerDone, Dumps
    <2>3. seen \subseteq Dumps /\ now \subseteq Dumps
      BY DEF NewerDone
    <2>4. policy.recent \in Nat
      <3>1. policy \in Policies \/ policy = NoPolicy
        BY DEF IInv, TypeOK
      <3>2. CASE policy \in Policies
        BY <3>2 DEF Policies
      <3>3. CASE policy = NoPolicy
        BY <3>3 DEF NoPolicy
      <3> QED
        BY <3>1, <3>2, <3>3
    <2> HIDE DEF seen, now
    <2>5. /\ Cardinality(seen) \in Nat /\ Cardinality(now) \in Nat
          /\ Cardinality(seen) <= Cardinality(now)
      BY <2>2, <2>3, FiniteDumps, FS_Subset
    <2>6. Cardinality(now) >= policy.recent
      BY <2>1, <2>4, <2>5
    <2> QED
      BY <2>6 DEF now
  <1> QED
    BY <1>1, <1>2 DEF Asked

\* A completed dump loses an object only to a delete that asked for it: by its
\* id, or by a policy it falls under (select_for_deletion); what was read of
\* it as unreadable metadata is the exception.
THEOREM EveryLossWasAsked == Spec => LossWasAsked
  <1> DEFINE Loss ==
        \A d \in Dumps : Complete(d) /\ stored'[d] # stored[d] =>
          \/ view[d] = "absent" /\ d = current
          \/ view[d] = "unknown"
          \/ /\ policy.retains => Cardinality(NewerDone(d)) >= policy.recent
             /\ policy.retains \/ (policy.before > 0 /\ d < policy.before)
  <1>1. IInv /\ [Next]_vars => [Loss]_vars
    <2> SUFFICES ASSUME IInv, Next, NEW d \in Dumps, Complete(d), stored'[d] # stored[d]
                 PROVE  \/ view[d] = "absent" /\ d = current
                        \/ view[d] = "unknown"
                        \/ /\ policy.retains => Cardinality(NewerDone(d)) >= policy.recent
                           /\ policy.retains \/ (policy.before > 0 /\ d < policy.before)
      BY Zenon
    <2> USE DEF dumpVars, planVars, deleteVars
    <2>1. ASSUME NEW e \in Dumps, WriteObject(e)
          PROVE  FALSE
      <3>1. e = d
        BY <2>1, WriteEffect
      <3>2. progress[d] \in Nat /\ progress[d] < Metadata /\ stored[d] \subseteq 1..progress[d]
        BY <2>1, <3>1, WriteEffect DEF IInv, Written
      <3>3. Metadata \in stored[d]
        BY Ranges DEF Complete
      <3> QED
        BY <3>2, <3>3, Ranges
    <2>2. ASSUME NEW o \in Objects, DeleteObject(o)
          PROVE  pc = "delete" /\ d = current
      BY <2>2, DeleteEffect
    <2>3. CASE pc = "delete" /\ d = current
      <3>1. view[d] \in {"absent", "unknown", "done"}
        BY DEF IInv, TypeOK
      <3> QED
        BY <2>3, <3>1, AskedNow
    <2>4. CASE UNCHANGED stored
      BY <2>4
    <2>5. CASE DryRun \/ DeletesDone \/ DeleteAborted
      <3>1. PICK outcome \in {"ok", "error"} : End(outcome)
        BY <2>5, Ending
      <3> QED
        BY <3>1 DEF End
    <2> QED
      BY <2>1, <2>2, <2>3, <2>4, <2>5
      DEF Next, DumpStep, DeleteStep, StartDump, AbandonDump, StartPrune, DeleteById, Begin, Select,
          Deleted, ReadMetadata, BeginDelete, UnlinkFails, Resting, vars
  <1> QED
    BY <1>1, Invariance, PTL DEF Spec, LossWasAsked
=============================================================================
