---------------------- MODULE RestoreCollectionProofs ----------------------
(***************************************************************************)
(* Proofs about RestoreCollection, for any dump, validator, batch size and *)
(* number of runs.                                                         *)
(*                                                                         *)
(* The invariant says how far the restore has come: every document before  *)
(* that point is in the target or was refused and tolerated, and counted   *)
(* once.  A batch submitted again after a refusal moves the point to just  *)
(* behind the refused document.  With --clean the target is the dump up to *)
(* that point and nothing else.                                            *)
(***************************************************************************)
EXTENDS RestoreCollection, FiniteSetTheorems, WellFoundedInduction, TLAPS

Streaming == pc \in {"read", "insert", "check"}

\* Documents dealt with.
Reach == IF pc = "insert" THEN start - 1 ELSE read

\* In the target, or refused and tolerated.
Settled(d) ==
  \/ target[d] = "dump"
  \/ target[d] = "own" /\ Kind(d) \in opts.tolerated
  \/ d \in Invalid /\ "invalid" \in opts.tolerated

Typed ==
  /\ opts \in [ordered : BOOLEAN, clean : BOOLEAN, tolerated : SUBSET Kinds]
  /\ blobLen \in 0..NumDocs
  /\ recorded \in {0, NumDocs}
  /\ target \in [Docs -> {"absent", "own", "dump"}]
  /\ pc \in {"idle", "meta", "clean", "ensure", "open", "read", "insert", "check"}
  /\ read \in Nat /\ inserted \in Nat /\ skipped \in Nat /\ start \in Nat /\ stop \in Nat
  /\ result \in {"none", "ok", "insertError", "fatal", "killed"}
  /\ runs \in 0..MaxRuns

Position ==
  /\ pc \in {"meta", "clean", "ensure", "open"} => read = 0 /\ inserted = 0 /\ skipped = 0
  /\ Streaming => read <= blobLen
  /\ pc = "insert" => 1 <= start /\ start <= stop /\ stop = read
  /\ pc # "idle" => result = "none"
  /\ read <= NumDocs /\ start <= NumDocs + 1 /\ stop <= NumDocs
  /\ inserted + skipped <= read

Accounted ==
  Streaming =>
    /\ Reach = inserted + skipped
    /\ \A d \in 1..Reach : Settled(d)

Cleaned ==
  opts.clean =>
    /\ pc \in {"ensure", "open"} => \A d \in Docs : target[d] = "absent"
    /\ Streaming =>
         \A d \in Docs : target[d] = IF d <= Reach /\ d \notin Invalid THEN "dump" ELSE "absent"

IInv ==
  /\ Typed
  /\ Position
  /\ Accounted
  /\ Cleaned
  /\ OkIsComplete
  /\ CleanRestoreIsExact

-----------------------------------------------------------------------------

USE DocsAssumption, BatchAssumption, RunsAssumption

\* The operator Min on naturals.
LEMMA MinOfNaturals ==
  ASSUME NEW S, S \subseteq Nat, S # {}
  PROVE  Min(S) \in S /\ \A d \in S : Min(S) <= d
  <1> DEFINE R == OpToRel(<, Nat)
  <1>1. IsWellFoundedOn(R, Nat)
    BY NatLessThanWellFounded
  <1>2. \A x, y \in Nat : y < x => <<y, x>> \in R
    BY DEF OpToRel
  <1> HIDE DEF R
  <1>3. PICK x \in S : \A y \in S : <<y, x>> \notin R
    BY <1>1, WFMin
  <1>4. \A y \in S : x <= y
    <2> SUFFICES ASSUME NEW y \in S PROVE x <= y
      OBVIOUS
    <2>1. x \in Nat /\ y \in Nat
      OBVIOUS
    <2>2. ~(y < x)
      BY <1>2, <1>3, <2>1
    <2> QED
      BY <2>1, <2>2
  <1> QED
    BY <1>4 DEF Min

\* A part of the batch and the rest of it make up the batch.
LEMMA Cardinalities ==
  ASSUME NEW a \in Nat, NEW b \in Nat, a <= b, NEW S, S \subseteq a..b
  PROVE  /\ IsFiniteSet(S) /\ Cardinality(S) \in Nat
         /\ Cardinality((a..b) \ S) \in Nat
         /\ Cardinality((a..b) \ S) + Cardinality(S) = b - a + 1
         /\ Cardinality(a..b) = b - a + 1
  <1>1. IsFiniteSet(a..b) /\ Cardinality(a..b) = b - a + 1
    BY FS_Interval
  <1>2. IsFiniteSet(S)
    BY <1>1, FS_Subset
  <1>3. /\ IsFiniteSet((a..b) \ S)
        /\ Cardinality((a..b) \ S) = Cardinality(a..b) - Cardinality((a..b) \cap S)
    BY <1>1, FS_Difference
  <1> DEFINE all == Cardinality(a..b)
             part == Cardinality(S)
             rest == Cardinality((a..b) \ S)
  <1>4. (a..b) \cap S = S
    OBVIOUS
  <1>5. part \in Nat /\ rest \in Nat
    BY <1>2, <1>3, FS_CardinalityType
  <1>6. rest = all - part
    BY <1>3, <1>4, Zenon
  <1>7. all = b - a + 1
    BY <1>1
  <1>8. rest + part = b - a + 1
    <2> HIDE DEF all, part, rest
    <2> QED
      BY <1>5, <1>6, <1>7
  <1> QED
    BY <1>2, <1>5, <1>7, <1>8

\* The batch under way lies in the dump, and so do the refusals in it.
LEMMA InBatch ==
  ASSUME Typed, Position, pc = "insert"
  PROVE  /\ start \in Nat /\ stop \in Nat /\ 1 <= start /\ start <= stop /\ stop = read
         /\ stop <= blobLen /\ blobLen <= NumDocs /\ Slice \subseteq Docs
         /\ Refused \subseteq Slice /\ Refused \subseteq Nat
         /\ Offending \subseteq Refused
  <1>1. /\ start \in Nat /\ stop \in Nat /\ 1 <= start /\ start <= stop /\ stop = read
        /\ stop <= blobLen /\ blobLen <= NumDocs
    BY DEF Typed, Position, Streaming
  <1>2. Slice \subseteq Docs /\ Slice \subseteq Nat
    BY <1>1 DEF Slice, Docs, Typed
  <1>3. Refused \subseteq Slice
    BY DEF Refused
  <1>4. Offending \subseteq Refused
    BY DEF Offending
  <1> QED
    BY <1>1, <1>2, <1>3, <1>4

\* The first refused document of a batch, and how many were taken before it.
LEMMA FirstRefused ==
  ASSUME Typed, Position, pc = "insert", Refused # {}
  PROVE  /\ Min(Refused) \in Refused /\ Min(Refused) \in start..stop
         /\ \A d \in start..(Min(Refused) - 1) : d \in Docs /\ d \notin Refused
         /\ Cardinality(start..(Min(Refused) - 1)) = Min(Refused) - start
  <1> DEFINE m == Min(Refused)
  <1>1. m \in Refused /\ \A d \in Refused : m <= d
    BY InBatch, MinOfNaturals
  <1>2. m \in start..stop
    BY <1>1, InBatch DEF Slice
  <1> HIDE DEF m
  <1>3. \A d \in start..(m - 1) : d \in Docs /\ d \notin Refused
    BY <1>1, <1>2, InBatch DEF Docs
  <1>4. Cardinality(start..(m - 1)) = m - start
    BY <1>2, InBatch, FS_Interval
  <1> QED
    BY <1>1, <1>2, <1>3, <1>4 DEF m

-----------------------------------------------------------------------------

\* The inductive invariant holds at first.
THEOREM InitIInv == Init => IInv
  <1> SUFFICES ASSUME Init PROVE IInv
    OBVIOUS
  <1> USE DEF Init
  <1>1. Typed /\ Position
    BY DEF Typed, Position, Streaming, Kinds
  <1>2. Accounted /\ Cleaned
    BY DEF Accounted, Cleaned, Streaming
  <1>3. OkIsComplete /\ CleanRestoreIsExact
    BY DEF OkIsComplete, CleanRestoreIsExact
  <1> QED
    BY <1>1, <1>2, <1>3 DEF IInv

\* An insert puts the documents given, and touches no other.
LEMMA TargetTyped ==
  ASSUME Typed, NEW docs, Insert(docs)
  PROVE  /\ target' \in [Docs -> {"absent", "own", "dump"}]
         /\ \A d \in Docs : target'[d] = IF d \in docs THEN "dump" ELSE target[d]
  BY DEF Typed, Insert

\* The counters of a batch that ends in a failure stay within what was read.
LEMMA FailedCounts ==
  ASSUME Typed, Position, Accounted, pc = "insert", OrderedFails \/ UnorderedFails
  PROVE  /\ inserted' \in Nat /\ skipped' \in Nat /\ inserted' + skipped' <= read
  <1>0. start - 1 = inserted + skipped /\ inserted \in Nat /\ skipped \in Nat
    BY DEF Accounted, Streaming, Reach, Typed
  <1>1. CASE OrderedFails
    <2> DEFINE m == Min(Refused)
    <2>1. m \in start..stop
      BY <1>1, FirstRefused DEF OrderedFails
    <2>2. inserted' = inserted + (m - start) /\ skipped' = skipped
      BY <1>1 DEF OrderedFails
    <2> HIDE DEF m
    <2> QED
      BY <1>0, <2>1, <2>2, InBatch
  <1>2. CASE UnorderedFails
    <2> DEFINE before == {d \in Refused : d < Min(Offending)}
               in == Cardinality(Slice \ Refused)
               out == Cardinality(before)
               refused == Cardinality(Refused)
    <2>1. inserted' = inserted + in /\ skipped' = skipped + out
      BY <1>2 DEF UnorderedFails
    <2>2. /\ in \in Nat /\ refused \in Nat /\ in + refused = stop - start + 1
          /\ IsFiniteSet(Refused)
      <3>1. Refused \subseteq start..stop /\ start \in Nat /\ stop \in Nat /\ start <= stop
        BY InBatch DEF Slice
      <3> QED
        BY <3>1, Cardinalities DEF Slice
    <2>3. out \in Nat /\ out <= refused
      <3>1. before \subseteq Refused
        OBVIOUS
      <3> HIDE DEF before
      <3>2. IsFiniteSet(before) /\ Cardinality(before) <= Cardinality(Refused)
        BY <2>2, <3>1, FS_Subset
      <3> QED
        BY <3>2, FS_CardinalityType
    <2> HIDE DEF in, out, refused
    <2> QED
      BY <1>0, <2>1, <2>2, <2>3, InBatch
  <1> QED
    BY <1>1, <1>2

-----------------------------------------------------------------------------
(* Steps *)

\* A call that gets further in its batch: the documents from `start` up to
\* the new point are in the target, or refused and tolerated, each counted
\* once; no other document changes.
LEMMA BatchAdvances ==
  ASSUME IInv, InsertAll \/ OrderedResume \/ UnorderedSkips
  PROVE  /\ UNCHANGED <<opts, dump, read, stop, runs, result>>
         /\ pc = "insert" /\ pc' \in {"read", "insert"}
         /\ start' \in Nat /\ start' <= NumDocs + 1
         /\ pc' = "insert" => 1 <= start' /\ start' <= stop
         /\ Reach' \in start..stop
         /\ inserted' \in Nat /\ skipped' \in Nat /\ Reach' = inserted' + skipped'
         /\ target' \in [Docs -> {"absent", "own", "dump"}]
         /\ \A d \in Docs :
              target'[d] = IF d \in start..Reach' /\ d \notin Refused THEN "dump" ELSE target[d]
         /\ \A d \in start..Reach' : d \in Refused => Kind(d) \in opts.tolerated
  <1> USE DEF dump, Goto
  <1>0. /\ Typed /\ Position
        /\ pc = "insert" /\ UNCHANGED <<opts, dump, read, stop, runs, result>>
    BY DEF IInv, InsertAll, OrderedResume, UnorderedSkips
  <1>1. /\ start \in Nat /\ stop \in Nat /\ 1 <= start /\ start <= stop /\ stop = read
        /\ stop <= NumDocs /\ NumDocs \in Nat /\ blobLen <= NumDocs /\ blobLen \in Nat
        /\ Slice = start..stop /\ Refused \subseteq start..stop /\ Offending \subseteq Refused
    BY <1>0, InBatch DEF Slice, Typed
  <1>2. start - 1 = inserted + skipped /\ inserted \in Nat /\ skipped \in Nat
    BY <1>0 DEF IInv, Accounted, Streaming, Reach, Typed
  <1>3. CASE InsertAll
    <2>1. /\ Refused = {} /\ Insert(Slice) /\ pc' = "read"
          /\ inserted' = inserted + Cardinality(Slice) /\ skipped' = skipped /\ start' = start
      BY <1>3 DEF InsertAll
    <2>2. Cardinality(Slice) = stop - start + 1
      BY <1>1, FS_Interval
    <2>3. inserted' = inserted + (stop - start + 1)
      BY <2>1, <2>2, Zenon
    <2>4. Reach' = stop
      BY <1>0, <1>1, <2>1 DEF Reach
    <2>5. /\ target' \in [Docs -> {"absent", "own", "dump"}]
          /\ \A d \in Docs : target'[d] = IF d \in start..stop THEN "dump" ELSE target[d]
      BY <1>0, <1>1, <2>1, TargetTyped
    <2>6. /\ inserted' \in Nat /\ skipped' \in Nat /\ stop = inserted' + skipped'
          /\ stop \in start..stop /\ start' <= NumDocs + 1
      BY <1>1, <1>2, <2>1, <2>3
    <2> QED
      BY <1>0, <1>1, <2>1, <2>4, <2>5, <2>6
  <1>4. CASE OrderedResume
    <2> DEFINE m == Min(Refused)
               taken == start..(m - 1)
    <2>1. /\ Refused # {} /\ m \notin Offending /\ Insert(taken)
          /\ pc' = (IF m = stop THEN "read" ELSE "insert")
          /\ inserted' = inserted + (m - start) /\ skipped' = skipped + 1 /\ start' = m + 1
      BY <1>4 DEF OrderedResume
    <2>2. m \in Refused /\ m \in start..stop /\ \A d \in taken : d \notin Refused
      BY <1>0, <2>1, FirstRefused
    <2>3. Kind(m) \in opts.tolerated
      BY <2>1, <2>2 DEF Offending
    <2>4. /\ target' \in [Docs -> {"absent", "own", "dump"}]
          /\ \A d \in Docs : target'[d] = IF d \in taken THEN "dump" ELSE target[d]
      BY <1>0, <2>1, TargetTyped
    <2> HIDE DEF m
    <2>5. Reach' = m
      BY <1>0, <1>1, <2>1, <2>2 DEF Reach
    <2>6. /\ inserted' \in Nat /\ skipped' \in Nat /\ m = inserted' + skipped'
          /\ start' \in Nat /\ start' <= NumDocs + 1
          /\ pc' = "insert" => 1 <= start' /\ start' <= stop
      BY <1>1, <1>2, <2>1, <2>2
    <2>7. \A d \in Docs :
            target'[d] = IF d \in start..m /\ d \notin Refused THEN "dump" ELSE target[d]
      BY <1>1, <2>2, <2>4 DEF Docs
    <2>8. \A d \in start..m : d \in Refused => Kind(d) \in opts.tolerated
      BY <1>1, <2>2, <2>3
    <2>9. pc' \in {"read", "insert"}
      BY <2>1
    <2> QED
      BY <1>0, <2>2, <2>4, <2>5, <2>6, <2>7, <2>8, <2>9
  <1>5. CASE UnorderedSkips
    <2> DEFINE in == Cardinality(Slice \ Refused)
               out == Cardinality(Refused)
    <2>1. /\ Offending = {} /\ Insert(Slice \ Refused) /\ pc' = "read"
          /\ inserted' = inserted + in /\ skipped' = skipped + out /\ start' = start
      BY <1>5 DEF UnorderedSkips
    <2>2. in \in Nat /\ out \in Nat /\ in + out = stop - start + 1
      BY <1>1, Cardinalities
    <2>3. /\ target' \in [Docs -> {"absent", "own", "dump"}]
          /\ \A d \in Docs : target'[d] = IF d \in start..stop /\ d \notin Refused THEN "dump" ELSE target[d]
      BY <1>0, <1>1, <2>1, TargetTyped
    <2>4. Reach' = stop
      BY <1>0, <1>1, <2>1 DEF Reach
    <2>5. \A d \in Refused : Kind(d) \in opts.tolerated
      BY <2>1 DEF Offending
    <2> HIDE DEF in, out
    <2>6. /\ inserted' \in Nat /\ skipped' \in Nat /\ stop = inserted' + skipped'
          /\ stop \in start..stop /\ start' <= NumDocs + 1
      BY <1>1, <1>2, <2>1, <2>2
    <2> QED
      BY <1>0, <1>1, <2>1, <2>3, <2>4, <2>5, <2>6
  <1> QED
    BY <1>3, <1>4, <1>5

\* What a lost or interrupted call leaves in the target is well formed.
LEMMA LostTyped ==
  ASSUME Typed, InsertLost \/ Crash \/ Clean
  PROVE  target' \in [Docs -> {"absent", "own", "dump"}]
  <1>1. CASE UNCHANGED target
    BY <1>1 DEF Typed
  <1>2. CASE Dropped
    BY <1>2 DEF Dropped
  <1>3. CASE \E docs \in TakenUnseen : Insert(docs)
    BY <1>3, TargetTyped
  <1>4. UNCHANGED target \/ Dropped \/ \E docs \in TakenUnseen : Insert(docs)
    BY DEF InsertLost, Crash, Clean
  <1> QED
    BY <1>1, <1>2, <1>3, <1>4

\* No step breaks a type.
LEMMA TypedStep ==
  ASSUME IInv, [Next]_vars
  PROVE  Typed'
  <1> USE DEF dump, tally, Goto, End
  <1>0. Typed /\ Position /\ Accounted
    BY DEF IInv
  <1>1. CASE Start
    BY <1>0, <1>1 DEF Start, Typed
  <1>2. CASE ReadMeta
    BY <1>0, <1>2 DEF ReadMeta, Typed
  <1>3. CASE Clean
    <2>1. target' \in [Docs -> {"absent", "own", "dump"}]
      BY <1>0, <1>3, LostTyped
    <2> QED
      BY <1>0, <1>3, <2>1 DEF Clean, Typed
  <1>4. CASE Ensure
    BY <1>0, <1>4 DEF Ensure, Typed
  <1>5. CASE Open
    BY <1>0, <1>5 DEF Open, Typed
  <1>6. CASE NextBatch
    BY <1>0, <1>6 DEF NextBatch, Typed, Batch
  <1>7. CASE EndOfStream \/ ReadFails \/ Check
    BY <1>0, <1>7 DEF EndOfStream, ReadFails, Check, Typed
  <1>8. CASE InsertAll \/ OrderedResume \/ UnorderedSkips
    BY <1>0, <1>8, BatchAdvances DEF Typed
  <1>9. CASE OrderedFails \/ UnorderedFails
    <2>1. inserted' \in Nat /\ skipped' \in Nat
      BY <1>0, <1>9, FailedCounts DEF OrderedFails, UnorderedFails
    <2>2. target' \in [Docs -> {"absent", "own", "dump"}]
      BY <1>0, <1>9, TargetTyped DEF OrderedFails, UnorderedFails
    <2> QED
      BY <1>0, <1>9, <2>1, <2>2 DEF OrderedFails, UnorderedFails, Typed
  <1>10. CASE InsertLost \/ Crash
    <2>1. target' \in [Docs -> {"absent", "own", "dump"}]
      BY <1>0, <1>10, LostTyped
    <2> QED
      BY <1>0, <1>10, <2>1 DEF InsertLost, Crash, Typed
  <1>11. CASE Terminating \/ UNCHANGED vars
    BY <1>0, <1>11 DEF Terminating, vars, Typed
  <1> QED
    BY <1>1, <1>2, <1>3, <1>4, <1>5, <1>6, <1>7, <1>8, <1>9, <1>10, <1>11
    DEF Next, RestoreItem, InsertBatch

\* The batch is where the reader has left it, within the dump.
LEMMA PositionStep ==
  ASSUME IInv, [Next]_vars
  PROVE  Position'
  <1> USE DEF dump, tally, Goto, End
  <1>0. Typed /\ Position /\ Accounted
    BY DEF IInv
  <1>1. CASE Start
    BY <1>0, <1>1 DEF Start, Typed, Position, Streaming
  <1>2. CASE ReadMeta \/ Clean \/ Ensure
    BY <1>0, <1>2 DEF ReadMeta, Clean, Ensure, Position, Streaming
  <1>3. CASE Open
    BY <1>0, <1>3 DEF Open, Typed, Position, Streaming
  <1>4. CASE NextBatch
    <2>1. /\ read \in Nat /\ blobLen \in Nat /\ blobLen <= NumDocs /\ Batch \in Nat /\ 1 <= Batch
          /\ read < blobLen /\ inserted \in Nat /\ skipped \in Nat /\ inserted + skipped <= read
      BY <1>0, <1>4 DEF NextBatch, Typed, Position, Batch
    <2>2. /\ pc' = "insert" /\ result' = "none" /\ start' = read + 1 /\ read' = stop'
          /\ stop' = IF read + Batch < blobLen THEN read + Batch ELSE blobLen
          /\ blobLen' = blobLen /\ inserted' = inserted /\ skipped' = skipped
      BY <1>0, <1>4 DEF NextBatch, Position
    <2> QED
      BY <2>1, <2>2 DEF Position, Streaming
  <1>5. CASE EndOfStream \/ ReadFails \/ Check
    BY <1>0, <1>5 DEF EndOfStream, ReadFails, Check, Position, Streaming
  <1>6. CASE InsertAll \/ OrderedResume \/ UnorderedSkips
    <2>1. stop \in Nat /\ stop = read /\ read <= NumDocs /\ read <= blobLen /\ start \in Nat
          /\ result = "none"
      BY <1>0, <1>6, BatchAdvances DEF Typed, Position, Streaming
    <2>2. inserted' + skipped' <= read
      BY <1>6, <2>1, BatchAdvances
    <2> QED
      BY <1>6, <2>1, <2>2, BatchAdvances DEF Position, Streaming
  <1>7. CASE OrderedFails \/ UnorderedFails
    <2>1. inserted' + skipped' <= read
      BY <1>0, <1>7, FailedCounts DEF OrderedFails, UnorderedFails
    <2> QED
      BY <1>0, <1>7, <2>1 DEF OrderedFails, UnorderedFails, Position, Streaming
  <1>8. CASE InsertLost \/ Crash
    BY <1>0, <1>8 DEF InsertLost, Crash, Position, Streaming
  <1>9. CASE Terminating \/ UNCHANGED vars
    BY <1>0, <1>9 DEF Terminating, vars, Position, Streaming
  <1> QED
    BY <1>1, <1>2, <1>3, <1>4, <1>5, <1>6, <1>7, <1>8, <1>9
    DEF Next, RestoreItem, InsertBatch

\* Every document behind the position is counted once.
LEMMA AccountedStep ==
  ASSUME IInv, [Next]_vars
  PROVE  Accounted'
  <1> USE DEF dump, tally, Goto, End
  <1>0. Typed /\ Position /\ Accounted
    BY DEF IInv
  <1>1. CASE Start \/ ReadMeta \/ Clean \/ Ensure \/ ReadFails \/ Check
             \/ OrderedFails \/ UnorderedFails \/ InsertLost \/ Crash
    <2>1. ~Streaming'
      BY <1>1 DEF Start, ReadMeta, Clean, Ensure, ReadFails, Check, OrderedFails, UnorderedFails,
                  InsertLost, Crash, Streaming
    <2> QED
      BY <2>1 DEF Accounted
  <1>2. CASE Open
    BY <1>0, <1>2 DEF Open, Position, Accounted, Streaming, Reach
  <1>3. CASE NextBatch
    <2>1. /\ UNCHANGED <<opts, target, inserted, skipped>> /\ Streaming
          /\ Reach = read /\ Reach' = read + 1 - 1 /\ read \in Nat
      BY <1>0, <1>3 DEF NextBatch, Typed, Streaming, Reach
    <2> QED
      BY <1>0, <2>1 DEF Accounted, Settled
  <1>4. CASE EndOfStream \/ Terminating \/ UNCHANGED vars
    BY <1>0, <1>4 DEF EndOfStream, Terminating, vars, Accounted, Streaming, Reach, Settled
  <1>5. CASE InsertAll \/ OrderedResume \/ UnorderedSkips
    <2>1. /\ start \in Nat /\ stop \in Nat /\ 1 <= start /\ stop <= NumDocs /\ NumDocs \in Nat
          /\ Reach = start - 1 /\ \A d \in 1..(start - 1) : Settled(d)
      BY <1>0, <1>5, BatchAdvances DEF Typed, Position, Accounted, Streaming, Reach
    <2>2. ASSUME NEW d \in 1..Reach'
          PROVE  Settled(d)'
      <3>1. Reach' \in start..stop /\ opts' = opts
        BY <1>5, BatchAdvances
      <3>2. d \in Docs /\ (d \in 1..(start - 1) \/ d \in start..Reach')
        BY <2>1, <3>1 DEF Docs
      <3>3. target'[d] = IF d \in start..Reach' /\ d \notin Refused THEN "dump" ELSE target[d]
        BY <1>5, <3>2, BatchAdvances
      <3>4. CASE d \in 1..(start - 1)
        BY <2>1, <3>1, <3>3, <3>4 DEF Settled
      <3>5. CASE d \in start..Reach' /\ d \notin Refused
        BY <3>3, <3>5 DEF Settled
      <3>6. CASE d \in start..Reach' /\ d \in Refused
        <4>1. Kind(d) \in opts.tolerated
          BY <1>5, <3>6, BatchAdvances
        <4>2. d \in Invalid \/ target[d] # "absent"
          BY <3>6 DEF Refused
        <4>3. target[d] \in {"absent", "own", "dump"} /\ target'[d] = target[d]
          BY <1>0, <3>2, <3>3, <3>6 DEF Typed
        <4> QED
          BY <3>1, <4>1, <4>2, <4>3 DEF Settled, Kind
      <3> QED
        BY <3>2, <3>4, <3>5, <3>6
    <2>3. Reach' = inserted' + skipped'
      BY <1>5, BatchAdvances
    <2> QED
      BY <2>2, <2>3 DEF Accounted
  <1> QED
    BY <1>1, <1>2, <1>3, <1>4, <1>5 DEF Next, RestoreItem, InsertBatch

\* After a clean the target has only what this run has put there.
LEMMA CleanedStep ==
  ASSUME IInv, [Next]_vars
  PROVE  Cleaned'
  <1> USE DEF dump, tally, Goto, End
  <1>0. Typed /\ Position /\ Accounted /\ Cleaned
    BY DEF IInv
  <1>1. CASE Start \/ ReadFails \/ Check \/ OrderedFails \/ UnorderedFails \/ InsertLost \/ Crash
    <2>1. ~Streaming' /\ pc' \notin {"ensure", "open"}
      BY <1>1 DEF Start, ReadFails, Check, OrderedFails, UnorderedFails, InsertLost, Crash, Streaming
    <2> QED
      BY <2>1 DEF Cleaned
  <1>2. CASE ReadMeta
    BY <1>0, <1>2 DEF ReadMeta, Cleaned, Streaming
  <1>3. CASE Clean
    BY <1>0, <1>3 DEF Clean, Dropped, Cleaned, Streaming
  <1>4. CASE Ensure
    BY <1>0, <1>4 DEF Ensure, Cleaned, Streaming
  <1>5. CASE Open
    <2>1. CASE pc' = "idle"
      BY <2>1 DEF Cleaned, Streaming
    <2>2. CASE pc' = "read"
      <3>1. /\ UNCHANGED <<opts, target>> /\ pc = "open" /\ read' = 0
        BY <1>0, <1>5, <2>2 DEF Open, Position
      <3> QED
        BY <1>0, <2>2, <3>1 DEF Cleaned, Streaming, Reach, Docs
    <2> QED
      BY <1>5, <2>1, <2>2 DEF Open
  <1>6. CASE NextBatch
    <2>1. /\ UNCHANGED <<opts, target>> /\ Streaming /\ pc' = "insert"
          /\ Reach = read /\ Reach' = read + 1 - 1 /\ read \in Nat
      BY <1>0, <1>6 DEF NextBatch, Typed, Streaming, Reach
    <2> QED
      BY <1>0, <2>1 DEF Cleaned
  <1>7. CASE EndOfStream \/ Terminating \/ UNCHANGED vars
    BY <1>0, <1>7 DEF EndOfStream, Terminating, vars, Cleaned, Streaming, Reach
  <1>8. CASE InsertAll \/ OrderedResume \/ UnorderedSkips
    <2>1. /\ start \in Nat /\ stop \in Nat /\ 1 <= start /\ stop <= NumDocs /\ NumDocs \in Nat
          /\ Slice = start..stop
          /\ opts.clean => \A d \in Docs :
               target[d] = IF d <= start - 1 /\ d \notin Invalid THEN "dump" ELSE "absent"
      BY <1>0, <1>8, BatchAdvances DEF Typed, Position, Cleaned, Streaming, Reach, Slice
    <2>2. ASSUME opts.clean, NEW d \in Docs
          PROVE  target'[d] = IF d <= Reach' /\ d \notin Invalid THEN "dump" ELSE "absent"
      <3>1. Reach' \in start..stop
        BY <1>8, BatchAdvances
      <3>2. target'[d] = IF d \in start..Reach' /\ d \notin Refused THEN "dump" ELSE target[d]
        BY <1>8, BatchAdvances
      <3>3. d \in Nat /\ 1 <= d
        BY DEF Docs
      <3>4. target[d] = IF d <= start - 1 /\ d \notin Invalid THEN "dump" ELSE "absent"
        BY <2>1, <2>2
      <3>5. d \in start..stop => (d \in Refused <=> d \in Invalid)
        BY <2>1, <3>3, <3>4 DEF Refused
      <3> QED
        BY <2>1, <3>1, <3>2, <3>3, <3>4, <3>5
    <2>3. pc' \in {"read", "insert"} /\ opts' = opts
      BY <1>8, BatchAdvances
    <2> QED
      BY <2>2, <2>3 DEF Cleaned
  <1> QED
    BY <1>1, <1>2, <1>3, <1>4, <1>5, <1>6, <1>7, <1>8 DEF Next, RestoreItem, InsertBatch

\* ok is reported only over a target with every document.
LEMMA OkStep ==
  ASSUME IInv, [Next]_vars
  PROVE  OkIsComplete' /\ CleanRestoreIsExact'
  <1> USE DEF dump, tally, Goto, End
  <1>0. Typed /\ Position /\ Accounted /\ Cleaned /\ OkIsComplete /\ CleanRestoreIsExact
    BY DEF IInv
  <1>1. CASE UNCHANGED vars
    BY <1>0, <1>1 DEF vars, OkIsComplete, CleanRestoreIsExact
  <1>2. CASE Start
    BY <1>2 DEF Start, OkIsComplete, CleanRestoreIsExact
  <1>3. CASE Check
    <2>1. CASE result' # "ok" \/ recorded' # NumDocs
      BY <2>1 DEF OkIsComplete, CleanRestoreIsExact
    <2>2. CASE result' = "ok" /\ recorded' = NumDocs
      <3>1. /\ pc = "check" /\ UNCHANGED <<opts, blobLen, recorded, target>>
            /\ recorded = NumDocs /\ read >= recorded
        BY <1>3, <2>2 DEF Check
      <3>2. blobLen = NumDocs /\ Reach = NumDocs
        BY <1>0, <3>1 DEF Typed, Position, Streaming, Reach
      <3>3. \A d \in Docs : Settled(d)
        BY <1>0, <3>1, <3>2 DEF Accounted, Streaming, Docs
      <3>4. OkIsComplete'
        BY <3>1, <3>2, <3>3 DEF OkIsComplete, Settled
      <3>5. CleanRestoreIsExact'
        <4>1. opts.clean => \A d \in Docs :
                target[d] = IF d <= NumDocs /\ d \notin Invalid THEN "dump" ELSE "absent"
          BY <1>0, <3>1, <3>2 DEF Cleaned, Streaming
        <4> QED
          BY <3>1, <4>1 DEF CleanRestoreIsExact, Docs
      <3> QED
        BY <3>4, <3>5
    <2> QED
      BY <2>1, <2>2
  <1>4. CASE RestoreItem \/ Crash
    <2>1. CASE Check
      BY <1>3, <2>1
    <2>2. CASE ~Check
      <3>1. pc # "idle" /\ (result' = result \/ result' \in {"insertError", "fatal", "killed"})
        BY <1>4, <2>2 DEF RestoreItem, InsertBatch, ReadMeta, Clean, Ensure, Open, NextBatch,
          EndOfStream, ReadFails, InsertAll, OrderedResume, OrderedFails, UnorderedSkips,
          UnorderedFails, InsertLost, Crash
      <3>2. result' # "ok"
        BY <1>0, <3>1 DEF Position
      <3> QED
        BY <3>2 DEF OkIsComplete, CleanRestoreIsExact
    <2> QED
      BY <2>1, <2>2
  <1> QED
    BY <1>1, <1>2, <1>4 DEF Next, Terminating

-----------------------------------------------------------------------------
(* Theorems *)

\* The inductive invariant holds in every reachable state.
THEOREM Invariance == Spec => []IInv
  <1>1. IInv /\ [Next]_vars => IInv'
    BY TypedStep, PositionStep, AccountedStep, CleanedStep, OkStep DEF IInv
  <1> QED
    BY InitIInv, <1>1, PTL DEF Spec

\* Every variable keeps its type: no counter runs past the dump, whatever the
\* batch size and however often a batch is submitted again (insert_documents).
THEOREM TypeCorrect == Spec => []TypeOK
  <1>1. IInv => TypeOK
    BY DEF IInv, Typed, Position, TypeOK
  <1> QED
    BY <1>1, Invariance, PTL

\* Between batches every document read so far is in the target or was refused
\* and tolerated, and it is counted exactly once (insert_batch).
THEOREM DocumentsAreAccounted == Spec => []EveryDocumentAccounted
  <1>1. IInv => EveryDocumentAccounted
    <2> SUFFICES ASSUME IInv, pc \in {"read", "check"} PROVE
          /\ read = inserted + skipped
          /\ \A d \in 1..read : target[d] # "absent" \/ (d \in Invalid /\ "invalid" \in opts.tolerated)
      BY DEF EveryDocumentAccounted
    <2>1. read = inserted + skipped /\ \A d \in 1..read : Settled(d)
      BY DEF IInv, Accounted, Streaming, Reach
    <2> QED
      BY <2>1 DEF Settled
  <1> QED
    BY <1>1, Invariance, PTL

\* A collection is reported restored only when its blob was complete and every
\* document is in the target, but for tolerated refusals (restore_item).
THEOREM OkMeansComplete == Spec => []OkIsComplete
  <1>1. IInv => OkIsComplete
    BY DEF IInv
  <1> QED
    BY <1>1, Invariance, PTL

\* A restore with --clean that succeeds leaves exactly the acceptable
\* documents of the dump, whatever the target held before.
THEOREM CleanIsIdempotent == Spec => []CleanRestoreIsExact
  <1>1. IInv => CleanRestoreIsExact
    BY DEF IInv
  <1> QED
    BY <1>1, Invariance, PTL
=============================================================================
