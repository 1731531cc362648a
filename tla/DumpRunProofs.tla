--------------------------- MODULE DumpRunProofs ---------------------------
(***************************************************************************)
(* Proofs about DumpRun, for every number of collections and workers, both *)
(* kinds of backend, and with or without index capture.                    *)
(*                                                                         *)
(* The inductive invariant says who owns what: a worker that is busy owns  *)
(* one claimed item whose slot is still empty, no two own the same one,    *)
(* and an empty slot below the cursor has an owner.  So once every worker  *)
(* has exited, an empty slot lies at or above the cursor, which means that *)
(* some worker left because of the flag, hence that a slot below failed.   *)
(***************************************************************************)
EXTENDS DumpRun, TLAPS

Holds(w) == wpc[w] \in Busy

OwnsClaimed ==
  \A w \in Workers : Holds(w) => /\ item[w] \in Items
                                 /\ item[w] < cursor
                                 /\ result[item[w]] = "none"

NoSharing ==
  \A v, w \in Workers : v # w /\ Holds(v) /\ Holds(w) => item[v] # item[w]

ClaimedHasOwner ==
  \A i \in Items : i < cursor /\ result[i] = "none" =>
    \E w \in Workers : Holds(w) /\ item[w] = i

UnclaimedHasNoResult == \A i \in Items : cursor <= i => result[i] = "none"

BlobsBehindProgress ==
  \A w \in Workers :
    /\ wpc[w] \in {"structure", "meta", "putMeta"} => data[item[w]] = "whole"
    /\ wpc[w] = "report" /\ out[w] = "ok" => Whole(item[w])

BlobsBehindResult == \A i \in Items : result[i] = "ok" => Whole(i)

OutIsSet ==
  \A w \in Workers : /\ wpc[w] = "store" => out[w] \in FailPoints
                     /\ wpc[w] = "report" => out[w] # "none"

ExitHasReason ==
  \A w \in Workers : wpc[w] = "exited" => cursor > NumItems \/ stopped # {}

StopHasReason ==
  \A w \in stopped : \/ wpc[w] = "report" /\ out[w] \in FailPoints
                     \/ \E i \in Items : result[i] \in FailPoints

Joined ==
  mainPc \in {"collect", "metadata", "putMetadata", "done"} =>
    \A w \in Workers : wpc[w] = "exited"

CollectedIsOk ==
  /\ \A i \in 1..collected : result[i] = "ok"
  /\ toc = [i \in 1..collected |-> i]

MetadataIsLast ==
  /\ mainPc \in {"metadata", "putMetadata", "done"} => collected = NumItems
  /\ metadata = "whole" => collected = NumItems /\ Ended
  /\ mainPc = "done" => metadata = "whole"

IInv ==
  /\ TypeOK
  /\ OwnsClaimed
  /\ NoSharing
  /\ ClaimedHasOwner
  /\ UnclaimedHasNoResult
  /\ BlobsBehindProgress
  /\ BlobsBehindResult
  /\ OutIsSet
  /\ ExitHasReason
  /\ StopHasReason
  /\ Joined
  /\ CollectedIsOk
  /\ MetadataIsLast

-----------------------------------------------------------------------------

USE NumItemsAssumption, JobsAssumption, MultipartAssumption, NoIndexesAssumption

\* The pool is never empty: a caller that joins it joins somebody.
LEMMA PoolNotEmpty == 1 \in Workers
  BY DEF Workers, NumWorkers, Sequential

\* The inductive invariant holds at first.
LEMMA InitIInv == Init => IInv
  <1> SUFFICES ASSUME Init PROVE IInv
    OBVIOUS
  <1> USE DEF Init
  <1>1. TypeOK
    BY DEF TypeOK, LoopHead, Results, Resources, Blobs, Busy, Items
  <1>2. \A w \in Workers : wpc[w] \in {"check", "claim"}
    BY DEF LoopHead
  <1>3. OwnsClaimed /\ NoSharing /\ BlobsBehindProgress /\ OutIsSet /\ ExitHasReason
    BY <1>2 DEF OwnsClaimed, NoSharing, BlobsBehindProgress, OutIsSet, ExitHasReason,
                Holds, Busy
  <1>4. ClaimedHasOwner /\ UnclaimedHasNoResult /\ BlobsBehindResult
    BY DEF ClaimedHasOwner, UnclaimedHasNoResult, BlobsBehindResult, Items
  <1>5. StopHasReason /\ Joined /\ CollectedIsOk /\ MetadataIsLast
    BY DEF StopHasReason, Joined, CollectedIsOk, MetadataIsLast
  <1> QED
    BY <1>1, <1>3, <1>4, <1>5 DEF IInv

\* No step breaks a type.
LEMMA TypeStep == TypeOK /\ [Next]_vars => TypeOK'
  <1> SUFFICES ASSUME TypeOK, [Next]_vars PROVE TypeOK'
    OBVIOUS
  <1> USE DEF TypeOK
  <1>1. CASE Main
    <2> USE DEF workerVars, storageVars
    <2>1. CASE Spawn
      BY <2>1 DEF Spawn
    <2>2. CASE StartFails
      BY <2>2 DEF StartFails
    <2>3. CASE Join
      BY <2>3 DEF Join
    <2>4. CASE CollectOk
      <3>1. collected + 1 \in Items /\ toc \in Seq(Items)
        BY <2>4 DEF CollectOk, Items
      <3>2. Append(toc, collected + 1) \in Seq(Items)
        BY <3>1
      <3>3. toc' = Append(toc, collected + 1) \/ toc' = toc
        BY <2>4 DEF CollectOk
      <3>4. toc' \in Seq(Items)
        BY <3>1, <3>2, <3>3
      <3>5. collected' \in 0..NumItems
        BY <2>4 DEF CollectOk
      <3> QED
        BY <2>4, <3>4, <3>5 DEF CollectOk
    <2>5. CASE CollectFails
      BY <2>5 DEF CollectFails
    <2>6. CASE CollectEnds
      BY <2>6 DEF CollectEnds
    <2>7. CASE BeginMetadata
      BY <2>7 DEF BeginMetadata, DuringPut, Blobs
    <2>8. CASE MetadataOk
      BY <2>8 DEF MetadataOk, Blobs
    <2>9. CASE MetadataFails
      BY <2>9 DEF MetadataFails, AfterFailedPut, Blobs
    <2> QED
      BY <1>1, <2>1, <2>2, <2>3, <2>4, <2>5, <2>6, <2>7, <2>8, <2>9 DEF Main
  <1>2. ASSUME NEW w \in Workers, Worker(w) PROVE TypeOK'
    <2> USE DEF Goto, Fails, mainVars, storageVars, Results, Resources, FailPoints, Blobs,
                Items, Busy
    <2>1. CASE LoadStopTrue(w)
      BY <2>1 DEF LoadStopTrue
    <2>2. CASE LoadStopFalse(w)
      BY <2>2 DEF LoadStopFalse
    <2>3. CASE Claim(w)
      BY <2>3 DEF Claim
    <2>4. CASE NothingLeft(w)
      BY <2>4 DEF NothingLeft
    <2>5. CASE StoreStop(w)
      BY <2>5 DEF StoreStop
    <2>6. CASE Report(w)
      BY <2>6 DEF Report, LoopHead
    <2>7. CASE CreateOk(w)
      BY <2>7 DEF CreateOk
    <2>8. CASE CreateFails(w)
      <3>1. PICK left \in Resources : resource' = [resource EXCEPT ![item[w]] = left]
        BY <2>8 DEF CreateFails, AfterCleanup
      <3> QED
        BY <2>8, <3>1 DEF CreateFails
    <2>9. CASE StreamOk(w)
      BY <2>9 DEF StreamOk
    <2>10. CASE StreamFails(w)
      <3>1. PICK left \in Resources : resource' = [resource EXCEPT ![item[w]] = left]
        BY <2>10 DEF StreamFails, AfterCleanup
      <3> QED
        BY <2>10, <3>1 DEF StreamFails
    <2>11. CASE BeginFinish(w)
      BY <2>11 DEF BeginFinish, DuringPut
    <2>12. CASE FinishOk(w)
      <3>1. PICK left \in Resources : resource' = [resource EXCEPT ![item[w]] = left]
        BY <2>12 DEF FinishOk, AfterCleanup
      <3> QED
        BY <2>12, <3>1 DEF FinishOk
    <2>13. CASE FinishFails(w)
      <3>1. PICK left \in Blobs : data' = [data EXCEPT ![item[w]] = left]
        BY <2>13 DEF FinishFails, AfterFailedPut
      <3>2. resource' \in [Items -> Resources]
        BY <2>13 DEF FinishFails
      <3> QED
        BY <2>13, <3>1, <3>2 DEF FinishFails
    <2>14. CASE PartFails(w)
      <3>1. PICK left \in Resources : resource' = [resource EXCEPT ![item[w]] = left]
        BY <2>14 DEF PartFails, AfterCleanup
      <3> QED
        BY <2>14, <3>1 DEF PartFails
    <2>15. CASE StructureOk(w)
      BY <2>15 DEF StructureOk
    <2>16. CASE StructureFails(w)
      BY <2>16 DEF StructureFails
    <2>17. CASE BeginMeta(w)
      BY <2>17 DEF BeginMeta, DuringPut
    <2>18. CASE MetaOk(w)
      BY <2>18 DEF MetaOk
    <2>19. CASE MetaFails(w)
      <3>1. PICK left \in Blobs : meta' = [meta EXCEPT ![item[w]] = left]
        BY <2>19 DEF MetaFails, AfterFailedPut
      <3> QED
        BY <2>19, <3>1 DEF MetaFails
    <2> QED
      BY <1>2, <2>1, <2>2, <2>3, <2>4, <2>5, <2>6, <2>7, <2>8, <2>9,
        <2>10, <2>11, <2>12, <2>13, <2>14, <2>15, <2>16, <2>17, <2>18, <2>19
      DEF Worker, DumpItem
  <1>3. CASE Crash
    BY <1>3 DEF Crash, workerVars, storageVars, Blobs
  <1>4. CASE UNCHANGED vars
    BY <1>4 DEF vars, mainVars, workerVars, storageVars
  <1> QED
    BY <1>1, <1>2, <1>3, <1>4 DEF Next, Terminating

\* Every variable keeps its type, for any number of collections and jobs.
THEOREM TypeCorrect == Spec => []TypeOK
  <1>1. Init => TypeOK
    BY InitIInv DEF IInv
  <1> QED
    BY <1>1, TypeStep, PTL DEF Spec

-----------------------------------------------------------------------------
(* Steps inside dump_item *)

\* A step of w inside dump_item moves w's own state and its own item's blobs,
\* and leaves w with its item.
OwnStep(w) ==
  /\ mainPc = "workers"
  /\ UNCHANGED <<mainVars, cursor, stopped, item, result>>
  /\ Holds(w) /\ wpc[w] # "report" /\ Holds(w)'
  /\ \A v \in Workers \ {w} : wpc'[v] = wpc[v] /\ out'[v] = out[v]
  /\ \A i \in Items \ {item[w]} : data'[i] = data[i] /\ meta'[i] = meta[i]

\* What OutIsSet and BlobsBehindProgress say of w after its own step.
OwnFacts(w) ==
  /\ wpc[w] = "store" => out[w] \in FailPoints
  /\ wpc[w] = "report" => out[w] # "none"
  /\ wpc[w] \in {"structure", "meta", "putMeta"} => data[item[w]] = "whole"
  /\ wpc[w] = "report" /\ out[w] = "ok" => Whole(item[w])

\* Every step of dump_item is such a step.
LEMMA DumpItemIsOwnStep ==
  ASSUME IInv, NEW w \in Workers, DumpItem(w)
  PROVE  OwnStep(w) /\ OwnFacts(w)'
  <1>0. /\ wpc \in [Workers -> {"check", "claim", "exited"} \cup Busy]
        /\ item \in [Workers -> Items \cup {0}]
        /\ out \in [Workers -> Results]
        /\ data \in [Items -> Blobs] /\ meta \in [Items -> Blobs]
        /\ Holds(w) => item[w] \in Items
        /\ wpc[w] \in {"structure", "meta", "putMeta"} => data[item[w]] = "whole"
    BY DEF IInv, TypeOK, OwnsClaimed, BlobsBehindProgress
  <1> USE <1>0 DEF Goto, Fails, OwnStep, OwnFacts, Holds, Busy, Whole, mainVars,
                   storageVars, FailPoints
  <1>1. CASE CreateOk(w)
    BY <1>1 DEF CreateOk
  <1>2. CASE CreateFails(w)
    BY <1>2 DEF CreateFails
  <1>3. CASE StreamOk(w)
    BY <1>3 DEF StreamOk
  <1>4. CASE StreamFails(w)
    BY <1>4 DEF StreamFails
  <1>5. CASE BeginFinish(w)
    BY <1>5 DEF BeginFinish
  <1>6. CASE FinishOk(w)
    BY <1>6 DEF FinishOk
  <1>7. CASE FinishFails(w)
    BY <1>7 DEF FinishFails
  <1>8. CASE PartFails(w)
    BY <1>8 DEF PartFails
  <1>9. CASE StructureOk(w)
    BY <1>9 DEF StructureOk
  <1>10. CASE StructureFails(w)
    BY <1>10 DEF StructureFails
  <1>11. CASE BeginMeta(w)
    BY <1>11 DEF BeginMeta
  <1>12. CASE MetaOk(w)
    BY <1>12 DEF MetaOk
  <1>13. CASE MetaFails(w)
    BY <1>13 DEF MetaFails
  <1> QED
    BY <1>1, <1>2, <1>3, <1>4, <1>5, <1>6, <1>7, <1>8, <1>9, <1>10, <1>11, <1>12, <1>13 DEF DumpItem

\* Such a step keeps every part of the invariant.
LEMMA OwnStepKeeps ==
  ASSUME IInv, NEW w \in Workers, TypeOK', OwnStep(w), OwnFacts(w)'
  PROVE  IInv'
  <1> USE DEF OwnStep
  <1>1. \A v \in Workers : Holds(v)' <=> Holds(v)
    BY DEF Holds
  <1>2. OwnsClaimed' /\ NoSharing' /\ ClaimedHasOwner' /\ UnclaimedHasNoResult'
    BY <1>1 DEF IInv, OwnsClaimed, NoSharing, ClaimedHasOwner, UnclaimedHasNoResult
  <1>3. BlobsBehindProgress'
    <2> SUFFICES ASSUME NEW v \in Workers, v # w
                 PROVE  /\ wpc'[v] \in {"structure", "meta", "putMeta"} =>
                              data'[item'[v]] = "whole"
                        /\ wpc'[v] = "report" /\ out'[v] = "ok" => Whole(item[v])'
      BY DEF OwnFacts, BlobsBehindProgress, Whole
    <2>1. Holds(v) => item[v] \in Items \ {item[w]}
      BY DEF IInv, OwnsClaimed, NoSharing
    <2>2. wpc[v] \in {"structure", "meta", "putMeta", "report"} => Holds(v)
      BY DEF Holds, Busy
    <2> QED
      BY <2>1, <2>2 DEF IInv, BlobsBehindProgress, Whole
  <1>4. BlobsBehindResult'
    BY DEF IInv, BlobsBehindResult, OwnsClaimed, Whole
  <1>5. OutIsSet'
    BY DEF IInv, OutIsSet, OwnFacts
  <1>6. ExitHasReason' /\ StopHasReason'
    BY DEF IInv, ExitHasReason, StopHasReason, Holds, Busy, TypeOK
  <1>7. Joined' /\ CollectedIsOk' /\ MetadataIsLast'
    BY DEF IInv, Joined, CollectedIsOk, MetadataIsLast, Ended, mainVars
  <1> QED
    BY <1>2, <1>3, <1>4, <1>5, <1>6, <1>7 DEF IInv

-----------------------------------------------------------------------------
(* Steps of the worker loop *)

\* The loads of the flag, and finding no work.
LEMMA LookStepKeeps ==
  ASSUME IInv, TypeOK', NEW w \in Workers,
         LoadStopTrue(w) \/ LoadStopFalse(w) \/ NothingLeft(w)
  PROVE  IInv'
  <1>1. /\ UNCHANGED <<mainVars, cursor, stopped, item, out, result, data, meta>>
        /\ mainPc = "workers"
        /\ wpc[w] \in {"check", "claim"} /\ wpc'[w] \in {"claim", "exited"}
        /\ wpc'[w] = "exited" => cursor > NumItems \/ stopped # {}
        /\ \A v \in Workers \ {w} : wpc'[v] = wpc[v]
    BY DEF IInv, TypeOK, LoadStopTrue, LoadStopFalse, NothingLeft, Goto, storageVars
  <1>2. \A v \in Workers : (Holds(v)' <=> Holds(v)) /\ (Holds(v) => v # w)
    BY <1>1 DEF Holds, Busy
  <1>3. OwnsClaimed' /\ NoSharing' /\ ClaimedHasOwner' /\ UnclaimedHasNoResult'
    BY <1>1, <1>2 DEF IInv, OwnsClaimed, NoSharing, ClaimedHasOwner, UnclaimedHasNoResult
  <1>4. BlobsBehindProgress' /\ BlobsBehindResult' /\ OutIsSet'
    BY <1>1 DEF IInv, BlobsBehindProgress, BlobsBehindResult, OutIsSet, Whole
  <1>5. ExitHasReason' /\ StopHasReason'
    BY <1>1 DEF IInv, ExitHasReason, StopHasReason, TypeOK
  <1>6. Joined' /\ CollectedIsOk' /\ MetadataIsLast'
    BY <1>1 DEF IInv, Joined, CollectedIsOk, MetadataIsLast, Ended, mainVars
  <1> QED
    BY <1>3, <1>4, <1>5, <1>6 DEF IInv

\* fetch_add gives a claimed item one owner.
LEMMA ClaimKeeps ==
  ASSUME IInv, TypeOK', NEW w \in Workers, Claim(w)
  PROVE  IInv'
  <1>1. /\ UNCHANGED <<mainVars, stopped, out, result, data, meta>>
        /\ mainPc = "workers"
        /\ cursor \in Items /\ cursor' = cursor + 1
        /\ wpc[w] = "claim" /\ wpc'[w] = "create" /\ item'[w] = cursor
        /\ \A v \in Workers \ {w} : wpc'[v] = wpc[v] /\ item'[v] = item[v]
    BY DEF IInv, TypeOK, Claim, Goto, storageVars, Items
  <1>2. /\ Holds(w)' /\ ~Holds(w)
        /\ \A v \in Workers \ {w} : Holds(v)' <=> Holds(v)
    BY <1>1 DEF Holds, Busy
  <1>3. \A v \in Workers \ {w} : Holds(v) => item[v] \in Items /\ item[v] < cursor
    BY DEF IInv, OwnsClaimed
  <1>4. OwnsClaimed'
    <2>1. result[cursor] = "none" /\ cursor < cursor + 1
      BY <1>1 DEF IInv, UnclaimedHasNoResult, Items
    <2>2. \A v \in Workers \ {w} : Holds(v) => item[v] < cursor + 1 /\ result[item[v]] = "none"
      BY <1>1, <1>3 DEF IInv, OwnsClaimed, Items
    <2> QED
      BY <1>1, <1>2, <1>3, <2>1, <2>2 DEF OwnsClaimed
  <1>5. NoSharing'
    BY <1>1, <1>2, <1>3 DEF IInv, NoSharing, Items
  <1>6. ClaimedHasOwner'
    <2> SUFFICES ASSUME NEW i \in Items, i <= cursor, result[i] = "none"
                 PROVE  \E v \in Workers : Holds(v)' /\ item'[v] = i
      BY <1>1 DEF ClaimedHasOwner, Items
    <2>1. CASE i = cursor
      BY <2>1, <1>1, <1>2
    <2>2. CASE i < cursor
      BY <2>2, <1>1, <1>2 DEF IInv, ClaimedHasOwner
    <2> QED
      BY <2>1, <2>2, <1>1 DEF Items
  <1>7. UnclaimedHasNoResult'
    BY <1>1 DEF IInv, UnclaimedHasNoResult, Items
  <1>8. BlobsBehindProgress' /\ BlobsBehindResult' /\ OutIsSet'
    <2>1. BlobsBehindProgress'
      <3> SUFFICES ASSUME NEW v \in Workers, v # w
                   PROVE  /\ wpc[v] \in {"structure", "meta", "putMeta"} =>
                                data[item[v]] = "whole"
                          /\ wpc[v] = "report" /\ out[v] = "ok" => Whole(item[v])
        BY <1>1 DEF BlobsBehindProgress, Whole
      <3> QED
        BY DEF IInv, BlobsBehindProgress
    <2> QED
      BY <1>1, <2>1 DEF IInv, BlobsBehindResult, OutIsSet, Whole
  <1>9. ExitHasReason' /\ StopHasReason'
    <2>1. ExitHasReason'
      BY <1>1 DEF IInv, ExitHasReason, Items
    <2>2. StopHasReason'
      BY <1>1 DEF IInv, StopHasReason, TypeOK
    <2> QED
      BY <2>1, <2>2
  <1>10. Joined' /\ CollectedIsOk' /\ MetadataIsLast'
    BY <1>1 DEF IInv, Joined, CollectedIsOk, MetadataIsLast, Ended, mainVars
  <1> QED
    BY <1>4, <1>5, <1>6, <1>7, <1>8, <1>9, <1>10 DEF IInv

\* A worker stores the flag only with a failure in hand.
LEMMA StoreStopKeeps ==
  ASSUME IInv, TypeOK', NEW w \in Workers, StoreStop(w)
  PROVE  IInv'
  <1>1. /\ UNCHANGED <<mainVars, cursor, item, out, result, data, meta>>
        /\ mainPc = "workers"
        /\ wpc[w] = "store" /\ wpc'[w] = "report" /\ stopped' = stopped \cup {w}
        /\ out[w] \in FailPoints
        /\ \A v \in Workers \ {w} : wpc'[v] = wpc[v]
    BY DEF IInv, TypeOK, OutIsSet, StoreStop, Goto, storageVars
  <1>2. \A v \in Workers : Holds(v)' <=> Holds(v)
    BY <1>1 DEF Holds, Busy
  <1>3. OwnsClaimed' /\ NoSharing' /\ ClaimedHasOwner' /\ UnclaimedHasNoResult'
    BY <1>1, <1>2 DEF IInv, OwnsClaimed, NoSharing, ClaimedHasOwner, UnclaimedHasNoResult
  <1>4. BlobsBehindProgress' /\ BlobsBehindResult' /\ OutIsSet'
    BY <1>1 DEF IInv, BlobsBehindProgress, BlobsBehindResult, OutIsSet, Whole, FailPoints
  <1>5. ExitHasReason' /\ StopHasReason'
    BY <1>1 DEF IInv, ExitHasReason, StopHasReason, TypeOK
  <1>6. Joined' /\ CollectedIsOk' /\ MetadataIsLast'
    BY <1>1 DEF IInv, Joined, CollectedIsOk, MetadataIsLast, Ended, mainVars
  <1> QED
    BY <1>3, <1>4, <1>5, <1>6 DEF IInv

\* Filling a slot ends the ownership of its item.
LEMMA ReportKeeps ==
  ASSUME IInv, TypeOK', NEW w \in Workers, Report(w)
  PROVE  IInv'
  <1>1. /\ UNCHANGED <<mainVars, cursor, stopped, item, out, data, meta>>
        /\ mainPc = "workers"
        /\ wpc[w] = "report" /\ wpc'[w] \in {"check", "claim"}
        /\ item[w] \in Items /\ item[w] < cursor /\ out[w] # "none"
        /\ result'[item[w]] = out[w]
        /\ \A i \in Items \ {item[w]} : result'[i] = result[i]
        /\ \A v \in Workers \ {w} : wpc'[v] = wpc[v]
    BY DEF IInv, TypeOK, OutIsSet, OwnsClaimed, Holds, Busy, Report, LoopHead, Goto,
           storageVars
  <1>2. /\ Holds(w) /\ ~Holds(w)'
        /\ \A v \in Workers \ {w} : Holds(v)' <=> Holds(v)
    BY <1>1 DEF Holds, Busy
  <1>3. \A v \in Workers \ {w} : Holds(v) => item[v] \in Items \ {item[w]}
    BY <1>2 DEF IInv, OwnsClaimed, NoSharing
  <1>4. OwnsClaimed' /\ NoSharing'
    BY <1>1, <1>2, <1>3 DEF IInv, OwnsClaimed, NoSharing
  <1>5. ClaimedHasOwner'
    BY <1>1, <1>2 DEF IInv, ClaimedHasOwner
  <1>6. UnclaimedHasNoResult'
    BY <1>1 DEF IInv, TypeOK, UnclaimedHasNoResult, Items
  <1>7. BlobsBehindProgress' /\ BlobsBehindResult' /\ OutIsSet'
    <2>1. BlobsBehindProgress' /\ OutIsSet'
      <3>1. \A v \in Workers : wpc'[v] = wpc[v] \/ wpc'[v] \in {"check", "claim"}
        BY <1>1
      <3>2. OutIsSet'
        BY <1>1, <3>1 DEF IInv, OutIsSet
      <3>3. BlobsBehindProgress'
        <4> SUFFICES ASSUME NEW v \in Workers
                     PROVE  /\ wpc'[v] \in {"structure", "meta", "putMeta"} =>
                                 data[item[v]] = "whole"
                            /\ wpc'[v] = "report" /\ out[v] = "ok" => Whole(item[v])
          BY <1>1 DEF BlobsBehindProgress, Whole
        <4> QED
          BY <3>1 DEF IInv, BlobsBehindProgress
      <3> QED
        BY <3>2, <3>3
    <2>2. out[w] = "ok" => Whole(item[w])
      BY <1>1 DEF IInv, BlobsBehindProgress
    <2>3. BlobsBehindResult'
      BY <1>1, <2>2 DEF IInv, BlobsBehindResult, Whole
    <2> QED
      BY <2>1, <2>3
  <1>8. ExitHasReason'
    BY <1>1 DEF IInv, ExitHasReason
  <1>9. StopHasReason'
    <2> SUFFICES ASSUME NEW v \in stopped
                 PROVE  \/ wpc'[v] = "report" /\ out[v] \in FailPoints
                        \/ \E i \in Items : result'[i] \in FailPoints
      BY <1>1 DEF StopHasReason
    <2>1. CASE \E i \in Items : result[i] \in FailPoints
      <3>1. result[item[w]] = "none"
        BY <1>2 DEF IInv, OwnsClaimed
      <3> QED
        BY <2>1, <3>1, <1>1 DEF FailPoints
    <2>2. CASE wpc[v] = "report" /\ out[v] \in FailPoints /\ v = w
      BY <2>2, <1>1
    <2>3. CASE wpc[v] = "report" /\ out[v] \in FailPoints /\ v # w
      BY <2>3, <1>1 DEF IInv, TypeOK
    <2> QED
      BY <2>1, <2>2, <2>3 DEF IInv, StopHasReason
  <1>10. Joined' /\ CollectedIsOk' /\ MetadataIsLast'
    <2>1. \A i \in Items : result[i] = "ok" => result'[i] = "ok"
      BY <1>1, <1>2 DEF IInv, OwnsClaimed
    <2> QED
      BY <1>1, <2>1 DEF IInv, TypeOK, Joined, CollectedIsOk, MetadataIsLast, Ended,
                        mainVars, Items
  <1> QED
    BY <1>4, <1>5, <1>6, <1>7, <1>8, <1>9, <1>10 DEF IInv

-----------------------------------------------------------------------------
(* Steps of the caller *)

\* After the join, an empty slot lies behind a failed one: some worker left
\* because of the flag, whoever stored it has reported a failure, and failures
\* are reported below the cursor.
LEMMA EmptySlotBehindFailure ==
  ASSUME IInv, mainPc = "collect", NEW i \in Items, result[i] = "none"
  PROVE  \E j \in 1..(i - 1) : result[j] \in FailPoints
  <1>1. \A w \in Workers : wpc[w] = "exited"
    BY DEF IInv, Joined
  <1>2. cursor <= i /\ cursor \in Int
    <2>1. cursor \in Int /\ i \in Int
      BY DEF IInv, TypeOK, Items
    <2>2. \A w \in Workers : ~Holds(w)
      BY <1>1 DEF Holds, Busy
    <2>3. ~(i < cursor)
      BY <2>2 DEF IInv, ClaimedHasOwner
    <2> QED
      BY <2>1, <2>3
  <1>3. stopped # {}
    BY <1>1, <1>2, PoolNotEmpty DEF IInv, ExitHasReason, Items
  <1>4. PICK j \in Items : result[j] \in FailPoints
    BY <1>1, <1>3 DEF IInv, TypeOK, StopHasReason
  <1>5. j < cursor
    BY <1>4, <1>2 DEF IInv, UnclaimedHasNoResult, FailPoints, Items
  <1> QED
    BY <1>2, <1>4, <1>5 DEF Items

\* The parts of the invariant that only speak of workers and storage.
PoolInv ==
  /\ OwnsClaimed
  /\ NoSharing
  /\ ClaimedHasOwner
  /\ UnclaimedHasNoResult
  /\ BlobsBehindProgress
  /\ BlobsBehindResult
  /\ OutIsSet
  /\ ExitHasReason
  /\ StopHasReason

\* The pool's part of the invariant speaks of workers, slots and storage only.
LEMMA PoolInvFrame ==
  ASSUME PoolInv, UNCHANGED <<workerVars, storageVars>>
  PROVE  PoolInv'
  BY DEF PoolInv, OwnsClaimed, NoSharing, ClaimedHasOwner, UnclaimedHasNoResult,
    BlobsBehindProgress, BlobsBehindResult, OutIsSet, ExitHasReason, StopHasReason,
    Holds, Whole, workerVars, storageVars

\* The caller's steps and a crash keep the invariant.
LEMMA CallerKeeps ==
  ASSUME IInv, TypeOK', Main \/ Crash
  PROVE  IInv'
  <1>1. UNCHANGED <<workerVars, storageVars>>
    BY DEF Main, Spawn, StartFails, Join, CollectOk, CollectFails, CollectEnds,
           BeginMetadata, MetadataOk, MetadataFails, Crash
  <1>2. PoolInv'
    BY <1>1, PoolInvFrame DEF IInv, PoolInv
  <1>3. Joined' /\ CollectedIsOk' /\ MetadataIsLast'
    <2> USE <1>1 DEF Joined, CollectedIsOk, MetadataIsLast, Ended, workerVars
    <2>1. CASE Spawn
      BY <2>1 DEF IInv, Spawn
    <2>2. CASE StartFails
      BY <2>2 DEF IInv, StartFails
    <2>3. CASE Join
      BY <2>3 DEF IInv, Join
    <2>4. CASE CollectOk
      <3>1. /\ collected \in Nat /\ collected + 1 \in Items
            /\ collected' = collected + 1
            /\ mainPc = "collect" /\ UNCHANGED <<mainPc, metadata>>
        BY <2>4 DEF IInv, TypeOK, CollectOk, Items
      <3>2. result[collected + 1] = "ok"
        <4>1. \A j \in 1..collected : result[j] \notin FailPoints
          BY DEF IInv, FailPoints
        <4>2. result[collected + 1] # "none"
          BY <3>1, <4>1, EmptySlotBehindFailure
        <4> QED
          BY <2>4, <3>1, <4>2 DEF IInv, TypeOK, CollectOk, Results
      <3>3. toc' = [i \in 1..(collected + 1) |-> i]
        <4>1. toc' = Append(toc, collected + 1) /\ toc = [i \in 1..collected |-> i]
          BY <2>4, <3>2 DEF IInv, CollectOk
        <4>2. Len([i \in 1..collected |-> i]) = collected
          BY <3>1
        <4> QED
          BY <4>1, <4>2, <3>1
      <3> QED
        BY <3>1, <3>2, <3>3 DEF IInv
    <2>5. CASE CollectFails
      BY <2>5 DEF IInv, CollectFails
    <2>6. CASE CollectEnds
      BY <2>6 DEF IInv, CollectEnds
    <2>7. CASE BeginMetadata
      BY <2>7 DEF IInv, BeginMetadata, DuringPut
    <2>8. CASE MetadataOk
      BY <2>8 DEF IInv, MetadataOk
    <2>9. CASE MetadataFails
      BY <2>9 DEF IInv, MetadataFails
    <2>10. CASE Crash
      BY <2>10 DEF IInv, Crash
    <2> QED
      BY <2>1, <2>2, <2>3, <2>4, <2>5, <2>6, <2>7, <2>8, <2>9, <2>10 DEF Main
  <1> QED
    BY <1>2, <1>3 DEF IInv, PoolInv

\* A stuttering step keeps the invariant.
LEMMA StutterKeeps ==
  ASSUME IInv, UNCHANGED vars
  PROVE  IInv'
  <1>1. UNCHANGED <<workerVars, storageVars>> /\ UNCHANGED mainVars
    BY DEF vars
  <1>2. PoolInv'
    BY <1>1, PoolInvFrame DEF IInv, PoolInv
  <1>3. TypeOK'
    BY TypeStep DEF IInv
  <1> QED
    BY <1>1, <1>2, <1>3 DEF IInv, PoolInv, Joined, CollectedIsOk, MetadataIsLast, Ended,
                            mainVars, workerVars

-----------------------------------------------------------------------------
(* The theorems *)

LEMMA IInvStep == IInv /\ [Next]_vars => IInv'
  <1> SUFFICES ASSUME IInv, [Next]_vars PROVE IInv'
    OBVIOUS
  <1>1. TypeOK'
    BY TypeStep DEF IInv
  <1>2. ASSUME NEW w \in Workers, Worker(w) PROVE IInv'
    <2>1. CASE DumpItem(w)
      BY <1>1, <2>1, DumpItemIsOwnStep, OwnStepKeeps
    <2>2. CASE LoadStopTrue(w) \/ LoadStopFalse(w) \/ NothingLeft(w)
      BY <1>1, <2>2, LookStepKeeps
    <2>3. CASE Claim(w)
      BY <1>1, <2>3, ClaimKeeps
    <2>4. CASE StoreStop(w)
      BY <1>1, <2>4, StoreStopKeeps
    <2>5. CASE Report(w)
      BY <1>1, <2>5, ReportKeeps
    <2> QED
      BY <1>2, <2>1, <2>2, <2>3, <2>4, <2>5 DEF Worker
  <1>3. CASE Main \/ Crash
    BY <1>1, <1>3, CallerKeeps
  <1>4. CASE UNCHANGED vars
    BY <1>4, StutterKeeps
  <1> QED
    BY <1>2, <1>3, <1>4 DEF Next, Terminating

\* The inductive invariant holds in every reachable state.
THEOREM Invariance == Spec => []IInv
  BY InitIInv, IInvStep, PTL DEF Spec

\* A dump that readers take for Done is complete and in source order, for any
\* number of collections and workers, and whatever failed or was killed.
THEOREM DoneDumpsAreComplete == Spec => []DoneIsComplete
  <1>1. IInv => DoneIsComplete
    BY DEF IInv, DoneIsComplete, MetadataIsLast, CollectedIsOk, BlobsBehindResult, Items
  <1> QED
    BY <1>1, Invariance, PTL

\* The `None => continue` arm of Dump::run is never reached by a run that goes
\* on to succeed: an unclaimed slot lies behind a failed one.
THEOREM NothingIsSkipped == Spec => []SkippedOnlyBehindAFailure
  <1>1. IInv => SkippedOnlyBehindAFailure
    BY EmptySlotBehindFailure DEF SkippedOnlyBehindAFailure
  <1> QED
    BY <1>1, Invariance, PTL

-----------------------------------------------------------------------------
(* One writer per blob *)

\* A step that writes a blob or a slot is that of a worker on an item whose slot
\* is empty.
LEMMA StepWritesOwnItem ==
  ASSUME IInv, [Next]_vars, NEW i \in Items, result[i] # "none"
  PROVE  data'[i] = data[i] /\ meta'[i] = meta[i] /\ result'[i] = result[i]
  <1>1. ASSUME NEW w \in Workers, Worker(w)
        PROVE  data'[i] = data[i] /\ meta'[i] = meta[i] /\ result'[i] = result[i]
    <2>1. Holds(w) => item[w] \in Items /\ result[item[w]] = "none"
      BY DEF IInv, OwnsClaimed
    <2>2. CASE DumpItem(w)
      <3>1. OwnStep(w)
        BY <2>2, DumpItemIsOwnStep
      <3> QED
        BY <2>1, <3>1 DEF OwnStep
    <2>3. CASE LoadStopTrue(w) \/ LoadStopFalse(w) \/ NothingLeft(w) \/ Claim(w) \/ StoreStop(w)
      BY <2>3 DEF LoadStopTrue, LoadStopFalse, NothingLeft, Claim, StoreStop, storageVars
    <2>4. CASE Report(w)
      BY <2>1, <2>4 DEF Report, Goto, Holds, Busy, storageVars, IInv, TypeOK
    <2> QED
      BY <1>1, <2>2, <2>3, <2>4 DEF Worker
  <1>2. CASE Main \/ Crash
    BY <1>2 DEF Main, Spawn, StartFails, Join, CollectOk, CollectFails, CollectEnds,
      BeginMetadata, MetadataOk, MetadataFails, Crash, workerVars, storageVars
  <1>3. CASE UNCHANGED vars
    BY <1>3 DEF vars, workerVars, storageVars
  <1> QED
    BY <1>1, <1>2, <1>3 DEF Next, Terminating

\* Once a slot is filled, no worker touches the item's blobs or its slot again,
\* for any number of workers sharing the cursor.
THEOREM BlobsHaveOneWriter == Spec => OneWriterPerBlob
  <1> DEFINE Untouched == \A i \in Items : result[i] # "none" =>
                             /\ data'[i] = data[i]
                             /\ meta'[i] = meta[i]
                             /\ result'[i] = result[i]
  <1>1. IInv /\ [Next]_vars => [Untouched]_vars
    BY StepWritesOwnItem
  <1>2. Spec => [][Untouched]_vars
    BY <1>1, Invariance, PTL DEF Spec
  <1> QED
    BY <1>2 DEF OneWriterPerBlob

-----------------------------------------------------------------------------
(* The stop flag *)

\* A pool worker reports a failure only behind its own store of the flag, and
\* one that has stored it comes no further than its next load.
OwnStoreIsSeen ==
  ~Sequential => \A w \in Workers :
    /\ wpc[w] = "report" => out[w] = "ok" \/ w \in stopped
    /\ wpc[w] \in {"check", "claim"} /\ item[w] # 0 => result[item[w]] = "ok" \/ w \in stopped
    /\ wpc[w] = "claim" => w \notin stopped

\* No step lets a worker pass its own store.
LEMMA OwnStoreStep == IInv /\ OwnStoreIsSeen /\ [Next]_vars => OwnStoreIsSeen'
  <1> SUFFICES ASSUME IInv, OwnStoreIsSeen, [Next]_vars, ~Sequential PROVE OwnStoreIsSeen'
    BY DEF OwnStoreIsSeen, Sequential
  <1>1. ASSUME NEW w \in Workers, Worker(w) PROVE OwnStoreIsSeen'
    <2> DEFINE Seen(v) ==
          /\ wpc[v] = "report" => out[v] = "ok" \/ v \in stopped
          /\ wpc[v] \in {"check", "claim"} /\ item[v] # 0 => result[item[v]] = "ok" \/ v \in stopped
          /\ wpc[v] = "claim" => v \notin stopped
    <2>1. /\ wpc \in [Workers -> {"check", "claim", "exited"} \cup Busy]
          /\ item \in [Workers -> Items \cup {0}]
          /\ out \in [Workers -> Results]
          /\ result \in [Items -> Results]
          /\ \A v \in Workers : Seen(v)
          /\ Holds(w) => item[w] \in Items /\ result[item[w]] = "none"
      BY DEF IInv, TypeOK, OwnsClaimed, OwnStoreIsSeen
    <2> SUFFICES ASSUME NEW v \in Workers PROVE Seen(v)'
      BY DEF OwnStoreIsSeen
    <2>2. CASE LoadStopTrue(w) \/ LoadStopFalse(w) \/ NothingLeft(w)
      BY <2>1, <2>2 DEF LoadStopTrue, LoadStopFalse, NothingLeft, Goto
    <2>3. CASE Claim(w)
      BY <2>1, <2>3 DEF Claim, Goto
    <2>4. CASE StoreStop(w)
      BY <2>1, <2>4 DEF StoreStop, Goto
    <2>5. CASE Report(w)
      <3>1. Holds(w) /\ out[w] \in Results /\ result' = [result EXCEPT ![item[w]] = out[w]]
            /\ wpc' = [wpc EXCEPT ![w] = "check"] /\ UNCHANGED <<stopped, item, out>>
            /\ wpc[w] = "report"
        BY <2>1, <2>5 DEF Report, Goto, LoopHead, Holds, Busy
      <3>2. item[v] # 0 => item[v] \in Items
        BY <2>1
      <3>3. v # w /\ item[v] # 0 /\ result[item[v]] = "ok" => result'[item[v]] = "ok"
        BY <2>1, <3>1, <3>2
      <3>4. v = w => result'[item[v]] = out[v]
        BY <2>1, <3>1
      <3> QED
        BY <2>1, <3>1, <3>3, <3>4
    <2>6. CASE DumpItem(w)
      BY <2>1, <2>6 DEF DumpItem, CreateOk, CreateFails, StreamOk, StreamFails, BeginFinish,
        FinishOk, FinishFails, PartFails, StructureOk, StructureFails, BeginMeta, MetaOk,
        MetaFails, Fails, Goto, FailPoints, Results
    <2> QED
      BY <1>1, <2>2, <2>3, <2>4, <2>5, <2>6 DEF Worker
  <1>2. CASE Main \/ Crash \/ UNCHANGED vars
    BY <1>2 DEF OwnStoreIsSeen, Main, Spawn, StartFails, Join, CollectOk, CollectFails,
      CollectEnds, BeginMetadata, MetadataOk, MetadataFails, Crash, vars, workerVars
  <1> QED
    BY <1>1, <1>2 DEF Next, Terminating

\* A pool worker whose collection failed claims no other, however late it sees
\* the stores of the others: a Relaxed load never misses the loading thread's own.
THEOREM FailedWorkersStop == Spec => FailedWorkerClaimsNoMore
  <1> DEFINE Stops == \A w \in Workers :
               item[w] # 0 /\ item'[w] # item[w] /\ ~Sequential => result[item[w]] = "ok"
  <1>1. Init => OwnStoreIsSeen
    BY DEF Init, OwnStoreIsSeen, LoopHead
  <1>2. IInv /\ OwnStoreIsSeen /\ [Next]_vars => Stops
    <2> SUFFICES ASSUME IInv, OwnStoreIsSeen, [Next]_vars, ~Sequential,
                        NEW w \in Workers, item[w] # 0, item'[w] # item[w]
                 PROVE  result[item[w]] = "ok"
      OBVIOUS
    <2>1. item \in [Workers -> Items \cup {0}]
      BY DEF IInv, TypeOK
    <2>2. PICK v \in Workers : Claim(v)
      BY DEF Next, Terminating, Worker, DumpItem, LoadStopTrue, LoadStopFalse, NothingLeft,
        StoreStop, Report, CreateOk, CreateFails, StreamOk, StreamFails, BeginFinish,
        FinishOk, FinishFails, PartFails, StructureOk, StructureFails, BeginMeta, MetaOk,
        MetaFails, Fails, Main, Spawn, StartFails, Join, CollectOk, CollectFails,
        CollectEnds, BeginMetadata, MetadataOk, MetadataFails, Crash, vars, workerVars
    <2>3. v = w /\ wpc[w] = "claim"
      BY <2>1, <2>2 DEF Claim, Goto
    <2> QED
      BY <2>3 DEF OwnStoreIsSeen
  <1>3. IInv /\ OwnStoreIsSeen /\ [Next]_vars => [Stops]_vars
    BY <1>2
  <1>4. Spec => []OwnStoreIsSeen
    BY <1>1, OwnStoreStep, Invariance, PTL DEF Spec
  <1>5. Spec => [][Stops]_vars
    BY <1>3, <1>4, Invariance, PTL DEF Spec
  <1> QED
    BY <1>5 DEF FailedWorkerClaimsNoMore

-----------------------------------------------------------------------------
(* What a run leaves over *)

\* An open spool file or upload has a worker that will still release it, or
\* belongs to an item whose result says why nobody can.
OpenHasReason ==
  \A i \in Items : resource[i] = "open" =>
    \/ result[i] \in NobodyTried
    \/ \E w \in Workers :
         /\ item[w] = i
         /\ \/ wpc[w] \in {"stream", "finish", "putData"}
            \/ wpc[w] \in {"store", "report"} /\ out[w] \in NobodyTried

\* An orphaned one belongs to an item that somebody has cleaned up after, or to
\* one with a worker past that point.
OrphanHasReason ==
  \A i \in Items : resource[i] = "orphaned" =>
    \/ result[i] \in TriedInVain
    \/ \E w \in Workers :
         /\ item[w] = i
         /\ \/ ~Multipart /\ wpc[w] \in {"structure", "meta", "putMeta"}
            \/ wpc[w] \in {"store", "report"} /\ out[w] \in TriedInVain

\* Nobody is on an item but between the spawn and the join.
IdleOutsidePool ==
  mainPc \notin {"workers", "crashed"} => \A w \in Workers : ~Holds(w)

LInv == IInv /\ OpenHasReason /\ OrphanHasReason /\ IdleOutsidePool

\* A resource in hand has a worker that will release it.
LEMMA LInvStep == LInv /\ [Next]_vars => LInv'
  <1> SUFFICES ASSUME LInv, [Next]_vars PROVE LInv'
    OBVIOUS
  <1>0. IInv /\ IInv'
    BY IInvStep DEF LInv
  <1>1. ASSUME NEW w \in Workers, Worker(w) PROVE LInv'
    <2>0. mainPc = "workers" /\ mainPc' = "workers"
      BY <1>1 DEF Worker, DumpItem, LoadStopTrue, LoadStopFalse, Claim, NothingLeft,
        StoreStop, Report, CreateOk, CreateFails, StreamOk, StreamFails, BeginFinish,
        FinishOk, FinishFails, PartFails, StructureOk, StructureFails, BeginMeta,
        MetaOk, MetaFails, Fails, Goto, mainVars
    <2>1. /\ wpc \in [Workers -> {"check", "claim", "exited"} \cup Busy]
          /\ item \in [Workers -> Items \cup {0}]
          /\ out \in [Workers -> Results]
          /\ result \in [Items -> Results]
          /\ resource \in [Items -> Resources]
          /\ Holds(w) => item[w] \in Items /\ result[item[w]] = "none"
          /\ \A v \in Workers : v # w /\ Holds(v) /\ Holds(w) => item[v] # item[w]
      BY <1>0 DEF IInv, TypeOK, OwnsClaimed, NoSharing
    <2> DEFINE
      Held(i, v) == /\ item[v] = i
                    /\ \/ wpc[v] \in {"stream", "finish", "putData"}
                       \/ wpc[v] \in {"store", "report"} /\ out[v] \in NobodyTried
      Left(i, v) == /\ item[v] = i
                    /\ \/ ~Multipart /\ wpc[v] \in {"structure", "meta", "putMeta"}
                       \/ wpc[v] \in {"store", "report"} /\ out[v] \in TriedInVain
    <2> SUFFICES ASSUME NEW i \in Items
                 PROVE  /\ resource'[i] = "open" =>
                             result'[i] \in NobodyTried \/ \E v \in Workers : Held(i, v)'
                        /\ resource'[i] = "orphaned" =>
                             result'[i] \in TriedInVain \/ \E v \in Workers : Left(i, v)'
      BY <1>0, <2>0 DEF LInv, OpenHasReason, OrphanHasReason, IdleOutsidePool
    <2>2. /\ resource[i] = "open" =>
               result[i] \in NobodyTried \/ \E v \in Workers : Held(i, v)
          /\ resource[i] = "orphaned" =>
               result[i] \in TriedInVain \/ \E v \in Workers : Left(i, v)
      BY DEF LInv, OpenHasReason, OrphanHasReason
    <2> USE <2>1, <2>2 DEF NobodyTried, TriedInVain, Resources, AfterCleanup, Goto, Fails, Holds, Busy, mainVars, storageVars
    <2>3. CASE LoadStopTrue(w) \/ LoadStopFalse(w) \/ NothingLeft(w)
      BY <2>3 DEF LoadStopTrue, LoadStopFalse, NothingLeft
    <2>4. CASE Claim(w)
      BY <2>4 DEF Claim
    <2>5. CASE StoreStop(w)
      BY <2>5 DEF StoreStop
    <2>6. CASE Report(w)
      BY <2>6 DEF Report
    <2>7. CASE CreateOk(w)
      BY <2>7 DEF CreateOk
    <2>8. CASE CreateFails(w)
      BY <2>8 DEF CreateFails
    <2>9. CASE StreamOk(w)
      BY <2>9 DEF StreamOk
    <2>10. CASE StreamFails(w)
      BY <2>10 DEF StreamFails
    <2>11. CASE BeginFinish(w)
      BY <2>11 DEF BeginFinish
    <2>12. CASE FinishOk(w)
      BY <2>12 DEF FinishOk
    <2>13. CASE FinishFails(w)
      BY <2>13 DEF FinishFails
    <2>14. CASE PartFails(w)
      BY <2>14 DEF PartFails
    <2>15. CASE StructureOk(w)
      BY <2>15 DEF StructureOk
    <2>16. CASE StructureFails(w)
      BY <2>16 DEF StructureFails
    <2>17. CASE BeginMeta(w)
      BY <2>17 DEF BeginMeta
    <2>18. CASE MetaOk(w)
      BY <2>18 DEF MetaOk
    <2>19. CASE MetaFails(w)
      BY <2>19 DEF MetaFails
    <2> QED
      BY <1>1, <2>3, <2>4, <2>5, <2>6, <2>7, <2>8, <2>9, <2>10, <2>11, <2>12, <2>13,
        <2>14, <2>15, <2>16, <2>17, <2>18, <2>19
      DEF Worker, DumpItem
  <1>2. CASE Main \/ Crash
    <2>1. UNCHANGED <<workerVars, storageVars>>
      BY <1>2 DEF Main, Spawn, StartFails, Join, CollectOk, CollectFails, CollectEnds,
        BeginMetadata, MetadataOk, MetadataFails, Crash
    <2>2. OpenHasReason' /\ OrphanHasReason'
      BY <2>1 DEF LInv, OpenHasReason, OrphanHasReason, workerVars, storageVars
    <2>3. IdleOutsidePool'
      BY <1>2, <2>1 DEF LInv, IdleOutsidePool, Holds, Busy, workerVars, Main, Spawn,
        StartFails, Join, CollectOk, CollectFails, CollectEnds, BeginMetadata, MetadataOk,
        MetadataFails, Crash
    <2> QED
      BY <1>0, <2>2, <2>3 DEF LInv
  <1>3. CASE UNCHANGED vars
    BY <1>0, <1>3 DEF LInv, OpenHasReason, OrphanHasReason, IdleOutsidePool, Holds, vars, mainVars, workerVars,
      storageVars
  <1> QED
    BY <1>0, <1>1, <1>2, <1>3 DEF LInv, Next, Terminating

\* A run that ends by itself has cleaned up, or tried to clean up, after every
\* collection but those whose finish() failed or whose upload it never learnt of.
THEOREM CleanupNeverForgets == Spec => []CleanupIsTried
  <1>1. Init => LInv
    <2> SUFFICES ASSUME Init PROVE OpenHasReason /\ OrphanHasReason /\ IdleOutsidePool
      BY InitIInv DEF LInv
    <2>1. \A w \in Workers : wpc[w] \in {"check", "claim"}
      BY DEF Init, LoopHead
    <2> QED
      BY <2>1 DEF Init, OpenHasReason, OrphanHasReason, IdleOutsidePool, Holds, Busy
  <1>2. LInv => CleanupIsTried
    BY DEF LInv, OpenHasReason, OrphanHasReason, IdleOutsidePool, CleanupIsTried, Holds, Busy
  <1> QED
    BY <1>1, <1>2, LInvStep, PTL DEF Spec

-----------------------------------------------------------------------------
(* DumpRun implements AtomicDump *)

RestorableByMetadata ==
  /\ metadata = "whole" => Restorable = Items
  /\ metadata # "whole" => Restorable = {}
  /\ ~Ended => Restorable = {}

\* What a restore can read of the dump is decided by the dump's metadata.
LEMMA RestorableIsAllOrNothing == IInv => RestorableByMetadata
  <1> SUFFICES ASSUME IInv PROVE RestorableByMetadata
    OBVIOUS
  <1>1. metadata = "whole" => Restorable = Items
    <2> SUFFICES ASSUME metadata = "whole", NEW i \in Items
                 PROVE  Whole(i) /\ \E k \in DOMAIN toc : toc[k] = i
      BY DEF Restorable
    <2>1. /\ result[i] = "ok"
          /\ toc = [k \in Items |-> k]
      BY DEF IInv, MetadataIsLast, CollectedIsOk, Items
    <2> QED
      BY <2>1 DEF IInv, BlobsBehindResult
  <1> QED
    BY <1>1 DEF RestorableByMetadata, Restorable, IInv, MetadataIsLast

\* Every step of the run is a step of the promise, or none.
LEMMA StepRefines ==
  ASSUME IInv, IInv', [Next]_vars
  PROVE  [Promise!Next]_(Promise!vars)
  <1> USE DEF Outcome, Ended
  <1>1. /\ ~Ended => Restorable = {}
        /\ ~Ended' => Restorable' = {}
        /\ Restorable' \in {{}, Items}
        /\ metadata' = "whole" => Restorable' = Items
    <2>1. RestorableByMetadata
      BY RestorableIsAllOrNothing
    <2>2. RestorableByMetadata'
      BY RestorableIsAllOrNothing, PTL
    <2> QED
      BY <2>1, <2>2 DEF RestorableByMetadata
  <1>2. CASE ~Ended /\ ~Ended'
    BY <1>1, <1>2 DEF Promise!vars
  <1>3. CASE ~Ended /\ mainPc' = "done"
    <2>1. Promise!Succeed
      BY <1>1, <1>3 DEF Promise!Succeed, IInv, MetadataIsLast
    <2> QED
      BY <2>1 DEF Promise!Next
  <1>4. CASE ~Ended /\ mainPc' \in {"failed", "crashed"}
    <2>1. Promise!GiveUp
      BY <1>1, <1>4 DEF Promise!GiveUp
    <2> QED
      BY <2>1 DEF Promise!Next
  <1>5. CASE Ended
    <2>1. UNCHANGED vars
      BY <1>5 DEF Next, Terminating, Main, Spawn, StartFails, Join, CollectOk,
        CollectFails, CollectEnds, BeginMetadata, MetadataOk, MetadataFails, Crash,
        Worker, DumpItem, LoadStopTrue, LoadStopFalse, Claim, NothingLeft, StoreStop,
        Report, CreateOk, CreateFails, StreamOk, StreamFails, BeginFinish, FinishOk,
        FinishFails, PartFails, StructureOk, StructureFails, BeginMeta, MetaOk,
        MetaFails, Fails, Goto
    <2> QED
      BY <2>1 DEF Promise!vars, vars, mainVars, storageVars, Restorable, Whole
  <1> QED
    BY <1>2, <1>3, <1>4, <1>5

\* Every behaviour of a dump run is a behaviour of the atomic dump: the caller
\* is told "succeeded" only of a dump with every collection, and no end of the
\* run, by failure or crash, leaves a restorable part of one.
THEOREM DumpIsAtomic == Spec => AllOrNothing
  <1>1. Init => Promise!Init
    BY DEF Init, Promise!Init, Outcome, Ended, Restorable
  <1>2. IInv /\ IInv' /\ [Next]_vars => [Promise!Next]_(Promise!vars)
    BY StepRefines
  <1> QED
    BY <1>1, <1>2, Invariance, PTL DEF Spec, AllOrNothing, Promise!Spec
=============================================================================
