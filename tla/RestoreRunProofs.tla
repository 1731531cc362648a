-------------------------- MODULE RestoreRunProofs --------------------------
(***************************************************************************)
(* Proofs about RestoreRun, for every number of collections and of jobs    *)
(* and for every combination of options.                                   *)
(*                                                                         *)
(* A worker on an item owns it, as in DumpRunProofs.  What is new is what  *)
(* a result says about the target: the collection is loaded exactly if it  *)
(* is "ok", and indexed too unless indexes are left to the pass in         *)
(* dependency order.  The tally keeps the failed ones apart, and a slot    *)
(* nobody filled is never reached by it: a fatal one lies ahead.           *)
(***************************************************************************)
EXTENDS RestoreRun, TLAPS

Busy     == {"setup", "load", "index", "report"}
Holds(w) == wpc[w] \in Busy

OwnsClaimed ==
  \A w \in Workers : Holds(w) => /\ item[w] \in Items
                                 /\ item[w] < cursor
                                 /\ result[item[w]] = "none"

NoSharing ==
  \A v, w \in Workers : v # w /\ Holds(v) /\ Holds(w) => item[v] # item[w]

ClaimedHasOwner ==
  \A i \in Items : i < cursor /\ result[i] = "none" =>
    \E w \in Workers : Holds(w) /\ item[w] = i

UnclaimedHasNoResult == \A i \in Items : cursor <= i => result[i] = "none"

\* What the end of an item says about the target.
Truth(outcome, i) ==
  /\ outcome # "none"
  /\ outcome = "ok" => /\ docs[i] = "loaded"
                       /\ opts.dependencyOrder \/ indexed[i] = "all"
  /\ outcome = "failed" => docs[i] # "loaded"

ProgressIsTrue ==
  \A w \in Workers :
    /\ wpc[w] = "load" => docs[item[w]] = "partial"
    /\ wpc[w] = "index" => docs[item[w]] = "loaded" /\ ~opts.dependencyOrder
    /\ wpc[w] = "report" => Truth(out[w], item[w])

ResultIsTrue == \A i \in Items : result[i] # "none" => Truth(result[i], i)

\* A pool worker leaves when there is no work, or because of the flag, which is
\* stored for a fatal result under --exit-on-error only.
ExitHasReason ==
  mainPc \notin {"start", "error"} =>
    \A w \in Pool : wpc[w] = "exited" => cursor > NumItems \/ stopped # {}

StopHasReason ==
  stopped # {} => opts.exitOnError /\ \E i \in Items : result[i] = "fatal"

Joined == mainPc # "workers" => \A w \in Workers : wpc[w] = "exited"

TallyIsTrue ==
  /\ mainPc \in {"start", "workers"} => tallied = 0
  /\ \A i \in 1..tallied : result[i] \in {"ok", "failed"}
  /\ \A i \in Items : (\E k \in DOMAIN failed : failed[k] = i) <=> i <= tallied /\ result[i] = "failed"
  /\ mainPc \in {"indexes", "post", "ok"} => tallied = NumItems

PassIsTrue ==
  /\ mainPc \in {"start", "workers", "tally"} => passed = 0
  /\ mainPc = "indexes" => opts.dependencyOrder
  /\ \A i \in 1..passed : indexed[i] = "all"
  /\ mainPc \in {"post", "ok"} /\ opts.dependencyOrder => passed = NumItems
  /\ opts.dependencyOrder /\ mainPc \in {"start", "workers", "tally"} =>
       \A i \in Items : indexed[i] = "none"
  /\ mainPc = "ok" => failed = <<>>

IInv ==
  /\ TypeOK
  /\ OwnsClaimed
  /\ NoSharing
  /\ ClaimedHasOwner
  /\ UnclaimedHasNoResult
  /\ ProgressIsTrue
  /\ ResultIsTrue
  /\ ExitHasReason
  /\ StopHasReason
  /\ Joined
  /\ TallyIsTrue
  /\ PassIsTrue

-----------------------------------------------------------------------------

USE ItemsAssumption, JobsAssumption

\* The pool is never empty, and no larger than --jobs.
LEMMA PoolIsSound == TypeOK => 1 \in Pool /\ Pool \subseteq Workers
  BY DEF TypeOK, Options, Pool, Workers, Sequential

\* The inductive invariant holds at first.
LEMMA InitIInv == Init => IInv
  <1> SUFFICES ASSUME Init PROVE IInv
    OBVIOUS
  <1> USE DEF Init
  <1>1. TypeOK
    BY DEF TypeOK, Results, Items, Options
  <1>2. OwnsClaimed /\ NoSharing /\ ProgressIsTrue
    BY DEF OwnsClaimed, NoSharing, ProgressIsTrue, Holds, Busy
  <1>3. ClaimedHasOwner /\ UnclaimedHasNoResult /\ ResultIsTrue
    BY DEF ClaimedHasOwner, UnclaimedHasNoResult, ResultIsTrue, Items
  <1>4. ExitHasReason /\ StopHasReason /\ Joined
    BY DEF ExitHasReason, StopHasReason, Joined
  <1>5. TallyIsTrue /\ PassIsTrue
    BY DEF TallyIsTrue, PassIsTrue, Items
  <1> QED
    BY <1>1, <1>2, <1>3, <1>4, <1>5 DEF IInv

\* No step breaks a type.
LEMMA TypeStep == TypeOK /\ [Next]_vars => TypeOK'
  <1> SUFFICES ASSUME TypeOK, [Next]_vars PROVE TypeOK'
    OBVIOUS
  <1> USE DEF TypeOK
  <1>1. CASE MainStep
    <2> USE DEF workerVars, targetVars, Items
    <2>1. CASE Spawn
      BY <2>1 DEF Spawn, LoopHead
    <2>2. CASE StartFails
      BY <2>2 DEF StartFails
    <2>3. CASE Join
      BY <2>3 DEF Join
    <2>4. CASE TallyResult
      <3>1. tallied + 1 \in Items /\ failed \in Seq(Items)
        BY <2>4 DEF TallyResult
      <3>2. Append(failed, tallied + 1) \in Seq(Items)
        BY <3>1
      <3>3. failed' \in Seq(Items)
        BY <2>4, <3>1, <3>2 DEF TallyResult
      <3> QED
        BY <2>4, <3>3 DEF TallyResult
    <2>5. CASE TallyFatal
      BY <2>5 DEF TallyFatal
    <2>6. CASE TallyEnds
      BY <2>6 DEF TallyEnds
    <2>7. CASE PassIndexes
      BY <2>7 DEF PassIndexes
    <2>8. CASE PassFails
      <3>1. PICK some \in {"none", "some", "all"} :
              indexed' = [indexed EXCEPT ![passed + 1] = some]
        BY <2>8 DEF PassFails
      <3> QED
        BY <2>8, <3>1 DEF PassFails
    <2>9. CASE PassEnds
      BY <2>9 DEF PassEnds
    <2>10. CASE PostOk
      BY <2>10 DEF PostOk
    <2>11. CASE PostFails
      BY <2>11 DEF PostFails
    <2> QED
      BY <1>1, <2>1, <2>2, <2>3, <2>4, <2>5, <2>6, <2>7, <2>8, <2>9, <2>10, <2>11 DEF MainStep
  <1>2. ASSUME NEW w \in Workers, WorkerStep(w) PROVE TypeOK'
    <2> USE DEF Goto, Step, mainVars, targetVars, Results, Items
    <2>1. CASE LoadStopTrue(w)
      BY <2>1 DEF LoadStopTrue
    <2>2. CASE LoadStopFalse(w)
      BY <2>2 DEF LoadStopFalse
    <2>3. CASE Claim(w)
      BY <2>3 DEF Claim
    <2>4. CASE NothingLeft(w)
      BY <2>4 DEF NothingLeft
    <2>5. CASE Report(w)
      BY <2>5 DEF Report, Slotted, LoopHead
    <2>6. CASE SetupOk(w)
      BY <2>6 DEF SetupOk
    <2>7. CASE SetupFails(w)
      BY <2>7 DEF SetupFails
    <2>8. CASE LoadOk(w)
      BY <2>8 DEF LoadOk
    <2>9. CASE LoadFails(w)
      BY <2>9 DEF LoadFails
    <2>10. CASE IndexOk(w)
      BY <2>10 DEF IndexOk
    <2>11. CASE IndexFails(w)
      <3>1. PICK some \in {"none", "some", "all"} :
              indexed' = [indexed EXCEPT ![item[w]] = some]
        BY <2>11 DEF IndexFails
      <3> QED
        BY <2>11, <3>1 DEF IndexFails
    <2> QED
      BY <1>2, <2>1, <2>2, <2>3, <2>4, <2>5, <2>6, <2>7, <2>8, <2>9, <2>10, <2>11
      DEF WorkerStep, LoopStep, ItemStep
  <1>3. CASE UNCHANGED vars
    BY <1>3 DEF vars, mainVars, workerVars, targetVars
  <1> QED
    BY <1>1, <1>2, <1>3 DEF Next, Terminating

\* Every reachable state is well typed.
THEOREM TypeCorrect == Spec => []TypeOK
  <1>1. Init => TypeOK
    BY InitIInv DEF IInv
  <1> QED
    BY <1>1, TypeStep, PTL DEF Spec

-----------------------------------------------------------------------------
(* Steps of restore_item *)

\* A step of w on its item moves w's own state and its own item's part of the
\* target, and leaves w with its item.
OwnStep(w) ==
  /\ mainPc = "workers"
  /\ UNCHANGED <<mainVars, cursor, stopped, item, result>>
  /\ Holds(w) /\ Holds(w)'
  /\ \A v \in Workers \ {w} : wpc'[v] = wpc[v] /\ out'[v] = out[v]
  /\ \A i \in Items \ {item[w]} : docs'[i] = docs[i] /\ indexed'[i] = indexed[i]
  /\ opts.dependencyOrder => indexed' = indexed

\* What ProgressIsTrue says of w after its own step.
OwnFacts(w) ==
  /\ wpc[w] = "load" => docs[item[w]] = "partial"
  /\ wpc[w] = "index" => docs[item[w]] = "loaded" /\ ~opts.dependencyOrder
  /\ wpc[w] = "report" => Truth(out[w], item[w])

\* Each call of restore_item touches only the item of its worker, and keeps what
\* the worker knows of it true.
LEMMA ItemStepIsOwnStep ==
  ASSUME IInv, NEW w \in Workers, ItemStep(w)
  PROVE  OwnStep(w) /\ OwnFacts(w)'
  <1>0. /\ opts \in Options
        /\ wpc \in [Workers -> {"check", "claim", "setup", "load", "index", "report", "exited"}]
        /\ item \in [Workers -> Items \cup {0}]
        /\ out \in [Workers -> Results]
        /\ docs \in [Items -> {"untouched", "partial", "loaded"}]
        /\ indexed \in [Items -> {"none", "some", "all"}]
        /\ Holds(w) => item[w] \in Items
        /\ wpc[w] = "load" => docs[item[w]] = "partial"
        /\ wpc[w] = "index" => docs[item[w]] = "loaded" /\ ~opts.dependencyOrder
    BY DEF IInv, TypeOK, OwnsClaimed, ProgressIsTrue
  <1> USE <1>0 DEF Goto, Step, OwnStep, OwnFacts, Holds, Busy, Truth, mainVars, targetVars,
                   Options
  <1>1. CASE SetupOk(w)
    BY <1>1 DEF SetupOk
  <1>2. CASE SetupFails(w)
    BY <1>2 DEF SetupFails
  <1>3. CASE LoadOk(w)
    BY <1>3 DEF LoadOk
  <1>4. CASE LoadFails(w)
    BY <1>4 DEF LoadFails
  <1>5. CASE IndexOk(w)
    BY <1>5 DEF IndexOk
  <1>6. CASE IndexFails(w)
    BY <1>6 DEF IndexFails
  <1> QED
    BY <1>1, <1>2, <1>3, <1>4, <1>5, <1>6 DEF ItemStep

\* A step on an own item keeps the invariant.
LEMMA OwnStepKeeps ==
  ASSUME IInv, NEW w \in Workers, TypeOK', OwnStep(w), OwnFacts(w)'
  PROVE  IInv'
  <1> USE DEF OwnStep
  <1>1. \A v \in Workers : Holds(v)' <=> Holds(v)
    BY DEF Holds
  <1>2. OwnsClaimed' /\ NoSharing' /\ ClaimedHasOwner' /\ UnclaimedHasNoResult'
    BY <1>1 DEF IInv, OwnsClaimed, NoSharing, ClaimedHasOwner, UnclaimedHasNoResult
  <1>3. ProgressIsTrue'
    <2> SUFFICES ASSUME NEW v \in Workers, v # w
                 PROVE  /\ wpc'[v] = "load" => docs'[item'[v]] = "partial"
                        /\ wpc'[v] = "index" => docs'[item'[v]] = "loaded" /\ ~opts'.dependencyOrder
                        /\ wpc'[v] = "report" => Truth(out[v], item[v])'
      BY DEF OwnFacts, ProgressIsTrue, Truth
    <2>1. Holds(v) => item[v] \in Items \ {item[w]}
      BY DEF IInv, OwnsClaimed, NoSharing
    <2>2. wpc[v] \in {"load", "index", "report"} => Holds(v)
      BY DEF Holds, Busy
    <2> QED
      BY <2>1, <2>2 DEF IInv, ProgressIsTrue, Truth, mainVars
  <1>4. ResultIsTrue'
    BY DEF IInv, ResultIsTrue, OwnsClaimed, Truth, mainVars
  <1>5. ExitHasReason' /\ StopHasReason'
    <2>1. Pool \subseteq Workers /\ Pool' = Pool
      BY PoolIsSound DEF IInv, Pool, Sequential, mainVars
    <2> QED
      BY <2>1 DEF IInv, ExitHasReason, StopHasReason, Holds, Busy, mainVars
  <1>6. Joined'
    BY DEF IInv, Joined, mainVars
  <1>7. TallyIsTrue'
    BY DEF IInv, TallyIsTrue, mainVars
  <1>8. PassIsTrue'
    BY DEF IInv, PassIsTrue, mainVars
  <1> QED
    BY <1>2, <1>3, <1>4, <1>5, <1>6, <1>7, <1>8 DEF IInv

-----------------------------------------------------------------------------
(* Steps of the worker loop *)

\* The loads of the flag, and finding no work.
LEMMA LookStepKeeps ==
  ASSUME IInv, TypeOK', NEW w \in Workers,
         LoadStopTrue(w) \/ LoadStopFalse(w) \/ NothingLeft(w)
  PROVE  IInv'
  <1>1. /\ UNCHANGED <<mainVars, cursor, stopped, item, out, result, docs, indexed>>
        /\ mainPc = "workers"
        /\ wpc[w] \in {"check", "claim"} /\ wpc'[w] \in {"claim", "exited"}
        /\ wpc'[w] = "exited" => cursor > NumItems \/ stopped # {}
        /\ \A v \in Workers \ {w} : wpc'[v] = wpc[v]
    BY DEF IInv, TypeOK, LoadStopTrue, LoadStopFalse, NothingLeft, Goto, targetVars
  <1>2. \A v \in Workers : (Holds(v)' <=> Holds(v)) /\ (Holds(v) => v # w)
    BY <1>1 DEF Holds, Busy
  <1>3. OwnsClaimed' /\ NoSharing' /\ ClaimedHasOwner' /\ UnclaimedHasNoResult'
    BY <1>1, <1>2 DEF IInv, OwnsClaimed, NoSharing, ClaimedHasOwner, UnclaimedHasNoResult
  <1>4. ProgressIsTrue' /\ ResultIsTrue'
    BY <1>1 DEF IInv, ProgressIsTrue, ResultIsTrue, Truth, mainVars
  <1>5. ExitHasReason' /\ StopHasReason'
    <2>1. Pool \subseteq Workers /\ Pool' = Pool
      BY <1>1, PoolIsSound DEF IInv, Pool, Sequential, mainVars
    <2> QED
      BY <1>1, <2>1 DEF IInv, ExitHasReason, StopHasReason, mainVars
  <1>6. Joined' /\ TallyIsTrue' /\ PassIsTrue'
    BY <1>1 DEF IInv, Joined, TallyIsTrue, PassIsTrue, mainVars
  <1> QED
    BY <1>3, <1>4, <1>5, <1>6 DEF IInv

\* fetch_add gives a claimed item one owner.
LEMMA ClaimKeeps ==
  ASSUME IInv, TypeOK', NEW w \in Workers, Claim(w)
  PROVE  IInv'
  <1>1. /\ UNCHANGED <<mainVars, stopped, out, result, docs, indexed>>
        /\ mainPc = "workers"
        /\ cursor \in Items /\ cursor' = cursor + 1
        /\ wpc[w] = "claim" /\ wpc'[w] = "setup" /\ item'[w] = cursor
        /\ \A v \in Workers \ {w} : wpc'[v] = wpc[v] /\ item'[v] = item[v]
    BY DEF IInv, TypeOK, Claim, Goto, targetVars, Items
  <1>2. /\ Holds(w)' /\ ~Holds(w)
        /\ \A v \in Workers \ {w} : Holds(v)' <=> Holds(v)
    BY <1>1 DEF Holds, Busy
  <1>3. \A v \in Workers \ {w} : Holds(v) => item[v] \in Items /\ item[v] < cursor
    BY DEF IInv, OwnsClaimed
  <1>4. OwnsClaimed'
    <2>1. result[cursor] = "none" /\ cursor < cursor + 1
      BY <1>1 DEF IInv, UnclaimedHasNoResult, Items
    <2>2. \A v \in Workers \ {w} : Holds(v) => item[v] < cursor + 1 /\ result[item[v]] = "none"
      BY <1>1, <1>3 DEF IInv, OwnsClaimed, Items
    <2> QED
      BY <1>1, <1>2, <1>3, <2>1, <2>2 DEF OwnsClaimed
  <1>5. NoSharing'
    BY <1>1, <1>2, <1>3 DEF IInv, NoSharing, Items
  <1>6. ClaimedHasOwner'
    <2> SUFFICES ASSUME NEW i \in Items, i <= cursor, result[i] = "none"
                 PROVE  \E v \in Workers : Holds(v)' /\ item'[v] = i
      BY <1>1 DEF ClaimedHasOwner, Items
    <2>1. CASE i = cursor
      BY <2>1, <1>1, <1>2
    <2>2. CASE i < cursor
      BY <2>2, <1>1, <1>2 DEF IInv, ClaimedHasOwner
    <2> QED
      BY <2>1, <2>2, <1>1 DEF Items
  <1>7. UnclaimedHasNoResult'
    BY <1>1 DEF IInv, UnclaimedHasNoResult, Items
  <1>8. ProgressIsTrue'
    <2> SUFFICES ASSUME NEW v \in Workers, v # w
                 PROVE  /\ wpc[v] = "load" => docs[item[v]] = "partial"
                        /\ wpc[v] = "index" => docs[item[v]] = "loaded" /\ ~opts.dependencyOrder
                        /\ wpc[v] = "report" => Truth(out[v], item[v])
      BY <1>1 DEF ProgressIsTrue, Truth, mainVars
    <2> QED
      BY DEF IInv, ProgressIsTrue
  <1>9. ResultIsTrue'
    BY <1>1 DEF IInv, ResultIsTrue, Truth, mainVars
  <1>10. ExitHasReason' /\ StopHasReason'
    <2>1. Pool \subseteq Workers /\ Pool' = Pool
      BY <1>1, PoolIsSound DEF IInv, Pool, Sequential, mainVars
    <2>2. cursor > NumItems => cursor' > NumItems
      BY <1>1 DEF Items
    <2> QED
      BY <1>1, <2>1, <2>2 DEF IInv, ExitHasReason, StopHasReason, mainVars
  <1>11. Joined' /\ TallyIsTrue' /\ PassIsTrue'
    BY <1>1 DEF IInv, Joined, TallyIsTrue, PassIsTrue, mainVars
  <1> QED
    BY <1>4, <1>5, <1>6, <1>7, <1>8, <1>9, <1>10, <1>11 DEF IInv

\* Filling a slot ends the ownership of its item.
LEMMA ReportKeeps ==
  ASSUME IInv, TypeOK', NEW w \in Workers, Report(w)
  PROVE  IInv'
  <1>1. /\ UNCHANGED <<mainVars, cursor, item, out, docs, indexed>>
        /\ mainPc = "workers"
        /\ wpc[w] = "report" /\ wpc'[w] \in {"check", "claim"}
        /\ item[w] \in Items /\ item[w] < cursor
        /\ result[item[w]] = "none" /\ result'[item[w]] = out[w]
        /\ \A i \in Items \ {item[w]} : result'[i] = result[i]
        /\ \A v \in Workers \ {w} : wpc'[v] = wpc[v]
        /\ stopped' = stopped \/ (opts.exitOnError /\ out[w] = "fatal")
        /\ stopped \subseteq stopped'
    BY DEF IInv, TypeOK, OwnsClaimed, Holds, Busy, Report, Slotted, LoopHead, Goto,
           targetVars, Options
  <1>2. /\ Holds(w) /\ ~Holds(w)'
        /\ \A v \in Workers \ {w} : Holds(v)' <=> Holds(v)
    BY <1>1 DEF Holds, Busy
  <1>3. \A v \in Workers \ {w} : Holds(v) => item[v] \in Items \ {item[w]}
    BY <1>2 DEF IInv, OwnsClaimed, NoSharing
  <1>4. Truth(out[w], item[w])
    BY <1>1 DEF IInv, ProgressIsTrue
  <1>5. OwnsClaimed' /\ NoSharing'
    BY <1>1, <1>2, <1>3 DEF IInv, OwnsClaimed, NoSharing
  <1>6. ClaimedHasOwner'
    BY <1>1, <1>2, <1>4 DEF IInv, ClaimedHasOwner, Truth
  <1>7. UnclaimedHasNoResult'
    BY <1>1 DEF IInv, TypeOK, UnclaimedHasNoResult, Items
  <1>8. ProgressIsTrue'
    <2> SUFFICES ASSUME NEW v \in Workers
                 PROVE  /\ wpc'[v] = "load" => docs[item[v]] = "partial"
                        /\ wpc'[v] = "index" => docs[item[v]] = "loaded" /\ ~opts.dependencyOrder
                        /\ wpc'[v] = "report" => Truth(out[v], item[v])
      BY <1>1 DEF ProgressIsTrue, Truth, mainVars
    <2>1. wpc'[v] = wpc[v] \/ wpc'[v] \in {"check", "claim"}
      BY <1>1
    <2> QED
      BY <2>1 DEF IInv, ProgressIsTrue
  <1>9. ResultIsTrue'
    <2> SUFFICES ASSUME NEW i \in Items, result'[i] # "none"
                 PROVE  Truth(result'[i], i)
      BY <1>1 DEF ResultIsTrue, Truth, mainVars
    <2> QED
      BY <1>1, <1>4 DEF IInv, ResultIsTrue
  <1>10. ExitHasReason'
    <2>1. Pool \subseteq Workers /\ Pool' = Pool
      BY <1>1, PoolIsSound DEF IInv, Pool, Sequential, mainVars
    <2> QED
      BY <1>1, <2>1 DEF IInv, ExitHasReason, mainVars
  <1>11. StopHasReason'
    BY <1>1 DEF IInv, StopHasReason, mainVars
  <1>12. Joined' /\ TallyIsTrue' /\ PassIsTrue'
    BY <1>1 DEF IInv, Joined, TallyIsTrue, PassIsTrue, mainVars, Items
  <1> QED
    BY <1>5, <1>6, <1>7, <1>8, <1>9, <1>10, <1>11, <1>12 DEF IInv

-----------------------------------------------------------------------------
(* Steps of the caller *)

\* When the pool has been joined, an empty slot lies behind a fatal one: some
\* worker left because of the flag, and results are below the cursor.
LEMMA EmptySlotBehindFatal ==
  ASSUME IInv, mainPc = "tally", NEW i \in Items, result[i] = "none"
  PROVE  \E j \in 1..(i - 1) : result[j] = "fatal"
  <1>1. \A w \in Workers : wpc[w] = "exited"
    BY DEF IInv, Joined
  <1>2. cursor <= i /\ cursor \in Int
    <2>1. cursor \in Int /\ i \in Int
      BY DEF IInv, TypeOK, Items
    <2>2. \A w \in Workers : ~Holds(w)
      BY <1>1 DEF Holds, Busy
    <2>3. ~(i < cursor)
      BY <2>2 DEF IInv, ClaimedHasOwner
    <2> QED
      BY <2>1, <2>3
  <1>3. stopped # {}
    <2>1. 1 \in Pool /\ wpc[1] = "exited"
      BY <1>1, PoolIsSound DEF IInv
    <2> QED
      BY <1>2, <2>1 DEF IInv, ExitHasReason, Items
  <1>4. PICK j \in Items : result[j] = "fatal"
    BY <1>3 DEF IInv, StopHasReason
  <1>5. j < cursor
    BY <1>4, <1>2 DEF IInv, UnclaimedHasNoResult, Items
  <1> QED
    BY <1>2, <1>4, <1>5 DEF Items

\* The parts of the invariant that the caller cannot disturb after the spawn.
PoolInv ==
  /\ OwnsClaimed
  /\ NoSharing
  /\ ClaimedHasOwner
  /\ UnclaimedHasNoResult
  /\ StopHasReason

\* The pool's part of the invariant speaks of workers, slots and target only.
LEMMA PoolInvFrame ==
  ASSUME PoolInv, UNCHANGED <<opts, workerVars>>
  PROVE  PoolInv'
  BY DEF PoolInv, OwnsClaimed, NoSharing, ClaimedHasOwner, UnclaimedHasNoResult,
    StopHasReason, Holds, workerVars

\* Workers begin with nothing in hand.
LEMMA SpawnKeeps ==
  ASSUME IInv, TypeOK', Spawn
  PROVE  IInv'
  <1> USE DEF Spawn
  <1>1. \A w \in Workers : wpc[w] = "exited"
    BY DEF IInv, Joined
  <1>2. \A w \in Workers : ~Holds(w) /\ ~Holds(w)'
    BY <1>1 DEF Holds, Busy, LoopHead
  <1>3. OwnsClaimed' /\ NoSharing' /\ ClaimedHasOwner' /\ UnclaimedHasNoResult'
    BY <1>2 DEF IInv, OwnsClaimed, NoSharing, ClaimedHasOwner, UnclaimedHasNoResult
  <1>4. ProgressIsTrue'
    BY <1>2 DEF ProgressIsTrue, Holds, Busy
  <1>5. ResultIsTrue' /\ StopHasReason'
    BY DEF IInv, ResultIsTrue, StopHasReason, Truth, targetVars
  <1>6. ExitHasReason'
    <2>1. Pool' = Pool /\ Pool \subseteq Workers
      BY PoolIsSound DEF IInv, Pool, Sequential
    <2>2. \A w \in Pool : wpc'[w] # "exited"
      BY <2>1 DEF LoopHead
    <2> QED
      BY <2>1, <2>2 DEF ExitHasReason
  <1>7. Joined' /\ TallyIsTrue' /\ PassIsTrue'
    BY DEF IInv, Joined, TallyIsTrue, PassIsTrue, targetVars
  <1> QED
    BY <1>3, <1>4, <1>5, <1>6, <1>7 DEF IInv

\* Every later step of the caller leaves the workers alone.  In particular an
\* index that the dependency-order pass builds makes no result untrue.
LEMMA CallerKeeps ==
  ASSUME IInv, TypeOK', MainStep, ~Spawn
  PROVE  IInv'
  <1>1. /\ UNCHANGED <<opts, workerVars, docs>>
        /\ opts.dependencyOrder \/ indexed' = indexed
    BY DEF MainStep, StartFails, Join, TallyResult, TallyFatal, TallyEnds, PassIndexes,
      PassFails, PassEnds, PostOk, PostFails, targetVars, IInv, PassIsTrue
  <1>2. PoolInv'
    BY <1>1, PoolInvFrame DEF IInv, PoolInv
  <1>3. ProgressIsTrue' /\ ResultIsTrue'
    BY <1>1 DEF IInv, ProgressIsTrue, ResultIsTrue, Truth, workerVars
  <1>4. ExitHasReason' /\ Joined'
    <2>1. Pool' = Pool
      BY <1>1 DEF Pool, Sequential
    <2>2. mainPc' \notin {"start", "workers"} /\ (mainPc' # "error" => mainPc \notin {"start", "error"})
      BY DEF MainStep, StartFails, Join, TallyResult, TallyFatal, TallyEnds, PassIndexes,
        PassFails, PassEnds, PostOk, PostFails
    <2>3. mainPc = "workers" => \A w \in Workers : wpc[w] = "exited"
      BY DEF MainStep, StartFails, Join, TallyResult, TallyFatal, TallyEnds, PassIndexes,
        PassFails, PassEnds, PostOk, PostFails
    <2> QED
      BY <1>1, <2>1, <2>2, <2>3 DEF IInv, ExitHasReason, Joined, workerVars
  <1>5. TallyIsTrue' /\ PassIsTrue'
    <2> USE <1>1 DEF TallyIsTrue, PassIsTrue, workerVars, targetVars
    <2>1. CASE StartFails
      BY <2>1 DEF IInv, StartFails
    <2>2. CASE Join
      BY <2>2 DEF IInv, Join
    <2>3. CASE TallyResult
      <3>1. /\ tallied \in Nat /\ tallied + 1 \in Items /\ tallied' = tallied + 1
            /\ mainPc = "tally" /\ UNCHANGED <<mainPc, passed, targetVars, result, opts>>
            /\ failed \in Seq(Items)
        BY <2>3 DEF IInv, TypeOK, TallyResult, Items
      <3>2. result[tallied + 1] \in {"ok", "failed"}
        <4>1. \A j \in 1..tallied : result[j] # "fatal"
          BY DEF IInv
        <4>2. result[tallied + 1] # "none"
          BY <3>1, <4>1, EmptySlotBehindFatal
        <4> QED
          BY <2>3, <3>1, <4>2 DEF IInv, TypeOK, TallyResult, Results
      <3>3. \A i \in 1..(tallied + 1) : result[i] \in {"ok", "failed"}
        BY <3>1, <3>2 DEF IInv, Items
      <3>4. ASSUME NEW i \in Items
            PROVE  (\E k \in DOMAIN failed' : failed'[k] = i) <=> i <= tallied + 1 /\ result[i] = "failed"
        <4>1. (\E k \in DOMAIN failed : failed[k] = i) <=> i <= tallied /\ result[i] = "failed"
          BY DEF IInv
        <4>2. CASE result[tallied + 1] = "failed"
          <5>1. failed' = Append(failed, tallied + 1)
            BY <2>3, <4>2 DEF TallyResult
          <5>2. /\ Len(failed) \in Nat /\ DOMAIN failed = 1..Len(failed)
                /\ DOMAIN failed' = 1..(Len(failed) + 1)
                /\ failed'[Len(failed) + 1] = tallied + 1
                /\ \A k \in 1..Len(failed) : failed'[k] = failed[k]
            BY <3>1, <5>1
          <5>3. (\E k \in DOMAIN failed' : failed'[k] = i) <=>
                  (\E k \in DOMAIN failed : failed[k] = i) \/ i = tallied + 1
            BY <5>2
          <5> QED
            BY <3>1, <4>1, <4>2, <5>3 DEF Items
        <4>3. CASE result[tallied + 1] # "failed"
          BY <2>3, <3>1, <4>1, <4>3 DEF TallyResult, Items
        <4> QED
          BY <4>2, <4>3
      <3> QED
        BY <3>1, <3>3, <3>4 DEF IInv
    <2>4. CASE TallyFatal
      BY <2>4 DEF IInv, TallyFatal
    <2>5. CASE TallyEnds
      BY <2>5 DEF IInv, TallyEnds
    <2>6. CASE PassIndexes
      BY <2>6 DEF IInv, TypeOK, PassIndexes, Items
    <2>7. CASE PassFails
      <3>1. \A i \in 1..passed : indexed'[i] = indexed[i]
        BY <2>7 DEF IInv, TypeOK, PassFails, Items
      <3> QED
        BY <2>7, <3>1 DEF IInv, PassFails
    <2>8. CASE PassEnds
      BY <2>8 DEF IInv, PassEnds
    <2>9. CASE PostOk
      BY <2>9 DEF IInv, PostOk
    <2>10. CASE PostFails
      BY <2>10 DEF IInv, PostFails
    <2> QED
      BY <2>1, <2>2, <2>3, <2>4, <2>5, <2>6, <2>7, <2>8, <2>9, <2>10 DEF MainStep
  <1> QED
    BY <1>2, <1>3, <1>4, <1>5 DEF IInv, PoolInv

\* A stuttering step keeps the invariant.
LEMMA StutterKeeps ==
  ASSUME IInv, UNCHANGED vars
  PROVE  IInv'
  <1> USE DEF vars, mainVars, workerVars, targetVars
  <1>1. TypeOK'
    BY TypeStep DEF IInv
  <1>2. PoolInv'
    BY PoolInvFrame DEF IInv, PoolInv
  <1>3. ProgressIsTrue' /\ ResultIsTrue' /\ ExitHasReason' /\ Joined'
    BY DEF IInv, ProgressIsTrue, ResultIsTrue, Truth, ExitHasReason, Joined, Pool, Sequential
  <1>4. TallyIsTrue' /\ PassIsTrue'
    BY DEF IInv, TallyIsTrue, PassIsTrue
  <1> QED
    BY <1>1, <1>2, <1>3, <1>4 DEF IInv, PoolInv

-----------------------------------------------------------------------------
(* The theorems *)

LEMMA IInvStep == IInv /\ [Next]_vars => IInv'
  <1> SUFFICES ASSUME IInv, [Next]_vars PROVE IInv'
    OBVIOUS
  <1>1. TypeOK'
    BY TypeStep DEF IInv
  <1>2. ASSUME NEW w \in Workers, WorkerStep(w) PROVE IInv'
    <2>1. CASE ItemStep(w)
      BY <1>1, <2>1, ItemStepIsOwnStep, OwnStepKeeps
    <2>2. CASE LoadStopTrue(w) \/ LoadStopFalse(w) \/ NothingLeft(w)
      BY <1>1, <2>2, LookStepKeeps
    <2>3. CASE Claim(w)
      BY <1>1, <2>3, ClaimKeeps
    <2>4. CASE Report(w)
      BY <1>1, <2>4, ReportKeeps
    <2> QED
      BY <1>2, <2>1, <2>2, <2>3, <2>4 DEF WorkerStep, LoopStep
  <1>3. CASE MainStep
    BY <1>1, <1>3, SpawnKeeps, CallerKeeps
  <1>4. CASE UNCHANGED vars
    BY <1>4, StutterKeeps
  <1> QED
    BY <1>2, <1>3, <1>4 DEF Next, Terminating

\* The inductive invariant holds in every reachable state.
THEOREM Invariance == Spec => []IInv
  BY InitIInv, IInvStep, PTL DEF Spec

\* Exit status zero means the whole dump is in the target, for any number of
\* collections and jobs and whatever the options.
THEOREM SuccessMeansComplete == Spec => []SuccessIsComplete
  <1>1. IInv => SuccessIsComplete
    <2> SUFFICES ASSUME IInv, mainPc = "ok", NEW i \in Items
                 PROVE  docs[i] = "loaded" /\ indexed[i] = "all"
      BY DEF SuccessIsComplete
    <2>1. tallied = NumItems /\ failed = <<>>
      BY DEF IInv, TallyIsTrue, PassIsTrue
    <2>2. result[i] = "ok"
      BY <2>1 DEF IInv, TallyIsTrue, Items
    <2>3. docs[i] = "loaded" /\ (opts.dependencyOrder \/ indexed[i] = "all")
      BY <2>2 DEF IInv, ResultIsTrue, Truth
    <2>4. opts.dependencyOrder => indexed[i] = "all"
      BY DEF IInv, PassIsTrue, Items
    <2> QED
      BY <2>3, <2>4
  <1> QED
    BY <1>1, Invariance, PTL

\* After a tally without a fatal result, the failed names are exactly the
\* collections that are not loaded.
THEOREM ReportsAreTrue == Spec => []ReportIsTrue
  <1>1. IInv => ReportIsTrue
    <2> SUFFICES ASSUME IInv, mainPc \in {"indexes", "post"}, NEW i \in Items
                 PROVE  (\E k \in DOMAIN failed : failed[k] = i) <=> docs[i] # "loaded"
      BY DEF ReportIsTrue
    <2>1. result[i] \in {"ok", "failed"} /\ i <= tallied
      BY DEF IInv, TallyIsTrue, Items
    <2>2. result[i] = "failed" <=> docs[i] # "loaded"
      BY <2>1 DEF IInv, ResultIsTrue, Truth
    <2> QED
      BY <2>1, <2>2 DEF IInv, TallyIsTrue
  <1> QED
    BY <1>1, Invariance, PTL

\* Under --dependency-order no index exists before every worker has exited.
THEOREM IndexesComeLast == Spec => []IndexesAfterDocuments
  <1>1. IInv => IndexesAfterDocuments
    BY DEF IInv, Joined, PassIsTrue, IndexesAfterDocuments
  <1> QED
    BY <1>1, Invariance, PTL

\* Without --exit-on-error no slot is left unfilled: every collection was tried.
THEOREM EverythingIsTried == Spec => []EveryCollectionTried
  <1>1. IInv => EveryCollectionTried
    <2> SUFFICES ASSUME IInv, mainPc \in {"tally", "indexes", "post", "ok"},
                        ~opts.exitOnError, NEW i \in Items, result[i] = "none"
                 PROVE  FALSE
      BY DEF EveryCollectionTried
    <2>1. stopped = {} /\ \A w \in Workers : wpc[w] = "exited"
      BY DEF IInv, StopHasReason, Joined
    <2>2. cursor > NumItems
      BY <2>1, PoolIsSound DEF IInv, ExitHasReason
    <2>3. i < cursor
      BY <2>2 DEF IInv, TypeOK, Items
    <2>4. PICK w \in Workers : Holds(w)
      BY <2>3 DEF IInv, ClaimedHasOwner
    <2> QED
      BY <2>1, <2>4 DEF Holds, Busy
  <1> QED
    BY <1>1, Invariance, PTL

-----------------------------------------------------------------------------
(* The stop flag *)

\* With --exit-on-error a pool worker whose item was fatal has stored the flag by
\* the time it looks at it, and comes no further.
OwnStoreIsSeen ==
  /\ mainPc = "start" => \A w \in Workers : out[w] # "fatal"
  /\ opts.exitOnError /\ ~Sequential =>
       \A w \in Workers : out[w] = "fatal" =>
         wpc[w] \in {"report", "exited"} \/ (wpc[w] = "check" /\ w \in stopped)

\* No step lets a worker pass its own store.
LEMMA OwnStoreStep == TypeOK /\ OwnStoreIsSeen /\ [Next]_vars => OwnStoreIsSeen'
  <1> SUFFICES ASSUME TypeOK, OwnStoreIsSeen, [Next]_vars PROVE OwnStoreIsSeen'
    OBVIOUS
  <1> USE DEF OwnStoreIsSeen, Sequential
  <1>1. ASSUME NEW w \in Workers, WorkerStep(w) PROVE OwnStoreIsSeen'
    <2>0. /\ wpc \in [Workers -> {"check", "claim", "setup", "load", "index", "report", "exited"}]
          /\ out \in [Workers -> Results]
      BY DEF TypeOK
    <2>1. CASE LoadStopTrue(w) \/ LoadStopFalse(w) \/ NothingLeft(w) \/ Claim(w)
      BY <2>0, <2>1 DEF LoadStopTrue, LoadStopFalse, NothingLeft, Claim, Goto, mainVars
    <2>2. CASE Report(w)
      BY <2>0, <2>2 DEF Report, Slotted, Goto, LoopHead, mainVars
    <2>3. CASE ItemStep(w)
      BY <2>0, <2>3 DEF ItemStep, SetupOk, SetupFails, LoadOk, LoadFails, IndexOk, IndexFails,
        Step, Goto, mainVars
    <2> QED
      BY <1>1, <2>1, <2>2, <2>3 DEF WorkerStep, LoopStep
  <1>2. CASE Spawn
    BY <1>2 DEF Spawn
  <1>3. CASE MainStep /\ ~Spawn
    BY <1>3 DEF MainStep, StartFails, Join, TallyResult, TallyFatal, TallyEnds,
      PassIndexes, PassFails, PassEnds, PostOk, PostFails, workerVars
  <1>4. CASE UNCHANGED vars
    BY <1>4 DEF vars, mainVars, workerVars
  <1> QED
    BY <1>1, <1>2, <1>3, <1>4 DEF Next, Terminating

\* With --exit-on-error a pool worker whose item was fatal claims no other: its
\* own store of the flag is never missed by its own load.
THEOREM FailedWorkersStop == Spec => FailedWorkerClaimsNoMore
  <1> DEFINE Stops == \A w \in Workers :
               opts.exitOnError /\ ~Sequential /\ out[w] = "fatal" => item'[w] = item[w]
  <1>1. Init => OwnStoreIsSeen
    BY DEF Init, OwnStoreIsSeen
  <1>2. TypeOK /\ OwnStoreIsSeen /\ [Next]_vars => Stops
    <2> SUFFICES ASSUME TypeOK, OwnStoreIsSeen, [Next]_vars, NEW w \in Workers,
                        opts.exitOnError, ~Sequential, out[w] = "fatal", item'[w] # item[w]
                 PROVE  FALSE
      OBVIOUS
    <2>1. item \in [Workers -> Items \cup {0}]
      BY DEF TypeOK
    <2>2. PICK v \in Workers : Claim(v)
      BY DEF Next, Terminating, WorkerStep, LoopStep, LoadStopTrue, LoadStopFalse, NothingLeft,
        Report, Slotted, ItemStep, SetupOk, SetupFails, LoadOk, LoadFails, IndexOk, IndexFails,
        Step, MainStep, Spawn, StartFails, Join, TallyResult, TallyFatal, TallyEnds,
        PassIndexes, PassFails, PassEnds, PostOk, PostFails, vars, workerVars
    <2>3. v = w /\ wpc[w] = "claim"
      BY <2>1, <2>2 DEF Claim, Goto
    <2> QED
      BY <2>3 DEF OwnStoreIsSeen
  <1>3. TypeOK /\ OwnStoreIsSeen /\ [Next]_vars => [Stops]_vars
    BY <1>2
  <1>4. Spec => []OwnStoreIsSeen
    BY <1>1, OwnStoreStep, TypeCorrect, PTL DEF Spec
  <1>5. Spec => [][Stops]_vars
    BY <1>3, <1>4, TypeCorrect, PTL DEF Spec
  <1> QED
    BY <1>5 DEF FailedWorkerClaimsNoMore
=============================================================================
