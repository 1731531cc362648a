-------------------------- MODULE MultipartUpload --------------------------
(***************************************************************************)
(* One streamed upload: StreamingMultipartWriter on the writing thread,    *)
(* run_uploader on its background thread, the bounded channel between      *)
(* them, and the service's upload (modelled from how PartSink uses it).    *)
(* The writing thread is driven as CollectionDataWriter drives it: writes, *)
(* then finish; or abort, after an error of a write or of the source.      *)
(*                                                                         *)
(* Bytes are numbered from 1 in the order written and a part is the        *)
(* interval [lo, hi] of its bytes, so order, gaps and overlaps show.       *)
(***************************************************************************)
EXTENDS Integers, Sequences

CONSTANTS
  InitialPartSize,   \* INITIAL_PART_SIZE
  PartsPerDoubling,  \* PARTS_PER_DOUBLING
  MaxDoublings,      \* the cap in PartSizeSchedule::current
  Capacity,          \* of the sync_channel
  MaxWrite,          \* largest buffer passed to one write call (bound)
  MaxBytes           \* bytes the stream may produce (bound)

ASSUME ScheduleAssumption ==
  InitialPartSize \in Nat \ {0} /\ PartsPerDoubling \in Nat \ {0} /\ MaxDoublings \in Nat
ASSUME CapacityAssumption == Capacity \in Nat \ {0}
ASSUME BoundsAssumption == MaxWrite \in Nat \ {0} /\ MaxBytes \in Nat

VARIABLES
  wpc,        \* the writing thread
  total,      \* total_bytes
  buffered,   \* length of the writer's buffer: the last bytes written
  partsSent,  \* schedule.parts_sent
  result,     \* what the writing side has been told
  chan,       \* messages between the threads
  upc,        \* the uploader thread
  job,        \* the part the uploader is sending
  tokens,     \* parts acknowledged, in order
  joined,     \* the uploader's return value
  upload,     \* the service's multipart upload
  blob        \* the object readers of the path see

writerVars   == <<wpc, total, buffered, partsSent, result>>
uploaderVars == <<upc, job, tokens, joined>>
serviceVars  == <<upload, blob>>
vars         == <<writerVars, chan, uploaderVars, serviceVars>>

Part(lo, hi) == [lo |-> lo, hi |-> hi]
Parts        == [lo : 1..(MaxBytes + 1), hi : 0..MaxBytes]
NoPart       == Part(1, 0)
NoBlob       == <<>>

Data(part) == [kind |-> "data", part |-> part]
Finish     == [kind |-> "finish", part |-> NoPart]
Abort      == [kind |-> "abort", part |-> NoPart]

TypeOK ==
  /\ wpc \in {"writing", "draining", "last", "finish", "join",
              "abort", "joinAbort", "finished", "dropped"}
  /\ total \in 0..MaxBytes
  /\ buffered \in 0..total
  /\ partsSent \in 0..MaxBytes
  /\ result \in {"none", "ok", "cause", "generic", "source"}
  /\ chan \in Seq([kind : {"data", "finish", "abort"}, part : Parts])
  /\ Len(chan) <= Capacity
  /\ upc \in {"recv", "part", "complete", "abort", "exited"}
  /\ job \in Parts
  /\ tokens \in Seq(Parts)
  /\ joined \in {"none", "ok", "partError", "completeError"}
  /\ upload \in {"open", "aborted", "orphaned", "completed"}
  /\ blob \in Seq(Parts)

Init ==
  /\ wpc = "writing"
  /\ total = 0
  /\ buffered = 0
  /\ partsSent = 0
  /\ result = "none"
  /\ chan = <<>>
  /\ upc = "recv"
  /\ job = NoPart
  /\ tokens = <<>>
  /\ joined = "none"
  /\ upload = "open"
  /\ blob = NoBlob

\* PartSizeSchedule::current after n parts.
PartSize(n) ==
  LET doublings == IF n \div PartsPerDoubling < MaxDoublings
                   THEN n \div PartsPerDoubling ELSE MaxDoublings
  IN  InitialPartSize * 2^doublings

-----------------------------------------------------------------------------
(* The writing thread *)

\* A send blocks while the channel is full and fails once the receiver is gone.
ReceiverGone == upc = "exited"
Push(msg) == ~ReceiverGone /\ Len(chan) < Capacity /\ chan' = Append(chan, msg)

\* The next n bytes to leave the buffer.
Drained(n) == Part(total - buffered + 1, total - buffered + n)

\* write: take the bytes in, then drain full parts.
Write ==
  /\ wpc = "writing"
  /\ \E n \in 1..MaxWrite :
       /\ total + n <= MaxBytes
       /\ total' = total + n
       /\ buffered' = buffered + n
  /\ wpc' = "draining"
  /\ UNCHANGED <<partsSent, result, chan, uploaderVars, serviceVars>>

\* Seeded fault: the part takes the buffer's tail with it.
DrainTakesAll ==
  /\ wpc = "draining"
  /\ buffered >= PartSize(partsSent)
  /\ Push(Data(Drained(PartSize(partsSent))))
  /\ buffered' = 0
  /\ partsSent' = partsSent + 1
  /\ UNCHANGED <<wpc, total, result, uploaderVars, serviceVars>>

DrainPart ==
  /\ wpc = "draining"
  /\ buffered >= PartSize(partsSent)
  /\ Push(Data(Drained(PartSize(partsSent))))
  /\ buffered' = buffered - PartSize(partsSent)
  /\ partsSent' = partsSent + 1
  /\ UNCHANGED <<wpc, total, result, uploaderVars, serviceVars>>

\* "multipart upload thread ended early": write_document returns the error and
\* the writer is dropped, which aborts.
DrainFails ==
  /\ wpc = "draining"
  /\ buffered >= PartSize(partsSent)
  /\ ReceiverGone
  /\ buffered' = buffered - PartSize(partsSent)
  /\ result' = "generic"
  /\ wpc' = "abort"
  /\ UNCHANGED <<total, partsSent, chan, uploaderVars, serviceVars>>

WriteReturns ==
  /\ wpc = "draining"
  /\ buffered < PartSize(partsSent)
  /\ wpc' = "writing"
  /\ UNCHANGED <<total, buffered, partsSent, result, chan, uploaderVars, serviceVars>>

\* The source or a transformation fails: the writer is dropped.
SourceFails ==
  /\ wpc = "writing"
  /\ wpc' = "abort"
  /\ result' = "source"
  /\ UNCHANGED <<total, buffered, partsSent, chan, uploaderVars, serviceVars>>

\* Seeded fault: finish joins without sending Finish.
CallFinishSilently ==
  /\ wpc = "writing"
  /\ wpc' = IF buffered > 0 \/ partsSent = 0 THEN "last" ELSE "join"
  /\ UNCHANGED <<total, buffered, partsSent, result, chan, uploaderVars, serviceVars>>

\* finish: there is a last part unless the buffer is empty and another was sent.
CallFinish ==
  /\ wpc = "writing"
  /\ wpc' = IF buffered > 0 \/ partsSent = 0 THEN "last" ELSE "finish"
  /\ UNCHANGED <<total, buffered, partsSent, result, chan, uploaderVars, serviceVars>>

\* Seeded fault: the error of the last send is returned.
SendLastOrReturn ==
  /\ wpc = "last"
  /\ \/ Push(Data(Drained(buffered))) /\ wpc' = "finish" /\ UNCHANGED result
     \/ ReceiverGone /\ wpc' = "finished" /\ result' = "generic" /\ UNCHANGED chan
  /\ buffered' = 0
  /\ UNCHANGED <<total, partsSent, uploaderVars, serviceVars>>

\* The error of the last send is ignored: join brings the cause.
SendLast ==
  /\ wpc = "last"
  /\ \/ Push(Data(Drained(buffered)))
     \/ ReceiverGone /\ UNCHANGED chan
  /\ buffered' = 0
  /\ wpc' = "finish"
  /\ UNCHANGED <<total, partsSent, result, uploaderVars, serviceVars>>

SendFinish ==
  /\ wpc = "finish"
  /\ \/ Push(Finish)
     \/ ReceiverGone /\ UNCHANGED chan
  /\ wpc' = "join"
  /\ UNCHANGED <<total, buffered, partsSent, result, uploaderVars, serviceVars>>

\* Seeded fault: the uploader's return value is dropped.
JoinIgnoringError ==
  /\ wpc = "join"
  /\ upc = "exited"
  /\ wpc' = "finished"
  /\ result' = "ok"
  /\ UNCHANGED <<total, buffered, partsSent, chan, uploaderVars, serviceVars>>

Join ==
  /\ wpc = "join"
  /\ upc = "exited"
  /\ wpc' = "finished"
  /\ result' = IF joined = "ok" THEN "ok" ELSE "cause"
  /\ UNCHANGED <<total, buffered, partsSent, chan, uploaderVars, serviceVars>>

SendAbort ==
  /\ wpc = "abort"
  /\ \/ Push(Abort)
     \/ ReceiverGone /\ UNCHANGED chan
  /\ wpc' = "joinAbort"
  /\ UNCHANGED <<total, buffered, partsSent, result, uploaderVars, serviceVars>>

\* abort waits for the uploader too, and drops what it returned.
JoinAbort ==
  /\ wpc = "joinAbort"
  /\ upc = "exited"
  /\ wpc' = "dropped"
  /\ UNCHANGED <<total, buffered, partsSent, result, chan, uploaderVars, serviceVars>>

Writer ==
  \/ Write \/ DrainPart \/ DrainFails \/ WriteReturns \/ SourceFails
  \/ CallFinish \/ SendLast \/ SendFinish \/ Join \/ SendAbort \/ JoinAbort

-----------------------------------------------------------------------------
(* run_uploader *)

\* recv.  A closed and empty channel is handled like Abort, but is not reached:
\* the sender is only dropped after Finish or Abort went in.
Recv ==
  /\ upc = "recv"
  /\ chan # <<>>
  /\ chan' = Tail(chan)
  /\ LET msg == Head(chan) IN
       /\ upc' = CASE msg.kind = "data"   -> "part"
                   [] msg.kind = "finish" -> "complete"
                   [] OTHER               -> "abort"
       /\ job' = msg.part
  /\ UNCHANGED <<writerVars, tokens, joined, serviceVars>>

PartOk ==
  /\ upc = "part"
  /\ tokens' = Append(tokens, job)
  /\ upc' = "recv"
  /\ UNCHANGED <<writerVars, chan, job, joined, serviceVars>>

\* Seeded fault: a failed part is skipped.
PartFailsGoesOn ==
  /\ upc = "part"
  /\ upc' = "recv"
  /\ UNCHANGED <<writerVars, chan, job, tokens, joined, serviceVars>>

\* Seeded fault: the error is returned before the abort.
PartFailsNoAbort ==
  /\ upc = "part"
  /\ joined' = "partError"
  /\ upc' = "exited"
  /\ UNCHANGED <<writerVars, chan, job, tokens, serviceVars>>

PartFails ==
  /\ upc = "part"
  /\ joined' = "partError"
  /\ upc' = "abort"
  /\ UNCHANGED <<writerVars, chan, job, tokens, serviceVars>>

CompleteOk ==
  /\ upc = "complete"
  /\ upload' = "completed"
  /\ blob' = tokens
  /\ joined' = "ok"
  /\ upc' = "exited"
  /\ UNCHANGED <<writerVars, chan, job, tokens>>

\* The call failed, or only its answer was lost.  Nothing is aborted.
CompleteFails ==
  /\ upc = "complete"
  /\ \/ upload' = "completed" /\ blob' = tokens
     \/ UNCHANGED serviceVars
  /\ joined' = "completeError"
  /\ upc' = "exited"
  /\ UNCHANGED <<writerVars, chan, job, tokens>>

\* Best effort: S3's call can fail, Azure has none.
AbortUpload ==
  /\ upc = "abort"
  /\ upload' \in {"aborted", "orphaned"}
  /\ joined' = IF joined = "none" THEN "ok" ELSE joined
  /\ upc' = "exited"
  /\ UNCHANGED <<writerVars, chan, job, tokens, blob>>

Uploader == Recv \/ PartOk \/ PartFails \/ CompleteOk \/ CompleteFails \/ AbortUpload

-----------------------------------------------------------------------------

Returned    == wpc \in {"finished", "dropped"}
Terminating == Returned /\ UNCHANGED vars

Next == Writer \/ Uploader \/ Terminating

\* Service calls return, and both threads are scheduled.  The stream is finite,
\* so the writing thread comes to finish or to an error.
Fairness == WF_vars(Writer) /\ WF_vars(Uploader)

Spec     == Init /\ [][Next]_vars
FairSpec == Spec /\ Fairness

-----------------------------------------------------------------------------
(* Properties *)

\* The parts follow each other without gap or overlap, from the first byte to
\* the last one written.
CoversAllBytes(parts) ==
  /\ parts # <<>>
  /\ parts[1].lo = 1
  /\ \A k \in 1..(Len(parts) - 1) : parts[k + 1].lo = parts[k].hi + 1
  /\ parts[Len(parts)].hi = total

\* An object that becomes visible is made of every byte in order, of at least
\* one part (services refuse none), each but the last as large as the schedule
\* says for its number (services refuse short ones).
CompletedIsWhole ==
  blob # NoBlob =>
    /\ CoversAllBytes(blob)
    /\ \A k \in 1..(Len(blob) - 1) : blob[k].hi - blob[k].lo + 1 = PartSize(k - 1)

\* "as soon as it is full": between writes less than one part is buffered, and
\* every byte is in exactly one of: acknowledged, in the uploader's hand, in
\* the channel, in the buffer (while nothing has failed).
NothingLostInFlight ==
  wpc \in {"writing", "last"} /\ upc \in {"recv", "part"} =>
    /\ wpc = "writing" => buffered < PartSize(partsSent)
    /\ LET inHand == IF upc = "part" THEN <<job>> ELSE <<>>
           queued == [k \in 1..Len(chan) |-> chan[k].part]
           all    == tokens \o inHand \o queued
       IN  /\ Len(all) = partsSent
           /\ partsSent > 0 => all[partsSent].hi = total - buffered
           /\ partsSent = 0 => total = buffered

\* finish returns what the uploader met, never the channel's generic error and
\* never success after a failure.
FinishBringsTheCause ==
  wpc = "finished" => result = IF joined = "ok" THEN "ok" ELSE "cause"

\* What an answered writer leaves on the service.  Only a failed complete call
\* leaves an upload that nobody tried to abort; one whose abort failed, or whose
\* service has no abort, follows a failed part or a dropped writer; success
\* leaves none, and every dropped writer has had its upload aborted, as well as
\* the service lets it.
LeftoverHasItsReason ==
  Returned =>
    /\ upload = "open" => wpc = "finished" /\ joined = "completeError"
    /\ upload = "orphaned" => joined = "partError" \/ wpc = "dropped"
    /\ wpc = "finished" /\ result = "ok" => upload = "completed"
    /\ wpc = "dropped" => upload \in {"aborted", "orphaned"}

\* Nothing is sent or published once the writing side has been answered: the
\* uploader has been joined, and does not outlive its writer.
JoinedMeansOver ==
  [][Returned => UNCHANGED <<uploaderVars, serviceVars>>]_vars

\* A full channel, a dead uploader or a join never hold the writer for ever.
WriterReturns == <>Returned

\* The upload implements the promise of AtomicBlob.
Object == IF blob = NoBlob THEN "absent" ELSE IF CoversAllBytes(blob) THEN "whole" ELSE "torn"

WriterOutcome == CASE wpc = "dropped" -> "dropped"
                   [] ~Returned -> "pending"
                   [] wpc = "finished" /\ result = "ok" -> "ok"
                   [] OTHER -> "failed"

Promise == INSTANCE AtomicBlob WITH object <- Object, outcome <- WriterOutcome

BlobIsAtomic == Promise!Spec
=============================================================================
