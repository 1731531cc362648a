----------------------- MODULE MultipartUploadProofs -----------------------
(***************************************************************************)
(* Proofs about MultipartUpload, for any part schedule, channel capacity   *)
(* and sizes of writes.                                                    *)
(*                                                                         *)
(* The invariant follows the parts of the stream: until something fails,   *)
(* the parts acknowledged, the one in the uploader's hand and those in the *)
(* channel are, in this order, consecutive parts of the sizes the schedule *)
(* says, and they end where the buffer begins.                             *)
(***************************************************************************)
EXTENDS MultipartUpload, FiniteSetTheorems, SequenceTheorems, TLAPS

Healthy == upc \in {"recv", "part", "complete"}

DataOnly == \A k \in 1..Len(chan) : chan[k].kind = "data"

\* The channel ends with a message of this kind and has only parts before it.
EndsWith(kind) ==
  /\ chan # <<>>
  /\ chan[Len(chan)].kind = kind
  /\ \A k \in 1..(Len(chan) - 1) : chan[k].kind = "data"

\* The parts on their way, in order.
InHand     == IF upc = "part" THEN <<job>> ELSE <<>>
PartsInChan == IF wpc = "join" /\ upc \in {"recv", "part"} THEN Len(chan) - 1 ELSE Len(chan)
Queued     == [k \in 1..PartsInChan |-> chan[k].part]
Flight     == tokens \o InHand \o Queued

Consecutive(s)  == \A i \in 1..Len(s) : s[i].lo = IF i = 1 THEN 1 ELSE s[i - 1].hi + 1
Scheduled(s, n) == \A i \in 1..Len(s) : i <= n => s[i].hi = s[i].lo + PartSize(i - 1) - 1
EndOf(s)        == IF s = <<>> THEN 0 ELSE s[Len(s)].hi

Control ==
  /\ joined = "none" => upc # "exited"
  /\ joined = "partError" => upc \in {"abort", "exited"}
  /\ joined \in {"ok", "completeError"} => upc = "exited"
  /\ wpc \in {"writing", "draining", "last", "finish", "abort"} =>
       \/ upc \in {"recv", "part"} /\ DataOnly
       \/ upc \in {"abort", "exited"} /\ joined = "partError"
  /\ wpc = "join" =>
       \/ upc \in {"recv", "part"} /\ EndsWith("finish")
       \/ upc = "complete" /\ chan = <<>>
       \/ upc = "abort" /\ joined = "partError"
       \/ upc = "exited"
  /\ wpc = "joinAbort" =>
       \/ upc \in {"recv", "part"} /\ EndsWith("abort")
       \/ upc \in {"abort", "exited"}
  /\ Returned => upc = "exited"

InOrder ==
  Healthy /\ wpc \in {"writing", "draining", "last", "finish", "join"} =>
    /\ Consecutive(Flight)
    /\ Scheduled(Flight, partsSent)
    /\ EndOf(Flight) = total - buffered
    /\ wpc \in {"writing", "draining", "last"} => Len(Flight) = partsSent
    /\ wpc \in {"finish", "join"} => /\ Flight # <<>> /\ buffered = 0
                                     /\ Len(Flight) <= partsSent + 1

Buffering ==
  /\ partsSent <= total - buffered
  /\ wpc = "writing" => buffered < PartSize(partsSent)
  /\ wpc = "last" => buffered > 0 \/ partsSent = 0
  /\ wpc = "finish" => buffered = 0

Visible ==
  /\ blob # NoBlob => wpc \in {"join", "finished"} /\ upc = "exited"
  /\ joined = "ok" /\ wpc \in {"join", "finished"} => blob # NoBlob
  /\ upc = "exited" => upload # "open" \/ joined = "completeError"

IInv ==
  /\ TypeOK
  /\ Control
  /\ Buffering
  /\ InOrder
  /\ Visible
  /\ CompletedIsWhole
  /\ FinishBringsTheCause

-----------------------------------------------------------------------------

USE ScheduleAssumption, CapacityAssumption, BoundsAssumption

(* Arithmetic: a part of the schedule has at least one byte. *)

LEMMA PowerOfTwo == \A d \in Nat : 2^d \in Nat \ {0}
  <1> SUFFICES ASSUME NEW d \in Nat PROVE 2^d \in Nat \ {0}
    OBVIOUS
  <1>1. IsFiniteSet(1..d) /\ Cardinality(1..d) = d
    BY FS_Interval
  <1>2. IsFiniteSet(SUBSET (1..d)) /\ Cardinality(SUBSET (1..d)) = 2^d
    BY <1>1, FS_SUBSET
  <1>3. {} \in SUBSET (1..d)
    OBVIOUS
  <1>4. Cardinality(SUBSET (1..d)) \in Nat /\ Cardinality(SUBSET (1..d)) # 0
    BY <1>2, <1>3, FS_CardinalityType, FS_EmptySet
  <1> QED
    BY <1>2, <1>4

\* Part sizes are positive: the schedule only doubles.
LEMMA PartSizePositive == \A n \in Nat : PartSize(n) \in Nat \ {0}
  <1> SUFFICES ASSUME NEW n \in Nat PROVE PartSize(n) \in Nat \ {0}
    OBVIOUS
  <1> DEFINE doublings == IF n \div PartsPerDoubling < MaxDoublings
                          THEN n \div PartsPerDoubling ELSE MaxDoublings
             power == 2^doublings
  <1>1. n \div PartsPerDoubling \in Nat
    BY ScheduleAssumption
  <1>2. doublings \in Nat
    BY <1>1, ScheduleAssumption
  <1>3. power \in Nat \ {0}
    <2> HIDE DEF doublings
    <2> QED
      BY <1>2, PowerOfTwo
  <1>4. PartSize(n) = InitialPartSize * power
    BY DEF PartSize
  <1> HIDE DEF power
  <1>5. InitialPartSize * power \in Nat \ {0}
    BY <1>3, ScheduleAssumption
  <1> QED
    BY <1>4, <1>5

-----------------------------------------------------------------------------

\* The inductive invariant holds at first.
THEOREM InitIInv == Init => IInv
  <1> SUFFICES ASSUME Init PROVE IInv
    OBVIOUS
  <1> USE DEF Init, NoPart, NoBlob, Part
  <1>1. TypeOK
    <2>1. NoPart \in Parts
      BY BoundsAssumption DEF Parts
    <2> QED
      BY <2>1, EmptySeq, CapacityAssumption, BoundsAssumption DEF TypeOK
  <1>2. Control
    BY DEF Control, DataOnly, Returned
  <1>3. Buffering
    BY PartSizePositive DEF Buffering
  <1>4. InOrder
    <2>1. Queued = <<>>
      BY DEF Queued, PartsInChan
    <2>2. Flight = <<>>
      BY <2>1 DEF Flight, InHand
    <2> QED
      BY <2>2 DEF InOrder, Consecutive, Scheduled, EndOf
  <1>5. Visible /\ CompletedIsWhole /\ FinishBringsTheCause
    BY DEF Visible, CompletedIsWhole, FinishBringsTheCause
  <1> QED
    BY <1>1, <1>2, <1>3, <1>4, <1>5 DEF IInv

Messages == [kind : {"data", "finish", "abort"}, part : Parts]

\* What is sent through the channel are messages.
LEMMA MessagesAreTyped ==
  /\ NoPart \in Parts /\ Finish \in Messages /\ Abort \in Messages
  /\ \A p \in Parts : Data(p) \in Messages
  <1>1. NoPart \in Parts
    BY BoundsAssumption DEF NoPart, Part, Parts
  <1> QED
    BY <1>1 DEF Finish, Abort, Data, Messages

\* What is drained from the buffer is a part.
LEMMA DrainedIsPart ==
  ASSUME TypeOK, NEW n \in Nat, n <= buffered
  PROVE  Drained(n) \in Parts
  BY BoundsAssumption DEF TypeOK, Drained, Part, Parts

\* What a successful send leaves in the channel.
LEMMA Pushed ==
  ASSUME TypeOK, NEW msg \in Messages, Push(msg)
  PROVE  /\ chan' \in Seq(Messages) /\ Len(chan') = Len(chan) + 1 /\ Len(chan') <= Capacity
         /\ \A k \in 1..Len(chan) : chan'[k] = chan[k]
         /\ chan'[Len(chan) + 1] = msg
         /\ chan' # <<>> /\ upc # "exited"
  <1>1. chan \in Seq(Messages) /\ chan' = Append(chan, msg) /\ Len(chan) < Capacity
    BY DEF TypeOK, Messages, Push
  <1>2. Len(chan) \in Nat
    BY <1>1, LenProperties
  <1>3. Len(chan) + 1 <= Capacity
    BY <1>1, <1>2, CapacityAssumption
  <1>4. upc # "exited"
    BY DEF Push, ReceiverGone
  <1> QED
    BY <1>1, <1>3, <1>4, AppendProperties

\* No step breaks a type.
LEMMA TypeStep == TypeOK /\ Buffering /\ [Next]_vars => TypeOK'
  <1> SUFFICES ASSUME TypeOK, Buffering, [Next]_vars PROVE TypeOK'
    OBVIOUS
  <1> USE DEF writerVars, uploaderVars, serviceVars
  <1>0. PartSize(partsSent) \in Nat \ {0}
    <2>1. partsSent \in Nat
      BY BoundsAssumption DEF TypeOK
    <2> QED
      BY <2>1, PartSizePositive
  <1>1. CASE Write
    BY <1>1 DEF Write, TypeOK
  <1>2. CASE DrainPart
    <2>1. /\ PartSize(partsSent) <= buffered
          /\ Push(Data(Drained(PartSize(partsSent))))
          /\ buffered' = buffered - PartSize(partsSent) /\ partsSent' = partsSent + 1
          /\ UNCHANGED <<wpc, total, result, uploaderVars, serviceVars>>
      BY <1>0, <1>2 DEF DrainPart, TypeOK
    <2>2. Data(Drained(PartSize(partsSent))) \in Messages
      BY <1>0, <2>1, DrainedIsPart, MessagesAreTyped
    <2>3. chan' \in Seq(Messages) /\ Len(chan') <= Capacity
      BY <2>1, <2>2, Pushed
    <2>4. buffered' \in 0..total /\ partsSent' \in 0..MaxBytes
      BY <1>0, <2>1, BoundsAssumption DEF TypeOK, Buffering
    <2> QED
      BY <2>1, <2>3, <2>4 DEF TypeOK, Messages
  <1>3. CASE DrainFails
    BY <1>0, <1>3 DEF DrainFails, TypeOK
  <1>4. CASE WriteReturns \/ SourceFails \/ CallFinish \/ Join \/ JoinAbort
    BY <1>4 DEF WriteReturns, SourceFails, CallFinish, Join, JoinAbort, TypeOK
  <1>5. CASE SendLast
    <2>1. Data(Drained(buffered)) \in Messages
      BY DrainedIsPart, MessagesAreTyped DEF TypeOK
    <2>2. chan' \in Seq(Messages) /\ Len(chan') <= Capacity
      BY <1>5, <2>1, Pushed DEF SendLast, TypeOK, Messages
    <2> QED
      BY <1>5, <2>2 DEF SendLast, TypeOK, Messages
  <1>6. CASE SendFinish
    <2>1. chan' \in Seq(Messages) /\ Len(chan') <= Capacity
      BY <1>6, Pushed, MessagesAreTyped DEF SendFinish, TypeOK, Messages
    <2> QED
      BY <1>6, <2>1 DEF SendFinish, TypeOK, Messages
  <1>7. CASE SendAbort
    <2>1. chan' \in Seq(Messages) /\ Len(chan') <= Capacity
      BY <1>7, Pushed, MessagesAreTyped DEF SendAbort, TypeOK, Messages
    <2> QED
      BY <1>7, <2>1 DEF SendAbort, TypeOK, Messages
  <1>8. CASE Recv
    <2>1. chan \in Seq(Messages) /\ chan # <<>>
      BY <1>8 DEF Recv, TypeOK, Messages
    <2>2. /\ Head(chan) \in Messages /\ Tail(chan) \in Seq(Messages)
          /\ Len(Tail(chan)) = Len(chan) - 1 /\ Len(chan) \in Nat
      BY <2>1, HeadTailProperties, LenProperties
    <2>3. job' \in Parts /\ upc' \in {"part", "complete", "abort"}
      BY <1>8, <2>2 DEF Recv, Messages
    <2>4. Len(Tail(chan)) <= Capacity
      BY <2>2, CapacityAssumption DEF TypeOK
    <2> QED
      BY <1>8, <2>2, <2>3, <2>4 DEF Recv, TypeOK, Messages
  <1>9. CASE PartOk
    <2>1. Append(tokens, job) \in Seq(Parts)
      BY AppendProperties DEF TypeOK
    <2> QED
      BY <1>9, <2>1 DEF PartOk, TypeOK
  <1>10. CASE PartFails \/ CompleteOk \/ CompleteFails \/ AbortUpload
    BY <1>10 DEF PartFails, CompleteOk, CompleteFails, AbortUpload, TypeOK
  <1>11. CASE Terminating \/ UNCHANGED vars
    BY <1>11 DEF Terminating, vars, TypeOK
  <1> QED
    BY <1>1, <1>2, <1>3, <1>4, <1>5, <1>6, <1>7, <1>8, <1>9, <1>10, <1>11
       DEF Next, Writer, Uploader

\* The writer sends Finish or Abort last, and the uploader leaves only after one of
\* them or after a part failed.
LEMMA ControlStep == TypeOK /\ Control /\ [Next]_vars => Control'
  <1> SUFFICES ASSUME TypeOK, Control, [Next]_vars PROVE Control'
    OBVIOUS
  <1> USE DEF writerVars, uploaderVars, serviceVars
  <1>0. chan \in Seq(Messages) /\ Len(chan) \in Nat
    BY LenProperties DEF TypeOK, Messages
  <1>1. ASSUME UNCHANGED <<chan, upc, joined>>,
               wpc \in {"writing", "draining", "last", "finish"},
               wpc' \in {"writing", "draining", "last", "finish", "abort"}
        PROVE  Control'
    BY <1>1 DEF Control, DataOnly, EndsWith, Returned
  <1>2. ASSUME NEW p \in Parts, Push(Data(p)), UNCHANGED <<upc, joined>>,
               wpc \in {"draining", "last"}, wpc' \in {"draining", "finish"}
        PROVE  Control'
    <2>1. /\ Len(chan') = Len(chan) + 1 /\ upc # "exited"
          /\ \A k \in 1..Len(chan) : chan'[k] = chan[k]
          /\ chan'[Len(chan) + 1].kind = "data"
      BY <1>2, Pushed, MessagesAreTyped DEF Data
    <2>2. DataOnly => DataOnly'
      BY <1>0, <2>1 DEF DataOnly
    <2> QED
      BY <1>2, <2>1, <2>2 DEF Control, Returned
  <1>3. ASSUME NEW msg \in {Finish, Abort}, Push(msg) PROVE  DataOnly => EndsWith(msg.kind)'
    <2>1. /\ Len(chan') = Len(chan) + 1 /\ chan' # <<>>
          /\ \A k \in 1..Len(chan) : chan'[k] = chan[k]
          /\ chan'[Len(chan) + 1] = msg
      BY <1>3, Pushed, MessagesAreTyped
    <2> QED
      BY <1>0, <2>1 DEF DataOnly, EndsWith
  <1>4. CASE Write \/ DrainFails \/ WriteReturns \/ SourceFails \/ CallFinish
    BY <1>1, <1>4 DEF Write, DrainFails, WriteReturns, SourceFails, CallFinish
  <1>5. CASE DrainPart
    <2>1. PartSize(partsSent) \in Nat
      <3>1. partsSent \in Nat
        BY BoundsAssumption DEF TypeOK
      <3> QED
        BY <3>1, PartSizePositive
    <2>2. Drained(PartSize(partsSent)) \in Parts
      BY <1>5, <2>1, DrainedIsPart DEF DrainPart, TypeOK
    <2> QED
      BY <1>2, <1>5, <2>2 DEF DrainPart
  <1>6. CASE SendLast
    <2>1. Drained(buffered) \in Parts
      BY DrainedIsPart DEF TypeOK
    <2>2. CASE ReceiverGone /\ UNCHANGED chan
      BY <1>1, <1>6, <2>2 DEF SendLast
    <2> QED
      BY <1>2, <1>6, <2>1, <2>2 DEF SendLast
  <1>7. CASE SendFinish
    <2>1. CASE ReceiverGone
      BY <1>7, <2>1 DEF SendFinish, Control, ReceiverGone, Returned, Push
    <2>2. CASE Push(Finish)
      <3>1. wpc = "finish" /\ wpc' = "join" /\ UNCHANGED <<upc, joined>> /\ upc # "exited"
        BY <1>7, <2>2 DEF SendFinish, Push, ReceiverGone
      <3>2. DataOnly => EndsWith("finish")'
        BY <1>3, <2>2 DEF Finish
      <3> QED
        BY <3>1, <3>2 DEF Control, Returned
    <2> QED
      BY <1>7, <2>1, <2>2 DEF SendFinish
  <1>8. CASE SendAbort
    <2>1. CASE ReceiverGone
      BY <1>8, <2>1 DEF SendAbort, Control, ReceiverGone, Returned, Push
    <2>2. CASE Push(Abort)
      <3>1. wpc = "abort" /\ wpc' = "joinAbort" /\ UNCHANGED <<upc, joined>> /\ upc # "exited"
        BY <1>8, <2>2 DEF SendAbort, Push, ReceiverGone
      <3>2. DataOnly => EndsWith("abort")'
        BY <1>3, <2>2 DEF Abort
      <3> QED
        BY <3>1, <3>2 DEF Control, Returned
    <2> QED
      BY <1>8, <2>1, <2>2 DEF SendAbort
  <1>9. CASE Join \/ JoinAbort
    BY <1>9 DEF Join, JoinAbort, Control, Returned
  <1>10. CASE Recv
    <2>1. chan # <<>> /\ upc = "recv" /\ chan' = Tail(chan) /\ UNCHANGED <<wpc, joined>>
      BY <1>10 DEF Recv
    <2>2. /\ Len(chan) \in Nat \ {0} /\ Len(chan') = Len(chan) - 1
          /\ chan' \in Seq(Messages)
          /\ \A k \in 1..Len(chan') : chan'[k] = chan[k + 1]
      BY <1>0, <2>1, HeadTailProperties, EmptySeq
    <2>3. upc' = CASE chan[1].kind = "data"   -> "part"
                   [] chan[1].kind = "finish" -> "complete"
                   [] OTHER                   -> "abort"
      <3>1. Head(chan) = chan[1]
        BY <1>0, <2>1
      <3> QED
        BY <1>10, <3>1 DEF Recv
    <2>4. chan' = <<>> <=> Len(chan) = 1
      BY <2>2, EmptySeq
    <2>5. DataOnly => DataOnly' /\ upc' = "part"
      BY <2>2, <2>3 DEF DataOnly
    <2>6. ASSUME NEW kd, EndsWith(kd), kd # "data"
          PROVE  \/ upc' = "part" /\ EndsWith(kd)'
                 \/ chan' = <<>> /\ upc' = CASE kd = "finish" -> "complete" [] OTHER -> "abort"
      <3>1. CASE Len(chan) = 1
        BY <2>3, <2>4, <2>6, <3>1 DEF EndsWith
      <3>2. CASE Len(chan) # 1
        <4>1. chan[1].kind = "data"
          BY <2>2, <2>6, <3>2 DEF EndsWith
        <4>2. chan'[Len(chan')].kind = kd
          BY <2>2, <2>6, <3>2 DEF EndsWith
        <4>3. \A k \in 1..(Len(chan') - 1) : chan'[k].kind = "data"
          BY <2>2, <2>6, <3>2 DEF EndsWith
        <4> QED
          BY <2>3, <2>4, <3>2, <4>1, <4>2, <4>3 DEF EndsWith
      <3> QED
        BY <3>1, <3>2
    <2>7. EndsWith("finish") => \/ upc' = "part" /\ EndsWith("finish")'
                                \/ upc' = "complete" /\ chan' = <<>>
      BY <2>6
    <2>8. EndsWith("abort") => \/ upc' = "part" /\ EndsWith("abort")'
                               \/ upc' = "abort"
      BY <2>6
    <2>9. /\ joined = "none"
          /\ wpc \in {"writing", "draining", "last", "finish", "abort"} => DataOnly
          /\ wpc = "join" => EndsWith("finish")
          /\ wpc = "joinAbort" => EndsWith("abort")
          /\ ~Returned
      BY <2>1 DEF Control, TypeOK
    <2>10. upc' \in {"part", "complete", "abort"} /\ joined' = "none" /\ wpc' = wpc
      BY <2>1, <2>3, <2>9
    <2>11. CASE wpc \in {"writing", "draining", "last", "finish", "abort"}
      BY <2>5, <2>9, <2>10, <2>11 DEF Control, Returned
    <2>12. CASE wpc = "join"
      BY <2>7, <2>9, <2>10, <2>12 DEF Control, Returned
    <2>13. CASE wpc = "joinAbort"
      BY <2>8, <2>9, <2>10, <2>13 DEF Control, Returned
    <2> QED
      BY <2>9, <2>11, <2>12, <2>13 DEF TypeOK, Returned
  <1>11. CASE PartOk \/ PartFails
    BY <1>11 DEF PartOk, PartFails, Control, DataOnly, EndsWith, Returned
  <1>12. CASE CompleteOk \/ CompleteFails \/ AbortUpload
    BY <1>12 DEF CompleteOk, CompleteFails, AbortUpload, Control, Returned
  <1>13. CASE Terminating \/ UNCHANGED vars
    BY <1>13 DEF Terminating, vars, Control, DataOnly, EndsWith, Returned
  <1> QED
    BY <1>4, <1>5, <1>6, <1>7, <1>8, <1>9, <1>10, <1>11, <1>12, <1>13 DEF Next, Writer, Uploader

-----------------------------------------------------------------------------
(* The parts on their way *)

LEMMA FlightIsSeq ==
  ASSUME TypeOK, Control
  PROVE  /\ PartsInChan \in Nat /\ PartsInChan <= Len(chan)
         /\ InHand \in Seq(Parts)
         /\ Queued \in Seq(Parts) /\ Len(Queued) = PartsInChan
         /\ \A k \in 1..PartsInChan : Queued[k] = chan[k].part
         /\ tokens \in Seq(Parts) /\ tokens \o InHand \in Seq(Parts)
         /\ Flight \in Seq(Parts)
  <1>1. chan \in Seq(Messages) /\ Len(chan) \in Nat
    BY LenProperties DEF TypeOK, Messages
  <1>2. PartsInChan \in Nat /\ PartsInChan <= Len(chan)
    <2>1. wpc = "join" /\ upc \in {"recv", "part"} => chan # <<>>
      BY DEF Control, EndsWith
    <2>2. chan # <<>> => Len(chan) \in Nat \ {0}
      BY <1>1, EmptySeq
    <2> QED
      BY <1>1, <2>1, <2>2 DEF PartsInChan
  <1>3. \A k \in 1..PartsInChan : chan[k].part \in Parts
    <2> SUFFICES ASSUME NEW k \in 1..PartsInChan PROVE chan[k].part \in Parts
      OBVIOUS
    <2>1. k \in 1..Len(chan)
      BY <1>1, <1>2
    <2>2. chan[k] \in Messages
      BY <1>1, <2>1, ElementOfSeq
    <2> QED
      BY <2>2 DEF Messages
  <1>4. /\ Queued \in Seq(Parts) /\ Len(Queued) = PartsInChan
        /\ \A k \in 1..PartsInChan : Queued[k] = chan[k].part
    <2> HIDE DEF PartsInChan
    <2> QED
      BY <1>2, <1>3 DEF Queued
  <1>5. InHand \in Seq(Parts) /\ tokens \in Seq(Parts)
    BY DEF InHand, TypeOK
  <1>6. tokens \o InHand \in Seq(Parts)
    BY <1>5, ConcatProperties
  <1>7. Flight \in Seq(Parts)
    BY <1>4, <1>6, ConcatProperties DEF Flight
  <1> QED
    BY <1>2, <1>4, <1>5, <1>6, <1>7

\* Parts in flight are tokens, the part in hand and the queue.
LEMMA FlightKept ==
  ASSUME UNCHANGED <<tokens, job, upc, chan>>, wpc # "join", wpc' # "join"
  PROVE  Flight' = Flight
  BY DEF Flight, InHand, Queued, PartsInChan

\* A part sent joins the end.
LEMMA FlightGrows ==
  ASSUME TypeOK, Control, NEW p \in Parts, Push(Data(p)), UNCHANGED <<tokens, job, upc>>,
         wpc # "join", wpc' # "join"
  PROVE  Flight' = Append(Flight, p)
  <1> DEFINE done == tokens \o InHand
             q == Queued
             r == Queued'
  <1>1. /\ done \in Seq(Parts) /\ q \in Seq(Parts) /\ Len(q) = Len(chan)
        /\ \A k \in 1..Len(chan) : q[k] = chan[k].part
    BY FlightIsSeq DEF PartsInChan
  <1>2. /\ Len(chan') = Len(chan) + 1 /\ Len(chan) \in Nat
        /\ \A k \in 1..Len(chan) : chan'[k] = chan[k]
        /\ chan'[Len(chan) + 1].part = p
    BY Pushed, MessagesAreTyped, LenProperties DEF Data, TypeOK
  <1>3. r = [k \in 1..(Len(chan) + 1) |-> chan'[k].part]
    BY <1>2 DEF Queued, PartsInChan
  <1>4. \A k \in 1..(Len(chan) + 1) : chan'[k].part \in Parts
    <2>1. \A k \in 1..Len(chan) : q[k] \in Parts
      BY <1>1, ElementOfSeq
    <2> QED
      BY <1>1, <1>2, <2>1
  <1>5. /\ r \in Seq(Parts) /\ Len(r) = Len(chan) + 1
        /\ \A k \in 1..Len(chan) : r[k] = q[k]
        /\ r[Len(chan) + 1] = p
    <2> DEFINE n == Len(chan) + 1
    <2>1. n \in Nat
      BY <1>2
    <2>2. r \in Seq(Parts) /\ Len(r) = n
      <3> HIDE DEF n, r
      <3> QED
        BY <1>3, <1>4, <2>1 DEF n
    <2> QED
      BY <1>1, <1>2, <1>3, <2>2
  <1> HIDE DEF q, r, done
  <1>6. r = Append(q, p)
    <2>1. /\ Append(q, p) \in Seq(Parts) /\ Len(Append(q, p)) = Len(q) + 1
          /\ \A k \in 1..Len(q) : Append(q, p)[k] = q[k]
          /\ Append(q, p)[Len(q) + 1] = p
      BY <1>1, AppendProperties
    <2>2. \A k \in 1..Len(r) : r[k] = Append(q, p)[k]
      BY <1>1, <1>2, <1>5, <2>1
    <2> QED
      BY <1>1, <1>5, <2>1, <2>2, SeqEqual
  <1>7. done \o Append(q, p) = Append(done \o q, p)
    <2>1. <<p>> \in Seq(Parts)
      OBVIOUS
    <2>2. Append(q, p) = q \o <<p>>
      BY <1>1, AppendIsConcat
    <2>3. (done \o q) \o <<p>> = done \o (q \o <<p>>)
      BY <1>1, <2>1, ConcatAssociative
    <2>4. done \o q \in Seq(Parts)
      BY <1>1, ConcatProperties
    <2>5. Append(done \o q, p) = (done \o q) \o <<p>>
      BY <2>4, AppendIsConcat
    <2> QED
      BY <2>2, <2>3, <2>5
  <1>8. Flight = done \o q
    BY DEF Flight, done, q
  <1>9. Flight' = done \o r
    BY DEF Flight, InHand, done, r
  <1> QED
    BY <1>6, <1>7, <1>8, <1>9

\* Finish is not a part.
LEMMA FlightSealed ==
  ASSUME TypeOK, Control, SendFinish, upc \in {"recv", "part"}
  PROVE  Flight' = Flight
  <1> USE DEF writerVars, uploaderVars, serviceVars
  <1>1. /\ wpc = "finish" /\ wpc' = "join" /\ Push(Finish) /\ UNCHANGED <<tokens, job, upc>>
    BY DEF SendFinish, ReceiverGone
  <1>2. /\ Len(chan') = Len(chan) + 1 /\ Len(chan) \in Nat
        /\ \A k \in 1..Len(chan) : chan'[k] = chan[k]
    BY <1>1, Pushed, MessagesAreTyped, LenProperties DEF TypeOK
  <1>3. PartsInChan = Len(chan) /\ PartsInChan' = Len(chan)
    BY <1>1, <1>2 DEF PartsInChan
  <1>4. Queued' = Queued
    BY <1>2, <1>3 DEF Queued
  <1> QED
    BY <1>1, <1>4 DEF Flight, InHand

\* The part received was the first of the channel, the part acknowledged the one in hand.
LEMMA FlightReceived ==
  ASSUME TypeOK, Control, Recv, wpc # "abort", wpc # "joinAbort"
  PROVE  Flight' = Flight
  <1> USE DEF writerVars, uploaderVars, serviceVars
  <1> DEFINE q == Queued
             r == Queued'
  <1>1. /\ upc = "recv" /\ chan # <<>> /\ chan' = Tail(chan) /\ UNCHANGED <<tokens, wpc>>
        /\ job' = Head(chan).part
    BY DEF Recv
  <1>2. chan \in Seq(Messages)
    BY DEF TypeOK, Messages
  <1>3. /\ Len(chan) \in Nat \ {0} /\ Len(chan') = Len(chan) - 1
        /\ \A k \in 1..Len(chan') : chan'[k] = chan[k + 1]
        /\ Head(chan) = chan[1]
    BY <1>1, <1>2, HeadTailProperties, EmptySeq
  <1>4. Flight = tokens \o q
    <2>1. tokens \o <<>> = tokens
      BY ConcatEmptySeq DEF TypeOK
    <2> QED
      BY <1>1, <2>1 DEF Flight, InHand
  <1>5. CASE chan[1].kind = "data"
    <2>1. upc' = "part" /\ job' = chan[1].part
      BY <1>3, <1>5 DEF Recv
    <2>2. PartsInChan' = PartsInChan - 1
      BY <1>1, <1>3, <2>1 DEF PartsInChan
    <2>3. PartsInChan \in Nat \ {0} /\ q \in Seq(Parts) /\ Len(q) = PartsInChan
          /\ (\A k \in 1..PartsInChan : q[k] = chan[k].part) /\ PartsInChan <= Len(chan)
      <3>1. wpc = "join" => Len(chan) # 1
        BY <1>1, <1>3, <1>5 DEF Control, EndsWith
      <3>2. PartsInChan # 0
        BY <1>1, <1>3, <3>1 DEF PartsInChan
      <3> QED
        BY <3>2, FlightIsSeq
    <2> DEFINE m == PartsInChan - 1
    <2>4. m \in Nat /\ m < Len(chan)
      BY <1>3, <2>3
    <2>5. r = [k \in 1..m |-> chan'[k].part]
      BY <2>2 DEF Queued
    <2> HIDE DEF q, r, m
    <2>6. \A k \in 1..m : k + 1 \in 1..Len(q) /\ chan'[k].part = q[k + 1] /\ q[k + 1] \in Parts
      <3> SUFFICES ASSUME NEW k \in 1..m
                   PROVE  k + 1 \in 1..Len(q) /\ chan'[k].part = q[k + 1] /\ q[k + 1] \in Parts
        OBVIOUS
      <3>1. k + 1 \in 1..Len(q) /\ k \in 1..Len(chan')
        BY <1>3, <2>3, <2>4 DEF m
      <3> QED
        BY <1>3, <2>3, <3>1, ElementOfSeq
    <2>7. r \in Seq(Parts) /\ Len(r) = m /\ \A k \in 1..m : r[k] = q[k + 1]
      BY <2>4, <2>5, <2>6
    <2>8. /\ q # <<>> /\ Tail(q) \in Seq(Parts) /\ Len(Tail(q)) = m
          /\ \A k \in 1..m : Tail(q)[k] = q[k + 1]
      <3>1. q # <<>>
        BY <2>3
      <3> QED
        BY <2>3, <3>1, HeadTailProperties DEF m
    <2>9. r = Tail(q)
      BY <2>7, <2>8, SeqEqual
    <2>10. job' = Head(q) /\ job' \in Parts
      <3>1. 1 \in 1..PartsInChan /\ Head(q) = q[1]
        BY <2>3
      <3>2. q[1] \in Parts
        BY <2>3, <3>1, ElementOfSeq
      <3> QED
        BY <2>1, <2>3, <3>1, <3>2
    <2>11. <<job'>> \o r = q
      <3>1. /\ <<job'>> \in Seq(Parts) /\ Len(<<job'>>) = 1 /\ <<job'>>[1] = job'
        BY <2>10
      <3>2. /\ <<job'>> \o r \in Seq(Parts) /\ Len(<<job'>> \o r) = 1 + m
            /\ \A i \in 1..(1 + m) :
                 (<<job'>> \o r)[i] = IF i <= 1 THEN <<job'>>[i] ELSE r[i - 1]
        BY <2>7, <3>1, ConcatProperties
      <3>3. Len(q) = 1 + m
        BY <2>3 DEF m
      <3>4. \A i \in 1..(1 + m) : (<<job'>> \o r)[i] = q[i]
        <4> SUFFICES ASSUME NEW i \in 1..(1 + m) PROVE (<<job'>> \o r)[i] = q[i]
          OBVIOUS
        <4>1. CASE i = 1
          BY <2>3, <2>10, <3>1, <3>2, <4>1
        <4>2. CASE i # 1
          <5>1. i - 1 \in 1..m /\ i - 1 + 1 = i
            BY <2>4, <4>2
          <5> QED
            BY <2>4, <2>7, <3>2, <4>2, <5>1
        <4> QED
          BY <4>1, <4>2
      <3> QED
        BY <2>3, <3>2, <3>3, <3>4, SeqEqual
    <2>12. Flight' = (tokens \o <<job'>>) \o r
      BY <1>1, <2>1 DEF Flight, InHand, r
    <2>13. (tokens \o <<job'>>) \o r = tokens \o (<<job'>> \o r)
      <3>1. tokens \in Seq(Parts) /\ <<job'>> \in Seq(Parts)
        BY <2>10 DEF TypeOK
      <3> QED
        BY <2>7, <3>1, ConcatAssociative
    <2> QED
      BY <1>4, <2>11, <2>12, <2>13
  <1>6. CASE chan[1].kind # "data"
    <2>1. wpc = "join" /\ EndsWith("finish")
      BY <1>1, <1>3, <1>6 DEF Control, DataOnly, TypeOK, Returned
    <2>2. Len(chan) = 1
      BY <1>3, <1>6, <2>1 DEF EndsWith
    <2>3. upc' = "complete"
      BY <1>3, <2>1, <2>2 DEF Recv, EndsWith
    <2>4. PartsInChan = 0 /\ PartsInChan' = 0
      BY <1>1, <1>3, <2>1, <2>2, <2>3 DEF PartsInChan
    <2>5. q = <<>> /\ r = <<>>
      BY <2>4 DEF Queued
    <2>6. tokens \o <<>> = tokens
      BY ConcatEmptySeq DEF TypeOK
    <2> QED
      BY <1>1, <1>4, <2>3, <2>5, <2>6 DEF Flight, InHand
  <1> QED
    BY <1>5, <1>6

\* An acknowledged part moves from hand to tokens, and stays in flight.
LEMMA FlightAcknowledged ==
  ASSUME TypeOK, Control, PartOk
  PROVE  Flight' = Flight
  <1> USE DEF writerVars, uploaderVars, serviceVars
  <1>1. /\ upc = "part" /\ upc' = "recv" /\ tokens' = Append(tokens, job)
        /\ UNCHANGED <<wpc, chan>>
    BY DEF PartOk
  <1>2. Queued' = Queued
    BY <1>1 DEF Queued, PartsInChan
  <1>3. tokens' = tokens \o <<job>>
    BY <1>1, AppendIsConcat DEF TypeOK
  <1>4. tokens' \o <<>> = tokens'
    <2>1. tokens' \in Seq(Parts)
      BY <1>1, AppendProperties DEF TypeOK
    <2> QED
      BY <2>1, ConcatEmptySeq
  <1> QED
    BY <1>1, <1>2, <1>3, <1>4 DEF Flight, InHand

-----------------------------------------------------------------------------
(* Order and size *)

LEMMA ScheduleExtends ==
  ASSUME NEW s \in Seq(Parts), NEW p \in Parts, Consecutive(s), p.lo = EndOf(s) + 1
  PROVE  /\ Append(s, p) \in Seq(Parts) /\ Len(Append(s, p)) = Len(s) + 1 /\ Len(s) \in Nat
         /\ Append(s, p) # <<>>
         /\ Consecutive(Append(s, p)) /\ EndOf(Append(s, p)) = p.hi
         /\ \A n \in Nat : Scheduled(s, n) /\ n <= Len(s) => Scheduled(Append(s, p), n)
         /\ Scheduled(s, Len(s)) /\ p.hi = p.lo + PartSize(Len(s)) - 1
              => Scheduled(Append(s, p), Len(s) + 1)
  <1> DEFINE t == Append(s, p)
             n == Len(s)
  <1>1. /\ t \in Seq(Parts) /\ t # <<>> /\ Len(t) = n + 1 /\ n \in Nat
        /\ \A i \in 1..n : t[i] = s[i]
        /\ t[n + 1] = p
    BY AppendProperties, LenProperties
  <1>2. s = <<>> <=> n = 0
    BY EmptySeq
  <1> HIDE DEF t, n
  <1>3. EndOf(t) = p.hi
    BY <1>1 DEF EndOf
  <1>4. Consecutive(t)
    <2> SUFFICES ASSUME NEW i \in 1..(n + 1)
                 PROVE  t[i].lo = IF i = 1 THEN 1 ELSE t[i - 1].hi + 1
      BY <1>1 DEF Consecutive
    <2>1. CASE i = n + 1
      BY <1>1, <1>2, <2>1 DEF EndOf, n
    <2>2. CASE i # n + 1
      <3>1. i \in 1..n /\ (i # 1 => i - 1 \in 1..n)
        BY <1>1, <2>2
      <3> QED
        BY <1>1, <3>1 DEF Consecutive, n
    <2> QED
      BY <2>1, <2>2
  <1>5. ASSUME NEW m \in Nat, Scheduled(s, m), m <= n PROVE Scheduled(t, m)
    <2> SUFFICES ASSUME NEW i \in 1..(n + 1), i <= m
                 PROVE  t[i].hi = t[i].lo + PartSize(i - 1) - 1
      BY <1>1 DEF Scheduled
    <2>1. i \in 1..n
      BY <1>1, <1>5
    <2> QED
      BY <1>1, <1>5, <2>1 DEF Scheduled, n
  <1>6. ASSUME Scheduled(s, n), p.hi = p.lo + PartSize(n) - 1 PROVE Scheduled(t, n + 1)
    <2> SUFFICES ASSUME NEW i \in 1..(n + 1)
                 PROVE  t[i].hi = t[i].lo + PartSize(i - 1) - 1
      BY <1>1 DEF Scheduled
    <2>1. CASE i = n + 1
      <3>1. i - 1 = n
        BY <1>1, <2>1
      <3> QED
        BY <1>1, <1>6, <2>1, <3>1
    <2>2. CASE i # n + 1
      <3>1. i \in 1..n /\ i <= n
        BY <1>1, <2>2
      <3> QED
        BY <1>1, <1>6, <3>1 DEF Scheduled, n
    <2> QED
      BY <2>1, <2>2
  <1> QED
    BY <1>1, <1>3, <1>4, <1>5, <1>6 DEF t, n

\* Every step but a send leaves the parts on their way alone.
LEMMA InOrderStep == TypeOK /\ Control /\ Buffering /\ InOrder /\ [Next]_vars => InOrder'
  <1> SUFFICES ASSUME TypeOK, Control, Buffering, InOrder, [Next]_vars,
                      Healthy', wpc' \in {"writing", "draining", "last", "finish", "join"}
               PROVE  InOrder'
    BY DEF InOrder
  <1> USE DEF writerVars, uploaderVars, serviceVars
  <1> DEFINE s == Flight
  <1>0. s \in Seq(Parts) /\ Len(s) \in Nat /\ total \in Nat /\ buffered \in 0..total
        /\ partsSent \in Nat /\ (s = <<>> <=> Len(s) = 0)
    BY FlightIsSeq, LenProperties, EmptySeq, BoundsAssumption DEF TypeOK
  <1>1. Healthy /\ wpc \in {"writing", "draining", "last", "finish", "join"}
    BY DEF Next, Writer, Uploader, Write, DrainPart, DrainFails, WriteReturns, SourceFails,
           CallFinish, SendLast, SendFinish, Join, SendAbort, JoinAbort, Recv, PartOk, PartFails,
           CompleteOk, CompleteFails, AbortUpload, Terminating, Healthy, vars, ReceiverGone, Push,
           Returned
  <1>2. /\ Consecutive(s) /\ Scheduled(s, partsSent) /\ EndOf(s) = total - buffered
        /\ wpc \in {"writing", "draining", "last"} => Len(s) = partsSent
        /\ wpc \in {"finish", "join"} => s # <<>> /\ buffered = 0 /\ Len(s) <= partsSent + 1
    BY <1>1 DEF InOrder
  <1>3. CASE Write
    <2>1. Flight' = s
      BY <1>3, FlightKept DEF Write
    <2>2. total' - buffered' = total - buffered /\ partsSent' = partsSent /\ wpc = "writing"
          /\ wpc' = "draining"
      BY <1>0, <1>3 DEF Write
    <2> HIDE DEF s
    <2> QED
      BY <1>2, <2>1, <2>2 DEF InOrder, Scheduled, EndOf
  <1>4. CASE DrainPart
    <2> DEFINE size == PartSize(partsSent)
               p == Drained(size)
    <2>1. size \in Nat \ {0} /\ size <= buffered
      BY <1>0, <1>4, PartSizePositive DEF DrainPart
    <2>2. p \in Parts
      BY <2>1, DrainedIsPart
    <2>3. /\ Push(Data(p)) /\ UNCHANGED <<tokens, job, upc, total>>
          /\ wpc = "draining" /\ wpc' = "draining"
          /\ buffered' = buffered - size /\ partsSent' = partsSent + 1
      BY <1>4 DEF DrainPart
    <2>4. Flight' = Append(s, p)
      BY <2>2, <2>3, FlightGrows
    <2>5. p.lo = total - buffered + 1 /\ p.hi = total - buffered + size
      BY DEF Drained, Part
    <2> HIDE DEF s, p, size
    <2>6. p.lo = EndOf(s) + 1 /\ p.hi = p.lo + size - 1 /\ Len(s) = partsSent
      BY <1>0, <1>2, <2>1, <2>3, <2>5
    <2>7. /\ Consecutive(Append(s, p)) /\ EndOf(Append(s, p)) = p.hi
          /\ Len(Append(s, p)) = partsSent + 1
          /\ Scheduled(Append(s, p), partsSent + 1)
      <3>1. /\ Consecutive(Append(s, p)) /\ EndOf(Append(s, p)) = p.hi
            /\ Len(Append(s, p)) = Len(s) + 1
        BY <1>0, <1>2, <2>2, <2>6, ScheduleExtends
      <3>2. Scheduled(s, Len(s)) /\ p.hi = p.lo + PartSize(Len(s)) - 1
        BY <1>2, <2>6 DEF size
      <3>3. Scheduled(Append(s, p), Len(s) + 1)
        BY <1>0, <1>2, <2>2, <2>6, <3>2, ScheduleExtends
      <3> QED
        BY <2>6, <3>1, <3>3
    <2>8. total' - buffered' = p.hi
      BY <1>0, <2>1, <2>3, <2>5
    <2> QED
      BY <2>3, <2>4, <2>7, <2>8 DEF InOrder, Scheduled, EndOf
  <1>5. CASE WriteReturns
    <2>1. Flight' = s
      BY <1>5, FlightKept DEF WriteReturns
    <2>2. UNCHANGED <<total, buffered, partsSent>> /\ wpc = "draining" /\ wpc' = "writing"
      BY <1>5 DEF WriteReturns
    <2> HIDE DEF s
    <2> QED
      BY <1>2, <2>1, <2>2 DEF InOrder, Scheduled, EndOf
  <1>6. CASE CallFinish
    <2>1. Flight' = s
      BY <1>6, FlightKept DEF CallFinish
    <2>2. /\ UNCHANGED <<total, buffered, partsSent>> /\ wpc = "writing"
          /\ wpc' = "last" \/ (wpc' = "finish" /\ buffered = 0 /\ partsSent # 0)
      <3>1. /\ UNCHANGED <<total, buffered, partsSent>> /\ wpc = "writing"
            /\ wpc' = IF buffered > 0 \/ partsSent = 0 THEN "last" ELSE "finish"
        BY <1>6 DEF CallFinish
      <3>2. ~(buffered > 0) => buffered = 0
        BY <1>0
      <3> QED
        BY <3>1, <3>2
    <2> HIDE DEF s
    <2> QED
      BY <1>0, <1>2, <2>1, <2>2 DEF InOrder, Scheduled, EndOf
  <1>7. CASE SendLast
    <2> DEFINE p == Drained(buffered)
    <2>1. p \in Parts
      BY <1>0, DrainedIsPart
    <2>2. /\ Push(Data(p)) /\ UNCHANGED <<tokens, job, upc, total, partsSent>>
          /\ wpc = "last" /\ wpc' = "finish" /\ buffered' = 0
      BY <1>1, <1>7 DEF SendLast, ReceiverGone, Healthy
    <2>3. Flight' = Append(s, p)
      BY <2>1, <2>2, FlightGrows
    <2>4. p.lo = total - buffered + 1 /\ p.hi = total
      BY <1>0 DEF Drained, Part
    <2> HIDE DEF s, p
    <2>5. p.lo = EndOf(s) + 1 /\ Len(s) = partsSent
      BY <1>0, <1>2, <2>2, <2>4
    <2>6. /\ Consecutive(Append(s, p)) /\ EndOf(Append(s, p)) = p.hi /\ Append(s, p) # <<>>
          /\ Len(Append(s, p)) = partsSent + 1
      BY <1>0, <1>2, <2>1, <2>5, ScheduleExtends
    <2>7. Scheduled(Append(s, p), partsSent)
      <3>1. partsSent <= Len(s)
        BY <1>0, <2>5
      <3> QED
        BY <1>0, <1>2, <2>1, <2>5, <3>1, ScheduleExtends
    <2>8. total' - buffered' = p.hi
      BY <1>0, <2>2, <2>4
    <2> QED
      BY <1>0, <2>2, <2>3, <2>6, <2>7, <2>8 DEF InOrder, Scheduled, EndOf
  <1>8. CASE SendFinish
    <2>1. Flight' = s
      BY <1>1, <1>8, FlightSealed DEF SendFinish, Healthy, Control
    <2>2. UNCHANGED <<total, buffered, partsSent>> /\ wpc = "finish" /\ wpc' = "join"
      BY <1>8 DEF SendFinish
    <2> HIDE DEF s
    <2> QED
      BY <1>2, <2>1, <2>2 DEF InOrder, Scheduled, EndOf
  <1>9. CASE Recv \/ PartOk
    <2>1. Flight' = s
      BY <1>1, <1>9, FlightReceived, FlightAcknowledged
    <2>2. UNCHANGED <<total, buffered, partsSent, wpc>>
      BY <1>9 DEF Recv, PartOk
    <2> HIDE DEF s
    <2> QED
      BY <1>2, <2>1, <2>2 DEF InOrder, Scheduled, EndOf
  <1>10. CASE UNCHANGED vars
    <2>1. Flight' = s
      BY <1>10 DEF vars, Flight, InHand, Queued, PartsInChan
    <2> HIDE DEF s
    <2> QED
      BY <1>2, <1>10, <2>1 DEF vars, InOrder, Scheduled, EndOf
  <1> QED
    BY <1>1, <1>3, <1>4, <1>5, <1>6, <1>7, <1>8, <1>9, <1>10
       DEF Next, Writer, Uploader, DrainFails, SourceFails, Join, SendAbort, JoinAbort, PartFails,
           CompleteOk, CompleteFails, AbortUpload, Terminating, Healthy, ReceiverGone

-----------------------------------------------------------------------------
(* What readers see and the writing side is told *)

LEMMA BufferingStep == TypeOK /\ Buffering /\ [Next]_vars => Buffering'
  <1> SUFFICES ASSUME TypeOK, Buffering, [Next]_vars PROVE Buffering'
    OBVIOUS
  <1> USE DEF writerVars, uploaderVars, serviceVars
  <1>0. total \in Nat /\ buffered \in 0..total /\ partsSent \in Nat
    BY BoundsAssumption DEF TypeOK
  <1> DEFINE size == PartSize(partsSent)
  <1>1. size \in Nat \ {0}
    BY <1>0, PartSizePositive
  <1>2. CASE Write
    BY <1>0, <1>2 DEF Write, Buffering
  <1>3. CASE DrainPart
    <2>1. /\ wpc' = "draining" /\ total' = total
          /\ buffered >= size /\ buffered' = buffered - size /\ partsSent' = partsSent + 1
      BY <1>3 DEF DrainPart
    <2> HIDE DEF size
    <2>2. partsSent' <= total' - buffered'
      BY <1>0, <1>1, <2>1 DEF Buffering
    <2> QED
      BY <2>1, <2>2 DEF Buffering
  <1>4. CASE DrainFails
    <2>1. /\ wpc' = "abort" /\ total' = total
          /\ buffered >= size /\ buffered' = buffered - size /\ partsSent' = partsSent
      BY <1>4 DEF DrainFails
    <2> HIDE DEF size
    <2>2. partsSent' <= total' - buffered'
      BY <1>0, <1>1, <2>1 DEF Buffering
    <2> QED
      BY <2>1, <2>2 DEF Buffering
  <1>5. CASE WriteReturns
    BY <1>5 DEF WriteReturns, Buffering, PartSize
  <1>6. CASE CallFinish
    <2>1. /\ UNCHANGED <<total, buffered, partsSent>>
          /\ wpc' = IF buffered > 0 \/ partsSent = 0 THEN "last" ELSE "finish"
      BY <1>6 DEF CallFinish
    <2>2. ~(buffered > 0) => buffered = 0
      BY <1>0
    <2> QED
      BY <2>1, <2>2 DEF Buffering
  <1>7. CASE SendLast
    BY <1>0, <1>7 DEF SendLast, Buffering
  <1>8. CASE SourceFails \/ SendFinish \/ Join \/ SendAbort \/ JoinAbort
    BY <1>8 DEF SourceFails, SendFinish, Join, SendAbort, JoinAbort, Buffering
  <1>9. CASE Uploader \/ Terminating \/ UNCHANGED vars
    <2>1. UNCHANGED writerVars
      BY <1>9 DEF Uploader, Recv, PartOk, PartFails, CompleteOk, CompleteFails, AbortUpload,
                  Terminating, vars
    <2> QED
      BY <2>1 DEF Buffering, PartSize
  <1> QED
    BY <1>2, <1>3, <1>4, <1>5, <1>6, <1>7, <1>8, <1>9 DEF Next, Writer

\* Only the whole stream is ever completed.
LEMMA CompletesWhole ==
  ASSUME TypeOK, Control, InOrder, upc = "complete"
  PROVE  /\ wpc = "join" /\ tokens \in Seq(Parts) /\ tokens # <<>>
         /\ CoversAllBytes(tokens)
         /\ \A k \in 1..(Len(tokens) - 1) : tokens[k].hi - tokens[k].lo + 1 = PartSize(k - 1)
  <1>1. wpc = "join" /\ chan = <<>> /\ Healthy
    BY DEF Control, TypeOK, Healthy, Returned
  <1>2. Flight = tokens
    <2>1. Queued = <<>>
      BY <1>1 DEF Queued, PartsInChan
    <2>2. tokens \o <<>> = tokens
      BY ConcatEmptySeq DEF TypeOK
    <2> QED
      BY <2>1, <2>2 DEF Flight, InHand
  <1>3. /\ Consecutive(tokens) /\ Scheduled(tokens, partsSent) /\ EndOf(tokens) = total - buffered
        /\ tokens # <<>> /\ buffered = 0 /\ Len(tokens) <= partsSent + 1
    BY <1>1, <1>2 DEF InOrder
  <1>4. tokens \in Seq(Parts) /\ Len(tokens) \in Nat \ {0} /\ partsSent \in Nat /\ total \in Nat
    BY <1>3, EmptySeq, BoundsAssumption DEF TypeOK
  <1>5. \A k \in 1..Len(tokens) : tokens[k].lo \in Nat /\ tokens[k].hi \in Nat
    <2> SUFFICES ASSUME NEW k \in 1..Len(tokens) PROVE tokens[k].lo \in Nat /\ tokens[k].hi \in Nat
      OBVIOUS
    <2>1. tokens[k] \in Parts
      BY <1>4, ElementOfSeq
    <2> QED
      BY <2>1, BoundsAssumption DEF Parts
  <1>6. CoversAllBytes(tokens)
    <2>1. tokens[1].lo = 1
      BY <1>3, <1>4 DEF Consecutive
    <2>2. \A k \in 1..(Len(tokens) - 1) : tokens[k + 1].lo = tokens[k].hi + 1
      <3> SUFFICES ASSUME NEW k \in 1..(Len(tokens) - 1)
                   PROVE  tokens[k + 1].lo = tokens[k].hi + 1
        OBVIOUS
      <3>1. k + 1 \in 1..Len(tokens) /\ k + 1 # 1 /\ (k + 1) - 1 = k
        BY <1>4
      <3> QED
        BY <1>3, <3>1 DEF Consecutive
    <2>3. tokens[Len(tokens)].hi = total
      BY <1>3, <1>4 DEF EndOf
    <2> QED
      BY <1>3, <2>1, <2>2, <2>3 DEF CoversAllBytes
  <1>7. ASSUME NEW k \in 1..(Len(tokens) - 1)
        PROVE  tokens[k].hi - tokens[k].lo + 1 = PartSize(k - 1)
    <2>1. k \in 1..Len(tokens) /\ k <= partsSent /\ k - 1 \in Nat
      BY <1>3, <1>4
    <2>2. tokens[k].hi = tokens[k].lo + PartSize(k - 1) - 1
      BY <1>3, <2>1 DEF Scheduled
    <2>3. PartSize(k - 1) \in Nat
      BY <2>1, PartSizePositive
    <2>4. tokens[k].lo \in Nat /\ tokens[k].hi \in Nat
      BY <1>5, <2>1
    <2> QED
      BY <2>2, <2>3, <2>4
  <1> QED
    BY <1>1, <1>3, <1>4, <1>6, <1>7

\* The object appears by a complete call over all parts, and never otherwise.
LEMMA VisibleStep ==
  TypeOK /\ Control /\ InOrder /\ Visible /\ CompletedIsWhole /\ [Next]_vars
    => Visible' /\ CompletedIsWhole'
  <1> SUFFICES ASSUME TypeOK, Control, InOrder, Visible, CompletedIsWhole, [Next]_vars
               PROVE  Visible' /\ CompletedIsWhole'
    OBVIOUS
  <1> USE DEF writerVars, uploaderVars, serviceVars
  <1>1. CASE CompleteOk \/ CompleteFails
    <2>1. /\ upc = "complete" /\ upc' = "exited" /\ UNCHANGED <<wpc, total>>
          /\ \/ upload' = "completed" /\ blob' = tokens
             \/ joined' = "completeError" /\ UNCHANGED <<upload, blob>>
          /\ joined' \in {"ok", "completeError"}
      BY <1>1 DEF CompleteOk, CompleteFails
    <2>2. /\ wpc = "join" /\ tokens # <<>> /\ CoversAllBytes(tokens)
          /\ \A k \in 1..(Len(tokens) - 1) : tokens[k].hi - tokens[k].lo + 1 = PartSize(k - 1)
      BY <2>1, CompletesWhole
    <2>3. blob = NoBlob
      BY <2>1 DEF Visible
    <2> QED
      BY <2>1, <2>2, <2>3 DEF Visible, CompletedIsWhole, CoversAllBytes, NoBlob, PartSize
  <1>2. CASE Write \/ DrainPart \/ DrainFails \/ WriteReturns \/ SourceFails \/ CallFinish
             \/ SendLast \/ SendFinish \/ SendAbort
    <2>1. blob = NoBlob /\ UNCHANGED <<upload, blob, upc, joined>>
      BY <1>2 DEF Write, DrainPart, DrainFails, WriteReturns, SourceFails, CallFinish, SendLast,
                  SendFinish, SendAbort, Visible
    <2>2. wpc' \in {"join", "finished"} => joined # "ok"
      BY <1>2 DEF Write, DrainPart, DrainFails, WriteReturns, SourceFails, CallFinish, SendLast,
                  SendFinish, SendAbort, Control
    <2> QED
      BY <2>1, <2>2 DEF Visible, CompletedIsWhole
  <1>3. CASE Join \/ JoinAbort
    BY <1>3 DEF Join, JoinAbort, Visible, CompletedIsWhole, CoversAllBytes, PartSize
  <1>4. CASE Recv \/ PartOk \/ PartFails \/ AbortUpload
    <2>1. blob = NoBlob /\ blob' = blob /\ wpc' = wpc
      BY <1>4 DEF Recv, PartOk, PartFails, AbortUpload, Visible
    <2>2. upc' = "exited" => upload' # "open"
      BY <1>4 DEF Recv, PartOk, PartFails, AbortUpload
    <2>3. joined' = "ok" => wpc \notin {"join", "finished"}
      BY <1>4 DEF Recv, PartOk, PartFails, AbortUpload, Control, Returned
    <2> QED
      BY <2>1, <2>2, <2>3 DEF Visible, CompletedIsWhole
  <1>5. CASE Terminating \/ UNCHANGED vars
    BY <1>5 DEF Terminating, vars, Visible, CompletedIsWhole, CoversAllBytes, PartSize
  <1> QED
    BY <1>1, <1>2, <1>3, <1>4, <1>5 DEF Next, Writer, Uploader

\* finish returns what the joined uploader returned.
LEMMA CauseStep == Control /\ FinishBringsTheCause /\ [Next]_vars => FinishBringsTheCause'
  BY DEF Control, Returned, FinishBringsTheCause, Next, Writer, Uploader, Write, DrainPart,
         DrainFails, WriteReturns, SourceFails, CallFinish, SendLast, SendFinish, Join, SendAbort,
         JoinAbort, Recv, PartOk, PartFails, CompleteOk, CompleteFails, AbortUpload, Terminating,
         vars, writerVars, uploaderVars, serviceVars

-----------------------------------------------------------------------------

\* The inductive invariant holds in every reachable state.
THEOREM Invariance == Spec => []IInv
  <1>1. IInv /\ [Next]_vars => IInv'
    <2> SUFFICES ASSUME IInv, [Next]_vars PROVE IInv'
      OBVIOUS
    <2>1. TypeOK' /\ Control' /\ Buffering' /\ InOrder'
      BY TypeStep, ControlStep, BufferingStep, InOrderStep DEF IInv
    <2>2. Visible' /\ CompletedIsWhole' /\ FinishBringsTheCause'
      BY VisibleStep, CauseStep DEF IInv
    <2> QED
      BY <2>1, <2>2 DEF IInv
  <1> QED
    BY <1>1, InitIInv, PTL DEF Spec

\* Every variable keeps its type, and no more parts are sent than bytes are written.
THEOREM TypeCorrect == Spec => []TypeOK
  <1>1. IInv => TypeOK
    BY DEF IInv
  <1> QED
    BY <1>1, Invariance, PTL

\* What becomes visible is the whole stream, in parts of the sizes the services ask for.
THEOREM VisibleIsWhole == Spec => []CompletedIsWhole
  <1>1. IInv => CompletedIsWhole
    BY DEF IInv
  <1> QED
    BY <1>1, Invariance, PTL

\* finish answers with what the uploader met.
THEOREM CauseIsBrought == Spec => []FinishBringsTheCause
  <1>1. IInv => FinishBringsTheCause
    BY DEF IInv
  <1> QED
    BY <1>1, Invariance, PTL

\* The parts in flight cover the stream up to the buffer.
LEMMA InFlight == IInv => NothingLostInFlight
  <1> SUFFICES ASSUME IInv, wpc \in {"writing", "last"}, upc \in {"recv", "part"}
               PROVE  /\ wpc = "writing" => buffered < PartSize(partsSent)
                      /\ Len(Flight) = partsSent
                      /\ partsSent > 0 => Flight[partsSent].hi = total - buffered
                      /\ partsSent = 0 => total = buffered
    <2>1. PartsInChan = Len(chan) \/ ~(wpc \in {"writing", "last"})
      BY DEF PartsInChan
    <2> QED
      BY <2>1 DEF NothingLostInFlight, Flight, InHand, Queued
  <1>1. Healthy
    BY DEF Healthy
  <1>2. Len(Flight) = partsSent /\ EndOf(Flight) = total - buffered
    BY <1>1 DEF IInv, InOrder
  <1>3. Flight \in Seq(Parts) /\ total \in Nat /\ buffered \in Nat /\ partsSent \in Nat
    BY FlightIsSeq, BoundsAssumption DEF IInv, TypeOK
  <1>4. wpc = "writing" => buffered < PartSize(partsSent)
    BY DEF IInv, Buffering
  <1>5. Flight = <<>> <=> partsSent = 0
    BY <1>2, <1>3, EmptySeq
  <1> QED
    BY <1>2, <1>3, <1>4, <1>5 DEF EndOf

\* Until something fails, no byte is lost, doubled or out of order between the threads.
THEOREM NothingIsLost == Spec => []NothingLostInFlight
  BY InFlight, Invariance, PTL

\* The service's upload and the two threads: it is open until the uploader
\* exits, and then as the uploader's last call left it.
UploadState ==
  /\ upc # "exited" => upload = "open"
  /\ upc = "exited" =>
       \/ /\ upload \in {"aborted", "orphaned"}
          /\ joined = "partError" \/ wpc \in {"joinAbort", "dropped"}
       \/ /\ upload = "open" => joined = "completeError"
          /\ upload \in {"completed", "open"}
          /\ wpc \in {"join", "finished"}

LEMMA UploadStateStep == IInv /\ UploadState /\ [Next]_vars => UploadState'
  <1> SUFFICES ASSUME IInv, UploadState, [Next]_vars PROVE UploadState'
    OBVIOUS
  <1> USE DEF UploadState, serviceVars, uploaderVars, writerVars
  <1>1. CASE Writer
    <2>1. UNCHANGED <<uploaderVars, upload>>
      BY <1>1 DEF Writer, Write, DrainPart, DrainFails, WriteReturns, SourceFails, CallFinish,
        SendLast, SendFinish, Join, SendAbort, JoinAbort
    <2>2. /\ wpc \in {"writing", "draining", "last", "finish", "abort"} /\ upc = "exited" =>
                joined = "partError"
          /\ \/ wpc \in {"writing", "draining", "last", "finish", "abort"}
             \/ wpc = "join" /\ wpc' = "finished"
             \/ wpc = "joinAbort" /\ wpc' = "dropped"
      BY <1>1 DEF IInv, Control, Writer, Write, DrainPart, DrainFails, WriteReturns, SourceFails,
        CallFinish, SendLast, SendFinish, Join, SendAbort, JoinAbort
    <2> QED
      BY <2>1, <2>2
  <1>2. CASE Recv \/ PartOk \/ PartFails
    BY <1>2 DEF Recv, PartOk, PartFails
  <1>3. CASE CompleteOk \/ CompleteFails
    <2>1. wpc = "join"
      BY <1>3 DEF IInv, Control, TypeOK, CompleteOk, CompleteFails, Returned
    <2> QED
      BY <1>3, <2>1 DEF CompleteOk, CompleteFails
  <1>4. CASE AbortUpload
    <2>1. joined = "partError" \/ wpc = "joinAbort"
      BY <1>4 DEF IInv, Control, TypeOK, AbortUpload, Returned
    <2> QED
      BY <1>4, <2>1 DEF AbortUpload, IInv, Control
  <1>5. CASE Terminating \/ UNCHANGED vars
    BY <1>5 DEF Terminating, vars
  <1> QED
    BY <1>1, <1>2, <1>3, <1>4, <1>5 DEF Next, Uploader

LEMMA UploadStateInvariant == Spec => []UploadState
  <1>1. Init => UploadState
    BY DEF Init, UploadState
  <1> QED
    BY <1>1, UploadStateStep, Invariance, PTL DEF Spec

\* What stays on the service after the writer's answer, and why: an upload nobody
\* aborted is one whose complete call failed, an abort in vain follows a failed
\* part or a dropped writer, and nothing stays behind success.
THEOREM LeftoversAreExplained == Spec => []LeftoverHasItsReason
  <1>1. IInv /\ UploadState => LeftoverHasItsReason
    BY DEF IInv, TypeOK, Control, FinishBringsTheCause, UploadState, LeftoverHasItsReason, Returned
  <1> QED
    BY <1>1, Invariance, UploadStateInvariant, PTL

\* After the writing side has its answer the uploader does nothing more.
THEOREM NothingAfterAnswer == Spec => JoinedMeansOver
  <1> DEFINE Over == Returned => UNCHANGED <<uploaderVars, serviceVars>>
  <1>1. IInv /\ [Next]_vars => Over \/ UNCHANGED vars
    <2> SUFFICES ASSUME IInv, Next, Returned PROVE UNCHANGED vars
      BY DEF vars, uploaderVars, serviceVars
    <2>1. upc = "exited"
      BY DEF IInv, Control
    <2> QED
      BY <2>1 DEF Next, Writer, Uploader, Write, DrainPart, DrainFails, WriteReturns, SourceFails,
           CallFinish, SendLast, SendFinish, Join, SendAbort, JoinAbort, Recv, PartOk, PartFails,
           CompleteOk, CompleteFails, AbortUpload, Terminating, Returned
  <1>2. IInv /\ [Next]_vars => [Over]_vars
    BY <1>1
  <1>3. Spec => [][Over]_vars
    BY <1>2, Invariance, PTL DEF Spec
  <1> QED
    BY <1>3 DEF JoinedMeansOver

-----------------------------------------------------------------------------
(* Refinement of AtomicBlob *)

LEMMA ObjectIs ==
  ASSUME IInv
  PROVE  Object = IF blob = NoBlob THEN "absent" ELSE "whole"
  BY DEF IInv, CompletedIsWhole, Object

\* What the writing side has been told, case by case.
LEMMA OutcomeIs ==
  WriterOutcome = IF wpc = "dropped" THEN "dropped"
                  ELSE IF wpc # "finished" THEN "pending"
                  ELSE IF result = "ok" THEN "ok" ELSE "failed"
  BY DEF WriterOutcome, Returned

\* Each step is a step of AtomicBlob, or a stutter.
LEMMA PromiseStep ==
  ASSUME IInv, IInv', [Next]_vars
  PROVE  [Promise!Next]_(Promise!vars)
  <1> USE DEF writerVars, uploaderVars, serviceVars
  <1> DEFINE o == Object
             w == WriterOutcome
  <1>1. /\ o = IF blob = NoBlob THEN "absent" ELSE "whole"
        /\ o' = IF blob' = NoBlob THEN "absent" ELSE "whole"
    BY ObjectIs DEF IInv, CompletedIsWhole, Object
  <1>2. /\ w = IF wpc = "dropped" THEN "dropped"
               ELSE IF wpc # "finished" THEN "pending"
               ELSE IF result = "ok" THEN "ok" ELSE "failed"
        /\ w' = IF wpc' = "dropped" THEN "dropped"
                ELSE IF wpc' # "finished" THEN "pending"
                ELSE IF result' = "ok" THEN "ok" ELSE "failed"
    BY DEF WriterOutcome, Returned
  <1> HIDE DEF o, w
  <1>3. CASE CompleteOk \/ CompleteFails
    <2>1. blob = NoBlob /\ wpc = "join" /\ wpc' = "join"
      BY <1>3 DEF CompleteOk, CompleteFails, IInv, Visible, Control, TypeOK, Returned
    <2>2. o = "absent" /\ w = "pending" /\ w' = "pending" /\ o' \in {"absent", "whole"}
      BY <1>1, <1>2, <2>1
    <2> QED
      BY <2>2 DEF Promise!Next, Promise!Publish, Promise!vars, o, w
  <1>4. CASE Join
    <2>1. /\ wpc = "join" /\ wpc' = "finished" /\ blob' = blob /\ upc = "exited"
          /\ result' = IF joined = "ok" THEN "ok" ELSE "cause"
      BY <1>4 DEF Join
    <2>2. joined = "ok" => blob # NoBlob
      BY <2>1 DEF IInv, Visible
    <2>3. o' = o /\ w = "pending" /\ (w' = "failed" \/ (w' = "ok" /\ o = "whole"))
      BY <1>1, <1>2, <2>1, <2>2
    <2> QED
      BY <2>3 DEF Promise!Next, Promise!Acknowledge, Promise!Fail, o, w
  <1>5. CASE JoinAbort
    <2>1. wpc = "joinAbort" /\ wpc' = "dropped" /\ blob' = blob
      BY <1>5 DEF JoinAbort
    <2>2. blob = NoBlob
      BY <2>1 DEF IInv, Visible
    <2>3. o' = o /\ o = "absent" /\ w = "pending" /\ w' = "dropped"
      BY <1>1, <1>2, <2>1, <2>2
    <2> QED
      BY <2>3 DEF Promise!Next, Promise!Discard, o, w
  <1>6. CASE \/ Write \/ DrainPart \/ DrainFails \/ WriteReturns \/ SourceFails \/ CallFinish
             \/ SendLast \/ SendFinish \/ SendAbort
    <2>1. blob' = blob /\ wpc \notin {"finished", "dropped"} /\ wpc' \notin {"finished", "dropped"}
      BY <1>6 DEF Write, DrainPart, DrainFails, WriteReturns, SourceFails, CallFinish, SendLast,
                  SendFinish, SendAbort
    <2>2. o' = o /\ w' = w
      BY <1>1, <1>2, <2>1
    <2> QED
      BY <2>2 DEF Promise!vars, o, w
  <1>7. CASE Recv \/ PartOk \/ PartFails \/ AbortUpload \/ Terminating \/ UNCHANGED vars
    <2>1. UNCHANGED <<blob, wpc, result>>
      BY <1>7 DEF Recv, PartOk, PartFails, AbortUpload, Terminating, vars
    <2>2. o' = o /\ w' = w
      BY <1>1, <1>2, <2>1
    <2> QED
      BY <2>2 DEF Promise!vars, o, w
  <1> QED
    BY <1>3, <1>4, <1>5, <1>6, <1>7 DEF Next, Writer, Uploader

\* A streamed upload keeps the promise of AtomicBlob: the object appears once and
\* whole, before success is said, and never after its writer was dropped.
THEOREM UploadIsAtomic == Spec => BlobIsAtomic
  <1>1. Init => Promise!Init
    BY DEF Init, Promise!Init, Object, WriterOutcome, Returned, NoBlob
  <1>2. IInv /\ IInv' /\ [Next]_vars => [Promise!Next]_(Promise!vars)
    BY PromiseStep
  <1>3. Spec => Promise!Spec
    BY <1>1, <1>2, Invariance, PTL DEF Spec, Promise!Spec
  <1> QED
    BY <1>3 DEF BlobIsAtomic
=============================================================================
