----------------------------- MODULE AtomicBlob -----------------------------
(***************************************************************************)
(* What a streamed upload promises about its object in storage: the object *)
(* appears once, with every byte that was written, and only a writer that  *)
(* was asked to finish makes it appear; "ok" is said of a visible object,  *)
(* and a writer that was dropped leaves nothing.                           *)
(***************************************************************************)
VARIABLES object,   \* what a reader of the path finds
          outcome   \* what the writing side has been told

vars == <<object, outcome>>

TypeOK ==
  /\ object \in {"absent", "whole"}
  /\ outcome \in {"pending", "ok", "failed", "dropped"}

Init == object = "absent" /\ outcome = "pending"

Publish ==
  /\ outcome = "pending" /\ object = "absent"
  /\ object' = "whole"
  /\ UNCHANGED outcome

Acknowledge ==
  /\ outcome = "pending" /\ object = "whole"
  /\ outcome' = "ok"
  /\ UNCHANGED object

\* The failure may be that of the acknowledgement alone.
Fail ==
  /\ outcome = "pending"
  /\ outcome' = "failed"
  /\ UNCHANGED object

Discard ==
  /\ outcome = "pending" /\ object = "absent"
  /\ outcome' = "dropped"
  /\ UNCHANGED object

Next == Publish \/ Acknowledge \/ Fail \/ Discard

Spec == Init /\ [][Next]_vars
=============================================================================
