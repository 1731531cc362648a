----------------------------- MODULE AtomicDump -----------------------------
(***************************************************************************)
(* What `leafmask dump` promises about the dump it leaves in storage: a    *)
(* dump that lists as Done holds every selected collection, and any other  *)
(* way the run can end leaves either nothing that is restorable or the     *)
(* whole dump (a final put whose acknowledgement is lost).                 *)
(***************************************************************************)
CONSTANT Collections

VARIABLES outcome,     \* how the process ended, as its caller sees it
          restorable   \* collections that can be restored from the Done dump

vars == <<outcome, restorable>>

TypeOK ==
  /\ outcome \in {"running", "succeeded", "failed", "crashed"}
  /\ restorable \in SUBSET Collections

Init == outcome = "running" /\ restorable = {}

Succeed ==
  /\ outcome = "running"
  /\ outcome' = "succeeded"
  /\ restorable' = Collections

GiveUp ==
  /\ outcome = "running"
  /\ outcome' \in {"failed", "crashed"}
  /\ restorable' \in {{}, Collections}

Next == Succeed \/ GiveUp

Spec == Init /\ [][Next]_vars
=============================================================================
