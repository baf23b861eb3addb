-------------------------- MODULE TransferOutcome --------------------------
(***************************************************************************)
(* What a transfer of one backup between two servers promises.  On the     *)
(* receiving server the import ends once: the archive is published, or the *)
(* cancellation is on record.  On the sending server the job may say       *)
(* "completed" only of an archive that has been published, and what it has *)
(* said it never takes back.                                               *)
(*                                                                         *)
(* Nothing is said of requests, staging files, retries or restarts.  It is *)
(* implemented by BackupTransfer.                                          *)
(***************************************************************************)
VARIABLES
    outcome,  \* on the receiving server: "open", "published", "canceled"
    verdict   \* on the sending server: "open", "completed", "canceled"

vars == <<outcome, verdict>>

Init == outcome = "open" /\ verdict = "open"

\* The import ends; a sender that is waiting may hear of it in the same step.
Decide ==
    /\ outcome = "open"
    /\ outcome' \in {"published", "canceled"}

Complete ==
    /\ verdict = "open"
    /\ outcome = "published"
    /\ verdict' = "completed"

\* The sender may give up whatever becomes of the import.
Withdraw ==
    /\ verdict = "open"
    /\ verdict' = "canceled"

Next ==
    \/ Decide /\ (Withdraw \/ UNCHANGED verdict)
    \/ (Complete \/ Withdraw) /\ UNCHANGED outcome

Spec == Init /\ [][Next]_vars

=============================================================================
