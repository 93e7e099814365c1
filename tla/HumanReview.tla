---------------------------- MODULE HumanReview ----------------------------
(***************************************************************************)
(* The reviewer's and the approver's handlers.  They run in the thread     *)
(* pool: each reads and checks the document, then reads and checks its     *)
(* other rows, and commits in a later step that looks at nothing again;    *)
(* only the unique approvals row stops a second decision.                  *)
(***************************************************************************)
EXTENDS Processes

Untouched == <<upload, retry_count, action, ledger, loaded, batches, crashes>>

-----------------------------------------------------------------------------
(* /review/{document_id}/correct and /reject                               *)

OpenReview(t, d, step) ==
  /\ LoopFree
  /\ At(t, "idle")
  /\ step \in {"reviewing", "rejecting"}
  /\ state[d] = "NEEDS_REVIEW"
  /\ Take(t, d, step, None)
  /\ UNCHANGED <<tables, stuck, loaded, batches, crashes>>

(* Read after the document: it may hold another reviewer's corrections. *)
LoadExtraction(t) ==
  /\ At(t, "reviewing")
  /\ IF extraction[On(t)] = None
     THEN Finish(t)
     ELSE Take(t, On(t), "correcting", extraction[On(t)])
  /\ UNCHANGED <<tables, stuck, loaded, batches, crashes>>

(* The rows an UPDATE may leave.  The columns it does not name keep what   *)
(* the row holds by then.  It names those that differ from what the        *)
(* handler loaded, and a total that was entered again may differ as a      *)
(* float from the decimal it equals.  Of a triple that two reviewers       *)
(* changed each may have written a part, and what another one changed may  *)
(* break a rule or repair it. *)
Merged(row, old, new) ==
  [invoice  : CASE new.invoice = old.invoice -> {row.invoice}
                [] new.invoice # old.invoice /\ row.invoice = old.invoice
                     -> {new.invoice}
                [] new.invoice # old.invoice /\ row.invoice # old.invoice
                     -> Invoices \cup {None},
   total    : {new.total} \cup (IF new.total = old.total THEN {row.total}
                                                        ELSE {}),
   currency : {IF new.currency = old.currency THEN row.currency
                                              ELSE new.currency},
   clean    : IF row = old THEN {new.clean} ELSE BOOLEAN]

(* No rule and no duplicate check runs again on the corrected reading. *)
Correct(t, y) ==
  /\ At(t, "correcting")
  /\ <<job[t].seen, y>> \in Corrections
  /\ \E row \in Merged(extraction[On(t)], job[t].seen, y) :
       extraction' = [extraction EXCEPT ![On(t)] = row]
  /\ Move(On(t), "NEEDS_REVIEW", "VALIDATED")
  /\ Finish(t)
  /\ UNCHANGED <<Untouched, approval, stuck>>

(* No correction, an unknown field or a value that does not parse: 422. *)
CorrectRefused(t) ==
  /\ At(t, "correcting")
  /\ Finish(t)
  /\ UNCHANGED <<tables, stuck, loaded, batches, crashes>>

RejectReview(t) ==
  /\ At(t, "rejecting")
  /\ Move(On(t), "NEEDS_REVIEW", "REJECTED")
  /\ Finish(t)
  /\ UNCHANGED <<Untouched, extraction, approval, stuck>>

-----------------------------------------------------------------------------
(* /approvals/{document_id}/approve and /reject                            *)

ApprovalEligible(d) ==
  /\ extraction[d] # None
  /\ extraction[d].total # None
  /\ RequiresApproval(extraction[d].total)
  /\ approval[d] = None

OpenApproval(t, d) ==
  /\ LoopFree
  /\ At(t, "idle")
  /\ state[d] = "VALIDATED"
  /\ Take(t, d, "assessing", None)
  /\ UNCHANGED <<tables, stuck, loaded, batches, crashes>>

(* The 404 and the two 409 change nothing.  Both endpoints read the same:  *)
(* which of them it was shows here. *)
Assess(t, step) ==
  /\ At(t, "assessing")
  /\ step \in {"approving", "declining"}
  /\ IF ApprovalEligible(On(t))
     THEN Take(t, On(t), step, extraction[On(t)])
     ELSE Finish(t)
  /\ UNCHANGED <<tables, stuck, loaded, batches, crashes>>

Approve(t) ==
  /\ At(t, "approving")
  /\ approval[On(t)] = None
  /\ approval' = [approval EXCEPT ![On(t)] =
                    [amount |-> job[t].seen.total, decision |-> "APPROVED"]]
  /\ Finish(t)
  /\ UnmovedRows
  /\ UNCHANGED <<Untouched, extraction, stuck>>

Decline(t) ==
  /\ At(t, "declining")
  /\ approval[On(t)] = None
  /\ approval' = [approval EXCEPT ![On(t)] =
                    [amount |-> job[t].seen.total, decision |-> "REJECTED"]]
  /\ Move(On(t), "VALIDATED", "REJECTED")
  /\ Finish(t)
  /\ UNCHANGED <<Untouched, extraction, stuck>>

(* approvals.document_id is unique. *)
ApprovalConflict(t) ==
  /\ job[t].at \in {"approving", "declining"}
  /\ approval[On(t)] # None
  /\ Raise(t)
  /\ UNCHANGED <<tables, loaded, batches, crashes>>

-----------------------------------------------------------------------------
NewReview(t) ==
  \/ \E d \in Docs : \E step \in {"reviewing", "rejecting"} :
       OpenReview(t, d, step)
  \/ \E d \in Docs : OpenApproval(t, d)

ReviewSteps(t) ==
  \/ LoadExtraction(t)
  \/ \E y \in Readings : Correct(t, y)
  \/ CorrectRefused(t)
  \/ RejectReview(t)
  \/ \E step \in {"approving", "declining"} : Assess(t, step)
  \/ Approve(t)
  \/ Decline(t)
  \/ ApprovalConflict(t)
=============================================================================
