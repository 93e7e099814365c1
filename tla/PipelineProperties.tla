------------------------- MODULE PipelineProperties -------------------------
(***************************************************************************)
(* What the pipeline guarantees, and what its documents and comments say   *)
(* of it that the code does not keep.                                      *)
(***************************************************************************)
EXTENDS Pipeline

(* Every variable holds a value of its column. *)
TypeOK == TablesTypeOK /\ ProcessesTypeOK

-----------------------------------------------------------------------------
(* Guarantees of the code as it is: with slow handlers, faults, crashes    *)
(* and any number of threads.                                              *)

(* A document past extraction has its extraction row, and an ACTIONED one  *)
(* its action row: the branches of worker.py and of the review handler     *)
(* that dead-letter or refuse a document with missing rows never run. *)
RowsPresent ==
  \A d \in Docs :
    /\ ~RowsMissing(d, state[d])
    /\ state[d] \in {"EXTRACTED", "NEEDS_REVIEW", "VALIDATED", "COMPLETED"}
         => extraction[d] # None

(* An ACTIONED document is not posted yet, so a worker that resumes its    *)
(* accounting write, whoever wrote last and whatever crashed before,       *)
(* resumes a write that has not happened. *)
ActionedIsUnposted ==
  \A d \in Docs :
    state[d] = "ACTIONED" => action[d] = "ATTEMPTED" /\ ledger[d] = None

(* The two records of a payment agree: a confirmed action and a COMPLETED  *)
(* document have their ledger entry, and no entry exists without the       *)
(* action row that was committed before the write was tried. *)
BooksAgree ==
  \A d \in Docs :
    /\ action[d] = "CONFIRMED" => ledger[d] # None
    /\ state[d] = "COMPLETED" => action[d] = "CONFIRMED"
    /\ ledger[d] # None => action[d] # "NONE"

(* However often the processes die, and whoever takes a document over from *)
(* a slow owner, it begins one batch of extraction calls and one more per  *)
(* retry of the worker: the retry is committed before its batch begins.    *)
(* What a batch may cost is the module Billing's. *)
BatchesBounded == \A d \in Docs : batches[d] <= 1 + retry_count[d]

(* One idempotency key has one document, and so the batches of one: two    *)
(* uploads that both found the key unused before the body was read do not  *)
(* both keep their row. *)
OneDocumentPerKey ==
  \A d, e \in Stored : upload[d].key = upload[e].key => d = e

-----------------------------------------------------------------------------
(* Guarantees while no handler outlasts the stuck timeout.                 *)

(* Of two documents with the same bytes at most one is ever extracted,     *)
(* unless one of them failed: the hash check runs before the paid call. *)
SameFileExtractedOnce ==
  \A d, e \in Stored :
    /\ d # e
    /\ upload[d].file = upload[e].file
    /\ extraction[d] # None
    /\ extraction[e] # None
    => "FAILED" \in {state[d], state[e]}

(* What is recorded as failed was not paid: the late failure of a write    *)
(* does not overwrite the outcome of another owner's, and the worker gives *)
(* up on no document that has been posted meanwhile. *)
FailedIsUnposted ==
  \A d \in Docs :
    "FAILED" \in {state[d], action[d]} => ledger[d] = None

(* The state_history is a chain: every transition records as its           *)
(* from_state the state the document was really in. *)
AuditChain ==
  [][\A d \in Docs : state'[d] # state[d] => audit'[d] = state[d]]_vars

(* The two ledger entries of one invoice: same vendor, number and date,    *)
(* totals within the tolerance. *)
PaidTwice(d, e) ==
  /\ d # e
  /\ ledger[d] # None
  /\ ledger[e] # None
  /\ SameInvoice(ledger[d], ledger[e])

(* No invoice is posted twice, although a document is compared with the    *)
(* others only while it is validated: each has written its own reading     *)
(* before it looks for the others'. *)
NoDoublePayment == \A d, e \in Docs : ~PaidTwice(d, e)

(* What is posted at or above the threshold was put before an approver at  *)
(* that very amount, if the reviewers keep the totals.  Operators race for *)
(* the document between the approver's reading of the total, his commit,   *)
(* the eligibility check and the posting, each of which reads again, and   *)
(* the worker resumes the posting without asking for the approval. *)
PostedAsDecided ==
  \A d \in Docs :
    /\ ledger[d] # None
    /\ RequiresApproval(ledger[d].total)
    => /\ approval[d] # None
       /\ approval[d].amount = ledger[d].total

(* The pipeline implements the documented lifecycle. *)
SignedAmount(d) ==
  IF approval[d] # None /\ approval[d].decision = "APPROVED"
  THEN approval[d].amount
  ELSE None

PaidAmount(d) == IF ledger[d] = None THEN None ELSE ledger[d].total

Documented == INSTANCE Lifecycle WITH
  phase  <- state,
  signed <- [d \in Docs |-> SignedAmount(d)],
  paid   <- [d \in Docs |-> PaidAmount(d)]

(* Every step of every handler is a transition of the documented diagram   *)
(* or none, amounts at the threshold are paid only as signed, and only the *)
(* step to COMPLETED pays. *)
FollowsLifecycle == Documented!Spec

-----------------------------------------------------------------------------
(* Liveness.                                                               *)

(* A document in one of the states the worker scans for leaves it. *)
InFlightMovesOn ==
  \A d \in Docs : \A s \in STUCK_STATES :
    state[d] = s ~> state[d] # s

-----------------------------------------------------------------------------
(* What the repository says of the program and the code does not keep.     *)

(* docs/state-machine.md, "Crash recovery, plainly": the worker finds      *)
(* anything not in a terminal state and nothing is left stuck; here for    *)
(* the two states an upload passes through between its commits. *)
NeverLeftStuck ==
  \A d \in Docs :
    state[d] \in {"RECEIVED", "EXTRACTED"}
      ~> state[d] \notin {"RECEIVED", "EXTRACTED"}

(* docs/state-machine.md: a DUPLICATE is matched to an invoice that is     *)
(* processed, so behind the copies of an invoice there is one document     *)
(* that is not itself a copy. *)
OriginalSurvives ==
  \A d \in Stored :
    state[d] = "DUPLICATE" =>
      \E e \in Stored :
        /\ state[e] # "DUPLICATE"
        /\ \/ upload[e].file = upload[d].file
           \/ /\ extraction[d] # None
              /\ extraction[e] # None
              /\ SameInvoice(extraction[d], extraction[e])

(* duplicate_detection.py: an attempt that failed does not block a retry.  *)
(* An upload is taken for a repetition only if one of the documents it     *)
(* repeats is more than the copy of a failed one. *)
FailedDoesNotBlock ==
  [][/\ At("loop", "received")
     /\ job'["loop"].at = "repeated"
     => \E e \in HashCandidates(On("loop")) : state[e] # "DUPLICATE"]_vars

(* accounting.py, check_action_eligibility: a document whose approval was  *)
(* declined is out of VALIDATED and is never posted. *)
DeclinedIsNotPosted ==
  \A d \in Docs :
    /\ approval[d] # None
    /\ ledger[d] # None
    => approval[d].decision # "REJECTED"

(* docs/api.md, POST /documents/{id}/action: what is posted at or above    *)
(* the threshold has its approvals row. *)
PostedWithApproval ==
  \A d \in Docs :
    /\ ledger[d] # None
    /\ RequiresApproval(ledger[d].total)
    => approval[d] # None
=============================================================================
