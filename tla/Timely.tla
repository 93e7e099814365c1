------------------------------- MODULE Timely -------------------------------
(***************************************************************************)
(* The invariant behind the guarantees that hold while no handler outlasts *)
(* the stuck timeout, for any number of operators: uploads and the worker  *)
(* have their document alone, operators race with each other only, and of  *)
(* two documents with one invoice only one can still be posted.            *)
(***************************************************************************)
EXTENDS PipelineInvariant

(* What the worker has found to be stuck is in no handler's hands.         *)
Abandoned ==
  /\ \A d \in aged \cup stuck :
       /\ state[d] \in STUCK_STATES
       /\ \A a \in Actors : Busy(a) /\ On(a) = d => a = "worker"
  /\ \A d \in stuck : ~(Busy("worker") /\ On("worker") = d)
  /\ At("worker", "giving_up") => loaded = state[On("worker")]

(* What the operators' handlers do, and nobody else does but post.         *)
OperatorWork ==
  {"reviewing", "correcting", "rejecting", "assessing", "approving",
   "declining", "actioning", "eligible", "begun", "posting"}

(* From the ATTEMPTED row to the end of the write.                         *)
Writing == {"begun", "posting"}

(* An operator's document has been validated and is no duplicate.  A late  *)
(* decision can take it out of any state it has reached since. *)
Validated ==
  {"NEEDS_REVIEW", "VALIDATED", "ACTIONED", "COMPLETED", "REJECTED", "FAILED"}

Places ==
  \A a \in Actors :
    /\ At(a, "extracting") => state[On(a)] = "EXTRACTING"
    /\ At(a, "extracted") => state[On(a)] = "EXTRACTED"
    /\ job[a].at \in {"revalidating", "validating", "matched", "passed",
                      "failed"} => state[On(a)] = "VALIDATING"
    /\ At(a, "reposting") => state[On(a)] = "ACTIONED"
    /\ job[a].at \in {"giving_up", "recovering", "dispatch"} =>
         state[On(a)] \in STUCK_STATES
    /\ ~At(a, "settled")
    /\ a \notin Threads /\ Busy(a) =>
         job[a].at \notin OperatorWork \ {"posting"}
    /\ a \notin Threads /\ At(a, "posting") => state[On(a)] = "ACTIONED"
    /\ a \in Threads /\ Busy(a) =>
         /\ job[a].at \in OperatorWork
         /\ state[On(a)] \in Validated
         /\ state[On(a)] = "FAILED" => action[On(a)] # "NONE"

(* The upload and the worker have their document to themselves.            *)
Alone ==
  \A a, b \in Actors :
    Busy(a) /\ Busy(b) /\ On(a) = On(b) /\ a \notin Threads => a = b

(* A document is posted by one handler, which the ATTEMPTED row admitted,  *)
(* and what failed before is out of its reach. *)
PostedOnce ==
  /\ \A a \in Actors : job[a].at \in Writing =>
       /\ action[On(a)] = "ATTEMPTED"
       /\ ledger[On(a)] = None
       /\ state[On(a)] # "FAILED"
  /\ \A a, b \in Actors :
       /\ job[a].at \in Writing
       /\ job[b].at \in Writing
       /\ On(a) = On(b)
       => a = b
  /\ \A d \in Docs : ledger[d] # None =>
       /\ action[d] = "CONFIRMED"
       /\ state[d] \in {"COMPLETED", "VALIDATED", "REJECTED"}

(* The reviewers keep the invoice and the total.                           *)
KeepsIdentity ==
  \A c \in Corrections : c[1].invoice = c[2].invoice /\ c[1].total = c[2].total

(* What a handler has loaded is the invoice that was extracted.            *)
SeenAsExtracted ==
  \A a \in Actors : job[a].seen # None =>
    /\ On(a) \in Docs
    /\ extraction[On(a)] # None
    /\ job[a].seen.invoice = extraction[On(a)].invoice
    /\ job[a].seen.total = extraction[On(a)].total

(* Who decided about a document decided about its total, and what has been *)
(* found eligible stays so.  Without a bound on how long a handler takes.  *)
Decided ==
  /\ \A d \in Docs : approval[d] # None =>
       extraction[d] # None /\ approval[d].amount = extraction[d].total
  /\ \A a \in Actors : job[a].at \in {"eligible", "reposting"} \cup Writing =>
       extraction[On(a)] # None /\ Eligible(On(a))
  /\ \A d \in Docs : state[d] = "ACTIONED" => Eligible(d)
  /\ \A d \in Docs : ledger[d] # None =>
       /\ extraction[d] # None
       /\ ledger[d].total = extraction[d].total
       /\ Eligible(d)

(* What is posted is the invoice that was extracted.                       *)
SameAsExtracted ==
  \A d \in Docs :
    /\ extraction[d] # None =>
         state[d] \notin {"ABSENT", "RECEIVED", "EXTRACTING"}
    /\ state[d] = "REJECTED" \/ action[d] # "NONE" => extraction[d] # None
    /\ ledger[d] # None =>
         /\ extraction[d] # None
         /\ ledger[d].invoice = extraction[d].invoice
         /\ ledger[d].total = extraction[d].total

(* A document that is posted or may still be.  A second ATTEMPTED row is   *)
(* never written, so one that is neither posted nor ACTIONED nor in its    *)
(* poster's hands and has such a row cannot come here again. *)
MayBePaid(d) ==
  \/ ledger[d] # None
  \/ state[d] = "ACTIONED"
  \/ \E a \in Actors :
       On(a) = d /\ job[a].at \in {"passed", "failed"} \cup Writing
  \/ /\ action[d] = "NONE"
     /\ state[d] \in {"NEEDS_REVIEW", "VALIDATED", "REJECTED"}

(* Of two documents with one invoice at most one has passed the duplicate  *)
(* check and not failed since. *)
Screened ==
  \A d, e \in Docs :
    /\ d # e
    /\ extraction[d] # None
    /\ extraction[e] # None
    /\ SameInvoice(extraction[d], extraction[e])
    => ~MayBePaid(d) \/ ~MayBePaid(e)

Timely == Places /\ Alone /\ Abandoned /\ PostedOnce

OneOfEachInvoice == SameAsExtracted /\ Screened
=============================================================================
