---------------------------- MODULE SingleOwner ----------------------------
(***************************************************************************)
(* The invariant behind the guarantees that hold while no handler outlasts *)
(* the stuck timeout and one operator works at a time: whoever has a       *)
(* document has it alone, and finds it in the state it left it in.         *)
(***************************************************************************)
EXTENDS Timely

(* The two assumptions: no handler outlasts the stuck timeout, and there   *)
(* is one operator at a time.                                              *)
OneOperator == ~SlowOwners /\ \A t, u \in Threads : t = u

(* A handler finds its document in the state it was left in.               *)
Fits ==
  \A a \in Actors :
    /\ At(a, "extracting") => state[On(a)] = "EXTRACTING"
    /\ At(a, "extracted") => state[On(a)] = "EXTRACTED"
    /\ job[a].at \in {"revalidating", "validating", "matched", "passed",
                      "failed"} => state[On(a)] = "VALIDATING"
    /\ job[a].at \in {"giving_up", "recovering", "dispatch"} =>
         state[On(a)] \in STUCK_STATES
    /\ job[a].at \in {"reviewing", "correcting", "rejecting"} =>
         a \in Threads /\ state[On(a)] = "NEEDS_REVIEW"
    /\ job[a].at \in {"assessing", "approving", "declining", "actioning",
                      "eligible"} =>
         a \in Threads /\ state[On(a)] = "VALIDATED"
    /\ job[a].at \in {"reposting"} \cup Writing => state[On(a)] = "ACTIONED"
    /\ ~At(a, "settled")

(* What is in the ledger was signed for that amount, if it needed a        *)
(* signature or somebody decided about it at all.  Only with one operator  *)
(* at a time, and no handler that outlasts the stuck timeout: with two the *)
(* refutations of DeclinedIsNotPosted and PostedWithApproval refute this.  *)
PaidAsSigned ==
  \A d \in Docs : ledger[d] # None =>
    IF approval[d] = None
    THEN ~RequiresApproval(ledger[d].total)
    ELSE approval[d] = [amount   |-> ledger[d].total,
                        decision |-> "APPROVED"]

(* No two actors work on one document.                                     *)
Exclusive ==
  \A a, b \in Actors : Busy(a) /\ Busy(b) /\ On(a) = On(b) => a = b

(* Nobody takes a document back from the ledger.                           *)
PostedIsCompleted == \A d \in Docs : ledger[d] # None => state[d] = "COMPLETED"

(* A document is cleared for extraction when all others of its file have   *)
(* failed, and a failed one stays so. *)
Cleared ==
  /\ At("loop", "fresh") =>
       \A e \in Stored \ {On("loop")} :
         upload[e].file = upload[On("loop")].file => state[e] = "FAILED"
  /\ \A d, e \in Stored :
       /\ d # e
       /\ upload[d].file = upload[e].file
       /\ batches[d] > 0
       /\ batches[e] > 0
       => "FAILED" \in {state[d], state[e]}
  /\ \A d \in Docs : extraction[d] # None => batches[d] > 0
  /\ \A d \in Docs : state[d] = "EXTRACTING" => batches[d] > 0

(* What is signed is the amount the row holds, and a document on its way   *)
(* to the ledger has its signature if its amount needs one.                *)
Signatures ==
  /\ \A t \in Threads :
       /\ job[t].at \in {"approving", "declining"} =>
            /\ job[t].seen = extraction[On(t)]
            /\ RequiresApproval(job[t].seen.total)
       /\ At(t, "eligible") =>
            extraction[On(t)].total # None /\ Eligible(On(t))
  /\ \A a \in Actors :
       At(a, "posting") => job[a].seen = extraction[On(a)]
  /\ \A d \in Docs :
       /\ state[d] \in {"ABSENT", "RECEIVED", "EXTRACTING", "EXTRACTED",
                        "VALIDATING", "NEEDS_REVIEW"} => approval[d] = None
       /\ state[d] \in {"VALIDATED", "ACTIONED"} /\ approval[d] # None =>
            approval[d] = [amount   |-> extraction[d].total,
                           decision |-> "APPROVED"]
       /\ state[d] = "ACTIONED" =>
            extraction[d].total # None /\ Eligible(d)

Ownership ==
  Fits /\ Exclusive /\ Abandoned /\ PostedIsCompleted /\ Cleared /\ Signatures
=============================================================================
