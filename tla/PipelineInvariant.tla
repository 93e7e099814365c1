------------------------- MODULE PipelineInvariant -------------------------
(***************************************************************************)
(* The inductive invariant behind the guarantees that hold with slow       *)
(* handlers, faults, crashes and any number of threads.                    *)
(***************************************************************************)
EXTENDS PipelineProperties

Busy(a) == job[a].at \notin {"idle", "dead"}

(* The document has left the state its upload created it in. *)
Past(d) == state[d] \notin {"ABSENT", "RECEIVED"}

Intake == {"received", "repeated", "fresh"}

(* Handlers that run only after the extraction row was committed. *)
AfterExtraction ==
  {"extracted", "validating", "matched", "passed", "failed", "correcting",
   "eligible", "begun", "posting"}

(* The worker's own steps. *)
Recovering ==
  {"recovering", "dispatch", "revalidating", "reposting", "giving_up"}

(* Who works on what: a document still RECEIVED belongs to the upload that *)
(* stored it, and no other actor and no pass of the worker has it. *)
Custody ==
  /\ \A a \in Actors : Busy(a) => On(a) \in Docs
  /\ \A a \in Actors \ {"worker"} : ~At(a, "dead")
  /\ \A a \in Actors :
       job[a].at \in Intake => a = "loop" /\ state[On(a)] = "RECEIVED"
  /\ \A a \in Actors :
       Busy(a) /\ job[a].at \notin Intake => Past(On(a))
  /\ \A d \in stuck : Past(d)
  /\ \A d \in Stored : upload[d] # None
  /\ \A a \in Actors : job[a].at \in Recovering => a = "worker"

(* What a handler has read lets its later commit go through. *)
Loaded ==
  /\ \A a \in Actors :
       /\ job[a].at \in AfterExtraction => extraction[On(a)] # None
       /\ job[a].at \in {"begun", "posting"} => action[On(a)] # "NONE"
       /\ job[a].at \in {"approving", "declining"} =>
            job[a].seen # None /\ job[a].seen.total # None
       /\ job[a].at \in {"correcting", "posting"} => job[a].seen # None
  /\ At("worker", "recovering") => retry_count[On("worker")] < MaxRetries

Rows ==
  \A d \in Docs :
    /\ state[d] \in {"EXTRACTED", "VALIDATING", "NEEDS_REVIEW", "VALIDATED",
                     "ACTIONED", "COMPLETED"} => extraction[d] # None
    /\ ledger[d] # None => action[d] # "NONE"
    /\ action[d] = "CONFIRMED" => ledger[d] # None
    /\ state[d] = "ACTIONED" => action[d] = "ATTEMPTED" /\ ledger[d] = None
    /\ state[d] = "COMPLETED" => action[d] = "CONFIRMED"

(* A retry is counted before the batch it may lead to. *)
Spending ==
  /\ \A d \in Docs : batches[d] <= 1 + retry_count[d]
  /\ \A d \in Docs : ~Past(d) => batches[d] = 0
  /\ At("worker", "dispatch") =>
       batches[On("worker")] <= retry_count[On("worker")]
  /\ \A d, e \in Stored : upload[d].key = upload[e].key => d = e

IInv == TypeOK /\ Custody /\ Loaded /\ Rows /\ Spending
=============================================================================
