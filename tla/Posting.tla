------------------------------ MODULE Posting ------------------------------
(***************************************************************************)
(* The accounting write.  The action handler runs in the thread pool: it   *)
(* reads the document, then the rows that make it eligible, then commits   *)
(* the ATTEMPTED row with the ACTIONED state, reads the row again that     *)
(* this commit has expired, and posts what it has read.  The write itself  *)
(* (_attempt_action) is also what the worker resumes.                      *)
(***************************************************************************)
EXTENDS Processes

OpenAction(t, d) ==
  /\ LoopFree
  /\ At(t, "idle")
  /\ state[d] = "VALIDATED"
  /\ Take(t, d, "actioning", None)
  /\ UNCHANGED <<tables, stuck, loaded, batches, crashes>>

(* An approvals row counts whatever it decided. *)
Eligible(d) ==
  \/ ~RequiresApproval(extraction[d].total)
  \/ approval[d] # None

(* Fault: the approval is left to whoever sends the request. *)
MayBeginUnsigned(d) ==
  /\ action[d] # "CONFIRMED"
  /\ extraction[d] # None
  /\ extraction[d].total # None

MayBegin(d) ==
  /\ action[d] # "CONFIRMED"
  /\ extraction[d] # None
  /\ extraction[d].total # None
  /\ Eligible(d)

(* The replay of a confirmed action, the 404 and the 409 change nothing. *)
CheckEligibility(t) ==
  /\ At(t, "actioning")
  /\ IF MayBegin(On(t)) THEN Goto(t, "eligible") ELSE Finish(t)
  /\ UNCHANGED <<tables, stuck, loaded, batches, crashes>>

(* Fault: the attempt is not recorded before the write. *)
BeginActionUnrecorded(t) ==
  /\ At(t, "eligible")
  /\ action[On(t)] = "NONE"
  /\ Move(On(t), "VALIDATED", "ACTIONED")
  /\ Goto(t, "begun")
  /\ UNCHANGED <<upload, retry_count, extraction, approval, action, ledger,
                 stuck, loaded, batches, crashes>>

BeginAction(t) ==
  /\ At(t, "eligible")
  /\ action[On(t)] = "NONE"
  /\ action' = [action EXCEPT ![On(t)] = "ATTEMPTED"]
  /\ Move(On(t), "VALIDATED", "ACTIONED")
  /\ Goto(t, "begun")
  /\ UNCHANGED <<upload, retry_count, extraction, approval, ledger, stuck,
                 loaded, batches, crashes>>

(* accounting_actions.document_id is unique. *)
ActionConflict(t) ==
  /\ At(t, "eligible")
  /\ action[On(t)] # "NONE"
  /\ Raise(t)
  /\ UNCHANGED <<tables, loaded, batches, crashes>>

-----------------------------------------------------------------------------
(* _attempt_action.  The arguments of the write are read from the row the  *)
(* commit has expired, and posted; the ledger row is flushed in the        *)
(* transaction that confirms the action and completes the document.        *)

LoadArguments(t) ==
  /\ At(t, "begun")
  /\ Take(t, On(t), "posting", extraction[On(t)])
  /\ UNCHANGED <<tables, stuck, loaded, batches, crashes>>

(* Fault: the ledger entry is committed on its own, before the rest. *)
PostLedgerFirst(a) ==
  /\ At(a, "posting")
  /\ ledger[On(a)] = None
  /\ Postable(job[a].seen)
  /\ ledger' = [ledger EXCEPT ![On(a)] = job[a].seen]
  /\ UnmovedRows
  /\ UNCHANGED <<upload, retry_count, extraction, approval, action,
                 processes>>

(* Fault: the action is confirmed although the entry was not flushed. *)
ConfirmUnposted(a) ==
  /\ At(a, "posting")
  /\ action' = [action EXCEPT ![On(a)] = "CONFIRMED"]
  /\ Move(On(a), "ACTIONED", "COMPLETED")
  /\ Finish(a)
  /\ UNCHANGED <<upload, retry_count, extraction, approval, ledger, stuck,
                 loaded, batches, crashes>>

PostSucceeds(a) ==
  /\ At(a, "posting")
  /\ ledger[On(a)] = None
  /\ Postable(job[a].seen)
  /\ ledger' = [ledger EXCEPT ![On(a)] = job[a].seen]
  /\ action' = [action EXCEPT ![On(a)] = "CONFIRMED"]
  /\ Move(On(a), "ACTIONED", "COMPLETED")
  /\ Finish(a)
  /\ UNCHANGED <<upload, retry_count, extraction, approval, stuck, loaded,
                 batches, crashes>>

(* The insert violates NOT NULL or the unique document_id.  The failed     *)
(* flush makes the later attempts and the FAILED path raise as well.       *)
PostRaises(a) ==
  /\ At(a, "posting")
  /\ ledger[On(a)] # None \/ ~Postable(job[a].seen)
  /\ Raise(a)
  /\ UNCHANGED <<tables, loaded, batches, crashes>>

(* Every attempt fails and leaves the session usable: the database is out  *)
(* of reach when the row is re-read, or another provider is down.          *)
PostExhausted(a) ==
  /\ LedgerOutages
  /\ At(a, "posting")
  /\ action' = [action EXCEPT ![On(a)] = "FAILED"]
  /\ Move(On(a), "ACTIONED", "FAILED")
  /\ Finish(a)
  /\ UNCHANGED <<upload, retry_count, extraction, approval, ledger, stuck,
                 loaded, batches, crashes>>

-----------------------------------------------------------------------------
NewAction(t) == \E d \in Docs : OpenAction(t, d)

AttemptAction(a) ==
  \/ PostSucceeds(a)
  \/ PostRaises(a)
  \/ PostExhausted(a)

ActionSteps(t) ==
  \/ CheckEligibility(t)
  \/ BeginAction(t)
  \/ ActionConflict(t)
  \/ LoadArguments(t)
  \/ AttemptAction(t)
=============================================================================
