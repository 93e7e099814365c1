----------------------------- MODULE Ingestion -----------------------------
(***************************************************************************)
(* Upload, extraction and validation.                                      *)
(*                                                                         *)
(* The upload handler is a coroutine whose only suspension is the read of  *)
(* the body: between the lookup of the idempotency key and the insertion   *)
(* of the row other uploads may run, and from the insertion to the end it  *)
(* holds the event loop.  Extraction and validation are the same code when *)
(* the recovery worker resumes a document, so these actions take the actor *)
(* a that runs them.                                                       *)
(***************************************************************************)
EXTENDS Processes

Reading == {d \in Docs : upload[d] # None /\ state[d] = "ABSENT"}

KeyTaken(k) == \E e \in Stored : upload[e].key = k

payables == <<approval, action, ledger>>

-----------------------------------------------------------------------------
(* The upload handler up to the committed row.                             *)

(* A key that is already stored is answered with the stored document and   *)
(* changes nothing. *)
UploadStart(d, k, f) ==
  /\ LoopFree
  /\ upload[d] = None
  /\ ~KeyTaken(k)
  /\ upload' = [upload EXCEPT ![d] = [key |-> k, file |-> f]]
  /\ UnmovedRows
  /\ UNCHANGED <<retry_count, extraction, payables, processes>>

(* 413, 415, or a key that another upload stored during the read. *)
UploadFails(d) ==
  /\ LoopFree
  /\ d \in Reading
  /\ upload' = [upload EXCEPT ![d] = None]
  /\ UnmovedRows
  /\ UNCHANGED <<retry_count, extraction, payables, processes>>

(* Fault: only the lookup before the read asks for the key. *)
UploadReceiveUnchecked(d) ==
  /\ LoopFree
  /\ d \in Reading
  /\ Move(d, "ABSENT", "RECEIVED")
  /\ Take("loop", d, "received", None)
  /\ UNCHANGED <<upload, retry_count, extraction, payables, stuck, loaded,
                 batches, crashes>>

UploadReceive(d) ==
  /\ LoopFree
  /\ d \in Reading
  /\ ~KeyTaken(upload[d].key)
  /\ Move(d, "ABSENT", "RECEIVED")
  /\ Take("loop", d, "received", None)
  /\ UNCHANGED <<upload, retry_count, extraction, payables, stuck, loaded,
                 batches, crashes>>

(* The candidates are read here and the verdict committed in a later step. *)
CheckHash ==
  /\ At("loop", "received")
  /\ Goto("loop", IF HashCandidates(On("loop")) # {} THEN "repeated"
                                                    ELSE "fresh")
  /\ UNCHANGED <<tables, stuck, loaded, batches, crashes>>

MarkHashDuplicate ==
  /\ At("loop", "repeated")
  /\ Move(On("loop"), "RECEIVED", "DUPLICATE")
  /\ Finish("loop")
  /\ UNCHANGED <<upload, retry_count, extraction, payables, stuck, loaded,
                 batches, crashes>>

BeginExtraction ==
  /\ At("loop", "fresh")
  /\ Move(On("loop"), "RECEIVED", "EXTRACTING")
  /\ Goto("loop", "extracting")
  /\ batches' = [batches EXCEPT ![On("loop")] = @ + 1]
  /\ UNCHANGED <<upload, retry_count, extraction, payables, stuck, loaded,
                 crashes>>

-----------------------------------------------------------------------------
(* _attempt_extraction                                                     *)

ExtractionExhausted(a) ==
  /\ At(a, "extracting")
  /\ Move(On(a), "EXTRACTING", "FAILED")
  /\ Finish(a)
  /\ UNCHANGED <<upload, retry_count, extraction, payables, stuck, loaded,
                 batches, crashes>>

ExtractionSucceeds(a, x) ==
  /\ At(a, "extracting")
  /\ extraction[On(a)] = None
  /\ x \in ReadingsOf[upload[On(a)].file]
  /\ extraction' = [extraction EXCEPT ![On(a)] = x]
  /\ Move(On(a), "EXTRACTING", "EXTRACTED")
  /\ Goto(a, "extracted")
  /\ UNCHANGED <<upload, retry_count, payables, stuck, loaded, batches,
                 crashes>>

(* extraction_results.document_id is unique. *)
ExtractionConflict(a) ==
  /\ At(a, "extracting")
  /\ extraction[On(a)] # None
  /\ Raise(a)
  /\ UNCHANGED <<tables, loaded, batches, crashes>>

-----------------------------------------------------------------------------
(* _begin_validation and _attempt_validation                               *)

BeginValidation(a) ==
  /\ At(a, "extracted")
  /\ Move(On(a), "EXTRACTED", "VALIDATING")
  /\ Goto(a, "validating")
  /\ UNCHANGED <<upload, retry_count, extraction, payables, stuck, loaded,
                 batches, crashes>>

Verdict(d, x) ==
  CASE ContentCandidates(d, x) # {}                  -> "matched"
    [] ContentCandidates(d, x) = {} /\ RulesPass(x)  -> "passed"
    [] ContentCandidates(d, x) = {} /\ ~RulesPass(x) -> "failed"

Outcome == [matched |-> "DUPLICATE",
            passed  |-> "VALIDATED",
            failed  |-> "NEEDS_REVIEW"]

(* A worker that resumes the validation has loaded the document and its    *)
(* row before.  Everybody else's have expired with the last commit and are *)
(* loaded with the candidates: the state may then already be the outcome,  *)
(* when another process validated the document too. *)
RunValidation(a) ==
  /\ At(a, "validating")
  /\ LET expired == job[a].seen = None
         x == IF expired THEN extraction[On(a)] ELSE job[a].seen
         verdict == Verdict(On(a), x)
     IN Goto(a, IF expired /\ state[On(a)] = Outcome[verdict]
                THEN "settled"
                ELSE verdict)
  /\ UNCHANGED <<tables, stuck, loaded, batches, crashes>>

CommitValidation(a) ==
  /\ job[a].at \in DOMAIN Outcome
  /\ Move(On(a), "VALIDATING", Outcome[job[a].at])
  /\ Finish(a)
  /\ UNCHANGED <<upload, retry_count, extraction, payables, stuck, loaded,
                 batches, crashes>>

CommitSettled(a) ==
  /\ At(a, "settled")
  /\ Note(On(a), "VALIDATING")
  /\ Finish(a)
  /\ UNCHANGED <<upload, retry_count, extraction, payables, stuck, loaded,
                 batches, crashes>>

-----------------------------------------------------------------------------
AttemptExtraction(a) ==
  \/ ExtractionExhausted(a)
  \/ \E x \in Readings : ExtractionSucceeds(a, x)
  \/ ExtractionConflict(a)

AttemptValidation(a) ==
  \/ BeginValidation(a)
  \/ RunValidation(a)
  \/ CommitValidation(a)
  \/ CommitSettled(a)

NewUpload ==
  \/ \E d \in Docs, k \in Keys, f \in Files : UploadStart(d, k, f)
  \/ \E d \in Docs : UploadFails(d)
  \/ \E d \in Docs : UploadReceive(d)

UploadSteps ==
  \/ CheckHash
  \/ MarkHashDuplicate
  \/ BeginExtraction
  \/ AttemptExtraction("loop")
  \/ AttemptValidation("loop")
=============================================================================
