---------------------------- MODULE OwnerProofs ----------------------------
(***************************************************************************)
(* The guarantees that hold while no handler outlasts the stuck timeout    *)
(* and one operator works at a time, proved for every number of documents  *)
(* and every bound on retries and crashes, with database faults and        *)
(* outages of the ledger.  Ownership is inductive together with IInv: one  *)
(* lemma per action, one step per conjunct.  From it follows that every    *)
(* step is a transition of the documented lifecycle, and that what is paid *)
(* is what was signed.                                                     *)
(***************************************************************************)
EXTENDS SingleOwner, PipelineProofs

(* The control of an actor and the writing of a row are abbreviations      *)
(* every action is made of. *)
USE NoneIsNoValue, RetriesAreBounded, ReadingsAreWellFormed, ActorsAreDistinct
USE DEF At, On, Take, Goto, Finish, Idle, Dead, Actors, LoopFree,
        Move, UnmovedRows, tables, processes, payables, Writing

-----------------------------------------------------------------------------
(* The initial state satisfies the invariant. *)
LEMMA OwnershipInit == Init => Ownership
<1> SUFFICES ASSUME Init PROVE Ownership
  OBVIOUS
<1> USE DEF Init, TablesInit, ProcessesInit
<1>1. Fits
  BY DEF Fits
<1>2. Exclusive
  BY DEF Exclusive, Busy
<1>3. Abandoned
  BY DEF Abandoned
<1>4. PostedIsCompleted
  BY DEF PostedIsCompleted
<1>5. Cleared
  BY DEF Cleared, Stored
<1>6. Signatures
  BY DEF Signatures
<1> QED
  BY <1>1, <1>2, <1>3, <1>4, <1>5, <1>6 DEF Ownership

-----------------------------------------------------------------------------
(* The actions. *)
LEMMA RaiseOwned ==
  ASSUME OneOperator, IInv, Ownership, NEW a \in Actors, Busy(a), a # "worker"
         => loaded' = loaded, UNCHANGED <<tables, batches, crashes>>, Raise(a)
  PROVE  Ownership'
<1>1. Fits'
  BY DEF Raise, IInv, TypeOK, ProcessesTypeOK, Ownership, Fits
<1>2. Exclusive'
  BY DEF Raise, IInv, TypeOK, ProcessesTypeOK, Ownership, Exclusive, Busy
<1>3. Abandoned'
  BY DEF Raise, IInv, TypeOK, ProcessesTypeOK, Ownership, Abandoned, Busy
<1>4. PostedIsCompleted'
  BY DEF Raise, Ownership, PostedIsCompleted
<1>5. Cleared'
  BY DEF Raise, IInv, TypeOK, ProcessesTypeOK, Ownership, Cleared, Custody,
         Stored
<1>6. Signatures'
  BY DEF Raise, IInv, TypeOK, ProcessesTypeOK, Ownership, Signatures,
         Eligible, RequiresApproval
<1> QED
  BY <1>1, <1>2, <1>3, <1>4, <1>5, <1>6 DEF Ownership

LEMMA UploadStartOwned ==
  ASSUME OneOperator, IInv, Ownership, NEW d \in Docs, NEW k \in Keys, NEW f
         \in Files, UploadStart(d, k, f)
  PROVE  Ownership'
<1>1. Fits'
  BY DEF UploadStart, Ownership, Fits
<1>2. Exclusive'
  BY DEF UploadStart, Ownership, Exclusive, Busy
<1>3. Abandoned'
  BY DEF UploadStart, Ownership, Abandoned, Busy
<1>4. PostedIsCompleted'
  BY DEF UploadStart, Ownership, PostedIsCompleted
<1>5. Cleared'
  BY DEF UploadStart, IInv, TypeOK, ProcessesTypeOK, Ownership, Cleared,
         Custody, Stored
<1>6. Signatures'
  BY DEF UploadStart, Ownership, Signatures, Eligible, RequiresApproval
<1> QED
  BY <1>1, <1>2, <1>3, <1>4, <1>5, <1>6 DEF Ownership

LEMMA UploadFailsOwned ==
  ASSUME OneOperator, IInv, Ownership, NEW d \in Docs, UploadFails(d)
  PROVE  Ownership'
<1>1. Fits'
  BY DEF UploadFails, Reading, Ownership, Fits
<1>2. Exclusive'
  BY DEF UploadFails, Reading, Ownership, Exclusive, Busy
<1>3. Abandoned'
  BY DEF UploadFails, Reading, Ownership, Abandoned, Busy
<1>4. PostedIsCompleted'
  BY DEF UploadFails, Reading, Ownership, PostedIsCompleted
<1>5. Cleared'
  BY DEF UploadFails, Reading, Ownership, Cleared, Stored
<1>6. Signatures'
  BY DEF UploadFails, Reading, Ownership, Signatures, Eligible,
         RequiresApproval
<1> QED
  BY <1>1, <1>2, <1>3, <1>4, <1>5, <1>6 DEF Ownership

LEMMA UploadReceiveOwned ==
  ASSUME OneOperator, IInv, Ownership, NEW d \in Docs, UploadReceive(d)
  PROVE  Ownership'
<1>1. Fits'
  BY DEF UploadReceive, Reading, Ownership, Fits, STUCK_STATES
<1>2. Exclusive'
  BY DEF UploadReceive, Reading, IInv, TypeOK, ProcessesTypeOK, Ownership,
         Exclusive, Custody, Past, Intake, Busy
<1>3. Abandoned'
  BY DEF UploadReceive, Reading, Ownership, Abandoned, Fits, Busy,
         STUCK_STATES
<1>4. PostedIsCompleted'
  BY DEF UploadReceive, Reading, Ownership, PostedIsCompleted
<1>5. Cleared'
  BY DEF UploadReceive, Reading, IInv, TypeOK, ProcessesTypeOK, Ownership,
         Cleared, Spending, Custody, Intake, Past, Stored
<1>6. Signatures'
  BY DEF UploadReceive, Reading, Ownership, Signatures, Eligible,
         RequiresApproval
<1> QED
  BY <1>1, <1>2, <1>3, <1>4, <1>5, <1>6 DEF Ownership

LEMMA CheckHashOwned ==
  ASSUME OneOperator, IInv, Ownership, CheckHash
  PROVE  Ownership'
<1>1. Fits'
  BY DEF CheckHash, Ownership, Fits
<1>2. Exclusive'
  BY DEF CheckHash, Ownership, Exclusive, Busy
<1>3. Abandoned'
  BY DEF CheckHash, Ownership, Abandoned, Busy
<1>4. PostedIsCompleted'
  BY DEF CheckHash, Ownership, PostedIsCompleted
<1>5. Cleared'
  BY DEF CheckHash, HashCandidates, SameFile, Ownership, Cleared, Stored
<1>6. Signatures'
  BY DEF CheckHash, Ownership, Signatures, Eligible, RequiresApproval
<1> QED
  BY <1>1, <1>2, <1>3, <1>4, <1>5, <1>6 DEF Ownership

LEMMA MarkHashDuplicateOwned ==
  ASSUME OneOperator, IInv, Ownership, MarkHashDuplicate
  PROVE  Ownership'
<1>1. Fits'
  BY DEF MarkHashDuplicate, Ownership, Fits, Exclusive, Busy
<1>2. Exclusive'
  BY DEF MarkHashDuplicate, Ownership, Exclusive, Busy
<1>3. Abandoned'
  BY DEF MarkHashDuplicate, Ownership, Abandoned, Exclusive, Busy
<1>4. PostedIsCompleted'
  BY DEF MarkHashDuplicate, IInv, TypeOK, ProcessesTypeOK, Ownership,
         PostedIsCompleted, Custody, Intake
<1>5. Cleared'
  BY DEF MarkHashDuplicate, IInv, TypeOK, ProcessesTypeOK, Ownership, Cleared,
         Custody, Intake, Past, Stored
<1>6. Signatures'
  BY DEF MarkHashDuplicate, Ownership, Signatures, Eligible, RequiresApproval
<1> QED
  BY <1>1, <1>2, <1>3, <1>4, <1>5, <1>6 DEF Ownership

LEMMA BeginExtractionOwned ==
  ASSUME OneOperator, IInv, Ownership, BeginExtraction
  PROVE  Ownership'
<1>1. Fits'
  BY DEF BeginExtraction, IInv, TypeOK, ProcessesTypeOK, TablesTypeOK,
         Ownership, Fits, Exclusive, Custody, Busy
<1>2. Exclusive'
  BY DEF BeginExtraction, Ownership, Exclusive, Busy
<1>3. Abandoned'
  BY DEF BeginExtraction, Ownership, Abandoned, Exclusive, Busy
<1>4. PostedIsCompleted'
  BY DEF BeginExtraction, IInv, TypeOK, ProcessesTypeOK, Ownership,
         PostedIsCompleted, Custody, Intake
<1>5. Cleared'
  BY DEF BeginExtraction, IInv, TypeOK, ProcessesTypeOK, Ownership, Cleared,
         Custody, Stored
<1>6. Signatures'
  BY DEF BeginExtraction, IInv, TypeOK, ProcessesTypeOK, TablesTypeOK,
         Ownership, Signatures, Eligible, RequiresApproval, Custody, Past,
         Intake
<1> QED
  BY <1>1, <1>2, <1>3, <1>4, <1>5, <1>6 DEF Ownership

LEMMA ExtractionExhaustedOwned ==
  ASSUME OneOperator, IInv, Ownership, NEW a \in Actors,
         ExtractionExhausted(a)
  PROVE  Ownership'
<1>1. Fits'
  BY DEF ExtractionExhausted, IInv, TypeOK, ProcessesTypeOK, Ownership, Fits,
         Exclusive, Custody, Busy
<1>2. Exclusive'
  BY DEF ExtractionExhausted, Ownership, Exclusive, Busy
<1>3. Abandoned'
  BY DEF ExtractionExhausted, Ownership, Abandoned, Exclusive, Busy
<1>4. PostedIsCompleted'
  BY DEF ExtractionExhausted, Ownership, PostedIsCompleted, Fits
<1>5. Cleared'
  BY DEF ExtractionExhausted, Ownership, Cleared, Stored
<1>6. Signatures'
  BY DEF ExtractionExhausted, Ownership, Signatures, Eligible,
         RequiresApproval
<1> QED
  BY <1>1, <1>2, <1>3, <1>4, <1>5, <1>6 DEF Ownership

LEMMA ExtractionSucceedsOwned ==
  ASSUME OneOperator, IInv, Ownership, NEW a \in Actors, NEW x \in Readings,
         ExtractionSucceeds(a, x)
  PROVE  Ownership'
<1>1. Fits'
  BY DEF ExtractionSucceeds, IInv, TypeOK, ProcessesTypeOK, TablesTypeOK,
         Ownership, Fits, Exclusive, Custody, Past, Intake, Busy, STUCK_STATES
<1>2. Exclusive'
  BY DEF ExtractionSucceeds, Ownership, Exclusive, Busy
<1>3. Abandoned'
  BY DEF ExtractionSucceeds, Ownership, Abandoned, Exclusive, Busy
<1>4. PostedIsCompleted'
  BY DEF ExtractionSucceeds, Ownership, PostedIsCompleted, Fits
<1>5. Cleared'
  BY DEF ExtractionSucceeds, Ownership, Cleared, Stored, Fits
<1>6. Signatures'
  BY DEF ExtractionSucceeds, IInv, TypeOK, ProcessesTypeOK, TablesTypeOK,
         Ownership, Signatures, Fits, Eligible, RequiresApproval, Exclusive,
         Custody, Past, Intake, Rows, STUCK_STATES
<1> QED
  BY <1>1, <1>2, <1>3, <1>4, <1>5, <1>6 DEF Ownership

LEMMA BeginValidationOwned ==
  ASSUME OneOperator, IInv, Ownership, NEW a \in Actors, BeginValidation(a)
  PROVE  Ownership'
<1>1. Fits'
  BY DEF BeginValidation, IInv, TypeOK, ProcessesTypeOK, TablesTypeOK,
         Ownership, Fits, Exclusive, Custody, Busy
<1>2. Exclusive'
  BY DEF BeginValidation, Ownership, Exclusive, Busy
<1>3. Abandoned'
  BY DEF BeginValidation, Ownership, Abandoned, Exclusive, Busy
<1>4. PostedIsCompleted'
  BY DEF BeginValidation, Ownership, PostedIsCompleted, Fits
<1>5. Cleared'
  BY DEF BeginValidation, Ownership, Cleared, Stored, Fits
<1>6. Signatures'
  BY DEF BeginValidation, Ownership, Signatures, Fits, Eligible,
         RequiresApproval
<1> QED
  BY <1>1, <1>2, <1>3, <1>4, <1>5, <1>6 DEF Ownership

LEMMA RunValidationOwned ==
  ASSUME OneOperator, IInv, Ownership, NEW a \in Actors, RunValidation(a)
  PROVE  Ownership'
<1> DEFINE x == IF job[a].seen = None THEN extraction[On(a)]
                                     ELSE job[a].seen
<1>1. PICK v \in {"matched", "passed", "failed"} :
        /\ At(a, "validating")
        /\ \/ Goto(a, v)
           \/ state[On(a)] = Outcome[v] /\ Goto(a, "settled")
        /\ UNCHANGED <<tables, stuck, loaded, batches, crashes>>
  <2>1. Verdict(On(a), x) \in {"matched", "passed", "failed"}
    BY Zenon DEF Verdict
  <2> HIDE DEF Goto
  <2> QED
    BY <2>1 DEF RunValidation
<1> USE DEF IInv, TypeOK, ProcessesTypeOK, Ownership
<1>2. Goto(a, v)
  <2>1. state[On(a)] = "VALIDATING"
    BY <1>1 DEF Fits
  <2>2. Outcome[v] # "VALIDATING"
    BY DEF Outcome
  <2> QED
    BY <1>1, <2>1, <2>2
<1>3. Fits'
  BY <1>1, <1>2 DEF Fits, STUCK_STATES, OneOperator
<1>4. Exclusive'
  BY <1>1, <1>2 DEF Exclusive, Busy
<1>5. Abandoned'
  BY <1>1, <1>2 DEF Abandoned, Busy
<1>6. PostedIsCompleted'
  BY <1>1 DEF PostedIsCompleted
<1>7. Cleared'
  BY <1>1, <1>2 DEF Cleared, Stored
<1>8. Signatures'
  BY <1>1, <1>2, <1>3 DEF Signatures, Eligible, Fits
<1> QED
  BY <1>3, <1>4, <1>5, <1>6, <1>7, <1>8

LEMMA CommitValidationOwned ==
  ASSUME OneOperator, IInv, Ownership, NEW a \in Actors, CommitValidation(a)
  PROVE  Ownership'
<1>1. Fits'
  BY DEF CommitValidation, Outcome, IInv, TypeOK, ProcessesTypeOK, Ownership,
         Fits, Exclusive, Custody, Busy
<1>2. Exclusive'
  BY DEF CommitValidation, Ownership, Exclusive, Busy
<1>3. Abandoned'
  BY DEF CommitValidation, Outcome, Ownership, Abandoned, Exclusive, Busy
<1>4. PostedIsCompleted'
  BY DEF CommitValidation, Outcome, Ownership, PostedIsCompleted, Fits
<1>5. Cleared'
  BY DEF CommitValidation, Outcome, Ownership, Cleared, Stored, Fits
<1>6. Signatures'
  BY DEF CommitValidation, Outcome, Ownership, Signatures, Fits, Eligible,
         RequiresApproval
<1> QED
  BY <1>1, <1>2, <1>3, <1>4, <1>5, <1>6 DEF Ownership

LEMMA CommitSettledOwned ==
  ASSUME OneOperator, IInv, Ownership, NEW a \in Actors, CommitSettled(a)
  PROVE  Ownership'
<1>1. Fits'
  BY DEF CommitSettled, Ownership, Fits
<1>2. Exclusive'
  BY DEF CommitSettled, Ownership, Exclusive, Busy
<1>3. Abandoned'
  BY DEF CommitSettled, Ownership, Abandoned, Fits
<1>4. PostedIsCompleted'
  BY DEF CommitSettled, Ownership, PostedIsCompleted, Fits
<1>5. Cleared'
  BY DEF CommitSettled, Ownership, Cleared, Fits
<1>6. Signatures'
  BY DEF CommitSettled, Ownership, Signatures, Fits
<1> QED
  BY <1>1, <1>2, <1>3, <1>4, <1>5, <1>6 DEF Ownership

LEMMA OpenReviewOwned ==
  ASSUME OneOperator, IInv, Ownership, NEW t \in Threads, NEW d \in Docs,
         NEW step, OpenReview(t, d, step)
  PROVE  Ownership'
<1>1. Fits'
  BY DEF OpenReview, Ownership, Fits
<1>2. Exclusive'
  BY DEF OpenReview, IInv, TypeOK, ProcessesTypeOK, Ownership, Exclusive,
         Fits, Custody, Intake, Steps, Busy, STUCK_STATES, OneOperator
<1>3. Abandoned'
  BY DEF OpenReview, Ownership, Abandoned, Busy, STUCK_STATES
<1>4. PostedIsCompleted'
  BY DEF OpenReview, Ownership, PostedIsCompleted
<1>5. Cleared'
  BY DEF OpenReview, Ownership, Cleared, Stored
<1>6. Signatures'
  BY DEF OpenReview, Ownership, Signatures, Eligible, RequiresApproval
<1> QED
  BY <1>1, <1>2, <1>3, <1>4, <1>5, <1>6 DEF Ownership

LEMMA LoadExtractionOwned ==
  ASSUME OneOperator, IInv, Ownership, NEW t \in Threads, LoadExtraction(t)
  PROVE  Ownership'
<1> USE DEF LoadExtraction, IInv, TypeOK, ProcessesTypeOK, Ownership, Busy
<1>1. Fits'
  BY DEF Fits
<1>2. Exclusive'
  BY DEF Exclusive
<1>3. Abandoned'
  BY DEF Abandoned
<1>4. PostedIsCompleted'
  BY DEF PostedIsCompleted
<1>5. Cleared'
  BY DEF Cleared, Custody, Stored
<1>6. Signatures'
  BY DEF Signatures, Eligible, RequiresApproval
<1> QED
  BY <1>1, <1>2, <1>3, <1>4, <1>5, <1>6

LEMMA CorrectOwned ==
  ASSUME OneOperator, IInv, Ownership, NEW t \in Threads, NEW y \in Readings,
         Correct(t, y)
  PROVE  Ownership'
<1>1. Fits'
  BY DEF Correct, IInv, TypeOK, ProcessesTypeOK, Ownership, Fits,
         STUCK_STATES, OneOperator
<1>2. Exclusive'
  BY DEF Correct, Ownership, Exclusive, Busy
<1>3. Abandoned'
  BY DEF Correct, Untouched, Loaded, AfterExtraction, Ownership, Abandoned,
         Fits, Busy, STUCK_STATES
<1>4. PostedIsCompleted'
  BY DEF Correct, Untouched, Loaded, AfterExtraction, Ownership,
         PostedIsCompleted, Fits
<1>5. Cleared'
  BY DEF Correct, Untouched, Loaded, AfterExtraction, IInv, TypeOK,
         ProcessesTypeOK, Ownership, Cleared, Custody, Stored, Fits
<1>6. Signatures'
  <2>1. PICK row \in Merged(extraction[On(t)], job[t].seen, y) :
          extraction' = [extraction EXCEPT ![On(t)] = row]
    BY DEF Correct
  <2>2. \A a \in Actors : On(a) = On(t) /\ Busy(a) => a = t
    BY DEF Correct, Ownership, Exclusive, Busy
  <2> QED
    BY <2>1, <2>2
       DEF Correct, Untouched, IInv, TypeOK, ProcessesTypeOK, TablesTypeOK,
           Ownership, Signatures, Fits, Eligible, RequiresApproval, Busy
<1> QED
  BY <1>1, <1>2, <1>3, <1>4, <1>5, <1>6 DEF Ownership

LEMMA CorrectRefusedOwned ==
  ASSUME OneOperator, IInv, Ownership, NEW t \in Threads, CorrectRefused(t)
  PROVE  Ownership'
<1>1. Fits'
  BY DEF CorrectRefused, Ownership, Fits
<1>2. Exclusive'
  BY DEF CorrectRefused, Ownership, Exclusive, Busy
<1>3. Abandoned'
  BY DEF CorrectRefused, Ownership, Abandoned, Busy
<1>4. PostedIsCompleted'
  BY DEF CorrectRefused, Ownership, PostedIsCompleted
<1>5. Cleared'
  BY DEF CorrectRefused, Ownership, Cleared, Stored
<1>6. Signatures'
  BY DEF CorrectRefused, Ownership, Signatures, Eligible, RequiresApproval
<1> QED
  BY <1>1, <1>2, <1>3, <1>4, <1>5, <1>6 DEF Ownership

LEMMA RejectReviewOwned ==
  ASSUME OneOperator, IInv, Ownership, NEW t \in Threads, RejectReview(t)
  PROVE  Ownership'
<1>1. Fits'
  BY DEF RejectReview, IInv, TypeOK, ProcessesTypeOK, Ownership, Fits,
         STUCK_STATES, OneOperator
<1>2. Exclusive'
  BY DEF RejectReview, Ownership, Exclusive, Busy
<1>3. Abandoned'
  BY DEF RejectReview, Untouched, Ownership, Abandoned, Fits, Busy,
         STUCK_STATES
<1>4. PostedIsCompleted'
  BY DEF RejectReview, Untouched, Ownership, PostedIsCompleted, Fits
<1>5. Cleared'
  BY DEF RejectReview, Untouched, Ownership, Cleared, Stored, Fits
<1>6. Signatures'
  BY DEF RejectReview, Ownership, Signatures, Eligible, RequiresApproval
<1> QED
  BY <1>1, <1>2, <1>3, <1>4, <1>5, <1>6 DEF Ownership

LEMMA OpenApprovalOwned ==
  ASSUME OneOperator, IInv, Ownership, NEW t \in Threads, NEW d \in Docs,
         OpenApproval(t, d)
  PROVE  Ownership'
<1>1. Fits'
  BY DEF OpenApproval, Ownership, Fits
<1>2. Exclusive'
  BY DEF OpenApproval, IInv, TypeOK, ProcessesTypeOK, Ownership, Exclusive,
         Fits, Custody, Intake, Steps, Busy, STUCK_STATES, OneOperator
<1>3. Abandoned'
  BY DEF OpenApproval, Ownership, Abandoned, Busy, STUCK_STATES
<1>4. PostedIsCompleted'
  BY DEF OpenApproval, Ownership, PostedIsCompleted
<1>5. Cleared'
  BY DEF OpenApproval, Ownership, Cleared, Stored
<1>6. Signatures'
  BY DEF OpenApproval, Ownership, Signatures, Eligible,
         RequiresApproval
<1> QED
  BY <1>1, <1>2, <1>3, <1>4, <1>5, <1>6 DEF Ownership

LEMMA AssessOwned ==
  ASSUME OneOperator, IInv, Ownership, NEW t \in Threads,
         NEW step, Assess(t, step)
  PROVE  Ownership'
<1> USE DEF Assess, IInv, TypeOK, ProcessesTypeOK, Ownership, Busy,
            ApprovalEligible
<1>1. Fits'
  BY DEF Fits
<1>2. Exclusive'
  BY DEF Exclusive
<1>3. Abandoned'
  BY DEF Abandoned
<1>4. PostedIsCompleted'
  BY DEF PostedIsCompleted
<1>5. Cleared'
  BY DEF Cleared, Custody, Stored
<1>6. Signatures'
  BY DEF Signatures, Eligible, RequiresApproval
<1> QED
  BY <1>1, <1>2, <1>3, <1>4, <1>5, <1>6

LEMMA ApproveOwned ==
  ASSUME OneOperator, IInv, Ownership, NEW t \in Threads, Approve(t)
  PROVE  Ownership'
<1>1. Fits'
  BY DEF Approve, Ownership, Fits
<1>2. Exclusive'
  BY DEF Approve, Ownership, Exclusive, Busy
<1>3. Abandoned'
  BY DEF Approve, Untouched, Ownership, Abandoned, Busy
<1>4. PostedIsCompleted'
  BY DEF Approve, Untouched, Ownership, PostedIsCompleted
<1>5. Cleared'
  BY DEF Approve, Untouched, Ownership, Cleared, Stored
<1>6. Signatures'
  BY DEF Approve, Ownership, Signatures, Fits, Eligible, RequiresApproval
<1> QED
  BY <1>1, <1>2, <1>3, <1>4, <1>5, <1>6 DEF Ownership

LEMMA DeclineOwned ==
  ASSUME OneOperator, IInv, Ownership, NEW t \in Threads, Decline(t)
  PROVE  Ownership'
<1>1. Fits'
  BY DEF Decline, IInv, TypeOK, ProcessesTypeOK, Ownership, Fits,
         STUCK_STATES, OneOperator
<1>2. Exclusive'
  BY DEF Decline, Ownership, Exclusive, Busy
<1>3. Abandoned'
  BY DEF Decline, Untouched, Ownership, Abandoned, Fits, Busy, STUCK_STATES
<1>4. PostedIsCompleted'
  BY DEF Decline, Untouched, Ownership, PostedIsCompleted, Fits
<1>5. Cleared'
  BY DEF Decline, Untouched, Ownership, Cleared, Stored, Fits
<1>6. Signatures'
  BY DEF Decline, IInv, TypeOK, ProcessesTypeOK, TablesTypeOK, Ownership,
         Signatures, Eligible, RequiresApproval
<1> QED
  BY <1>1, <1>2, <1>3, <1>4, <1>5, <1>6 DEF Ownership

LEMMA OpenActionOwned ==
  ASSUME OneOperator, IInv, Ownership, NEW t \in Threads, NEW d \in Docs,
         OpenAction(t, d)
  PROVE  Ownership'
<1>1. Fits'
  BY DEF OpenAction, Ownership, Fits
<1>2. Exclusive'
  BY DEF OpenAction, IInv, TypeOK, ProcessesTypeOK, Ownership, Exclusive,
         Fits, Custody, Intake, Steps, Busy, STUCK_STATES, OneOperator
<1>3. Abandoned'
  BY DEF OpenAction, Ownership, Abandoned, Busy, STUCK_STATES
<1>4. PostedIsCompleted'
  BY DEF OpenAction, Ownership, PostedIsCompleted
<1>5. Cleared'
  BY DEF OpenAction, Ownership, Cleared, Stored
<1>6. Signatures'
  BY DEF OpenAction, Ownership, Signatures, Eligible, RequiresApproval
<1> QED
  BY <1>1, <1>2, <1>3, <1>4, <1>5, <1>6 DEF Ownership

LEMMA CheckEligibilityOwned ==
  ASSUME OneOperator, IInv, Ownership, NEW t \in Threads, CheckEligibility(t)
  PROVE  Ownership'
<1>1. Fits'
  BY DEF CheckEligibility, IInv, TypeOK, ProcessesTypeOK, Ownership, Fits
<1>2. Exclusive'
  BY DEF CheckEligibility, IInv, TypeOK, ProcessesTypeOK, Ownership,
         Exclusive, Busy
<1>3. Abandoned'
  BY DEF CheckEligibility, IInv, TypeOK, ProcessesTypeOK, Ownership,
         Abandoned, Busy
<1>4. PostedIsCompleted'
  BY DEF CheckEligibility, Ownership, PostedIsCompleted
<1>5. Cleared'
  BY DEF CheckEligibility, IInv, TypeOK, ProcessesTypeOK, Ownership, Cleared,
         Custody, Stored
<1>6. Signatures'
  BY DEF CheckEligibility, IInv, TypeOK, ProcessesTypeOK, Ownership,
         Signatures, Eligible, RequiresApproval, MayBegin
<1> QED
  BY <1>1, <1>2, <1>3, <1>4, <1>5, <1>6 DEF Ownership

LEMMA BeginActionOwned ==
  ASSUME OneOperator, IInv, Ownership, NEW t \in Threads, BeginAction(t)
  PROVE  Ownership'
<1>1. Fits'
  BY DEF BeginAction, IInv, TypeOK, ProcessesTypeOK, TablesTypeOK, Ownership,
         Fits, Exclusive, Custody, Past, Intake, Busy
<1>2. Exclusive'
  BY DEF BeginAction, Ownership, Exclusive, Busy
<1>3. Abandoned'
  BY DEF BeginAction, Ownership, Abandoned, Exclusive, Busy
<1>4. PostedIsCompleted'
  BY DEF BeginAction, Ownership, PostedIsCompleted, Fits
<1>5. Cleared'
  BY DEF BeginAction, Ownership, Cleared, Stored, Fits
<1>6. Signatures'
  BY DEF BeginAction, Ownership, Signatures, Fits, Eligible, RequiresApproval,
         Past, Intake
<1> QED
  BY <1>1, <1>2, <1>3, <1>4, <1>5, <1>6 DEF Ownership

LEMMA LoadArgumentsOwned ==
  ASSUME OneOperator, IInv, Ownership, NEW t \in Threads, LoadArguments(t)
  PROVE  Ownership'
<1> USE DEF LoadArguments, IInv, TypeOK, ProcessesTypeOK, Ownership, Busy
<1>1. Fits'
  BY DEF Fits
<1>2. Exclusive'
  BY DEF Exclusive
<1>3. Abandoned'
  BY DEF Abandoned
<1>4. PostedIsCompleted'
  BY DEF PostedIsCompleted
<1>5. Cleared'
  BY DEF Cleared, Custody, Stored
<1>6. Signatures'
  BY DEF Signatures, Eligible, RequiresApproval
<1> QED
  BY <1>1, <1>2, <1>3, <1>4, <1>5, <1>6

LEMMA PostSucceedsOwned ==
  ASSUME OneOperator, IInv, Ownership, NEW a \in Actors, PostSucceeds(a)
  PROVE  Ownership'
<1>1. Fits'
  BY DEF PostSucceeds, IInv, TypeOK, ProcessesTypeOK, Ownership, Fits,
         Exclusive, Custody, Busy
<1>2. Exclusive'
  BY DEF PostSucceeds, Ownership, Exclusive, Busy
<1>3. Abandoned'
  BY DEF PostSucceeds, Ownership, Abandoned, Exclusive, Busy
<1>4. PostedIsCompleted'
  BY DEF PostSucceeds, IInv, TypeOK, ProcessesTypeOK, TablesTypeOK, Ownership,
         PostedIsCompleted, Custody
<1>5. Cleared'
  BY DEF PostSucceeds, Ownership, Cleared, Stored, Fits
<1>6. Signatures'
  BY DEF PostSucceeds, Ownership, Signatures, Eligible, RequiresApproval
<1> QED
  BY <1>1, <1>2, <1>3, <1>4, <1>5, <1>6 DEF Ownership

LEMMA PostExhaustedOwned ==
  ASSUME OneOperator, IInv, Ownership, NEW a \in Actors, PostExhausted(a)
  PROVE  Ownership'
<1>1. Fits'
  BY DEF PostExhausted, IInv, TypeOK, ProcessesTypeOK, Ownership, Fits,
         Exclusive, Custody, Busy
<1>2. Exclusive'
  BY DEF PostExhausted, Ownership, Exclusive, Busy
<1>3. Abandoned'
  BY DEF PostExhausted, Ownership, Abandoned, Exclusive, Busy
<1>4. PostedIsCompleted'
  BY DEF PostExhausted, Ownership, PostedIsCompleted, Fits
<1>5. Cleared'
  BY DEF PostExhausted, Ownership, Cleared, Stored
<1>6. Signatures'
  BY DEF PostExhausted, Ownership, Signatures, Eligible, RequiresApproval
<1> QED
  BY <1>1, <1>2, <1>3, <1>4, <1>5, <1>6 DEF Ownership

LEMMA WorkerPollOwned ==
  ASSUME OneOperator, IInv, Ownership, NEW d \in Docs, WorkerPoll(d)
  PROVE  Ownership'
<1>1. Fits'
  BY DEF WorkerPoll, Judge, FindStuck, IInv, TypeOK, ProcessesTypeOK,
         Ownership, Fits, Abandoned
<1>2. Exclusive'
  BY DEF WorkerPoll, Judge, FindStuck, IInv, TypeOK, ProcessesTypeOK,
         Ownership, Exclusive, Abandoned, Busy
<1>3. Abandoned'
  BY DEF WorkerPoll, Judge, FindStuck, IInv, TypeOK, ProcessesTypeOK,
         Ownership, Abandoned, Busy
<1>4. PostedIsCompleted'
  BY DEF WorkerPoll, Judge, FindStuck, Ownership, PostedIsCompleted
<1>5. Cleared'
  BY DEF WorkerPoll, Judge, FindStuck, IInv, TypeOK, ProcessesTypeOK,
         Ownership, Cleared, Custody, Stored
<1>6. Signatures'
  BY DEF WorkerPoll, Judge, FindStuck, IInv, TypeOK, ProcessesTypeOK,
         Ownership, Signatures, Eligible, RequiresApproval, Abandoned
<1> QED
  BY <1>1, <1>2, <1>3, <1>4, <1>5, <1>6 DEF Ownership

LEMMA WorkerNextOwned ==
  ASSUME OneOperator, IInv, Ownership, NEW d \in Docs, WorkerNext(d)
  PROVE  Ownership'
<1>1. Fits'
  BY DEF WorkerNext, Judge, IInv, TypeOK, ProcessesTypeOK, Ownership, Fits,
         Abandoned
<1>2. Exclusive'
  BY DEF WorkerNext, Judge, IInv, TypeOK, ProcessesTypeOK, Ownership,
         Exclusive, Abandoned, Busy
<1>3. Abandoned'
  BY DEF WorkerNext, Judge, IInv, TypeOK, ProcessesTypeOK, Ownership,
         Abandoned, Busy
<1>4. PostedIsCompleted'
  BY DEF WorkerNext, Judge, Ownership, PostedIsCompleted
<1>5. Cleared'
  BY DEF WorkerNext, Judge, IInv, TypeOK, ProcessesTypeOK, Ownership, Cleared,
         Custody, Stored
<1>6. Signatures'
  BY DEF WorkerNext, Judge, IInv, TypeOK, ProcessesTypeOK, Ownership,
         Signatures, Eligible, RequiresApproval, Abandoned
<1> QED
  BY <1>1, <1>2, <1>3, <1>4, <1>5, <1>6 DEF Ownership

LEMMA DeadLetterOwned ==
  ASSUME OneOperator, IInv, Ownership, DeadLetter
  PROVE  Ownership'
<1>1. Fits'
  BY DEF DeadLetter, Note, IInv, TypeOK, ProcessesTypeOK, TablesTypeOK,
         Ownership, Fits, Exclusive, Custody, Busy
<1>2. Exclusive'
  BY DEF DeadLetter, Ownership, Exclusive, Busy
<1>3. Abandoned'
  BY DEF DeadLetter, Note, IInv, TypeOK, ProcessesTypeOK, TablesTypeOK,
         Ownership, Abandoned, Custody, Busy
<1>4. PostedIsCompleted'
  BY DEF DeadLetter, Note, IInv, TypeOK, ProcessesTypeOK, TablesTypeOK,
         Ownership, PostedIsCompleted, Fits, Custody, STUCK_STATES
<1>5. Cleared'
  BY DEF DeadLetter, Note, IInv, TypeOK, ProcessesTypeOK, TablesTypeOK,
         Ownership, Cleared, Custody, Stored
<1>6. Signatures'
  BY DEF DeadLetter, Note, IInv, TypeOK, ProcessesTypeOK, TablesTypeOK,
         Ownership, Signatures, Eligible, RequiresApproval, Custody
<1> QED
  BY <1>1, <1>2, <1>3, <1>4, <1>5, <1>6 DEF Ownership

LEMMA CountRetryOwned ==
  ASSUME OneOperator, IInv, Ownership, CountRetry
  PROVE  Ownership'
<1>1. Fits'
  BY DEF CountRetry, Ownership, Fits
<1>2. Exclusive'
  BY DEF CountRetry, Ownership, Exclusive, Busy
<1>3. Abandoned'
  BY DEF CountRetry, Ownership, Abandoned, Busy
<1>4. PostedIsCompleted'
  BY DEF CountRetry, Ownership, PostedIsCompleted
<1>5. Cleared'
  BY DEF CountRetry, Ownership, Cleared, Stored
<1>6. Signatures'
  BY DEF CountRetry, Ownership, Signatures, Eligible, RequiresApproval
<1> QED
  BY <1>1, <1>2, <1>3, <1>4, <1>5, <1>6 DEF Ownership

LEMMA ResumeOwned ==
  ASSUME OneOperator, IInv, Ownership, Resume
  PROVE  Ownership'
<1>1. Fits'
  BY DEF Resume, Resumption, IInv, TypeOK, ProcessesTypeOK,
         Ownership, Fits, STUCK_STATES
<1>2. Exclusive'
  BY DEF Resume, Resumption, IInv, TypeOK, ProcessesTypeOK,
         Ownership, Exclusive, Busy
<1>3. Abandoned'
  BY DEF Resume, Resumption, IInv, TypeOK, ProcessesTypeOK,
         Ownership, Abandoned, Busy, STUCK_STATES
<1>4. PostedIsCompleted'
  BY DEF Resume, Resumption, Ownership, PostedIsCompleted
<1>5. Cleared'
  BY DEF Resume, Resumption, Rows, IInv, TypeOK, ProcessesTypeOK,
         TablesTypeOK, Ownership, Cleared, Spending, Custody, Intake, Past,
         Stored, Fits, Busy, STUCK_STATES, OneOperator
<1>6. Signatures'
  BY DEF Resume, Resumption, IInv, TypeOK, ProcessesTypeOK, Ownership,
         Signatures, Eligible, RequiresApproval, Fits, STUCK_STATES
<1> QED
  BY <1>1, <1>2, <1>3, <1>4, <1>5, <1>6 DEF Ownership

LEMMA LoadRowsOwned ==
  ASSUME OneOperator, IInv, Ownership, LoadRows
  PROVE  Ownership'
<1> DEFINE d == On("worker")
<1> USE DEF IInv, TypeOK, ProcessesTypeOK, Ownership, Busy
<1>1. /\ job["worker"].at \in {"revalidating", "reposting"}
      /\ d \in Docs
      /\ state[d] = Found[job["worker"].at]
      /\ ~RowsMissing(d, state[d])
  BY DEF LoadRows, Found, Custody, Rows, Fits, RowsMissing
<1>2. PICK step \in {"validating", "posting"} :
        /\ Take("worker", d, step, extraction[d])
        /\ step = "validating" => state[d] = "VALIDATING"
        /\ step = "posting" => state[d] = "ACTIONED"
  BY <1>1 DEF LoadRows, Found
<1>3. UNCHANGED <<tables, stuck, loaded, batches>>
  BY <1>1 DEF LoadRows
<1>4. Fits'
  BY <1>1, <1>2, <1>3 DEF Fits
<1>5. Exclusive'
  BY <1>1, <1>2, <1>3 DEF Exclusive
<1>6. Abandoned'
  BY <1>1, <1>2, <1>3 DEF Abandoned
<1>7. PostedIsCompleted'
  BY <1>3 DEF PostedIsCompleted
<1>8. Cleared'
  BY <1>1, <1>2, <1>3 DEF Cleared, Stored
<1>9. Signatures'
  BY <1>1, <1>2, <1>3 DEF Signatures, Eligible, RequiresApproval
<1> QED
  BY <1>4, <1>5, <1>6, <1>7, <1>8, <1>9

LEMMA StorageFailsOwned ==
  ASSUME OneOperator, IInv, Ownership, StorageFails
  PROVE  Ownership'
<1>1. Fits'
  BY DEF StorageFails, Ownership, Fits
<1>2. Exclusive'
  BY DEF StorageFails, Ownership, Exclusive, Busy
<1>3. Abandoned'
  BY DEF StorageFails, Ownership, Abandoned, Busy
<1>4. PostedIsCompleted'
  BY DEF StorageFails, Ownership, PostedIsCompleted
<1>5. Cleared'
  BY DEF StorageFails, Ownership, Cleared, Stored
<1>6. Signatures'
  BY DEF StorageFails, Ownership, Signatures, Eligible, RequiresApproval
<1> QED
  BY <1>1, <1>2, <1>3, <1>4, <1>5, <1>6 DEF Ownership

LEMMA SelectFailsOwned ==
  ASSUME OneOperator, IInv, Ownership, SelectFails
  PROVE  Ownership'
<1>1. Fits'
  BY DEF SelectFails, Ownership, Fits
<1>2. Exclusive'
  BY DEF SelectFails, Ownership, Exclusive, Busy
<1>3. Abandoned'
  BY DEF SelectFails, Ownership, Abandoned, Busy
<1>4. PostedIsCompleted'
  BY DEF SelectFails, Ownership, PostedIsCompleted
<1>5. Cleared'
  BY DEF SelectFails, Ownership, Cleared, Stored
<1>6. Signatures'
  BY DEF SelectFails, Ownership, Signatures, Eligible, RequiresApproval
<1> QED
  BY <1>1, <1>2, <1>3, <1>4, <1>5, <1>6 DEF Ownership

LEMMA ServerCrashOwned ==
  ASSUME OneOperator, IInv, Ownership, ServerCrash
  PROVE  Ownership'
<1>1. Fits'
  BY DEF ServerCrash, Ownership, Fits
<1>2. Exclusive'
  BY DEF ServerCrash, Ownership, Exclusive, Busy
<1>3. Abandoned'
  BY DEF ServerCrash, Ownership, Abandoned, Busy
<1>4. PostedIsCompleted'
  BY DEF ServerCrash, Ownership, PostedIsCompleted
<1>5. Cleared'
  BY DEF ServerCrash, Ownership, Cleared, Stored
<1>6. Signatures'
  BY DEF ServerCrash, Ownership, Signatures, Eligible, RequiresApproval
<1> QED
  BY <1>1, <1>2, <1>3, <1>4, <1>5, <1>6 DEF Ownership

LEMMA WorkerCrashOwned ==
  ASSUME OneOperator, IInv, Ownership, WorkerCrash
  PROVE  Ownership'
<1>1. Fits'
  BY DEF WorkerCrash, Ownership, Fits
<1>2. Exclusive'
  BY DEF WorkerCrash, Ownership, Exclusive, Busy
<1>3. Abandoned'
  BY DEF WorkerCrash, IInv, TypeOK, ProcessesTypeOK, Ownership, Abandoned,
         Busy
<1>4. PostedIsCompleted'
  BY DEF WorkerCrash, Ownership, PostedIsCompleted
<1>5. Cleared'
  BY DEF WorkerCrash, Ownership, Cleared, Stored
<1>6. Signatures'
  BY DEF WorkerCrash, Ownership, Signatures, Eligible, RequiresApproval
<1> QED
  BY <1>1, <1>2, <1>3, <1>4, <1>5, <1>6 DEF Ownership

LEMMA WorkerStartOwned ==
  ASSUME OneOperator, IInv, Ownership, WorkerStart
  PROVE  Ownership'
<1>1. Fits'
  BY DEF WorkerStart, Ownership, Fits
<1>2. Exclusive'
  BY DEF WorkerStart, Ownership, Exclusive, Busy
<1>3. Abandoned'
  BY DEF WorkerStart, Ownership, Abandoned, Busy
<1>4. PostedIsCompleted'
  BY DEF WorkerStart, Ownership, PostedIsCompleted
<1>5. Cleared'
  BY DEF WorkerStart, Ownership, Cleared, Stored
<1>6. Signatures'
  BY DEF WorkerStart, Ownership, Signatures, Eligible, RequiresApproval
<1> QED
  BY <1>1, <1>2, <1>3, <1>4, <1>5, <1>6 DEF Ownership

LEMMA AgeOwned ==
  ASSUME OneOperator, IInv, Ownership, NEW d \in Docs, Age(d)
  PROVE  Ownership'
<1>1. Fits'
  BY DEF Age, Owned, Ownership, Fits
<1>2. Exclusive'
  BY DEF Age, Owned, Ownership, Exclusive, Busy
<1>3. Abandoned'
  BY DEF Age, Owned, Ownership, Abandoned, Busy, OneOperator
<1>4. PostedIsCompleted'
  BY DEF Age, Owned, Ownership, PostedIsCompleted
<1>5. Cleared'
  BY DEF Age, Owned, Ownership, Cleared, Stored
<1>6. Signatures'
  BY DEF Age, Owned, Ownership, Signatures, Eligible, RequiresApproval
<1> QED
  BY <1>1, <1>2, <1>3, <1>4, <1>5, <1>6 DEF Ownership

-----------------------------------------------------------------------------
(* The next-state relation. *)
(* A handler that raises changes its own job and, in the worker, the pass. *)
LEMMA RaisingOwned ==
  ASSUME OneOperator, IInv, Ownership, NEW a \in Actors,
         \/ DatabaseFault(a) \/ ExtractionConflict(a) \/ ApprovalConflict(a)
         \/ ActionConflict(a) \/ PostRaises(a)
  PROVE  Ownership'
BY RaiseOwned DEF DatabaseFault, ExtractionConflict, ApprovalConflict,
                  ActionConflict, PostRaises, Busy

LEMMA NextOwned ==
  ASSUME OneOperator, IInv, Ownership, [Next]_vars
  PROVE  Ownership'
<1>1. CASE UNCHANGED vars
  BY <1>1 DEF vars, Ownership, Fits, Exclusive, Abandoned, PostedIsCompleted,
              Cleared, Signatures, Eligible, Busy, Stored
<1>2. ASSUME NEW a \in Actors, AttemptExtraction(a) \/ AttemptValidation(a)
      PROVE  Ownership'
  BY <1>2, ExtractionExhaustedOwned, ExtractionSucceedsOwned, RaisingOwned,
     BeginValidationOwned, RunValidationOwned, CommitValidationOwned,
     CommitSettledOwned DEF AttemptExtraction, AttemptValidation
<1>3. ASSUME NEW a \in Actors, AttemptAction(a)
      PROVE  Ownership'
  BY <1>3, PostSucceedsOwned, PostExhaustedOwned, RaisingOwned
     DEF AttemptAction
<1>4. CASE UploadSteps
  BY <1>2, <1>4, CheckHashOwned, MarkHashDuplicateOwned, BeginExtractionOwned
     DEF UploadSteps
<1>5. CASE NewUpload
  BY <1>5, UploadStartOwned, UploadFailsOwned, UploadReceiveOwned
     DEF NewUpload
<1>6. ASSUME NEW t \in Threads, ReviewSteps(t)
      PROVE  Ownership'
  BY <1>6, LoadExtractionOwned, CorrectOwned, CorrectRefusedOwned,
     RejectReviewOwned, AssessOwned, ApproveOwned, DeclineOwned, RaisingOwned
     DEF ReviewSteps
<1>7. ASSUME NEW t \in Threads, ActionSteps(t)
      PROVE  Ownership'
  BY <1>3, <1>7, CheckEligibilityOwned, BeginActionOwned,
     LoadArgumentsOwned, RaisingOwned DEF ActionSteps
<1>8. ASSUME NEW t \in Threads, NewReview(t) \/ NewAction(t)
      PROVE  Ownership'
  BY <1>8, OpenReviewOwned, OpenApprovalOwned, OpenActionOwned
     DEF NewReview, NewAction
<1>9. CASE WorkerSteps
  BY <1>2, <1>3, <1>9, WorkerPollOwned, WorkerNextOwned, DeadLetterOwned,
     CountRetryOwned, ResumeOwned, LoadRowsOwned, StorageFailsOwned,
     SelectFailsOwned
     DEF WorkerSteps
<1>10. CASE Environment
  BY <1>5, <1>8, <1>10, RaisingOwned, ServerCrashOwned, WorkerCrashOwned
     DEF Environment
<1> QED
  BY <1>1, <1>4, <1>6, <1>7, <1>9, <1>10, WorkerStartOwned, AgeOwned
     DEF Next, ThreadSteps

(* Whoever has a document has it alone, and finds it as it left it.        *)
THEOREM OwnershipHolds == OneOperator /\ Spec => []Ownership
<1> SUFFICES ASSUME OneOperator PROVE Spec => []Ownership
  OBVIOUS
<1>1. Init => Ownership
  BY OwnershipInit
<1>2. IInv /\ Ownership /\ [Next]_vars => Ownership'
  BY NextOwned
<1> QED
  BY <1>1, <1>2, Invariance, PTL DEF Spec

(* Of two documents with the same bytes at most one is ever extracted,     *)
(* unless one of them failed. *)
THEOREM SameFileIsExtractedOnce ==
  OneOperator /\ Spec => []SameFileExtractedOnce
<1> SUFFICES ASSUME OneOperator PROVE Spec => []SameFileExtractedOnce
  OBVIOUS
<1>1. Ownership => SameFileExtractedOnce
  BY DEF Ownership, Cleared, SameFileExtractedOnce, Stored
<1> QED
  BY <1>1, OwnershipHolds, PTL

-----------------------------------------------------------------------------
(* Every step is a transition of the documented diagram.                   *)

Transition ==
  /\ Documented!Next \/ UNCHANGED Documented!lifecycle
  /\ \A d \in Docs : state'[d] # state[d] => audit'[d] = state[d]

LEMMA Unmoved ==
  ASSUME UNCHANGED <<state, approval, ledger>>
  PROVE  Transition
BY DEF Transition, Documented!lifecycle, SignedAmount, PaidAmount

LEMMA Moved ==
  ASSUME TypeOK,
         NEW d \in Docs, NEW from, NEW to, <<from, to>> \in Documented!Diagram,
         state[d] = from, Move(d, from, to),
         \A e \in Docs : SignedAmount(e)' = SignedAmount(e),
         UNCHANGED ledger
  PROVE  Transition
<1>1. UNCHANGED <<[e \in Docs |-> SignedAmount(e)],
                  [e \in Docs |-> PaidAmount(e)]>>
  BY DEF PaidAmount
<1>2. Documented!Advance(d)
  BY <1>1 DEF Documented!Advance
<1> QED
  BY <1>2 DEF Transition, Documented!Next, TypeOK, TablesTypeOK

(* One edge of the diagram, with nothing signed and nothing paid. *)
Edge(d, from, to) ==
  /\ <<from, to>> \in Documented!Diagram
  /\ state[d] = from
  /\ Move(d, from, to)
  /\ UNCHANGED <<approval, ledger>>

LEMMA MovedAlone ==
  ASSUME TypeOK, NEW d \in Docs, NEW from, NEW to, Edge(d, from, to)
  PROVE  Transition
BY Moved DEF SignedAmount, Edge

LEMMA ApproveSigns ==
  ASSUME IInv, Ownership, NEW t \in Threads, Approve(t)
  PROVE  Transition
<1> DEFINE d == On(t)
           amount == job[t].seen.total
<1>1. d \in Docs /\ t \in Actors /\ amount \in Amounts /\ amount >= Threshold
  BY DEF Approve, IInv, Loaded, Custody, Busy, Ownership, Signatures, TypeOK,
         ProcessesTypeOK, RequiresApproval, Readings
<1>2. state[d] = "VALIDATED" /\ approval[d] = None
  BY <1>1 DEF Approve, Ownership, Fits
<1>3. [e \in Docs |-> SignedAmount(e)]' =
        [[e \in Docs |-> SignedAmount(e)] EXCEPT ![d] = amount]
  <2>1. approval \in [Docs -> [amount : Amounts,
                              decision : {"APPROVED", "REJECTED"}]
                             \cup {None}]
    BY DEF IInv, TypeOK, TablesTypeOK
  <2>2. approval' = [approval EXCEPT ![d] =
                       [amount |-> amount, decision |-> "APPROVED"]]
    BY DEF Approve
  <2>3. [amount |-> amount, decision |-> "APPROVED"] # None
    BY <1>1
  <2>4. ASSUME NEW e \in Docs
        PROVE  SignedAmount(e)' = IF e = d THEN amount ELSE SignedAmount(e)
    BY <1>1, <2>1, <2>2, <2>3 DEF SignedAmount
  <2> QED
    BY <1>1, <2>4
<1>4. UNCHANGED <<state, ledger>>
  BY DEF Approve, Untouched
<1>5. Documented!Sign(d)
  BY <1>1, <1>2, <1>3, <1>4 DEF Documented!Sign, SignedAmount, PaidAmount
<1> QED
  BY <1>1, <1>4, <1>5 DEF Transition, Documented!Next

LEMMA DeclineMoves ==
  ASSUME IInv, Ownership, NEW t \in Threads, Decline(t)
  PROVE  Transition
<1> DEFINE d == On(t)
<1>1. d \in Docs /\ t \in Actors
  BY DEF Decline, IInv, Custody, Busy
<1>2. state[d] = "VALIDATED"
  BY <1>1 DEF Decline, Ownership, Fits
<1>3. \A e \in Docs : SignedAmount(e)' = SignedAmount(e)
  <2>1. approval \in [Docs -> [amount : Amounts,
                              decision : {"APPROVED", "REJECTED"}]
                             \cup {None}]
    BY DEF IInv, TypeOK, TablesTypeOK
  <2>2. /\ approval[d] = None
        /\ approval' = [approval EXCEPT ![d] =
                       [amount |-> job[t].seen.total, decision |-> "REJECTED"]]
    BY DEF Decline
  <2> QED
    BY <1>1, <2>1, <2>2 DEF SignedAmount
<1>4. TypeOK /\ Move(d, "VALIDATED", "REJECTED") /\ UNCHANGED ledger
  BY DEF IInv, Decline, Untouched
<1>5. <<"VALIDATED", "REJECTED">> \in Documented!Diagram
  BY DEF Documented!Diagram
<1> QED
  BY <1>1, <1>2, <1>3, <1>4, <1>5, Moved

LEMMA PostSucceedsPays ==
  ASSUME IInv, Ownership, NEW a \in Actors, PostSucceeds(a)
  PROVE  Transition
<1> DEFINE d == On(a)
           amount == extraction[d].total
<1>1. d \in Docs
  BY DEF PostSucceeds, IInv, Custody, Busy
<1>2. state[d] = "ACTIONED" /\ ledger[d] = None
  BY <1>1 DEF PostSucceeds, Ownership, Fits
<1>3. /\ job[a].seen = extraction[d]
      /\ extraction[d] \in Readings /\ amount \in Amounts
  BY <1>1, <1>2 DEF PostSucceeds, Postable, IInv, Loaded, AfterExtraction,
     TypeOK, TablesTypeOK, Readings, Ownership, Signatures
<1>4. ASSUME amount >= Threshold
      PROVE  SignedAmount(d) = amount
  <2>1. approval[d] # None
    BY <1>1, <1>2, <1>4 DEF Ownership, Signatures, Eligible, RequiresApproval
  <2>2. approval[d] = [amount |-> amount, decision |-> "APPROVED"]
    BY <1>1, <1>2, <2>1 DEF Ownership, Signatures
  <2> QED
    BY <2>1, <2>2 DEF SignedAmount
<1>5. [e \in Docs |-> PaidAmount(e)]' =
        [[e \in Docs |-> PaidAmount(e)] EXCEPT ![d] = amount]
  BY <1>1, <1>3 DEF PostSucceeds, PaidAmount, IInv, TypeOK, TablesTypeOK
<1>6. UNCHANGED [e \in Docs |-> SignedAmount(e)]
  BY DEF PostSucceeds, SignedAmount
<1>7. Documented!Pay(d)
  BY <1>1, <1>2, <1>3, <1>4, <1>5, <1>6
     DEF Documented!Pay, PaidAmount, PostSucceeds
<1> QED
  BY <1>1, <1>2, <1>7
     DEF Transition, Documented!Next, PostSucceeds, IInv, TypeOK, TablesTypeOK

LEMMA ActorMoves ==
  ASSUME IInv, Ownership, NEW a \in Actors,
         \/ a = "loop" /\ MarkHashDuplicate
         \/ a = "loop" /\ BeginExtraction
         \/ ExtractionExhausted(a)
         \/ \E x \in Readings : ExtractionSucceeds(a, x)
         \/ BeginValidation(a)
         \/ CommitValidation(a)
         \/ PostExhausted(a)
         \/ a = "worker" /\ DeadLetter /\ loaded # "FAILED"
  PROVE  Transition
<1> DEFINE d == On(a)
<1>1. d \in Docs /\ TypeOK
  BY DEF IInv, Custody, Busy, MarkHashDuplicate, BeginExtraction,
         ExtractionExhausted, ExtractionSucceeds, BeginValidation,
         CommitValidation, Outcome, PostExhausted, DeadLetter
<1>2. CASE a = "loop" /\ MarkHashDuplicate
  <2>1. Edge(d, "RECEIVED", "DUPLICATE")
    BY <1>2 DEF Edge, Documented!Diagram, MarkHashDuplicate, IInv, Custody,
               Intake
  <2> QED
    BY <1>1, <2>1, MovedAlone
<1>3. CASE a = "loop" /\ BeginExtraction
  <2>1. Edge(d, "RECEIVED", "EXTRACTING")
    BY <1>3 DEF Edge, Documented!Diagram, BeginExtraction, IInv, Custody,
               Intake
  <2> QED
    BY <1>1, <2>1, MovedAlone
<1>4. CASE ExtractionExhausted(a)
  <2>1. Edge(d, "EXTRACTING", "FAILED")
    BY <1>4 DEF Edge, Documented!Diagram, ExtractionExhausted, Ownership, Fits
  <2> QED
    BY <1>1, <2>1, MovedAlone
<1>5. CASE \E x \in Readings : ExtractionSucceeds(a, x)
  <2>1. Edge(d, "EXTRACTING", "EXTRACTED")
    BY <1>5 DEF Edge, Documented!Diagram, ExtractionSucceeds, Ownership, Fits
  <2> QED
    BY <1>1, <2>1, MovedAlone
<1>6. CASE BeginValidation(a)
  <2>1. Edge(d, "EXTRACTED", "VALIDATING")
    BY <1>6 DEF Edge, Documented!Diagram, BeginValidation, Ownership, Fits
  <2> QED
    BY <1>1, <2>1, MovedAlone
<1>7. CASE CommitValidation(a)
  <2>1. Edge(d, "VALIDATING", Outcome[job[a].at])
    BY <1>7 DEF Edge, Documented!Diagram, CommitValidation, Outcome,
               Ownership, Fits
  <2> QED
    BY <1>1, <2>1, MovedAlone
<1>8. CASE PostExhausted(a)
  <2>1. Edge(d, "ACTIONED", "FAILED")
    BY <1>8 DEF Edge, Documented!Diagram, PostExhausted, Ownership, Fits
  <2> QED
    BY <1>1, <2>1, MovedAlone
<1>9. CASE a = "worker" /\ DeadLetter /\ loaded # "FAILED"
  <2>1. Edge(d, state[d], "FAILED")
    BY <1>9 DEF Edge, Documented!Diagram, DeadLetter, STUCK_STATES,
               Abandoned, Ownership, Fits
  <2> QED
    BY <1>1, <2>1, MovedAlone
<1> QED
  BY <1>2, <1>3, <1>4, <1>5, <1>6, <1>7, <1>8, <1>9

LEMMA ThreadMoves ==
  ASSUME IInv, Ownership, NEW t \in Threads,
         \/ \E y \in Readings : Correct(t, y)
         \/ RejectReview(t)
         \/ BeginAction(t)
  PROVE  Transition
<1> DEFINE d == On(t)
<1>1. d \in Docs /\ TypeOK
  BY DEF IInv, Custody, Busy, Correct, RejectReview, BeginAction
<1>2. CASE \E y \in Readings : Correct(t, y)
  <2>1. Edge(d, "NEEDS_REVIEW", "VALIDATED")
    BY <1>2 DEF Edge, Documented!Diagram, Correct, Untouched, Ownership, Fits
  <2> QED
    BY <1>1, <2>1, MovedAlone
<1>3. CASE RejectReview(t)
  <2>1. Edge(d, "NEEDS_REVIEW", "REJECTED")
    BY <1>3 DEF Edge, Documented!Diagram, RejectReview, Untouched,
               Ownership, Fits
  <2> QED
    BY <1>1, <2>1, MovedAlone
<1>4. CASE BeginAction(t)
  <2>1. Edge(d, "VALIDATED", "ACTIONED")
    BY <1>4 DEF Edge, Documented!Diagram, BeginAction, Ownership, Fits
  <2> QED
    BY <1>1, <2>1, MovedAlone
<1> QED
  BY <1>2, <1>3, <1>4

LEMMA UploadMoves ==
  ASSUME TypeOK, NEW d \in Docs, UploadReceive(d)
  PROVE  Transition
<1>1. Edge(d, "ABSENT", "RECEIVED")
  BY DEF Edge, Documented!Diagram, UploadReceive, Reading
<1> QED
  BY <1>1, MovedAlone

LEMMA NextIsTransition ==
  ASSUME OneOperator, IInv, Ownership, [Next]_vars
  PROVE  Transition
<1>1. CASE UNCHANGED vars
  BY <1>1, Unmoved DEF vars
<1>2. ASSUME NEW a \in Actors, AttemptExtraction(a) \/ AttemptValidation(a)
      PROVE  Transition
  <2>1. CASE ExtractionConflict(a) \/ RunValidation(a)
    BY <2>1, Unmoved DEF ExtractionConflict, RunValidation
  <2>2. ~CommitSettled(a)
    BY DEF CommitSettled, Ownership, Fits
  <2> QED
    BY <1>2, <2>1, <2>2, ActorMoves DEF AttemptExtraction, AttemptValidation
<1>3. ASSUME NEW a \in Actors, AttemptAction(a)
      PROVE  Transition
  <2>1. CASE PostRaises(a)
    BY <2>1, Unmoved DEF PostRaises
  <2> QED
    BY <1>3, <2>1, ActorMoves, PostSucceedsPays DEF AttemptAction
<1>4. CASE UploadSteps
  <2>1. CASE CheckHash
    BY <2>1, Unmoved DEF CheckHash
  <2> QED
    BY <1>2, <1>4, <2>1, ActorMoves DEF UploadSteps
<1>5. CASE NewUpload
  <2>1. ASSUME NEW d \in Docs, UploadFails(d)
        PROVE  Transition
    BY <2>1, Unmoved DEF UploadFails
  <2>2. ASSUME NEW d \in Docs, NEW k \in Keys, NEW f \in Files,
               UploadStart(d, k, f)
        PROVE  Transition
    BY <2>2, Unmoved DEF UploadStart
  <2> QED
    BY <1>5, <2>1, <2>2, UploadMoves DEF NewUpload, IInv
<1>6. ASSUME NEW t \in Threads, ReviewSteps(t)
      PROVE  Transition
  <2>1. CASE \/ CorrectRefused(t) \/ ApprovalConflict(t)
             \/ LoadExtraction(t)
    BY <2>1, Unmoved DEF CorrectRefused, ApprovalConflict, LoadExtraction
  <2>2. ASSUME NEW step, Assess(t, step)
        PROVE  Transition
    BY <2>2, Unmoved DEF Assess
  <2> QED
    BY <1>6, <2>1, <2>2, ThreadMoves, ApproveSigns, DeclineMoves
       DEF ReviewSteps
<1>7. ASSUME NEW t \in Threads, ActionSteps(t)
      PROVE  Transition
  <2>1. CASE CheckEligibility(t) \/ ActionConflict(t) \/ LoadArguments(t)
    BY <2>1, Unmoved DEF CheckEligibility, ActionConflict, LoadArguments
  <2> QED
    BY <1>3, <1>7, <2>1, ThreadMoves DEF ActionSteps
<1>8. ASSUME NEW t \in Threads, NewReview(t) \/ NewAction(t)
      PROVE  Transition
  BY <1>8, Unmoved
     DEF NewReview, NewAction, OpenReview, OpenApproval, OpenAction
<1>9. CASE WorkerSteps
  <2>1. ASSUME NEW d \in Docs, WorkerPoll(d) \/ WorkerNext(d)
        PROVE  Transition
    BY <2>1, Unmoved DEF WorkerPoll, WorkerNext
  <2>2. CASE \/ CountRetry \/ Resume \/ StorageFails
             \/ LoadRows \/ SelectFails
    BY <2>2, Unmoved
       DEF CountRetry, Resume, StorageFails, LoadRows, SelectFails
  <2>3. ~(DeadLetter /\ loaded = "FAILED")
    BY DEF DeadLetter, Ownership, Fits, Abandoned, STUCK_STATES
  <2> QED
    BY <1>2, <1>3, <1>9, <2>1, <2>2, <2>3, ActorMoves DEF WorkerSteps
<1>10. CASE Environment
  <2>1. ASSUME NEW a \in Actors, DatabaseFault(a)
        PROVE  Transition
    BY <2>1, Unmoved DEF DatabaseFault
  <2>2. CASE ServerCrash \/ WorkerCrash
    BY <2>2, Unmoved DEF ServerCrash, WorkerCrash
  <2> QED
    BY <1>5, <1>8, <1>10, <2>1, <2>2 DEF Environment
<1>11. ASSUME NEW d \in Docs, Age(d)
       PROVE  Transition
  BY <1>11, Unmoved DEF Age
<1>12. CASE WorkerStart
  BY <1>12, Unmoved DEF WorkerStart
<1> QED
  BY <1>1, <1>4, <1>6, <1>7, <1>9, <1>10, <1>11, <1>12 DEF Next, ThreadSteps

(* Every transition records the state the document was really in. *)
THEOREM HistoryIsAChain == OneOperator /\ Spec => AuditChain
<1> SUFFICES ASSUME OneOperator PROVE Spec => AuditChain
  OBVIOUS
<1>1. IInv /\ Ownership /\ [Next]_vars =>
        [\A d \in Docs : state'[d] # state[d] => audit'[d] = state[d]]_vars
  BY NextIsTransition DEF Transition
<1> QED
  BY <1>1, Invariance, OwnershipHolds, PTL DEF Spec, AuditChain

(* The pipeline implements the documented lifecycle, with what is signed   *)
(* and what is paid. *)
THEOREM LifecycleIsKept == OneOperator /\ Spec => FollowsLifecycle
<1> SUFFICES ASSUME OneOperator PROVE Spec => FollowsLifecycle
  OBVIOUS
<1>1. Init => Documented!Init
  BY DEF Init, TablesInit, Documented!Init, SignedAmount, PaidAmount
<1>2. IInv /\ Ownership /\ [Next]_vars
        => [Documented!Next]_(Documented!lifecycle)
  BY NextIsTransition DEF Transition
<1> QED
  BY <1>1, <1>2, Invariance, OwnershipHolds, PTL
     DEF Spec, FollowsLifecycle, Documented!Spec

-----------------------------------------------------------------------------
(* What is paid was signed.                                                *)

(* An action posts the row it found eligible, and a decision meets no      *)
(* entry in the ledger. *)
LEMMA PostSucceedsAsSigned ==
  ASSUME IInv, Ownership, PaidAsSigned, NEW a \in Actors, PostSucceeds(a)
  PROVE  PaidAsSigned'
<1> DEFINE d == On(a)
<1>1. d \in Docs
  BY DEF PostSucceeds, IInv, Custody, Busy
<1>2. state[d] = "ACTIONED"
  BY <1>1 DEF PostSucceeds, Ownership, Fits
<1>3. IF approval[d] = None
      THEN ~RequiresApproval(extraction[d].total)
      ELSE approval[d] = [amount   |-> extraction[d].total,
                          decision |-> "APPROVED"]
  BY <1>1, <1>2 DEF Ownership, Signatures, Eligible
<1>4. /\ ledger' = [ledger EXCEPT ![d] = extraction[d]]
      /\ UNCHANGED approval
      /\ ledger \in [Docs -> Readings \cup {None}]
  BY DEF PostSucceeds, IInv, TypeOK, TablesTypeOK, Ownership, Signatures
<1> QED
  BY <1>1, <1>3, <1>4 DEF PaidAsSigned, RequiresApproval

LEMMA DecisionAsSigned ==
  ASSUME IInv, Ownership, PaidAsSigned, NEW t \in Threads,
         Approve(t) \/ Decline(t)
  PROVE  PaidAsSigned'
<1> DEFINE d == On(t)
<1>1. d \in Docs /\ t \in Actors
  BY DEF Approve, Decline, IInv, Custody, Busy
<1>2. state[d] = "VALIDATED"
  BY <1>1 DEF Approve, Decline, Ownership, Fits
<1>3. ledger[d] = None
  BY <1>1, <1>2 DEF Ownership, PostedIsCompleted
<1>4. \A e \in Docs \ {d} : approval'[e] = approval[e]
  BY DEF Approve, Decline, IInv, TypeOK, TablesTypeOK
<1>5. UNCHANGED ledger
  BY DEF Approve, Decline, Untouched
<1> QED
  BY <1>3, <1>4, <1>5 DEF PaidAsSigned, RequiresApproval

(* Only an approver or an action touches what the two speak of. *)
LEMMA MoneySteps ==
  ASSUME [Next]_vars
  PROVE  \/ UNCHANGED <<approval, ledger>>
         \/ \E a \in Actors : PostSucceeds(a)
         \/ \E t \in Threads : Approve(t) \/ Decline(t)
<1> DEFINE Goal == \/ UNCHANGED <<approval, ledger>>
                   \/ \E a \in Actors : PostSucceeds(a)
                   \/ \E t \in Threads : Approve(t) \/ Decline(t)
<1>1. CASE UNCHANGED vars
  BY <1>1 DEF vars
<1>2. ASSUME NEW a \in Actors,
             \/ AttemptExtraction(a) \/ AttemptValidation(a)
             \/ AttemptAction(a)
      PROVE  Goal
  BY <1>2
     DEF AttemptExtraction, AttemptValidation, AttemptAction,
         ExtractionExhausted, ExtractionSucceeds, ExtractionConflict,
         BeginValidation, RunValidation, CommitValidation, CommitSettled,
         PostRaises, PostExhausted
<1>3. CASE UploadSteps
  BY <1>2, <1>3
     DEF UploadSteps, CheckHash, MarkHashDuplicate, BeginExtraction
<1>4. CASE NewUpload
  BY <1>4 DEF NewUpload, UploadStart, UploadFails, UploadReceive
<1>5. ASSUME NEW t \in Threads, ReviewSteps(t)
      PROVE  Goal
  BY <1>5
     DEF ReviewSteps, LoadExtraction, Correct, CorrectRefused, RejectReview,
         Assess, ApprovalConflict, Untouched
<1>6. ASSUME NEW t \in Threads, ActionSteps(t)
      PROVE  Goal
  BY <1>2, <1>6
     DEF ActionSteps, CheckEligibility, BeginAction, ActionConflict,
         LoadArguments
<1>7. ASSUME NEW t \in Threads, NewReview(t) \/ NewAction(t)
      PROVE  Goal
  BY <1>7 DEF NewReview, NewAction, OpenReview, OpenApproval, OpenAction
<1>8. CASE WorkerSteps
  BY <1>2, <1>8
     DEF WorkerSteps, WorkerPoll, WorkerNext, DeadLetter, CountRetry, Resume,
         LoadRows, StorageFails, SelectFails
<1>9. CASE Environment
  BY <1>4, <1>7, <1>9
     DEF Environment, DatabaseFault, ServerCrash, WorkerCrash
<1>10. CASE WorkerStart \/ \E d \in Docs : Age(d)
  BY <1>10 DEF WorkerStart, Age
<1> QED
  BY <1>1, <1>3, <1>5, <1>6, <1>8, <1>9, <1>10 DEF Next, ThreadSteps

(* With one operator at a time no action posts an amount the approver did  *)
(* not sign: the row cannot change between the approval, the check of the  *)
(* eligibility and the posting. *)
THEOREM PaymentsAreSigned == OneOperator /\ Spec => []PaidAsSigned
<1> SUFFICES ASSUME OneOperator PROVE Spec => []PaidAsSigned
  OBVIOUS
<1>1. Init => PaidAsSigned
  BY DEF Init, TablesInit, PaidAsSigned
<1>2. IInv /\ Ownership /\ PaidAsSigned /\ [Next]_vars => PaidAsSigned'
  <2>1. ASSUME UNCHANGED <<approval, ledger>>, PaidAsSigned
        PROVE  PaidAsSigned'
    BY <2>1 DEF PaidAsSigned, RequiresApproval
  <2> QED
    BY <2>1, MoneySteps, PostSucceedsAsSigned, DecisionAsSigned
<1> QED
  BY <1>1, <1>2, Invariance, OwnershipHolds, PTL DEF Spec

(* A declined payment reaches the ledger only if a second operator's       *)
(* action was already past the eligibility check. *)
THEOREM DeclinedIsNeverPosted == OneOperator /\ Spec => []DeclinedIsNotPosted
<1> SUFFICES ASSUME OneOperator PROVE Spec => []DeclinedIsNotPosted
  OBVIOUS
<1>1. PaidAsSigned => DeclinedIsNotPosted
  <2> SUFFICES ASSUME PaidAsSigned, NEW d \in Docs,
                      approval[d] # None, ledger[d] # None
               PROVE  approval[d].decision # "REJECTED"
    BY DEF DeclinedIsNotPosted
  <2>1. approval[d] = [amount   |-> ledger[d].total,
                       decision |-> "APPROVED"]
    BY DEF PaidAsSigned
  <2> QED
    BY <2>1
<1> QED
  BY <1>1, PaymentsAreSigned, PTL
=============================================================================
