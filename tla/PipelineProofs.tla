--------------------------- MODULE PipelineProofs ---------------------------
(***************************************************************************)
(* The guarantees that need no assumption on timing, proved for every      *)
(* number of documents, threads, retries and crashes, with slow handlers,  *)
(* database faults and outages of the ledger.  The invariant IInv of       *)
(* PipelineInvariant is inductive: every action keeps each of its five     *)
(* conjuncts, one lemma per action and one step per conjunct.              *)
(***************************************************************************)
EXTENDS PipelineInvariant, TLAPS

(* The control of an actor and the writing of a row are abbreviations      *)
(* every action is made of. *)
USE NoneIsNoValue, AmountsAreNumbers, RetriesAreBounded,
    ReadingsAreWellFormed, ActorsAreDistinct, CrashesAreBounded
USE DEF At, On, Take, Goto, Finish, Idle, Dead, Actors, LoopFree,
        Move, UnmovedRows, tables, processes, payables, Recovering

-----------------------------------------------------------------------------
(* The initial state satisfies the invariant: there is no row and no job. *)
LEMMA InitEstablishes == Init => IInv
<1> SUFFICES ASSUME Init PROVE IInv
  OBVIOUS
<1> USE DEF Init, TablesInit, ProcessesInit
<1>1. TypeOK
  BY DEF TypeOK, TablesTypeOK, ProcessesTypeOK, Steps, ActionStatus
<1>2. Custody
  BY DEF Custody, Busy, Past, Intake, Stored
<1>3. Loaded
  BY DEF Loaded, AfterExtraction
<1>4. Rows
  BY DEF Rows
<1>5. Spending
  BY DEF Spending, Past, Stored
<1> QED
  BY <1>1, <1>2, <1>3, <1>4, <1>5 DEF IInv

(* An error that escapes a handler clears the actor's job and no row. *)
LEMMA RaiseKeeps ==
  ASSUME IInv, NEW a \in Actors, Busy(a), Raise(a),
         loaded' \in {loaded, "ABSENT"}, UNCHANGED <<tables, batches, crashes>>
  PROVE  IInv'
<1>1. CASE a = "worker"
  <2>1. job' = [job EXCEPT ![a] = Dead] /\ stuck' = {}
    BY <1>1 DEF Raise
  <2>2. TypeOK'
    BY <1>1, <2>1 DEF IInv, TypeOK, TablesTypeOK, ProcessesTypeOK, Steps
  <2>3. Custody'
    BY <1>1, <2>1 DEF IInv, TypeOK, ProcessesTypeOK, Custody, Busy, Past,
                      Intake, Stored
  <2>4. Loaded'
    BY <1>1, <2>1 DEF IInv, TypeOK, ProcessesTypeOK, Loaded, AfterExtraction
  <2>5. Rows'
    BY DEF IInv, Rows
  <2>6. Spending'
    BY <1>1, <2>1 DEF IInv, TypeOK, ProcessesTypeOK, Spending, Past, Stored
  <2> QED
    BY <2>2, <2>3, <2>4, <2>5, <2>6 DEF IInv
<1>2. CASE a # "worker"
  <2>1. job' = [job EXCEPT ![a] = Idle] /\ stuck' = stuck
    BY <1>2 DEF Raise
  <2>2. TypeOK'
    BY <2>1 DEF IInv, TypeOK, TablesTypeOK, ProcessesTypeOK, Steps
  <2>3. Custody'
    BY <2>1 DEF IInv, TypeOK, ProcessesTypeOK, Custody, Busy, Past, Intake,
                Stored
  <2>4. Loaded'
    BY <1>2, <2>1 DEF IInv, TypeOK, ProcessesTypeOK, Loaded, AfterExtraction
  <2>5. Rows'
    BY DEF IInv, Rows
  <2>6. Spending'
    BY <1>2, <2>1 DEF IInv, TypeOK, ProcessesTypeOK, Spending, Past, Stored
  <2> QED
    BY <2>2, <2>3, <2>4, <2>5, <2>6 DEF IInv
<1> QED
  BY <1>1, <1>2

(* An actor that goes on with its document, having read what it needs and  *)
(* written nothing. *)
LEMMA ReadKeeps ==
  ASSUME IInv, NEW a \in Actors,
         NEW step \in Steps \ (Intake \cup {"idle", "dead", "recovering",
                                             "dispatch"}),
         NEW x \in Readings \cup {None},
         Busy(a), job[a].at \notin Intake,
         Take(a, On(a), step, x),
         loaded' \in DocumentState \cup {"ABSENT"},
         UNCHANGED <<tables, stuck, batches, crashes>>,
         step \in Recovering => a = "worker",
         step \in AfterExtraction => extraction[On(a)] # None,
         step \in {"begun", "posting"} => action[On(a)] # "NONE",
         step \in {"approving", "declining"} => x # None /\ x.total # None,
         step \in {"correcting", "posting"} => x # None
  PROVE  IInv'
<1>1. On(a) \in Docs
  BY DEF IInv, Custody
<1>2. TypeOK'
  BY <1>1 DEF IInv, TypeOK, TablesTypeOK, ProcessesTypeOK
<1>3. Custody'
  BY <1>1 DEF IInv, TypeOK, ProcessesTypeOK, Custody, Busy, Past, Intake,
              Stored
<1>4. Loaded'
  BY <1>1 DEF IInv, TypeOK, ProcessesTypeOK, Loaded
<1>5. Rows'
  BY DEF IInv, Rows
<1>6. Spending'
  BY DEF IInv, TypeOK, ProcessesTypeOK, Spending, Past, Stored
<1> QED
  BY <1>2, <1>3, <1>4, <1>5, <1>6 DEF IInv

(* A handler that ends without having written. *)
LEMMA FinishKeeps ==
  ASSUME IInv, NEW a \in Actors, Finish(a),
         UNCHANGED <<tables, stuck, loaded, batches, crashes>>
  PROVE  IInv'
<1>1. TypeOK'
  BY DEF IInv, TypeOK, TablesTypeOK, ProcessesTypeOK, Steps
<1>2. Custody'
  BY DEF IInv, TypeOK, ProcessesTypeOK, Custody, Busy, Past, Intake, Stored
<1>3. Loaded'
  BY DEF IInv, TypeOK, ProcessesTypeOK, Loaded, AfterExtraction
<1>4. Rows'
  BY DEF IInv, Rows
<1>5. Spending'
  BY DEF IInv, TypeOK, ProcessesTypeOK, Spending, Past, Stored
<1> QED
  BY <1>1, <1>2, <1>3, <1>4, <1>5 DEF IInv

-----------------------------------------------------------------------------
(* Ingestion: what each step of an upload leaves behind.                   *)

LEMMA UploadStartKeeps ==
  ASSUME IInv, NEW d \in Docs, NEW k \in Keys, NEW f \in Files, UploadStart(d,
         k, f)
  PROVE  IInv'
<1>1. TypeOK'
  BY DEF IInv, UploadStart, KeyTaken, TypeOK, TablesTypeOK, ProcessesTypeOK
<1>2. Custody'
  BY DEF IInv, UploadStart, KeyTaken, TypeOK, ProcessesTypeOK, Custody, Busy,
         Past, Intake, Stored
<1>3. Loaded'
  BY DEF IInv, UploadStart, KeyTaken, TypeOK, ProcessesTypeOK, Loaded
<1>4. Rows'
  BY DEF IInv, UploadStart, KeyTaken, Rows
<1>5. Spending'
  BY DEF IInv, UploadStart, KeyTaken, TypeOK, ProcessesTypeOK, Spending, Past,
         Stored
<1> QED
  BY <1>1, <1>2, <1>3, <1>4, <1>5 DEF IInv

LEMMA UploadFailsKeeps ==
  ASSUME IInv, NEW d \in Docs, UploadFails(d)
  PROVE  IInv'
<1>1. TypeOK'
  BY DEF IInv, UploadFails, Reading, TypeOK, TablesTypeOK, ProcessesTypeOK
<1>2. Custody'
  BY DEF IInv, UploadFails, Reading, TypeOK, ProcessesTypeOK, Custody, Busy,
         Past, Intake, Stored
<1>3. Loaded'
  BY DEF IInv, UploadFails, Reading, TypeOK, ProcessesTypeOK, Loaded
<1>4. Rows'
  BY DEF IInv, UploadFails, Reading, Rows
<1>5. Spending'
  BY DEF IInv, UploadFails, Reading, TypeOK, ProcessesTypeOK, Spending, Past,
         Stored
<1> QED
  BY <1>1, <1>2, <1>3, <1>4, <1>5 DEF IInv

LEMMA UploadReceiveKeeps ==
  ASSUME IInv, NEW d \in Docs, UploadReceive(d)
  PROVE  IInv'
<1>1. TypeOK'
  BY DEF IInv, UploadReceive, Reading, KeyTaken, TypeOK, TablesTypeOK,
         ProcessesTypeOK, Steps, DocumentState
<1>2. Custody'
  BY DEF IInv, UploadReceive, Reading, KeyTaken, TypeOK, TablesTypeOK,
         ProcessesTypeOK, Custody, Busy, Past, Intake, Stored
<1>3. Loaded'
  BY DEF IInv, UploadReceive, Reading, KeyTaken, TypeOK, ProcessesTypeOK,
         Loaded, AfterExtraction
<1>4. Rows'
  BY DEF IInv, UploadReceive, Reading, KeyTaken, Rows
<1>5. Spending'
  BY DEF IInv, UploadReceive, Reading, KeyTaken, TypeOK, ProcessesTypeOK,
         Spending, Past, Stored
<1> QED
  BY <1>1, <1>2, <1>3, <1>4, <1>5 DEF IInv

LEMMA CheckHashKeeps ==
  ASSUME IInv, CheckHash
  PROVE  IInv'
<1>1. TypeOK'
  BY DEF IInv, CheckHash, TypeOK, TablesTypeOK, ProcessesTypeOK, Steps
<1>2. Custody'
  BY DEF IInv, CheckHash, TypeOK, ProcessesTypeOK, Custody, Busy, Past,
         Intake, Stored
<1>3. Loaded'
  BY DEF IInv, CheckHash, TypeOK, ProcessesTypeOK, Loaded, AfterExtraction
<1>4. Rows'
  BY DEF IInv, CheckHash, Rows
<1>5. Spending'
  BY DEF IInv, CheckHash, TypeOK, ProcessesTypeOK, Spending, Past, Stored
<1> QED
  BY <1>1, <1>2, <1>3, <1>4, <1>5 DEF IInv

LEMMA MarkHashDuplicateKeeps ==
  ASSUME IInv, MarkHashDuplicate
  PROVE  IInv'
<1>1. TypeOK'
  BY DEF IInv, MarkHashDuplicate, TypeOK, TablesTypeOK, ProcessesTypeOK,
         Steps, DocumentState
<1>2. Custody'
  BY DEF IInv, MarkHashDuplicate, TypeOK, ProcessesTypeOK, Custody, Busy,
         Past, Intake, Stored
<1>3. Loaded'
  BY DEF IInv, MarkHashDuplicate, TypeOK, ProcessesTypeOK, Loaded,
         AfterExtraction
<1>4. Rows'
  BY DEF IInv, MarkHashDuplicate, Rows
<1>5. Spending'
  BY DEF IInv, MarkHashDuplicate, TypeOK, TablesTypeOK, ProcessesTypeOK,
         Spending, Past, Stored, Custody, Busy
<1> QED
  BY <1>1, <1>2, <1>3, <1>4, <1>5 DEF IInv

LEMMA BeginExtractionKeeps ==
  ASSUME IInv, BeginExtraction
  PROVE  IInv'
<1>1. TypeOK'
  BY DEF IInv, BeginExtraction, TypeOK, TablesTypeOK, ProcessesTypeOK, Steps,
         DocumentState, Custody, Busy
<1>2. Custody'
  BY DEF IInv, BeginExtraction, TypeOK, TablesTypeOK, ProcessesTypeOK,
         Custody, Busy, Past, Intake, Stored
<1>3. Loaded'
  BY DEF IInv, BeginExtraction, TypeOK, ProcessesTypeOK, Loaded,
         AfterExtraction
<1>4. Rows'
  BY DEF IInv, BeginExtraction, Rows
<1>5. Spending'
  BY DEF IInv, BeginExtraction, TypeOK, TablesTypeOK, ProcessesTypeOK,
         Spending, Past, Stored, Custody, Busy, Intake
<1> QED
  BY <1>1, <1>2, <1>3, <1>4, <1>5 DEF IInv

LEMMA ExtractionExhaustedKeeps ==
  ASSUME IInv, NEW a \in Actors, ExtractionExhausted(a)
  PROVE  IInv'
<1>1. TypeOK'
  BY DEF IInv, ExtractionExhausted, TypeOK, TablesTypeOK, ProcessesTypeOK,
         Steps, DocumentState
<1>2. Custody'
  BY DEF IInv, ExtractionExhausted, TypeOK, ProcessesTypeOK, Custody, Busy,
         Past, Intake, Stored
<1>3. Loaded'
  BY DEF IInv, ExtractionExhausted, TypeOK, ProcessesTypeOK, Loaded,
         AfterExtraction
<1>4. Rows'
  BY DEF IInv, ExtractionExhausted, Rows
<1>5. Spending'
  BY DEF IInv, ExtractionExhausted, TypeOK, TablesTypeOK, ProcessesTypeOK,
         Spending, Past, Stored, Custody, Busy
<1> QED
  BY <1>1, <1>2, <1>3, <1>4, <1>5 DEF IInv

LEMMA ExtractionSucceedsKeeps ==
  ASSUME IInv, NEW a \in Actors, NEW x \in Readings, ExtractionSucceeds(a, x)
  PROVE  IInv'
<1>1. TypeOK'
  BY DEF IInv, ExtractionSucceeds, TypeOK, TablesTypeOK, ProcessesTypeOK,
         Steps, DocumentState
<1>2. Custody'
  BY DEF IInv, ExtractionSucceeds, TypeOK, ProcessesTypeOK, Custody, Busy,
         Past, Intake, Stored
<1>3. Loaded'
  BY DEF IInv, ExtractionSucceeds, TypeOK, TablesTypeOK, ProcessesTypeOK,
         Loaded, AfterExtraction, Custody, Busy
<1>4. Rows'
  BY DEF IInv, ExtractionSucceeds, TypeOK, TablesTypeOK, Rows
<1>5. Spending'
  BY DEF IInv, ExtractionSucceeds, TypeOK, TablesTypeOK, ProcessesTypeOK,
         Spending, Past, Stored, Custody, Busy
<1> QED
  BY <1>1, <1>2, <1>3, <1>4, <1>5 DEF IInv

LEMMA ExtractionConflictKeeps ==
  ASSUME IInv, NEW a \in Actors, ExtractionConflict(a)
  PROVE  IInv'
  BY RaiseKeeps DEF ExtractionConflict, Busy

LEMMA BeginValidationKeeps ==
  ASSUME IInv, NEW a \in Actors, BeginValidation(a)
  PROVE  IInv'
<1>1. TypeOK'
  BY DEF IInv, BeginValidation, TypeOK, TablesTypeOK, ProcessesTypeOK, Steps,
         DocumentState
<1>2. Custody'
  BY DEF IInv, BeginValidation, TypeOK, ProcessesTypeOK, Custody, Busy, Past,
         Intake, Stored
<1>3. Loaded'
  BY DEF IInv, BeginValidation, TypeOK, ProcessesTypeOK, Loaded,
         AfterExtraction
<1>4. Rows'
  BY DEF IInv, BeginValidation, TypeOK, TablesTypeOK, ProcessesTypeOK, Rows,
         Loaded, AfterExtraction
<1>5. Spending'
  BY DEF IInv, BeginValidation, TypeOK, TablesTypeOK, ProcessesTypeOK,
         Spending, Past, Stored, Custody, Busy
<1> QED
  BY <1>1, <1>2, <1>3, <1>4, <1>5 DEF IInv

LEMMA RunValidationKeeps ==
  ASSUME IInv, NEW a \in Actors, RunValidation(a)
  PROVE  IInv'
<1> DEFINE x == IF job[a].seen = None THEN extraction[On(a)]
                                     ELSE job[a].seen
<1>1. Verdict(On(a), x) \in {"matched", "passed", "failed"}
  BY DEF Verdict
<1>2. /\ At(a, "validating")
      /\ \E step \in {"matched", "passed", "failed", "settled"} : Goto(a, step)
      /\ UNCHANGED <<tables, stuck, loaded, batches, crashes>>
  <2> HIDE DEF Goto
  <2> QED
    BY <1>1 DEF RunValidation
<1>3. PICK step \in {"matched", "passed", "failed", "settled"} :
        Goto(a, step)
  BY <1>2
<1>4. /\ Busy(a)
      /\ job[a].at \notin Intake
      /\ job[a].seen \in Readings \cup {None}
      /\ extraction[On(a)] # None
      /\ loaded \in DocumentState \cup {"ABSENT"}
  BY <1>2 DEF IInv, TypeOK, ProcessesTypeOK, Busy, Intake, Loaded,
              AfterExtraction
<1> QED
  BY <1>2, <1>3, <1>4, ReadKeeps DEF Steps, Intake

LEMMA CommitValidationKeeps ==
  ASSUME IInv, NEW a \in Actors, CommitValidation(a)
  PROVE  IInv'
<1>1. TypeOK'
  BY DEF IInv, CommitValidation, Outcome, TypeOK, TablesTypeOK,
         ProcessesTypeOK, Steps, DocumentState, Custody, Busy
<1>2. Custody'
  BY DEF IInv, CommitValidation, Outcome, TypeOK, ProcessesTypeOK, Custody,
         Busy, Past, Intake, Stored
<1>3. Loaded'
  BY DEF IInv, CommitValidation, Outcome, TypeOK, ProcessesTypeOK, Loaded,
         AfterExtraction
<1>4. Rows'
  BY DEF IInv, CommitValidation, Outcome, TypeOK, TablesTypeOK,
         ProcessesTypeOK, Rows, Loaded, AfterExtraction
<1>5. Spending'
  BY DEF IInv, CommitValidation, Outcome, TypeOK, TablesTypeOK,
         ProcessesTypeOK, Spending, Past, Stored, Custody, Busy
<1> QED
  BY <1>1, <1>2, <1>3, <1>4, <1>5 DEF IInv

LEMMA CommitSettledKeeps ==
  ASSUME IInv, NEW a \in Actors, CommitSettled(a)
  PROVE  IInv'
<1>1. TypeOK'
  BY DEF IInv, CommitSettled, Note, TypeOK, TablesTypeOK, ProcessesTypeOK,
         Steps, DocumentState, Custody, Busy
<1>2. Custody'
  BY DEF IInv, CommitSettled, Note, TypeOK, ProcessesTypeOK, Custody, Busy,
         Past, Intake, Stored
<1>3. Loaded'
  BY DEF IInv, CommitSettled, Note, TypeOK, ProcessesTypeOK, Loaded,
         AfterExtraction
<1>4. Rows'
  BY DEF IInv, CommitSettled, Note, Rows
<1>5. Spending'
  BY DEF IInv, CommitSettled, Note, TypeOK, ProcessesTypeOK, Spending, Past,
         Stored
<1> QED
  BY <1>1, <1>2, <1>3, <1>4, <1>5 DEF IInv

-----------------------------------------------------------------------------
(* HumanReview: the reviewer's and the approver's handlers.                *)

LEMMA OpenReviewKeeps ==
  ASSUME IInv, NEW t \in Threads, NEW d \in Docs,
         NEW step \in {"reviewing", "rejecting"}, OpenReview(t, d, step)
  PROVE  IInv'
<1>1. TypeOK'
  BY DEF IInv, OpenReview, TypeOK, TablesTypeOK, ProcessesTypeOK, Steps
<1>2. Custody'
  BY DEF IInv, OpenReview, TypeOK, ProcessesTypeOK, Custody, Busy, Past,
         Intake, Stored
<1>3. Loaded'
  BY DEF IInv, OpenReview, TypeOK, ProcessesTypeOK, Loaded, AfterExtraction
<1>4. Rows'
  BY DEF IInv, OpenReview, Rows
<1>5. Spending'
  BY DEF IInv, OpenReview, TypeOK, ProcessesTypeOK, Spending, Past, Stored
<1> QED
  BY <1>1, <1>2, <1>3, <1>4, <1>5 DEF IInv

LEMMA LoadExtractionKeeps ==
  ASSUME IInv, NEW t \in Threads, LoadExtraction(t)
  PROVE  IInv'
<1>1. CASE extraction[On(t)] = None
  BY <1>1, FinishKeeps DEF LoadExtraction
<1>2. CASE extraction[On(t)] # None
  <2>1. /\ Busy(t)
        /\ job[t].at \notin Intake
        /\ extraction[On(t)] \in Readings
        /\ loaded \in DocumentState \cup {"ABSENT"}
    BY <1>2 DEF IInv, TypeOK, TablesTypeOK, ProcessesTypeOK, LoadExtraction,
                Custody, Busy, Intake
  <2> QED
    BY <1>2, <2>1, ReadKeeps DEF LoadExtraction, Steps, Intake
<1> QED
  BY <1>1, <1>2

LEMMA CorrectKeeps ==
  ASSUME IInv, NEW t \in Threads, NEW y \in Readings, Correct(t, y)
  PROVE  IInv'
<1>1. /\ On(t) \in Docs
      /\ Past(On(t))
      /\ job[t].seen \in Readings
      /\ extraction[On(t)] \in Readings
  BY DEF IInv, TypeOK, TablesTypeOK, ProcessesTypeOK, Correct, Custody, Busy,
         Intake, Loaded, AfterExtraction
<1>2. PICK row \in Merged(extraction[On(t)], job[t].seen, y) :
        extraction' = [extraction EXCEPT ![On(t)] = row]
  BY DEF Correct
<1>3. row \in Readings
  BY <1>1, <1>2 DEF Merged, Readings
<1>4. row # None
  BY <1>3
<1>5. TypeOK'
  BY <1>1, <1>2, <1>3
     DEF IInv, Correct, Untouched, TypeOK, TablesTypeOK, ProcessesTypeOK,
         Steps, DocumentState, ActionStatus
<1>6. Custody'
  BY <1>1 DEF IInv, Correct, Untouched, TypeOK, ProcessesTypeOK, Custody,
              Busy, Past, Intake, Stored
<1>7. Loaded'
  BY <1>1, <1>2, <1>4
     DEF IInv, Correct, Untouched, TypeOK, TablesTypeOK, ProcessesTypeOK,
         Loaded, AfterExtraction
<1>8. Rows'
  BY <1>1, <1>2, <1>4
     DEF IInv, Correct, Untouched, TypeOK, TablesTypeOK, ProcessesTypeOK,
         Rows
<1>9. Spending'
  BY <1>1 DEF IInv, Correct, Untouched, TypeOK, TablesTypeOK,
              ProcessesTypeOK, Spending, Past, Stored
<1> QED
  BY <1>5, <1>6, <1>7, <1>8, <1>9 DEF IInv

LEMMA CorrectRefusedKeeps ==
  ASSUME IInv, NEW t \in Threads, CorrectRefused(t)
  PROVE  IInv'
BY FinishKeeps DEF CorrectRefused

LEMMA RejectReviewKeeps ==
  ASSUME IInv, NEW t \in Threads, RejectReview(t)
  PROVE  IInv'
<1>1. TypeOK'
  BY DEF IInv, RejectReview, Untouched, TypeOK, TablesTypeOK, ProcessesTypeOK,
         Steps, DocumentState
<1>2. Custody'
  BY DEF IInv, RejectReview, Untouched, TypeOK, ProcessesTypeOK, Custody,
         Busy, Past, Intake, Stored
<1>3. Loaded'
  BY DEF IInv, RejectReview, Untouched, TypeOK, ProcessesTypeOK, Loaded,
         AfterExtraction
<1>4. Rows'
  BY DEF IInv, RejectReview, Untouched, Rows
<1>5. Spending'
  BY DEF IInv, RejectReview, Untouched, TypeOK, TablesTypeOK, ProcessesTypeOK,
         Spending, Past, Stored, Custody, Busy
<1> QED
  BY <1>1, <1>2, <1>3, <1>4, <1>5 DEF IInv

LEMMA OpenApprovalKeeps ==
  ASSUME IInv, NEW t \in Threads, NEW d \in Docs, OpenApproval(t, d)
  PROVE  IInv'
<1>1. TypeOK'
  BY DEF IInv, OpenApproval, TypeOK, TablesTypeOK, ProcessesTypeOK, Steps
<1>2. Custody'
  BY DEF IInv, OpenApproval, TypeOK, ProcessesTypeOK, Custody, Busy, Past,
         Intake, Stored
<1>3. Loaded'
  BY DEF IInv, OpenApproval, TypeOK, ProcessesTypeOK, Loaded, AfterExtraction
<1>4. Rows'
  BY DEF IInv, OpenApproval, Rows
<1>5. Spending'
  BY DEF IInv, OpenApproval, TypeOK, ProcessesTypeOK, Spending, Past, Stored
<1> QED
  BY <1>1, <1>2, <1>3, <1>4, <1>5 DEF IInv

LEMMA AssessKeeps ==
  ASSUME IInv, NEW t \in Threads, NEW step \in {"approving", "declining"},
         Assess(t, step)
  PROVE  IInv'
<1>1. CASE ApprovalEligible(On(t))
  <2>1. /\ Busy(t)
        /\ job[t].at \notin Intake
        /\ extraction[On(t)] \in Readings
        /\ extraction[On(t)].total # None
        /\ loaded \in DocumentState \cup {"ABSENT"}
    BY <1>1 DEF IInv, TypeOK, TablesTypeOK, ProcessesTypeOK, Assess,
                ApprovalEligible, Custody, Busy, Intake
  <2> QED
    BY <1>1, <2>1, ReadKeeps
       DEF Assess, Steps, Intake, AfterExtraction
<1>2. CASE ~ApprovalEligible(On(t))
  BY <1>2, FinishKeeps DEF Assess
<1> QED
  BY <1>1, <1>2

LEMMA ApproveKeeps ==
  ASSUME IInv, NEW t \in Threads, Approve(t)
  PROVE  IInv'
<1>1. TypeOK'
  BY DEF IInv, Approve, Untouched, Readings, TypeOK, TablesTypeOK,
         ProcessesTypeOK, Steps, DocumentState, ActionStatus, Custody, Busy,
         Loaded, AfterExtraction
<1>2. Custody'
  BY DEF IInv, Approve, Untouched, Readings, TypeOK, ProcessesTypeOK, Custody,
         Busy, Past, Intake, Stored
<1>3. Loaded'
  BY DEF IInv, Approve, Untouched, Readings, TypeOK, ProcessesTypeOK, Loaded,
         AfterExtraction
<1>4. Rows'
  BY DEF IInv, Approve, Untouched, Readings, Rows
<1>5. Spending'
  BY DEF IInv, Approve, Untouched, Readings, TypeOK, ProcessesTypeOK,
         Spending, Past, Stored
<1> QED
  BY <1>1, <1>2, <1>3, <1>4, <1>5 DEF IInv

LEMMA DeclineKeeps ==
  ASSUME IInv, NEW t \in Threads, Decline(t)
  PROVE  IInv'
<1>1. TypeOK'
  BY DEF IInv, Decline, Untouched, Readings, TypeOK, TablesTypeOK,
         ProcessesTypeOK, Steps, DocumentState, ActionStatus, Custody, Busy,
         Loaded, AfterExtraction
<1>2. Custody'
  BY DEF IInv, Decline, Untouched, Readings, TypeOK, ProcessesTypeOK, Custody,
         Busy, Past, Intake, Stored
<1>3. Loaded'
  BY DEF IInv, Decline, Untouched, Readings, TypeOK, ProcessesTypeOK, Loaded,
         AfterExtraction
<1>4. Rows'
  BY DEF IInv, Decline, Untouched, Readings, Rows
<1>5. Spending'
  BY DEF IInv, Decline, Untouched, Readings, TypeOK, TablesTypeOK,
         ProcessesTypeOK, Spending, Past, Stored, Custody, Busy
<1> QED
  BY <1>1, <1>2, <1>3, <1>4, <1>5 DEF IInv

LEMMA ApprovalConflictKeeps ==
  ASSUME IInv, NEW t \in Threads, ApprovalConflict(t)
  PROVE  IInv'
  BY RaiseKeeps DEF ApprovalConflict, Busy

-----------------------------------------------------------------------------
(* Posting: the action handler and the accounting write.                   *)

LEMMA OpenActionKeeps ==
  ASSUME IInv, NEW t \in Threads, NEW d \in Docs, OpenAction(t, d)
  PROVE  IInv'
<1>1. TypeOK'
  BY DEF IInv, OpenAction, TypeOK, TablesTypeOK, ProcessesTypeOK, Steps
<1>2. Custody'
  BY DEF IInv, OpenAction, TypeOK, ProcessesTypeOK, Custody, Busy, Past,
         Intake, Stored
<1>3. Loaded'
  BY DEF IInv, OpenAction, TypeOK, ProcessesTypeOK, Loaded, AfterExtraction
<1>4. Rows'
  BY DEF IInv, OpenAction, Rows
<1>5. Spending'
  BY DEF IInv, OpenAction, TypeOK, ProcessesTypeOK, Spending, Past, Stored
<1> QED
  BY <1>1, <1>2, <1>3, <1>4, <1>5 DEF IInv

LEMMA CheckEligibilityKeeps ==
  ASSUME IInv, NEW t \in Threads, CheckEligibility(t)
  PROVE  IInv'
<1>1. CASE MayBegin(On(t))
  <2>1. /\ Busy(t)
        /\ job[t].at \notin Intake
        /\ job[t].seen \in Readings \cup {None}
        /\ extraction[On(t)] # None
        /\ loaded \in DocumentState \cup {"ABSENT"}
    BY <1>1 DEF IInv, TypeOK, ProcessesTypeOK, CheckEligibility, MayBegin,
                Busy, Intake
  <2> QED
    BY <1>1, <2>1, ReadKeeps DEF CheckEligibility, Steps, Intake
<1>2. CASE ~MayBegin(On(t))
  BY <1>2, FinishKeeps DEF CheckEligibility
<1> QED
  BY <1>1, <1>2

LEMMA BeginActionKeeps ==
  ASSUME IInv, NEW t \in Threads, BeginAction(t)
  PROVE  IInv'
<1>1. TypeOK'
  BY DEF IInv, BeginAction, TypeOK, TablesTypeOK, ProcessesTypeOK, Steps,
         DocumentState, ActionStatus
<1>2. Custody'
  BY DEF IInv, BeginAction, TypeOK, ProcessesTypeOK, Custody, Busy, Past,
         Intake, Stored
<1>3. Loaded'
  BY DEF IInv, BeginAction, TypeOK, TablesTypeOK, ProcessesTypeOK, Loaded,
         AfterExtraction, Custody, Busy
<1>4. Rows'
  BY DEF IInv, BeginAction, TypeOK, TablesTypeOK, ProcessesTypeOK, Rows,
         Loaded, AfterExtraction
<1>5. Spending'
  BY DEF IInv, BeginAction, TypeOK, TablesTypeOK, ProcessesTypeOK, Spending,
         Past, Stored, Custody, Busy
<1> QED
  BY <1>1, <1>2, <1>3, <1>4, <1>5 DEF IInv

LEMMA ActionConflictKeeps ==
  ASSUME IInv, NEW t \in Threads, ActionConflict(t)
  PROVE  IInv'
  BY RaiseKeeps DEF ActionConflict, Busy

LEMMA LoadArgumentsKeeps ==
  ASSUME IInv, NEW t \in Threads, LoadArguments(t)
  PROVE  IInv'
<1>1. /\ Busy(t)
      /\ job[t].at \notin Intake
      /\ extraction[On(t)] \in Readings
      /\ action[On(t)] # "NONE"
      /\ loaded \in DocumentState \cup {"ABSENT"}
  BY DEF IInv, TypeOK, TablesTypeOK, ProcessesTypeOK, LoadArguments, Custody,
         Busy, Intake, Loaded, AfterExtraction
<1> QED
  BY <1>1, ReadKeeps DEF LoadArguments, Steps, Intake

LEMMA PostSucceedsKeeps ==
  ASSUME IInv, NEW a \in Actors, PostSucceeds(a)
  PROVE  IInv'
<1>1. TypeOK'
  BY DEF IInv, PostSucceeds, TypeOK, TablesTypeOK, ProcessesTypeOK, Steps,
         DocumentState, ActionStatus
<1>2. Custody'
  BY DEF IInv, PostSucceeds, TypeOK, ProcessesTypeOK, Custody, Busy, Past,
         Intake, Stored
<1>3. Loaded'
  BY DEF IInv, PostSucceeds, TypeOK, ProcessesTypeOK, Loaded, AfterExtraction
<1>4. Rows'
  BY DEF IInv, PostSucceeds, TypeOK, TablesTypeOK, ProcessesTypeOK, Rows,
         Loaded, AfterExtraction
<1>5. Spending'
  BY DEF IInv, PostSucceeds, TypeOK, TablesTypeOK, ProcessesTypeOK, Spending,
         Past, Stored, Custody, Busy
<1> QED
  BY <1>1, <1>2, <1>3, <1>4, <1>5 DEF IInv

LEMMA PostRaisesKeeps ==
  ASSUME IInv, NEW a \in Actors, PostRaises(a)
  PROVE  IInv'
  BY RaiseKeeps DEF PostRaises, Busy

LEMMA PostExhaustedKeeps ==
  ASSUME IInv, NEW a \in Actors, PostExhausted(a)
  PROVE  IInv'
<1>1. TypeOK'
  BY DEF IInv, PostExhausted, TypeOK, TablesTypeOK, ProcessesTypeOK, Steps,
         DocumentState, ActionStatus
<1>2. Custody'
  BY DEF IInv, PostExhausted, TypeOK, ProcessesTypeOK, Custody, Busy, Past,
         Intake, Stored
<1>3. Loaded'
  BY DEF IInv, PostExhausted, TypeOK, ProcessesTypeOK, Loaded, AfterExtraction
<1>4. Rows'
  BY DEF IInv, PostExhausted, TypeOK, TablesTypeOK, Rows
<1>5. Spending'
  BY DEF IInv, PostExhausted, TypeOK, TablesTypeOK, ProcessesTypeOK, Spending,
         Past, Stored, Custody, Busy
<1> QED
  BY <1>1, <1>2, <1>3, <1>4, <1>5 DEF IInv

-----------------------------------------------------------------------------
(* Recovery: the worker.                                                   *)

LEMMA WorkerPollKeeps ==
  ASSUME IInv, NEW d \in Docs, WorkerPoll(d)
  PROVE  IInv'
<1>1. TypeOK'
  BY DEF IInv, WorkerPoll, Judge, FindStuck, STUCK_STATES, TypeOK,
         TablesTypeOK, ProcessesTypeOK, Steps
<1>2. Custody'
  BY DEF IInv, WorkerPoll, Judge, FindStuck, STUCK_STATES, TypeOK,
         ProcessesTypeOK, Custody, Busy, Past, Intake, Stored
<1>3. Loaded'
  BY DEF IInv, WorkerPoll, Judge, FindStuck, STUCK_STATES, TypeOK,
         TablesTypeOK, ProcessesTypeOK, Loaded, AfterExtraction
<1>4. Rows'
  BY DEF IInv, WorkerPoll, Judge, FindStuck, STUCK_STATES, Rows
<1>5. Spending'
  BY DEF IInv, WorkerPoll, Judge, FindStuck, STUCK_STATES, TypeOK,
         ProcessesTypeOK, Spending, Past, Stored
<1> QED
  BY <1>1, <1>2, <1>3, <1>4, <1>5 DEF IInv

LEMMA WorkerNextKeeps ==
  ASSUME IInv, NEW d \in Docs, WorkerNext(d)
  PROVE  IInv'
<1>1. TypeOK'
  BY DEF IInv, WorkerNext, Judge, TypeOK, TablesTypeOK, ProcessesTypeOK, Steps
<1>2. Custody'
  BY DEF IInv, WorkerNext, Judge, TypeOK, ProcessesTypeOK, Custody, Busy,
         Past, Intake, Stored
<1>3. Loaded'
  BY DEF IInv, WorkerNext, Judge, TypeOK, TablesTypeOK, ProcessesTypeOK,
         Loaded, AfterExtraction
<1>4. Rows'
  BY DEF IInv, WorkerNext, Judge, Rows
<1>5. Spending'
  BY DEF IInv, WorkerNext, Judge, TypeOK, ProcessesTypeOK, Spending, Past,
         Stored
<1> QED
  BY <1>1, <1>2, <1>3, <1>4, <1>5 DEF IInv

LEMMA DeadLetterKeeps ==
  ASSUME IInv, DeadLetter
  PROVE  IInv'
<1>1. PICK d \in Docs :
        /\ On("worker") = d
        /\ At("worker", "giving_up")
        /\ job' = [job EXCEPT !["worker"] = Idle]
        /\ loaded' = "ABSENT"
        /\ UNCHANGED <<upload, retry_count, extraction, payables, stuck,
                       batches, crashes>>
        /\ Past(d)
        /\ state' = state \/ state' = [state EXCEPT ![d] = "FAILED"]
        /\ audit' = [audit EXCEPT ![d] = loaded]
        /\ aged' \subseteq aged
  BY DEF IInv, DeadLetter, Note, TypeOK, ProcessesTypeOK, Custody, Busy,
         Intake
<1>2. TypeOK'
  BY <1>1 DEF IInv, TypeOK, TablesTypeOK, ProcessesTypeOK, Steps,
              DocumentState
<1>3. Custody'
  <2>1. \A e \in Docs : Past(e) => Past(e)'
    BY <1>1 DEF IInv, TypeOK, TablesTypeOK, Past
  <2>2. \A e \in Docs : ~Past(e) => state'[e] = state[e]
    BY <1>1 DEF IInv, TypeOK, TablesTypeOK, Past
  <2> QED
    BY <1>1, <2>1, <2>2 DEF IInv, TypeOK, TablesTypeOK, ProcessesTypeOK,
                            Custody, Busy, Intake, Stored, Past
<1>4. Loaded'
  BY <1>1 DEF IInv, TypeOK, ProcessesTypeOK, Loaded, AfterExtraction
<1>5. Rows'
  BY <1>1 DEF IInv, TypeOK, TablesTypeOK, Rows
<1>6. Spending'
  BY <1>1 DEF IInv, TypeOK, TablesTypeOK, ProcessesTypeOK, Spending, Past,
              Stored
<1> QED
  BY <1>2, <1>3, <1>4, <1>5, <1>6 DEF IInv

LEMMA CountRetryKeeps ==
  ASSUME IInv, CountRetry
  PROVE  IInv'
<1>1. TypeOK'
  BY DEF IInv, CountRetry, TypeOK, TablesTypeOK, ProcessesTypeOK, Steps,
         DocumentState, ActionStatus, Custody, Busy, Loaded, AfterExtraction
<1>2. Custody'
  BY DEF IInv, CountRetry, TypeOK, ProcessesTypeOK, Custody, Busy, Past,
         Intake, Stored
<1>3. Loaded'
  BY DEF IInv, CountRetry, TypeOK, ProcessesTypeOK, Loaded, AfterExtraction
<1>4. Rows'
  BY DEF IInv, CountRetry, Rows
<1>5. Spending'
  BY DEF IInv, CountRetry, TypeOK, TablesTypeOK, ProcessesTypeOK, Spending,
         Past, Stored, Custody, Busy
<1> QED
  BY <1>1, <1>2, <1>3, <1>4, <1>5 DEF IInv

LEMMA ResumeKeeps ==
  ASSUME IInv, Resume
  PROVE  IInv'
<1>1. PICK step \in {"idle", "extracting", "revalidating", "reposting"} :
        step = Resumption(state[On("worker")])
  BY DEF Resumption, STUCK_STATES
<1>2. On("worker") \in Docs /\ Past(On("worker"))
  BY DEF IInv, Custody, Busy, Resume, Intake
<1>3. TypeOK'
  BY <1>1, <1>2
     DEF IInv, Resume, TypeOK, TablesTypeOK, ProcessesTypeOK, Steps
<1>4. Custody'
  BY <1>1, <1>2
     DEF IInv, Resume, TypeOK, ProcessesTypeOK, Custody, Busy, Past, Intake,
         Stored
<1>5. Loaded'
  BY <1>1, <1>2
     DEF IInv, Resume, TypeOK, ProcessesTypeOK, Loaded, AfterExtraction
<1>6. Rows'
  BY DEF IInv, Resume, Rows
<1>7. Spending'
  BY <1>1, <1>2
     DEF IInv, Resume, TypeOK, TablesTypeOK, ProcessesTypeOK, Spending, Past,
         Stored
<1> QED
  BY <1>3, <1>4, <1>5, <1>6, <1>7 DEF IInv

LEMMA LoadRowsKeeps ==
  ASSUME IInv, LoadRows
  PROVE  IInv'
<1> DEFINE d == On("worker")
           found == Found[job["worker"].at]
<1>1. /\ job["worker"].at \in {"revalidating", "reposting"}
      /\ found \in {"VALIDATING", "ACTIONED"}
      /\ UNCHANGED <<tables, stuck, batches, crashes>>
  BY DEF LoadRows, Found
<1>2. /\ Busy("worker")
      /\ job["worker"].at \notin Intake
      /\ d \in Docs
      /\ job["worker"].seen \in Readings \cup {None}
      /\ extraction[d] \in Readings \cup {None}
      /\ loaded \in DocumentState \cup {"ABSENT"}
  BY <1>1 DEF IInv, TypeOK, TablesTypeOK, ProcessesTypeOK, Custody, Busy,
              Intake
<1>3. CASE RowsMissing(d, found)
  <2>1. Take("worker", d, "giving_up", job["worker"].seen)
    BY <1>3 DEF LoadRows
  <2>2. loaded' \in DocumentState
    BY <1>1, <1>3 DEF LoadRows, DocumentState
  <2>3. PICK step \in {"giving_up"} :
          Take("worker", d, step, job["worker"].seen)
    BY <2>1
  <2> QED
    BY <1>1, <1>2, <2>2, <2>3, ReadKeeps DEF Steps, Intake, AfterExtraction
<1>4. CASE ~RowsMissing(d, found)
  <2>1. /\ extraction[d] # None
        /\ found = "ACTIONED" => action[d] # "NONE"
    BY <1>1, <1>4 DEF RowsMissing
  <2>2. PICK step \in {"validating", "posting"} :
          /\ step = "posting" => found = "ACTIONED"
          /\ Take("worker", d, step, extraction[d])
    BY <1>1, <1>4 DEF LoadRows
  <2>3. UNCHANGED loaded
    BY <1>4 DEF LoadRows
  <2> QED
    BY <1>1, <1>2, <2>1, <2>2, <2>3, ReadKeeps DEF Steps, Intake
<1> QED
  BY <1>3, <1>4

LEMMA StorageFailsKeeps ==
  ASSUME IInv, StorageFails
  PROVE  IInv'
BY FinishKeeps DEF StorageFails

LEMMA SelectFailsKeeps ==
  ASSUME IInv, SelectFails
  PROVE  IInv'
BY FinishKeeps DEF SelectFails

-----------------------------------------------------------------------------
(* Processes: faults, crashes and time.                                    *)

LEMMA DatabaseFaultKeeps ==
  ASSUME IInv, NEW a \in Actors, DatabaseFault(a)
  PROVE  IInv'
  BY RaiseKeeps DEF DatabaseFault, Busy

LEMMA ServerCrashKeeps ==
  ASSUME IInv, ServerCrash
  PROVE  IInv'
<1>1. TypeOK'
  BY DEF IInv, ServerCrash, TypeOK, TablesTypeOK, ProcessesTypeOK, Steps
<1>2. Custody'
  BY DEF IInv, ServerCrash, TypeOK, ProcessesTypeOK, Custody, Busy, Past,
         Intake, Stored
<1>3. Loaded'
  BY DEF IInv, ServerCrash, TypeOK, ProcessesTypeOK, Loaded, AfterExtraction
<1>4. Rows'
  BY DEF IInv, ServerCrash, Rows
<1>5. Spending'
  BY DEF IInv, ServerCrash, TypeOK, ProcessesTypeOK, Spending, Past, Stored
<1> QED
  BY <1>1, <1>2, <1>3, <1>4, <1>5 DEF IInv

LEMMA WorkerCrashKeeps ==
  ASSUME IInv, WorkerCrash
  PROVE  IInv'
<1>1. TypeOK'
  BY DEF IInv, WorkerCrash, TypeOK, TablesTypeOK, ProcessesTypeOK, Steps
<1>2. Custody'
  BY DEF IInv, WorkerCrash, TypeOK, ProcessesTypeOK, Custody, Busy, Past,
         Intake, Stored
<1>3. Loaded'
  BY DEF IInv, WorkerCrash, TypeOK, ProcessesTypeOK, Loaded, AfterExtraction
<1>4. Rows'
  BY DEF IInv, WorkerCrash, Rows
<1>5. Spending'
  BY DEF IInv, WorkerCrash, TypeOK, ProcessesTypeOK, Spending, Past, Stored
<1> QED
  BY <1>1, <1>2, <1>3, <1>4, <1>5 DEF IInv

LEMMA WorkerStartKeeps ==
  ASSUME IInv, WorkerStart
  PROVE  IInv'
<1>1. TypeOK'
  BY DEF IInv, WorkerStart, TypeOK, TablesTypeOK, ProcessesTypeOK, Steps
<1>2. Custody'
  BY DEF IInv, WorkerStart, TypeOK, ProcessesTypeOK, Custody, Busy, Past,
         Intake, Stored
<1>3. Loaded'
  BY DEF IInv, WorkerStart, TypeOK, ProcessesTypeOK, Loaded, AfterExtraction
<1>4. Rows'
  BY DEF IInv, WorkerStart, Rows
<1>5. Spending'
  BY DEF IInv, WorkerStart, TypeOK, ProcessesTypeOK, Spending, Past, Stored
<1> QED
  BY <1>1, <1>2, <1>3, <1>4, <1>5 DEF IInv

LEMMA AgeKeeps ==
  ASSUME IInv, NEW d \in Docs, Age(d)
  PROVE  IInv'
<1>1. TypeOK'
  BY DEF IInv, Age, STUCK_STATES, TypeOK, TablesTypeOK, ProcessesTypeOK
<1>2. Custody'
  BY DEF IInv, Age, STUCK_STATES, TypeOK, ProcessesTypeOK, Custody, Busy,
         Past, Intake, Stored
<1>3. Loaded'
  BY DEF IInv, Age, STUCK_STATES, TypeOK, ProcessesTypeOK, Loaded
<1>4. Rows'
  BY DEF IInv, Age, STUCK_STATES, Rows
<1>5. Spending'
  BY DEF IInv, Age, STUCK_STATES, TypeOK, ProcessesTypeOK, Spending, Past,
         Stored
<1> QED
  BY <1>1, <1>2, <1>3, <1>4, <1>5 DEF IInv

-----------------------------------------------------------------------------
(* Every step of the system keeps the invariant. *)
LEMMA NextKeeps == IInv /\ [Next]_vars => IInv'
<1> SUFFICES ASSUME IInv, [Next]_vars PROVE IInv'
  OBVIOUS
<1>1. CASE UNCHANGED vars
  BY <1>1 DEF vars, IInv, TypeOK, TablesTypeOK, ProcessesTypeOK, Custody,
              Busy, Past, Stored, Loaded, Rows, Spending
<1>2. ASSUME NEW a \in Actors, AttemptExtraction(a) \/ AttemptValidation(a)
      PROVE  IInv'
  BY <1>2, ExtractionExhaustedKeeps, ExtractionSucceedsKeeps,
     ExtractionConflictKeeps, BeginValidationKeeps, RunValidationKeeps,
     CommitValidationKeeps, CommitSettledKeeps
     DEF AttemptExtraction, AttemptValidation
<1>3. ASSUME NEW a \in Actors, AttemptAction(a)
      PROVE  IInv'
  BY <1>3, PostSucceedsKeeps, PostRaisesKeeps, PostExhaustedKeeps
     DEF AttemptAction
<1>4. CASE UploadSteps
  BY <1>2, <1>4, CheckHashKeeps, MarkHashDuplicateKeeps, BeginExtractionKeeps
     DEF UploadSteps
<1>5. CASE NewUpload
  BY <1>5, UploadStartKeeps, UploadFailsKeeps, UploadReceiveKeeps
     DEF NewUpload
<1>6. ASSUME NEW t \in Threads, ReviewSteps(t)
      PROVE  IInv'
  BY <1>6, LoadExtractionKeeps, CorrectKeeps, CorrectRefusedKeeps,
     RejectReviewKeeps, AssessKeeps, ApproveKeeps, DeclineKeeps,
     ApprovalConflictKeeps DEF ReviewSteps
<1>7. ASSUME NEW t \in Threads, ActionSteps(t)
      PROVE  IInv'
  BY <1>3, <1>7, CheckEligibilityKeeps, BeginActionKeeps,
     ActionConflictKeeps, LoadArgumentsKeeps DEF ActionSteps
<1>8. ASSUME NEW t \in Threads, NewReview(t) \/ NewAction(t)
      PROVE  IInv'
  BY <1>8, OpenReviewKeeps, OpenApprovalKeeps, OpenActionKeeps
     DEF NewReview, NewAction
<1>9. CASE WorkerSteps
  BY <1>2, <1>3, <1>9, WorkerPollKeeps, WorkerNextKeeps, DeadLetterKeeps,
     CountRetryKeeps, ResumeKeeps, StorageFailsKeeps, LoadRowsKeeps,
     SelectFailsKeeps DEF WorkerSteps
<1>10. CASE Environment
  BY <1>5, <1>8, <1>10, DatabaseFaultKeeps, ServerCrashKeeps,
     WorkerCrashKeeps DEF Environment
<1> QED
  BY <1>1, <1>4, <1>6, <1>7, <1>9, <1>10, WorkerStartKeeps, AgeKeeps
     DEF Next, ThreadSteps

(* The invariant holds in every reachable state. *)
THEOREM Invariance == Spec => []IInv
<1>1. Init => IInv
  BY InitEstablishes
<1>2. IInv /\ [Next]_vars => IInv'
  BY NextKeeps
<1> QED
  BY <1>1, <1>2, PTL DEF Spec

-----------------------------------------------------------------------------
(* Every column and every actor holds a value of its type; the counters of *)
(* retries and of crashes stay within their bounds. *)
THEOREM TypeCorrect == Spec => []TypeOK
<1>1. IInv => TypeOK
  BY DEF IInv
<1> QED
  BY <1>1, Invariance, PTL

(* The dead-letter branches for missing rows in worker.py never run. *)
THEOREM RowsAlwaysPresent == Spec => []RowsPresent
<1>1. IInv => RowsPresent
  BY DEF IInv, Rows, RowsPresent, RowsMissing
<1> QED
  BY <1>1, Invariance, PTL

(* A write the worker resumes has not been posted. *)
THEOREM ResumedWriteIsNew == Spec => []ActionedIsUnposted
<1>1. IInv => ActionedIsUnposted
  BY DEF IInv, Rows, ActionedIsUnposted
<1> QED
  BY <1>1, Invariance, PTL

(* Action row, ledger entry and document state tell the same story. *)
THEOREM BooksAlwaysAgree == Spec => []BooksAgree
<1>1. IInv => BooksAgree
  BY DEF IInv, Rows, BooksAgree
<1> QED
  BY <1>1, Invariance, PTL

(* A document has one batch of calls and one more per retry of the worker. *)
THEOREM BatchesAreBounded == Spec => []BatchesBounded
<1>1. IInv => BatchesBounded
  BY DEF IInv, Spending, BatchesBounded
<1> QED
  BY <1>1, Invariance, PTL

(* One idempotency key has one document.                                   *)
THEOREM KeysAreUnique == Spec => []OneDocumentPerKey
<1>1. IInv => OneDocumentPerKey
  BY DEF IInv, Spending, OneDocumentPerKey
<1> QED
  BY <1>1, Invariance, PTL
=============================================================================
