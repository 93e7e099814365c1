---------------------------- MODULE TimelyProofs ----------------------------
(***************************************************************************)
(* The guarantees that hold while no handler outlasts the stuck timeout,   *)
(* proved for every number of documents, operators, retries and crashes:   *)
(* what has failed is not in the ledger, and no invoice is in it twice if  *)
(* reviewers keep the invoice and the total.  Timely is inductive together *)
(* with IInv, and OneOfEachInvoice together with both.  For the latter an  *)
(* action is harmless if it changes no reading and brings nobody closer to *)
(* posting; all are but the one that has read the other documents.         *)
(* The section on decisions needs no bound on time: what is posted was     *)
(* decided about also if handlers outlast the timeout.                     *)
(***************************************************************************)
EXTENDS Timely, PipelineProofs

(* The control of an actor and the writing of a row are abbreviations      *)
(* every action is made of. *)
USE NoneIsNoValue, RetriesAreBounded, ReadingsAreWellFormed, ActorsAreDistinct
USE DEF At, On, Take, Goto, Finish, Idle, Dead, Actors, LoopFree,
        Move, UnmovedRows, tables, processes, payables, Writing

-----------------------------------------------------------------------------
(* The initial state satisfies the invariant. *)
LEMMA TimelyInit == Init => Timely
<1> SUFFICES ASSUME Init PROVE Timely
  OBVIOUS
<1> USE DEF Init, TablesInit, ProcessesInit
<1>1. Places
  BY DEF Places, Busy
<1>2. Alone
  BY DEF Alone, Busy
<1>3. Abandoned
  BY DEF Abandoned
<1>4. PostedOnce
  BY DEF PostedOnce
<1> QED
  BY <1>1, <1>2, <1>3, <1>4 DEF Timely

-----------------------------------------------------------------------------
(* The actions. *)
LEMMA UploadStartTimely ==
  ASSUME ~SlowOwners, IInv, Timely, NEW d \in Docs, NEW k \in Keys,
         NEW f \in Files, UploadStart(d, k, f)
  PROVE  Timely'
<1>1. Places'
  BY DEF UploadStart, Busy, Timely, Places
<1>2. Alone'
  BY DEF UploadStart, Busy, Timely, Alone
<1>3. Abandoned'
  BY DEF UploadStart, Busy, Timely, Abandoned
<1>4. PostedOnce'
  BY DEF UploadStart, Timely, PostedOnce
<1> QED
  BY <1>1, <1>2, <1>3, <1>4 DEF Timely

LEMMA UploadFailsTimely ==
  ASSUME ~SlowOwners, IInv, Timely, NEW d \in Docs, UploadFails(d)
  PROVE  Timely'
<1>1. Places'
  BY DEF UploadFails, Busy, Timely, Places
<1>2. Alone'
  BY DEF UploadFails, Busy, Timely, Alone
<1>3. Abandoned'
  BY DEF UploadFails, Busy, Timely, Abandoned
<1>4. PostedOnce'
  BY DEF UploadFails, Timely, PostedOnce
<1> QED
  BY <1>1, <1>2, <1>3, <1>4 DEF Timely

LEMMA UploadReceiveTimely ==
  ASSUME ~SlowOwners, IInv, Timely, NEW d \in Docs, UploadReceive(d)
  PROVE  Timely'
<1>1. Places'
  BY DEF UploadReceive, Reading, IInv, Custody, Busy, Timely, Places, Past,
         OperatorWork
<1>2. Alone'
  BY DEF UploadReceive, Reading, IInv, Custody, Busy, Timely, Alone, Past
<1>3. Abandoned'
  BY DEF UploadReceive, Reading, IInv, Custody, Busy, Timely, Abandoned, Past
<1>4. PostedOnce'
  BY DEF UploadReceive, Reading, Timely, PostedOnce
<1> QED
  BY <1>1, <1>2, <1>3, <1>4 DEF Timely

LEMMA CheckHashTimely ==
  ASSUME ~SlowOwners, IInv, Timely, CheckHash
  PROVE  Timely'
<1>1. Places'
  BY DEF CheckHash, Busy, Timely, Places, OperatorWork
<1>2. Alone'
  BY DEF CheckHash, Busy, Timely, Alone
<1>3. Abandoned'
  BY DEF CheckHash, Busy, Timely, Abandoned
<1>4. PostedOnce'
  BY DEF CheckHash, Timely, PostedOnce
<1> QED
  BY <1>1, <1>2, <1>3, <1>4 DEF Timely

LEMMA MarkHashDuplicateTimely ==
  ASSUME ~SlowOwners, IInv, Timely, MarkHashDuplicate
  PROVE  Timely'
<1>1. Places'
  BY DEF MarkHashDuplicate, IInv, Custody, Busy, Timely, Places, Past, Intake
<1>2. Alone'
  BY DEF MarkHashDuplicate, Busy, Timely, Alone
<1>3. Abandoned'
  BY DEF MarkHashDuplicate, IInv, Custody, Busy, Timely, Abandoned, Past,
         Intake
<1>4. PostedOnce'
  BY DEF MarkHashDuplicate, IInv, Custody, Timely, PostedOnce, Intake
<1> QED
  BY <1>1, <1>2, <1>3, <1>4 DEF Timely

LEMMA BeginExtractionTimely ==
  ASSUME ~SlowOwners, IInv, Timely, BeginExtraction
  PROVE  Timely'
<1>1. Places'
  BY DEF BeginExtraction, IInv, TypeOK, TablesTypeOK, Custody, Busy, Timely,
         Places, Past, Intake, OperatorWork
<1>2. Alone'
  BY DEF BeginExtraction, Busy, Timely, Alone
<1>3. Abandoned'
  BY DEF BeginExtraction, IInv, Custody, Busy, Timely, Abandoned, Past, Intake
<1>4. PostedOnce'
  BY DEF BeginExtraction, IInv, Custody, Timely, PostedOnce, Intake
<1> QED
  BY <1>1, <1>2, <1>3, <1>4 DEF Timely

LEMMA ExtractionExhaustedTimely ==
  ASSUME ~SlowOwners, IInv, Timely, NEW a \in Actors, ExtractionExhausted(a)
  PROVE  Timely'
<1>1. Places'
  BY DEF ExtractionExhausted, IInv, TypeOK, ProcessesTypeOK, Busy, Timely,
         Places, Alone, OperatorWork
<1>2. Alone'
  BY DEF ExtractionExhausted, Busy, Timely, Alone
<1>3. Abandoned'
  BY DEF ExtractionExhausted, Busy, Timely, Abandoned, Alone
<1>4. PostedOnce'
  BY DEF ExtractionExhausted, Busy, Timely, PostedOnce, Places, Validated,
         OperatorWork
<1> QED
  BY <1>1, <1>2, <1>3, <1>4 DEF Timely

LEMMA ExtractionSucceedsTimely ==
  ASSUME ~SlowOwners, IInv, Timely, NEW a \in Actors, NEW x \in Readings,
         ExtractionSucceeds(a, x)
  PROVE  Timely'
<1>1. Places'
  BY DEF ExtractionSucceeds, IInv, TypeOK, ProcessesTypeOK, TablesTypeOK,
         Custody, Busy, Timely, Places, Alone, OperatorWork
<1>2. Alone'
  BY DEF ExtractionSucceeds, Busy, Timely, Alone
<1>3. Abandoned'
  BY DEF ExtractionSucceeds, Busy, Timely, Abandoned, Alone
<1>4. PostedOnce'
  BY DEF ExtractionSucceeds, Timely, PostedOnce, Places
<1> QED
  BY <1>1, <1>2, <1>3, <1>4 DEF Timely

LEMMA BeginValidationTimely ==
  ASSUME ~SlowOwners, IInv, Timely, NEW a \in Actors, BeginValidation(a)
  PROVE  Timely'
<1>1. Places'
  BY DEF BeginValidation, IInv, TypeOK, ProcessesTypeOK, TablesTypeOK, Custody,
         Busy, Timely, Places, Alone, OperatorWork
<1>2. Alone'
  BY DEF BeginValidation, Busy, Timely, Alone
<1>3. Abandoned'
  BY DEF BeginValidation, Busy, Timely, Abandoned, Places, STUCK_STATES
<1>4. PostedOnce'
  BY DEF BeginValidation, Timely, PostedOnce, Places
<1> QED
  BY <1>1, <1>2, <1>3, <1>4 DEF Timely

LEMMA RunValidationTimely ==
  ASSUME ~SlowOwners, IInv, Timely, NEW a \in Actors, RunValidation(a)
  PROVE  Timely'
<1> DEFINE x == IF job[a].seen = None THEN extraction[On(a)]
                                     ELSE job[a].seen
<1>1. PICK v \in {"matched", "passed", "failed"} :
        /\ At(a, "validating")
        /\ \/ Goto(a, v)
           \/ state[On(a)] = Outcome[v] /\ Goto(a, "settled")
        /\ UNCHANGED <<tables, stuck, loaded, batches, crashes>>
  <2>1. Verdict(On(a), x) \in {"matched", "passed", "failed"}
    BY Zenon DEF Verdict
  <2> HIDE DEF Goto
  <2> QED
    BY <2>1 DEF RunValidation
<1> USE DEF IInv, TypeOK, ProcessesTypeOK, Timely
<1>2. Goto(a, v)
  <2>1. state[On(a)] = "VALIDATING"
    BY <1>1 DEF Places
  <2>2. Outcome[v] # "VALIDATING"
    BY DEF Outcome
  <2> QED
    BY <1>1, <2>1, <2>2
<1>3. Places'
  BY <1>1, <1>2 DEF Places, OperatorWork, Busy
<1>4. Alone'
  BY <1>1, <1>2 DEF Alone, Busy
<1>5. Abandoned'
  BY <1>1, <1>2 DEF Abandoned, Busy
<1>6. PostedOnce'
  BY <1>1, <1>2 DEF PostedOnce
<1> QED
  BY <1>3, <1>4, <1>5, <1>6

LEMMA CommitValidationTimely ==
  ASSUME ~SlowOwners, IInv, Timely, NEW a \in Actors, CommitValidation(a)
  PROVE  Timely'
<1>1. Places'
  BY DEF CommitValidation, Outcome, IInv, TypeOK, ProcessesTypeOK, Busy,
         Timely, Places, Alone, PostedOnce, OperatorWork
<1>2. Alone'
  BY DEF CommitValidation, Busy, Timely, Alone
<1>3. Abandoned'
  BY DEF CommitValidation, Outcome, Busy, Timely, Abandoned, Alone
<1>4. PostedOnce'
  BY DEF CommitValidation, Outcome, Timely, PostedOnce, Places
<1> QED
  BY <1>1, <1>2, <1>3, <1>4 DEF Timely

LEMMA CommitSettledTimely ==
  ASSUME ~SlowOwners, IInv, Timely, NEW a \in Actors, CommitSettled(a)
  PROVE  Timely'
<1>1. Places'
  BY DEF CommitSettled, Timely, Places
<1>2. Alone'
  BY DEF CommitSettled, Busy, Timely, Alone
<1>3. Abandoned'
  BY DEF CommitSettled, Timely, Places
<1>4. PostedOnce'
  BY DEF CommitSettled, Timely, Places
<1> QED
  BY <1>1, <1>2, <1>3, <1>4 DEF Timely

LEMMA OpenReviewTimely ==
  ASSUME ~SlowOwners, IInv, Timely, NEW t \in Threads, NEW d \in Docs,
         NEW step \in {"reviewing", "rejecting"}, OpenReview(t, d, step)
  PROVE  Timely'
<1>1. Places'
  BY DEF OpenReview, Busy, Timely, Places, OperatorWork, Validated
<1>2. Alone'
  BY DEF OpenReview, IInv, TypeOK, ProcessesTypeOK, Custody, Busy, Timely,
         Alone, Places, OperatorWork, Intake, STUCK_STATES, Steps
<1>3. Abandoned'
  BY DEF OpenReview, Busy, Timely, Abandoned, STUCK_STATES
<1>4. PostedOnce'
  BY DEF OpenReview, Timely, PostedOnce
<1> QED
  BY <1>1, <1>2, <1>3, <1>4 DEF Timely

LEMMA LoadExtractionTimely ==
  ASSUME ~SlowOwners, IInv, Timely, NEW t \in Threads,
         LoadExtraction(t)
  PROVE  Timely'
<1> USE DEF IInv, TypeOK, ProcessesTypeOK, Timely, Busy
<1>1. Places'
  BY DEF LoadExtraction, Places, OperatorWork
<1>2. Alone'
  BY DEF LoadExtraction, Alone
<1>3. Abandoned'
  BY DEF LoadExtraction, Abandoned
<1>4. PostedOnce'
  BY DEF LoadExtraction, PostedOnce
<1> QED
  BY <1>1, <1>2, <1>3, <1>4

LEMMA CorrectTimely ==
  ASSUME ~SlowOwners, IInv, Timely, NEW t \in Threads, NEW y \in Readings,
         Correct(t, y)
  PROVE  Timely'
<1>1. Places'
  BY DEF Correct, Untouched, IInv, TypeOK, ProcessesTypeOK, TablesTypeOK,
         Custody, Busy, Timely, Places, Alone, Validated, OperatorWork
<1>2. Alone'
  BY DEF Correct, Busy, Timely, Alone
<1>3. Abandoned'
  BY DEF Correct, Untouched, Busy, Timely, Abandoned, Alone
<1>4. PostedOnce'
  BY DEF Correct, Untouched, Timely, PostedOnce
<1> QED
  BY <1>1, <1>2, <1>3, <1>4 DEF Timely

LEMMA CorrectRefusedTimely ==
  ASSUME ~SlowOwners, IInv, Timely, NEW t \in Threads, CorrectRefused(t)
  PROVE  Timely'
<1>1. Places'
  BY DEF CorrectRefused, Busy, Timely, Places
<1>2. Alone'
  BY DEF CorrectRefused, Busy, Timely, Alone
<1>3. Abandoned'
  BY DEF CorrectRefused, Busy, Timely, Abandoned
<1>4. PostedOnce'
  BY DEF CorrectRefused, Timely, PostedOnce
<1> QED
  BY <1>1, <1>2, <1>3, <1>4 DEF Timely

LEMMA RejectReviewTimely ==
  ASSUME ~SlowOwners, IInv, Timely, NEW t \in Threads, RejectReview(t)
  PROVE  Timely'
<1>1. Places'
  BY DEF RejectReview, Untouched, IInv, TypeOK, ProcessesTypeOK, TablesTypeOK,
         Custody, Busy, Timely, Places, Alone, Validated, OperatorWork
<1>2. Alone'
  BY DEF RejectReview, Busy, Timely, Alone
<1>3. Abandoned'
  BY DEF RejectReview, Untouched, Busy, Timely, Abandoned, Alone
<1>4. PostedOnce'
  BY DEF RejectReview, Untouched, Timely, PostedOnce
<1> QED
  BY <1>1, <1>2, <1>3, <1>4 DEF Timely

LEMMA OpenApprovalTimely ==
  ASSUME ~SlowOwners, IInv, Timely, NEW t \in Threads, NEW d \in Docs,
         OpenApproval(t, d)
  PROVE  Timely'
<1>1. Places'
  BY DEF OpenApproval, Busy, Timely, Places, OperatorWork, Validated
<1>2. Alone'
  BY DEF OpenApproval, IInv, TypeOK, ProcessesTypeOK, Custody, Busy, Timely,
         Alone, Places, OperatorWork, Intake, STUCK_STATES, Steps
<1>3. Abandoned'
  BY DEF OpenApproval, Busy, Timely, Abandoned, STUCK_STATES
<1>4. PostedOnce'
  BY DEF OpenApproval, Timely, PostedOnce
<1> QED
  BY <1>1, <1>2, <1>3, <1>4 DEF Timely

LEMMA AssessTimely ==
  ASSUME ~SlowOwners, IInv, Timely, NEW t \in Threads,
         NEW step \in {"approving", "declining"}, Assess(t, step)
  PROVE  Timely'
<1> USE DEF IInv, TypeOK, ProcessesTypeOK, Timely, Busy
<1>1. Places'
  BY DEF Assess, Places, OperatorWork
<1>2. Alone'
  BY DEF Assess, Alone
<1>3. Abandoned'
  BY DEF Assess, Abandoned
<1>4. PostedOnce'
  BY DEF Assess, PostedOnce
<1> QED
  BY <1>1, <1>2, <1>3, <1>4

LEMMA ApproveTimely ==
  ASSUME ~SlowOwners, IInv, Timely, NEW t \in Threads, Approve(t)
  PROVE  Timely'
<1>1. Places'
  BY DEF Approve, Untouched, Busy, Timely, Places
<1>2. Alone'
  BY DEF Approve, Busy, Timely, Alone
<1>3. Abandoned'
  BY DEF Approve, Untouched, Busy, Timely, Abandoned
<1>4. PostedOnce'
  BY DEF Approve, Untouched, Timely, PostedOnce
<1> QED
  BY <1>1, <1>2, <1>3, <1>4 DEF Timely

LEMMA DeclineTimely ==
  ASSUME ~SlowOwners, IInv, Timely, NEW t \in Threads, Decline(t)
  PROVE  Timely'
<1>1. Places'
  BY DEF Decline, Untouched, IInv, TypeOK, ProcessesTypeOK, TablesTypeOK,
         Custody, Busy, Timely, Places, Alone, Validated, OperatorWork
<1>2. Alone'
  BY DEF Decline, Busy, Timely, Alone
<1>3. Abandoned'
  BY DEF Decline, Untouched, Busy, Timely, Abandoned, Alone
<1>4. PostedOnce'
  BY DEF Decline, Untouched, Timely, PostedOnce
<1> QED
  BY <1>1, <1>2, <1>3, <1>4 DEF Timely

LEMMA OpenActionTimely ==
  ASSUME ~SlowOwners, IInv, Timely, NEW t \in Threads, NEW d \in Docs,
         OpenAction(t, d)
  PROVE  Timely'
<1>1. Places'
  BY DEF OpenAction, Busy, Timely, Places, OperatorWork, Validated
<1>2. Alone'
  BY DEF OpenAction, IInv, TypeOK, ProcessesTypeOK, Custody, Busy, Timely,
         Alone, Places, OperatorWork, Intake, STUCK_STATES, Steps
<1>3. Abandoned'
  BY DEF OpenAction, Busy, Timely, Abandoned, STUCK_STATES
<1>4. PostedOnce'
  BY DEF OpenAction, Timely, PostedOnce
<1> QED
  BY <1>1, <1>2, <1>3, <1>4 DEF Timely

LEMMA CheckEligibilityTimely ==
  ASSUME ~SlowOwners, IInv, Timely, NEW t \in Threads, CheckEligibility(t)
  PROVE  Timely'
<1>1. Places'
  BY DEF CheckEligibility, IInv, TypeOK, ProcessesTypeOK, Busy, Timely, Places,
         Past, Intake, STUCK_STATES, OperatorWork
<1>2. Alone'
  BY DEF CheckEligibility, IInv, TypeOK, ProcessesTypeOK, Busy, Timely, Alone
<1>3. Abandoned'
  BY DEF CheckEligibility, IInv, TypeOK, ProcessesTypeOK, Busy, Timely,
         Abandoned
<1>4. PostedOnce'
  BY DEF CheckEligibility, IInv, TypeOK, ProcessesTypeOK, Timely, PostedOnce
<1> QED
  BY <1>1, <1>2, <1>3, <1>4 DEF Timely

LEMMA BeginActionTimely ==
  ASSUME ~SlowOwners, IInv, Timely, NEW t \in Threads, BeginAction(t)
  PROVE  Timely'
<1>1. Places'
  BY DEF BeginAction, Busy, Timely, Places, STUCK_STATES, OperatorWork,
         Validated
<1>2. Alone'
  BY DEF BeginAction, Busy, Timely, Alone
<1>3. Abandoned'
  BY DEF BeginAction, Busy, Timely, Abandoned, Places, Validated, STUCK_STATES
<1>4. PostedOnce'
  BY DEF BeginAction, IInv, TypeOK, TablesTypeOK, Custody, Busy, Timely,
         PostedOnce
<1> QED
  BY <1>1, <1>2, <1>3, <1>4 DEF Timely

LEMMA LoadArgumentsTimely ==
  ASSUME ~SlowOwners, IInv, Timely, NEW t \in Threads,
         LoadArguments(t)
  PROVE  Timely'
<1> USE DEF IInv, TypeOK, ProcessesTypeOK, Timely, Busy
<1>1. Places'
  BY DEF LoadArguments, Places, OperatorWork
<1>2. Alone'
  BY DEF LoadArguments, Alone
<1>3. Abandoned'
  BY DEF LoadArguments, Abandoned
<1>4. PostedOnce'
  BY DEF LoadArguments, PostedOnce
<1> QED
  BY <1>1, <1>2, <1>3, <1>4

LEMMA PostSucceedsTimely ==
  ASSUME ~SlowOwners, IInv, Timely, NEW a \in Actors, PostSucceeds(a)
  PROVE  Timely'
<1>1. Places'
  BY DEF PostSucceeds, IInv, TypeOK, ProcessesTypeOK, Busy, Timely, Places,
         Alone, OperatorWork, Validated, Steps
<1>2. Alone'
  BY DEF PostSucceeds, Busy, Timely, Alone
<1>3. Abandoned'
  BY DEF PostSucceeds, Busy, Timely, Abandoned, Alone
<1>4. PostedOnce'
  BY DEF PostSucceeds, IInv, TypeOK, ProcessesTypeOK, TablesTypeOK, Timely,
         PostedOnce
<1> QED
  BY <1>1, <1>2, <1>3, <1>4 DEF Timely

LEMMA PostExhaustedTimely ==
  ASSUME ~SlowOwners, IInv, Timely, NEW a \in Actors, PostExhausted(a)
  PROVE  Timely'
<1>1. Places'
  BY DEF PostExhausted, IInv, TypeOK, ProcessesTypeOK, TablesTypeOK, Custody,
         Busy, Timely, Places, Alone, Validated, OperatorWork
<1>2. Alone'
  BY DEF PostExhausted, Busy, Timely, Alone
<1>3. Abandoned'
  BY DEF PostExhausted, Busy, Timely, Abandoned, Alone
<1>4. PostedOnce'
  BY DEF PostExhausted, IInv, TypeOK, ProcessesTypeOK, Timely, PostedOnce
<1> QED
  BY <1>1, <1>2, <1>3, <1>4 DEF Timely

LEMMA WorkerPollTimely ==
  ASSUME ~SlowOwners, IInv, Timely, NEW d \in Docs, WorkerPoll(d)
  PROVE  Timely'
<1>1. Places'
  BY DEF WorkerPoll, Judge, FindStuck, IInv, TypeOK, ProcessesTypeOK, Busy,
         Timely, Places, OperatorWork
<1>2. Alone'
  BY DEF WorkerPoll, Judge, FindStuck, IInv, TypeOK, ProcessesTypeOK, Busy,
         Timely, Alone, Abandoned
<1>3. Abandoned'
  BY DEF WorkerPoll, Judge, FindStuck, IInv, TypeOK, ProcessesTypeOK, Busy,
         Timely, Abandoned
<1>4. PostedOnce'
  BY DEF WorkerPoll, Judge, IInv, TypeOK, ProcessesTypeOK, Timely, PostedOnce
<1> QED
  BY <1>1, <1>2, <1>3, <1>4 DEF Timely

LEMMA WorkerNextTimely ==
  ASSUME ~SlowOwners, IInv, Timely, NEW d \in Docs, WorkerNext(d)
  PROVE  Timely'
<1>1. Places'
  BY DEF WorkerNext, Judge, IInv, TypeOK, ProcessesTypeOK, Busy, Timely,
         Places, Abandoned, OperatorWork
<1>2. Alone'
  BY DEF WorkerNext, Judge, IInv, TypeOK, ProcessesTypeOK, Busy, Timely, Alone,
         Abandoned
<1>3. Abandoned'
  BY DEF WorkerNext, Judge, IInv, TypeOK, ProcessesTypeOK, Busy, Timely,
         Abandoned
<1>4. PostedOnce'
  BY DEF WorkerNext, Judge, IInv, TypeOK, ProcessesTypeOK, Timely, PostedOnce
<1> QED
  BY <1>1, <1>2, <1>3, <1>4 DEF Timely

LEMMA DeadLetterTimely ==
  ASSUME ~SlowOwners, IInv, Timely, DeadLetter
  PROVE  Timely'
<1>1. Places'
  BY DEF DeadLetter, Note, IInv, TypeOK, ProcessesTypeOK, TablesTypeOK,
         Custody, Busy, Timely, Places, Alone
<1>2. Alone'
  BY DEF DeadLetter, Busy, Timely, Alone
<1>3. Abandoned'
  BY DEF DeadLetter, Note, IInv, TypeOK, ProcessesTypeOK, TablesTypeOK, Busy,
         Timely, Abandoned
<1>4. PostedOnce'
  BY DEF DeadLetter, Note, IInv, TypeOK, TablesTypeOK, Custody, Busy, Timely,
         PostedOnce, Places, Alone, STUCK_STATES
<1> QED
  BY <1>1, <1>2, <1>3, <1>4 DEF Timely

LEMMA CountRetryTimely ==
  ASSUME ~SlowOwners, IInv, Timely, CountRetry
  PROVE  Timely'
<1>1. Places'
  BY DEF CountRetry, Busy, Timely, Places, OperatorWork
<1>2. Alone'
  BY DEF CountRetry, Busy, Timely, Alone
<1>3. Abandoned'
  BY DEF CountRetry, Busy, Timely, Abandoned
<1>4. PostedOnce'
  BY DEF CountRetry, Timely, PostedOnce
<1> QED
  BY <1>1, <1>2, <1>3, <1>4 DEF Timely

LEMMA ResumeTimely ==
  ASSUME ~SlowOwners, IInv, Timely, Resume
  PROVE  Timely'
<1>1. Places'
  BY DEF Resume, Resumption, IInv, TypeOK, ProcessesTypeOK, Busy, Timely,
         Places, STUCK_STATES, OperatorWork
<1>2. Alone'
  BY DEF Resume, IInv, TypeOK, ProcessesTypeOK, Busy, Timely, Alone
<1>3. Abandoned'
  BY DEF Resume, Resumption, IInv, TypeOK, ProcessesTypeOK, Busy, Timely,
         Abandoned, STUCK_STATES
<1>4. PostedOnce'
  BY DEF Resume, Resumption, IInv, TypeOK, ProcessesTypeOK, Custody, Busy,
         Timely, PostedOnce, Alone, STUCK_STATES, Rows
<1> QED
  BY <1>1, <1>2, <1>3, <1>4 DEF Timely

LEMMA LoadRowsTimely ==
  ASSUME ~SlowOwners, IInv, Timely, LoadRows
  PROVE  Timely'
<1> DEFINE d == On("worker")
<1> USE DEF IInv, TypeOK, ProcessesTypeOK, Timely, Busy
<1>1. /\ job["worker"].at \in {"revalidating", "reposting"}
      /\ d \in Docs
      /\ state[d] = Found[job["worker"].at]
      /\ ~RowsMissing(d, state[d])
  BY DEF LoadRows, Found, Custody, Rows, Places, RowsMissing
<1>2. PICK step \in {"validating", "posting"} :
        /\ Take("worker", d, step, extraction[d])
        /\ step = "validating" => state[d] = "VALIDATING"
        /\ step = "posting" => state[d] = "ACTIONED"
  BY <1>1 DEF LoadRows, Found
<1>3. UNCHANGED <<tables, stuck, loaded>>
  BY <1>1 DEF LoadRows
<1>4. Places'
  BY <1>1, <1>2, <1>3 DEF Places, OperatorWork
<1>5. Alone'
  BY <1>1, <1>2, <1>3 DEF Alone
<1>6. Abandoned'
  BY <1>1, <1>2, <1>3 DEF Abandoned
<1>7. PostedOnce'
  BY <1>1, <1>2, <1>3 DEF PostedOnce, Alone, Rows
<1> QED
  BY <1>4, <1>5, <1>6, <1>7

LEMMA StorageFailsTimely ==
  ASSUME ~SlowOwners, IInv, Timely, StorageFails
  PROVE  Timely'
<1>1. Places'
  BY DEF StorageFails, Busy, Timely, Places
<1>2. Alone'
  BY DEF StorageFails, Busy, Timely, Alone
<1>3. Abandoned'
  BY DEF StorageFails, Busy, Timely, Abandoned
<1>4. PostedOnce'
  BY DEF StorageFails, Timely, PostedOnce
<1> QED
  BY <1>1, <1>2, <1>3, <1>4 DEF Timely

LEMMA SelectFailsTimely ==
  ASSUME ~SlowOwners, IInv, Timely, SelectFails
  PROVE  Timely'
<1>1. Places'
  BY DEF SelectFails, Busy, Timely, Places
<1>2. Alone'
  BY DEF SelectFails, Busy, Timely, Alone
<1>3. Abandoned'
  BY DEF SelectFails, Busy, Timely, Abandoned
<1>4. PostedOnce'
  BY DEF SelectFails, Timely, PostedOnce
<1> QED
  BY <1>1, <1>2, <1>3, <1>4 DEF Timely

LEMMA ServerCrashTimely ==
  ASSUME ~SlowOwners, IInv, Timely, ServerCrash
  PROVE  Timely'
<1>1. Places'
  BY DEF ServerCrash, Busy, Timely, Places
<1>2. Alone'
  BY DEF ServerCrash, Busy, Alone
<1>3. Abandoned'
  BY DEF ServerCrash, Busy, Timely, Abandoned
<1>4. PostedOnce'
  BY DEF ServerCrash, Timely, PostedOnce
<1> QED
  BY <1>1, <1>2, <1>3, <1>4 DEF Timely

LEMMA WorkerCrashTimely ==
  ASSUME ~SlowOwners, IInv, Timely, WorkerCrash
  PROVE  Timely'
<1>1. Places'
  BY DEF WorkerCrash, Busy, Timely, Places
<1>2. Alone'
  BY DEF WorkerCrash, Busy, Timely, Alone
<1>3. Abandoned'
  BY DEF WorkerCrash, IInv, TypeOK, ProcessesTypeOK, Busy, Timely, Abandoned
<1>4. PostedOnce'
  BY DEF WorkerCrash, Timely, PostedOnce
<1> QED
  BY <1>1, <1>2, <1>3, <1>4 DEF Timely

LEMMA WorkerStartTimely ==
  ASSUME ~SlowOwners, IInv, Timely, WorkerStart
  PROVE  Timely'
<1>1. Places'
  BY DEF WorkerStart, Busy, Timely, Places
<1>2. Alone'
  BY DEF WorkerStart, Busy, Timely, Alone
<1>3. Abandoned'
  BY DEF WorkerStart, Busy, Timely, Abandoned
<1>4. PostedOnce'
  BY DEF WorkerStart, Timely, PostedOnce
<1> QED
  BY <1>1, <1>2, <1>3, <1>4 DEF Timely

LEMMA AgeTimely ==
  ASSUME ~SlowOwners, IInv, Timely, NEW d \in Docs, Age(d)
  PROVE  Timely'
<1>1. Places'
  BY DEF Age, Busy, Timely, Places
<1>2. Alone'
  BY DEF Age, Busy, Timely, Alone
<1>3. Abandoned'
  BY DEF Age, Owned, Busy, Timely, Abandoned
<1>4. PostedOnce'
  BY DEF Age, Timely, PostedOnce
<1> QED
  BY <1>1, <1>2, <1>3, <1>4 DEF Timely

LEMMA RaiseTimely ==
  ASSUME ~SlowOwners, IInv, Timely, NEW a \in Actors, Busy(a), a # "worker"
         => loaded' = loaded, UNCHANGED <<tables, batches, crashes>>, Raise(a)
  PROVE  Timely'
<1>1. Places'
  BY DEF Raise, IInv, TypeOK, ProcessesTypeOK, Timely, Places, Busy
<1>2. Alone'
  BY DEF Raise, IInv, TypeOK, ProcessesTypeOK, Timely, Alone, Busy
<1>3. Abandoned'
  BY DEF Raise, IInv, TypeOK, ProcessesTypeOK, Timely, Abandoned, Busy
<1>4. PostedOnce'
  BY DEF Raise, IInv, TypeOK, ProcessesTypeOK, Timely, PostedOnce
<1> QED
  BY <1>1, <1>2, <1>3, <1>4 DEF Timely

(* A handler that raises changes its own job and, in the worker, the pass. *)
LEMMA RaisingTimely ==
  ASSUME ~SlowOwners, IInv, Timely, NEW a \in Actors,
         \/ DatabaseFault(a)
         \/ ExtractionConflict(a)
         \/ ApprovalConflict(a)
         \/ ActionConflict(a)
         \/ PostRaises(a)
  PROVE  Timely'
BY RaiseTimely
   DEF DatabaseFault, ExtractionConflict, ApprovalConflict, ActionConflict,
       PostRaises, Busy

-----------------------------------------------------------------------------
(* All steps. *)
LEMMA NextTimely ==
  ASSUME ~SlowOwners, IInv, Timely, [Next]_vars
  PROVE  Timely'
<1>1. CASE UNCHANGED vars
  BY <1>1 DEF vars, Timely, Places, Alone, Abandoned, PostedOnce, Busy
<1>2. ASSUME NEW a \in Actors, AttemptExtraction(a) \/ AttemptValidation(a)
      PROVE  Timely'
  BY <1>2, ExtractionExhaustedTimely, ExtractionSucceedsTimely, RaisingTimely,
     BeginValidationTimely, RunValidationTimely, CommitValidationTimely,
     CommitSettledTimely
     DEF AttemptExtraction, AttemptValidation
<1>3. ASSUME NEW a \in Actors, AttemptAction(a)
      PROVE  Timely'
  BY <1>3, PostSucceedsTimely, PostExhaustedTimely, RaisingTimely
     DEF AttemptAction
<1>4. CASE UploadSteps
  BY <1>2, <1>4, CheckHashTimely, MarkHashDuplicateTimely,
     BeginExtractionTimely DEF UploadSteps
<1>5. CASE NewUpload
  BY <1>5, UploadStartTimely, UploadFailsTimely, UploadReceiveTimely
     DEF NewUpload
<1>6. ASSUME NEW t \in Threads, ReviewSteps(t)
      PROVE  Timely'
  BY <1>6, LoadExtractionTimely, CorrectTimely, CorrectRefusedTimely,
     RejectReviewTimely, AssessTimely, ApproveTimely, DeclineTimely,
     RaisingTimely DEF ReviewSteps
<1>7. ASSUME NEW t \in Threads, ActionSteps(t)
      PROVE  Timely'
  BY <1>3, <1>7, CheckEligibilityTimely, BeginActionTimely,
     LoadArgumentsTimely, RaisingTimely DEF ActionSteps
<1>8. ASSUME NEW t \in Threads, NewReview(t) \/ NewAction(t)
      PROVE  Timely'
  BY <1>8, OpenReviewTimely, OpenApprovalTimely, OpenActionTimely
     DEF NewReview, NewAction
<1>9. CASE WorkerSteps
  BY <1>2, <1>3, <1>9, WorkerPollTimely, WorkerNextTimely, DeadLetterTimely,
     CountRetryTimely, ResumeTimely, LoadRowsTimely, StorageFailsTimely,
     SelectFailsTimely DEF WorkerSteps
<1>10. CASE Environment
  BY <1>5, <1>8, <1>10, RaisingTimely, ServerCrashTimely, WorkerCrashTimely
     DEF Environment
<1> QED
  BY <1>1, <1>4, <1>6, <1>7, <1>9, <1>10, WorkerStartTimely, AgeTimely
     DEF Next, ThreadSteps

(* While no handler outlasts the timeout, uploads and the worker have      *)
(* their document alone, and the handlers of several operators that race   *)
(* for one document post it at most once. *)
THEOREM TimelyHolds == ~SlowOwners /\ Spec => []Timely
<1> SUFFICES ASSUME ~SlowOwners PROVE Spec => []Timely
  OBVIOUS
<1>1. Init => Timely
  BY TimelyInit
<1>2. IInv /\ Timely /\ [Next]_vars => Timely'
  BY NextTimely
<1> QED
  BY <1>1, <1>2, Invariance, PTL DEF Spec

(* What is recorded as failed, as a document or as an action, has no entry *)
(* in the ledger, however many operators decide about one document. *)
THEOREM FailedIsNeverPosted == ~SlowOwners /\ Spec => []FailedIsUnposted
<1> SUFFICES ASSUME ~SlowOwners PROVE Spec => []FailedIsUnposted
  OBVIOUS
<1>1. Timely => FailedIsUnposted
  BY DEF Timely, PostedOnce, FailedIsUnposted
<1> QED
  BY <1>1, TimelyHolds, PTL


-----------------------------------------------------------------------------
(* What was read of a document, and what was decided about it, if the      *)
(* reviewers keep the invoice and the total.  Without a bound on how long  *)
(* a handler takes. *)

(* What was extracted keeps its invoice and its total. *)
ReadingsStay ==
  \A d \in Docs : extraction[d] # None =>
    /\ extraction'[d] # None
    /\ extraction'[d].invoice = extraction[d].invoice
    /\ extraction'[d].total = extraction[d].total

LEMMA MergedKeeps ==
  ASSUME IInv, KeepsIdentity, SeenAsExtracted, NEW t \in Threads,
         NEW y \in Readings, Correct(t, y)
  PROVE  /\ On(t) \in Docs
         /\ extraction[On(t)] # None
         /\ \E row \in Readings :
              /\ extraction' = [extraction EXCEPT ![On(t)] = row]
              /\ row.invoice = extraction[On(t)].invoice
              /\ row.total = extraction[On(t)].total
<1>1. /\ On(t) \in Docs
      /\ job[t].seen \in Readings
      /\ job[t].seen # None
      /\ extraction[On(t)] \in Readings
      /\ extraction[On(t)] # None
  BY DEF IInv, TypeOK, TablesTypeOK, ProcessesTypeOK, Custody, Busy, Loaded,
         AfterExtraction, Correct
<1>2. PICK row \in Merged(extraction[On(t)], job[t].seen, y) :
        extraction' = [extraction EXCEPT ![On(t)] = row]
  BY DEF Correct
<1>3. row \in Readings
  BY <1>1, <1>2 DEF Merged, Readings
<1>4. job[t].seen.invoice = y.invoice /\ job[t].seen.total = y.total
  BY DEF Correct, KeepsIdentity
<1>5. job[t].seen.total = extraction[On(t)].total
  BY <1>1 DEF SeenAsExtracted
<1>6. row.invoice = extraction[On(t)].invoice
  BY <1>2, <1>4 DEF Merged
<1>7. row.total = extraction[On(t)].total
  BY <1>2, <1>4, <1>5 DEF Merged
<1> QED
  BY <1>1, <1>2, <1>3, <1>6, <1>7

(* The steps that write no reading.                                        *)
LEMMA ReadingsChange ==
  ASSUME [Next]_vars
  PROVE  \/ UNCHANGED extraction
         \/ \E a \in Actors, x \in Readings : ExtractionSucceeds(a, x)
         \/ \E t \in Threads, y \in Readings : Correct(t, y)
<1>1. ASSUME NEW a \in Actors, AttemptExtraction(a)
      PROVE  \/ UNCHANGED extraction
             \/ \E x \in Readings : ExtractionSucceeds(a, x)
  BY <1>1 DEF AttemptExtraction, ExtractionExhausted, ExtractionConflict
<1>2. ASSUME NEW a \in Actors, AttemptValidation(a) \/ AttemptAction(a)
      PROVE  UNCHANGED extraction
  BY <1>2
     DEF AttemptValidation, BeginValidation, RunValidation, CommitValidation,
         CommitSettled, AttemptAction, PostSucceeds, PostRaises,
         PostExhausted
<1>3. CASE UploadSteps
  BY <1>1, <1>2, <1>3
     DEF UploadSteps, CheckHash, MarkHashDuplicate, BeginExtraction
<1>4. ASSUME NEW t \in Threads, ThreadSteps(t)
      PROVE  \/ UNCHANGED extraction
             \/ \E y \in Readings : Correct(t, y)
  BY <1>2, <1>4
     DEF ThreadSteps, ReviewSteps, LoadExtraction, CorrectRefused,
         RejectReview, Assess, Approve, Decline, ApprovalConflict,
         ActionSteps, CheckEligibility, BeginAction, ActionConflict,
         LoadArguments
<1>5. CASE WorkerSteps
  BY <1>1, <1>2, <1>5
     DEF WorkerSteps, WorkerPoll, WorkerNext, DeadLetter, CountRetry, Resume,
         StorageFails, LoadRows, SelectFails
<1>6. CASE WorkerStart \/ \E d \in Docs : Age(d)
  BY <1>6 DEF WorkerStart, Age
<1>7. CASE Environment
  BY <1>7
     DEF Environment, NewUpload, UploadStart, UploadFails, UploadReceive,
         NewReview, OpenReview, OpenApproval, NewAction, OpenAction,
         DatabaseFault, ServerCrash, WorkerCrash
<1>8. CASE UNCHANGED vars
  BY <1>8 DEF vars
<1> QED
  BY <1>3, <1>4, <1>5, <1>6, <1>7, <1>8 DEF Next

LEMMA ReadingsAreKept ==
  ASSUME IInv, KeepsIdentity, SeenAsExtracted, [Next]_vars
  PROVE  ReadingsStay
<1>1. CASE UNCHANGED extraction
  BY <1>1 DEF ReadingsStay
<1>2. ASSUME NEW a \in Actors, NEW x \in Readings, ExtractionSucceeds(a, x)
      PROVE  ReadingsStay
  BY <1>2 DEF ExtractionSucceeds, ReadingsStay, IInv, TypeOK, TablesTypeOK
<1>3. ASSUME NEW t \in Threads, NEW y \in Readings, Correct(t, y)
      PROVE  ReadingsStay
  BY <1>3, MergedKeeps DEF ReadingsStay, IInv, TypeOK, TablesTypeOK
<1> QED
  BY <1>1, <1>2, <1>3, ReadingsChange

(* Where the reading that an actor has loaded comes from.                  *)
SeenFresh(a) ==
  \/ job'[a].seen = None
  \/ job'[a].seen = job[a].seen /\ job'[a].doc = job[a].doc
  \/ /\ job'[a].doc \in Docs
     /\ job'[a].seen = extraction[job'[a].doc]

LEMMA SeenIsFresh ==
  ASSUME IInv, [Next]_vars, NEW b \in Actors
  PROVE  SeenFresh(b)
<1> USE DEF IInv, TypeOK, ProcessesTypeOK, SeenFresh
<1>1. ASSUME NEW a \in Actors, AttemptExtraction(a)
      PROVE  SeenFresh(b)
  BY <1>1
     DEF AttemptExtraction, ExtractionExhausted, ExtractionSucceeds,
         ExtractionConflict, Raise
<1>2. ASSUME NEW a \in Actors, AttemptValidation(a)
      PROVE  SeenFresh(b)
  BY <1>2
     DEF AttemptValidation, BeginValidation, RunValidation, CommitValidation,
         CommitSettled
<1>3. ASSUME NEW a \in Actors, AttemptAction(a)
      PROVE  SeenFresh(b)
  BY <1>3 DEF AttemptAction, PostSucceeds, PostRaises, PostExhausted, Raise
<1>4. CASE UploadSteps
  BY <1>1, <1>2, <1>4
     DEF UploadSteps, CheckHash, MarkHashDuplicate, BeginExtraction
<1>5. ASSUME NEW t \in Threads, ReviewSteps(t)
      PROVE  SeenFresh(b)
  <2>1. CASE \/ LoadExtraction(t)
             \/ \E step \in {"approving", "declining"} : Assess(t, step)
    BY <2>1 DEF LoadExtraction, Assess, Custody, Busy
  <2>2. CASE (\E y \in Readings : Correct(t, y)) \/ CorrectRefused(t)
    <3>1. Finish(t)
      BY <2>2 DEF Correct, CorrectRefused
    <3> QED
      BY <3>1
  <2>3. CASE RejectReview(t) \/ Approve(t) \/ Decline(t)
    BY <2>3 DEF RejectReview, Approve, Decline
  <2>4. CASE ApprovalConflict(t)
    BY <2>4 DEF ApprovalConflict, Raise
  <2> QED
    BY <1>5, <2>1, <2>2, <2>3, <2>4 DEF ReviewSteps
<1>6. ASSUME NEW t \in Threads, ActionSteps(t)
      PROVE  SeenFresh(b)
  BY <1>3, <1>6
     DEF ActionSteps, CheckEligibility, BeginAction, ActionConflict, Raise,
         LoadArguments, Custody, Busy
<1>7. CASE WorkerSteps
  <2>1. CASE \E d \in Docs : WorkerPoll(d) \/ WorkerNext(d)
    BY <2>1 DEF WorkerPoll, WorkerNext, Judge
  <2>2. CASE DeadLetter \/ CountRetry \/ Resume \/ StorageFails \/ SelectFails
    BY <2>2 DEF DeadLetter, CountRetry, Resume, StorageFails, SelectFails
  <2>3. CASE LoadRows
    BY <2>3 DEF LoadRows, Found, Custody, Busy
  <2> QED
    BY <1>1, <1>2, <1>3, <1>7, <2>1, <2>2, <2>3 DEF WorkerSteps
<1>8. CASE WorkerStart \/ \E d \in Docs : Age(d)
  BY <1>8 DEF WorkerStart, Age
<1>9. CASE Environment
  <2>1. CASE NewUpload
    BY <2>1 DEF NewUpload, UploadStart, UploadFails, UploadReceive
  <2>2. CASE \E t \in Threads : NewReview(t) \/ NewAction(t)
    BY <2>2 DEF NewReview, OpenReview, OpenApproval, NewAction, OpenAction
  <2>3. CASE \E a \in Actors : DatabaseFault(a)
    BY <2>3 DEF DatabaseFault, Raise
  <2>4. CASE ServerCrash \/ WorkerCrash
    BY <2>4 DEF ServerCrash, WorkerCrash
  <2> QED
    BY <1>9, <2>1, <2>2, <2>3, <2>4 DEF Environment
<1>10. CASE UNCHANGED vars
  BY <1>10 DEF vars
<1> QED
  BY <1>4, <1>5, <1>6, <1>7, <1>8, <1>9, <1>10 DEF Next, ThreadSteps

(* A reading read now is there, and its invoice and total stay.            *)
LEMMA NextSeen ==
  ASSUME IInv, KeepsIdentity, SeenAsExtracted, [Next]_vars
  PROVE  SeenAsExtracted'
<1>1. ReadingsStay
  BY ReadingsAreKept
<1>2. \A a \in Actors : SeenFresh(a)
  BY SeenIsFresh
<1> QED
  BY <1>1, <1>2 DEF SeenAsExtracted, ReadingsStay, SeenFresh

(* What is eligible stays so: totals and approvals are kept.               *)
LEMMA EligibleStays ==
  ASSUME ReadingsStay, NEW d \in Docs, extraction[d] # None, Eligible(d),
         approval[d] # None => approval'[d] # None
  PROVE  extraction'[d] # None /\ Eligible(d)'
BY DEF ReadingsStay, Eligible, RequiresApproval

Admitting == {"eligible", "reposting"} \cup Writing

(* What a step decides rests on the readings it finds.                     *)
Founded ==
  /\ \A d \in Docs :
       /\ approval[d] # None => approval'[d] # None
       /\ approval'[d] # None =>
            extraction[d] # None /\ approval'[d].amount = extraction[d].total
       /\ state'[d] = "ACTIONED" => extraction[d] # None /\ Eligible(d)
       /\ ledger'[d] # None =>
            /\ extraction[d] # None
            /\ ledger'[d].total = extraction[d].total
            /\ Eligible(d)
  /\ \A a \in Actors : job'[a].at \in Admitting =>
       /\ job'[a].doc \in Docs
       /\ extraction[job'[a].doc] # None
       /\ Eligible(job'[a].doc)

LEMMA FoundedIsDecided ==
  ASSUME ReadingsStay, Founded
  PROVE  Decided'
BY EligibleStays DEF Founded, Decided, ReadingsStay, Admitting

(* Steps that decide nothing.                                              *)
LEMMA QuietIsFounded ==
  ASSUME IInv, Decided, UNCHANGED <<approval, ledger>>,
         \A d \in Docs : state'[d] = "ACTIONED" => state[d] = "ACTIONED",
         \A a \in Actors : job'[a].at \in Admitting =>
           job[a].at \in Admitting /\ job'[a].doc = job[a].doc
  PROVE  Founded
BY DEF Founded, Decided, IInv, Rows, Custody, Busy, Admitting

LEMMA ApprovalIsFounded ==
  ASSUME IInv, SeenAsExtracted, Decided, NEW t \in Threads,
         Approve(t) \/ Decline(t)
  PROVE  Founded
<1> USE DEF IInv, TypeOK, TablesTypeOK, ProcessesTypeOK
<1>1. /\ On(t) \in Docs
      /\ approval[On(t)] = None
      /\ job[t].seen # None
      /\ extraction[On(t)] # None
      /\ job[t].seen.total = extraction[On(t)].total
  BY DEF Approve, Decline, Custody, Busy, Loaded, SeenAsExtracted
<1>2. \E decision \in {"APPROVED", "REJECTED"} :
        approval' = [approval EXCEPT ![On(t)] =
                       [amount |-> job[t].seen.total, decision |-> decision]]
  BY DEF Approve, Decline
<1>3. \A d \in Docs :
        /\ approval[d] # None => approval'[d] # None
        /\ approval'[d] # None =>
             extraction[d] # None /\ approval'[d].amount = extraction[d].total
  BY <1>1, <1>2 DEF Decided
<1>4. \A d \in Docs :
        /\ state'[d] = "ACTIONED" => state[d] = "ACTIONED"
        /\ ledger'[d] = ledger[d]
  BY <1>1 DEF Approve, Decline, Untouched
<1>5. \A a \in Actors : job'[a].at \in Admitting =>
        job[a].at \in Admitting /\ job'[a].doc = job[a].doc
  <2>1. Finish(t)
    BY DEF Approve, Decline
  <2> QED
    BY <2>1 DEF Admitting
<1>6. \A d \in Docs : state[d] = "ACTIONED" =>
        extraction[d] # None /\ Eligible(d)
  BY DEF Decided, Rows
<1>7. \A a \in Actors : job[a].at \in Admitting =>
        /\ On(a) \in Docs
        /\ extraction[On(a)] # None
        /\ Eligible(On(a))
  BY DEF Decided, Custody, Busy, Admitting
<1>8. \A d \in Docs : ledger[d] # None =>
        /\ extraction[d] # None
        /\ ledger[d].total = extraction[d].total
        /\ Eligible(d)
  BY DEF Decided
<1> QED
  BY <1>3, <1>4, <1>5, <1>6, <1>7, <1>8 DEF Founded

LEMMA ActionIsFounded ==
  ASSUME IInv, SeenAsExtracted, Decided, NEW t \in Threads,
         CheckEligibility(t) \/ BeginAction(t)
  PROVE  Founded
<1> USE DEF IInv, TypeOK, TablesTypeOK, ProcessesTypeOK
<1>1. CASE CheckEligibility(t)
  BY <1>1 DEF CheckEligibility, MayBegin, Founded, Decided, Rows, Custody,
              Busy, Admitting
<1>2. CASE BeginAction(t)
  BY <1>2 DEF BeginAction, Founded, Decided, Rows, Custody, Busy, Admitting
<1> QED
  BY <1>1, <1>2

LEMMA ResumptionIsFounded ==
  ASSUME IInv, Decided, Resume
  PROVE  Founded
<1> USE DEF IInv, TypeOK, TablesTypeOK, ProcessesTypeOK
<1>1. /\ On("worker") \in Docs
      /\ UNCHANGED tables
  BY DEF Resume, Custody, Busy
<1>2. \A a \in Actors \ {"worker"} : job'[a] = job[a]
  BY DEF Resume
<1>3. job'["worker"].at \in Admitting =>
        job'["worker"].doc = On("worker") /\ state[On("worker")] = "ACTIONED"
  BY DEF Resume, Resumption, STUCK_STATES, Admitting
<1> QED
  BY <1>1, <1>2, <1>3 DEF Founded, Decided, Rows, Custody, Busy, Admitting

LEMMA PostingIsFounded ==
  ASSUME IInv, SeenAsExtracted, Decided, NEW a \in Actors, PostSucceeds(a)
  PROVE  Founded
<1> USE DEF IInv, TypeOK, TablesTypeOK, ProcessesTypeOK
<1>1. /\ On(a) \in Docs
      /\ extraction[On(a)] # None
      /\ job[a].seen # None
      /\ job[a].seen.total = extraction[On(a)].total
      /\ Eligible(On(a))
  BY DEF PostSucceeds, Custody, Busy, Loaded, AfterExtraction,
         SeenAsExtracted, Decided
<1>2. ledger' = [ledger EXCEPT ![On(a)] = job[a].seen]
  BY DEF PostSucceeds
<1>3. \A d \in Docs : ledger'[d] # None =>
        /\ extraction[d] # None
        /\ ledger'[d].total = extraction[d].total
        /\ Eligible(d)
  BY <1>1, <1>2 DEF Decided
<1>4. \A d \in Docs : state'[d] = "ACTIONED" => state[d] = "ACTIONED"
  BY <1>1 DEF PostSucceeds
<1>5. \A b \in Actors : job'[b].at \in Admitting =>
        job[b].at \in Admitting /\ job'[b].doc = job[b].doc
  BY DEF PostSucceeds, Admitting
<1>6. UNCHANGED approval
  BY DEF PostSucceeds
<1> QED
  BY <1>3, <1>4, <1>5, <1>6
     DEF Founded, Decided, Rows, Custody, Busy, Admitting

LEMMA NextFounded ==
  ASSUME IInv, SeenAsExtracted, Decided, [Next]_vars
  PROVE  Founded
<1> USE QuietIsFounded
<1> USE DEF IInv, TypeOK, TablesTypeOK, ProcessesTypeOK, Admitting
<1>1. ASSUME NEW a \in Actors, AttemptExtraction(a)
      PROVE  Founded
  BY <1>1
     DEF AttemptExtraction, ExtractionExhausted, ExtractionSucceeds,
         ExtractionConflict, Raise
<1>2. ASSUME NEW a \in Actors, AttemptValidation(a)
      PROVE  Founded
  <2>1. CASE BeginValidation(a)
    BY <2>1 DEF BeginValidation
  <2>2. CASE RunValidation(a)
    BY <2>2 DEF RunValidation, Verdict
  <2>3. CASE CommitValidation(a)
    BY <2>3 DEF CommitValidation, Outcome
  <2>4. CASE CommitSettled(a)
    BY <2>4 DEF CommitSettled, Note
  <2> QED
    BY <1>2, <2>1, <2>2, <2>3, <2>4 DEF AttemptValidation
<1>3. ASSUME NEW a \in Actors, AttemptAction(a)
      PROVE  Founded
  BY <1>3, PostingIsFounded DEF AttemptAction, PostRaises, PostExhausted, Raise
<1>4. CASE UploadSteps
  <2>1. CASE CheckHash \/ MarkHashDuplicate \/ BeginExtraction
    BY <2>1 DEF CheckHash, MarkHashDuplicate, BeginExtraction
  <2> QED
    BY <1>1, <1>2, <1>4, <2>1 DEF UploadSteps
<1>5. ASSUME NEW t \in Threads, ReviewSteps(t)
      PROVE  Founded
  <2>1. CASE \/ LoadExtraction(t)
             \/ \E step \in {"approving", "declining"} : Assess(t, step)
    BY <2>1 DEF LoadExtraction, Assess
  <2>2. CASE (\E y \in Readings : Correct(t, y)) \/ CorrectRefused(t)
    <3>1. /\ Finish(t)
          /\ UNCHANGED <<approval, ledger>>
          /\ \/ UNCHANGED state
             \/ state' = [state EXCEPT ![On(t)] = "VALIDATED"]
      BY <2>2 DEF Correct, CorrectRefused, Untouched
    <3> QED
      BY <3>1
  <2>3. CASE RejectReview(t)
    BY <2>3 DEF RejectReview, Untouched
  <2>4. CASE ApprovalConflict(t)
    BY <2>4 DEF ApprovalConflict, Raise
  <2> QED
    BY <1>5, <2>1, <2>2, <2>3, <2>4, ApprovalIsFounded DEF ReviewSteps
<1>6. ASSUME NEW t \in Threads, ActionSteps(t)
      PROVE  Founded
  <2>1. CASE ActionConflict(t) \/ LoadArguments(t)
    BY <2>1 DEF ActionConflict, LoadArguments, Raise
  <2> QED
    BY <1>3, <1>6, <2>1, ActionIsFounded DEF ActionSteps
<1>7. CASE WorkerSteps
  <2>1. CASE \E d \in Docs : WorkerPoll(d) \/ WorkerNext(d)
    BY <2>1 DEF WorkerPoll, WorkerNext, Judge
  <2>2. CASE DeadLetter
    BY <2>2 DEF DeadLetter, Note
  <2>3. CASE CountRetry \/ StorageFails \/ SelectFails
    BY <2>3 DEF CountRetry, StorageFails, SelectFails
  <2>4. CASE LoadRows
    BY <2>4 DEF LoadRows, Found
  <2> QED
    BY <1>1, <1>2, <1>3, <1>7, <2>1, <2>2, <2>3, <2>4, ResumptionIsFounded
       DEF WorkerSteps
<1>8. CASE WorkerStart \/ \E d \in Docs : Age(d)
  BY <1>8 DEF WorkerStart, Age
<1>9. CASE Environment
  <2>1. CASE NewUpload
    BY <2>1 DEF NewUpload, UploadStart, UploadFails, UploadReceive
  <2>2. CASE \E t \in Threads : NewReview(t) \/ NewAction(t)
    BY <2>2 DEF NewReview, OpenReview, OpenApproval, NewAction, OpenAction
  <2>3. CASE \E a \in Actors : DatabaseFault(a)
    BY <2>3 DEF DatabaseFault, Raise
  <2>4. CASE ServerCrash \/ WorkerCrash
    BY <2>4 DEF ServerCrash, WorkerCrash
  <2> QED
    BY <1>9, <2>1, <2>2, <2>3, <2>4 DEF Environment
<1>10. CASE UNCHANGED vars
  BY <1>10 DEF vars
<1> QED
  BY <1>4, <1>5, <1>6, <1>7, <1>8, <1>9, <1>10 DEF Next, ThreadSteps

LEMMA DecidedInit == Init => SeenAsExtracted /\ Decided
BY DEF Init, TablesInit, ProcessesInit, SeenAsExtracted, Decided

LEMMA NextDecided ==
  ASSUME KeepsIdentity, IInv, SeenAsExtracted, Decided, [Next]_vars
  PROVE  (SeenAsExtracted /\ Decided)'
BY NextSeen, NextFounded, ReadingsAreKept, FoundedIsDecided

(* What handlers have loaded, approvers decided and the ledger holds is    *)
(* the total that was extracted, if the reviewers keep it, however slow    *)
(* the handlers are. *)
THEOREM DecisionsHold ==
  KeepsIdentity /\ Spec => [](SeenAsExtracted /\ Decided)
<1> SUFFICES ASSUME KeepsIdentity
             PROVE  Spec => [](SeenAsExtracted /\ Decided)
  OBVIOUS
<1>1. Init => SeenAsExtracted /\ Decided
  BY DecidedInit
<1>2. IInv /\ SeenAsExtracted /\ Decided /\ [Next]_vars
        => (SeenAsExtracted /\ Decided)'
  BY NextDecided
<1> QED
  BY <1>1, <1>2, Invariance, PTL DEF Spec

(* Nothing is posted at or above the threshold that was not put before an  *)
(* approver at that amount, however operators and the worker race. *)
THEOREM PostedWasDecided == KeepsIdentity /\ Spec => []PostedAsDecided
<1> SUFFICES ASSUME KeepsIdentity PROVE Spec => []PostedAsDecided
  OBVIOUS
<1>1. Decided => PostedAsDecided
  BY DEF Decided, Eligible, PostedAsDecided
<1> QED
  BY <1>1, DecisionsHold, PTL

-----------------------------------------------------------------------------
(* Steps that let nobody through the duplicate check.                      *)

(* The order of the two readings makes no difference, as in abs(x - y). *)
LEMMA SameInvoiceIsSymmetric ==
  ASSUME NEW x \in Readings, NEW y \in Readings, SameInvoice(x, y)
  PROVE  SameInvoice(y, x)
BY AmountsAreNumbers, RoundingIsSymmetric DEF SameInvoice, Within, Readings

(* Nobody comes closer to posting. *)
NoneAdmitted == \A d \in Docs : MayBePaid(d)' => MayBePaid(d)

Harmless == SameAsExtracted' /\ ReadingsStay /\ NoneAdmitted

(* What may be posted has been extracted, so a new reading is not of it.   *)
LEMMA PayableIsExtracted ==
  ASSUME IInv, Timely, SameAsExtracted, NEW d \in Docs, MayBePaid(d)
  PROVE  extraction[d] # None
BY DEF MayBePaid, IInv, Loaded, AfterExtraction, Rows, SameAsExtracted

(* A harmless step lets no second document of an invoice through.          *)
LEMMA HarmlessScreens ==
  ASSUME IInv, Timely, OneOfEachInvoice, Harmless
  PROVE  OneOfEachInvoice'
<1> SUFFICES ASSUME NEW d \in Docs, NEW e \in Docs, d # e,
                    extraction'[d] # None, extraction'[e] # None,
                    SameInvoice(extraction[d], extraction[e])',
                    MayBePaid(d)', MayBePaid(e)'
             PROVE  FALSE
  BY DEF OneOfEachInvoice, Harmless, Screened
<1>1. MayBePaid(d) /\ MayBePaid(e)
  BY DEF Harmless, NoneAdmitted
<1>2. extraction[d] # None /\ extraction[e] # None
  BY <1>1, PayableIsExtracted DEF OneOfEachInvoice
<1>3. SameInvoice(extraction[d], extraction[e])
  BY <1>2 DEF Harmless, ReadingsStay, SameInvoice
<1> QED
  BY <1>1, <1>2, <1>3 DEF OneOfEachInvoice, Screened

(* A step that only moves handlers, and none of them to the books.         *)
LEMMA IdlingIsHarmless ==
  ASSUME SameAsExtracted, UNCHANGED <<state, extraction, action, ledger>>,
         \A a \in Actors : job'[a].at \in {"passed", "failed"} \cup Writing =>
           job'[a] = job[a]
  PROVE  Harmless
BY DEF Harmless, SameAsExtracted, ReadingsStay, NoneAdmitted, MayBePaid

LEMMA UploadReceiveHarmless ==
  ASSUME IInv, Timely, SameAsExtracted, NEW d \in Docs, UploadReceive(d)
  PROVE  Harmless
<1> USE DEF IInv, TypeOK, ProcessesTypeOK, TablesTypeOK
<1>1. SameAsExtracted'
  BY DEF UploadReceive, Reading, SameAsExtracted
<1>2. ReadingsStay
  BY DEF UploadReceive, ReadingsStay
<1>3. NoneAdmitted
  BY DEF UploadReceive, NoneAdmitted, MayBePaid
<1> QED
  BY <1>1, <1>2, <1>3 DEF Harmless

LEMMA MarkHashDuplicateHarmless ==
  ASSUME IInv, Timely, SameAsExtracted, MarkHashDuplicate
  PROVE  Harmless
<1>1. SameAsExtracted'
  BY DEF MarkHashDuplicate, SameAsExtracted
<1>2. ReadingsStay
  BY DEF MarkHashDuplicate, ReadingsStay
<1>3. NoneAdmitted
  BY DEF MarkHashDuplicate, NoneAdmitted, MayBePaid
<1> QED
  BY <1>1, <1>2, <1>3 DEF Harmless

LEMMA BeginExtractionHarmless ==
  ASSUME IInv, Timely, SameAsExtracted, BeginExtraction
  PROVE  Harmless
<1>1. SameAsExtracted'
  BY DEF BeginExtraction, SameAsExtracted, IInv, Custody, Intake
<1>2. ReadingsStay
  BY DEF BeginExtraction, ReadingsStay
<1>3. NoneAdmitted
  BY DEF BeginExtraction, NoneAdmitted, MayBePaid
<1> QED
  BY <1>1, <1>2, <1>3 DEF Harmless

LEMMA ExtractionExhaustedHarmless ==
  ASSUME IInv, Timely, SameAsExtracted, NEW a \in Actors,
         ExtractionExhausted(a)
  PROVE  Harmless
<1>1. SameAsExtracted'
  BY DEF ExtractionExhausted, SameAsExtracted
<1>2. ReadingsStay
  BY DEF ExtractionExhausted, ReadingsStay
<1>3. NoneAdmitted
  BY DEF ExtractionExhausted, NoneAdmitted, MayBePaid
<1> QED
  BY <1>1, <1>2, <1>3 DEF Harmless

LEMMA ExtractionSucceedsHarmless ==
  ASSUME IInv, Timely, SameAsExtracted, NEW a \in Actors, NEW x \in Readings,
         ExtractionSucceeds(a, x)
  PROVE  Harmless
<1>1. SameAsExtracted'
  BY DEF ExtractionSucceeds, SameAsExtracted, IInv, TypeOK, TablesTypeOK
<1>2. ReadingsStay
  BY DEF ExtractionSucceeds, ReadingsStay
<1>3. NoneAdmitted
  BY DEF ExtractionSucceeds, NoneAdmitted, MayBePaid
<1> QED
  BY <1>1, <1>2, <1>3 DEF Harmless

LEMMA BeginValidationHarmless ==
  ASSUME IInv, Timely, SameAsExtracted, NEW a \in Actors, BeginValidation(a)
  PROVE  Harmless
<1>1. SameAsExtracted'
  BY DEF BeginValidation, SameAsExtracted
<1>2. ReadingsStay
  BY DEF BeginValidation, ReadingsStay
<1>3. NoneAdmitted
  BY DEF BeginValidation, NoneAdmitted, MayBePaid
<1> QED
  BY <1>1, <1>2, <1>3 DEF Harmless

LEMMA CommitValidationHarmless ==
  ASSUME IInv, Timely, SameAsExtracted, NEW a \in Actors, CommitValidation(a)
  PROVE  Harmless
<1>1. SameAsExtracted'
  BY DEF CommitValidation, Outcome, SameAsExtracted
<1>2. ReadingsStay
  BY DEF CommitValidation, ReadingsStay
<1>3. NoneAdmitted
  BY DEF CommitValidation, Outcome, NoneAdmitted, MayBePaid
<1> QED
  BY <1>1, <1>2, <1>3 DEF Harmless

LEMMA CorrectHarmless ==
  ASSUME IInv, Timely, SameAsExtracted, SeenAsExtracted, KeepsIdentity,
         NEW t \in Threads, NEW y \in Readings, Correct(t, y)
  PROVE  Harmless
<1> DEFINE d == On(t)
<1>1. /\ d \in Docs
      /\ extraction[d] # None
      /\ \E row \in Readings :
           /\ extraction' = [extraction EXCEPT ![d] = row]
           /\ row.invoice = extraction[d].invoice
           /\ row.total = extraction[d].total
  BY MergedKeeps
<1>2. PICK row \in Readings :
        /\ extraction' = [extraction EXCEPT ![d] = row]
        /\ row.invoice = extraction[d].invoice
        /\ row.total = extraction[d].total
  BY <1>1
<1>3. /\ row # None
      /\ state[d] \in Validated
      /\ state[d] = "FAILED" => action[d] # "NONE"
  BY DEF Correct, Timely, Places, Busy
<1>4. SameAsExtracted'
  BY <1>1, <1>2, <1>3
     DEF Correct, Untouched, SameAsExtracted, IInv, TypeOK, TablesTypeOK
<1>5. ReadingsStay
  BY <1>1, <1>2, <1>3 DEF ReadingsStay, IInv, TypeOK, TablesTypeOK
<1>6. NoneAdmitted
  BY <1>1, <1>3
     DEF Correct, Untouched, NoneAdmitted, MayBePaid, IInv, Validated, Rows
<1> QED
  BY <1>4, <1>5, <1>6 DEF Harmless

(* The duplicate check lets a document pass only if none of its invoice    *)
(* has passed before: the comparison of _attempt_validation.               *)
LEMMA RunValidationScreens ==
  ASSUME IInv, Timely, SeenAsExtracted, OneOfEachInvoice, NEW a \in Actors,
         RunValidation(a)
  PROVE  OneOfEachInvoice'
<1> DEFINE d == On(a)
           z == IF job[a].seen = None THEN extraction[d] ELSE job[a].seen
<1>1. PICK v \in {"matched", "passed", "failed"} :
        /\ v = Verdict(d, z)
        /\ At(a, "validating")
        /\ Goto(a, v) \/ Goto(a, "settled")
        /\ UNCHANGED <<tables, stuck, loaded, batches, crashes>>
  <2>1. Verdict(d, z) \in {"matched", "passed", "failed"}
    BY Zenon DEF Verdict
  <2> HIDE DEF Goto
  <2> QED
    BY <2>1 DEF RunValidation
<1>2. /\ d \in Docs
      /\ z.invoice = extraction[d].invoice
      /\ z.total = extraction[d].total
  BY <1>1 DEF IInv, Custody, Busy, SeenAsExtracted
<1> HIDE DEF z
<1>3. SameAsExtracted'
  BY <1>1 DEF OneOfEachInvoice, SameAsExtracted
<1>4. ASSUME NEW x \in Docs, MayBePaid(x)', ~MayBePaid(x)
      PROVE  x = d /\ v # "matched"
  BY <1>1, <1>4 DEF MayBePaid, IInv, TypeOK, ProcessesTypeOK
<1>5. ASSUME v # "matched", NEW e \in Docs \ {d},
             extraction[e] # None, MayBePaid(e)
      PROVE  ~SameInvoice(extraction[d], extraction[e])
  <2>1. ContentCandidates(d, z) = {}
    BY <1>1, <1>5, Zenon DEF Verdict
  <2>2. e \in Stored
    BY <1>5 DEF OneOfEachInvoice, SameAsExtracted, Stored
  <2>3. state[e] # "FAILED"
    BY <1>5 DEF MayBePaid, Timely, PostedOnce, Places
  <2>4. ~SameInvoice(z, extraction[e])
    BY <1>5, <2>1, <2>2, <2>3 DEF ContentCandidates
  <2> QED
    BY <1>2, <2>4 DEF SameInvoice
<1>6. Screened'
  <2> SUFFICES ASSUME NEW x \in Docs, NEW y \in Docs, x # y,
                      extraction[x] # None, extraction[y] # None,
                      SameInvoice(extraction[x], extraction[y]),
                      MayBePaid(x)', MayBePaid(y)'
               PROVE  FALSE
    BY <1>1 DEF Screened
  <2>1. ~MayBePaid(x) \/ ~MayBePaid(y)
    BY DEF OneOfEachInvoice, Screened
  <2>2. SameInvoice(extraction[y], extraction[x])
    BY SameInvoiceIsSymmetric DEF IInv, TypeOK, TablesTypeOK
  <2> QED
    BY <1>4, <1>5, <2>1, <2>2
<1> QED
  BY <1>3, <1>6 DEF OneOfEachInvoice

LEMMA RejectReviewHarmless ==
  ASSUME IInv, Timely, SameAsExtracted, NEW t \in Threads, RejectReview(t)
  PROVE  Harmless
<1>1. SameAsExtracted'
  BY DEF RejectReview, Untouched, SameAsExtracted, Places, Validated, IInv,
         Timely, Busy, Rows
<1>2. ReadingsStay
  BY DEF RejectReview, ReadingsStay
<1>3. NoneAdmitted
  BY DEF RejectReview, Untouched, NoneAdmitted, MayBePaid, Places, Validated,
         IInv, Timely, Busy, Rows
<1> QED
  BY <1>1, <1>2, <1>3 DEF Harmless

LEMMA DeclineHarmless ==
  ASSUME IInv, Timely, SameAsExtracted, NEW t \in Threads, Decline(t)
  PROVE  Harmless
<1>1. SameAsExtracted'
  BY DEF Decline, Untouched, SameAsExtracted, Places, Validated, IInv, Timely,
         Busy, Rows
<1>2. ReadingsStay
  BY DEF Decline, ReadingsStay
<1>3. NoneAdmitted
  BY DEF Decline, Untouched, NoneAdmitted, MayBePaid, Places, Validated, IInv,
         Timely, Busy, Rows
<1> QED
  BY <1>1, <1>2, <1>3 DEF Harmless

LEMMA BeginActionHarmless ==
  ASSUME IInv, Timely, SameAsExtracted, NEW t \in Threads, BeginAction(t)
  PROVE  Harmless
<1>1. SameAsExtracted'
  BY DEF BeginAction, SameAsExtracted, IInv, Loaded, AfterExtraction
<1>2. ReadingsStay
  BY DEF BeginAction, ReadingsStay
<1>3. NoneAdmitted
  BY DEF BeginAction, NoneAdmitted, MayBePaid, Places, Validated, IInv, Timely,
         Busy, Rows
<1> QED
  BY <1>1, <1>2, <1>3 DEF Harmless

LEMMA LoadArgumentsHarmless ==
  ASSUME IInv, Timely, SameAsExtracted, NEW t \in Threads, LoadArguments(t)
  PROVE  Harmless
<1>1. SameAsExtracted'
  BY DEF LoadArguments, SameAsExtracted
<1>2. ReadingsStay
  BY DEF LoadArguments, ReadingsStay
<1>3. NoneAdmitted
  BY DEF LoadArguments, NoneAdmitted, MayBePaid, IInv, TypeOK,
         ProcessesTypeOK
<1> QED
  BY <1>1, <1>2, <1>3 DEF Harmless

LEMMA PostSucceedsHarmless ==
  ASSUME IInv, Timely, SameAsExtracted, SeenAsExtracted, NEW a \in Actors,
         PostSucceeds(a)
  PROVE  Harmless
<1>1. /\ On(a) \in Docs
      /\ extraction[On(a)] # None
      /\ job[a].seen.invoice = extraction[On(a)].invoice
      /\ job[a].seen.total = extraction[On(a)].total
  BY DEF PostSucceeds, SeenAsExtracted, IInv, Loaded
<1>2. SameAsExtracted'
  BY <1>1
     DEF PostSucceeds, SameAsExtracted, PostedOnce, Timely, IInv, TypeOK,
         TablesTypeOK
<1>3. ReadingsStay
  BY DEF PostSucceeds, ReadingsStay
<1>4. NoneAdmitted
  BY DEF PostSucceeds, NoneAdmitted, MayBePaid
<1> QED
  BY <1>2, <1>3, <1>4 DEF Harmless

LEMMA PostExhaustedHarmless ==
  ASSUME IInv, Timely, SameAsExtracted, NEW a \in Actors, PostExhausted(a)
  PROVE  Harmless
<1>1. SameAsExtracted'
  BY DEF PostExhausted, SameAsExtracted, PostedOnce, Timely
<1>2. ReadingsStay
  BY DEF PostExhausted, ReadingsStay
<1>3. NoneAdmitted
  BY DEF PostExhausted, NoneAdmitted, MayBePaid
<1> QED
  BY <1>1, <1>2, <1>3 DEF Harmless

LEMMA DeadLetterHarmless ==
  ASSUME IInv, Timely, SameAsExtracted, DeadLetter
  PROVE  Harmless
<1>1. SameAsExtracted'
  BY DEF DeadLetter, Note, SameAsExtracted, IInv, TypeOK, TablesTypeOK
<1>2. ReadingsStay
  BY DEF DeadLetter, ReadingsStay
<1>3. NoneAdmitted
  BY DEF DeadLetter, Note, NoneAdmitted, MayBePaid, IInv, TypeOK, TablesTypeOK
<1> QED
  BY <1>1, <1>2, <1>3 DEF Harmless

LEMMA ResumeHarmless ==
  ASSUME IInv, Timely, SameAsExtracted, Resume
  PROVE  Harmless
<1>1. SameAsExtracted'
  BY DEF Resume, SameAsExtracted
<1>2. ReadingsStay
  BY DEF Resume, ReadingsStay
<1>3. NoneAdmitted
  BY DEF Resume, Resumption, NoneAdmitted, MayBePaid, STUCK_STATES, IInv,
         TypeOK, ProcessesTypeOK
<1> QED
  BY <1>1, <1>2, <1>3 DEF Harmless

LEMMA LoadRowsHarmless ==
  ASSUME IInv, Timely, SameAsExtracted, LoadRows
  PROVE  Harmless
<1>1. SameAsExtracted'
  BY DEF LoadRows, SameAsExtracted
<1>2. ReadingsStay
  BY DEF LoadRows, ReadingsStay
<1>3. At("worker", "reposting") => state[On("worker")] = "ACTIONED"
  BY DEF Timely, Places
<1>4. NoneAdmitted
  BY <1>3
     DEF LoadRows, Found, NoneAdmitted, MayBePaid, IInv, TypeOK,
         ProcessesTypeOK
<1> QED
  BY <1>1, <1>2, <1>4 DEF Harmless

(* The steps that touch neither a reading nor a state nor the books, and   *)
(* bring nobody closer to posting. *)
Raising(a) ==
  \/ DatabaseFault(a)
  \/ ExtractionConflict(a)
  \/ ApprovalConflict(a)
  \/ ActionConflict(a)
  \/ PostRaises(a)

Looking(t) ==
  \/ LoadExtraction(t)
  \/ CorrectRefused(t)
  \/ \E step \in {"approving", "declining"} : Assess(t, step)
  \/ Approve(t)
  \/ CheckEligibility(t)
  \/ NewReview(t)
  \/ NewAction(t)

Polling ==
  \/ \E d \in Docs : WorkerPoll(d) \/ WorkerNext(d) \/ Age(d)
  \/ CountRetry
  \/ StorageFails
  \/ SelectFails
  \/ ServerCrash
  \/ WorkerCrash
  \/ WorkerStart

Arriving ==
  \/ \E d \in Docs : UploadFails(d)
  \/ \E d \in Docs, k \in Keys, f \in Files : UploadStart(d, k, f)
  \/ CheckHash

LEMMA RaisingIsHarmless ==
  ASSUME IInv, SameAsExtracted, NEW a \in Actors, Raising(a)
  PROVE  Harmless
BY IdlingIsHarmless
   DEF IInv, TypeOK, ProcessesTypeOK, Raising, Raise, DatabaseFault,
       ExtractionConflict, ApprovalConflict, ActionConflict, PostRaises

LEMMA LookingIsHarmless ==
  ASSUME IInv, SameAsExtracted, NEW t \in Threads, Looking(t)
  PROVE  Harmless
<1> USE DEF IInv, TypeOK, ProcessesTypeOK
<1>1. CASE CorrectRefused(t) \/ Approve(t) \/ CheckEligibility(t)
  BY <1>1, IdlingIsHarmless
     DEF CorrectRefused, Approve, Untouched, CheckEligibility
<1>2. CASE NewReview(t) \/ NewAction(t)
  BY <1>2, IdlingIsHarmless
     DEF NewReview, NewAction, OpenReview, OpenApproval, OpenAction
<1>3. CASE \/ LoadExtraction(t)
           \/ \E step \in {"approving", "declining"} : Assess(t, step)
  BY <1>3, IdlingIsHarmless DEF LoadExtraction, Assess
<1> QED
  BY <1>1, <1>2, <1>3 DEF Looking

LEMMA PollingIsHarmless ==
  ASSUME IInv, SameAsExtracted, Polling
  PROVE  Harmless
<1> USE DEF IInv, TypeOK, ProcessesTypeOK
<1>1. ASSUME NEW d \in Docs, WorkerPoll(d) \/ WorkerNext(d) \/ Age(d)
      PROVE  Harmless
  BY <1>1, IdlingIsHarmless DEF WorkerPoll, WorkerNext, Judge, Age
<1>2. CASE CountRetry \/ StorageFails \/ SelectFails
  BY <1>2, IdlingIsHarmless DEF CountRetry, StorageFails, SelectFails
<1>3. CASE ServerCrash \/ WorkerCrash \/ WorkerStart
  BY <1>3, IdlingIsHarmless DEF ServerCrash, WorkerCrash, WorkerStart
<1> QED
  BY <1>1, <1>2, <1>3 DEF Polling

LEMMA ArrivingIsHarmless ==
  ASSUME IInv, SameAsExtracted, Arriving
  PROVE  Harmless
BY IdlingIsHarmless
   DEF IInv, TypeOK, ProcessesTypeOK, Arriving, UploadFails, UploadStart,
       CheckHash

(* All steps. *)
LEMMA NextScreens ==
  ASSUME KeepsIdentity, IInv, Timely, SeenAsExtracted, OneOfEachInvoice,
         [Next]_vars
  PROVE  OneOfEachInvoice'
<1> USE HarmlessScreens DEF OneOfEachInvoice
<1>1. CASE UNCHANGED vars
  BY <1>1, IdlingIsHarmless DEF vars
<1>2. ASSUME NEW a \in Actors, Raising(a)
      PROVE  OneOfEachInvoice'
  BY <1>2, RaisingIsHarmless
<1>3. ASSUME NEW a \in Actors, AttemptExtraction(a) \/ AttemptValidation(a)
      PROVE  OneOfEachInvoice'
  <2>1. ~CommitSettled(a)
    BY DEF CommitSettled, Timely, Places
  <2> QED
    BY <1>2, <1>3, <2>1, ExtractionExhaustedHarmless,
       ExtractionSucceedsHarmless, BeginValidationHarmless,
       CommitValidationHarmless, RunValidationScreens
       DEF AttemptExtraction, AttemptValidation, Raising
<1>4. ASSUME NEW a \in Actors, AttemptAction(a)
      PROVE  OneOfEachInvoice'
  BY <1>2, <1>4, PostSucceedsHarmless, PostExhaustedHarmless
     DEF AttemptAction, Raising
<1>5. CASE Arriving
  BY <1>5, ArrivingIsHarmless
<1>6. CASE UploadSteps
  BY <1>3, <1>5, <1>6, MarkHashDuplicateHarmless, BeginExtractionHarmless
     DEF UploadSteps, Arriving
<1>7. CASE NewUpload
  BY <1>5, <1>7, UploadReceiveHarmless DEF NewUpload, Arriving
<1>8. ASSUME NEW t \in Threads, Looking(t)
      PROVE  OneOfEachInvoice'
  BY <1>8, LookingIsHarmless
<1>9. ASSUME NEW t \in Threads, ReviewSteps(t)
      PROVE  OneOfEachInvoice'
  BY <1>2, <1>8, <1>9, CorrectHarmless, RejectReviewHarmless, DeclineHarmless
     DEF ReviewSteps, Raising, Looking
<1>10. ASSUME NEW t \in Threads, ActionSteps(t)
       PROVE  OneOfEachInvoice'
  BY <1>2, <1>4, <1>8, <1>10, BeginActionHarmless, LoadArgumentsHarmless
     DEF ActionSteps, Raising, Looking
<1>11. CASE Polling
  BY <1>11, PollingIsHarmless
<1>12. CASE WorkerSteps
  BY <1>3, <1>4, <1>11, <1>12, DeadLetterHarmless, ResumeHarmless,
     LoadRowsHarmless DEF WorkerSteps, Polling
<1>13. CASE Environment
  BY <1>2, <1>7, <1>8, <1>11, <1>13 DEF Environment, Raising, Looking, Polling
<1> QED
  BY <1>1, <1>6, <1>9, <1>10, <1>11, <1>12, <1>13
     DEF Next, ThreadSteps, Polling

(* No document, no invoice. *)
LEMMA OneOfEachInit == Init => OneOfEachInvoice
BY DEF Init, TablesInit, OneOfEachInvoice, SameAsExtracted, Screened

(* Two documents of one invoice are not both posted.                       *)
LEMMA PayableOnce ==
  ASSUME OneOfEachInvoice, NEW d \in Docs, NEW e \in Docs
  PROVE  ~PaidTwice(d, e)
<1> SUFFICES ASSUME PaidTwice(d, e) PROVE FALSE
  OBVIOUS
<1>1. SameInvoice(extraction[d], extraction[e])
  BY DEF PaidTwice, OneOfEachInvoice, SameAsExtracted, SameInvoice
<1>2. MayBePaid(d) /\ MayBePaid(e)
  BY DEF PaidTwice, MayBePaid
<1> QED
  BY <1>1, <1>2 DEF PaidTwice, OneOfEachInvoice, SameAsExtracted, Screened

(* No invoice is posted twice, through however many documents it comes and *)
(* however many operators decide about them, while no handler outlasts the *)
(* timeout and the reviewers keep the invoice and the total.               *)
THEOREM NoInvoiceIsPaidTwice ==
  ~SlowOwners /\ KeepsIdentity /\ Spec => []NoDoublePayment
<1> SUFFICES ASSUME ~SlowOwners, KeepsIdentity
             PROVE  Spec => []NoDoublePayment
  OBVIOUS
<1>1. Init => OneOfEachInvoice
  BY OneOfEachInit
<1>2. IInv /\ Timely /\ SeenAsExtracted /\ OneOfEachInvoice /\ [Next]_vars
        => OneOfEachInvoice'
  BY NextScreens
<1>3. OneOfEachInvoice => NoDoublePayment
  BY PayableOnce DEF NoDoublePayment
<1> QED
  BY <1>1, <1>2, <1>3, Invariance, TimelyHolds, DecisionsHold, PTL DEF Spec
=============================================================================
