-------------------------- MODULE DashboardProofs --------------------------
(***************************************************************************)
(* What the dashboard counts agrees at every moment, for any number of     *)
(* documents and threads, also when two owners work on one document; and   *)
(* four moments instead of one cost its answer no more than the documents  *)
(* that moved between them.                                                *)
(***************************************************************************)
EXTENDS Dashboard, PipelineProofs, FiniteSetTheorems

(* What a handler does with a document that is or will be VALIDATING. *)
UnderValidation == {"extracted", "revalidating", "validating", "failed"}

USE NoneIsNoValue, ActorsAreDistinct
USE DEF At, On, Take, Goto, Finish, Idle, Dead, Actors, LoopFree,
        Move, UnmovedRows, tables, processes, payables, UnderValidation

-----------------------------------------------------------------------------
(* The history rows: a document is under validation before it is ever      *)
(* reviewed, and never again after that.                                   *)

(* The documents a handler is about to correct have been reviewed, and no  *)
(* handler that will put a document under validation holds one that is or  *)
(* has been there. *)
Trail ==
  /\ reviewed \subseteq Docs
  /\ \A d \in Docs : state[d] = "NEEDS_REVIEW" => d \in reviewed
  /\ \A a \in Actors :
       job[a].at \in {"reviewing", "correcting"} => On(a) \in reviewed
  /\ \A a \in Actors : At(a, "revalidating") => extraction[On(a)] # None
  /\ corrected \subseteq reviewed
  /\ \A d \in reviewed : d \in Processed /\ extraction[d] # None
  /\ \A a \in Actors : At(a, "extracted") =>
       /\ On(a) \notin reviewed
       /\ state[On(a)] # "VALIDATING"
       /\ \A b \in Actors \ {a} :
            On(b) = On(a) =>
              job[b].at \notin UnderValidation

(* What any step does to the state, the extraction and the jobs, as far as *)
(* Trail depends on it. *)
Shape ==
  /\ \A d \in Docs : extraction[d] # None => extraction'[d] # None
  /\ \A d \in Docs : state'[d] # state[d] =>
       /\ state'[d] = "NEEDS_REVIEW" =>
            \E a \in Actors : At(a, "failed") /\ On(a) = d
       /\ state'[d] = "VALIDATING" =>
            \E a \in Actors : At(a, "extracted") /\ On(a) = d
                              /\ job'[a].at # "extracted"
       /\ state'[d] \in {"ABSENT", "RECEIVED", "EXTRACTING"} => ~Past(d)
  /\ \A a \in Actors : job'[a] # job[a] =>
       /\ job'[a].at = "extracted" =>
            /\ At(a, "extracting")
            /\ job'[a].doc = On(a)
            /\ extraction[On(a)] = None
            /\ state'[On(a)] = "EXTRACTED"
            /\ \A b \in Actors \ {a} : job'[b] = job[b]
       /\ job'[a].at \in UnderValidation \ {"extracted"} =>
            /\ job'[a].doc = On(a)
            /\ \/ job[a].at \in {"extracted", "revalidating", "validating"}
               \/ state[On(a)] = "VALIDATING"
       /\ job'[a].at = "revalidating" => extraction[job'[a].doc] # None
       /\ job'[a].at = "reviewing" =>
            job'[a].doc \in Docs /\ state[job'[a].doc] = "NEEDS_REVIEW"
       /\ job'[a].at = "correcting" =>
            At(a, "reviewing") /\ job'[a].doc = On(a)

-----------------------------------------------------------------------------
LEMMA RaiseShape ==
  ASSUME IInv, NEW a \in Actors, Raise(a), UNCHANGED tables
  PROVE  Shape
BY DEF Raise, Shape, IInv, TypeOK, ProcessesTypeOK

LEMMA ExtractionShape ==
  ASSUME IInv, NEW a \in Actors, AttemptExtraction(a)
  PROVE  Shape
<1> USE DEF Shape, IInv, TypeOK, ProcessesTypeOK, TablesTypeOK
<1>1. CASE ExtractionExhausted(a)
  BY <1>1 DEF ExtractionExhausted
<1>2. ASSUME NEW x \in Readings, ExtractionSucceeds(a, x) PROVE Shape
  BY <1>2 DEF ExtractionSucceeds, Custody, Busy
<1>3. CASE ExtractionConflict(a)
  BY <1>3, RaiseShape DEF ExtractionConflict
<1> QED
  BY <1>1, <1>2, <1>3 DEF AttemptExtraction

LEMMA ValidationShape ==
  ASSUME IInv, NEW a \in Actors, AttemptValidation(a)
  PROVE  Shape
<1> USE DEF Shape, IInv, TypeOK, ProcessesTypeOK, TablesTypeOK
<1>1. CASE BeginValidation(a)
  BY <1>1 DEF BeginValidation
<1>2. CASE RunValidation(a)
  BY <1>2 DEF RunValidation, Verdict
<1>3. CASE CommitValidation(a)
  BY <1>3 DEF CommitValidation, Outcome
<1>4. CASE CommitSettled(a)
  BY <1>4 DEF CommitSettled, Note
<1> QED
  BY <1>1, <1>2, <1>3, <1>4 DEF AttemptValidation

LEMMA UploadShape ==
  ASSUME IInv, UploadSteps \/ NewUpload
  PROVE  Shape
<1> USE DEF Shape, IInv, TypeOK, ProcessesTypeOK, TablesTypeOK
<1>1. CASE CheckHash
  BY <1>1 DEF CheckHash
<1>2. CASE MarkHashDuplicate
  BY <1>2 DEF MarkHashDuplicate
<1>3. CASE BeginExtraction
  BY <1>3 DEF BeginExtraction, Custody, Intake, Past
<1>4. ASSUME NEW d \in Docs, NEW k \in Keys, NEW f \in Files,
             UploadStart(d, k, f)
      PROVE  Shape
  BY <1>4 DEF UploadStart
<1>5. ASSUME NEW d \in Docs, UploadFails(d) PROVE Shape
  BY <1>5 DEF UploadFails
<1>6. ASSUME NEW d \in Docs, UploadReceive(d) PROVE Shape
  BY <1>6 DEF UploadReceive, Reading, Past
<1> QED
  BY <1>1, <1>2, <1>3, <1>4, <1>5, <1>6, ExtractionShape, ValidationShape
     DEF UploadSteps, NewUpload

LEMMA ReviewShape ==
  ASSUME IInv, NEW t \in Threads, ReviewSteps(t) \/ NewReview(t)
  PROVE  Shape
<1> USE DEF Shape, IInv, TypeOK, ProcessesTypeOK, TablesTypeOK, Untouched
<1>1. ASSUME NEW y \in Readings, Correct(t, y) PROVE Shape
  <2>1. job[t].seen \in Readings /\ extraction[On(t)] \in Readings
    BY <1>1 DEF Correct, Loaded, AfterExtraction, Custody, Busy
  <2>2. Merged(extraction[On(t)], job[t].seen, y) \subseteq Readings
    BY <2>1 DEF Merged, Readings
  <2> QED
    BY <1>1, <2>2 DEF Correct
<1>2. CASE CorrectRefused(t)
  BY <1>2 DEF CorrectRefused
<1>3. CASE RejectReview(t)
  BY <1>3 DEF RejectReview
<1>4. CASE Approve(t)
  BY <1>4 DEF Approve
<1>5. CASE Decline(t)
  BY <1>5 DEF Decline
<1>6. CASE ApprovalConflict(t)
  BY <1>6, RaiseShape DEF ApprovalConflict
<1>7. ASSUME NEW d \in Docs, NEW step, OpenReview(t, d, step) PROVE Shape
  BY <1>7 DEF OpenReview
<1>8. ASSUME NEW d \in Docs, OpenApproval(t, d) PROVE Shape
  BY <1>8 DEF OpenApproval
<1>9. CASE LoadExtraction(t)
  BY <1>9 DEF LoadExtraction
<1>10. ASSUME NEW step, Assess(t, step) PROVE Shape
  BY <1>10 DEF Assess
<1> QED
  BY <1>1, <1>2, <1>3, <1>4, <1>5, <1>6, <1>7, <1>8, <1>9, <1>10
     DEF ReviewSteps, NewReview

LEMMA PostingShape ==
  ASSUME IInv, NEW a \in Actors, AttemptAction(a)
  PROVE  Shape
<1> USE DEF Shape, IInv, TypeOK, ProcessesTypeOK, TablesTypeOK
<1>1. CASE PostSucceeds(a)
  BY <1>1 DEF PostSucceeds
<1>2. CASE PostRaises(a)
  BY <1>2, RaiseShape DEF PostRaises
<1>3. CASE PostExhausted(a)
  BY <1>3 DEF PostExhausted
<1> QED
  BY <1>1, <1>2, <1>3 DEF AttemptAction

LEMMA ActionShape ==
  ASSUME IInv, NEW t \in Threads, ActionSteps(t) \/ NewAction(t)
  PROVE  Shape
<1> USE DEF Shape, IInv, TypeOK, ProcessesTypeOK, TablesTypeOK
<1>1. CASE CheckEligibility(t)
  BY <1>1 DEF CheckEligibility
<1>2. CASE BeginAction(t)
  BY <1>2 DEF BeginAction
<1>3. CASE ActionConflict(t)
  BY <1>3, RaiseShape DEF ActionConflict
<1>4. ASSUME NEW d \in Docs, OpenAction(t, d) PROVE Shape
  BY <1>4 DEF OpenAction
<1>5. CASE LoadArguments(t)
  BY <1>5 DEF LoadArguments
<1> QED
  BY <1>1, <1>2, <1>3, <1>4, <1>5, PostingShape DEF ActionSteps, NewAction

LEMMA WorkerShape ==
  ASSUME IInv, WorkerSteps
  PROVE  Shape
<1> USE DEF Shape, IInv, TypeOK, ProcessesTypeOK, TablesTypeOK
<1>1. ASSUME NEW d \in Docs, WorkerPoll(d) \/ WorkerNext(d) PROVE Shape
  BY <1>1 DEF WorkerPoll, WorkerNext, Judge
<1>2. CASE DeadLetter
  BY <1>2 DEF DeadLetter, Note
<1>3. CASE CountRetry
  BY <1>3 DEF CountRetry
<1>4. CASE Resume
  <2> DEFINE d == On("worker")
             step == Resumption(state[d])
  <2>1. step = "revalidating" =>
          state[d] = "VALIDATING" /\ extraction[d] # None
    BY <1>4 DEF Resume, Resumption, STUCK_STATES, Rows, Custody, Busy
  <2>2. step \in {"idle", "extracting", "revalidating", "reposting"}
    BY DEF Resumption, STUCK_STATES
  <2>3. UNCHANGED tables
        /\ job' = IF step = "idle"
                   THEN [job EXCEPT !["worker"] = Idle]
                   ELSE [job EXCEPT !["worker"] =
                           [at |-> step, doc |-> d,
                            seen |-> job["worker"].seen]]
    BY <1>4 DEF Resume
  <2> HIDE DEF step
  <2> QED
    BY <2>1, <2>2, <2>3
<1>5. CASE StorageFails \/ SelectFails
  BY <1>5 DEF StorageFails, SelectFails
<1>6. CASE LoadRows
  BY <1>6 DEF LoadRows, Found
<1> QED
  BY <1>1, <1>2, <1>3, <1>4, <1>5, <1>6, ExtractionShape, ValidationShape,
     PostingShape DEF WorkerSteps

LEMMA StepShape == IInv /\ Next => Shape
<1> SUFFICES ASSUME IInv, Next PROVE Shape
  OBVIOUS
<1>1. CASE WorkerStart
  BY <1>1 DEF WorkerStart, Shape, IInv, TypeOK, ProcessesTypeOK
<1>2. ASSUME NEW d \in Docs, Age(d) PROVE Shape
  BY <1>2 DEF Age, Shape
<1>3. ASSUME NEW a \in Actors, DatabaseFault(a) PROVE Shape
  BY <1>3, RaiseShape DEF DatabaseFault
<1>4. CASE ServerCrash
  BY <1>4 DEF ServerCrash, Shape
<1>5. CASE WorkerCrash
  BY <1>5 DEF WorkerCrash, Shape, IInv, TypeOK, ProcessesTypeOK
<1> QED
  BY <1>1, <1>2, <1>3, <1>4, <1>5, UploadShape, ReviewShape, ActionShape,
     WorkerShape DEF Next, ThreadSteps, Environment
-----------------------------------------------------------------------------
LEMMA TrailInit == HistoryInit => Trail
BY DEF HistoryInit, Init, TablesInit, ProcessesInit, Trail

LEMMA TrailKeeps == IInv /\ Trail /\ RecordedStep => Trail'
<1> SUFFICES ASSUME IInv, Trail, RecordedStep PROVE Trail'
  OBVIOUS
<1>1. Shape
  BY StepShape DEF RecordedStep
<1>2. /\ reviewed' = reviewed \cup {d \in Changed : state'[d] = "NEEDS_REVIEW"}
      /\ corrected' = corrected
           \cup {On(t) : t \in {u \in Threads : Corrects(u)}}
  BY DEF RecordedStep
<1>3. \A d \in reviewed' \ reviewed :
        /\ d \in Docs
        /\ state'[d] = "NEEDS_REVIEW"
        /\ \E a \in Actors : At(a, "failed") /\ On(a) = d
  BY <1>1, <1>2 DEF Shape, Changed
<1>4. reviewed \subseteq reviewed' /\ reviewed' \subseteq Docs
  BY <1>2, <1>3 DEF Trail
<1>5. \A d \in Docs : state'[d] = "NEEDS_REVIEW" => d \in reviewed'
  BY <1>2 DEF Trail, Changed
<1>6. \A a \in Actors : job'[a].at \in {"reviewing", "correcting"} =>
        job'[a].doc \in reviewed'
  BY <1>1, <1>4 DEF Shape, Trail
<1>7. corrected' \subseteq reviewed'
  <2>1. \A t \in Threads : Corrects(t) => At(t, "correcting")
    BY DEF Corrects, Correct
  <2>2. \A t \in Threads : Corrects(t) => On(t) \in reviewed
    BY <2>1 DEF Trail
  <2> QED
    BY <1>2, <1>4, <2>2 DEF Trail
<1>8. \A d \in reviewed' : extraction[d] # None /\ extraction'[d] # None
  BY <1>1, <1>3 DEF Shape, Trail, IInv, Loaded, AfterExtraction
<1>9. \A d \in reviewed' : d \in Processed'
  <2> SUFFICES ASSUME NEW d \in reviewed', d \in reviewed
               PROVE  d \in Processed'
    BY <1>3 DEF Processed, Stored, IN_FLIGHT_STATES
  <2>1. state[d] \notin {"ABSENT", "RECEIVED", "EXTRACTING", "VALIDATING"}
    BY DEF Trail, Processed, Stored, IN_FLIGHT_STATES
  <2>2. ~\E a \in Actors : At(a, "extracted") /\ On(a) = d
    BY DEF Trail
  <2> QED
    BY <1>1, <1>4, <2>1, <2>2
       DEF Shape, Past, Processed, Stored, IN_FLIGHT_STATES
<1>10. ASSUME NEW a \in Actors, job'[a].at = "extracted", job'[a] = job[a]
       PROVE  /\ On(a) \notin reviewed'
              /\ state'[On(a)] # "VALIDATING"
              /\ \A b \in Actors \ {a} :
                   job'[b].doc = On(a) =>
                     job'[b].at \notin UnderValidation
  <2>1. On(a) \in Docs /\ extraction[On(a)] # None
    BY <1>10 DEF IInv, Custody, Busy, Loaded, AfterExtraction
  <2>2. /\ On(a) \notin reviewed
        /\ state[On(a)] # "VALIDATING"
        /\ \A b \in Actors \ {a} :
             On(b) = On(a) =>
               job[b].at \notin UnderValidation
    BY <1>10 DEF Trail
  <2>3. On(a) \notin reviewed'
    BY <1>3, <1>10, <2>2
  <2>4. state'[On(a)] # "VALIDATING"
    BY <1>1, <1>10, <2>1, <2>2 DEF Shape
  <2>5. ASSUME NEW b \in Actors \ {a}, job'[b].doc = On(a)
        PROVE  job'[b].at \notin UnderValidation
    BY <1>1, <2>1, <2>2, <2>5 DEF Shape
  <2> QED
    BY <2>3, <2>4, <2>5
<1>11. ASSUME NEW a \in Actors, job'[a].at = "extracted", job'[a] # job[a]
       PROVE  /\ job'[a].doc \notin reviewed'
              /\ state'[job'[a].doc] # "VALIDATING"
              /\ \A b \in Actors \ {a} :
                   job'[b].doc = job'[a].doc =>
                     job'[b].at \notin UnderValidation
  <2>1. /\ job'[a].doc = On(a)
        /\ extraction[On(a)] = None
        /\ state'[On(a)] = "EXTRACTED"
        /\ \A b \in Actors \ {a} : job'[b] = job[b]
    BY <1>1, <1>11 DEF Shape
  <2>2. On(a) \notin reviewed'
    BY <1>8, <2>1
  <2>3. \A b \in Actors \ {a} :
          On(b) = On(a) =>
            job[b].at \notin UnderValidation
    BY <2>1 DEF IInv, Loaded, AfterExtraction, Trail
  <2> QED
    BY <2>1, <2>2, <2>3
<1>12. ASSUME NEW a \in Actors, job'[a].at = "revalidating"
       PROVE  extraction'[job'[a].doc] # None
  <2>1. job'[a].doc \in Docs
    BY <1>12, NextKeeps DEF RecordedStep, IInv, Custody, Busy
  <2>2. extraction[job'[a].doc] # None
    BY <1>1, <1>12 DEF Shape, Trail
  <2> QED
    BY <1>1, <2>1, <2>2 DEF Shape
<1> QED
  BY <1>4, <1>5, <1>6, <1>7, <1>8, <1>9, <1>10, <1>11, <1>12 DEF Trail

(* The history rows and the invariant of the tables hold together.         *)
LEMMA TrailAlways == RecordedSpec => [](IInv /\ Trail)
<1>1. HistoryInit => IInv /\ Trail
  BY TrailInit, InitEstablishes DEF HistoryInit
<1>2. IInv /\ Trail /\ [RecordedStep]_<<vars, history>> => (IInv /\ Trail)'
  <2>1. CASE RecordedStep
    BY <2>1, NextKeeps, TrailKeeps DEF RecordedStep
  <2>2. CASE UNCHANGED <<vars, history>>
    <3>1. IInv => IInv'
      BY <2>2, NextKeeps
    <3>2. Trail => Trail'
      BY <2>2 DEF vars, history, Trail, Processed, Stored
    <3> QED
      BY <3>1, <3>2
  <2> QED
    BY <2>1, <2>2
<1> QED
  BY <1>1, <1>2, PTL DEF RecordedSpec

-----------------------------------------------------------------------------
(* Read at one moment, the tables never give the dashboard a corrected     *)
(* document that was not reviewed, or a reviewed one still in flight. *)
THEOREM RatesAlwaysInRange == RecordedSpec => []RatesInRange
<1>1. IInv /\ Trail => RatesInRange
  BY DEF Trail, RatesInRange
<1> QED
  BY <1>1, TrailAlways, PTL
-----------------------------------------------------------------------------
(* The request of the dashboard.                                           *)

DashboardStep == PipelineStep \/ DashboardSteps

allVars == <<vars, history, reader>>

(* What the sets read so far have to do with the tables as they are now,   *)
(* for the documents that have not moved. *)
ReaderInv ==
  /\ reviewed \subseteq Docs
  /\ moved \subseteq Docs
  /\ report.at \in {"idle", "counted", "reviewed", "corrected"}
  /\ report.processed \subseteq Docs
  /\ report.reviewed \subseteq Docs
  /\ report.corrected \subseteq Docs
  /\ report = [at        |-> report.at,
               processed |-> report.processed,
               reviewed  |-> report.reviewed,
               corrected |-> report.corrected]
  /\ report.at # "idle" =>
       \A d \in Docs \ moved : d \in report.processed <=> d \in Processed
  /\ report.at \in {"reviewed", "corrected"} =>
       /\ report.reviewed \ moved \subseteq report.processed
       /\ reviewed \ moved \subseteq report.reviewed
  /\ report.at = "corrected" =>
       report.corrected \ moved \subseteq report.reviewed

-----------------------------------------------------------------------------
(* A finite set that is contained in another but for some exceptions has   *)
(* at most so many members more than it. *)
LEMMA ExceptionsBound ==
  ASSUME NEW A, NEW B, NEW E,
         IsFiniteSet(A), IsFiniteSet(B), IsFiniteSet(E), A \ E \subseteq B
  PROVE  /\ Cardinality(A) \in Nat
         /\ Cardinality(B) \in Nat
         /\ Cardinality(E) \in Nat
         /\ Cardinality(A) <= Cardinality(B) + Cardinality(E)
<1>1. IsFiniteSet(B \cup E)
      /\ Cardinality(B \cup E)
           = Cardinality(B) + Cardinality(E) - Cardinality(B \cap E)
  BY FS_Union
<1>2. A \subseteq B \cup E
  OBVIOUS
<1>3. Cardinality(A) <= Cardinality(B \cup E)
  BY <1>1, <1>2, FS_Subset
<1>4. IsFiniteSet(B \cap E)
  BY FS_Subset
<1>5. /\ Cardinality(A) \in Nat
      /\ Cardinality(B) \in Nat
      /\ Cardinality(E) \in Nat
      /\ Cardinality(B \cap E) \in Nat
  BY <1>4, FS_CardinalityType
<1> QED
  BY <1>1, <1>3, <1>5

LEMMA ReaderInit == DashboardInit => ReaderInv
BY DEF DashboardInit, HistoryInit, ReaderInv, NoReport

(* A document that does not move keeps its place in what is counted, and   *)
(* enters the reviewed ones only by moving. *)
LEMMA PipelineKeepsReader ==
  ReaderInv /\ PipelineStep => ReaderInv'
<1> SUFFICES ASSUME ReaderInv, PipelineStep PROVE ReaderInv'
  OBVIOUS
<1>1. /\ moved' = moved \cup Changed
      /\ report' = report
      /\ reviewed' = reviewed \cup {d \in Changed : state'[d] = "NEEDS_REVIEW"}
  BY DEF PipelineStep, RecordedStep
<1>2. Changed \subseteq Docs
  BY DEF Changed
<1>3. \A d \in Docs \ moved' : d \in Processed' <=> d \in Processed
  BY <1>1 DEF Changed, Processed, Stored
<1>4. reviewed' \ moved' \subseteq reviewed \ moved
  BY <1>1
<1> QED
  BY <1>1, <1>2, <1>3, <1>4 DEF ReaderInv

LEMMA QueriesKeepReader ==
  ReaderInv /\ RatesInRange /\ DashboardSteps => ReaderInv'
<1> SUFFICES ASSUME ReaderInv, RatesInRange, DashboardSteps PROVE ReaderInv'
  OBVIOUS
<1>1. Processed \subseteq Docs
  BY DEF Processed, Stored
<1>2. ASSUME UNCHANGED <<vars, history>>
      PROVE  Processed' = Processed /\ reviewed' = reviewed
  BY <1>2 DEF vars, tables, history, Processed, Stored
<1>3. CASE CountProcessed
  BY <1>1, <1>2, <1>3 DEF CountProcessed, NoReport, ReaderInv
<1>4. CASE ReadReviewed
  <2>1. reviewed \ moved \subseteq report.processed
    BY <1>4 DEF ReadReviewed, ReaderInv, RatesInRange
  <2> QED
    BY <1>2, <1>4, <2>1 DEF ReadReviewed, ReaderInv
<1>5. CASE ReadCorrected
  <2>1. corrected \subseteq Docs /\ corrected \ moved \subseteq report.reviewed
    BY <1>5 DEF ReadCorrected, ReaderInv, RatesInRange
  <2> QED
    BY <1>2, <1>5, <2>1 DEF ReadCorrected, ReaderInv
<1>6. CASE Answer
  BY <1>2, <1>6 DEF Answer, NoReport, ReaderInv
<1> QED
  BY <1>3, <1>4, <1>5, <1>6 DEF DashboardSteps

LEMMA ReaderKeeps ==
  ReaderInv /\ RatesInRange /\ [DashboardStep]_allVars => ReaderInv'
<1>1. ReaderInv /\ UNCHANGED allVars => ReaderInv'
  BY DEF ReaderInv, allVars, vars, tables, history, reader, Processed, Stored
<1> QED
  BY <1>1, PipelineKeepsReader, QueriesKeepReader DEF DashboardStep

LEMMA ReaderBound == ReaderInv => OffByMoves
<1> SUFFICES ASSUME ReaderInv, report.at = "corrected"
             PROVE  LET slack == Cardinality(moved)
                    IN /\ Metrics.straight_through_count >= -slack
                       /\ Metrics.corrected_count
                            <= Metrics.needs_review_count + slack
                       /\ Metrics.timed_count
                            <= Metrics.total_processed + slack
  BY DEF OffByMoves
<1>1. /\ IsFiniteSet(moved)
      /\ IsFiniteSet(report.processed)
      /\ IsFiniteSet(report.reviewed)
      /\ IsFiniteSet(report.corrected)
      /\ IsFiniteSet(Timed)
  BY DocsAreFinite, FS_Subset DEF ReaderInv, Timed, Stored
<1>2. Timed \ moved \subseteq report.processed
  BY DEF ReaderInv, Timed, Processed, Stored, TERMINAL_STATES,
         IN_FLIGHT_STATES
<1> DEFINE p == Cardinality(report.processed)
           r == Cardinality(report.reviewed)
           c == Cardinality(report.corrected)
           m == Cardinality(moved)
           n == Cardinality(Timed)
<1>3. p \in Nat /\ r \in Nat /\ m \in Nat /\ r <= p + m
  BY <1>1, ExceptionsBound DEF ReaderInv
<1>4. c \in Nat /\ c <= r + m
  BY <1>1, ExceptionsBound DEF ReaderInv
<1>5. n \in Nat /\ n <= p + m
  BY <1>1, <1>2, ExceptionsBound
<1>6. /\ Metrics.straight_through_count = p - r
      /\ Metrics.corrected_count = c
      /\ Metrics.needs_review_count = r
      /\ Metrics.timed_count = n
      /\ Metrics.total_processed = p
  BY DEF Metrics
<1> HIDE DEF p, r, c, m, n
<1> QED
  BY <1>3, <1>4, <1>5, <1>6 DEF m

-----------------------------------------------------------------------------
(* Beside the dashboard's requests the pipeline and its history rows do    *)
(* what they do without them. *)
LEMMA DashboardOnlyReads == DashboardSpec => RecordedSpec
<1>1. DashboardInit => HistoryInit
  BY DEF DashboardInit
<1>2. [DashboardStep]_allVars => [RecordedStep]_<<vars, history>>
  BY DEF DashboardStep, allVars, PipelineStep, DashboardSteps, CountProcessed,
         ReadReviewed, ReadCorrected, Answer
<1> QED
  BY <1>1, <1>2, PTL
     DEF DashboardSpec, RecordedSpec, DashboardStep, allVars

(* An answer put together from four moments is off by at most the          *)
(* documents that moved between them. *)
THEOREM AnswerIsOffByMoves == DashboardSpec => []OffByMoves
<1>1. DashboardSpec => []RatesInRange
  BY DashboardOnlyReads, RatesAlwaysInRange
<1>2. DashboardInit => ReaderInv
  BY ReaderInit
<1>3. ReaderInv /\ RatesInRange /\ [DashboardStep]_allVars => ReaderInv'
  BY ReaderKeeps
<1>4. ReaderInv => OffByMoves
  BY ReaderBound
<1> USE DEF DashboardStep, allVars
<1> QED
  BY <1>1, <1>2, <1>3, <1>4, PTL DEF DashboardSpec
=============================================================================
