----------------------------- MODULE OneInvoice -----------------------------
(***************************************************************************)
(* One invoice in full detail: the attempts of its extraction, the columns *)
(* extracted, the rules, the corrections of reviewers who may have loaded  *)
(* the row at the same time, and the attempts of its accounting write on   *)
(* a database session that a failed flush makes unusable.                  *)
(*                                                                         *)
(* The worker resumes what a handler that raised has left, and the ledger  *)
(* is the mock in the same database or an external one, where a write can  *)
(* land without its answer.  What other documents do (duplicates), the     *)
(* approval and the race of two owners are the pipeline's part.            *)
(***************************************************************************)
EXTENDS Fields, Retry

CONSTANTS
  Annotations,     \* what the provider may answer
  Requests,        \* what a reviewer may send: sequences of corrections
  Inexact,         \* amounts that no binary fraction equals
  Reviewers,
  MaxRetries,      \* settings.worker_max_retries
  DatabaseFaults   \* may a flush or a commit fail for reasons of its own?

ASSUME MaxRetriesIsANumber == MaxRetries \in Nat

Values == Texts \cup Dates \cup Amounts \cup {Blank, NaN, None}

(* What is answered or typed for a text column stands as the text it is    *)
(* stored as. *)
ASSUME AnswersAreWellFormed ==
  \A a \in Annotations :
    /\ a \in [EXTRACTED_FIELDS -> Values]
    /\ \A c \in TextColumns : a[c] \in Texts \cup {Blank, None}

ASSUME RequestsAreWellFormed ==
  /\ Requests \subseteq Seq(STRING \X Values)
  /\ \A request \in Requests : \A i \in DOMAIN request :
       request[i][1] \in TextColumns
         => request[i][2] \in Texts \cup {Blank, None}

ASSUME NoneIsNoRow == None \notin [EXTRACTED_FIELDS -> Values]

VARIABLES
  accounting,   \* the provider of the action: the mock ledger, or an external
  annotation,   \* the provider's answer, kept in extraction_results.fields
  row,          \* the columns of extraction_results
  phase,        \* documents.state
  events,       \* review_events
  desk,         \* each reviewer's handler: its step, and the row it loaded
  action,       \* accounting_actions.status
  posted,       \* the ledger entry, committed or in the open transaction
  payables,     \* how many entries the ledger has of this invoice
  reason,       \* what the FAILED history row names
  retry_count,  \* documents.retry_count
  session       \* the session of the handler: usable, or a flush failed

extraction == <<annotation, row, events>>

ledger == <<accounting, posted, payables>>

document == <<extraction, phase, action, ledger, reason, retry_count>>

vars == <<document, desk, session, handler>>

Away == [at |-> "away", row |-> None]

Init ==
  /\ accounting = "none"
  /\ annotation = None
  /\ row = None
  /\ phase = "EXTRACTING"
  /\ events = {}
  /\ desk = [r \in Reviewers |-> Away]
  /\ action = "NONE"
  /\ posted = None
  /\ payables = 0
  /\ reason = "none"
  /\ retry_count = 0
  /\ session = "usable"
  /\ handler = Fresh("extract")

(* Fault: the mock commits its entry before it returns. *)
AbortAfterEntry ==
  /\ handler' = [handler EXCEPT !.at = "raised"]
  /\ session' = "usable"
  /\ UNCHANGED <<document, desk>>

(* The exception leaves the handler: a 500, or the worker's log.  Closing  *)
(* the session takes back an entry of the mock that is not committed. *)
Abort ==
  /\ handler' = [handler EXCEPT !.at = "raised"]
  /\ session' = "usable"
  /\ \/ /\ handler.at = "confirm" /\ accounting = "mock"
        /\ posted' = None
        /\ payables' = payables - 1
     \/ /\ handler.at # "confirm" \/ accounting = "external"
        /\ UNCHANGED <<posted, payables>>
  /\ UNCHANGED <<extraction, phase, action, accounting, reason, retry_count,
                 desk>>

DatabaseFault ==
  /\ DatabaseFaults
  /\ handler.at \notin {"idle", "raised"}
  /\ Abort

-----------------------------------------------------------------------------
(* _attempt_extraction and _attempt_validation                             *)

ProviderAnswers ==
  /\ Calling("extract")
  /\ annotation' \in Annotations
  /\ Enter("store")
  /\ UNCHANGED <<row, phase, events, desk, action, ledger, reason, retry_count,
                 session>>

ExtractionFails ==
  /\ Calling("extract")
  /\ AttemptFails("provider")
  /\ UNCHANGED <<extraction, phase, action, ledger, reason, retry_count, desk,
                 session>>

Store ==
  /\ handler.at = "store"
  /\ Fits(FromProvider(annotation))
  /\ row' = FromProvider(annotation)
  /\ phase' = "EXTRACTED"
  /\ Enter("begin validation")
  /\ UNCHANGED <<annotation, events, desk, action, ledger, reason, retry_count,
                 session>>

(* The insert violates the width of a column, outside of the retries. *)
StoreRaises ==
  /\ handler.at = "store"
  /\ ~Fits(FromProvider(annotation))
  /\ Abort

BeginValidation ==
  /\ handler.at = "begin validation"
  /\ phase' = "VALIDATING"
  /\ Enter("validate")
  /\ UNCHANGED <<extraction, desk, action, ledger, reason, retry_count,
                 session>>

Validate ==
  /\ handler.at = "validate"
  /\ phase' = IF Passes(row) THEN "VALIDATED" ELSE "NEEDS_REVIEW"
  /\ Enter("idle")
  /\ UNCHANGED <<extraction, desk, action, ledger, reason, retry_count,
                 session>>

-----------------------------------------------------------------------------
(* /review/{document_id}/correct and /reject                               *)

OpenReview(r) ==
  /\ phase = "NEEDS_REVIEW"
  /\ desk[r] = Away
  /\ desk' = [desk EXCEPT ![r] = [at |-> "opened", row |-> None]]
  /\ UNCHANGED <<document, session, handler>>

(* A second read, and what it finds may be corrected already. *)
LoadRow(r) ==
  /\ desk[r].at = "opened"
  /\ row # None
  /\ desk' = [desk EXCEPT ![r] = [at |-> "loaded", row |-> row]]
  /\ UNCHANGED <<document, session, handler>>

(* The last of the first n corrections of a request that is about column c. *)
Latest(request, c, n) ==
  {i \in 1 .. n : /\ request[i][1] = c
                  /\ \A j \in (i + 1) .. n : request[j][1] # c}

(* The value of a column on the loaded row after the first n corrections.  *)
Held(loaded, request, c, n) ==
  IF Latest(request, c, n) = {}
  THEN loaded[c]
  ELSE Parsed(c, request[CHOOSE i \in Latest(request, c, n) : TRUE][2])

(* The event of the n-th correction. *)
Event(loaded, request, n) ==
  [column    |-> request[n][1],
   original  |-> Held(loaded, request, request[n][1], n - 1),
   corrected |-> request[n][2]]

(* Fault: a column that was NULL is filled in without an event. *)
EventsQuietly(loaded, request) ==
  {e \in {Event(loaded, request, n) : n \in DOMAIN request} :
     e.original # None}

(* One for each correction, in their order. *)
Events(loaded, request) ==
  {Event(loaded, request, n) : n \in DOMAIN request}

(* The columns in the UPDATE: those that a correction has changed.  The    *)
(* loaded amount is a decimal and the corrected one a float, so that one   *)
(* entered again as it was differs unless it is exact, and a NaN always.   *)
Written(loaded, request) ==
  {c \in EXTRACTED_FIELDS :
     LET held == Held(loaded, request, c, Len(request))
     IN /\ Latest(request, c, Len(request)) # {}
        /\ held # loaded[c] \/ held \in Inexact \cup {NaN}}

Updated(loaded, request) ==
  [c \in EXTRACTED_FIELDS |->
     IF c \in Written(loaded, request)
     THEN Held(loaded, request, c, Len(request))
     ELSE row[c]]

(* Fault: one value that parses lets the others in. *)
AcceptableInPart(request) ==
  \E i \in DOMAIN request : ~Refused(request[i][1], request[i][2])

Acceptable(request) ==
  /\ request # <<>>
  /\ \A i \in DOMAIN request : ~Refused(request[i][1], request[i][2])

Correct(r, request) ==
  /\ desk[r].at = "loaded"
  /\ Acceptable(request)
  /\ row' = Updated(desk[r].row, request)
  /\ Fits(row')
  /\ events' = events \cup Events(desk[r].row, request)
  /\ phase' = "VALIDATED"
  /\ desk' = [desk EXCEPT ![r] = Away]
  /\ UNCHANGED <<annotation, action, ledger, reason, retry_count, session,
                 handler>>

(* 404, 422, or a 500 when a value does not fit its column: what is staged *)
(* in the handler's session goes with it. *)
CorrectFails(r) ==
  /\ desk[r].at \in {"opened", "loaded"}
  /\ desk' = [desk EXCEPT ![r] = Away]
  /\ UNCHANGED <<document, session, handler>>

RejectReview(r) ==
  /\ desk[r].at = "opened"
  /\ phase' = "REJECTED"
  /\ desk' = [desk EXCEPT ![r] = Away]
  /\ UNCHANGED <<extraction, action, ledger, reason, retry_count, session,
                 handler>>

-----------------------------------------------------------------------------
(* _begin_action, _attempt_action and create_payable                       *)

BeginAction ==
  /\ handler.at \in {"idle", "raised"}
  /\ phase = "VALIDATED"
  /\ row["total"] # None
  /\ action = "NONE"
  /\ action' = "ATTEMPTED"
  /\ accounting' \in {"mock", "external"}
  /\ phase' = "ACTIONED"
  /\ Enter("post")
  /\ UNCHANGED <<extraction, desk, posted, payables, reason, retry_count,
                 session>>

(* The ledger's columns are NOT NULL. *)
Payable == Postable(Reading(row))

(* create_payable has written its entry: the mock in the transaction that  *)
(* is still open, an external provider for good. *)
PostSucceeds ==
  /\ Calling("post")
  /\ session = "usable"
  /\ accounting = "mock" => Payable
  /\ posted' = row
  /\ payables' = payables + 1
  /\ Enter("confirm")
  /\ UNCHANGED <<extraction, phase, action, accounting, desk, reason,
                 retry_count, session>>

Confirm ==
  /\ handler.at = "confirm"
  /\ action' = "CONFIRMED"
  /\ phase' = "COMPLETED"
  /\ Enter("notify")
  /\ UNCHANGED <<extraction, desk, ledger, reason, retry_count, session>>

(* The external provider refuses, or its answer to a write is lost. *)
PostFails ==
  /\ accounting = "external"
  /\ Calling("post")
  /\ \/ UNCHANGED <<posted, payables>>
     \/ posted' = row /\ payables' = payables + 1
  /\ AttemptFails("provider")
  /\ UNCHANGED <<extraction, phase, action, accounting, desk, reason,
                 retry_count, session>>

FlushFails ==
  /\ accounting = "mock"
  /\ Calling("post")
  /\ session = "usable"
  /\ ~Payable \/ DatabaseFaults
  /\ AttemptFails("flush")
  /\ session' = "rolled back"
  /\ UNCHANGED <<document, desk>>

(* Every use of the session raises until someone rolls it back. *)
SessionRefuses ==
  /\ Calling("post")
  /\ session = "rolled back"
  /\ AttemptFails("rolled back")
  /\ UNCHANGED <<document, desk, session>>

(* Fault: the dead letter is committed on a session rolled back first. *)
DeadLetterAnyway ==
  /\ \E call \in {"extract", "post"} : Exhausted(call)
  /\ phase' = "FAILED"
  /\ action' = IF handler.at = "post" THEN "FAILED" ELSE action
  /\ reason' = handler.last
  /\ session' = "usable"
  /\ Enter("notify")
  /\ UNCHANGED <<extraction, desk, ledger, retry_count>>

DeadLetter ==
  /\ \E call \in {"extract", "post"} : Exhausted(call)
  /\ session = "usable"
  /\ phase' = "FAILED"
  /\ action' = IF handler.at = "post" THEN "FAILED" ELSE action
  /\ reason' = handler.last
  /\ Enter("notify")
  /\ UNCHANGED <<extraction, desk, ledger, retry_count, session>>

DeadLetterRaises ==
  /\ Exhausted("post")
  /\ session = "rolled back"
  /\ Abort

NoticeFails ==
  /\ Calling("notify")
  /\ AttemptFails("provider")
  /\ UNCHANGED <<document, desk, session>>

(* notify_with_retry swallows the exhaustion. *)
NoticeEnds ==
  /\ handler.at = "notify"
  /\ Enter("idle")
  /\ UNCHANGED <<document, desk, session>>

-----------------------------------------------------------------------------
(* recover_document, for a document whose handler raised                   *)

STUCK_STATES == {"EXTRACTING", "VALIDATING", "ACTIONED"}

Stuck == handler.at = "raised" /\ phase \in STUCK_STATES

(* Fault: the recovery is not counted. *)
CountRetryForgotten ==
  /\ Stuck
  /\ retry_count < MaxRetries
  /\ UNCHANGED retry_count

CountRetry ==
  /\ Stuck
  /\ retry_count < MaxRetries
  /\ retry_count' = retry_count + 1

WorkerResumes ==
  /\ CountRetry
  /\ Enter(CASE phase = "EXTRACTING" -> "extract"
             [] phase = "VALIDATING" -> "validate"
             [] phase = "ACTIONED"   -> "post")
  /\ UNCHANGED <<extraction, phase, action, ledger, reason, desk, session>>

(* The stored file cannot be read; the next pass tries again. *)
StorageFails ==
  /\ CountRetry
  /\ phase = "EXTRACTING"
  /\ UNCHANGED <<extraction, phase, action, ledger, reason, desk, session,
                 handler>>

(* The worker's own dead letter leaves the action row as it is. *)
WorkerGivesUp ==
  /\ Stuck
  /\ retry_count >= MaxRetries
  /\ phase' = "FAILED"
  /\ reason' = "worker gave up"
  /\ Enter("notify")
  /\ UNCHANGED <<extraction, action, ledger, retry_count, desk, session>>

-----------------------------------------------------------------------------
HandlerSteps ==
  \/ ProviderAnswers
  \/ ExtractionFails
  \/ Store
  \/ StoreRaises
  \/ BeginValidation
  \/ Validate
  \/ PostSucceeds
  \/ PostFails
  \/ Confirm
  \/ FlushFails
  \/ SessionRefuses
  \/ DeadLetter
  \/ DeadLetterRaises
  \/ NoticeFails
  \/ NoticeEnds

WorkerSteps ==
  \/ WorkerResumes
  \/ StorageFails
  \/ WorkerGivesUp

ReviewerSteps(r) ==
  \/ OpenReview(r)
  \/ LoadRow(r)
  \/ \E request \in Requests : Correct(r, request)
  \/ CorrectFails(r)
  \/ RejectReview(r)

Next ==
  \/ HandlerSteps
  \/ WorkerSteps
  \/ BeginAction
  \/ DatabaseFault
  \/ \E r \in Reviewers : ReviewerSteps(r)

(* A handler that runs goes on and the worker polls; nobody has to review  *)
(* or to start an action. *)
Spec ==
  /\ Init
  /\ [][Next]_vars
  /\ WF_vars(HandlerSteps)
  /\ WF_vars(WorkerSteps)
=============================================================================
