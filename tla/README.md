# A verified model of the Extract to Act invoice pipeline

Extract to Act takes invoices as files, has a paid provider extract their
fields, validates them with deterministic rules, lets people correct and
approve what the rules or the amount call for, and posts the rest to an
accounts-payable ledger. This directory holds a TLA+ model of that pipeline,
the TLC runs that check it on small instances and the proofs that TLAPS checks
for every instance.

The code is a FastAPI service and a recovery worker over one PostgreSQL
database. Neither process locks a row or compares a state before writing it:
what keeps a document consistent is the order in which each handler commits,
three unique columns and a timeout. That is what the model is about.

## 1. Inventory

| Component (source) | State | Operations | Interacts with | What is hard | What makes it correct |
|---|---|---|---|---|---|
| Upload (`routers/documents.py`, `ingestion.py`) | `documents`, `state_history` | `upload_document` | storage, extraction, validation, in one request | the coroutine suspends at the body read, then blocks the event loop; it commits after every stage | one document per idempotency key; the hash check precedes the paid call |
| Extraction (`_attempt_extraction`, `extraction.py`) | `extraction_results` | begin, attempt | provider, retry, worker | paid, slow, may be running twice | row and EXTRACTED appear together; the bill is bounded |
| Validation (`_attempt_validation`, `validation.py`, `vendor_matching.py`) | `validation_results` | begin, attempt | duplicate detection, worker | verdict computed before it is committed | same outcome whoever runs it |
| Duplicate detection (`duplicate_detection.py`, two queries) | none | hash check, content check | all other documents | two checks at once; failed and duplicate originals | an invoice is paid once; a failed attempt does not block the next |
| Human review (`routers/review.py`, `review.py`) | the extraction row, `review_events` | correct, reject | posting | check then write; column-wise writes of two reviewers; nothing is validated again | what is VALIDATED can be decided |
| Approval (`routers/approvals.py`, `approval.py`) | `approvals` | approve, reject | posting | check then write, one unique row | at or above the threshold only signed amounts are posted |
| Action (`routers/actions.py`, `accounting.py`) | `accounting_actions`, `ap_ledger_entries` | begin, attempt | ledger, worker | three transactions; crash after ATTEMPTED; retry of a write | books agree, nothing posted twice |
| Worker (`worker.py`) | `retry_count` | poll, recover, dead-letter | everything above | stale list, slow owners, its own death | in-flight documents move on, retries are bounded |
| Retry (`retry.py`) | none | `call_with_retry` | extraction, ledger, notifications | attempts at their bound | at most `attempts` calls |
| Notifications (`accounting.py`) | none | `notify_with_retry` | after a commit | may be lost | never undoes a transition |
| Storage, files (`storage.py`, `routers/files.py`) | files on disk | put, get, sign, verify | upload, worker, review | unreadable file; expiry | only a live link of this key opens a file |
| Dashboard (`routers/dashboard.py`, `metrics.py`) | none | four queries | all tables | four snapshots in one answer | rates within their range, up to what moved meanwhile |
| Vendor seeding (`seed_vendors.py`) | `vendors` | one script | vendor match | check then insert on a column that is not unique | every name once |
| Provider spike (`spike/run_spike.py`, `spike/evaluate.py`) | result files | run, evaluate | providers | paid calls before the cap is looked at; files outlive a run | the cap is kept, a finished run is scored |
| Models, migrations, db, config | all tables | | | | constraints |
| Auth, schemas | none | | | | |

How they run (`Dockerfile`: one uvicorn process; `render.yaml`: no worker
service, it is started by hand or by cron as `worker.py` says): the upload
handler is `async` and does its database work on the event loop; every other
handler is a plain function in FastAPI's thread pool; the worker is a second
process. Sessions are SQLAlchemy's with `autoflush=False` and expiry on commit,
the isolation is READ COMMITTED.

`PROJECT.json` lists the hazards at their lines; the properties below are
stated for them.

## 2. Modules

| Module | Models |
|---|---|
| `InvoiceData` | what the pipeline's decisions see of an invoice: the comparison, the rules, the threshold |
| `Tables` | the rows, the candidates queries, and `Move`, the one way a row is written |
| `Processes` | the event loop, the threads, the worker; faults, crashes, restarts and the timeout |
| `Ingestion` | upload, extraction, validation |
| `HumanReview` | correct and reject; approve and reject |
| `Posting` | the accounting action |
| `Recovery` | the worker, which resumes what `Ingestion` and `Posting` define |
| `Pipeline` | the composition: `Next`, `Spec`, `FairSpec` |
| `Lifecycle` | the abstract specification: the diagram of `docs/state-machine.md` with one signing and one paying step |
| `PipelineProperties` | everything stated of the system, with the refinement mapping to `Lifecycle` |
| `PipelineInvariant` | the inductive invariant `IInv` |
| `PipelineProofs` | its proof and the theorems |
| `Timely` | the invariant that also holds while handlers are faster than the timeout, with any operators, and the one behind the duplicate check |
| `TimelyProofs` | their proofs: what failed is not paid, and no invoice is paid twice |
| `SingleOwner` | the invariant that also holds if one operator works at a time |
| `OwnerProofs` | its proof, and from it the refinement of `Lifecycle` and that what is paid was signed |
| `MCPipeline` | values of the constants for TLC |
| `Fields` | the columns behind `InvoiceData`: provider's and reviewer's values, the vendor match, the rules and the comparison |
| `Retry` | `call_with_retry`, attempt by attempt |
| `OneInvoice` | one invoice over `Fields` and `Retry`: extraction, corrections, the write and its session |
| `OneInvoiceProperties`, `MCOneInvoice` | its properties and TLC's values |
| `OneInvoiceInvariant` | the inductive invariant `OneInv` of one invoice |
| `OneInvoiceProofs` | its proof and the theorems; the rules and the comparison agree with those of `InvoiceData`; induction for the loops, and the measure of the work left |
| `Billing` | beside one invoice, the calls of the extraction provider that were billed |
| `HistoryRows`, `MCHistory` | beside the pipeline, the rows that only grow: which documents were reviewed and corrected |
| `Dashboard`, `DashboardProofs` | a dashboard request with its four queries, interleaved with the pipeline |
| `SignedFiles`, `SignedFilesProofs` | signed links to the original file, and their lifetime |
| `VendorSeeding`, `VendorSeedingProofs` | the seeding script, run from any number of shells |
| `Spike`, `SpikeProofs` | the comparison of providers: the runner, its cap and its files, and the scoring |

`Ingestion`, `HumanReview` and `Posting` extend `Processes`, which extends
`Tables`, which extends `InvoiceData`; `Recovery` extends the two whose steps it
resumes. That is the model in breadth: all documents, all processes, little of
each invoice. `OneInvoice` is the model in depth, over `Fields`, which extends
`InvoiceData` too: one document, its request handlers and reviewers, every
column and every attempt. `Fields` ties the two: `Reading` maps a row of columns to
what the pipeline keeps of it, and the decisions agree.

### State

A document is a slot `d` of `Docs`. `upload[d]` is its idempotency key and
content, `state[d]` the column of that name ("ABSENT" before the row),
`audit[d]` the `from_state` of its newest history row, `retry_count`,
`extraction`, `approval`, `action` and `ledger` its other rows. `aged` holds
the documents whose `updated_at` the worker finds older than its cutoff. `job[a]`
is what actor `a` is doing: the step it will take next, the document, and the
row it has loaded. `batches[d]` counts the times `_attempt_extraction` was begun for the
document; it is the only variable with no counterpart in the code. A batch is up to
`retry_attempts` paid calls: those are counted in `Billing`, beside `OneInvoice`, which has
the attempts.

A reading has an invoice (the triple vendor, number, date; None if one is
missing), a total, whether the currency was found, and whether the remaining
rules pass. That is all the duplicate check, the threshold, the rules and the
NOT NULL columns of the ledger tell apart.

### Steps

A step is what happens between two points at which another process can see or
change the tables: a commit, or a read whose result is used after a later read
or commit. So

* `upload_document` is `UploadStart` (key lookup, then `await`), `UploadReceive`,
  `CheckHash`, `MarkHashDuplicate` or `BeginExtraction`, the extraction,
  `BeginValidation`, `RunValidation`, `CommitValidation`. `UploadFails` is 413,
  415 and the unique key. From `UploadReceive` to the end it holds the event
  loop: no other request starts, but threads already running go on.
* `OpenReview`, `OpenApproval`, `OpenAction` are the read of the document and the check
  of its state. The other rows are read by a statement of their own, after which they
  may hold what somebody has committed meanwhile: `LoadExtraction` for a correction,
  `Assess` for an approval, `CheckEligibility` and `LoadArguments` for an action.
  `Correct`, `RejectReview`, `Approve`, `Decline`, `BeginAction` and the posting are the
  commits. A refusal (404, 409, 422) that changes nothing is not a step, unless it ends
  a handler that has begun.
* the worker is `WorkerPoll` (the query and the first document), `WorkerNext`
  (the next of the same list), then `DeadLetter`, or `CountRetry` and `Resume`,
  which reads the state again; `LoadRows` reads the extraction and the action after it
  and the worker continues in the code of the request handlers with what it has loaded.

Two reads are one step only where reading them apart adds no outcome that reading them at
one moment, or not at all, does not have. In `Assess` and in `CheckEligibility` the rows
read one after the other (the action, the extraction, the approval) appear once and are
corrected at most between them, and those commits commute with each other: a handler that saw
the earlier row before one and the later row after it decides as one that read both at
a moment of some order of the same commits. In
`RunValidation` a request's document and extraction have expired with its last
commit, so they are loaded with the candidates; the worker's were loaded in `LoadRows`.

Writes: `Move` is an unconditional UPDATE with a history row. SQLAlchemy omits
the UPDATE if the state assigned is the one the object was loaded with; then
only history is written (`Note`, in `CommitSettled` and `DeadLetter`). `Correct`
writes the columns that differ from the loaded ones and keeps the others
(`Merged`, the set of rows that may result: an UPDATE names the columns in which the
corrected object differs from the loaded one, and a total entered again as it was is a
float compared with a decimal, so it may be written too). The unique columns are guards: where the row is there already, the
handler ends in `Raise`.

Errors: `DatabaseFault` ends whatever an actor was doing before its next commit.
A request just ends. The worker's error handler logs `document.id` before it
rolls back, and after a failed flush that access raises too, so the process ends
(`Raise`); an error that leaves the document loaded is survived (`StorageFails`,
`SelectFails`). `PostExhausted` is the FAILED path of `_attempt_action`. The
mock ledger rarely reaches it, because its failed flush breaks the session for
the code after it (`PostRaises`); the constant `LedgerOutages` turns it on, for
a provider that is not the same database.

Abstractions of the pipeline: attempts and delays of one retried call are one
step, a success or an exhaustion; notifications come after the commit and change
nothing. The triple of vendor, number and date is one value, so where two reviewers both
changed it `Merged` leaves any. Lists and getters are reads; `validation_results` and line items are written and never
read by a step that decides something.

### One invoice in detail

`row` is the header columns of `extraction_results`, each with a value of its SQL
type; `annotation` is what the provider answered, which may have any kind of value
in any column. `FromProvider` makes NULL of what is not a number or a date (and
keeps a text of spaces, which then counts as present); `Parsed` and `Refused` are
`parse_corrected_value`. NaN is a number, as for Python: a comparison with it is
false. Amounts are cents where the code has floats, so `RoundsOver` names the pairs
exactly 0.02 apart whose binary difference is more; the sum of subtotal and tax is
taken to be the float of its cents. The name similarity of rapidfuzz is a table, `Score`, on normalised names.

`handler` is the request or the worker's recovery at work on the invoice, with the
attempts it has made, the seconds it has slept and the last error, which is all that
`RetriesExhausted` carries. `desk[r]` is a reviewer's handler: "opened" when it has found
the document in NEEDS_REVIEW (`OpenReview`), "loaded" with the row it has read after that
(`LoadRow`), which may hold another reviewer's corrections. Each correction writes the
columns that differ from the loaded ones (`Written`), and an event for each value it was
sent. A loaded amount is a Decimal and a corrected one a float, so an amount entered
again as it was differs unless it is exact in binary: `Inexact` holds the ones that are
not, and such a column overwrites what another reviewer left there. A value too wide
for its column (`Long`: String(3), String(128), String(512), Numeric(12, 2)) fails the
flush (`Fits`): the extraction in `StoreRaises`, the correction in `CorrectFails`. The
loop over the values of a request is given by what it leaves: a column holds the last value sent for it
(`Latest`, `Held`), and an event names what the values before it left there (`Event`). The stages of a handler
follow its commits: `ProviderAnswers`, `Store`, `BeginValidation`, `Validate`;
`BeginAction`, `PostSucceeds`, `Confirm`.

`accounting` is the provider of the action. The mock's entry is part of the
transaction that `Confirm` commits, so `Abort` takes it back; an entry of an external
provider stays, and `PostFails` includes the write that landed and whose answer was
lost. `session` turns to "rolled back" when the mock's flush fails, and from then
on every use of it raises (`SessionRefuses`, `DeadLetterRaises`): the code has no
rollback on that path. `DatabaseFault` ends the handler before any of its commits.

A handler that raised leaves the document to the worker: `WorkerResumes` counts the
recovery and enters the stage of the document's state, `StorageFails` is the stored
file that cannot be read, `WorkerGivesUp` is the dead letter after `MaxRetries`. The
worker is taken to commit its counter and its own dead letter at some time; a commit
that fails there ends the process, which is `Raise` in the pipeline.

### Beside the pipeline

`HistoryRows` adds two sets to every step of the pipeline and reads nothing from
them; `RecordedSpec` is therefore the pipeline with a memory. `Dashboard` adds the
request: each of its queries is a step, because under READ COMMITTED each sees the
tables of its own moment, and `moved` collects the documents that changed state since
the first.

`VendorSeeding` counts the rows of each normalised name. `Spike` counts money in the
smallest unit of the price list; what a provider does with a document is an answer
with a charge, and the files are a function of provider and document that outlives a
run, so that a later run writes over it and `evaluate_provider` reads a mixture.

`SignedFiles` counts half seconds, because signing and checking truncate the clock
to seconds; a signature is modelled by the three things it is a function of.

## 3. What holds

With slow handlers, faults, outages, crashes, any number of threads:

* `RowsPresent`: a document's state and its rows go together; the worker's
  "shouldn't happen" branches do not happen.
* `ActionedIsUnposted`: what the worker resumes in ACTIONED has its ATTEMPTED
  row and is not posted.
* `BooksAgree`: a confirmed action and a COMPLETED document have a ledger entry,
  and each entry has an action row.
* `BatchesBounded`: a document has one batch of extraction calls and one more per counted
  retry. `OneDocumentPerKey`: two uploads with one key do not both keep their row.
* `BillBounded` (proved, without a run): what a batch may cost. The provider is called at most `retry_attempts`
  times for the upload and for each committed retry, 3 x (1 + 3) with the settings of
  `config.py`, also where the answers are lost or cannot be stored.
* `RatesInRange`: read at one moment, the corrected documents are among the reviewed
  and those among the processed. Read at the four moments of a request, an answer is
  off by at most the documents that moved meanwhile (`OffByMoves`, proved, without a run).
* `PostedAsDecided`, as long as a correction keeps the invoice and the total: what is
  posted at or above the threshold was put before an approver at that amount. That
  the decision was to approve it is not so: `DeclinedIsNotPosted` is refuted below.

For one invoice, with database faults, two reviewers and either provider:

* `UntouchedIsPayable`: what the rules pass without a person satisfies the
  ledger's NOT NULL columns and has all the duplicate check needs.
* `ValuesAccountedFor`: every value in the row and the ledger, and every original an event
  names, is the provider's or the corrected value of some event, in whatever order
  two reviewers load and commit.
* `ColumnsTypeOK`: the row, what was posted and what a reviewer has loaded hold values of
  their SQL types, and the row none that is too wide.
* `PayablesBounded`: the mock has one entry at most. An external provider has one for
  each attempt at most, because nothing identifies a repeated write to it.
* `Settles`: whatever raises, and however often, an invoice in EXTRACTING, VALIDATING or
  ACTIONED comes to a state where a person sees it (`SEEN_STATES`), or its handler
  raises while it is EXTRACTED. The exception is real: the worker does not scan for
  EXTRACTED, and a fault between the two commits leaves the document there for good
  (`left_stuck`).
* `ReasonIsTheCause`: a dead letter names the provider's error, or that the worker
  gave up. `SleptBetweenAttempts`, `HandlerEnds`: the retry loop's delays and its end.
* `WorkRunsOut`: every step of a handler, every failure and every recovery takes something
  from the work that is left (`WorkLeft`), and no correction or rejection, however late,
  adds to it. So the steps for one invoice run out, whatever fails.
* `ReadingDecidesAlike`, `MatchIsFirstBest`: the pipeline's decisions are those on
  columns; the vendor suggested is the first of the best.

As long as no handler outlasts the worker's timeout (`SlowOwners = FALSE`):

* `FailedIsUnposted` (nothing recorded as failed was paid), with any operators.
* `NoDoublePayment`, with any operators, as long as a correction keeps the
  invoice and the total (`IdentityKept`, `KeepsIdentity`).
* `SameFileExtractedOnce`, `AuditChain` (each history row names the state the
  document was in) and `FollowsLifecycle`, with one operator at a time.
* What is paid is what was signed, with one operator at a time: an amount in the ledger is
  the one approved, or below the threshold and decided by nobody. This is only proved
  (`PaidAsSigned`, in `SingleOwner`), for it says what the races of the runs below take: a
  second operator. With one, nothing can come between the approver and the posting.
* `InFlightMovesOn` (liveness).

The timeout is `worker_stuck_timeout_seconds` = 300, and nothing in the code
keeps a handler below it or tells the worker that one is running.
`SlowOwners = FALSE` is therefore an assumption about deployment, and the
properties under it are listed apart. The other two assumptions are needed too:
each has a run that shows what happens without it. The delays between attempts are not
what makes a handler slow: a batch of n attempts sleeps less than 2^(n-1) base delays
(`SleepIsBounded`), which for the three attempts of `config.py` and the 0.1 seconds of
`retry.py` is less than half a second of the 300. The calls themselves are, since none
is given a time limit by the code that retries it.

### What the repository says and the code does not keep

| Run | Property | The statement |
|---|---|---|
| `left_stuck` | `NeverLeftStuck` | `docs/state-machine.md:42`: the worker scans for anything not terminal, never left stuck |
| `mutual_duplicates` | `OriginalSurvives` | `docs/state-machine.md:18`: matched to an already-processed invoice |
| `blocked_retry` | `FailedDoesNotBlock` | `duplicate_detection.py:55`: a failed attempt should not block a retry |
| `declined_posted` | `DeclinedIsNotPosted` | `accounting.py:56`: a rejected document never reaches the check |
| `unapproved_amount` | `PostedWithApproval` | `docs/api.md:62`: an existing `approvals` row |
| `double_payment` | `NoDoublePayment` | `docs/reliability.md:26`: content-level dedupe routes the second one to DUPLICATE |
| `unrecorded_failure` | `ExhaustionIsRecorded` | `docs/api.md:62`: retries exhausted, the document moves to `FAILED` |

`PROJECT.json` says for each what the counterexample is. None of them needs a slow
handler.

More disagreements follow from single definitions and have no run:

* `docs/reliability.md:17` and `:27`, and the comment of `AccountingAction` in `models.py`,
  say that it is checked whether a write landed before writing again. No code asks, and
  `create_payable` is not given the idempotency key (`PostFails`, `PayablesBounded`).
  It does no harm with the mock, whose entry is in the transaction that confirms it;
  a provider elsewhere would have up to three entries for each recovery.
* `metrics.py:57` takes the corrected documents to be a subset of the reviewed ones and
  those of the processed ones. Its callers count them at four moments, between which a
  document can move (`Dashboard`), so a rate can pass 1 and the straight-through count
  fall below 0.
* A provider's answer whose line items are null raises after the paid call and is
  retried, so the same document is paid for three times (`ExtractionFails`).
* `seed_vendors.py:49` calls itself idempotent, which two shells at once are not: the
  column is not unique (`VendorSeeding`).
* The spike "refuses to keep going once estimated real spend crosses" the cap
  (`run_spike.py:9`): it looks after the paid call, and an answer that ends in an error
  is not part of the estimate (`StopAtCap`, `Cost`).
* `docs/reliability.md:12` promises to honour the provider's retry-after; the delays are
  the fixed ones of `Retry`.
* A correction that leaves the total empty makes a document VALIDATED that
  approve, reject and action all refuse (`Correct`, `review.py:154`), against "ready
  for the approval/action decision" in `docs/state-machine.md:14`.
* A failed flush in one recovery ends the pass and the worker (`Raise`,
  `worker.py:198`), against "caught and logged rather than aborting the whole pass"
  in `worker.py:169`.
* With a slow handler, the late failure of the first owner writes FAILED over the
  COMPLETED of the worker (`PostExhausted`, `actions.py:131`), though
  `docs/state-machine.md:16` calls COMPLETED terminal.
* NaN is accepted as a total from the provider and from a reviewer, passes the
  arithmetic rule, is below every threshold and matches every total (`Balanced`,
  `ContentDuplicate`).
* A text of spaces passes `check_required_fields`, and a currency longer than three
  characters makes the commit after a paid extraction raise, each time it is
  resumed (`FromProvider`, `StoreRaises`).

## 4. Runs and bounds

The first four runs and six of the violations instantiate `MCPipeline` (`payment` with
the history rows beside it, in `MCHistory`); the threshold is 3, amounts are 1 to 3 and the
tolerance is 1, so 3 is the boundary of the approval rule and the tolerance
matches 1 with 2 and 2 with 3 but not 1 with 3. One retry of the worker is
enough for the three cases (fresh, retried, given up).

| Run | Documents | Threads | Slow | Faults | Outages | Crashes | States |
|---|---|---|---|---|---|---|---|
| `operators` | 1 | 2 | yes | yes | yes | 1 | about 275,000 |
| `payment` | 2 files, same invoice | 1 | no | yes | yes | 1 | about 126,000 |
| `paid_once` | 2 files, same invoice | 2 | no | yes | yes | 0 | about 1,226,000 |
| `recovery` | 2 files, same invoice | 1 | no | no | yes | 1 | about 91,000 |

`paid_once` leaves the crash out: what a crash of the web process does to the tables is what
database faults do to each of its handlers in turn and failed uploads to those that wait
for a body, and faults are on; what the crash of the worker
does is a fault in its recovery, the list it loses is found again by its next pass.
Crashes proper are in the other three, and the theorems have any number of them.

`one_invoice` instantiates `MCOneInvoice` (about 247,000 states): the provider answers
correctly or slips in one column (missing, blank, wrong kind, slightly different or
too wide), two reviewers choose among nine requests, which include several
values, the amount that is there already, a bad value after a good one, NaN, an emptied
currency, and a currency and a total too wide for their columns.
Each rule and each refusal is broken by a single column, and two reviewers
are what it takes for one to overwrite the other's row; attempts are the code's
three (two for notifications), and one recovery is enough to resume each state and to
give up. The accounting provider is chosen when the action begins. Amounts are cents around 8 + 2 = 10 with a
tolerance of 2, so 12 is within it, 13 is not, and 8 is not either although it is 2
away (`RoundsOver`).

Named bounds: `MaxRetries` is the code's own; `MaxCrashes` bounds the
environment; the document slots bound the uploads; `batches` is bounded by the
retries. What happens to one document involves at most its upload, the worker
and two operators who race, so one document with two threads covers the races
between operators; the properties that relate two documents (duplicates,
payments, keys) are about pairs. Which of the two files an upload sends is its
choice, so `payment` has both kinds of duplicate. `blocked_retry` has three copies
of one file, for the duplicate of a duplicate.

Documents, keys and threads are interchangeable (no constant depends on them and
no property names one), which makes `Symmetry` sound in the safety runs; files
are kept apart because `ReadingsOf` depends on them. The liveness runs use no
symmetry. Deadlock is not checked: with every slot used and every document
terminal the system has nothing left to do.

Fairness (`FairSpec`): a handler that has begun goes on, because it is a running
thread or coroutine; the worker polls, because `main` is a loop; time passes; a
dead worker is started again, because `worker.py` expects an operator or cron to
do so. Nobody has to upload, review, approve or post, and nothing has to fail.
`recovery` runs without database faults: a fault that hits every attempt before
its first commit is not excluded by any fairness of the scheduler. In `one_invoice`
the running handler and the worker are fair; reviewers and new requests are not.
There database faults are on, and `Settles` holds nevertheless, because each fault costs
a recovery and the recoveries are counted; what it takes for granted is that the worker
gets its own counter or dead letter committed in the end.

Every property of a passing run has a mutant in `PROJECT.json`: a fault put into
one definition (the operators marked "Fault:" beside the definitions they
replace) that makes TLC find the property violated.

## 5. Proofs

`PipelineProofs` proves `IInv` inductive and from it `TypeOK`, `RowsPresent`,
`ActionedIsUnposted`, `BooksAgree`, `BatchesBounded` and `OneDocumentPerKey`, for every set of documents,
keys, files, invoices, amounts and threads, every bound on retries and crashes,
and with slow handlers, faults and outages. The assumptions are the named
ASSUMEs of `InvoiceData`, `Tables` and `Processes`: None is not a value, amounts are integers,
the bounds are naturals, readings and corrections are well formed, and the loop
and the worker are not threads.

But for the keys, none of them is inductive. A commit does not look at the row again, so it
keeps the rows in order only because of what its handler saw before and because
of what cannot be undone since. `IInv` adds:

* `Custody`: who works on what. A RECEIVED document is in the hands of the
  upload that stored it and in no list of the worker; any other handler has a
  document that has left RECEIVED. The state never returns to RECEIVED.
* `Loaded`: what a handler has passed: after extraction the row is there for
  good; at `posting` the action row is.
* `Rows`: the relation of state and rows, in all states.
* `Spending`: batches against retries, with the retry counted before the batch, and
  no batch for a RECEIVED document.

There is one lemma per action (`...Keeps`), each with one step per conjunct, and
`NextKeeps` puts them together along the structure of `Next`.

`TimelyProofs` proves what holds while no handler outlasts the timeout (`~SlowOwners`), with
any number of documents, operators, retries and crashes, with faults and outages. `Timely`
is inductive together with `IInv`:

* `Places`: a handler of the upload or the worker finds its document in the state it left it
  in. An operator's document has been validated, and no more: another operator's late
  decision may have taken it to any of the states in `Validated`.
* `Alone`: the upload and the worker have their document to themselves; operators race
  with each other only.
* `Abandoned`: what the worker's query or its list names is in no handler's hands. A
  document ages only when nobody has it; this is where the assumption is used.
* `PostedOnce`: one handler at a time is about to post a document, the ATTEMPTED row is
  still as it wrote it, and the document has not failed; what is posted stays confirmed. The
  unique row of `accounting_actions`, not the state, is what decides between two operators.

`FailedIsUnposted` is a consequence. For `NoDoublePayment` the invariant has to say who may
still be paid: `MayBePaid` are the documents in the ledger, those in a state from
which an operator or the worker can post and those whose verdict is about to be committed.
`Screened` says that of two documents with one invoice not both are. Every step
but one is harmless, that is, it keeps the readings and brings nobody into `MayBePaid`
(`...Harmless`); the one that does, `RunValidation`, has compared its document with the
reading of every other that has not failed, and those were written before their
own verdicts. `SameAsExtracted` carries the reading to the ledger; it needs
`KeepsIdentity`, that corrections keep invoice and total, and the comparison needs
`RoundingIsSymmetric`, that `abs(x - y)` is the same float both ways. The run `double_payment` shows that the first
cannot be dropped. `PostedAsDecided` is proved beside them, for any operators and also
with slow handlers, since it only takes `IInv`, `KeepsIdentity` and an invariant of its own
(`SeenAsExtracted`, `Decided`): with the totals kept, the amount an approver has read, the approvals
row, the amount found eligible and the amount that is posted are all the one extracted.

`SignedFilesProofs` proves `LinkLifetime`: a link opens its file under its own key
and for less than `expires_in` + 1 seconds, and is refused only under another key
or after `expires_in`. The invariant says that each link's expiry and signature are
what signing made of the time it was handed out; the rest is arithmetic of the
half-second clock. Its history variables grow without bound, so it is left to the
proof and no run explores it.

`OwnerProofs` proves what holds with one operator and no slow handler (`OneOperator`),
for every number of documents and every bound on retries and crashes, with faults and
outages. The invariant is `Ownership`, inductive together with `IInv`:

* `Fits`: a handler, also an operator's, finds its document in the state it left it in.
* `Exclusive`: no two actors have the same document.
* `Abandoned`, as in `Timely`.
* `PostedIsCompleted`, `Cleared`, `Signatures`: the ledger against the state, the hash
  check against the batches, the approval against the amount in the row.

With a second operator `Exclusive` fails at once, because opening a document locks nothing.
From `Ownership` follow `SameFileExtractedOnce` as a state property, and by one lemma for
each kind of step `Transition`: every step is a transition of `Lifecycle` or none, and
its history row names the state before. That gives `AuditChain` and the refinement
`FollowsLifecycle`. `PaidAsSigned` is inductive beside it: `Signatures` holds the row of an ACTIONED
document to its approval until the posting reads it, and a decision comes only to a VALIDATED
document, which `PostedIsCompleted` keeps out of the ledger. `DeclinedIsNeverPosted`
follows.

`OneInvoiceProofs` is about the columns. It proves, for any texts, amounts, vendors and
similarity, that the pipeline's `RulesPass` and `SameInvoice` on `Reading(row)` decide as the
rules and the duplicate check on columns (`RulesOnReading`, `ComparisonOnReadings`; the
second needs totals that are not NaN). So the pipeline loses nothing by keeping readings.
Then it proves `OneInv` inductive, for every set of answers, requests and reviewers, every
number of attempts and of retries, with or without database faults:

* `Stages`: where the handler is, and where that leaves the document.
* `Columned`: the row is as extracted and has no event until somebody commits a correction,
  and it fits its columns.
* `Loaded`: what a reviewer has loaded was extracted or is accounted for by an event, however
  late the reviewer is.
* `Counted`, `Blamed`: the attempts of a loop; on a session that can still be used its last
  error is the provider's, which is why a dead letter that commits names it.
* `Entries`, `Attempted`: the ledger against the action, the handler and the retries.
* `ReasonIsTheCause` and `ValuesAccountedFor` as they are stated.

From it follow `ColumnsTypeOK`, `UntouchedIsPayable`, `ValuesAccountedFor`, `ReasonIsTheCause`, `PayablesBounded` and `ReadingDecidesAlike`. The audit
trail is the step with an argument: a correction writes the columns in which it differs
from the desk, which may be older than the row, and those sent again that only look the same,
so each value it leaves is the row's (accounted for before), or that of the last value sent
for the column, which has its event (`HeldComesFrom`). The assumptions are `AnswersAreWellFormed` and
`RequestsAreWellFormed` (what is answered or typed for a text column stands as the text it
is stored as, whatever its JSON type) and `NoneIsNoRow`.

Two more of its properties are about loops, and their proofs are inductions. The library's
induction theorems take an operator, which the provers cannot instantiate; so the module
starts from the well-foundedness of the naturals, stated there of a set (`Least`,
`Induction`), and shows that an iteration has exactly one value at each number
(`PrefixExists`, `PrefixUnique`, `Iteration`). With that, functions defined by recursion
satisfy their definitions:

* `PowerOfTwo` doubles and grows, so `SleptBetweenAttempts` holds for any number of attempts
  (`DelaysDouble`), and a batch stays below its bound (`SleepIsBounded`).
* `Matches` is the loop of `find_best_match`, as a function of how many vendors it has seen.
  What it holds is the first of the best so far (`MatchesInOrder`), so `MatchIsFirstBest` holds
  for any vendors (`BestMatchIsFirst`). `documents.py:270` selects the vendors without an
  order, so which of two equally similar ones is suggested is up to the database; whether
  the name counts as known is not (`VerdictIgnoresOrder`). `ScoresAreWellFormed` is
  needed: scores are numbers from 0 to 100. rapidfuzz returns floats, of which
  only the order, and the comparison with the threshold, matter.

`WorkIsBounded` is `WorkRunsOut` for every bound on attempts and recoveries. The measure counts
what a handler can still do (`StepsLeft`), what each recovery that is left would start anew
(`RecoveriesLeft`), the notices of a dead letter and those of an action that has not begun. There are
three kinds of step: one goes on in a handler or ends it (`Shortens`); one starts a handler
out of what was reserved for it (`RecoveryLeavesLess`, `GivingUpLeavesLess`, `ActionLeavesLess`);
and a reviewer's leaves handler, retries and action alone, and takes the document, whatever
has become of it, only to states the worker does not resume (`ReviewerAddsNothing`). `OneInv` bounds the attempts and retries the measure subtracts, and says which loop
a handler is in.

`BillIsBounded` counts what a batch may cost, for any bounds on attempts and retries. The
invariant `Charged` says that beside the batch that runs there are only complete ones: while
the handler extracts, the bill is within `retry_attempts` for each retry before, and
the attempts it has made; and no step but a call of the provider adds to it.

`DashboardProofs` proves `RatesInRange` without any assumption on timing: its invariant
`Trail` says which states a reviewed document can be in and which handlers can still
write over them; a late owner can move a reviewed document to another state, but to none
in flight that counts as unprocessed. From it follows `OffByMoves` for the request's
four moments.

`SpikeProofs` and `VendorSeedingProofs` are about small sequential scripts with counts
that a run would have to bound: the estimate against the cap and the bill, the files
against the samples, rows of a name against shells.

The modules without a run are `SignedFiles`, `Billing`, `Dashboard` (its request), `Spike` and
`VendorSeeding`: what they say is proved for all values of their constants. The counts of
the second and the record of the third are history variables, which would only multiply
the states of the runs of `OneInvoice` and of the pipeline.

Only model-checked: the liveness properties `InFlightMovesOn`, `HandlerEnds` and `Settles`,
since liveness under fairness is out of the prover's reach. For the last two, `WorkIsBounded` is
the half that can be proved: steps run out. That one is enabled as long as the invoice is
in flight, and that fairness takes it, is what TLC adds. Every other property of
a passing run is a theorem.

## 6. Plan

Done, in this order: the tables and processes, the components of the pipeline,
their composition, `Lifecycle`, the properties, the invariant and its proofs; `Fields`,
`Retry`, `OneInvoice` and `SignedFiles` with their proofs; the worker and an external
ledger in `OneInvoice`; the history rows and the dashboard; the single owner and the
refinement; seeding and spike.

Then the proofs for any number of operators and those of one invoice; the loops of the
retries and of the vendor match by induction, the bound on the work, and what is paid
against what was signed.

Next: time as a number, for the length of the calls themselves: the delays are bounded
(`SleepIsBounded`), the calls are not, and `SlowOwners` stands for both.

## 7. Not modelled

Authentication is one comparison of a shared token before every handler, and request and
response schemas are shapes: neither keeps state. Health answers a constant. The running
of migrations is a deployment step; the tables they create are the initial state. The text
of notifications and the flag `notification_sent` decide nothing. The Mistral adapter's
requests are the choice of an answer, rapidfuzz a table of scores. Line items and
`validation_results` are write-only for the pipeline. Of the spike, drawing and degrading
the synthetic invoices, confidences, latencies and the text of the report are left out:
they are functions of one document each, with no state.

## 8. Running

    tlc -workers 2 -config operators.cfg MCPipeline.tla
    tlc -workers 2 -config one_invoice.cfg MCOneInvoice.tla
    tlc -workers 2 -config payment.cfg MCHistory.tla
    tlapm PipelineProofs.tla
    tlapm TimelyProofs.tla
    tlapm OneInvoiceProofs.tla

and in the same way for the other configurations and the other proof modules.
