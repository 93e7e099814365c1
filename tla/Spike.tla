------------------------------- MODULE Spike -------------------------------
(***************************************************************************)
(* The comparison of extraction providers: run_spike sends every sample to *)
(* every provider whose keys are set and keeps each answer in a file;      *)
(* evaluate scores the files against the ground truth.  The files outlive  *)
(* a run: a later one writes over them, and evaluate reads what is there.  *)
(*                                                                         *)
(* Money is counted in the smallest unit of the price lists.  Where values *)
(* are on the page, tokens and pages of an answer are its charge.          *)
(***************************************************************************)
EXTENDS Integers, Sequences, FiniteSets

CONSTANTS
  Samples,      \* the sample files, in the order of their names
  DocIds,       \* names of documents
  Stem,         \* name of the document in a sample file
  Requests,     \* values of --providers
  BudgetCap,    \* --budget-cap
  Answers,      \* what a provider may do with a document: see AnswerOK
  MaxCharge,    \* no single call costs more
  Truth,        \* values by document with a ground truth and field
  Form,         \* what _normalize makes of a value
  None

PROVIDERS == {"azure", "mistral", "claude"}

CRITICAL_FIELDS ==
  {"invoice_number", "invoice_date", "due_date", "currency", "subtotal",
   "tax", "total"}

EVALUATED_FIELDS == CRITICAL_FIELDS \cup {"vendor_name"}

VARIABLES
  results,     \* by provider and document: what its file holds, or None
  available,   \* providers of this run
  doc_path,    \* position in Samples of the next call
  provider,    \* position in available of the next call
  estimate,    \* total_estimated_cost
  billed,      \* what the providers charge for this run
  unpriced,    \* calls of this run whose cost the estimate leaves out
  status

vars == <<results, available, doc_path, provider, estimate, billed, unpriced,
          status>>

NoValues == [f \in EVALUATED_FIELDS |-> None]

AnswerOK(a) ==
  /\ a.outcome \in {"fields", "unrecognised", "raises"}
  /\ a.charge \in 0..MaxCharge

-----------------------------------------------------------------------------
(* run_spike                                                               *)

(* A provider that raises, or finds no invoice, leaves an error and no     *)
(* estimate, whether the call was charged or not.  Mistral has no answer   *)
(* for "no invoice": every field is then None. *)
Extracted(name, answer) ==
  /\ answer.outcome # "raises"
  /\ answer.outcome = "unrecognised" => name = "mistral"

Priced(name, answer) == Extracted(name, answer) /\ name # "azure"

Cost(name, answer) == IF Priced(name, answer) THEN answer.charge ELSE 0

RunOne(name, answer) ==
  [error  |-> ~Extracted(name, answer),
   values |-> IF Extracted(name, answer) /\ answer.outcome = "fields"
                THEN answer.values ELSE NoValues]

Init ==
  /\ results = [p \in PROVIDERS |-> [d \in DocIds |-> None]]
  /\ available = <<>>
  /\ doc_path = 1
  /\ provider = 1
  /\ estimate = 0
  /\ billed = 0
  /\ unpriced = 0
  /\ status = "idle"

(* _available_providers: the requested ones whose keys are set, in order.  *)
(* "at" gives their positions in the request. *)
Skipping(requested, configured) ==
  {[k \in DOMAIN at |-> requested[at[k]]] :
     at \in {at \in UNION {[1..n -> DOMAIN requested] : n \in 0..Len(requested)} :
              /\ \A j, k \in DOMAIN at : j < k => at[j] < at[k]
              /\ \A i \in DOMAIN requested :
                   requested[i] \in configured
                     <=> \E k \in DOMAIN at : at[k] = i}}

(* Without samples or keys the program exits. *)
Start(requested, configured) ==
  /\ status # "running"
  /\ Samples # <<>>
  /\ available' \in Skipping(requested, configured) \ {<<>>}
  /\ doc_path' = 1
  /\ provider' = 1
  /\ estimate' = 0
  /\ billed' = 0
  /\ unpriced' = 0
  /\ status' = "running"
  /\ UNCHANGED results

Called(name, answer) ==
  /\ status = "running"
  /\ name = available[provider]
  /\ estimate' = estimate + Cost(name, answer)
  /\ billed' = billed + answer.charge
  /\ unpriced' = IF Priced(name, answer) THEN unpriced ELSE unpriced + 1
  /\ UNCHANGED available

LastProvider == provider = Len(available)

Save(name, answer) ==
  /\ Called(name, answer)
  /\ ~(estimate' > BudgetCap)
  /\ results' = [results EXCEPT ![name][Stem[Samples[doc_path]]] =
                   RunOne(name, answer)]
  /\ provider' = IF LastProvider THEN 1 ELSE provider + 1
  /\ doc_path' = IF LastProvider THEN doc_path + 1 ELSE doc_path
  /\ status' = IF LastProvider /\ doc_path = Len(Samples)
                 THEN "done" ELSE "running"

(* The cap is looked at after the call. *)
StopAtCap(name, answer) ==
  /\ Called(name, answer)
  /\ estimate' > BudgetCap
  /\ status' = "stopped"
  /\ UNCHANGED <<results, doc_path, provider>>

Next ==
  \/ \E requested \in Requests, configured \in SUBSET PROVIDERS :
       Start(requested, configured)
  \/ \E name \in PROVIDERS, answer \in Answers :
       Save(name, answer) \/ StopAtCap(name, answer)

Spec == Init /\ [][Next]_vars

-----------------------------------------------------------------------------
(* evaluate_provider                                                       *)

Match(extracted, expected) == Form[extracted] = Form[expected]

Present(name) == {d \in DocIds : results[name][d] # None}

Errors(name) == {d \in Present(name) \cap DOMAIN Truth : results[name][d].error}

Scored(name) == (Present(name) \cap DOMAIN Truth) \ Errors(name)

Correct(name, field) ==
  {d \in Scored(name) : Match(results[name][d].values[field], Truth[d][field])}

CriticalErrors(name) ==
  {miss \in CRITICAL_FIELDS \X Scored(name) :
     miss[2] \notin Correct(name, miss[1])}

(* Rates are these counts over each other. *)
evaluate_provider(name) ==
  [documents_evaluated |-> Cardinality(Present(name)),
   errors              |-> Cardinality(Errors(name)),
   field_total         |-> Cardinality(Scored(name)),
   field_correct       |-> [f \in EVALUATED_FIELDS |->
                              Cardinality(Correct(name, f))],
   critical_errors     |-> CriticalErrors(name)]

-----------------------------------------------------------------------------
(* "Refuses to keep going once estimated spend crosses the cap": the       *)
(* estimate passes it by at most the last call, whose result is not saved; *)
(* the bill passes the estimate by at most the calls that went unpriced. *)
BudgetKept ==
  /\ status # "stopped" => estimate <= BudgetCap
  /\ estimate <= BudgetCap + MaxCharge
  /\ billed <= estimate + MaxCharge * unpriced

(* A run that ends by itself has put every sample with a ground truth      *)
(* before every provider: the evaluation scores it or counts its error. *)
FinishedIsEvaluated ==
  status = "done" =>
    \A k \in 1..Len(available), n \in 1..Len(Samples) :
      Stem[Samples[n]] \in DOMAIN Truth =>
        Stem[Samples[n]] \in Scored(available[k]) \cup Errors(available[k])
=============================================================================
