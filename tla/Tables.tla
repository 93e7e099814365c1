------------------------------- MODULE Tables -------------------------------
(***************************************************************************)
(* The relational tables of the invoice pipeline, one row per document,    *)
(* and the way every handler writes the row of a document: the state is    *)
(* assigned on the object read earlier and committed as an unconditional   *)
(* UPDATE, never compared with what the table holds by then.               *)
(*                                                                         *)
(* A document is one slot of Docs, and what extraction produces a reading. *)
(***************************************************************************)
EXTENDS InvoiceData

CONSTANTS
  Docs,          \* slots for uploaded documents
  Keys,          \* idempotency keys
  Files,         \* file contents: equal files have equal hashes
  MaxRetries,    \* worker_max_retries
  ReadingsOf,    \* what extraction may return for a file
  Corrections    \* pairs: a reading and what a reviewer turns it into

ASSUME NoneIsNoValue ==
  /\ None \notin Docs
  /\ None \notin Amounts
  /\ None \notin Readings
  /\ None \notin [key : Keys, file : Files]
  /\ None \notin [amount : Amounts, decision : {"APPROVED", "REJECTED"}]

ASSUME RetriesAreBounded == MaxRetries \in Nat

ASSUME ReadingsAreWellFormed ==
  /\ ReadingsOf \in [Files -> SUBSET Readings]
  /\ Corrections \subseteq Readings \X Readings

VARIABLES
  upload,       \* idempotency key and content hash of the document
  state,        \* documents.state, "ABSENT" before the row exists
  audit,        \* from_state of the newest state_history row
  aged,         \* documents whose updated_at is behind the worker's cutoff
  retry_count,  \* documents.retry_count
  extraction,   \* the extraction_results row
  approval,     \* the approvals row
  action,       \* accounting_actions.status, "NONE" without a row
  ledger        \* the ap_ledger_entries row: the reading that was posted

tables == <<upload, state, audit, aged, retry_count, extraction,
            approval, action, ledger>>

DocumentState ==
  {"RECEIVED", "EXTRACTING", "EXTRACTED", "VALIDATING", "NEEDS_REVIEW",
   "VALIDATED", "ACTIONED", "COMPLETED", "REJECTED", "DUPLICATE", "FAILED"}

ActionStatus == {"NONE", "ATTEMPTED", "CONFIRMED", "FAILED"}

TablesInit ==
  /\ upload = [d \in Docs |-> None]
  /\ state = [d \in Docs |-> "ABSENT"]
  /\ audit = [d \in Docs |-> "ABSENT"]
  /\ aged = {}
  /\ retry_count = [d \in Docs |-> 0]
  /\ extraction = [d \in Docs |-> None]
  /\ approval = [d \in Docs |-> None]
  /\ action = [d \in Docs |-> "NONE"]
  /\ ledger = [d \in Docs |-> None]

TablesTypeOK ==
  /\ upload \in [Docs -> [key : Keys, file : Files] \cup {None}]
  /\ state \in [Docs -> DocumentState \cup {"ABSENT"}]
  /\ audit \in [Docs -> DocumentState \cup {"ABSENT"}]
  /\ aged \subseteq Docs
  /\ retry_count \in [Docs -> 0 .. MaxRetries]
  /\ extraction \in [Docs -> Readings \cup {None}]
  /\ approval \in [Docs -> [amount : Amounts,
                            decision : {"APPROVED", "REJECTED"}] \cup {None}]
  /\ action \in [Docs -> ActionStatus]
  /\ ledger \in [Docs -> Readings \cup {None}]

-----------------------------------------------------------------------------
(* Writing a row.  Every transition appends a state_history row whose      *)
(* from_state is the one the handler names, and touches updated_at.        *)

Move(d, from, to) ==
  /\ state' = [state EXCEPT ![d] = to]
  /\ audit' = [audit EXCEPT ![d] = from]
  /\ aged' = aged \ {d}

(* A state assigned to an object that was loaded with it writes no UPDATE: *)
(* only the state_history row is added. *)
Note(d, from) ==
  /\ audit' = [audit EXCEPT ![d] = from]
  /\ UNCHANGED <<state, aged>>

UnmovedRows == UNCHANGED <<state, audit, aged>>

-----------------------------------------------------------------------------
(* Reading the rows of the other documents.                                *)

Stored == {d \in Docs : state[d] # "ABSENT"}

SameFile(d, e) == upload[d].file = upload[e].file

(* Fault: a document counts as submitted only once it is extracted. *)
HashCandidatesExtracted(d) ==
  {e \in Stored \ {d} : /\ state[e] # "FAILED"
                        /\ extraction[e] # None
                        /\ SameFile(d, e)}

HashCandidates(d) ==
  {e \in Stored \ {d} : /\ state[e] # "FAILED"
                        /\ SameFile(d, e)}

(* Fault: only documents that are already paid count. *)
ContentCandidatesPaid(d, x) ==
  {e \in Stored \ {d} : /\ state[e] = "COMPLETED"
                        /\ extraction[e] # None
                        /\ SameInvoice(x, extraction[e])}

(* x is what was loaded of d's own reading. *)
ContentCandidates(d, x) ==
  {e \in Stored \ {d} : /\ state[e] # "FAILED"
                        /\ extraction[e] # None
                        /\ SameInvoice(x, extraction[e])}

=============================================================================
