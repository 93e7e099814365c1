------------------------ MODULE OneInvoiceInvariant ------------------------
(***************************************************************************)
(* The inductive invariant of one invoice in full detail: what each step   *)
(* of a handler and each phase of the document say about its columns, its  *)
(* trail, the retry loop and the ledger.                                   *)
(***************************************************************************)
EXTENDS OneInvoiceProperties

Rows == {x \in [EXTRACTED_FIELDS -> Values] : IsRow(x)}

Steps == Calls \cup {"store", "begin validation", "validate", "confirm",
                     "idle", "raised"}

(* The document before a person or the rules have decided about it.        *)
Unreviewed ==
  {"EXTRACTING", "EXTRACTED", "VALIDATING", "NEEDS_REVIEW"}

DocumentTypeOK ==
  /\ annotation \in Annotations \cup {None}
  /\ row \in Rows \cup {None}
  /\ posted \in Rows \cup {None}
  /\ desk \in [Reviewers -> [at : {"away", "opened", "loaded"},
                           row : Rows \cup {None}]]
  /\ phase \in Unreviewed \cup
       {"VALIDATED", "ACTIONED", "COMPLETED", "REJECTED", "FAILED"}
  /\ action \in {"NONE", "ATTEMPTED", "CONFIRMED", "FAILED"}
  /\ accounting \in {"none", "mock", "external"}
  /\ payables \in Nat
  /\ retry_count \in 0 .. MaxRetries

HandlerTypeOK ==
  /\ DOMAIN handler = {"at", "tries", "slept", "last"}
  /\ handler.at \in Steps
  /\ handler.tries \in Nat
  /\ handler.last \in Errors \cup {"none"}
  /\ session \in {"usable", "rolled back"}

OneTypeOK == DocumentTypeOK /\ HandlerTypeOK

(* Where the handler is, and where that leaves the document.               *)
Stages ==
  /\ handler.at \in {"extract", "store"} => phase = "EXTRACTING"
  /\ handler.at = "store" => annotation # None
  /\ handler.at = "begin validation" => phase = "EXTRACTED"
  /\ handler.at = "validate" => phase = "VALIDATING"
  /\ handler.at \in {"post", "confirm"} =>
       action = "ATTEMPTED" /\ phase \notin Unreviewed
  /\ phase = "ACTIONED" => action = "ATTEMPTED"

(* The columns: as extracted until somebody corrects them.                 *)
Columned ==
  /\ phase = "EXTRACTING" => row = None
  /\ row = None => phase \in {"EXTRACTING", "FAILED"} /\ action = "NONE"
  /\ row # None => annotation # None
  /\ phase \in Unreviewed /\ row # None => row = FromProvider(annotation)
  /\ phase \in Unreviewed => events = {} /\ action = "NONE"
  /\ row = None => events = {}
  /\ row # None => Fits(row)
  /\ phase \in {"VALIDATED", "ACTIONED"} /\ events = {} => Passes(row)
  /\ phase \in {"VALIDATED", "ACTIONED"} => row # None

(* What a reviewer has loaded was extracted or corrected before.           *)
Loaded ==
  \A r \in Reviewers :
    /\ desk[r].at = "loaded" <=> desk[r].row # None
    /\ desk[r].at # "away" =>
         /\ row # None
         /\ phase \notin Unreviewed \ {"NEEDS_REVIEW"}
    /\ desk[r].at = "loaded" =>
         \A c \in EXTRACTED_FIELDS : Accounted(c, desk[r].row[c])

(* No call is tried more often than configured. *)
Counted == handler.at \in Calls => handler.tries <= Attempts[handler.at]

(* The last error of a loop, and the session it leaves. *)
Blamed ==
  /\ session = "rolled back" => handler.at = "post" /\ accounting = "mock"
  /\ handler.at \in Calls /\ handler.tries > 0 /\ session = "usable" =>
       handler.last = "provider"

(* The writes that n handlers may attempt. *)
Budget(n) == Attempts["post"] * n

(* The entries of the ledger. *)
Entries ==
  /\ accounting = "none" <=> action = "NONE"
  /\ posted # None <=> payables > 0
  /\ action = "NONE" => payables = 0
  /\ action = "CONFIRMED" \/ handler.at = "confirm" => payables > 0
  /\ accounting = "mock" =>
       /\ payables <= 1
       /\ action = "ATTEMPTED" /\ handler.at # "confirm" => payables = 0

(* An external ledger has an entry for each attempt at most. *)
Attempted ==
  accounting = "external" =>
    /\ handler.at = "post" => payables <= Budget(retry_count) + handler.tries
    /\ handler.at # "post" => payables <= Budget(retry_count + 1)

OneInv ==
  /\ OneTypeOK
  /\ Stages
  /\ Columned
  /\ Loaded
  /\ Counted
  /\ Blamed
  /\ Entries
  /\ Attempted
  /\ ReasonIsTheCause
  /\ ValuesAccountedFor
=============================================================================
