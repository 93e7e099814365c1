------------------------ MODULE OneInvoiceProperties ------------------------
(***************************************************************************)
(* What holds of one invoice in full detail, and one promise of the        *)
(* documentation that does not.                                            *)
(***************************************************************************)
EXTENDS OneInvoice

(* Every column holds a value of its SQL type, whatever a provider         *)
(* answered and a reviewer typed, in the table, in the ledger and on the   *)
(* row that a reviewer's handler has loaded; and no column holds a value   *)
(* that is too wide for it. *)
ColumnsTypeOK ==
  /\ row # None => IsRow(row) /\ Fits(row)
  /\ \A r \in Reviewers :
       IF desk[r].at = "loaded" THEN IsRow(desk[r].row)
                                ELSE desk[r].row = None
  /\ posted # None <=> payables > 0
  /\ posted # None => IsRow(posted)
  /\ session \in {"usable", "rolled back"}
  /\ retry_count \in 0 .. MaxRetries
  /\ handler.last \in Errors \cup {"none"}

(* What the rules let through without a person can be posted: no required  *)
(* field is missing that the ledger's NOT NULL columns, the eligibility    *)
(* check or the duplicate check need. *)
UntouchedIsPayable ==
  /\ phase \in {"VALIDATED", "ACTIONED"}
  /\ events = {}
  => /\ Payable
     /\ \A c \in KeyColumns : row[c] # None

(* The audit trail accounts for every value: each column of the row and of *)
(* the ledger entry, and each original an event names, was extracted or is *)
(* the corrected value of some event, also when two reviewers who loaded   *)
(* the same row both commit, or one loads what the other has corrected.    *)
Accounted(c, value) ==
  \/ value = FromProvider(annotation)[c]
  \/ \E e \in events : e.column = c /\ value = Parsed(c, e.corrected)

ValuesAccountedFor ==
  /\ \A x \in {row, posted} \ {None} :
       \A c \in EXTRACTED_FIELDS : Accounted(c, x[c])
  /\ \A e \in events : Accounted(e.column, e.original)

(* A dead letter names what failed: an error of the provider, or that the  *)
(* worker gave up, never the complaint of a session that an earlier        *)
(* failure broke. *)
ReasonIsTheCause == reason \in {"none", "provider", "worker gave up"}

(* The delays of a batch double, and none follows the last attempt: a      *)
(* handler that is in its (k+1)-th attempt has slept 2^k - 1 base delays,  *)
(* one that has given up no longer than one in its last attempt. *)
SleptBetweenAttempts ==
  handler.at \in Calls =>
    handler.slept = (IF handler.tries = Attempts[handler.at]
                     THEN PowerOfTwo[handler.tries - 1]
                     ELSE PowerOfTwo[handler.tries]) - 1

(* The pipeline's abstraction is exact: on its reading of a row its rules  *)
(* decide as the rules on columns, and on two rows its comparison decides  *)
(* as the duplicate check, if the totals are numbers.  Each row that is    *)
(* written is written in one of the two phases. *)
ReadingDecidesAlike ==
  phase \in {"EXTRACTED", "VALIDATED"} =>
    /\ RulesDecideAlike(row)
    /\ \A answer \in Annotations : ComparesAlike(row, FromProvider(answer))

(* The matched vendor is the first of the most alike, and none is named    *)
(* only if no vendor on file resembles the name at all. *)
MatchIsFirstBest ==
  /\ phase \in {"EXTRACTED", "VALIDATED"}
  /\ row["vendor_name"] \notin {None, Blank}
  =>
    LET name == row["vendor_name"]
        best == FindBestMatch(name, Vendors).vendor
        likeness(i) == Likeness(name, Vendors[i])
    IN \/ \E i \in DOMAIN Vendors :
            /\ best = Vendors[i]
            /\ likeness(i) > 0
            /\ \A j \in DOMAIN Vendors :
                 /\ likeness(j) <= likeness(i)
                 /\ j < i => likeness(j) < likeness(i)
       \/ best = None /\ \A i \in DOMAIN Vendors : likeness(i) = 0

(* A write that is resumed after an error or a lost answer: the mock, whose *)
(* entry is part of the transaction that confirms it, has one entry at     *)
(* most; an external provider, to which create_payable sends no key and    *)
(* which nothing asks first, may have one for each attempt.  A completed   *)
(* invoice has one at least. *)
PayablesBounded ==
  /\ payables <= (IF accounting = "mock" THEN 1
                  ELSE Attempts["post"] * (1 + retry_count))
  /\ action = "CONFIRMED" => payables > 0

(* The work on an invoice is bounded, whatever raises and however often:   *)
(* each step of a handler, each failure and each recovery takes something  *)
(* from what may still be done, and no decision of a reviewer, early or    *)
(* late, adds to it.  First what a running handler may still do, then what *)
(* recoveries, the worker's dead letter and an action may add. *)
Notices == Attempts["notify"] + 1

StepsLeft(h) ==
  LET batch == Attempts[h.at] - h.tries
  IN CASE h.at = "extract"          -> batch + Notices + 3
       [] h.at = "store"            -> 3
       [] h.at = "begin validation" -> 2
       [] h.at = "validate"         -> 1
       [] h.at = "post"             -> batch + Notices + 1
       [] h.at = "confirm"          -> Notices + 1
       [] h.at = "notify"           -> batch + 1
       [] OTHER                     -> 0

LongestHandler == Attempts["extract"] + Attempts["post"] + Notices + 3

RecoveriesLeft == (LongestHandler + 1) * (MaxRetries - retry_count)

DeadLetterLeft ==
  IF phase \in STUCK_STATES \cup {"EXTRACTED"} THEN Notices + 1 ELSE 0

ActionLeft ==
  IF action = "NONE" THEN LongestHandler + Notices + 2 ELSE 0

WorkLeft ==
  StepsLeft(handler) + RecoveriesLeft + DeadLetterLeft + ActionLeft

WorkRunsOut ==
  [][/\ WorkLeft' \in 0 .. WorkLeft
     /\ WorkLeft' < WorkLeft \/ UNCHANGED <<handler, retry_count>>]_vars

(* Every handler ends, with an answer or an exception. *)
HandlerEnds ==
  handler.at \notin {"idle", "raised"} ~> handler.at \in {"idle", "raised"}

(* A document that waits for a provider or the ledger does not wait for    *)
(* ever: whatever raises, and however often, its handler or the worker     *)
(* takes it to where a person sees it, in a queue or at its end.  With one *)
(* exception: a handler that raises between the commit of the extraction   *)
(* and that of the validation leaves it EXTRACTED, where nobody looks for  *)
(* it (NeverLeftStuck is the pipeline's refutation).                       *)
SEEN_STATES ==
  {"NEEDS_REVIEW", "VALIDATED", "COMPLETED", "REJECTED", "FAILED"}

Settles ==
  phase \in STUCK_STATES ~>
    \/ phase \in SEEN_STATES
    \/ phase = "EXTRACTED" /\ handler.at = "raised"

-----------------------------------------------------------------------------
(* docs/api.md, POST /documents/{id}/action: when the retries of the       *)
(* accounting write are exhausted, the document moves to FAILED.  Stated   *)
(* of a handler: none ends with an exception after its last attempt. *)
ExhaustionIsRecorded ==
  handler.at = "raised" /\ action = "ATTEMPTED"
    => handler.tries < Attempts["post"]
=============================================================================
