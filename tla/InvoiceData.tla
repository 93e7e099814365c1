---------------------------- MODULE InvoiceData ----------------------------
(***************************************************************************)
(* What the pipeline decides on: a reading of an invoice, and the rules    *)
(* and comparisons made on it.                                             *)
(*                                                                         *)
(* invoice stands for the triple (vendor, invoice number, invoice date)    *)
(* that identifies an invoice, None when one of the three is missing;      *)
(* total is the amount; currency says whether the currency was found; and  *)
(* clean whether every other validation rule passes.  The module Fields    *)
(* derives all four from the columns.                                      *)
(***************************************************************************)
EXTENDS Integers

CONSTANTS
  Invoices,      \* (vendor, number, date) triples
  Amounts,       \* totals
  Threshold,     \* approval_threshold_amount
  Tolerance,     \* AMOUNT_TOLERANCE, ARITHMETIC_TOLERANCE
  RoundsOver,    \* pairs of amounts exactly the tolerance apart whose
                 \* difference as floats exceeds it
  None           \* SQL NULL, or no row

ASSUME AmountsAreNumbers ==
  Amounts \subseteq Int /\ Threshold \in Int /\ Tolerance \in Nat

(* abs(x - y) is the same float both ways. *)
ASSUME RoundingIsSymmetric ==
  \A pair \in RoundsOver : <<pair[2], pair[1]>> \in RoundsOver

Readings == [invoice  : Invoices \cup {None},
             total    : Amounts \cup {None},
             currency : BOOLEAN,
             clean    : BOOLEAN]

-----------------------------------------------------------------------------
(* Two amounts are the same but for rounding. *)
Within(x, y) ==
  /\ x - y \in -Tolerance .. Tolerance
  /\ <<x, y>> \notin RoundsOver

(* Two readings of one invoice. *)
SameInvoice(x, y) ==
  /\ x.invoice # None
  /\ x.invoice = y.invoice
  /\ x.total # None
  /\ y.total # None
  /\ Within(x.total, y.total)

-----------------------------------------------------------------------------
(* The deterministic rules.                                                *)

RulesPass(x) ==
  /\ x.invoice # None
  /\ x.total # None
  /\ x.currency
  /\ x.clean

(* Fault: the threshold itself needs no approval. *)
RequiresApprovalAbove(total) == total > Threshold

RequiresApproval(total) == total >= Threshold

(* The ledger's columns are NOT NULL. *)
Postable(x) ==
  /\ x.invoice # None
  /\ x.total # None
  /\ x.currency
=============================================================================
