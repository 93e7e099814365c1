----------------------------- MODULE MCPipeline -----------------------------
(***************************************************************************)
(* Values for the constants of the pipeline in TLC's runs.  The threshold  *)
(* is 3 everywhere, so that a total of 3 is the boundary case of the       *)
(* approval rule and totals of 1 and 2 are below it; the tolerance of the  *)
(* duplicate check is 1, so that 2 matches both of its neighbours.         *)
(***************************************************************************)
EXTENDS PipelineInvariant, TLC

CONSTANTS i1, f1, f2

Row(invoice, total, currency, clean) ==
  [invoice |-> invoice, total |-> total, currency |-> currency,
   clean |-> clean]

(* What extraction finds of the one invoice of the runs: everything in     *)
(* order, a broken rule, no currency for the ledger, or no total.          *)
Clean(total)      == Row(i1, total, TRUE, TRUE)
Flagged(total)    == Row(i1, total, TRUE, FALSE)
NoCurrency(total) == Row(i1, total, FALSE, FALSE)
NoTotal           == Row(i1, None, TRUE, FALSE)
NoInvoice(total)  == Row(None, total, TRUE, FALSE)

(* Every kind of reading for each file. *)
AnyReading ==
  [f \in Files |-> {Clean(1), Clean(3), Flagged(3), NoCurrency(3), NoTotal}]

(* The two files hold the same invoice, read with different precision. *)
SameInvoiceTwoFiles ==
  [f \in Files |-> IF f = f1 THEN {Clean(2), Flagged(3)}
                             ELSE {Clean(3), NoCurrency(2)}]

(* The second file's invoice number is not found. *)
NumberMissingInSecond ==
  [f \in Files |-> IF f = f1 THEN {Clean(1)} ELSE {NoInvoice(1)}]

AlwaysFlagged == [f \in Files |-> {Flagged(2)}]

AlwaysClean == [f \in Files |-> {Clean(3)}]

(* A reviewer may change anything. *)
AnyCorrection ==
  {Clean(1), Clean(3), Flagged(2), Flagged(3), NoCurrency(3), NoTotal,
   NoInvoice(1)}
    \X {Clean(1), Clean(3), NoCurrency(3), NoTotal}

(* A reviewer repairs a rule or the currency and keeps invoice and total. *)
IdentityKept ==
  {<<x, y>> \in Readings \X Readings :
     /\ x.invoice = y.invoice
     /\ x.total = y.total
     /\ y.clean}

NoCorrection == {}

(* Documents, keys and threads are interchangeable; files are not where    *)
(* ReadingsOf tells them apart. *)
Symmetry == Permutations(Docs) \cup Permutations(Keys)
              \cup Permutations(Threads)
=============================================================================
