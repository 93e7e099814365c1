------------------------------ MODULE Billing ------------------------------
(***************************************************************************)
(* What the extraction of one invoice costs.  Every call of the provider   *)
(* is billed, also one whose answer is lost, and so is every attempt of a  *)
(* batch, not the batch.                                                   *)
(***************************************************************************)
EXTENDS OneInvoiceProperties

VARIABLE bills   \* calls of the extraction provider so far

BilledInit ==
  /\ Init
  /\ bills = 0

ProviderIsCalled == ProviderAnswers \/ ExtractionFails

BilledStep ==
  /\ Next
  /\ bills' = IF ProviderIsCalled THEN bills + 1 ELSE bills

BilledSpec == BilledInit /\ [][BilledStep]_<<vars, bills>>

-----------------------------------------------------------------------------
(* Whatever raises during or after the calls of a batch, before its result *)
(* is stored, and however often the worker begins another, the provider is *)
(* called at most retry_attempts times for the upload and for each retry   *)
(* that was committed. *)
BillBounded == bills <= Attempts["extract"] * (1 + retry_count)
=============================================================================
