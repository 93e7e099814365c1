----------------------------- MODULE Lifecycle -----------------------------
(***************************************************************************)
(* What the pipeline promises about one document at a time: the diagram of *)
(* docs/state-machine.md, every transition of which happens at once, with  *)
(* the two decisions money depends on.  An amount at or above the          *)
(* threshold is paid only as it was signed, and a document is paid at most *)
(* once, by the step that completes it.                                    *)
(***************************************************************************)
EXTENDS Integers

CONSTANTS Docs, Amounts, Threshold, None

VARIABLES
  phase,   \* the document's state
  signed,  \* the amount an approver signed, None before
  paid     \* the amount in the ledger, None before

lifecycle == <<phase, signed, paid>>

Init ==
  /\ phase = [d \in Docs |-> "ABSENT"]
  /\ signed = [d \in Docs |-> None]
  /\ paid = [d \in Docs |-> None]

(* The diagram, without the step that pays. *)
Diagram ==
  {<<"ABSENT", "RECEIVED">>,
   <<"RECEIVED", "DUPLICATE">>,      <<"RECEIVED", "EXTRACTING">>,
   <<"EXTRACTING", "EXTRACTED">>,    <<"EXTRACTED", "VALIDATING">>,
   <<"VALIDATING", "NEEDS_REVIEW">>, <<"VALIDATING", "VALIDATED">>,
   <<"VALIDATING", "DUPLICATE">>,    <<"NEEDS_REVIEW", "VALIDATED">>,
   <<"NEEDS_REVIEW", "REJECTED">>,   <<"VALIDATED", "REJECTED">>,
   <<"EXTRACTING", "FAILED">>,       <<"VALIDATING", "FAILED">>,
   <<"ACTIONED", "FAILED">>,         <<"VALIDATED", "ACTIONED">>}

Advance(d) ==
  \E edge \in Diagram :
    /\ phase[d] = edge[1]
    /\ phase' = [phase EXCEPT ![d] = edge[2]]
    /\ UNCHANGED <<signed, paid>>

Sign(d) ==
  /\ phase[d] = "VALIDATED"
  /\ signed[d] = None
  /\ \E amount \in Amounts :
       /\ amount >= Threshold
       /\ signed' = [signed EXCEPT ![d] = amount]
  /\ UNCHANGED <<phase, paid>>

Pay(d) ==
  /\ phase[d] = "ACTIONED"
  /\ paid[d] = None
  /\ \E amount \in Amounts :
       /\ amount >= Threshold => signed[d] = amount
       /\ paid' = [paid EXCEPT ![d] = amount]
  /\ phase' = [phase EXCEPT ![d] = "COMPLETED"]
  /\ UNCHANGED signed

Next == \E d \in Docs : Advance(d) \/ Sign(d) \/ Pay(d)

Spec == Init /\ [][Next]_lifecycle
=============================================================================
