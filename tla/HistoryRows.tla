---------------------------- MODULE HistoryRows ----------------------------
(***************************************************************************)
(* The rows that are only ever added while the pipeline runs, and from     *)
(* which the dashboard computes its rates: which documents have a          *)
(* state_history row to NEEDS_REVIEW, and which have a review_events row.  *)
(***************************************************************************)
EXTENDS PipelineProperties, FiniteSets

ASSUME DocsAreFinite == IsFiniteSet(Docs)

VARIABLES
  reviewed,    \* documents with a history row to NEEDS_REVIEW
  corrected    \* documents with a review_events row

history == <<reviewed, corrected>>

HistoryInit ==
  /\ Init
  /\ reviewed = {}
  /\ corrected = {}

Changed == {d \in Docs : state'[d] # state[d]}

Corrects(t) == \E y \in Readings : Correct(t, y)

(* A correction adds its events and its history row in one commit, every   *)
(* other step at most a history row. *)
RecordedStep ==
  /\ Next
  /\ reviewed' = reviewed \cup {d \in Changed : state'[d] = "NEEDS_REVIEW"}
  /\ corrected' = corrected \cup {On(t) : t \in {u \in Threads : Corrects(u)}}

RecordedSpec == HistoryInit /\ [][RecordedStep]_<<vars, history>>

-----------------------------------------------------------------------------
(* What the dashboard counts.                                              *)

(* Fault: a document under review counts as being in flight. *)
IN_FLIGHT_STATES_Reviewed ==
  {"RECEIVED", "EXTRACTING", "VALIDATING", "NEEDS_REVIEW"}

IN_FLIGHT_STATES == {"RECEIVED", "EXTRACTING", "VALIDATING"}

TERMINAL_STATES == {"COMPLETED", "REJECTED", "DUPLICATE", "FAILED"}

Processed == {d \in Stored : state[d] \notin IN_FLIGHT_STATES}

Timed == {d \in Stored : state[d] \in TERMINAL_STATES}

(* metrics.py: the corrected documents are a subset of the reviewed ones.  *)
(* So are these of the processed: no straight-through count is negative    *)
(* and no rate above 1, if the tables are read at one moment. *)
RatesInRange ==
  /\ corrected \subseteq reviewed
  /\ reviewed \subseteq Processed
=============================================================================
