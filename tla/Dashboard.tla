----------------------------- MODULE Dashboard -----------------------------
(***************************************************************************)
(* The dashboard beside the pipeline.  The four queries of a request run   *)
(* in one transaction, but under READ COMMITTED each sees the tables of    *)
(* its own moment.  Sets of documents stand for the lists and the count    *)
(* that the queries return.                                                *)
(***************************************************************************)
EXTENDS HistoryRows

VARIABLES
  report,   \* what the request has read so far
  moved     \* documents whose state changed since its first query

reader == <<report, moved>>

NoReport ==
  [at |-> "idle", processed |-> {}, reviewed |-> {}, corrected |-> {}]

DashboardInit ==
  /\ HistoryInit
  /\ report = NoReport
  /\ moved = {}

PipelineStep ==
  /\ RecordedStep
  /\ moved' = moved \cup Changed
  /\ UNCHANGED report

-----------------------------------------------------------------------------
(* get_dashboard                                                           *)

CountProcessed ==
  /\ report.at = "idle"
  /\ LoopFree
  /\ report' = [NoReport EXCEPT !.at = "counted", !.processed = Processed]
  /\ moved' = {}
  /\ UNCHANGED <<vars, history>>

ReadReviewed ==
  /\ report.at = "counted"
  /\ report' = [report EXCEPT !.at = "reviewed", !.reviewed = reviewed]
  /\ UNCHANGED <<vars, history, moved>>

ReadCorrected ==
  /\ report.at = "reviewed"
  /\ report' = [report EXCEPT !.at = "corrected", !.corrected = corrected]
  /\ UNCHANGED <<vars, history, moved>>

(* compute_dashboard_metrics, with the last query.  The rates and the time *)
(* saved are these counts, divided and multiplied. *)
Metrics ==
  LET total  == Cardinality(report.processed)
      review == Cardinality(report.reviewed)
  IN [total_processed        |-> total,
      straight_through_count |-> total - review,
      needs_review_count     |-> review,
      corrected_count        |-> Cardinality(report.corrected),
      timed_count            |-> Cardinality(Timed)]

Answer ==
  /\ report.at = "corrected"
  /\ report' = NoReport
  /\ UNCHANGED <<vars, history, moved>>

DashboardSteps ==
  \/ CountProcessed
  \/ ReadReviewed
  \/ ReadCorrected
  \/ Answer

DashboardSpec ==
  /\ DashboardInit
  /\ [][PipelineStep \/ DashboardSteps]_<<vars, history, reader>>

-----------------------------------------------------------------------------
(* An answer put together from four moments is off by no more than the     *)
(* documents that moved while it was computed: the straight-through count, *)
(* and with it the time saved, falls below zero, and corrections and       *)
(* durations exceed what they are a part of, by at most that many. *)
OffByMoves ==
  LET slack == Cardinality(moved)
  IN report.at = "corrected" =>
       /\ Metrics.straight_through_count >= -slack
       /\ Metrics.corrected_count <= Metrics.needs_review_count + slack
       /\ Metrics.timed_count <= Metrics.total_processed + slack
=============================================================================
