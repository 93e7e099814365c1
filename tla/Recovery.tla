------------------------------ MODULE Recovery ------------------------------
(***************************************************************************)
(* The recovery worker.  A pass lists the documents in an in-flight state  *)
(* whose row is older than the timeout and takes them one by one.  The     *)
(* first is judged by what the list itself read; the rows of the others    *)
(* expire with each commit and are read again when their turn comes, but   *)
(* whether they are still stuck is not asked again.                        *)
(***************************************************************************)
EXTENDS Ingestion, Posting

(* Fault: ACTIONED documents are not looked for. *)
FindStuckReading == {d \in aged : state[d] \in {"EXTRACTING", "VALIDATING"}}

(* Fault: the age of the row is not looked at. *)
FindStuckAtOnce == {d \in Docs : state[d] \in STUCK_STATES}

FindStuck == {d \in aged : state[d] \in STUCK_STATES}

(* Fault: one retry too many. *)
JudgeLate(d) ==
  IF retry_count[d] > MaxRetries
  THEN Take("worker", d, "giving_up", None) /\ loaded' = state[d]
  ELSE Take("worker", d, "recovering", None) /\ UNCHANGED loaded

(* What is read of d when its turn comes decides between giving up and     *)
(* one more attempt; the commit follows in a step of its own.              *)
Judge(d) ==
  IF retry_count[d] >= MaxRetries
  THEN Take("worker", d, "giving_up", None) /\ loaded' = state[d]
  ELSE Take("worker", d, "recovering", None) /\ UNCHANGED loaded

WorkerPoll(d) ==
  /\ At("worker", "idle")
  /\ stuck = {}
  /\ d \in FindStuck
  /\ stuck' = FindStuck \ {d}
  /\ Judge(d)
  /\ UNCHANGED <<tables, batches, crashes>>

WorkerNext(d) ==
  /\ At("worker", "idle")
  /\ d \in stuck
  /\ stuck' = stuck \ {d}
  /\ Judge(d)
  /\ UNCHANGED <<tables, batches, crashes>>

(* Fault: the history names a fixed state, as the request handlers do. *)
DeadLetterFixed ==
  /\ At("worker", "giving_up")
  /\ Move(On("worker"), "EXTRACTING", "FAILED")
  /\ loaded' = "ABSENT"
  /\ Finish("worker")
  /\ UNCHANGED <<upload, retry_count, extraction, payables, stuck, batches,
                 crashes>>

DeadLetter ==
  /\ At("worker", "giving_up")
  /\ IF loaded = "FAILED" THEN Note(On("worker"), loaded)
                          ELSE Move(On("worker"), loaded, "FAILED")
  /\ loaded' = "ABSENT"
  /\ Finish("worker")
  /\ UNCHANGED <<upload, retry_count, extraction, payables, stuck, batches,
                 crashes>>

(* Fault: the counter is not committed before the attempt. *)
CountRetryForgotten ==
  /\ At("worker", "recovering")
  /\ aged' = aged \ {On("worker")}
  /\ Goto("worker", "dispatch")
  /\ UNCHANGED <<upload, state, audit, retry_count, extraction, payables,
                 stuck, loaded, batches, crashes>>

CountRetry ==
  /\ At("worker", "recovering")
  /\ retry_count' = [retry_count EXCEPT ![On("worker")] = @ + 1]
  /\ aged' = aged \ {On("worker")}
  /\ Goto("worker", "dispatch")
  /\ UNCHANGED <<upload, state, audit, extraction, payables, stuck, loaded,
                 batches, crashes>>

Resumption(found) ==
  CASE found = "EXTRACTING"       -> "extracting"
    [] found = "VALIDATING"       -> "revalidating"
    [] found = "ACTIONED"         -> "reposting"
    [] found \notin STUCK_STATES -> "idle"

(* The state is read afresh after the commit of the counter. *)
Resume ==
  /\ At("worker", "dispatch")
  /\ LET d == On("worker")
         step == Resumption(state[d])
     IN /\ IF step = "idle" THEN Finish("worker") ELSE Goto("worker", step)
        /\ batches' = IF step = "extracting"
                      THEN [batches EXCEPT ![d] = @ + 1]
                      ELSE batches
  /\ UNCHANGED <<tables, stuck, loaded, crashes>>

RowsMissing(d, found) ==
  \/ found \in {"VALIDATING", "ACTIONED"} /\ extraction[d] = None
  \/ found = "ACTIONED" /\ action[d] = "NONE"

Found == [revalidating |-> "VALIDATING", reposting |-> "ACTIONED"]

(* The rows are read after the state, and not again before they are used. *)
LoadRows ==
  /\ job["worker"].at \in DOMAIN Found
  /\ LET d == On("worker")
         found == Found[job["worker"].at]
     IN IF RowsMissing(d, found)
        THEN Goto("worker", "giving_up") /\ loaded' = found
        ELSE /\ Take("worker", d, IF found = "VALIDATING" THEN "validating"
                                                         ELSE "posting",
                     extraction[d])
             /\ UNCHANGED loaded
  /\ UNCHANGED <<tables, stuck, batches, crashes>>

(* storage.get raises: caught, and the pass goes on with the next one. *)
StorageFails ==
  /\ At("worker", "dispatch")
  /\ state[On("worker")] = "EXTRACTING"
  /\ Finish("worker")
  /\ UNCHANGED <<tables, stuck, loaded, batches, crashes>>

(* A SELECT fails while the document is loaded: logged, rolled back, and   *)
(* the pass goes on.  An error that expires the document ends the process  *)
(* instead, see Raise. *)
SelectFails ==
  /\ DatabaseFaults
  /\ job["worker"].at \in {"revalidating", "reposting", "validating"}
  /\ Finish("worker")
  /\ UNCHANGED <<tables, stuck, loaded, batches, crashes>>

-----------------------------------------------------------------------------
WorkerSteps ==
  \/ \E d \in Docs : WorkerPoll(d)
  \/ \E d \in Docs : WorkerNext(d)
  \/ DeadLetter
  \/ CountRetry
  \/ Resume
  \/ StorageFails
  \/ LoadRows
  \/ SelectFails
  \/ AttemptExtraction("worker")
  \/ AttemptValidation("worker")
  \/ AttemptAction("worker")
=============================================================================
