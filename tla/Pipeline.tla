------------------------------ MODULE Pipeline ------------------------------
(***************************************************************************)
(* The whole system: the web process with its event loop and its threads,  *)
(* the recovery worker, the tables between them, crashes and time.         *)
(***************************************************************************)
EXTENDS Recovery, HumanReview

Init == TablesInit /\ ProcessesInit

ThreadSteps(t) == ReviewSteps(t) \/ ActionSteps(t)

Environment ==
  \/ NewUpload
  \/ \E t \in Threads : NewReview(t) \/ NewAction(t)
  \/ \E a \in Actors : DatabaseFault(a)
  \/ ServerCrash
  \/ WorkerCrash

Next ==
  \/ UploadSteps
  \/ \E t \in Threads : ThreadSteps(t)
  \/ WorkerSteps
  \/ WorkerStart
  \/ \E d \in Docs : Age(d)
  \/ Environment

Spec == Init /\ [][Next]_vars

(* A handler that has started goes on, the worker polls, time passes and   *)
(* a dead worker is started again.  Nobody has to upload, to review or to  *)
(* approve, and nothing has to fail.                                       *)
Fairness ==
  /\ WF_vars(UploadSteps)
  /\ \A t \in Threads : WF_vars(ThreadSteps(t))
  /\ WF_vars(WorkerSteps)
  /\ WF_vars(WorkerStart)
  /\ \A d \in Docs : WF_vars(Age(d))

FairSpec == Spec /\ Fairness
=============================================================================
