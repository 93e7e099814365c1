----------------------------- MODULE Processes -----------------------------
(***************************************************************************)
(* Who runs: the event loop of the one web process, its pool of threads    *)
(* for the plain (non-async) handlers, and the recovery worker, a second   *)
(* process on the same database.  Each actor has at most one job: a        *)
(* handler between two of its database transactions, the document it is    *)
(* about and the reading it has loaded.                                    *)
(***************************************************************************)
EXTENDS Tables

CONSTANTS
  Threads,         \* the thread pool's threads
  SlowOwners,      \* may a running handler outlast the stuck timeout?
  DatabaseFaults,  \* may a flush or a commit fail?
  LedgerOutages,   \* may every attempt of the accounting write fail?
  MaxCrashes       \* bound on the crashes of either process

ASSUME ActorsAreDistinct == "loop" \notin Threads /\ "worker" \notin Threads

ASSUME SwitchesAreBoolean ==
  {SlowOwners, DatabaseFaults, LedgerOutages} \subseteq BOOLEAN

ASSUME CrashesAreBounded == MaxCrashes \in Nat

VARIABLES
  job,      \* what each actor is doing
  stuck,    \* documents the worker's current pass has still to take
  loaded,   \* state the worker read of the document it gives up on
  batches,  \* batches of extraction calls begun for each document
  crashes   \* crashes so far

processes == <<job, stuck, loaded, batches, crashes>>

vars == <<tables, processes>>

Actors == Threads \cup {"loop", "worker"}

Steps == {"idle", "dead", "received", "repeated", "fresh", "extracting",
          "extracted", "validating", "matched", "passed", "failed",
          "settled", "giving_up", "recovering", "dispatch", "revalidating",
          "reposting", "reviewing", "correcting", "rejecting", "assessing",
          "approving", "declining", "actioning", "eligible", "begun",
          "posting"}

Idle == [at |-> "idle", doc |-> None, seen |-> None]

Dead == [at |-> "dead", doc |-> None, seen |-> None]

ProcessesInit ==
  /\ job = [a \in Actors |-> Idle]
  /\ stuck = {}
  /\ loaded = "ABSENT"
  /\ batches = [d \in Docs |-> 0]
  /\ crashes = 0

ProcessesTypeOK ==
  /\ job \in [Actors -> [at : Steps, doc : Docs \cup {None},
                         seen : Readings \cup {None}]]
  /\ stuck \subseteq Docs
  /\ loaded \in DocumentState \cup {"ABSENT"}
  /\ batches \in [Docs -> Nat]
  /\ crashes \in 0 .. MaxCrashes

-----------------------------------------------------------------------------
(* Control of one actor.                                                   *)

At(a, step) == job[a].at = step

On(a) == job[a].doc

Take(a, d, step, row) ==
  job' = [job EXCEPT ![a] = [at |-> step, doc |-> d, seen |-> row]]

Goto(a, step) == Take(a, On(a), step, job[a].seen)

Finish(a) == job' = [job EXCEPT ![a] = Idle]

(* The event loop serves a new request only when no upload holds it. *)
LoopFree == At("loop", "idle")

(* A failed flush leaves the session unusable and its objects expired.  A  *)
(* request ends with a 500 and a closed session; the worker's own error    *)
(* handler reads the document's id, fails as well, and ends the process.   *)
Raise(a) ==
  IF a = "worker"
  THEN /\ job' = [job EXCEPT ![a] = Dead]
       /\ stuck' = {}
  ELSE Finish(a) /\ UNCHANGED stuck

Owned(d) == \E a \in Actors : On(a) = d

-----------------------------------------------------------------------------
(* What happens to the actors.                                             *)

DatabaseFault(a) ==
  /\ DatabaseFaults
  /\ job[a].at \notin {"idle", "dead"}
  /\ Raise(a)
  /\ loaded' = IF a = "worker" THEN "ABSENT" ELSE loaded
  /\ UNCHANGED <<tables, batches, crashes>>

(* Uploads whose row was not committed leave nothing behind. *)
ServerCrash ==
  /\ crashes < MaxCrashes
  /\ crashes' = crashes + 1
  /\ job' = [a \in Actors |-> IF a = "worker" THEN job[a] ELSE Idle]
  /\ upload' = [d \in Docs |-> IF d \in Stored THEN upload[d] ELSE None]
  /\ UnmovedRows
  /\ UNCHANGED <<retry_count, extraction, approval, action, ledger,
                 stuck, loaded, batches>>

WorkerCrash ==
  /\ crashes < MaxCrashes
  /\ crashes' = crashes + 1
  /\ ~At("worker", "dead")
  /\ job' = [job EXCEPT !["worker"] = Dead]
  /\ stuck' = {}
  /\ loaded' = "ABSENT"
  /\ UNCHANGED <<tables, batches>>

WorkerStart ==
  /\ At("worker", "dead")
  /\ Finish("worker")
  /\ UNCHANGED <<tables, stuck, loaded, batches, crashes>>

STUCK_STATES == {"EXTRACTING", "VALIDATING", "ACTIONED"}

(* worker_stuck_timeout_seconds pass without a commit on the row. *)
Age(d) ==
  /\ state[d] \in STUCK_STATES
  /\ d \notin aged
  /\ SlowOwners \/ ~Owned(d)
  /\ aged' = aged \cup {d}
  /\ UNCHANGED <<upload, state, audit, retry_count, extraction, approval,
                 action, ledger, processes>>
=============================================================================
