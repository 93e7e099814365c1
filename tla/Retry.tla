------------------------------- MODULE Retry --------------------------------
(***************************************************************************)
(* call_with_retry inside one handler: the attempts of a call, the delays  *)
(* between them, and the last error, which is all the caller learns.       *)
(***************************************************************************)
EXTENDS Integers

CONSTANT Attempts   \* call -> how often it is tried

Calls == {"extract", "post", "notify"}

ASSUME AttemptsArePositive == Attempts \in [Calls -> Nat \ {0}]

VARIABLE handler    \* its step, and the loop it is in

Errors == {"provider", "flush", "rolled back"}

Fresh(step) == [at |-> step, tries |-> 0, slept |-> 0, last |-> "none"]

Enter(step) == handler' = Fresh(step)

Calling(call) ==
  /\ handler.at = call
  /\ handler.tries < Attempts[call]

Exhausted(call) ==
  /\ handler.at = call
  /\ handler.tries = Attempts[call]

PowerOfTwo[n \in Nat] == IF n = 0 THEN 1 ELSE 2 * PowerOfTwo[n - 1]

(* Fault: a delay after the last attempt as well. *)
DelayAlways(try) == PowerOfTwo[try]

(* In units of base_delay_seconds, after attempt try, counted from 0. *)
Delay(try) ==
  IF try < Attempts[handler.at] - 1 THEN PowerOfTwo[try] ELSE 0

(* Fault: the attempt is not counted. *)
AttemptUncounted(error) == handler' = [handler EXCEPT !.last = error]

AttemptFails(error) ==
  handler' = [handler EXCEPT !.tries = @ + 1,
                             !.slept = @ + Delay(handler.tries),
                             !.last  = error]
=============================================================================
