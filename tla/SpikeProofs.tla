---------------------------- MODULE SpikeProofs ----------------------------
(***************************************************************************)
(* What a run of the spike may cost and what it leaves to evaluate, for    *)
(* any samples, answers, prices and requests, and however often it is      *)
(* repeated.                                                               *)
(***************************************************************************)
EXTENDS Spike, TLAPS

(* The values the constants may have. *)
SpikeConstants ==
  /\ Samples \in Seq(DOMAIN Stem)
  /\ \A s \in DOMAIN Stem : Stem[s] \in DocIds
  /\ Requests \subseteq Seq(PROVIDERS)
  /\ BudgetCap \in Nat
  /\ MaxCharge \in Nat
  /\ \A a \in Answers : AnswerOK(a)
  /\ \A name \in PROVIDERS, a \in Answers : RunOne(name, a) # None

Contents ==
  {None} \cup {RunOne(name, a) : name \in PROVIDERS, a \in Answers}

MoneyInv ==
  /\ estimate \in Nat
  /\ billed \in Nat
  /\ unpriced \in Nat
  /\ BudgetKept

FilesInv ==
  /\ results \in [PROVIDERS -> [DocIds -> Contents]]
  /\ available \in Seq(PROVIDERS)
  /\ status = "running" =>
       /\ doc_path \in 1..Len(Samples)
       /\ provider \in 1..Len(available)

(* Position of the call for the k-th provider and the n-th sample.         *)
Made(k, n) == n < doc_path \/ (n = doc_path /\ k < provider)

(* Every call that was made has left its file. *)
CallsSaved ==
  \A k \in 1..Len(available), n \in 1..Len(Samples) :
    status = "done" \/ (status = "running" /\ Made(k, n)) =>
      results[available[k]][Stem[Samples[n]]] # None

SpikeInv == MoneyInv /\ FilesInv /\ CallsSaved

-----------------------------------------------------------------------------
LEMMA SpikeInit == SpikeConstants /\ Init => SpikeInv
BY DEF SpikeConstants, Init, SpikeInv, MoneyInv, BudgetKept, FilesInv,
       CallsSaved, Contents

LEMMA StartKeeps ==
  ASSUME SpikeConstants, SpikeInv, NEW requested \in Requests,
         NEW configured \in SUBSET PROVIDERS, Start(requested, configured)
  PROVE  SpikeInv'
<1>1. MoneyInv'
  BY DEF SpikeConstants, Start, MoneyInv, BudgetKept
<1>2. available' \in Seq(PROVIDERS)
  <2>1. requested \in Seq(PROVIDERS)
    BY DEF SpikeConstants
  <2>2. PICK n \in 0..Len(requested) :
          \E at \in [1..n -> DOMAIN requested] :
            available' = [k \in DOMAIN at |-> requested[at[k]]]
    BY DEF Start, Skipping
  <2>3. PICK at \in [1..n -> DOMAIN requested] :
          available' = [k \in DOMAIN at |-> requested[at[k]]]
    BY <2>2
  <2>4. DOMAIN requested = 1..Len(requested) /\ n \in Nat
    BY <2>1
  <2>5. available' \in [1..n -> PROVIDERS]
    BY <2>1, <2>3, <2>4
  <2> QED
    BY <2>4, <2>5
<1>3. Len(Samples) \in Nat \ {0} /\ Len(available') \in Nat \ {0}
  BY <1>2 DEF Start, SpikeConstants
<1>4. FilesInv'
  BY <1>2, <1>3 DEF Start, SpikeInv, FilesInv
<1>5. CallsSaved'
  BY <1>2, <1>3 DEF Start, CallsSaved, Made
<1> QED
  BY <1>1, <1>4, <1>5 DEF SpikeInv

(* A call adds no more to the estimate than to the bill, and an unpriced   *)
(* one at most MaxCharge to the bill. *)
LEMMA CallCosts ==
  ASSUME SpikeConstants, MoneyInv, NEW name \in PROVIDERS,
         NEW answer \in Answers, Called(name, answer)
  PROVE  /\ estimate' \in Nat
         /\ billed' \in Nat
         /\ unpriced' \in Nat
         /\ estimate <= BudgetCap
         /\ estimate' <= estimate + MaxCharge
         /\ billed' <= estimate' + MaxCharge * unpriced'
<1>1. answer.charge \in Nat /\ answer.charge <= MaxCharge
  BY DEF SpikeConstants, AnswerOK
<1>2. MaxCharge \in Nat
  BY DEF SpikeConstants
<1>3. MaxCharge * (unpriced + 1) = MaxCharge * unpriced + MaxCharge
      /\ MaxCharge * unpriced \in Nat
  BY <1>2 DEF MoneyInv
<1>4. CASE Priced(name, answer)
  BY <1>1, <1>2, <1>3, <1>4 DEF Called, Cost, MoneyInv, BudgetKept, SpikeConstants
<1>5. CASE ~Priced(name, answer)
  BY <1>1, <1>2, <1>3, <1>5 DEF Called, Cost, MoneyInv, BudgetKept, SpikeConstants
<1> QED
  BY <1>4, <1>5

LEMMA SaveKeeps ==
  ASSUME SpikeConstants, SpikeInv, NEW name \in PROVIDERS,
         NEW answer \in Answers, Save(name, answer)
  PROVE  SpikeInv'
<1>1. MoneyInv'
  BY CallCosts DEF SpikeInv, MoneyInv, BudgetKept, Save, SpikeConstants
<1> DEFINE saved == Stem[Samples[doc_path]]
<1>2. /\ status = "running"
      /\ available' = available
      /\ name = available[provider]
      /\ doc_path \in 1..Len(Samples)
      /\ provider \in 1..Len(available)
      /\ Len(Samples) \in Nat
      /\ Len(available) \in Nat
      /\ saved \in DocIds
  BY DEF Save, Called, SpikeInv, FilesInv, SpikeConstants
<1>3. /\ RunOne(name, answer) \in Contents
      /\ RunOne(name, answer) # None
  BY DEF Contents, SpikeConstants
<1>4. /\ results' \in [PROVIDERS -> [DocIds -> Contents]]
      /\ results'[name][saved] # None
      /\ \A p \in PROVIDERS, d \in DocIds :
           results[p][d] # None => results'[p][d] # None
  BY <1>2, <1>3 DEF Save, SpikeInv, FilesInv
<1>5. FilesInv'
  BY <1>2, <1>4 DEF Save, LastProvider, SpikeInv, FilesInv
<1>6. CallsSaved'
  <2> SUFFICES ASSUME NEW k \in 1..Len(available), NEW n \in 1..Len(Samples),
                      (status = "done" \/ (status = "running" /\ Made(k, n)))'
               PROVE  results'[available[k]][Stem[Samples[n]]] # None
    BY <1>2 DEF CallsSaved
  <2>1. available[k] \in PROVIDERS /\ Stem[Samples[n]] \in DocIds
    BY DEF SpikeInv, FilesInv, SpikeConstants
  <2>2. Made(k, n) \/ (n = doc_path /\ k = provider)
    BY <1>2 DEF Save, LastProvider, Made
  <2>3. CASE Made(k, n)
    BY <1>2, <1>4, <2>1, <2>3 DEF SpikeInv, CallsSaved
  <2>4. CASE n = doc_path /\ k = provider
    BY <1>2, <1>4, <2>4
  <2> QED
    BY <2>2, <2>3, <2>4
<1> QED
  BY <1>1, <1>5, <1>6 DEF SpikeInv

LEMMA StopKeeps ==
  ASSUME SpikeConstants, SpikeInv, NEW name \in PROVIDERS,
         NEW answer \in Answers, StopAtCap(name, answer)
  PROVE  SpikeInv'
<1>1. MoneyInv'
  BY CallCosts DEF SpikeInv, MoneyInv, BudgetKept, StopAtCap, SpikeConstants
<1> QED
  BY <1>1 DEF SpikeInv, FilesInv, CallsSaved, StopAtCap, Called

LEMMA SpikeKeeps ==
  SpikeConstants /\ SpikeInv /\ [Next]_vars => SpikeInv'
<1>1. SpikeInv /\ UNCHANGED vars => SpikeInv'
  BY DEF SpikeInv, MoneyInv, BudgetKept, FilesInv, CallsSaved, Made, vars
<1> QED
  BY <1>1, StartKeeps, SaveKeeps, StopKeeps DEF Next

LEMMA FinishedFiles ==
  SpikeConstants /\ SpikeInv => FinishedIsEvaluated
<1> SUFFICES ASSUME SpikeConstants, SpikeInv, status = "done",
                    NEW k \in 1..Len(available), NEW n \in 1..Len(Samples)
             PROVE  LET d == Stem[Samples[n]]
                    IN d \in DOMAIN Truth =>
                         d \in Scored(available[k]) \cup Errors(available[k])
  BY DEF FinishedIsEvaluated
<1>1. Stem[Samples[n]] \in Present(available[k])
  BY DEF SpikeInv, FilesInv, CallsSaved, SpikeConstants, Present
<1> QED
  BY <1>1 DEF Scored

-----------------------------------------------------------------------------
LEMMA SpikeAlways == SpikeConstants /\ Spec => []SpikeInv
<1> SUFFICES ASSUME SpikeConstants PROVE Spec => []SpikeInv
  OBVIOUS
<1>1. Init => SpikeInv
  BY SpikeInit
<1>2. SpikeInv /\ [Next]_vars => SpikeInv'
  BY SpikeKeeps
<1> QED
  BY <1>1, <1>2, PTL DEF Spec

(* The estimate crosses the cap at most with the call that stops the run,  *)
(* and the bill differs from the estimate by the unpriced calls only. *)
THEOREM SpikeBudget == SpikeConstants /\ Spec => []BudgetKept
<1>1. SpikeInv => BudgetKept
  BY DEF SpikeInv, MoneyInv
<1> QED
  BY <1>1, SpikeAlways, PTL

(* A run that is not stopped leaves a result or an error of every provider *)
(* for every sample with a ground truth. *)
THEOREM SpikeCoverage == SpikeConstants /\ Spec => []FinishedIsEvaluated
<1> SUFFICES ASSUME SpikeConstants PROVE Spec => []FinishedIsEvaluated
  OBVIOUS
<1>1. SpikeInv => FinishedIsEvaluated
  BY FinishedFiles
<1>2. Spec => []SpikeInv
  BY SpikeAlways
<1> QED
  BY <1>1, <1>2, PTL
=============================================================================
