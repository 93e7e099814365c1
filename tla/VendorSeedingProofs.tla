------------------------ MODULE VendorSeedingProofs ------------------------
(***************************************************************************)
(* Seeding is complete and leaves as many rows of a vendor as there are    *)
(* runs at once, for any names and any number of runs.                     *)
(***************************************************************************)
EXTENDS VendorSeeding, FiniteSetTheorems, TLAPS

(* What the constants may be. *)
SeedingConstants ==
  /\ IsFiniteSet(Runners)
  /\ Runners # {}
  /\ Seeds \subseteq Forms
  /\ None \notin SUBSET Forms

(* Runners that will insert a name, because they read before it was there. *)
Pending(f) ==
  {r \in Runners : existing[r] # None /\ f \in Seeds \ existing[r]}

SeedingInv ==
  /\ rows \in [Forms -> Nat]
  /\ existing \in [Runners -> (SUBSET Forms) \cup {None}]
  /\ \A f \in Forms :
       rows[f] > 0 => rows[f] + Cardinality(Pending(f)) <= Cardinality(Runners)
  /\ \A r \in Runners :
       existing[r] # None => \A f \in existing[r] : rows[f] > 0

LEMMA PendingIsFinite ==
  ASSUME SeedingConstants, NEW f \in Forms
  PROVE  /\ IsFiniteSet(Pending(f))
         /\ Cardinality(Pending(f)) \in Nat
         /\ Cardinality(Runners) \in Nat \ {0}
         /\ Cardinality(Pending(f)) <= Cardinality(Runners)
<1>1. Pending(f) \subseteq Runners
  BY DEF Pending
<1>2. IsFiniteSet(Runners)
  BY DEF SeedingConstants
<1>3. Cardinality(Runners) # 0
  BY <1>2, FS_EmptySet DEF SeedingConstants
<1> QED
  BY <1>1, <1>2, <1>3, FS_Subset, FS_CardinalityType

LEMMA SeedingInit == SeedingConstants /\ Init => SeedingInv
<1> SUFFICES ASSUME SeedingConstants, Init PROVE SeedingInv
  OBVIOUS
<1>1. \A f \in Forms : Pending(f) = {}
  BY DEF Init, Pending
<1>2. \A f \in Forms : Cardinality(Pending(f)) = 0
  BY <1>1, FS_EmptySet
<1> QED
  BY <1>2, PendingIsFinite DEF Init, SeedingInv

LEMMA InsertKeeps ==
  ASSUME SeedingConstants, SeedingInv, NEW r \in Runners, Insert(r)
  PROVE  SeedingInv'
<1>1. /\ rows' \in [Forms -> Nat]
      /\ existing' \in [Runners -> (SUBSET Forms) \cup {None}]
      /\ \A f \in Forms : rows'[f] >= rows[f]
  BY DEF SeedingInv, Insert
<1>2. ASSUME NEW f \in Forms, rows'[f] > 0
      PROVE  rows'[f] + Cardinality(Pending(f)') <= Cardinality(Runners)
  <2>1. Pending(f)' = Pending(f) \ {r}
    BY DEF Insert, Pending, SeedingInv
  <2>2. CASE r \in Pending(f)
    <3>1. rows'[f] = rows[f] + 1
      BY <2>2 DEF Insert, Pending
    <3>2. Cardinality(Pending(f)') = Cardinality(Pending(f)) - 1
      BY <2>1, <2>2, PendingIsFinite, FS_RemoveElement
    <3> QED
      BY <3>1, <3>2, PendingIsFinite DEF SeedingInv
  <2>3. CASE r \notin Pending(f)
    <3>1. rows'[f] = rows[f] /\ Pending(f)' = Pending(f)
      BY <2>1, <2>3 DEF Insert, Pending
    <3> QED
      BY <1>2, <3>1 DEF SeedingInv
  <2> QED
    BY <2>2, <2>3
<1>3. \A s \in Runners :
        existing'[s] # None => \A f \in existing'[s] : rows'[f] > 0
  BY <1>1 DEF Insert, SeedingInv
<1> QED
  BY <1>1, <1>2, <1>3 DEF SeedingInv

LEMMA ReadKeeps ==
  ASSUME SeedingConstants, SeedingInv, NEW r \in Runners, Read(r)
  PROVE  SeedingInv'
<1>1. /\ rows' = rows
      /\ existing' \in [Runners -> (SUBSET Forms) \cup {None}]
  BY DEF SeedingInv, Read
<1>2. ASSUME NEW f \in Forms, rows[f] > 0 PROVE Pending(f)' = Pending(f)
  BY <1>2 DEF Read, Pending, SeedingInv
<1> QED
  BY <1>1, <1>2 DEF SeedingInv, Read

LEMMA DieKeeps ==
  ASSUME SeedingConstants, SeedingInv, NEW r \in Runners, Die(r)
  PROVE  SeedingInv'
<1>1. /\ rows' = rows
      /\ existing' \in [Runners -> (SUBSET Forms) \cup {None}]
  BY DEF SeedingInv, Die
<1>2. ASSUME NEW f \in Forms
      PROVE  /\ Cardinality(Pending(f)') \in Nat
             /\ Cardinality(Pending(f)') <= Cardinality(Pending(f))
  <2>1. Pending(f)' \subseteq Pending(f)
    BY DEF Die, Pending, SeedingInv
  <2> QED
    BY <2>1, PendingIsFinite, FS_Subset, FS_CardinalityType
<1> QED
  BY <1>1, <1>2, PendingIsFinite DEF SeedingInv, Die

LEMMA SeedingAlways == SeedingConstants /\ Spec => []SeedingInv
<1> SUFFICES ASSUME SeedingConstants PROVE Spec => []SeedingInv
  OBVIOUS
<1>1. Init => SeedingInv
  BY SeedingInit
<1>2. SeedingInv /\ UNCHANGED vars => SeedingInv'
  BY DEF SeedingInv, Pending, vars
<1>3. SeedingInv /\ [Next]_vars => SeedingInv'
  BY <1>2, InsertKeeps, ReadKeeps, DieKeeps DEF Next
<1> QED
  BY <1>1, <1>3, PTL DEF Spec

(* As many rows of a vendor as overlapping runs, at most. *)
THEOREM SeededAtMostPerRunner == SeedingConstants /\ Spec => []CopiesBounded
<1> SUFFICES ASSUME SeedingConstants PROVE Spec => []CopiesBounded
  OBVIOUS
<1>1. SeedingInv => CopiesBounded
  BY PendingIsFinite DEF SeedingInv, CopiesBounded
<1>2. Spec => []SeedingInv
  BY SeedingAlways
<1> QED
  BY <1>1, <1>2, PTL

(* A run that commits leaves every one of its names on file. *)
THEOREM SeededCompletely == SeedingConstants /\ Spec => AllSeeded
<1> SUFFICES ASSUME SeedingConstants PROVE Spec => AllSeeded
  OBVIOUS
<1>1. SeedingInv =>
        \A r \in Runners : Insert(r) => \A f \in Seeds : rows'[f] > 0
  BY DEF SeedingInv, Insert, SeedingConstants
<1>2. Spec => []SeedingInv
  BY SeedingAlways
<1> QED
  BY <1>1, <1>2, PTL DEF AllSeeded
=============================================================================
