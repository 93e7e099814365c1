--------------------------- MODULE VendorSeeding ---------------------------
(***************************************************************************)
(* seed_vendors reads which normalised names are on file and inserts the   *)
(* others of its list.  The column is indexed but not unique, so what the  *)
(* docstring calls idempotent depends on who else runs it.                 *)
(***************************************************************************)
EXTENDS Integers, FiniteSets

CONSTANTS
  Runners,    \* shells from which the script is started
  Forms,      \* normalised names
  Seeds,      \* those of SEED_VENDOR_NAMES
  None

VARIABLES
  rows,       \* number of vendors by normalised name
  existing    \* by runner: the names it has read, or None

vars == <<rows, existing>>

Init ==
  /\ rows \in [Forms -> 0..1]
  /\ existing = [r \in Runners |-> None]

Read(r) ==
  /\ existing[r] = None
  /\ existing' = [existing EXCEPT ![r] = {f \in Forms : rows[f] > 0}]
  /\ UNCHANGED rows

(* Names it inserts itself are added to existing: one row for each.        *)
Insert(r) ==
  /\ existing[r] # None
  /\ rows' = [f \in Forms |->
                IF f \in Seeds \ existing[r] THEN rows[f] + 1 ELSE rows[f]]
  /\ existing' = [existing EXCEPT ![r] = None]

(* The script dies before its commit.                                      *)
Die(r) ==
  /\ existing[r] # None
  /\ existing' = [existing EXCEPT ![r] = None]
  /\ UNCHANGED rows

Next == \E r \in Runners : Read(r) \/ Insert(r) \/ Die(r)

Spec == Init /\ [][Next]_vars

-----------------------------------------------------------------------------
(* However often it is run, a vendor has no more rows than there are       *)
(* shells it is run from; with one shell seeding is idempotent. *)
CopiesBounded == \A f \in Forms : rows[f] <= Cardinality(Runners)

(* When a run commits, all its names are on file. *)
AllSeeded ==
  [][\A r \in Runners : Insert(r) => \A f \in Seeds : rows'[f] > 0]_vars
=============================================================================
