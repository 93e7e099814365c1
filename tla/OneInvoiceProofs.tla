-------------------------- MODULE OneInvoiceProofs --------------------------
(***************************************************************************)
(* One invoice, proved for any answers, requests and reviewers and for any *)
(* numbers of attempts and retries.  First induction and recursion on the  *)
(* naturals, for the delays and the loop over the vendors.  Then the       *)
(* operators: the reading of a row decides as its columns do, columns stay *)
(* in their types, and what a request leaves in the row is in the events   *)
(* it adds.  Then one lemma for each action, with a step for each conjunct *)
(* of the invariant.  The audit trail is the conjunct with an argument: a  *)
(* reviewer writes the columns that differ from what was loaded, which may *)
(* be older than the row.  Last the best match, the delays and the work    *)
(* that is left, whose measure every step takes from.                      *)
(***************************************************************************)
EXTENDS OneInvoiceInvariant, Billing, TLAPS, WellFoundedInduction

-----------------------------------------------------------------------------
(* Induction and recursion, from the well-foundedness of the naturals: a   *)
(* set of numbers that is not empty has a least one.                       *)
LEMMA Least ==
  ASSUME NEW S, S \subseteq Nat, S # {}
  PROVE  \E m \in S : \A k \in S : m <= k
<1> DEFINE R == OpToRel(<, Nat)
<1>1. IsWellFoundedOn(R, Nat)
  BY NatLessThanWellFounded
<1>2. PICK m \in S : \A k \in S : <<k, m>> \notin R
  <2> HIDE DEF R
  <2> QED
    BY <1>1, WFMin
<1>3. \A k \in S : ~(k < m)
  BY <1>2 DEF OpToRel
<1> HIDE DEF R
<1> QED
  BY <1>3

LEMMA Induction ==
  ASSUME NEW S, 0 \in S, \A n \in Nat : n \in S => n + 1 \in S
  PROVE  \A n \in Nat : n \in S
<1> SUFFICES ASSUME Nat \ S # {} PROVE FALSE
  OBVIOUS
<1>1. PICK m \in Nat \ S : \A k \in Nat \ S : m <= k
  BY Least
<1>2. m # 0 /\ m - 1 \in Nat /\ m - 1 \in S
  BY <1>1
<1> QED
  BY <1>1, <1>2

(* The first n steps of an iteration, and all of them: they exist and are  *)
(* unique, so a function defined by recursion satisfies its definition.    *)
Prefix(f, n, V, base, step) ==
  /\ f \in [0 .. n -> V]
  /\ f[0] = base
  /\ \A i \in 0 .. (n - 1) : f[i + 1] = step[i][f[i]]

LEMMA PrefixExists ==
  ASSUME NEW V, NEW base \in V, NEW step \in [Nat -> [V -> V]]
  PROVE  \A n \in Nat : \E f : Prefix(f, n, V, base, step)
<1> DEFINE S == {n \in Nat : \E f : Prefix(f, n, V, base, step)}
<1>1. 0 \in S
  <2>1. Prefix([i \in 0 .. 0 |-> base], 0, V, base, step)
    BY DEF Prefix
  <2> QED
    BY <2>1
<1>2. ASSUME NEW n \in Nat, n \in S
      PROVE  n + 1 \in S
  <2>1. PICK f : Prefix(f, n, V, base, step)
    BY <1>2
  <2> DEFINE g == [i \in 0 .. (n + 1) |->
                     IF i = n + 1 THEN step[n][f[n]] ELSE f[i]]
  <2>2. \A i \in 0 .. n : f[i] \in V /\ g[i] = f[i]
    BY <2>1 DEF Prefix
  <2>3. step[n][f[n]] \in V
    <3>1. step[n] \in [V -> V]
      OBVIOUS
    <3>2. f[n] \in V
      BY <2>1 DEF Prefix
    <3> QED
      BY ONLY <3>1, <3>2
  <2>4. g \in [0 .. (n + 1) -> V]
    <3>1. \A i \in 0 .. (n + 1) : i = n + 1 \/ i \in 0 .. n
      OBVIOUS
    <3>2. \A i \in 0 .. (n + 1) : i # n + 1 => f[i] \in V
      BY <2>2, <3>1
    <3> QED
      BY <2>3, <3>2
  <2>5. g[n + 1] = step[n][f[n]] /\ g[0] = f[0] /\ g[n] = f[n]
    BY <2>2
  <2>6. \A i \in 0 .. n : g[i + 1] = step[i][g[i]]
    <3> SUFFICES ASSUME NEW i \in 0 .. n
                 PROVE  g[i + 1] = step[i][g[i]]
      OBVIOUS
    <3>1. CASE i = n
      BY <3>1, <2>2, <2>5
    <3>2. CASE i # n
      <4>1. i \in 0 .. (n - 1) /\ i + 1 \in 0 .. n
        BY <3>2
      <4> QED
        BY <4>1, <2>1, <2>2 DEF Prefix
    <3> QED
      BY <3>1, <3>2
  <2>7. Prefix(g, n + 1, V, base, step)
    <3> HIDE DEF g
    <3> QED
      BY <2>1, <2>4, <2>5, <2>6 DEF Prefix
  <2> QED
    BY <2>7
<1>3. \A n \in Nat : n \in S
  <2> HIDE DEF S
  <2> QED
    BY <1>1, <1>2, Induction
<1> QED
  BY <1>3

LEMMA PrefixUnique ==
  ASSUME NEW V, NEW base \in V, NEW step \in [Nat -> [V -> V]],
         NEW m \in Nat, NEW n \in Nat, m <= n, NEW f, NEW g,
         Prefix(f, m, V, base, step), Prefix(g, n, V, base, step)
  PROVE  f[m] = g[m]
<1> DEFINE S == {i \in Nat : i <= m => f[i] = g[i]}
<1>1. 0 \in S
  BY DEF Prefix
<1>2. ASSUME NEW i \in Nat, i \in S
      PROVE  i + 1 \in S
  <2> SUFFICES ASSUME i + 1 <= m PROVE f[i + 1] = g[i + 1]
    OBVIOUS
  <2>1. i \in 0 .. (m - 1) /\ i \in 0 .. (n - 1) /\ f[i] = g[i]
    BY <1>2
  <2> QED
    BY <2>1 DEF Prefix
<1>3. \A i \in Nat : i \in S
  <2> HIDE DEF S
  <2> QED
    BY <1>1, <1>2, Induction
<1> QED
  BY <1>3

Iterates(f, V, base, step) ==
  /\ f \in [Nat -> V]
  /\ f[0] = base
  /\ \A n \in Nat : f[n + 1] = step[n][f[n]]

LEMMA Iteration ==
  ASSUME NEW V, NEW base \in V, NEW step \in [Nat -> [V -> V]]
  PROVE  \E f : Iterates(f, V, base, step)
<1> DEFINE prefix(n) == CHOOSE f : Prefix(f, n, V, base, step)
           f == [n \in Nat |-> prefix(n)[n]]
<1>1. \A n \in Nat : Prefix(prefix(n), n, V, base, step)
  BY PrefixExists
<1> HIDE DEF prefix
<1>2. \A n \in Nat : prefix(n)[n] = prefix(n + 1)[n]
  BY <1>1, PrefixUnique
<1>3. f \in [Nat -> V] /\ f[0] = base
  BY <1>1 DEF Prefix
<1>4. \A n \in Nat : f[n + 1] = step[n][f[n]]
  <2> SUFFICES ASSUME NEW n \in Nat PROVE f[n + 1] = step[n][f[n]]
    OBVIOUS
  <2>1. prefix(n + 1)[n + 1] = step[n][prefix(n + 1)[n]]
    BY <1>1 DEF Prefix
  <2> QED
    BY <1>2, <2>1
<1>5. Iterates(f, V, base, step)
  <2> HIDE DEF f
  <2> QED
    BY <1>3, <1>4 DEF Iterates
<1> QED
  BY <1>5

(* PowerOfTwo is defined by recursion, and grows. *)
LEMMA Powers ==
  /\ PowerOfTwo \in [Nat -> Nat]
  /\ PowerOfTwo[0] = 1
  /\ \A n \in Nat : PowerOfTwo[n + 1] = 2 * PowerOfTwo[n]
<1> DEFINE Twice == [i \in Nat |-> [v \in Nat |-> 2 * v]]
           IsPower(f) ==
             f = [n \in Nat |-> IF n = 0 THEN 1 ELSE 2 * f[n - 1]]
<1>1. \E f : IsPower(f)
  <2>1. Twice \in [Nat -> [Nat -> Nat]]
    OBVIOUS
  <2>2. PICK f : Iterates(f, Nat, 1, Twice)
    <3> HIDE DEF Twice
    <3> QED
      BY <2>1, Iteration
  <2>3. \A n \in Nat : f[n + 1] = 2 * f[n]
    BY <2>2 DEF Iterates
  <2>4. \A n \in Nat : f[n] = IF n = 0 THEN 1 ELSE 2 * f[n - 1]
    <3> SUFFICES ASSUME NEW n \in Nat, n # 0
                 PROVE  f[n] = 2 * f[n - 1]
      BY <2>2 DEF Iterates
    <3>1. n - 1 \in Nat /\ (n - 1) + 1 = n
      OBVIOUS
    <3> HIDE DEF Twice
    <3> QED
      BY <2>3, <3>1
  <2>5. IsPower(f)
    BY <2>2, <2>4 DEF Iterates
  <2> QED
    BY <2>5
<1>2. PowerOfTwo = CHOOSE f : IsPower(f)
  BY Zenon DEF PowerOfTwo
<1>3. IsPower(PowerOfTwo)
  <2> HIDE DEF IsPower
  <2> QED
    BY <1>1, <1>2, Zenon
<1>4. /\ PowerOfTwo[0] = 1
      /\ \A n \in Nat : PowerOfTwo[n + 1] = 2 * PowerOfTwo[n]
  BY <1>3
<1>5. \A n \in Nat : PowerOfTwo[n] \in Nat
  <2> DEFINE S == {n \in Nat : PowerOfTwo[n] \in Nat}
  <2>1. 0 \in S
    BY <1>4
  <2>2. \A n \in Nat : n \in S => n + 1 \in S
    BY <1>4
  <2>3. \A n \in Nat : n \in S
    <3> HIDE DEF S
    <3> QED
      BY <2>1, <2>2, Induction
  <2> QED
    BY <2>3
<1>6. PowerOfTwo \in [Nat -> Nat]
  BY <1>3, <1>5
<1> QED
  BY <1>4, <1>6

LEMMA PowersGrow ==
  ASSUME NEW m \in Nat, NEW n \in Nat, m <= n
  PROVE  PowerOfTwo[m] <= PowerOfTwo[n]
<1> DEFINE S == {i \in Nat : m <= i => PowerOfTwo[m] <= PowerOfTwo[i]}
<1>1. \A i \in Nat : PowerOfTwo[i] \in Nat
  BY Powers
<1>2. 0 \in S
  BY <1>1
<1>3. ASSUME NEW i \in Nat, i \in S
      PROVE  i + 1 \in S
  <2>1. CASE m <= i
    <3>1. /\ PowerOfTwo[m] <= PowerOfTwo[i]
          /\ PowerOfTwo[i + 1] = 2 * PowerOfTwo[i]
      BY <1>3, <2>1, Powers
    <3>2. PowerOfTwo[m] \in Nat /\ PowerOfTwo[i] \in Nat
      BY <1>1
    <3>3. PowerOfTwo[m] <= PowerOfTwo[i + 1]
      BY <3>1, <3>2
    <3> QED
      BY <3>3
  <2>2. CASE ~(m <= i)
    <3>1. m <= i + 1 => m = i + 1
      BY <2>2
    <3> QED
      BY <3>1, <1>1
  <2> QED
    BY <2>1, <2>2
<1>4. \A i \in Nat : i \in S
  <2> HIDE DEF S
  <2> QED
    BY <1>2, <1>3, Induction
<1> QED
  BY <1>4

-----------------------------------------------------------------------------
(* The columns and their readings.                                         *)
LEMMA Columns ==
  /\ "vendor_name" \in EXTRACTED_FIELDS
  /\ "invoice_number" \in EXTRACTED_FIELDS
  /\ "currency" \in EXTRACTED_FIELDS
  /\ KeyColumns \ {"total"} =
       {"vendor_name", "invoice_number", "invoice_date"}
  /\ REQUIRED_FIELDS =
       {"vendor_name", "invoice_number", "invoice_date", "currency",
        "subtotal", "tax", "total"}
BY DEF EXTRACTED_FIELDS, NumericColumns, DateColumns, TextColumns, KeyColumns,
       REQUIRED_FIELDS

(* The key of a row: missing exactly if one of its columns is. *)
Key(x) == <<Normal[x["vendor_name"]], Normal[x["invoice_number"]],
            x["invoice_date"]>>

(* A reading names the invoice exactly if the key columns are filled.      *)
LEMMA KeyOfRow ==
  ASSUME NEW x, IsRow(x)
  PROVE  /\ (Reading(x).invoice # None
               <=> \A c \in KeyColumns \ {"total"} : x[c] # None)
         /\ Reading(x).invoice # None => Reading(x).invoice = Key(x)
<1>1. CASE \E c \in KeyColumns \ {"total"} : x[c] = None
  BY <1>1 DEF Reading
<1>2. CASE \A c \in KeyColumns \ {"total"} : x[c] # None
  <2>1. /\ x["vendor_name"] \in Texts \cup {Blank}
        /\ x["invoice_number"] \in Texts \cup {Blank}
        /\ x["invoice_date"] \in Dates
    BY <1>2, Columns DEF IsRow, DateColumns, TextColumns
  <2>2. Key(x) \in (Texts \cup {Blank}) \X (Texts \cup {Blank}) \X Dates
    BY <2>1, TextsAreWellFormed DEF Key
  <2>3. Key(x) # None
    BY <2>2, NoneIsNoTriple
  <2>4. Reading(x).invoice = Key(x)
    BY <1>2 DEF Reading, Key
  <2> QED
    BY <1>2, <2>3, <2>4
<1> QED
  BY <1>1, <1>2

(* validation.py and vendor_matching.py on the columns of a row pass it if *)
(* and only if RulesPass, which the pipeline uses, passes its reading. *)
THEOREM RulesOnReading ==
  ASSUME NEW x, IsRow(x)
  PROVE  RulesDecideAlike(x)
<1>1. Reading(x).invoice # None
        <=> /\ x["vendor_name"] # None
            /\ x["invoice_number"] # None
            /\ x["invoice_date"] # None
  BY KeyOfRow, Columns
<1>2. /\ Reading(x).total = x["total"]
      /\ Reading(x).currency <=> x["currency"] # None
      /\ Reading(x).clean
           <=> Balanced(x) /\ VendorKnown(x["vendor_name"])
  BY DEF Reading
<1>3. Balanced(x) => x["subtotal"] # None /\ x["tax"] # None
  BY DEF Balanced, NumericColumns
<1> QED
  BY <1>1, <1>2, <1>3, Columns DEF RulesDecideAlike, Passes, RulesPass

(* find_content_duplicate matches two rows if and only if SameInvoice,     *)
(* which the pipeline uses, matches their readings: no normalisation, no   *)
(* missing column and no boundary of the tolerance is lost. *)
THEOREM ComparisonOnReadings ==
  ASSUME NEW x, NEW y, IsRow(x), IsRow(y)
  PROVE  ComparesAlike(x, y)
<1> SUFFICES ASSUME NaN \notin {x["total"], y["total"]}
             PROVE  ContentDuplicate(x, y)
                      <=> SameInvoice(Reading(x), Reading(y))
  BY DEF ComparesAlike
<1>1. Reading(x).total = x["total"] /\ Reading(y).total = y["total"]
  BY DEF Reading
<1>2. KeyColumns = {"vendor_name", "invoice_number", "invoice_date", "total"}
  BY DEF KeyColumns
<1>3. Key(x) = Key(y)
        <=> /\ Normal[x["vendor_name"]] = Normal[y["vendor_name"]]
            /\ Normal[x["invoice_number"]] = Normal[y["invoice_number"]]
            /\ x["invoice_date"] = y["invoice_date"]
  BY DEF Key
<1>4. ASSUME ContentDuplicate(x, y)
      PROVE  SameInvoice(Reading(x), Reading(y))
  <2>1. /\ Reading(x).invoice = Key(x)
        /\ Reading(y).invoice = Key(y)
        /\ Reading(x).invoice # None
    BY <1>4, KeyOfRow DEF ContentDuplicate
  <2> QED
    BY <1>1, <1>2, <1>3, <1>4, <2>1
          DEF ContentDuplicate, SameInvoice, Within
<1>5. ASSUME SameInvoice(Reading(x), Reading(y))
      PROVE  ContentDuplicate(x, y)
  <2>1. /\ Reading(x).invoice # None
        /\ Reading(y).invoice # None
    BY <1>5 DEF SameInvoice
  <2>2. Key(x) = Key(y)
    BY <1>5, <2>1, KeyOfRow DEF SameInvoice
  <2>3. \A c \in KeyColumns : x[c] # None /\ y[c] # None
    BY <1>1, <1>2, <1>5, <2>1, KeyOfRow, Columns DEF SameInvoice
  <2>4. Within(x["total"], y["total"])
    BY <1>1, <1>5 DEF SameInvoice
  <2> QED
    BY <1>3, <2>2, <2>3, <2>4 DEF ContentDuplicate
<1> QED
  BY <1>4, <1>5
-----------------------------------------------------------------------------
(* The vendor match: the best of the first n vendors follows from that of  *)
(* the vendors before, and is the first of the most alike.                 *)
LEMMA LikenessIsScore ==
  ASSUME NEW name \in Texts \cup {Blank}, NEW i \in DOMAIN Vendors
  PROVE  /\ Vendors[i] \in Texts
         /\ Likeness(name, Vendors[i]) \in 0 .. 100
<1>1. Vendors[i] \in Texts
  BY TextsAreWellFormed
<1>2. /\ Normal[name] \in Texts \cup {Blank}
      /\ Normal[Vendors[i]] \in Texts \cup {Blank}
  BY <1>1, TextsAreWellFormed
<1> QED
  BY <1>1, <1>2, ScoresAreWellFormed DEF Likeness

LEMMA MatchesInOrder ==
  ASSUME NEW name \in Texts \cup {Blank}
  PROVE  /\ Matches(name, Vendors)[0] = NoMatch
         /\ \A n \in Nat : n < Len(Vendors) =>
              Matches(name, Vendors)[n + 1] =
                Nearer(name, Matches(name, Vendors)[n], Vendors[n + 1])
<1> DEFINE size == Len(Vendors)
           Found == [vendor : Texts \cup {None}, score : 0 .. 100]
           Look == [i \in Nat |-> [best \in Found |->
                      IF i < size THEN Nearer(name, best, Vendors[i + 1])
                                  ELSE best]]
           IsMatches(f) ==
             f = [n \in 0 .. size |->
                    IF n = 0 THEN NoMatch
                    ELSE Nearer(name, f[n - 1], Vendors[n])]
<1>1. size \in Nat /\ DOMAIN Vendors = 1 .. size
  BY TextsAreWellFormed
<1>2. \E f : IsMatches(f)
  <2>1. ASSUME NEW best \in Found, NEW i \in 1 .. size
        PROVE  Nearer(name, best, Vendors[i]) \in Found
    BY <1>1, <2>1, LikenessIsScore DEF Nearer
  <2>2. Look \in [Nat -> [Found -> Found]]
    <3>1. ASSUME NEW i \in Nat, NEW best \in Found
          PROVE  (IF i < size THEN Nearer(name, best, Vendors[i + 1])
                              ELSE best) \in Found
      <4>1. i < size => i + 1 \in 1 .. size
        BY <1>1
      <4> HIDE DEF Found, size
      <4> QED
        BY <2>1, <4>1
    <3> HIDE DEF Found
    <3> QED
      BY <3>1
  <2>3. NoMatch \in Found
    BY DEF NoMatch
  <2>4. PICK f : Iterates(f, Found, NoMatch, Look)
    <3> HIDE DEF Found, Look
    <3> QED
      BY <2>2, <2>3, Iteration
  <2>5. \A n \in Nat : n < size =>
          f[n + 1] = Nearer(name, f[n], Vendors[n + 1])
    <3> SUFFICES ASSUME NEW n \in Nat, n < size
                 PROVE  f[n + 1] = Nearer(name, f[n], Vendors[n + 1])
      OBVIOUS
    <3>1. f[n] \in Found
      BY <2>4 DEF Iterates
    <3>2. f[n + 1] = Look[n][f[n]]
      BY <2>4 DEF Iterates
    <3> HIDE DEF Found
    <3> QED
      BY <3>1, <3>2
  <2> DEFINE g == [n \in 0 .. size |-> f[n]]
  <2>6. \A n \in 0 .. size : g[n] = IF n = 0 THEN NoMatch
                                    ELSE Nearer(name, g[n - 1], Vendors[n])
    <3> SUFFICES ASSUME NEW n \in 0 .. size
                 PROVE  f[n] = IF n = 0 THEN NoMatch
                               ELSE Nearer(name, g[n - 1], Vendors[n])
      OBVIOUS
    <3>1. CASE n = 0
      BY <3>1, <2>4 DEF Iterates
    <3>2. CASE n # 0
      <4>1. /\ n - 1 \in Nat /\ n - 1 < size /\ n - 1 \in 0 .. size
            /\ (n - 1) + 1 = n
        BY <3>2, <1>1
      <4>2. g[n - 1] = f[n - 1]
        BY <4>1
      <4>3. f[(n - 1) + 1] = Nearer(name, f[n - 1], Vendors[(n - 1) + 1])
        BY <4>1, <2>5
      <4> HIDE DEF g, size
      <4> QED
        BY <3>2, <4>1, <4>2, <4>3
    <3> QED
      BY <3>1, <3>2
  <2>7. IsMatches(g)
    BY <2>6
  <2> QED
    BY <2>7
<1>3. Matches(name, Vendors) = CHOOSE f : IsMatches(f)
  BY Zenon DEF Matches
<1>4. IsMatches(Matches(name, Vendors))
  <2> HIDE DEF IsMatches
  <2> QED
    BY <1>2, <1>3, Zenon
<1> DEFINE best == Matches(name, Vendors)
<1>5. \A n \in 0 .. size :
        best[n] = IF n = 0 THEN NoMatch
                  ELSE Nearer(name, best[n - 1], Vendors[n])
  <2> HIDE DEF best
  <2> QED
    BY <1>4 DEF best
<1>6. best[0] = NoMatch
  <2> HIDE DEF best, size
  <2>1. 0 \in 0 .. size
    BY <1>1
  <2> QED
    BY <1>5, <2>1
<1>7. ASSUME NEW n \in Nat, n < size
      PROVE  best[n + 1] = Nearer(name, best[n], Vendors[n + 1])
  <2> HIDE DEF best, size
  <2>1. n + 1 \in 0 .. size /\ n + 1 # 0 /\ (n + 1) - 1 = n
    BY <1>1, <1>7
  <2> QED
    BY <1>5, <2>1
<1> QED
  BY <1>6, <1>7

FirstBest(name, best, n) ==
  \/ /\ best = NoMatch
     /\ \A i \in 1 .. n : Likeness(name, Vendors[i]) = 0
  \/ \E i \in 1 .. n :
       /\ best.vendor = Vendors[i]
       /\ best.score = Likeness(name, Vendors[i])
       /\ best.score > 0
       /\ \A j \in 1 .. n :
            /\ Likeness(name, Vendors[j]) <= best.score
            /\ j < i => Likeness(name, Vendors[j]) < best.score

LEMMA NearerIsFirstBest ==
  ASSUME NEW name \in Texts \cup {Blank}, NEW best,
         NEW n \in Nat, n < Len(Vendors), FirstBest(name, best, n)
  PROVE  FirstBest(name, Nearer(name, best, Vendors[n + 1]), n + 1)
<1> DEFINE L(i) == Likeness(name, Vendors[i])
<1>0. n \in Nat
  OBVIOUS
<1>1. \A i \in 1 .. (n + 1) : L(i) \in 0 .. 100
  <2>1. DOMAIN Vendors = 1 .. Len(Vendors) /\ Len(Vendors) \in Nat
    BY TextsAreWellFormed
  <2>2. 1 .. (n + 1) \subseteq DOMAIN Vendors
    BY <2>1
  <2> QED
    BY <2>2, LikenessIsScore
<1>2. \A i \in 1 .. (n + 1) : i \in 1 .. n \/ i = n + 1
  OBVIOUS
<1>3. 1 .. n \subseteq 1 .. (n + 1) /\ n + 1 \in 1 .. (n + 1)
  OBVIOUS
<1>4. CASE /\ best = NoMatch
           /\ \A i \in 1 .. n : L(i) = 0
  <2>1. CASE L(n + 1) > 0
    <3>1. Nearer(name, best, Vendors[n + 1]) =
            [vendor |-> Vendors[n + 1], score |-> L(n + 1)]
      BY <1>4, <2>1 DEF Nearer, NoMatch
    <3>2. \A j \in 1 .. (n + 1) :
            /\ L(j) <= L(n + 1)
            /\ j < n + 1 => L(j) < L(n + 1)
      <4>1. \A j \in 1 .. n : L(j) < L(n + 1)
        BY <2>1, <1>4
      <4> QED
        BY ONLY <4>1, <1>0, <1>1, <1>2, <1>3
    <3> QED
      BY <3>1, <3>2, <2>1, <1>3 DEF FirstBest
  <2>2. CASE ~(L(n + 1) > 0)
    <3>1. Nearer(name, best, Vendors[n + 1]) = best
      BY <1>4, <2>2 DEF Nearer, NoMatch
    <3>2. L(n + 1) = 0
      <4>1. L(n + 1) \in 0 .. 100
        BY <1>1, <1>3
      <4> QED
        BY ONLY <4>1, <2>2
    <3> QED
      BY <3>1, <3>2, <1>2, <1>4 DEF FirstBest
  <2> QED
    BY <2>1, <2>2
<1>5. CASE \E i \in 1 .. n :
             /\ best.vendor = Vendors[i]
             /\ best.score = L(i)
             /\ best.score > 0
             /\ \A j \in 1 .. n :
                  /\ L(j) <= best.score
                  /\ j < i => L(j) < best.score
  <2>1. PICK i \in 1 .. n :
          /\ best.vendor = Vendors[i]
          /\ best.score = L(i)
          /\ best.score > 0
          /\ \A j \in 1 .. n :
               /\ L(j) <= best.score
               /\ j < i => L(j) < best.score
    BY <1>5
  <2>2. L(i) \in 0 .. 100 /\ L(n + 1) \in 0 .. 100
    BY <1>1, <1>3
  <2>3. CASE L(n + 1) > best.score
    <3>1. Nearer(name, best, Vendors[n + 1]) =
            [vendor |-> Vendors[n + 1], score |-> L(n + 1)]
      BY <2>3 DEF Nearer
    <3>2. \A j \in 1 .. n : L(j) < L(n + 1)
      <4> SUFFICES ASSUME NEW j \in 1 .. n PROVE L(j) < L(n + 1)
        OBVIOUS
      <4>1. L(j) \in 0 .. 100 /\ L(j) <= L(i)
        BY <2>1, <1>1, <1>3
      <4>2. L(i) < L(n + 1)
        BY <2>1, <2>3
      <4> QED
        BY ONLY <4>1, <4>2, <2>2
    <3>3. L(n + 1) > 0
      <4>1. L(i) > 0 /\ L(i) < L(n + 1)
        BY <2>1, <2>3
      <4> QED
        BY ONLY <4>1, <2>2
    <3>4. \A j \in 1 .. (n + 1) :
            /\ L(j) <= L(n + 1)
            /\ j < n + 1 => L(j) < L(n + 1)
      BY ONLY <3>2, <1>0, <1>1, <1>2, <1>3
    <3> QED
      BY <3>1, <3>3, <3>4, <1>3 DEF FirstBest
  <2>4. CASE ~(L(n + 1) > best.score)
    <3>1. Nearer(name, best, Vendors[n + 1]) = best
      BY <2>4 DEF Nearer
    <3>2. L(n + 1) <= best.score /\ ~(n + 1 < i)
      <4>1. ~(L(n + 1) > L(i))
        BY <2>1, <2>4
      <4>2. L(n + 1) <= L(i)
        BY ONLY <4>1, <2>2
      <4> QED
        BY <4>2, <2>1
    <3> QED
      BY <3>1, <3>2, <2>1, <1>2, <1>3 DEF FirstBest
  <2> QED
    BY <2>3, <2>4
<1> QED
  BY <1>4, <1>5 DEF FirstBest

LEMMA MatchesAreFirstBest ==
  ASSUME NEW name \in Texts \cup {Blank}
  PROVE  FirstBest(name, FindBestMatch(name, Vendors), Len(Vendors))
<1> DEFINE best == Matches(name, Vendors)
           S == {n \in Nat : n <= Len(Vendors)
                               => FirstBest(name, best[n], n)}
<1>1. Len(Vendors) \in Nat
  BY TextsAreWellFormed
<1>2. 0 \in S
  BY MatchesInOrder DEF FirstBest
<1>3. ASSUME NEW n \in Nat, n \in S
      PROVE  n + 1 \in S
  <2> SUFFICES ASSUME n + 1 <= Len(Vendors)
               PROVE  FirstBest(name, best[n + 1], n + 1)
    OBVIOUS
  <2>1. n < Len(Vendors) /\ n <= Len(Vendors)
    BY <1>1
  <2>2. FirstBest(name, best[n], n)
    BY <1>3, <2>1
  <2>3. best[n + 1] = Nearer(name, best[n], Vendors[n + 1])
    BY <2>1, MatchesInOrder
  <2> HIDE DEF best
  <2> QED
    BY <2>1, <2>2, <2>3, NearerIsFirstBest
<1>4. \A n \in Nat : n \in S
  <2> HIDE DEF S
  <2> QED
    BY <1>2, <1>3, Induction
<1> QED
  BY <1>1, <1>4 DEF FindBestMatch

(* Whether a name is known is a question about the set of vendors: the     *)
(* query that loads them states no order, and the loop that keeps the      *)
(* first of the best needs none. *)
THEOREM VerdictIgnoresOrder ==
  ASSUME NEW name \in Texts
  PROVE  VendorKnown(name)
           <=> /\ name \notin {None, Blank}
               /\ \E i \in DOMAIN Vendors :
                    Likeness(name, Vendors[i]) >= MATCH_THRESHOLD
<1>1. FirstBest(name, FindBestMatch(name, Vendors), Len(Vendors))
  BY MatchesAreFirstBest
<1>2. DOMAIN Vendors = 1 .. Len(Vendors)
  BY TextsAreWellFormed
<1>3. \A i \in DOMAIN Vendors : Likeness(name, Vendors[i]) \in 0 .. 100
  BY LikenessIsScore
<1>4. FindBestMatch(name, Vendors).score >= MATCH_THRESHOLD
        <=> \E i \in DOMAIN Vendors :
              Likeness(name, Vendors[i]) >= MATCH_THRESHOLD
  <2> DEFINE best == FindBestMatch(name, Vendors)
  <2> HIDE DEF best
  <2>1. CASE best = NoMatch /\ \A i \in DOMAIN Vendors :
                                 Likeness(name, Vendors[i]) = 0
    BY <2>1 DEF best, NoMatch, MATCH_THRESHOLD
  <2>2. ASSUME NEW i \in DOMAIN Vendors,
               best.score = Likeness(name, Vendors[i]),
               \A j \in DOMAIN Vendors :
                 Likeness(name, Vendors[j]) <= best.score
        PROVE  best.score >= MATCH_THRESHOLD
                 <=> \E j \in DOMAIN Vendors :
                       Likeness(name, Vendors[j]) >= MATCH_THRESHOLD
    <3>1. \A j \in DOMAIN Vendors :
            Likeness(name, Vendors[j]) >= 85 => best.score >= 85
      BY <1>3, <2>2
    <3> QED
      BY <3>1, <2>2 DEF MATCH_THRESHOLD
  <2> QED
    BY <1>1, <1>2, <2>1, <2>2 DEF FirstBest, best
<1> QED
  BY <1>4 DEF VendorKnown

-----------------------------------------------------------------------------
(* The values a column may hold. *)
Column(c) ==
  CASE c \in NumericColumns -> Numbers \cup {None}
    [] c \in DateColumns    -> Dates \cup {None}
    [] c \in TextColumns    -> Texts \cup {Blank, None}

LEMMA ColumnsAreSorted ==
  /\ \A c \in NumericColumns : Column(c) = Numbers \cup {None}
  /\ \A c \in DateColumns : Column(c) = Dates \cup {None}
  /\ \A c \in TextColumns : Column(c) = Texts \cup {Blank, None}
BY DEF Column, NumericColumns, DateColumns, TextColumns

LEMMA RowsByColumn ==
  ASSUME NEW x, x = [c \in EXTRACTED_FIELDS |-> x[c]],
         \A c \in EXTRACTED_FIELDS : x[c] \in Column(c)
  PROVE  x \in Rows
<1>1. \A c \in EXTRACTED_FIELDS : Column(c) \subseteq Values
  BY ColumnsAreSorted DEF EXTRACTED_FIELDS, Values, Numbers
<1>2. IsRow(x)
  BY ColumnsAreSorted DEF IsRow, EXTRACTED_FIELDS
<1>3. x \in [EXTRACTED_FIELDS -> Values]
  BY <1>1
<1> QED
  BY <1>2, <1>3 DEF Rows

LEMMA RowsAreRows ==
  ASSUME NEW x \in Rows
  PROVE  /\ IsRow(x)
         /\ x # None
         /\ \A c \in EXTRACTED_FIELDS : x[c] \in Column(c)
BY NoneIsNoRow, ColumnsAreSorted DEF Rows, IsRow, EXTRACTED_FIELDS

LEMMA ProvidedIsRow ==
  ASSUME NEW a \in Annotations
  PROVE  FromProvider(a) \in Rows
<1> DEFINE x == FromProvider(a)
<1>1. ASSUME NEW c \in NumericColumns
      PROVE  x[c] = IF a[c] \in Numbers THEN a[c] ELSE None
  BY DEF FromProvider, EXTRACTED_FIELDS, NumericColumns, DateColumns
<1>2. ASSUME NEW c \in DateColumns
      PROVE  x[c] = IF a[c] \in Dates THEN a[c] ELSE None
  BY DEF FromProvider, EXTRACTED_FIELDS, NumericColumns, DateColumns
<1>3. ASSUME NEW c \in TextColumns
      PROVE  x[c] = a[c]
  BY DEF FromProvider, EXTRACTED_FIELDS, NumericColumns, DateColumns,
         TextColumns
<1>4. \A c \in EXTRACTED_FIELDS : x[c] \in Column(c)
  BY <1>1, <1>2, <1>3, ColumnsAreSorted, AnswersAreWellFormed
     DEF EXTRACTED_FIELDS
<1>5. x = [c \in EXTRACTED_FIELDS |-> x[c]]
  BY DEF FromProvider
<1> QED
  BY <1>4, <1>5, RowsByColumn

(* A correction that is accepted fits its column. *)
LEMMA ParsedFitsColumn ==
  ASSUME NEW request \in Requests, NEW i \in DOMAIN request,
         ~Refused(request[i][1], request[i][2])
  PROVE  /\ request[i][1] \in EXTRACTED_FIELDS
         /\ Parsed(request[i][1], request[i][2]) \in Column(request[i][1])
<1> DEFINE c == request[i][1]
           raw == request[i][2]
<1>1. c \in EXTRACTED_FIELDS
  BY DEF Refused
<1>2. CASE c \in TextColumns
  BY <1>1, <1>2, RequestsAreWellFormed, ColumnsAreSorted DEF Parsed
<1>3. CASE c \in NumericColumns
  BY <1>3, ColumnsAreSorted DEF Parsed, Refused
<1>4. CASE c \in DateColumns
  BY <1>4, ColumnsAreSorted DEF Parsed, Refused
<1> QED
  BY <1>1, <1>2, <1>3, <1>4 DEF EXTRACTED_FIELDS

(* What a column holds after some of the corrections is what was loaded,   *)
(* or what one of them put there. *)
LEMMA HeldComesFrom ==
  ASSUME NEW loaded, NEW request, NEW c, NEW n
  PROVE  \/ Held(loaded, request, c, n) = loaded[c]
         \/ \E i \in 1 .. n :
              /\ request[i][1] = c
              /\ Held(loaded, request, c, n) = Parsed(c, request[i][2])
<1> DEFINE i == CHOOSE i \in Latest(request, c, n) : TRUE
<1>1. ASSUME Latest(request, c, n) # {}
      PROVE  i \in Latest(request, c, n)
  BY <1>1
<1> QED
  BY <1>1 DEF Held, Latest

(* A request is a list of corrections.                                     *)
LEMMA RequestsAreSequences ==
  ASSUME NEW request \in Requests
  PROVE  /\ Len(request) \in Nat
         /\ DOMAIN request = 1 .. Len(request)
BY RequestsAreWellFormed

(* An accepted request leaves a well-typed row, also over a row that has   *)
(* changed since it was loaded.                                            *)
LEMMA UpdatedIsRow ==
  ASSUME row \in Rows, NEW loaded \in Rows, NEW request \in Requests,
         Acceptable(request)
  PROVE  Updated(loaded, request) \in Rows
<1> DEFINE held(c) == Held(loaded, request, c, Len(request))
           update == Updated(loaded, request)
<1>1. ASSUME NEW c \in EXTRACTED_FIELDS
      PROVE  held(c) \in Column(c)
  BY HeldComesFrom, ParsedFitsColumn, RequestsAreSequences, RowsAreRows
     DEF Acceptable
<1>2. ASSUME NEW c \in EXTRACTED_FIELDS
      PROVE  update[c] = IF c \in Written(loaded, request) THEN held(c)
                                                           ELSE row[c]
  BY DEF Updated
<1>3. \A c \in EXTRACTED_FIELDS : update[c] \in Column(c)
  BY <1>1, <1>2, RowsAreRows
<1>4. update = [c \in EXTRACTED_FIELDS |-> update[c]]
  BY DEF Updated
<1> QED
  BY <1>3, <1>4, RowsByColumn

(* What a column holds while a request is staged was accounted for when it *)
(* was loaded, or is by an event that the request adds.                    *)
LEMMA HeldIsAccounted ==
  ASSUME NEW loaded, NEW request \in Requests, NEW c \in EXTRACTED_FIELDS,
         NEW n \in 0 .. Len(request),
         Accounted(c, loaded[c])
  PROVE  LET value == Held(loaded, request, c, n)
         IN \/ Accounted(c, value)
            \/ \E e \in Events(loaded, request) :
                 e.column = c /\ value = Parsed(c, e.corrected)
<1> DEFINE value == Held(loaded, request, c, n)
<1>1. CASE value = loaded[c]
  BY <1>1
<1>2. ASSUME NEW i \in 1 .. n, request[i][1] = c,
             value = Parsed(c, request[i][2])
      PROVE  \E e \in Events(loaded, request) :
               e.column = c /\ value = Parsed(c, e.corrected)
  <2>1. i \in DOMAIN request
    BY RequestsAreSequences
  <2>2. Event(loaded, request, i) \in Events(loaded, request)
    BY <2>1 DEF Events
  <2>3. /\ Event(loaded, request, i).column = c
        /\ Event(loaded, request, i).corrected = request[i][2]
    BY <1>2 DEF Event
  <2> QED
    BY <1>2, <2>2, <2>3
<1> QED
  BY <1>1, <1>2, HeldComesFrom

(* A column a reviewer writes has its event; the others had theirs before. *)
LEMMA CorrectedIsAccounted ==
  ASSUME row # None, ValuesAccountedFor,
         NEW loaded, NEW request \in Requests, Acceptable(request),
         \A c \in EXTRACTED_FIELDS : Accounted(c, loaded[c]),
         row' = Updated(loaded, request),
         events' = events \cup Events(loaded, request),
         UNCHANGED <<annotation, posted>>
  PROVE  ValuesAccountedFor'
<1>1. ASSUME NEW c, NEW v, Accounted(c, v)
      PROVE  Accounted(c, v)'
  BY <1>1 DEF Accounted
<1>2. ASSUME NEW c \in EXTRACTED_FIELDS, NEW n \in 0 .. Len(request)
      PROVE  Accounted(c, Held(loaded, request, c, n))'
  BY HeldIsAccounted DEF Accounted
<1>3. ASSUME NEW c \in EXTRACTED_FIELDS
      PROVE  Accounted(c, row[c])'
  <2>1. row'[c] = IF c \in Written(loaded, request)
                  THEN Held(loaded, request, c, Len(request))
                  ELSE row[c]
    BY DEF Updated
  <2>2. Accounted(c, row[c])
    BY DEF ValuesAccountedFor
  <2>3. Len(request) \in 0 .. Len(request)
    BY RequestsAreSequences
  <2>4. Accounted(c, Held(loaded, request, c, Len(request)))'
    BY <1>2, <2>3
  <2> QED
    BY <1>1, <2>1, <2>2, <2>4 DEF Accounted
<1>4. ASSUME NEW e \in Events(loaded, request)
      PROVE  Accounted(e.column, e.original)'
  <2>1. PICK n \in DOMAIN request : e = Event(loaded, request, n)
    BY DEF Events
  <2>2. request[n][1] \in EXTRACTED_FIELDS
    BY ParsedFitsColumn DEF Acceptable
  <2>3. n - 1 \in 0 .. Len(request)
    BY RequestsAreSequences
  <2> QED
    BY <1>2, <2>1, <2>2, <2>3 DEF Event
<1> QED
  BY <1>1, <1>3, <1>4 DEF ValuesAccountedFor

(* While the document is not under review yet, no reviewer is at work.     *)
LEMMA NobodyLoads ==
  ASSUME Loaded, phase \in Unreviewed \ {"NEEDS_REVIEW"}, UNCHANGED desk,
         desk \in [Reviewers -> [at : {"away", "opened", "loaded"},
                                 row : Rows \cup {None}]]
  PROVE  Loaded'
<1>1. \A r \in Reviewers : desk[r].at = "away" /\ desk[r].row = None
  BY DEF Loaded
<1> QED
  BY <1>1 DEF Loaded

(* A step of somebody else leaves the reviewers what they have loaded.     *)
LEMMA LoadedStays ==
  ASSUME Loaded, UNCHANGED <<extraction, desk>>,
         \/ phase' = phase
         \/ phase' \notin Unreviewed \ {"NEEDS_REVIEW"}
  PROVE  Loaded'
<1>1. \A c, v : Accounted(c, v)' <=> Accounted(c, v)
  BY DEF Accounted, extraction
<1> QED
  BY <1>1 DEF Loaded, extraction, Unreviewed

(* So does a reviewer who is done, also one who has added events.          *)
LEMMA OthersStay ==
  ASSUME Loaded, NEW r \in Reviewers,
         desk \in [Reviewers -> [at : {"away", "opened", "loaded"},
                                 row : Rows \cup {None}]],
         desk' = [desk EXCEPT ![r] = Away],
         row # None => row' # None, annotation' = annotation,
         events \subseteq events',
         \/ phase' = phase
         \/ phase' \notin Unreviewed \ {"NEEDS_REVIEW"}
  PROVE  Loaded'
<1>1. ASSUME NEW c, NEW v, Accounted(c, v)
      PROVE  Accounted(c, v)'
  BY <1>1 DEF Accounted
<1>2. desk'[r] = [at |-> "away", row |-> None]
  BY DEF Away
<1>3. \A q \in Reviewers \ {r} : desk'[q] = desk[q]
  OBVIOUS
<1> QED
  BY <1>1, <1>2, <1>3 DEF Loaded, Unreviewed

(* Steps that touch neither columns, events nor ledger.                    *)
LEMMA TrailStays ==
  ASSUME ValuesAccountedFor, UNCHANGED <<extraction, posted>>
  PROVE  ValuesAccountedFor'
<1>1. \A c, v : Accounted(c, v)' <=> Accounted(c, v)
  BY DEF Accounted, extraction
<1> QED
  BY <1>1 DEF ValuesAccountedFor, extraction

(* What is posted is the row, and so accounted for.                        *)
LEMMA PostedIsAccounted ==
  ASSUME ValuesAccountedFor, row # None, posted' = row, UNCHANGED extraction
  PROVE  ValuesAccountedFor'
<1>1. \A c, v : Accounted(c, v)' <=> Accounted(c, v)
  BY DEF Accounted, extraction
<1> QED
  BY <1>1 DEF ValuesAccountedFor, extraction

-----------------------------------------------------------------------------
(* The handler: a fresh loop, one more attempt, the end of it.             *)
LEMMA Entered ==
  ASSUME NEW step, Enter(step)
  PROVE  /\ handler'.at = step
         /\ handler'.tries = 0
         /\ ~(handler'.tries > 0)
BY DEF Enter, Fresh

LEMMA EnteredTypeOK ==
  ASSUME NEW step \in Steps, Enter(step),
         session' \in {"usable", "rolled back"}
  PROVE  HandlerTypeOK'
BY DEF Enter, Fresh, HandlerTypeOK

LEMMA Failing ==
  ASSUME HandlerTypeOK, NEW error, AttemptFails(error)
  PROVE  /\ handler'.at = handler.at
         /\ handler'.tries = handler.tries + 1
         /\ handler'.last = error
BY DEF AttemptFails

LEMMA FailedAttempt ==
  ASSUME HandlerTypeOK, NEW call \in Calls, Calling(call), NEW error,
         AttemptFails(error)
  PROVE  /\ handler.at = call
         /\ handler'.at = call
         /\ handler'.tries = handler.tries + 1
         /\ handler'.tries <= Attempts[call]
         /\ handler'.last = error
<1>1. Attempts[call] \in Nat
  BY AttemptsArePositive
<1>2. handler.at = call /\ handler.tries < Attempts[call]
  BY DEF Calling
<1>3. handler.tries \in Nat
  BY DEF HandlerTypeOK
<1>4. /\ handler'.at = handler.at
      /\ handler'.tries = handler.tries + 1
      /\ handler'.last = error
  BY Failing
<1>5. handler.tries + 1 <= Attempts[call]
  BY <1>1, <1>2, <1>3
<1> QED
  BY <1>2, <1>4, <1>5

LEMMA NextIsNumber == \A n \in Nat : n + 1 \in Nat
OBVIOUS

LEMMA FailedAttemptTypeOK ==
  ASSUME HandlerTypeOK, NEW error \in Errors, AttemptFails(error),
         session' \in {"usable", "rolled back"}
  PROVE  HandlerTypeOK'
<1>1. DOMAIN handler' = DOMAIN handler
  BY Zenon DEF AttemptFails
<1>2. DOMAIN handler' = {"at", "tries", "slept", "last"}
  BY <1>1, Zenon DEF HandlerTypeOK
<1>3. handler.tries \in Nat
  BY DEF HandlerTypeOK
<1>4. /\ handler'.at = handler.at
      /\ handler'.tries = handler.tries + 1
      /\ handler'.last = error
  BY Failing
<1>5. handler.tries + 1 \in Nat
  BY <1>3, NextIsNumber
<1> QED
  BY <1>2, <1>3, <1>4, <1>5 DEF HandlerTypeOK

LEMMA Aborted ==
  ASSUME HandlerTypeOK, Abort
  PROVE  handler'.at = "raised" /\ session' = "usable"
BY DEF Abort

LEMMA AbortedTypeOK ==
  ASSUME HandlerTypeOK, Abort
  PROVE  HandlerTypeOK'
BY DEF HandlerTypeOK, Abort, Steps

LEMMA LastAttempt ==
  ASSUME NEW call \in Calls, Exhausted(call)
  PROVE  /\ handler.at = call
         /\ handler.tries > 0
         /\ handler.tries = Attempts[call]
BY AttemptsArePositive DEF Exhausted

-----------------------------------------------------------------------------
(* Attempts, retries and the writes they allow.                            *)
LEMMA AttemptsAreNumbers ==
  /\ Attempts["extract"] \in Nat \ {0}
  /\ Attempts["post"] \in Nat \ {0}
  /\ Attempts["notify"] \in Nat \ {0}
BY AttemptsArePositive DEF Calls

LEMMA BudgetGrows ==
  ASSUME NEW n \in Nat
  PROVE  /\ Budget(n) \in Nat
         /\ Budget(n + 1) = Budget(n) + Attempts["post"]
BY AttemptsAreNumbers DEF Budget

LEMMA CountersAreNumbers ==
  ASSUME OneInv
  PROVE  /\ retry_count \in Nat
         /\ retry_count + 1 \in Nat
         /\ handler.tries \in Nat
         /\ payables \in Nat
<1>1. retry_count \in Nat
  BY MaxRetriesIsANumber DEF OneInv, OneTypeOK, DocumentTypeOK
<1>2. handler.tries \in Nat /\ payables \in Nat
  BY DEF OneInv, OneTypeOK, DocumentTypeOK, HandlerTypeOK
<1> QED
  BY <1>1, <1>2

(* The budget counts the handler that is at work. *)
LEMMA WithinBudget ==
  ASSUME OneInv, accounting = "external"
  PROVE  payables <= Budget(retry_count + 1)
<1>1. /\ retry_count \in Nat
      /\ handler.tries \in Nat
      /\ payables \in Nat
  BY CountersAreNumbers
<1>2. /\ Budget(retry_count) \in Nat
      /\ Attempts["post"] \in Nat
      /\ Budget(retry_count + 1) = Budget(retry_count) + Attempts["post"]
  BY <1>1, BudgetGrows, AttemptsAreNumbers
<1>3. Attempted
  BY DEF OneInv
<1>4. CASE handler.at = "post"
  <2>1. handler.tries <= Attempts["post"]
    BY <1>4 DEF OneInv, Counted, Calls
  <2>2. payables <= Budget(retry_count) + handler.tries
    BY <1>3, <1>4 DEF Attempted
  <2> QED
    BY <1>1, <1>2, <2>1, <2>2
<1>5. CASE handler.at # "post"
  BY <1>3, <1>5 DEF Attempted
<1> QED
  BY <1>4, <1>5

LEMMA NoneIsNoAnswer == None \notin Annotations
BY NoneIsNoRow, AnswersAreWellFormed

-----------------------------------------------------------------------------
(* The actions.  Each keeps every conjunct of the invariant.               *)
LEMMA AbortKeeps ==
  ASSUME OneInv, handler.at \notin {"idle", "raised"}, Abort
  PROVE  OneInv'
<1> USE DEF OneInv
<1>1. handler'.at = "raised" /\ session' = "usable"
  BY Aborted DEF OneTypeOK
<1>2. DocumentTypeOK'
  BY DEF Abort, extraction, OneTypeOK, DocumentTypeOK, Entries
<1>3. HandlerTypeOK'
  BY AbortedTypeOK DEF OneTypeOK
<1>4. Stages'
  BY <1>1 DEF Abort, extraction, Stages
<1>5. Columned'
  BY DEF Abort, extraction, Columned
<1>6. Counted'
  BY <1>1 DEF Counted, Calls
<1>7. Blamed'
  BY <1>1 DEF Abort, Blamed, Calls
<1>8. Entries'
  <2>1. /\ Entries
        /\ handler.at = "confirm" => action = "ATTEMPTED"
        /\ payables \in Nat
    BY DEF Stages, OneTypeOK, DocumentTypeOK
  <2>2. CASE handler.at = "confirm" /\ accounting = "mock"
    <3>1. payables = 1
      BY <2>1, <2>2 DEF Entries
    <3>2. payables' = 0 /\ posted' = None
      BY <2>2, <3>1 DEF Abort
    <3>3. action = "ATTEMPTED" /\ UNCHANGED <<action, accounting>>
      BY <2>1, <2>2 DEF Abort
    <3>4. ~(payables' > 0) /\ payables' <= 1
      BY <3>2
    <3> QED
      BY <1>1, <2>1, <2>2, <3>2, <3>3, <3>4 DEF Entries
  <2>3. CASE ~(handler.at = "confirm" /\ accounting = "mock")
    BY <1>1, <2>1, <2>3 DEF Abort, Entries
  <2> QED
    BY <2>2, <2>3
<1>9. Attempted'
  BY <1>1, WithinBudget DEF Abort, Attempted
<1>10. ReasonIsTheCause'
  BY DEF Abort, extraction, ReasonIsTheCause
<1>11. ValuesAccountedFor'
  BY DEF Abort, extraction, ValuesAccountedFor, Accounted
<1>12. Loaded'
  BY LoadedStays DEF Abort
<1> QED
  BY <1>2, <1>3, <1>4, <1>5, <1>6, <1>7, <1>8, <1>9, <1>10, <1>11, <1>12
     DEF OneTypeOK

LEMMA ProviderAnswersKeeps ==
  ASSUME OneInv, ProviderAnswers
  PROVE  OneInv'
<1> USE DEF OneInv
<1>1. /\ handler'.at = "store"
      /\ handler'.tries = 0
      /\ ~(handler'.tries > 0)
  BY Entered DEF ProviderAnswers
<1>2. DocumentTypeOK'
  BY DEF ProviderAnswers, ledger, OneTypeOK, DocumentTypeOK
<1>3. HandlerTypeOK'
  BY EnteredTypeOK DEF ProviderAnswers, Steps, Calls, OneTypeOK, HandlerTypeOK
<1>4. Stages'
  BY <1>1, NoneIsNoAnswer DEF ProviderAnswers, Calling, Stages
<1>5. Columned'
  BY DEF ProviderAnswers, Calling, Columned, Stages
<1>6. Counted'
  BY <1>1, AttemptsAreNumbers DEF Counted, Calls
<1>7. Blamed'
  BY <1>1 DEF ProviderAnswers, Calling, ledger, Blamed
<1>8. Entries'
  BY <1>1 DEF ProviderAnswers, Calling, ledger, Entries
<1>9. Attempted'
  BY <1>1, WithinBudget DEF ProviderAnswers, ledger, Attempted
<1>10. ReasonIsTheCause'
  BY DEF ProviderAnswers, Calling, ledger, ReasonIsTheCause
<1>11. ValuesAccountedFor'
  BY DEF ProviderAnswers, Calling, ledger, ValuesAccountedFor, Stages,
         Columned, Entries
<1>12. Loaded'
  BY NobodyLoads
     DEF ProviderAnswers, Calling, Stages, Unreviewed, OneTypeOK,
         DocumentTypeOK
<1> QED
  BY <1>2, <1>3, <1>4, <1>5, <1>6, <1>7, <1>8, <1>9, <1>10, <1>11, <1>12
     DEF OneTypeOK

LEMMA ExtractionFailsKeeps ==
  ASSUME OneInv, ExtractionFails
  PROVE  OneInv'
<1> USE DEF OneInv
<1>1. /\ handler.at = "extract"
      /\ handler'.at = "extract"
      /\ handler'.tries = handler.tries + 1
      /\ handler'.tries <= Attempts["extract"]
      /\ handler'.last = "provider"
  BY FailedAttempt DEF ExtractionFails, OneTypeOK, Calls
<1>2. DocumentTypeOK'
  BY DEF ExtractionFails, extraction, ledger, OneTypeOK, DocumentTypeOK
<1>3. HandlerTypeOK'
  BY FailedAttemptTypeOK DEF ExtractionFails, Errors, OneTypeOK, HandlerTypeOK
<1>4. Stages'
  BY <1>1 DEF ExtractionFails, Stages
<1>5. Columned'
  BY DEF ExtractionFails, extraction, Columned
<1>6. Counted'
  BY <1>1 DEF Counted
<1>7. Blamed'
  BY <1>1 DEF ExtractionFails, Calling, ledger, Blamed, Calls
<1>8. Entries'
  BY <1>1, AttemptsAreNumbers DEF ExtractionFails, ledger, Entries
<1>9. Attempted'
  BY <1>1, WithinBudget DEF ExtractionFails, ledger, Attempted
<1>10. ReasonIsTheCause'
  BY DEF ExtractionFails, Calling, extraction, ledger, ReasonIsTheCause
<1>11. ValuesAccountedFor'
  BY TrailStays DEF ExtractionFails, ledger
<1>12. Loaded'
  BY LoadedStays DEF ExtractionFails
<1> QED
  BY <1>2, <1>3, <1>4, <1>5, <1>6, <1>7, <1>8, <1>9, <1>10, <1>11, <1>12
     DEF OneTypeOK

LEMMA StoreKeeps ==
  ASSUME OneInv, Store
  PROVE  OneInv'
<1> USE DEF OneInv
<1>1. /\ handler'.at = "begin validation"
      /\ handler'.tries = 0
      /\ ~(handler'.tries > 0)
  BY Entered DEF Store
<1>2. /\ row' = FromProvider(annotation)
      /\ row' \in Rows
      /\ row' # None
      /\ row = None
      /\ events = {}
      /\ action = "NONE"
      /\ annotation # None
  BY ProvidedIsRow, RowsAreRows
     DEF Store, Stages, Columned, Unreviewed, OneTypeOK, DocumentTypeOK
<1>3. DocumentTypeOK'
  BY <1>2 DEF Store, ledger, OneTypeOK, DocumentTypeOK, Unreviewed
<1>4. HandlerTypeOK'
  BY EnteredTypeOK DEF Store, Steps, Calls, OneTypeOK, HandlerTypeOK
<1>5. Stages'
  BY <1>1 DEF Store, ledger, Stages, Unreviewed
<1>6. Columned'
  BY <1>2 DEF Store, ledger, Columned, Stages, Unreviewed
<1>7. Counted'
  BY <1>1, AttemptsAreNumbers DEF Counted, Calls
<1>8. Blamed'
  BY <1>1 DEF Store, ledger, Blamed
<1>9. Entries'
  BY <1>1 DEF Store, ledger, Entries, Stages, OneTypeOK, DocumentTypeOK
<1>10. Attempted'
  BY <1>1, WithinBudget DEF Store, ledger, Attempted
<1>11. ReasonIsTheCause'
  BY DEF Store, ledger, ReasonIsTheCause
<1>12. ValuesAccountedFor'
  BY <1>2 DEF Store, ledger, ValuesAccountedFor, Accounted
<1>13. Loaded'
  BY NobodyLoads DEF Store, Stages, Unreviewed, OneTypeOK, DocumentTypeOK
<1> QED
  BY <1>3, <1>4, <1>5, <1>6, <1>7, <1>8, <1>9, <1>10, <1>11, <1>12, <1>13
     DEF OneTypeOK

LEMMA BeginValidationKeeps ==
  ASSUME OneInv, BeginValidation
  PROVE  OneInv'
<1> USE DEF OneInv
<1>1. /\ handler'.at = "validate"
      /\ handler'.tries = 0
      /\ ~(handler'.tries > 0)
  BY Entered DEF BeginValidation
<1>2. DocumentTypeOK'
  BY DEF BeginValidation, extraction, ledger, OneTypeOK, DocumentTypeOK,
         Unreviewed
<1>3. HandlerTypeOK'
  BY EnteredTypeOK DEF BeginValidation, Steps, Calls, OneTypeOK, HandlerTypeOK
<1>4. Stages'
  BY <1>1 DEF BeginValidation, extraction, ledger, Stages, Unreviewed
<1>5. Columned'
  BY DEF BeginValidation, extraction, ledger, Columned, Stages, Unreviewed
<1>6. Counted'
  BY <1>1, AttemptsAreNumbers DEF Counted, Calls
<1>7. Blamed'
  BY <1>1 DEF BeginValidation, ledger, Blamed
<1>8. Entries'
  BY <1>1
     DEF BeginValidation, extraction, ledger, Entries, Stages, OneTypeOK,
         DocumentTypeOK
<1>9. Attempted'
  BY <1>1, WithinBudget DEF BeginValidation, ledger, Attempted
<1>10. ReasonIsTheCause'
  BY DEF BeginValidation, extraction, ledger, ReasonIsTheCause
<1>11. ValuesAccountedFor'
  BY TrailStays DEF BeginValidation, ledger, extraction
<1>12. Loaded'
  BY NobodyLoads
     DEF BeginValidation, Stages, Unreviewed, OneTypeOK, DocumentTypeOK
<1> QED
  BY <1>2, <1>3, <1>4, <1>5, <1>6, <1>7, <1>8, <1>9, <1>10, <1>11, <1>12
     DEF OneTypeOK

LEMMA ValidateKeeps ==
  ASSUME OneInv, Validate
  PROVE  OneInv'
<1> USE DEF OneInv
<1>1. /\ handler'.at = "idle"
      /\ handler'.tries = 0
      /\ ~(handler'.tries > 0)
  BY Entered DEF Validate
<1>2. DocumentTypeOK'
  BY DEF Validate, extraction, ledger, OneTypeOK, DocumentTypeOK, Unreviewed
<1>3. HandlerTypeOK'
  BY EnteredTypeOK DEF Validate, Steps, Calls, OneTypeOK, HandlerTypeOK
<1>4. Stages'
  BY <1>1 DEF Validate, Stages
<1>5. Columned'
  BY DEF Validate, extraction, Columned, Stages, Unreviewed
<1>6. Counted'
  BY <1>1, AttemptsAreNumbers DEF Counted, Calls
<1>7. Blamed'
  BY <1>1 DEF Validate, ledger, Blamed
<1>8. Entries'
  BY <1>1 DEF Validate, ledger, Entries
<1>9. Attempted'
  BY <1>1, WithinBudget DEF Validate, ledger, Attempted
<1>10. ReasonIsTheCause'
  BY DEF Validate, extraction, ledger, ReasonIsTheCause
<1>11. ValuesAccountedFor'
  BY TrailStays DEF Validate, ledger
<1>12. Loaded'
  BY NobodyLoads DEF Validate, Stages, Unreviewed, OneTypeOK, DocumentTypeOK
<1> QED
  BY <1>2, <1>3, <1>4, <1>5, <1>6, <1>7, <1>8, <1>9, <1>10, <1>11, <1>12
     DEF OneTypeOK

LEMMA PostSucceedsKeeps ==
  ASSUME OneInv, PostSucceeds
  PROVE  OneInv'
<1> USE DEF OneInv
<1>1. /\ handler'.at = "confirm"
      /\ handler'.tries = 0
      /\ ~(handler'.tries > 0)
  BY Entered DEF PostSucceeds
<1>2. DocumentTypeOK'
  BY DEF PostSucceeds, extraction, OneTypeOK, DocumentTypeOK
<1>3. HandlerTypeOK'
  BY EnteredTypeOK DEF PostSucceeds, Steps, Calls, OneTypeOK, HandlerTypeOK
<1>4. Stages'
  BY <1>1 DEF PostSucceeds, Calling, Stages
<1>5. Columned'
  BY DEF PostSucceeds, extraction, Columned
<1>6. Counted'
  BY <1>1, AttemptsAreNumbers DEF Counted, Calls
<1>7. Blamed'
  BY <1>1 DEF PostSucceeds, Blamed
<1>8. Entries'
  BY <1>1
     DEF PostSucceeds, Calling, Entries, Stages, OneTypeOK, DocumentTypeOK,
         Columned
<1>9. Attempted'
  <2>1. /\ handler.tries \in Nat
        /\ payables \in Nat
        /\ Budget(retry_count) \in Nat
        /\ Budget(retry_count + 1) = Budget(retry_count) + Attempts["post"]
        /\ Attempts["post"] \in Nat
    BY CountersAreNumbers, BudgetGrows, AttemptsAreNumbers
  <2>2. handler.at = "post" /\ handler.tries < Attempts["post"]
    BY DEF PostSucceeds, Calling
  <2>3. accounting = "external" =>
          payables <= Budget(retry_count) + handler.tries
    BY <2>2 DEF Attempted
  <2>4. payables' = payables + 1
    BY DEF PostSucceeds
  <2>5. accounting = "external" => payables' <= Budget(retry_count + 1)
    BY <2>1, <2>2, <2>3, <2>4
  <2> QED
    BY <1>1, <2>5 DEF PostSucceeds, Attempted
<1>10. ReasonIsTheCause'
  BY DEF PostSucceeds, Calling, extraction, ReasonIsTheCause
<1>11. ValuesAccountedFor'
  BY PostedIsAccounted, TrailStays DEF PostSucceeds, Calling, Stages, Columned
<1>12. Loaded'
  BY LoadedStays DEF PostSucceeds
<1> QED
  BY <1>2, <1>3, <1>4, <1>5, <1>6, <1>7, <1>8, <1>9, <1>10, <1>11, <1>12
     DEF OneTypeOK

LEMMA PostFailsKeeps ==
  ASSUME OneInv, PostFails
  PROVE  OneInv'
<1> USE DEF OneInv
<1>1. /\ handler.at = "post"
      /\ handler'.at = "post"
      /\ handler'.tries = handler.tries + 1
      /\ handler'.tries <= Attempts["post"]
      /\ handler'.last = "provider"
  BY FailedAttempt DEF PostFails, OneTypeOK, Calls
<1>2. DocumentTypeOK'
  BY DEF PostFails, extraction, OneTypeOK, DocumentTypeOK
<1>3. HandlerTypeOK'
  BY FailedAttemptTypeOK DEF PostFails, Errors, OneTypeOK, HandlerTypeOK
<1>4. Stages'
  BY <1>1 DEF PostFails, Stages
<1>5. Columned'
  BY DEF PostFails, extraction, Columned
<1>6. Counted'
  BY <1>1 DEF Counted
<1>7. Blamed'
  BY <1>1 DEF PostFails, Calling, Blamed, Calls
<1>8. Entries'
  BY <1>1, AttemptsAreNumbers
     DEF PostFails, Entries, OneTypeOK, DocumentTypeOK, Columned
<1>9. Attempted'
  <2>1. /\ handler.tries \in Nat
        /\ payables \in Nat
        /\ Budget(retry_count) \in Nat
    BY CountersAreNumbers, BudgetGrows
  <2>2. payables <= Budget(retry_count) + handler.tries
    BY <1>1 DEF PostFails, Attempted
  <2>3. payables' \in {payables, payables + 1}
    BY DEF PostFails
  <2>4. payables' <= Budget(retry_count) + handler'.tries
    BY <1>1, <2>1, <2>2, <2>3
  <2> QED
    BY <1>1, <2>4 DEF PostFails, Attempted
<1>10. ReasonIsTheCause'
  BY DEF PostFails, Calling, extraction, ReasonIsTheCause
<1>11. ValuesAccountedFor'
  BY PostedIsAccounted, TrailStays DEF PostFails, Calling, Stages, Columned
<1>12. Loaded'
  BY LoadedStays DEF PostFails
<1> QED
  BY <1>2, <1>3, <1>4, <1>5, <1>6, <1>7, <1>8, <1>9, <1>10, <1>11, <1>12
     DEF OneTypeOK

LEMMA ConfirmKeeps ==
  ASSUME OneInv, Confirm
  PROVE  OneInv'
<1> USE DEF OneInv
<1>1. /\ handler'.at = "notify"
      /\ handler'.tries = 0
      /\ ~(handler'.tries > 0)
  BY Entered DEF Confirm
<1>2. DocumentTypeOK'
  BY DEF Confirm, extraction, ledger, OneTypeOK, DocumentTypeOK
<1>3. HandlerTypeOK'
  BY EnteredTypeOK DEF Confirm, Steps, Calls, OneTypeOK, HandlerTypeOK
<1>4. Stages'
  BY <1>1 DEF Confirm, Stages
<1>5. Columned'
  BY DEF Confirm, extraction, Columned, Stages, Unreviewed
<1>6. Counted'
  BY <1>1, AttemptsAreNumbers DEF Counted
<1>7. Blamed'
  BY <1>1 DEF Confirm, ledger, Blamed
<1>8. Entries'
  BY <1>1 DEF Confirm, ledger, Entries
<1>9. Attempted'
  BY <1>1, WithinBudget DEF Confirm, ledger, Attempted
<1>10. ReasonIsTheCause'
  BY DEF Confirm, extraction, ledger, ReasonIsTheCause
<1>11. ValuesAccountedFor'
  BY TrailStays DEF Confirm, ledger
<1>12. Loaded'
  BY LoadedStays DEF Confirm, Unreviewed
<1> QED
  BY <1>2, <1>3, <1>4, <1>5, <1>6, <1>7, <1>8, <1>9, <1>10, <1>11, <1>12
     DEF OneTypeOK

LEMMA FlushFailsKeeps ==
  ASSUME OneInv, FlushFails
  PROVE  OneInv'
<1> USE DEF OneInv
<1>1. /\ handler.at = "post"
      /\ handler'.at = "post"
      /\ handler'.tries = handler.tries + 1
      /\ handler'.tries <= Attempts["post"]
      /\ handler'.last = "flush"
  BY FailedAttempt DEF FlushFails, OneTypeOK, Calls
<1>2. DocumentTypeOK'
  BY DEF FlushFails, extraction, ledger, document, OneTypeOK, DocumentTypeOK
<1>3. HandlerTypeOK'
  BY FailedAttemptTypeOK DEF FlushFails, Errors, OneTypeOK, HandlerTypeOK
<1>4. Stages'
  BY <1>1 DEF FlushFails, Calling, extraction, ledger, document, Stages
<1>5. Columned'
  BY DEF FlushFails, Calling, extraction, ledger, document, Columned, Stages
<1>6. Counted'
  BY <1>1 DEF FlushFails, extraction, ledger, document, Counted, Calls
<1>7. Blamed'
  BY <1>1 DEF FlushFails, Calling, ledger, document, Blamed, Calls
<1>8. Entries'
  BY <1>1, AttemptsAreNumbers
     DEF FlushFails, Calling, extraction, ledger, document, Entries, Stages,
         OneTypeOK, DocumentTypeOK
<1>9. Attempted'
  BY DEF FlushFails, document, ledger, Attempted, Blamed
<1>10. ReasonIsTheCause'
  BY DEF FlushFails, Calling, extraction, ledger, document, ReasonIsTheCause
<1>11. ValuesAccountedFor'
  BY TrailStays DEF FlushFails, ledger, document
<1>12. Loaded'
  BY LoadedStays DEF FlushFails, document
<1> QED
  BY <1>2, <1>3, <1>4, <1>5, <1>6, <1>7, <1>8, <1>9, <1>10, <1>11, <1>12
     DEF OneTypeOK

LEMMA SessionRefusesKeeps ==
  ASSUME OneInv, SessionRefuses
  PROVE  OneInv'
<1> USE DEF OneInv
<1>1. /\ handler.at = "post"
      /\ handler'.at = "post"
      /\ handler'.tries = handler.tries + 1
      /\ handler'.tries <= Attempts["post"]
      /\ handler'.last = "rolled back"
  BY FailedAttempt DEF SessionRefuses, OneTypeOK, Calls
<1>2. DocumentTypeOK'
  BY DEF SessionRefuses, extraction, ledger, document, OneTypeOK,
         DocumentTypeOK
<1>3. HandlerTypeOK'
  BY FailedAttemptTypeOK DEF SessionRefuses, Errors, OneTypeOK, HandlerTypeOK
<1>4. Stages'
  BY <1>1 DEF SessionRefuses, Calling, extraction, ledger, document, Stages
<1>5. Columned'
  BY DEF SessionRefuses, Calling, extraction, ledger, document, Columned,
         Stages
<1>6. Counted'
  BY <1>1 DEF SessionRefuses, extraction, ledger, document, Counted, Calls
<1>7. Blamed'
  BY <1>1 DEF SessionRefuses, Calling, ledger, document, Blamed, Calls
<1>8. Entries'
  BY <1>1, AttemptsAreNumbers
     DEF SessionRefuses, Calling, extraction, ledger, document, Entries,
         Stages, OneTypeOK, DocumentTypeOK
<1>9. Attempted'
  BY DEF SessionRefuses, document, ledger, Attempted, Blamed
<1>10. ReasonIsTheCause'
  BY DEF SessionRefuses, Calling, extraction, ledger, document,
         ReasonIsTheCause
<1>11. ValuesAccountedFor'
  BY TrailStays DEF SessionRefuses, ledger, document
<1>12. Loaded'
  BY LoadedStays DEF SessionRefuses, document
<1> QED
  BY <1>2, <1>3, <1>4, <1>5, <1>6, <1>7, <1>8, <1>9, <1>10, <1>11, <1>12
     DEF OneTypeOK

LEMMA DeadLetterKeeps ==
  ASSUME OneInv, DeadLetter
  PROVE  OneInv'
<1> USE DEF OneInv
<1>1. /\ handler'.at = "notify"
      /\ handler'.tries = 0
      /\ ~(handler'.tries > 0)
  BY Entered DEF DeadLetter
<1>2. DocumentTypeOK'
  BY DEF DeadLetter, extraction, ledger, OneTypeOK, DocumentTypeOK
<1>3. HandlerTypeOK'
  BY EnteredTypeOK DEF DeadLetter, Steps, Calls, OneTypeOK, HandlerTypeOK
<1>4. Stages'
  BY <1>1 DEF DeadLetter, Exhausted, extraction, ledger, Stages, Unreviewed
<1>5. Columned'
  BY DEF DeadLetter, Exhausted, extraction, ledger, Columned, Stages,
         Unreviewed
<1>6. Counted'
  BY <1>1, AttemptsAreNumbers DEF Counted
<1>7. Blamed'
  BY <1>1 DEF DeadLetter, Blamed
<1>8. Entries'
  BY <1>1, AttemptsAreNumbers
     DEF DeadLetter, Exhausted, extraction, ledger, Entries, Stages, OneTypeOK,
         DocumentTypeOK
<1>9. Attempted'
  BY <1>1, WithinBudget DEF DeadLetter, ledger, Attempted
<1>10. ReasonIsTheCause'
  BY LastAttempt DEF DeadLetter, ReasonIsTheCause, Blamed, Calls
<1>11. ValuesAccountedFor'
  BY TrailStays DEF DeadLetter, ledger
<1>12. Loaded'
  BY LoadedStays DEF DeadLetter, Unreviewed
<1> QED
  BY <1>2, <1>3, <1>4, <1>5, <1>6, <1>7, <1>8, <1>9, <1>10, <1>11, <1>12
     DEF OneTypeOK

LEMMA NoticeFailsKeeps ==
  ASSUME OneInv, NoticeFails
  PROVE  OneInv'
<1> USE DEF OneInv
<1>1. /\ handler.at = "notify"
      /\ handler'.at = "notify"
      /\ handler'.tries = handler.tries + 1
      /\ handler'.tries <= Attempts["notify"]
      /\ handler'.last = "provider"
  BY FailedAttempt DEF NoticeFails, OneTypeOK, Calls
<1>2. DocumentTypeOK'
  BY DEF NoticeFails, extraction, ledger, document, OneTypeOK, DocumentTypeOK
<1>3. HandlerTypeOK'
  BY FailedAttemptTypeOK DEF NoticeFails, Errors, OneTypeOK, HandlerTypeOK
<1>4. Stages'
  BY <1>1 DEF NoticeFails, document, Stages
<1>5. Columned'
  BY DEF NoticeFails, extraction, document, Columned
<1>6. Counted'
  BY <1>1 DEF Counted
<1>7. Blamed'
  BY <1>1 DEF NoticeFails, Calling, ledger, document, Blamed, Calls
<1>8. Entries'
  BY <1>1, AttemptsAreNumbers DEF NoticeFails, ledger, document, Entries
<1>9. Attempted'
  BY <1>1, WithinBudget DEF NoticeFails, ledger, document, Attempted
<1>10. ReasonIsTheCause'
  BY DEF NoticeFails, Calling, extraction, ledger, document, ReasonIsTheCause
<1>11. ValuesAccountedFor'
  BY TrailStays DEF NoticeFails, ledger, document
<1>12. Loaded'
  BY LoadedStays DEF NoticeFails, document
<1> QED
  BY <1>2, <1>3, <1>4, <1>5, <1>6, <1>7, <1>8, <1>9, <1>10, <1>11, <1>12
     DEF OneTypeOK

LEMMA NoticeEndsKeeps ==
  ASSUME OneInv, NoticeEnds
  PROVE  OneInv'
<1> USE DEF OneInv
<1>1. /\ handler'.at = "idle"
      /\ handler'.tries = 0
      /\ ~(handler'.tries > 0)
  BY Entered DEF NoticeEnds
<1>2. DocumentTypeOK'
  BY DEF NoticeEnds, extraction, ledger, document, OneTypeOK, DocumentTypeOK
<1>3. HandlerTypeOK'
  BY EnteredTypeOK DEF NoticeEnds, Steps, Calls, OneTypeOK, HandlerTypeOK
<1>4. Stages'
  BY <1>1 DEF NoticeEnds, document, Stages
<1>5. Columned'
  BY DEF NoticeEnds, extraction, document, Columned
<1>6. Counted'
  BY <1>1, AttemptsAreNumbers DEF Counted, Calls
<1>7. Blamed'
  BY <1>1 DEF NoticeEnds, ledger, document, Blamed
<1>8. Entries'
  BY <1>1 DEF NoticeEnds, ledger, document, Entries
<1>9. Attempted'
  BY <1>1, WithinBudget DEF NoticeEnds, ledger, document, Attempted
<1>10. ReasonIsTheCause'
  BY DEF NoticeEnds, extraction, ledger, document, ReasonIsTheCause
<1>11. ValuesAccountedFor'
  BY TrailStays DEF NoticeEnds, ledger, document
<1>12. Loaded'
  BY LoadedStays DEF NoticeEnds, document
<1> QED
  BY <1>2, <1>3, <1>4, <1>5, <1>6, <1>7, <1>8, <1>9, <1>10, <1>11, <1>12
     DEF OneTypeOK

(* The worker.                                                             *)
LEMMA WorkerResumesKeeps ==
  ASSUME OneInv, WorkerResumes
  PROVE  OneInv'
<1> USE DEF OneInv
<1>1. /\ phase = "EXTRACTING" => handler'.at = "extract"
      /\ phase = "VALIDATING" => handler'.at = "validate"
      /\ phase = "ACTIONED" => handler'.at = "post"
      /\ phase \in STUCK_STATES
      /\ handler'.tries = 0
      /\ ~(handler'.tries > 0)
  BY DEF WorkerResumes, CountRetry, Stuck, Enter, Fresh
<1>2. DocumentTypeOK'
  BY MaxRetriesIsANumber
     DEF WorkerResumes, CountRetry, extraction, ledger, OneTypeOK,
         DocumentTypeOK
<1>3. HandlerTypeOK'
  BY EnteredTypeOK
     DEF WorkerResumes, CountRetry, Stuck, STUCK_STATES, Steps, Calls,
         OneTypeOK, HandlerTypeOK
<1>4. Stages'
  BY <1>1
     DEF WorkerResumes, CountRetry, Stuck, STUCK_STATES, extraction, ledger,
         Stages, Unreviewed
<1>5. Columned'
  BY DEF WorkerResumes, extraction, Columned
<1>6. Counted'
  BY <1>1, AttemptsAreNumbers DEF Counted, Calls
<1>7. Blamed'
  BY <1>1
     DEF WorkerResumes, CountRetry, Stuck, STUCK_STATES, ledger, Blamed, Calls
<1>8. Entries'
  BY <1>1 DEF WorkerResumes, CountRetry, Stuck, STUCK_STATES, ledger, Entries
<1>9. Attempted'
  <2>1. UNCHANGED ledger /\ retry_count' = retry_count + 1
    BY DEF WorkerResumes, CountRetry
  <2>2. /\ payables \in Nat
        /\ Budget(retry_count + 1) \in Nat
        /\ Budget((retry_count + 1) + 1) =
             Budget(retry_count + 1) + Attempts["post"]
        /\ Attempts["post"] \in Nat
    BY CountersAreNumbers, BudgetGrows, AttemptsAreNumbers
  <2>3. accounting = "external" => payables <= Budget(retry_count + 1)
    BY WithinBudget
  <2>4. accounting = "external" =>
          /\ payables <= Budget(retry_count + 1) + 0
          /\ payables <= Budget((retry_count + 1) + 1)
    BY <2>2, <2>3
  <2> QED
    BY <1>1, <2>1, <2>4 DEF Attempted, ledger
<1>10. ReasonIsTheCause'
  BY DEF WorkerResumes, CountRetry, Stuck, STUCK_STATES, extraction, ledger,
         ReasonIsTheCause
<1>11. ValuesAccountedFor'
  BY TrailStays DEF WorkerResumes, ledger
<1>12. Loaded'
  BY LoadedStays DEF WorkerResumes
<1> QED
  BY <1>2, <1>3, <1>4, <1>5, <1>6, <1>7, <1>8, <1>9, <1>10, <1>11, <1>12
     DEF OneTypeOK

LEMMA StorageFailsKeeps ==
  ASSUME OneInv, StorageFails
  PROVE  OneInv'
<1> USE DEF OneInv
<1>1. DocumentTypeOK'
  BY MaxRetriesIsANumber
     DEF StorageFails, CountRetry, extraction, ledger, OneTypeOK,
         DocumentTypeOK
<1>2. HandlerTypeOK'
  BY DEF StorageFails, OneTypeOK, HandlerTypeOK
<1>3. Stages'
  BY DEF StorageFails, CountRetry, Stuck, extraction, ledger, Stages
<1>4. Columned'
  BY DEF StorageFails, extraction, Columned
<1>5. Counted'
  BY DEF StorageFails, Counted
<1>6. Blamed'
  BY DEF StorageFails, CountRetry, Stuck, ledger, Blamed, Calls
<1>7. Entries'
  BY DEF StorageFails, ledger, Entries
<1>8. Attempted'
  BY DEF StorageFails, ledger, Attempted, Columned, Entries
<1>9. ReasonIsTheCause'
  BY DEF StorageFails, CountRetry, Stuck, extraction, ledger, ReasonIsTheCause
<1>10. ValuesAccountedFor'
  BY TrailStays DEF StorageFails, ledger
<1>11. Loaded'
  BY LoadedStays DEF StorageFails
<1> QED
  BY <1>1, <1>2, <1>3, <1>4, <1>5, <1>6, <1>7, <1>8, <1>9, <1>10, <1>11
     DEF OneTypeOK

LEMMA WorkerGivesUpKeeps ==
  ASSUME OneInv, WorkerGivesUp
  PROVE  OneInv'
<1> USE DEF OneInv
<1>1. /\ handler'.at = "notify"
      /\ handler'.tries = 0
      /\ ~(handler'.tries > 0)
  BY Entered DEF WorkerGivesUp
<1>2. DocumentTypeOK'
  BY DEF WorkerGivesUp, Stuck, STUCK_STATES, extraction, ledger, OneTypeOK,
         DocumentTypeOK
<1>3. HandlerTypeOK'
  BY EnteredTypeOK DEF WorkerGivesUp, Steps, Calls, OneTypeOK, HandlerTypeOK
<1>4. Stages'
  BY <1>1
     DEF WorkerGivesUp, Stuck, STUCK_STATES, extraction, ledger, Stages,
         Unreviewed
<1>5. Columned'
  BY DEF WorkerGivesUp, Stuck, STUCK_STATES, extraction, ledger, Columned,
         Stages, Unreviewed
<1>6. Counted'
  BY <1>1, AttemptsAreNumbers DEF Counted
<1>7. Blamed'
  BY <1>1 DEF WorkerGivesUp, Stuck, STUCK_STATES, ledger, Blamed
<1>8. Entries'
  BY <1>1
     DEF WorkerGivesUp, Stuck, STUCK_STATES, extraction, ledger, Entries,
         Stages, OneTypeOK, DocumentTypeOK
<1>9. Attempted'
  BY <1>1, WithinBudget
     DEF WorkerGivesUp, Stuck, STUCK_STATES, ledger, Attempted
<1>10. ReasonIsTheCause'
  BY DEF WorkerGivesUp, Stuck, STUCK_STATES, extraction, ledger,
         ReasonIsTheCause
<1>11. ValuesAccountedFor'
  BY TrailStays DEF WorkerGivesUp, ledger
<1>12. Loaded'
  BY LoadedStays DEF WorkerGivesUp, Unreviewed
<1> QED
  BY <1>2, <1>3, <1>4, <1>5, <1>6, <1>7, <1>8, <1>9, <1>10, <1>11, <1>12
     DEF OneTypeOK

(* The reviewers and the action they open.                                 *)
LEMMA BeginActionKeeps ==
  ASSUME OneInv, BeginAction
  PROVE  OneInv'
<1> USE DEF OneInv
<1>1. /\ handler'.at = "post"
      /\ handler'.tries = 0
      /\ ~(handler'.tries > 0)
  BY Entered DEF BeginAction
<1>2. DocumentTypeOK'
  BY DEF BeginAction, extraction, OneTypeOK, DocumentTypeOK
<1>3. HandlerTypeOK'
  BY EnteredTypeOK DEF BeginAction, Steps, Calls, OneTypeOK, HandlerTypeOK
<1>4. Stages'
  BY <1>1 DEF BeginAction, extraction, Stages, Unreviewed, STUCK_STATES
<1>5. Columned'
  BY DEF BeginAction, extraction, Columned, Stages, Unreviewed
<1>6. Counted'
  BY <1>1, AttemptsAreNumbers DEF Counted
<1>7. Blamed'
  BY <1>1 DEF BeginAction, Blamed, Entries, Stages
<1>8. Entries'
  <2>1. payables = 0 /\ UNCHANGED <<posted, payables>>
    BY DEF BeginAction, Entries
  <2>2. /\ accounting' \in {"mock", "external"}
        /\ action' = "ATTEMPTED"
        /\ payables' <= 1
    BY <2>1 DEF BeginAction
  <2> QED
    BY <1>1, <2>1, <2>2 DEF Entries
<1>9. Attempted'
  <2>1. payables' = 0 /\ retry_count' = retry_count
    BY DEF BeginAction, Entries
  <2>2. Budget(retry_count) \in Nat
    BY CountersAreNumbers, BudgetGrows
  <2>3. payables' <= Budget(retry_count) + 0
    BY <2>1, <2>2
  <2> QED
    BY <1>1, <2>1, <2>3 DEF Attempted
<1>10. ReasonIsTheCause'
  BY DEF BeginAction, extraction, ReasonIsTheCause
<1>11. ValuesAccountedFor'
  BY TrailStays DEF BeginAction
<1>12. Loaded'
  BY LoadedStays DEF BeginAction, Unreviewed
<1> QED
  BY <1>2, <1>3, <1>4, <1>5, <1>6, <1>7, <1>8, <1>9, <1>10, <1>11, <1>12
     DEF OneTypeOK

LEMMA OpenReviewKeeps ==
  ASSUME OneInv, NEW r \in Reviewers, OpenReview(r)
  PROVE  OneInv'
<1> USE DEF OneInv
<1>1. DocumentTypeOK'
  BY DEF OpenReview, extraction, ledger, document, OneTypeOK, DocumentTypeOK,
         Away
<1>2. HandlerTypeOK'
  BY DEF OpenReview, OneTypeOK, HandlerTypeOK
<1>3. Stages'
  BY DEF OpenReview, extraction, ledger, document, Stages
<1>4. Columned'
  BY DEF OpenReview, extraction, document, Columned
<1>5. Loaded'
  <2>1. row # None
    BY DEF OpenReview, Columned
  <2>2. desk' = [desk EXCEPT ![r] = [at |-> "opened", row |-> None]]
    BY DEF OpenReview
  <2>3. /\ phase = "NEEDS_REVIEW"
        /\ UNCHANGED <<phase, row, annotation, events>>
    BY DEF OpenReview, document, extraction
  <2>4. desk \in [Reviewers -> [at : {"away", "opened", "loaded"},
                                row : Rows \cup {None}]]
    BY DEF OneTypeOK, DocumentTypeOK
  <2>5. desk'[r] = [at |-> "opened", row |-> None]
    BY <2>2, <2>4
  <2>6. \A q \in Reviewers \ {r} : desk'[q] = desk[q]
    BY <2>2, <2>4
  <2>7. \A c, v : Accounted(c, v)' <=> Accounted(c, v)
    BY <2>3 DEF Accounted
  <2> QED
    BY <2>1, <2>3, <2>5, <2>6, <2>7 DEF Loaded, Unreviewed
<1>6. Counted'
  BY DEF OpenReview, Counted
<1>7. Blamed'
  BY DEF OpenReview, ledger, document, Blamed, Calls
<1>8. Entries'
  BY DEF OpenReview, ledger, document, Entries
<1>9. Attempted'
  BY DEF OpenReview, ledger, document, Attempted
<1>10. ReasonIsTheCause'
  BY DEF OpenReview, extraction, ledger, document, ReasonIsTheCause
<1>11. ValuesAccountedFor'
  BY TrailStays DEF OpenReview, ledger, document
<1> QED
  BY <1>1, <1>2, <1>3, <1>4, <1>5, <1>6, <1>7, <1>8, <1>9, <1>10, <1>11
     DEF OneTypeOK

LEMMA LoadRowKeeps ==
  ASSUME OneInv, NEW r \in Reviewers, LoadRow(r)
  PROVE  OneInv'
<1> USE DEF OneInv
<1>1. DocumentTypeOK'
  BY DEF LoadRow, extraction, ledger, document, OneTypeOK, DocumentTypeOK,
         Away
<1>2. HandlerTypeOK'
  BY DEF LoadRow, OneTypeOK, HandlerTypeOK
<1>3. Stages'
  BY DEF LoadRow, extraction, ledger, document, Stages
<1>4. Columned'
  BY DEF LoadRow, extraction, document, Columned
<1>5. Loaded'
  <2>1. desk' = [desk EXCEPT ![r] = [at |-> "loaded", row |-> row]]
    BY DEF LoadRow
  <2>2. row # None /\ desk[r].at = "opened"
    BY DEF LoadRow
  <2>3. UNCHANGED <<phase, row, annotation, events>>
    BY DEF LoadRow, document, extraction
  <2>4. desk \in [Reviewers -> [at : {"away", "opened", "loaded"},
                                row : Rows \cup {None}]]
    BY DEF OneTypeOK, DocumentTypeOK
  <2>5. desk'[r] = [at |-> "loaded", row |-> row]
    BY <2>1, <2>4
  <2>6. \A q \in Reviewers \ {r} : desk'[q] = desk[q]
    BY <2>1, <2>4
  <2>7. \A c, v : Accounted(c, v)' <=> Accounted(c, v)
    BY <2>3 DEF Accounted
  <2>8. \A c \in EXTRACTED_FIELDS : Accounted(c, row[c])
    BY <2>2 DEF ValuesAccountedFor
  <2> QED
    BY <2>2, <2>3, <2>5, <2>6, <2>7, <2>8 DEF Loaded
<1>6. Counted'
  BY DEF LoadRow, Counted
<1>7. Blamed'
  BY DEF LoadRow, ledger, document, Blamed, Calls
<1>8. Entries'
  BY DEF LoadRow, ledger, document, Entries
<1>9. Attempted'
  BY DEF LoadRow, ledger, document, Attempted
<1>10. ReasonIsTheCause'
  BY DEF LoadRow, extraction, ledger, document, ReasonIsTheCause
<1>11. ValuesAccountedFor'
  BY TrailStays DEF LoadRow, ledger, document
<1> QED
  BY <1>1, <1>2, <1>3, <1>4, <1>5, <1>6, <1>7, <1>8, <1>9, <1>10, <1>11
     DEF OneTypeOK

LEMMA CorrectFailsKeeps ==
  ASSUME OneInv, NEW r \in Reviewers, CorrectFails(r)
  PROVE  OneInv'
<1> USE DEF OneInv
<1>1. DocumentTypeOK'
  BY DEF CorrectFails, extraction, ledger, document, OneTypeOK, DocumentTypeOK,
         Away
<1>2. HandlerTypeOK'
  BY DEF CorrectFails, OneTypeOK, HandlerTypeOK
<1>3. Stages'
  BY DEF CorrectFails, extraction, ledger, document, Stages
<1>4. Columned'
  BY DEF CorrectFails, extraction, document, Columned
<1>5. Loaded'
  BY OthersStay
     DEF CorrectFails, extraction, document, OneTypeOK, DocumentTypeOK
<1>6. Counted'
  BY DEF CorrectFails, Counted
<1>7. Blamed'
  BY DEF CorrectFails, ledger, document, Blamed, Calls
<1>8. Entries'
  BY DEF CorrectFails, ledger, document, Entries
<1>9. Attempted'
  BY DEF CorrectFails, ledger, document, Attempted
<1>10. ReasonIsTheCause'
  BY DEF CorrectFails, extraction, ledger, document, ReasonIsTheCause
<1>11. ValuesAccountedFor'
  BY TrailStays DEF CorrectFails, ledger, document
<1> QED
  BY <1>1, <1>2, <1>3, <1>4, <1>5, <1>6, <1>7, <1>8, <1>9, <1>10, <1>11
     DEF OneTypeOK

LEMMA RejectReviewKeeps ==
  ASSUME OneInv, NEW r \in Reviewers, RejectReview(r)
  PROVE  OneInv'
<1> USE DEF OneInv
<1>1. DocumentTypeOK'
  BY DEF RejectReview, extraction, ledger, document, OneTypeOK, DocumentTypeOK,
         Away
<1>2. HandlerTypeOK'
  BY DEF RejectReview, OneTypeOK, HandlerTypeOK
<1>3. Stages'
  BY DEF RejectReview, extraction, ledger, document, Stages, Unreviewed, Loaded
<1>4. Columned'
  BY DEF RejectReview, extraction, ledger, Columned, Loaded, Unreviewed
<1>5. Loaded'
  BY OthersStay
     DEF RejectReview, extraction, OneTypeOK, DocumentTypeOK, Unreviewed
<1>6. Counted'
  BY DEF RejectReview, Counted
<1>7. Blamed'
  BY DEF RejectReview, ledger, document, Blamed, Calls
<1>8. Entries'
  BY DEF RejectReview, ledger, document, Entries
<1>9. Attempted'
  BY DEF RejectReview, ledger, document, Attempted
<1>10. ReasonIsTheCause'
  BY DEF RejectReview, extraction, ledger, document, ReasonIsTheCause
<1>11. ValuesAccountedFor'
  BY TrailStays DEF RejectReview, ledger, document
<1> QED
  BY <1>1, <1>2, <1>3, <1>4, <1>5, <1>6, <1>7, <1>8, <1>9, <1>10, <1>11
     DEF OneTypeOK

LEMMA CorrectKeeps ==
  ASSUME OneInv, NEW r \in Reviewers, NEW request \in Requests,
         Correct(r, request)
  PROVE  OneInv'
<1> DEFINE loaded == desk[r].row
<1> USE DEF OneInv
<1>1. /\ loaded \in Rows
      /\ \A c \in EXTRACTED_FIELDS : Accounted(c, loaded[c])
      /\ row \in Rows
      /\ row # None
      /\ phase \notin Unreviewed \ {"NEEDS_REVIEW"}
      /\ Acceptable(request)
  BY DEF Correct, OneTypeOK, DocumentTypeOK, Loaded
<1>2. /\ row' = Updated(loaded, request)
      /\ Fits(row')
      /\ events' = events \cup Events(loaded, request)
      /\ row' \in Rows
  BY <1>1, UpdatedIsRow DEF Correct
<1>3. events' # {}
  <2>1. 1 \in DOMAIN request
    BY <1>1, RequestsAreWellFormed DEF Acceptable
  <2>2. Event(loaded, request, 1) \in Events(loaded, request)
    BY <2>1 DEF Events
  <2> QED
    BY <1>2, <2>2
<1>4. /\ phase' = "VALIDATED"
      /\ desk' = [desk EXCEPT ![r] = Away]
      /\ UNCHANGED <<annotation, action, ledger, reason, retry_count, session,
                     handler>>
  BY DEF Correct
<1>5. OneTypeOK'
  BY <1>2, <1>4 DEF OneTypeOK, DocumentTypeOK, HandlerTypeOK, ledger, Away
<1>6. Stages'
  BY <1>1, <1>4 DEF Stages, ledger, Unreviewed
<1>7. Columned'
  BY <1>1, <1>2, <1>3, <1>4, RowsAreRows DEF Columned, Unreviewed
<1>8. Loaded'
  <2>1. row' # None
    BY <1>2, RowsAreRows
  <2> QED
    BY <1>2, <1>4, <2>1, OthersStay DEF OneTypeOK, DocumentTypeOK, Unreviewed
<1>9. Counted' /\ Blamed'
  BY <1>4 DEF Counted, Blamed, ledger
<1>10. Entries' /\ Attempted'
  BY <1>4 DEF Entries, Attempted, ledger
<1>11. ReasonIsTheCause'
  BY <1>4 DEF ReasonIsTheCause
<1>12. ValuesAccountedFor'
  BY <1>1, <1>2, <1>4, CorrectedIsAccounted DEF ledger
<1> QED
  BY <1>5, <1>6, <1>7, <1>8, <1>9, <1>10, <1>11, <1>12

-----------------------------------------------------------------------------
(* Initially nothing has been stored, and every step is one of the above.  *)
LEMMA OneInvInit == Init => OneInv
<1> SUFFICES ASSUME Init PROVE OneInv
  OBVIOUS
<1>1. OneTypeOK
  BY MaxRetriesIsANumber
     DEF Init, Fresh, OneTypeOK, DocumentTypeOK, HandlerTypeOK, Unreviewed,
         Steps, Calls, Away
<1>2. Stages
  BY DEF Init, Fresh, Stages
<1>3. Columned /\ Loaded
  BY DEF Init, Columned, Loaded, Away
<1>4. Counted /\ Blamed
  BY AttemptsAreNumbers DEF Init, Fresh, Counted, Blamed
<1>5. Entries
  BY DEF Init, Entries, Fresh
<1>8. Attempted
  BY DEF Init, Attempted
<1>6. ReasonIsTheCause
  BY DEF Init, ReasonIsTheCause
<1>7. ValuesAccountedFor
  BY DEF Init, ValuesAccountedFor
<1> QED
  BY <1>1, <1>2, <1>3, <1>4, <1>5, <1>6, <1>7, <1>8 DEF OneInv

LEMMA NextKeeps == OneInv /\ [Next]_vars => OneInv'
<1> SUFFICES ASSUME OneInv, [Next]_vars PROVE OneInv'
  OBVIOUS
<1>1. CASE HandlerSteps
  <2>1. CASE StoreRaises
    BY <2>1, AbortKeeps DEF StoreRaises
  <2>2. CASE DeadLetterRaises
    BY <2>2, AbortKeeps DEF DeadLetterRaises, Exhausted
  <2> QED
    BY <1>1, <2>1, <2>2, ProviderAnswersKeeps, ExtractionFailsKeeps,
       StoreKeeps, BeginValidationKeeps, ValidateKeeps, PostSucceedsKeeps,
       PostFailsKeeps, ConfirmKeeps, FlushFailsKeeps, SessionRefusesKeeps,
       DeadLetterKeeps, NoticeFailsKeeps, NoticeEndsKeeps
       DEF HandlerSteps
<1>2. CASE WorkerSteps
  BY <1>2, WorkerResumesKeeps, StorageFailsKeeps, WorkerGivesUpKeeps
     DEF WorkerSteps
<1>3. CASE BeginAction
  BY <1>3, BeginActionKeeps
<1>4. CASE DatabaseFault
  BY <1>4, AbortKeeps DEF DatabaseFault
<1>5. CASE \E r \in Reviewers : ReviewerSteps(r)
  BY <1>5, OpenReviewKeeps, LoadRowKeeps, CorrectKeeps, CorrectFailsKeeps,
     RejectReviewKeeps
     DEF ReviewerSteps
<1>6. CASE UNCHANGED vars
  <2>1. OneTypeOK'
    BY <1>6
       DEF OneInv, OneTypeOK, DocumentTypeOK, HandlerTypeOK, vars, document,
           extraction, ledger
  <2>2. Stages' /\ Columned' /\ Counted' /\ Blamed'
    BY <1>6
       DEF OneInv, Stages, Columned, Counted, Blamed, vars, document,
           extraction, ledger
  <2>3. Entries' /\ Attempted' /\ ReasonIsTheCause'
    BY <1>6
       DEF OneInv, Entries, Attempted, ReasonIsTheCause, vars, document, ledger
  <2>4. ValuesAccountedFor'
    BY <1>6, TrailStays DEF OneInv, vars, document, ledger
  <2>5. Loaded'
    BY <1>6, LoadedStays DEF OneInv, vars, document
  <2> QED
    BY <2>1, <2>2, <2>3, <2>4, <2>5 DEF OneInv
<1> QED
  BY <1>1, <1>2, <1>3, <1>4, <1>5, <1>6 DEF Next

-----------------------------------------------------------------------------
(* The delays.                                                             *)
(* What a step does to the loop of its handler: it enters another, counts  *)
(* a failure, raises, or leaves it alone. *)
LoopStep ==
  \/ \E step \in Steps : Enter(step)
  \/ \E call \in Calls, error \in Errors : Calling(call) /\ AttemptFails(error)
  \/ handler'.at = "raised"
  \/ UNCHANGED handler

LEMMA NextIsLoopStep ==
  ASSUME OneInv, [Next]_vars
  PROVE  LoopStep
<1> USE DEF LoopStep, Steps, Calls, Errors
<1>1. HandlerTypeOK
  BY DEF OneInv, OneTypeOK
<1>2. CASE HandlerSteps
  <2>1. ASSUME ProviderAnswers \/ Store \/ BeginValidation \/ Validate
               \/ PostSucceeds \/ Confirm \/ DeadLetter \/ NoticeEnds
        PROVE  \E step \in Steps : Enter(step)
    BY <2>1
       DEF ProviderAnswers, Store, BeginValidation, Validate, PostSucceeds,
           Confirm, DeadLetter, NoticeEnds
  <2>2. ASSUME ExtractionFails \/ PostFails \/ FlushFails \/ SessionRefuses
               \/ NoticeFails
        PROVE  \E call \in Calls, error \in Errors :
                 Calling(call) /\ AttemptFails(error)
    BY <2>2
       DEF ExtractionFails, PostFails, FlushFails, SessionRefuses, NoticeFails
  <2>3. ASSUME StoreRaises \/ DeadLetterRaises
        PROVE  handler'.at = "raised"
    BY <1>1, <2>3, Aborted DEF StoreRaises, DeadLetterRaises
  <2> QED
    BY <1>2, <2>1, <2>2, <2>3 DEF HandlerSteps
<1>3. CASE WorkerSteps
  <2>1. CASE WorkerResumes
    <3>1. phase \in STUCK_STATES
      BY <2>1 DEF WorkerResumes, CountRetry, Stuck
    <3> QED
      BY <2>1, <3>1 DEF WorkerResumes, STUCK_STATES
  <2> QED
    BY <1>3, <2>1 DEF WorkerSteps, StorageFails, WorkerGivesUp
<1>4. CASE BeginAction
  BY <1>4 DEF BeginAction
<1>5. CASE DatabaseFault
  BY <1>1, <1>5, Aborted DEF DatabaseFault
<1>6. CASE \E r \in Reviewers : ReviewerSteps(r)
  BY <1>6
     DEF ReviewerSteps, OpenReview, LoadRow, Correct, CorrectFails,
         RejectReview
<1>7. CASE UNCHANGED vars
  BY <1>7 DEF vars
<1> QED
  BY <1>2, <1>3, <1>4, <1>5, <1>6, <1>7 DEF Next

LEMMA Slept ==
  ASSUME OneInv, SleptBetweenAttempts, [Next]_vars
  PROVE  SleptBetweenAttempts'
<1>1. LoopStep
  BY NextIsLoopStep
<1>2. PowerOfTwo[0] = 1 /\ \A n \in Nat : PowerOfTwo[n] \in Nat
  BY Powers
<1>3. ASSUME NEW step \in Steps, Enter(step)
      PROVE  SleptBetweenAttempts'
  <2>1. /\ handler'.tries = 0
        /\ handler'.slept = 0
        /\ handler'.at \in Calls => Attempts[handler'.at] # 0
    BY <1>3, AttemptsArePositive DEF Enter, Fresh
  <2> QED
    BY <1>2, <2>1 DEF SleptBetweenAttempts
<1>4. ASSUME NEW call \in Calls, NEW error \in Errors,
             Calling(call), AttemptFails(error)
      PROVE  SleptBetweenAttempts'
  <2> DEFINE k == handler.tries
             most == Attempts[call]
  <2>1. /\ HandlerTypeOK
        /\ k \in Nat
        /\ most \in Nat
        /\ k < most
        /\ handler.at = call
        /\ handler'.at = call
        /\ handler'.tries = k + 1
    BY <1>4, AttemptsArePositive, FailedAttempt
       DEF OneInv, OneTypeOK, HandlerTypeOK, Calling
  <2>2. handler'.slept = handler.slept + Delay(k)
    BY <1>4, <2>1 DEF AttemptFails, HandlerTypeOK
  <2>3. handler.slept = PowerOfTwo[k] - 1
    BY <2>1 DEF SleptBetweenAttempts
  <2>4. Delay(k) = IF k < most - 1 THEN PowerOfTwo[k] ELSE 0
    BY <2>1 DEF Delay
  <2>5. /\ PowerOfTwo[k] \in Nat
        /\ PowerOfTwo[k + 1] = 2 * PowerOfTwo[k]
    BY <2>1, Powers
  <2> HIDE DEF k, most
  <2>6. handler'.slept = (IF k + 1 = most
                          THEN PowerOfTwo[(k + 1) - 1]
                          ELSE PowerOfTwo[k + 1]) - 1
    <3>1. CASE k + 1 = most
      BY <3>1, <2>1, <2>2, <2>3, <2>4, <2>5
    <3>2. CASE k + 1 # most
      BY <3>2, <2>1, <2>2, <2>3, <2>4, <2>5
    <3> QED
      BY <3>1, <3>2
  <2> QED
    BY <2>1, <2>6 DEF SleptBetweenAttempts, most
<1>5. CASE handler'.at = "raised"
  BY <1>5 DEF SleptBetweenAttempts, Calls
<1>6. CASE UNCHANGED handler
  BY <1>6 DEF SleptBetweenAttempts
<1> QED
  BY <1>1, <1>3, <1>4, <1>5, <1>6 DEF LoopStep

-----------------------------------------------------------------------------
(* The work that is left: what a step of a handler, a recovery and the     *)
(* opening of an action take from it.                                      *)
Loop(h) ==
  /\ h.at \in Steps
  /\ h.tries \in Nat
  /\ h.at \in Calls => h.tries <= Attempts[h.at]

LEMMA LoopsAreLoops ==
  ASSUME OneInv, [Next]_vars
  PROVE  Loop(handler) /\ Loop(handler')
<1>1. OneInv'
  BY NextKeeps
<1> QED
  BY <1>1 DEF OneInv, OneTypeOK, HandlerTypeOK, Counted, Loop

LEMMA LongestIsNumber ==
  /\ Notices \in Nat /\ Notices >= 2
  /\ LongestHandler \in Nat
  /\ Attempts["post"] + Notices + 3 < LongestHandler
  /\ Attempts["extract"] + Notices + 3 < LongestHandler
BY AttemptsAreNumbers DEF Notices, LongestHandler

LEMMA StepsLeftOfLoop ==
  ASSUME NEW h, Loop(h)
  PROVE  /\ StepsLeft(h) \in 0 .. LongestHandler
         /\ h.at \in {"idle", "raised"} => StepsLeft(h) = 0
         /\ h.at \notin {"idle", "raised"} => StepsLeft(h) > 0
         /\ h.at = "store" => StepsLeft(h) = 3
         /\ h.at = "begin validation" => StepsLeft(h) = 2
         /\ h.at = "validate" => StepsLeft(h) = 1
         /\ h.at = "confirm" => StepsLeft(h) = Notices + 1
<1> DEFINE batch == Attempts[h.at] - h.tries
<1>1. h.at \in Calls => batch \in 0 .. Attempts[h.at]
  BY AttemptsArePositive DEF Loop
<1>2. /\ Notices \in Nat /\ Notices >= 2
      /\ Attempts["notify"] = Notices - 1
      /\ Attempts["extract"] \in Nat
      /\ Attempts["post"] \in Nat
      /\ LongestHandler =
           Attempts["extract"] + Attempts["post"] + Notices + 3
  BY AttemptsAreNumbers DEF Notices, LongestHandler
<1> HIDE DEF batch
<1>3. /\ h.at = "extract" => StepsLeft(h) = batch + Notices + 3
      /\ h.at = "store" => StepsLeft(h) = 3
      /\ h.at = "begin validation" => StepsLeft(h) = 2
      /\ h.at = "validate" => StepsLeft(h) = 1
      /\ h.at = "post" => StepsLeft(h) = batch + Notices + 1
      /\ h.at = "confirm" => StepsLeft(h) = Notices + 1
      /\ h.at = "notify" => StepsLeft(h) = batch + 1
      /\ h.at \in {"idle", "raised"} => StepsLeft(h) = 0
  BY DEF StepsLeft, batch
<1>4. h.at \in Steps
  BY DEF Loop
<1>5. CASE h.at \in Calls
  <2> DEFINE left == StepsLeft(h)
             e == Attempts["extract"]
             p == Attempts["post"]
  <2>1. h.at \in {"extract", "post", "notify"}
    BY <1>5 DEF Calls
  <2>2. CASE h.at = "extract"
    <3>1. left = batch + Notices + 3 /\ batch \in 0 .. e
      BY <1>1, <1>3, <1>5, <2>2
    <3>2. left \in 0 .. LongestHandler /\ left > 0
      BY ONLY <3>1, <1>2
    <3> QED
      BY <3>2, <2>2
  <2>3. CASE h.at = "post"
    <3>1. left = batch + Notices + 1 /\ batch \in 0 .. p
      BY <1>1, <1>3, <1>5, <2>3
    <3>2. left \in 0 .. LongestHandler /\ left > 0
      BY ONLY <3>1, <1>2
    <3> QED
      BY <3>2, <2>3
  <2>4. CASE h.at = "notify"
    <3>1. left = batch + 1 /\ batch \in 0 .. (Notices - 1)
      BY <1>1, <1>2, <1>3, <1>5, <2>4
    <3>2. left \in 0 .. LongestHandler /\ left > 0
      BY ONLY <3>1, <1>2
    <3> QED
      BY <3>2, <2>4
  <2> QED
    BY <2>1, <2>2, <2>3, <2>4
<1>6. CASE h.at \notin Calls
  <2>1. h.at \in {"store", "begin validation", "validate", "confirm",
                  "idle", "raised"}
    BY <1>4, <1>6 DEF Steps
  <2>2. LongestHandler \in Nat /\ LongestHandler >= Notices + 3
    BY ONLY <1>2
  <2> QED
    <3>1. StepsLeft(h) \in {0, 1, 2, 3, Notices + 1}
      BY <2>1, <1>3
    <3>2. \A left \in {0, 1, 2, 3, Notices + 1} :
            left \in 0 .. LongestHandler
      BY <2>2, <1>2
    <3>3. h.at \notin {"idle", "raised"} => StepsLeft(h) > 0
      <4>1. h.at \notin {"idle", "raised"}
              => StepsLeft(h) \in {1, 2, 3, Notices + 1}
        BY <2>1, <1>3
      <4>2. \A left \in {1, 2, 3, Notices + 1} : left > 0
        BY <1>2
      <4> QED
        BY <4>1, <4>2
    <3> QED
      BY <3>1, <3>2, <3>3, <1>3
<1> QED
  BY <1>5, <1>6

LEMMA StepsLeftInBatch ==
  ASSUME NEW h, Loop(h)
  PROVE  /\ h.at = "extract" =>
              StepsLeft(h) = (Attempts["extract"] - h.tries) + Notices + 3
         /\ h.at = "post" =>
              StepsLeft(h) = (Attempts["post"] - h.tries) + Notices + 1
         /\ h.at = "notify" =>
              StepsLeft(h) = (Attempts["notify"] - h.tries) + 1
BY DEF StepsLeft

(* An attempt that fails and a loop that is left leave less to do. *)
LEMMA FailureTakesStep ==
  ASSUME OneInv, Loop(handler), Loop(handler'),
         NEW call \in Calls, NEW error \in Errors,
         Calling(call), AttemptFails(error)
  PROVE  StepsLeft(handler') < StepsLeft(handler)
<1>1. /\ handler.at = call
      /\ handler'.at = call
      /\ handler'.tries = handler.tries + 1
      /\ handler.tries \in Nat
  BY FailedAttempt DEF OneInv, OneTypeOK, HandlerTypeOK
<1>2. /\ Attempts["extract"] \in Nat
      /\ Attempts["post"] \in Nat
      /\ Attempts["notify"] \in Nat
      /\ Notices \in Nat
  BY AttemptsAreNumbers, LongestIsNumber
<1> QED
  BY <1>1, <1>2, StepsLeftInBatch DEF Calls

(* What is left besides the running handler. *)
LEMMA RestIsNumber ==
  ASSUME OneInv
  PROVE  /\ RecoveriesLeft \in Nat
         /\ DeadLetterLeft \in Nat
         /\ ActionLeft \in Nat
<1>1. MaxRetries - retry_count \in Nat
  BY MaxRetriesIsANumber DEF OneInv, OneTypeOK, DocumentTypeOK
<1>2. LongestHandler + 1 \in Nat /\ Notices \in Nat
  BY LongestIsNumber
<1> QED
  BY <1>1, <1>2, LongestIsNumber DEF RecoveriesLeft, DeadLetterLeft, ActionLeft

LEMMA RecoveryIsUsed ==
  ASSUME OneInv, retry_count < MaxRetries, retry_count' = retry_count + 1
  PROVE  RecoveriesLeft = RecoveriesLeft' + (LongestHandler + 1)
<1> DEFINE n == MaxRetries - (retry_count + 1)
           most == LongestHandler + 1
<1>1. n \in Nat /\ most \in Nat /\ MaxRetries - retry_count = n + 1
  BY MaxRetriesIsANumber, LongestIsNumber DEF OneInv, OneTypeOK, DocumentTypeOK
<1>2. RecoveriesLeft' = most * n /\ RecoveriesLeft = most * (n + 1)
  BY <1>1 DEF RecoveriesLeft
<1> HIDE DEF n, most
<1>3. most * (n + 1) = most * n + most
  BY <1>1
<1> QED
  BY <1>2, <1>3 DEF most

(* A step of a handler that leaves the rest alone or shortens it. *)
Shortens ==
  /\ StepsLeft(handler') < StepsLeft(handler)
  /\ RecoveriesLeft' = RecoveriesLeft
  /\ DeadLetterLeft' <= DeadLetterLeft
  /\ ActionLeft' <= ActionLeft

LeavesLess == WorkLeft' \in 0 .. WorkLeft /\ WorkLeft' < WorkLeft

LEMMA DifferenceIsNumber ==
  ASSUME NEW most \in Nat, NEW n \in 0 .. most
  PROVE  most - n \in Nat
OBVIOUS

LEMMA NumbersLeft ==
  ASSUME OneInv, [Next]_vars
  PROVE  /\ StepsLeft(handler) \in 0 .. LongestHandler
         /\ StepsLeft(handler') \in 0 .. LongestHandler
         /\ LongestHandler \in Nat
         /\ RecoveriesLeft \in Nat /\ RecoveriesLeft' \in Nat
         /\ DeadLetterLeft \in Nat /\ DeadLetterLeft' \in Nat
         /\ ActionLeft \in Nat /\ ActionLeft' \in Nat
<1>1. OneInv'
  BY NextKeeps
<1>2. RecoveriesLeft' \in Nat /\ DeadLetterLeft' \in Nat /\ ActionLeft' \in Nat
  <2>1. MaxRetries - retry_count' \in Nat
    <3>1. retry_count' \in 0 .. MaxRetries
      BY <1>1 DEF OneInv, OneTypeOK, DocumentTypeOK
    <3>2. MaxRetries \in Nat
      BY MaxRetriesIsANumber
    <3> QED
      BY <3>1, <3>2, DifferenceIsNumber
  <2>2. LongestHandler + 1 \in Nat /\ Notices \in Nat
    BY LongestIsNumber
  <2> QED
    BY <2>1, <2>2, LongestIsNumber
       DEF RecoveriesLeft, DeadLetterLeft, ActionLeft
<1> QED
  BY <1>2, RestIsNumber, LoopsAreLoops, StepsLeftOfLoop, LongestIsNumber

LEMMA ShortensLeavesLess ==
  ASSUME OneInv, [Next]_vars, Shortens
  PROVE  LeavesLess
BY NumbersLeft DEF Shortens, LeavesLess, WorkLeft

(* The parts of WorkLeft that a step of a handler leaves alone or reduces. *)
LEMMA RestStays ==
  ASSUME OneInv, UNCHANGED retry_count,
         action' = action \/ action' # "NONE",
         \/ phase' = phase
         \/ phase' \notin STUCK_STATES \cup {"EXTRACTED"}
         \/ phase \in STUCK_STATES \cup {"EXTRACTED"}
  PROVE  /\ RecoveriesLeft' = RecoveriesLeft
         /\ DeadLetterLeft' <= DeadLetterLeft
         /\ ActionLeft' <= ActionLeft
<1>1. Notices \in Nat /\ LongestHandler \in Nat
  BY LongestIsNumber
<1>2. RecoveriesLeft' = RecoveriesLeft
  BY DEF RecoveriesLeft
<1>3. DeadLetterLeft' <= DeadLetterLeft
  BY <1>1 DEF DeadLetterLeft
<1>4. ActionLeft' <= ActionLeft
  BY <1>1 DEF ActionLeft
<1> QED
  BY <1>2, <1>3, <1>4

LEMMA AbortShortens ==
  ASSUME OneInv, [Next]_vars, handler.at \notin {"idle", "raised"}, Abort
  PROVE  Shortens
<1>1. Loop(handler) /\ Loop(handler')
  BY LoopsAreLoops
<1>2. handler'.at = "raised"
  BY Aborted DEF OneInv, OneTypeOK
<1>3. /\ StepsLeft(handler') = 0
      /\ StepsLeft(handler) > 0
  BY <1>1, <1>2, StepsLeftOfLoop
<1>4. /\ RecoveriesLeft' = RecoveriesLeft
      /\ DeadLetterLeft' <= DeadLetterLeft
      /\ ActionLeft' <= ActionLeft
  BY RestStays DEF Abort
<1> QED
  BY <1>3, <1>4 DEF Shortens

LEMMA FailureShortens ==
  ASSUME OneInv, [Next]_vars,
         ExtractionFails \/ PostFails \/ FlushFails \/ SessionRefuses
         \/ NoticeFails
  PROVE  Shortens
<1>1. Loop(handler) /\ Loop(handler')
  BY LoopsAreLoops
<1>2. PICK call \in Calls, error \in Errors :
        Calling(call) /\ AttemptFails(error)
  BY DEF ExtractionFails, PostFails, FlushFails, SessionRefuses, NoticeFails,
         Calls, Errors
<1>3. StepsLeft(handler') < StepsLeft(handler)
  BY <1>1, <1>2, FailureTakesStep
<1>4. UNCHANGED <<retry_count, action, phase>>
  BY DEF ExtractionFails, PostFails, FlushFails, SessionRefuses, NoticeFails,
         document
<1>5. /\ RecoveriesLeft' = RecoveriesLeft
      /\ DeadLetterLeft' <= DeadLetterLeft
      /\ ActionLeft' <= ActionLeft
  BY <1>4, RestStays
<1> QED
  BY <1>3, <1>5 DEF Shortens

(* A step that enters the next one of its handler. *)
LEMMA NextStepShortens ==
  ASSUME OneInv, [Next]_vars,
         ProviderAnswers \/ Store \/ BeginValidation \/ Validate
         \/ PostSucceeds \/ Confirm \/ DeadLetter \/ NoticeEnds
  PROVE  Shortens
<1>1. /\ Loop(handler)
      /\ Loop(handler')
      /\ handler.tries \in Nat
      /\ Notices \in Nat
      /\ Notices = Attempts["notify"] + 1
      /\ Attempts["extract"] \in Nat
      /\ Attempts["post"] \in Nat
      /\ Attempts["notify"] \in Nat
  BY LoopsAreLoops, LongestIsNumber, AttemptsAreNumbers DEF Loop, Notices
<1>2. StepsLeft(handler') < StepsLeft(handler)
  <2>1. CASE ProviderAnswers
    <3>1. /\ handler.at = "extract"
          /\ handler.tries < Attempts["extract"]
          /\ handler'.at = "store"
      BY <2>1, Entered DEF ProviderAnswers, Calling
    <3>2. /\ StepsLeft(handler) =
               (Attempts["extract"] - handler.tries) + Notices + 3
          /\ StepsLeft(handler') = 3
      BY <1>1, <3>1, StepsLeftOfLoop, StepsLeftInBatch
    <3> QED
      BY <1>1, <3>1, <3>2
  <2>2. CASE Store
    <3>1. handler.at = "store" /\ handler'.at = "begin validation"
      BY <2>2, Entered DEF Store
    <3>2. StepsLeft(handler) = 3 /\ StepsLeft(handler') = 2
      BY <1>1, <3>1, StepsLeftOfLoop
    <3> QED
      BY <3>2
  <2>3. CASE BeginValidation
    <3>1. handler.at = "begin validation" /\ handler'.at = "validate"
      BY <2>3, Entered DEF BeginValidation
    <3>2. StepsLeft(handler) = 2 /\ StepsLeft(handler') = 1
      BY <1>1, <3>1, StepsLeftOfLoop
    <3> QED
      BY <3>2
  <2>4. CASE Validate
    <3>1. handler.at = "validate" /\ handler'.at = "idle"
      BY <2>4, Entered DEF Validate
    <3>2. StepsLeft(handler) = 1 /\ StepsLeft(handler') = 0
      BY <1>1, <3>1, StepsLeftOfLoop
    <3> QED
      BY <3>2
  <2>5. CASE PostSucceeds
    <3>1. /\ handler.at = "post"
          /\ handler.tries < Attempts["post"]
          /\ handler'.at = "confirm"
      BY <2>5, Entered DEF PostSucceeds, Calling
    <3>2. /\ StepsLeft(handler) =
               (Attempts["post"] - handler.tries) + Notices + 1
          /\ StepsLeft(handler') = Notices + 1
      BY <1>1, <3>1, StepsLeftOfLoop, StepsLeftInBatch
    <3> QED
      BY <1>1, <3>1, <3>2
  <2>6. CASE Confirm
    <3>1. /\ handler.at = "confirm"
          /\ handler'.at = "notify"
          /\ handler'.tries = 0
      BY <2>6, Entered DEF Confirm
    <3>2. /\ StepsLeft(handler) = Notices + 1
          /\ StepsLeft(handler') = (Attempts["notify"] - 0) + 1
      BY <1>1, <3>1, StepsLeftOfLoop, StepsLeftInBatch
    <3> QED
      BY <1>1, <3>2
  <2>7. CASE DeadLetter
    <3>1. PICK call \in {"extract", "post"} : Exhausted(call)
      BY <2>7 DEF DeadLetter
    <3>2. /\ handler.at = call
          /\ handler.tries = Attempts[call]
          /\ handler'.at = "notify"
          /\ handler'.tries = 0
      BY <2>7, <3>1, Entered DEF DeadLetter, Exhausted
    <3>3. StepsLeft(handler') = (Attempts["notify"] - 0) + 1
      BY <1>1, <3>2, StepsLeftInBatch
    <3>4. CASE call = "extract"
      <4>1. StepsLeft(handler) =
              (Attempts["extract"] - Attempts["extract"]) + Notices + 3
        BY <1>1, <3>2, <3>4, StepsLeftInBatch
      <4> QED
        BY <1>1, <3>3, <4>1
    <3>5. CASE call = "post"
      <4>1. StepsLeft(handler) =
              (Attempts["post"] - Attempts["post"]) + Notices + 1
        BY <1>1, <3>2, <3>5, StepsLeftInBatch
      <4> QED
        BY <1>1, <3>3, <4>1
    <3> QED
      BY <3>4, <3>5
  <2>8. CASE NoticeEnds
    <3>1. handler.at = "notify" /\ handler'.at = "idle"
      BY <2>8, Entered DEF NoticeEnds
    <3> QED
      BY <1>1, <3>1, StepsLeftOfLoop
  <2> QED
    BY <2>1, <2>2, <2>3, <2>4, <2>5, <2>6, <2>7, <2>8
<1>3. UNCHANGED retry_count /\ (action' = action \/ action' # "NONE")
  BY DEF ProviderAnswers, Store, BeginValidation, Validate, PostSucceeds,
         Confirm, DeadLetter, NoticeEnds, document
<1>4. \/ phase' = phase
      \/ phase' \notin STUCK_STATES \cup {"EXTRACTED"}
      \/ phase \in STUCK_STATES \cup {"EXTRACTED"}
  BY DEF ProviderAnswers, Store, BeginValidation, Validate, PostSucceeds,
         Confirm, DeadLetter, NoticeEnds, document, STUCK_STATES,
         OneInv, Stages
<1>5. /\ RecoveriesLeft' = RecoveriesLeft
      /\ DeadLetterLeft' <= DeadLetterLeft
      /\ ActionLeft' <= ActionLeft
  BY <1>3, <1>4, RestStays
<1> QED
  BY <1>2, <1>5 DEF Shortens

(* A recovery starts a handler at the price of one retry. *)
LEMMA RecoveryLeavesLess ==
  ASSUME OneInv, [Next]_vars, WorkerResumes \/ StorageFails
  PROVE  LeavesLess
<1>1. /\ handler.at = "raised"
      /\ RecoveriesLeft = RecoveriesLeft' + (LongestHandler + 1)
      /\ UNCHANGED <<phase, action>>
  BY RecoveryIsUsed
     DEF WorkerResumes, StorageFails, CountRetry, Stuck
<1>2. StepsLeft(handler) = 0
  BY <1>1, LoopsAreLoops, StepsLeftOfLoop
<1>3. DeadLetterLeft' = DeadLetterLeft /\ ActionLeft' = ActionLeft
  BY <1>1 DEF DeadLetterLeft, ActionLeft
<1> QED
  BY <1>1, <1>2, <1>3, NumbersLeft DEF LeavesLess, WorkLeft

(* The worker's dead letter still sends its notification. *)
LEMMA GivingUpLeavesLess ==
  ASSUME OneInv, [Next]_vars, WorkerGivesUp
  PROVE  LeavesLess
<1>1. /\ handler.at = "raised"
      /\ phase \in STUCK_STATES
      /\ phase' = "FAILED"
      /\ handler'.at = "notify"
      /\ handler'.tries = 0
      /\ UNCHANGED <<retry_count, action>>
  BY Entered DEF WorkerGivesUp, Stuck
<1>2. StepsLeft(handler) = 0
  BY <1>1, LoopsAreLoops, StepsLeftOfLoop
<1>3. StepsLeft(handler') = (Attempts["notify"] - 0) + 1
  BY <1>1, LoopsAreLoops, StepsLeftInBatch
<1>4. /\ DeadLetterLeft = Notices + 1
      /\ DeadLetterLeft' = 0
      /\ RecoveriesLeft' = RecoveriesLeft
      /\ ActionLeft' = ActionLeft
  BY <1>1 DEF DeadLetterLeft, RecoveriesLeft, ActionLeft, STUCK_STATES
<1>5. /\ Notices \in Nat
      /\ Notices = Attempts["notify"] + 1
      /\ Attempts["notify"] \in Nat
  BY AttemptsAreNumbers, LongestIsNumber DEF Notices
<1>6. StepsLeft(handler') = Notices
  BY <1>3, <1>5
<1> QED
  BY <1>2, <1>4, <1>5, <1>6, NumbersLeft DEF LeavesLess, WorkLeft

(* An action is opened once. *)
LEMMA ActionLeavesLess ==
  ASSUME OneInv, [Next]_vars, BeginAction
  PROVE  LeavesLess
<1>1. /\ handler.at \in {"idle", "raised"}
      /\ phase = "VALIDATED"
      /\ phase' = "ACTIONED"
      /\ action = "NONE"
      /\ action' = "ATTEMPTED"
      /\ handler'.at = "post"
      /\ handler'.tries = 0
      /\ UNCHANGED retry_count
  BY Entered DEF BeginAction
<1>2. StepsLeft(handler) = 0
  BY <1>1, LoopsAreLoops, StepsLeftOfLoop
<1>3. StepsLeft(handler') = (Attempts["post"] - 0) + Notices + 1
  BY <1>1, LoopsAreLoops, StepsLeftInBatch
<1>4. /\ DeadLetterLeft = 0
      /\ DeadLetterLeft' = Notices + 1
      /\ RecoveriesLeft' = RecoveriesLeft
      /\ ActionLeft = LongestHandler + Notices + 2
      /\ ActionLeft' = 0
  BY <1>1 DEF DeadLetterLeft, RecoveriesLeft, ActionLeft, STUCK_STATES
<1>5. /\ Notices \in Nat
      /\ Attempts["post"] \in Nat
      /\ LongestHandler \in Nat
      /\ Attempts["post"] + Notices + 3 < LongestHandler
  BY AttemptsAreNumbers, LongestIsNumber
<1> QED
  BY <1>2, <1>3, <1>4, <1>5, NumbersLeft DEF LeavesLess, WorkLeft

(* What a reviewer does, early or late, adds nothing. *)
LEMMA ReviewerAddsNothing ==
  ASSUME OneInv, [Next]_vars, NEW r \in Reviewers, ReviewerSteps(r)
  PROVE  WorkLeft' \in 0 .. WorkLeft /\ UNCHANGED <<handler, retry_count>>
<1>1. UNCHANGED <<handler, retry_count, action>>
  BY DEF ReviewerSteps, OpenReview, LoadRow, Correct, CorrectFails,
         RejectReview, document
<1>2. phase' = phase \/ phase' \in {"VALIDATED", "REJECTED"}
  BY DEF ReviewerSteps, OpenReview, LoadRow, Correct, CorrectFails,
         RejectReview, document
<1>3. /\ RecoveriesLeft' = RecoveriesLeft
      /\ DeadLetterLeft' <= DeadLetterLeft
      /\ ActionLeft' <= ActionLeft
  BY <1>1, <1>2, RestStays DEF STUCK_STATES
<1>4. StepsLeft(handler') = StepsLeft(handler)
  BY <1>1
<1> QED
  BY <1>1, <1>3, <1>4, NumbersLeft DEF WorkLeft

-----------------------------------------------------------------------------
(* The bill.  The calls that n batches may make, and what the batch that   *)
(* runs has left of them. *)
Allowance(n) == Attempts["extract"] * n

Charged ==
  /\ bills \in Nat
  /\ handler.at = "extract" => bills <= Allowance(retry_count) + handler.tries
  /\ handler.at # "extract" => bills <= Allowance(retry_count + 1)

LEMMA AllowanceGrows ==
  ASSUME NEW n \in Nat
  PROVE  /\ Allowance(n) \in Nat
         /\ Allowance(n + 1) = Allowance(n) + Attempts["extract"]
BY AttemptsAreNumbers DEF Allowance

LEMMA WithinAllowance ==
  ASSUME OneInv, Charged
  PROVE  bills <= Allowance(retry_count + 1)
<1>1. /\ retry_count \in Nat
      /\ handler.tries \in Nat
      /\ bills \in Nat
  BY CountersAreNumbers DEF Charged
<1>2. /\ Allowance(retry_count) \in Nat
      /\ Attempts["extract"] \in Nat
      /\ Allowance(retry_count + 1)
           = Allowance(retry_count) + Attempts["extract"]
  BY <1>1, AllowanceGrows, AttemptsAreNumbers
<1>3. CASE handler.at = "extract"
  <2>1. handler.tries <= Attempts["extract"]
    BY <1>3 DEF OneInv, Counted, Calls
  <2>2. bills <= Allowance(retry_count) + handler.tries
    BY <1>3 DEF Charged
  <2> QED
    BY <1>1, <1>2, <2>1, <2>2
<1>4. CASE handler.at # "extract"
  BY <1>4 DEF Charged
<1> QED
  BY <1>3, <1>4

(* A batch begins with no attempt behind it and with one more retry, and   *)
(* no other step than a call of the provider goes on with it. *)
LEMMA BatchesBegin ==
  ASSUME OneInv, [Next]_vars, ~ProviderIsCalled
  PROVE  \/ UNCHANGED <<handler, retry_count>>
         \/ /\ handler'.at # "extract"
            /\ retry_count' \in {retry_count, retry_count + 1}
         \/ handler'.tries = 0 /\ retry_count' = retry_count + 1
<1>1. HandlerTypeOK
  BY DEF OneInv, OneTypeOK
<1>2. CASE \/ Store \/ BeginValidation \/ Validate \/ PostSucceeds \/ Confirm
           \/ DeadLetter \/ NoticeEnds \/ BeginAction \/ WorkerGivesUp
  <2>1. UNCHANGED retry_count
    BY <1>2
       DEF Store, BeginValidation, Validate, PostSucceeds, Confirm, DeadLetter,
           NoticeEnds, BeginAction, WorkerGivesUp, document
  <2>2. \E step \in {"begin validation", "validate", "idle", "confirm",
                    "notify", "post"} : Enter(step)
    BY <1>2
       DEF Store, BeginValidation, Validate, PostSucceeds, Confirm, DeadLetter,
           NoticeEnds, BeginAction, WorkerGivesUp
  <2>3. PICK step \in {"begin validation", "validate", "idle", "confirm",
                       "notify", "post"} : Enter(step)
    BY <2>2
  <2>4. handler'.at = step
    BY <2>3, Entered
  <2> QED
    BY <2>1, <2>3, <2>4
<1>3. CASE StoreRaises \/ DeadLetterRaises \/ DatabaseFault
  BY <1>1, <1>3, Aborted
     DEF StoreRaises, DeadLetterRaises, DatabaseFault, Abort
<1>4. CASE PostFails \/ FlushFails \/ SessionRefuses
  <2>1. Calling("post") /\ UNCHANGED retry_count
    BY <1>4 DEF PostFails, FlushFails, SessionRefuses, document
  <2>2. \E error : AttemptFails(error)
    BY <1>4 DEF PostFails, FlushFails, SessionRefuses
  <2>3. handler'.at = "post"
    BY <1>1, <2>1, <2>2, Failing DEF Calling
  <2> QED
    BY <2>1, <2>3
<1>5. CASE NoticeFails
  BY <1>1, <1>5, Failing DEF NoticeFails, Calling, document
<1>6. CASE WorkerResumes
  BY <1>6, Entered DEF WorkerResumes, CountRetry
<1>7. CASE StorageFails
  BY <1>7 DEF StorageFails, CountRetry, Stuck
<1>8. CASE \E r \in Reviewers : ReviewerSteps(r)
  BY <1>8
     DEF ReviewerSteps, OpenReview, LoadRow, Correct, CorrectFails,
         RejectReview, document
<1>9. CASE UNCHANGED vars
  BY <1>9 DEF vars, document
<1> QED
  BY <1>2, <1>3, <1>4, <1>5, <1>6, <1>7, <1>8, <1>9
     DEF ProviderIsCalled, Next, HandlerSteps, WorkerSteps

LEMMA CallsAreAttempts ==
  ASSUME OneInv, ProviderIsCalled
  PROVE  /\ handler.at = "extract"
         /\ UNCHANGED retry_count
         /\ \/ handler'.at = "extract" /\ handler'.tries = handler.tries + 1
            \/ handler'.at = "store" /\ handler.tries < Attempts["extract"]
<1>1. HandlerTypeOK
  BY DEF OneInv, OneTypeOK
<1>2. CASE ProviderAnswers
  BY <1>2, Entered DEF ProviderAnswers, Calling
<1>3. CASE ExtractionFails
  BY <1>1, <1>3, Failing DEF ExtractionFails, Calling
<1> QED
  BY <1>2, <1>3 DEF ProviderIsCalled

LEMMA ChargedKept ==
  ASSUME OneInv, Charged, [BilledStep]_<<vars, bills>>
  PROVE  Charged'
<1>1. /\ retry_count \in Nat
      /\ handler.tries \in Nat
      /\ bills \in Nat
      /\ Attempts["extract"] \in Nat
  BY CountersAreNumbers, AttemptsAreNumbers DEF Charged
<1>2. /\ Allowance(retry_count) \in Nat
      /\ Allowance(retry_count + 1)
           = Allowance(retry_count) + Attempts["extract"]
      /\ Allowance(retry_count + 1) \in Nat
      /\ Allowance(retry_count + 1 + 1)
           = Allowance(retry_count + 1) + Attempts["extract"]
  <2>1. retry_count + 1 \in Nat
    BY <1>1
  <2> QED
    BY <1>1, <2>1, AllowanceGrows
<1>3. bills <= Allowance(retry_count + 1)
  BY WithinAllowance
<1>4. CASE BilledStep /\ ProviderIsCalled
  <2>1. bills' = bills + 1
    BY <1>4 DEF BilledStep
  <2>2. bills <= Allowance(retry_count) + handler.tries
    BY <1>4, CallsAreAttempts DEF Charged
  <2>3. /\ UNCHANGED retry_count
        /\ \/ handler'.at = "extract" /\ handler'.tries = handler.tries + 1
           \/ handler'.at = "store" /\ handler.tries < Attempts["extract"]
    BY <1>4, CallsAreAttempts
  <2>4. CASE handler'.at = "extract" /\ handler'.tries = handler.tries + 1
    <3>1. bills + 1 <= Allowance(retry_count) + (handler.tries + 1)
      BY <1>1, <1>2, <2>2
    <3> QED
      BY <1>1, <2>1, <2>3, <2>4, <3>1 DEF Charged, Allowance
  <2>5. CASE handler'.at = "store" /\ handler.tries < Attempts["extract"]
    <3>1. bills + 1 <= Allowance(retry_count + 1)
      BY <1>1, <1>2, <2>2, <2>5
    <3> QED
      BY <1>1, <2>1, <2>3, <2>5, <3>1 DEF Charged, Allowance
  <2> QED
    BY <2>3, <2>4, <2>5
<1>5. CASE ~(BilledStep /\ ProviderIsCalled)
  <2>1. UNCHANGED bills
    BY <1>5 DEF BilledStep
  <2>2. [Next]_vars
    BY <1>5 DEF BilledStep
  <2>3. CASE UNCHANGED <<handler, retry_count>>
    BY <1>1, <2>1, <2>3 DEF Charged, Allowance
  <2>4. CASE ~ProviderIsCalled
    <3>1. CASE handler'.at # "extract" /\ retry_count' = retry_count
      BY <1>1, <1>3, <2>1, <3>1 DEF Charged, Allowance
    <3>2. CASE handler'.at # "extract" /\ retry_count' = retry_count + 1
      <4>1. bills <= Allowance(retry_count + 1 + 1)
        BY <1>1, <1>2, <1>3
      <4> QED
        BY <1>1, <2>1, <3>2, <4>1 DEF Charged, Allowance
    <3>3. CASE handler'.tries = 0 /\ retry_count' = retry_count + 1
      <4>1. /\ bills <= Allowance(retry_count + 1) + 0
            /\ bills <= Allowance(retry_count + 1 + 1)
        BY <1>1, <1>2, <1>3
      <4> QED
        BY <1>1, <2>1, <3>3, <4>1 DEF Charged, Allowance
    <3> QED
      BY <2>2, <2>3, <2>4, <3>1, <3>2, <3>3, BatchesBegin
  <2>5. CASE UNCHANGED <<vars, bills>>
    BY <2>3, <2>5 DEF vars, document
  <2> QED
    BY <1>5, <2>4, <2>5
<1> QED
  BY <1>4, <1>5

-----------------------------------------------------------------------------
(* The invariant holds whatever a provider answers, reviewers type and the *)
(* database refuses, with any numbers of attempts and of retries.          *)
THEOREM OneInvoiceInvariance == Spec => []OneInv
<1> QED
  BY OneInvInit, NextKeeps, PTL DEF Spec

(* Every column, in the table, in the ledger and on the row a reviewer has *)
(* loaded, holds a value of its SQL type, whatever a provider answered and *)
(* a reviewer typed, and none that is too wide for it. *)
THEOREM ColumnsAreTyped == Spec => []ColumnsTypeOK
<1>1. ASSUME OneInv, NEW r \in Reviewers
      PROVE  IF desk[r].at = "loaded" THEN IsRow(desk[r].row)
                                      ELSE desk[r].row = None
  BY <1>1, RowsAreRows DEF OneInv, OneTypeOK, DocumentTypeOK, Loaded
<1>2. OneInv => ColumnsTypeOK
  BY <1>1, RowsAreRows
     DEF OneInv, OneTypeOK, DocumentTypeOK, HandlerTypeOK, Columned, Entries,
         ColumnsTypeOK
<1> QED
  BY <1>2, OneInvoiceInvariance, PTL

(* An invoice the rules let through without a person can be posted.        *)
THEOREM UntouchedCanBePosted == Spec => []UntouchedIsPayable
<1>1. ASSUME OneInv, phase \in {"VALIDATED", "ACTIONED"}, events = {}
      PROVE  /\ Payable
             /\ \A c \in KeyColumns : row[c] # None
  <2>1. Passes(row)
    BY <1>1 DEF OneInv, Columned
  <2>2. \A c \in REQUIRED_FIELDS : row[c] # None
    BY <2>1 DEF Passes
  <2>3. row \in Rows
    BY <1>1 DEF OneInv, OneTypeOK, DocumentTypeOK, Columned
  <2>4. RulesPass(Reading(row))
    BY <2>1, <2>3, RowsAreRows, RulesOnReading DEF RulesDecideAlike
  <2>5. \A c \in KeyColumns : row[c] # None
    BY <2>2, Columns DEF KeyColumns
  <2>6. Payable
    BY <2>4 DEF Payable, Postable, RulesPass
  <2> QED
    BY <2>5, <2>6
<1>2. OneInv => UntouchedIsPayable
  BY <1>1 DEF UntouchedIsPayable
<1> QED
  BY <1>2, OneInvoiceInvariance, PTL

(* Every value of the row and of the ledger entry was extracted or is the  *)
(* corrected value of a review event, however many reviewers loaded the    *)
(* row and whatever their requests correct. *)
THEOREM TrailIsComplete == Spec => []ValuesAccountedFor
<1>1. OneInv => ValuesAccountedFor
  BY DEF OneInv
<1> QED
  BY <1>1, OneInvoiceInvariance, PTL

(* A dead letter names the failure, not the session it broke.              *)
THEOREM ReasonsAreCauses == Spec => []ReasonIsTheCause
<1>1. OneInv => ReasonIsTheCause
  BY DEF OneInv
<1> QED
  BY <1>1, OneInvoiceInvariance, PTL

(* One entry at most on the mock ledger, and one for each attempt of each  *)
(* handler on an external one; one at least once the action is confirmed.  *)
THEOREM LedgerIsBounded == Spec => []PayablesBounded
<1>1. ASSUME OneInv
      PROVE  PayablesBounded
  <2>1. Budget(retry_count + 1) = Attempts["post"] * (1 + retry_count)
    BY <1>1, CountersAreNumbers, AttemptsAreNumbers DEF Budget
  <2>2. accounting = "external" => payables <= Budget(retry_count + 1)
    BY <1>1, WithinBudget
  <2>3. accounting = "none" => payables <= Budget(retry_count + 1)
    <3>1. accounting = "none" => payables = 0
      BY <1>1 DEF OneInv, Entries
    <3>2. Budget(retry_count + 1) \in Nat
      BY <1>1, CountersAreNumbers, BudgetGrows
    <3> QED
      BY <3>1, <3>2
  <2>4. accounting \in {"none", "mock", "external"}
    BY <1>1 DEF OneInv, OneTypeOK, DocumentTypeOK
  <2> QED
    BY <1>1, <2>1, <2>2, <2>3, <2>4 DEF OneInv, Entries, PayablesBounded
<1> QED
  BY <1>1, OneInvoiceInvariance, PTL

(* The provider is called at most retry_attempts times for the upload and  *)
(* for each retry committed, whatever raises and whoever recovers. *)
THEOREM BillIsBounded == BilledSpec => []BillBounded
<1>1. BilledInit => OneInv /\ Charged
  <2>1. ASSUME BilledInit
        PROVE  Charged
    <3>1. handler.at = "extract" /\ handler.tries = 0
      BY <2>1 DEF BilledInit, Init, Fresh
    <3>2. bills = 0 /\ retry_count = 0
      BY <2>1 DEF BilledInit, Init
    <3>3. Allowance(0) \in Nat
      BY AllowanceGrows
    <3>4. 0 <= Allowance(0) + 0
      BY <3>3
    <3> QED
      BY <3>1, <3>2, <3>4 DEF Charged
  <2> QED
    BY <2>1, OneInvInit DEF BilledInit
<1>2. OneInv /\ Charged /\ [BilledStep]_<<vars, bills>>
      => (OneInv /\ Charged)'
  <2>1. [BilledStep]_<<vars, bills>> => [Next]_vars
    BY DEF BilledStep
  <2> QED
    BY <2>1, NextKeeps, ChargedKept
<1>3. OneInv /\ Charged => BillBounded
  <2>1. ASSUME OneInv, Charged
        PROVE  BillBounded
    <3>1. Allowance(retry_count + 1) = Attempts["extract"] * (1 + retry_count)
      BY <2>1, CountersAreNumbers, AttemptsAreNumbers DEF Allowance
    <3> QED
      BY <2>1, <3>1, WithinAllowance DEF BillBounded
  <2> QED
    BY <2>1
<1> QED
  BY <1>1, <1>2, <1>3, PTL DEF BilledSpec

(* The pipeline's rules and comparison, on the reading of a row, decide as *)
(* the rules and the comparison on the columns of every row the document   *)
(* ever has. *)
THEOREM ReadingsAreExact == Spec => []ReadingDecidesAlike
<1>1. ASSUME OneInv, phase \in {"EXTRACTED", "VALIDATED"}
      PROVE  /\ RulesDecideAlike(row)
             /\ \A answer \in Annotations :
                  ComparesAlike(row, FromProvider(answer))
  <2>1. row \in Rows
    BY <1>1 DEF OneInv, OneTypeOK, DocumentTypeOK, Columned
  <2>2. IsRow(row)
    BY <2>1, RowsAreRows
  <2>3. ASSUME NEW answer \in Annotations
        PROVE  IsRow(FromProvider(answer))
    BY ProvidedIsRow, RowsAreRows
  <2> QED
    BY <2>2, <2>3, RulesOnReading, ComparisonOnReadings
<1>2. OneInv => ReadingDecidesAlike
  BY <1>1 DEF ReadingDecidesAlike
<1> QED
  BY <1>2, OneInvoiceInvariance, PTL

(* The delays of a batch double and none follows the last attempt, for any *)
(* number of attempts. *)
THEOREM DelaysDouble == Spec => []SleptBetweenAttempts
<1>1. Init => SleptBetweenAttempts
  BY Powers, AttemptsAreNumbers DEF Init, Fresh, SleptBetweenAttempts
<1>2. OneInv /\ SleptBetweenAttempts /\ [Next]_vars => SleptBetweenAttempts'
  BY Slept
<1> QED
  BY <1>1, <1>2, OneInvoiceInvariance, PTL DEF Spec

(* So a batch of n attempts never sleeps 2^(n-1) base delays.              *)
SleepBounded ==
  handler.at \in Calls => handler.slept < PowerOfTwo[Attempts[handler.at] - 1]

THEOREM SleepIsBounded == Spec => []SleepBounded
<1>1. ASSUME OneInv, SleptBetweenAttempts, handler.at \in Calls
      PROVE  handler.slept < PowerOfTwo[Attempts[handler.at] - 1]
  <2> DEFINE k == handler.tries
             most == Attempts[handler.at]
  <2>1. /\ k \in Nat
        /\ most \in Nat
        /\ most # 0
        /\ k <= most
    BY <1>1, AttemptsArePositive
       DEF OneInv, OneTypeOK, HandlerTypeOK, Counted
  <2>2. handler.slept = (IF k = most THEN PowerOfTwo[k - 1]
                                     ELSE PowerOfTwo[k]) - 1
    BY <1>1 DEF SleptBetweenAttempts
  <2> HIDE DEF k, most
  <2>3. most - 1 \in Nat /\ PowerOfTwo[most - 1] \in Nat
    BY <2>1, Powers
  <2>4. CASE k = most
    BY <2>2, <2>3, <2>4 DEF most
  <2>5. CASE k # most
    <3>1. k <= most - 1
      BY <2>1, <2>5
    <3>2. PowerOfTwo[k] <= PowerOfTwo[most - 1] /\ PowerOfTwo[k] \in Nat
      BY <2>1, <2>3, <3>1, Powers, PowersGrow
    <3> QED
      BY <2>2, <2>3, <2>5, <3>2 DEF most
  <2> QED
    BY <2>4, <2>5
<1>2. OneInv /\ SleptBetweenAttempts => SleepBounded
  BY <1>1 DEF SleepBounded
<1> QED
  BY <1>2, OneInvoiceInvariance, DelaysDouble, PTL

(* The vendor suggested is the first of the most alike, for any list of    *)
(* vendors and any similarity. *)
THEOREM BestMatchIsFirst == Spec => []MatchIsFirstBest
<1>1. ASSUME OneInv,
             phase \in {"EXTRACTED", "VALIDATED"},
             row["vendor_name"] \notin {None, Blank}
      PROVE  LET name == row["vendor_name"]
                 best == FindBestMatch(name, Vendors).vendor
                 likeness(i) == Likeness(name, Vendors[i])
             IN \/ \E i \in DOMAIN Vendors :
                     /\ best = Vendors[i]
                     /\ likeness(i) > 0
                     /\ \A j \in DOMAIN Vendors :
                          /\ likeness(j) <= likeness(i)
                          /\ j < i => likeness(j) < likeness(i)
                \/ best = None /\ \A i \in DOMAIN Vendors : likeness(i) = 0
  <2>1. row \in Rows
    BY <1>1 DEF OneInv, OneTypeOK, DocumentTypeOK, Columned
  <2>2. row["vendor_name"] \in Texts
    BY <2>1, <1>1, RowsAreRows DEF IsRow, TextColumns
  <2>3. DOMAIN Vendors = 1 .. Len(Vendors)
    BY TextsAreWellFormed
  <2> DEFINE name == row["vendor_name"]
  <2> HIDE DEF name
  <2>4. FirstBest(name, FindBestMatch(name, Vendors), Len(Vendors))
    BY <2>2, MatchesAreFirstBest DEF name
  <2>5. CASE /\ FindBestMatch(name, Vendors) = NoMatch
             /\ \A i \in 1 .. Len(Vendors) : Likeness(name, Vendors[i]) = 0
    BY <2>3, <2>5 DEF name, NoMatch
  <2>6. CASE \E i \in 1 .. Len(Vendors) :
               /\ FindBestMatch(name, Vendors).vendor = Vendors[i]
               /\ FindBestMatch(name, Vendors).score =
                    Likeness(name, Vendors[i])
               /\ FindBestMatch(name, Vendors).score > 0
               /\ \A j \in 1 .. Len(Vendors) :
                    /\ Likeness(name, Vendors[j])
                         <= FindBestMatch(name, Vendors).score
                    /\ j < i => Likeness(name, Vendors[j])
                                  < FindBestMatch(name, Vendors).score
    BY <2>3, <2>6 DEF name
  <2> QED
    BY <2>4, <2>5, <2>6 DEF FirstBest
<1>2. OneInv => MatchIsFirstBest
  BY <1>1 DEF MatchIsFirstBest
<1> QED
  BY <1>2, OneInvoiceInvariance, PTL

(* The work on an invoice is bounded: however calls fail and the database  *)
(* raises, every step but a reviewer's takes something from it, and those  *)
(* add nothing. *)
THEOREM WorkIsBounded == Spec => WorkRunsOut
<1> DEFINE Step ==
             /\ WorkLeft' \in 0 .. WorkLeft
             /\ WorkLeft' < WorkLeft \/ UNCHANGED <<handler, retry_count>>
<1>1. ASSUME OneInv, Next
      PROVE  Step
  <2>1. CASE HandlerSteps
    <3>1. CASE StoreRaises \/ DeadLetterRaises
      BY <1>1, <3>1, AbortShortens, ShortensLeavesLess
         DEF StoreRaises, DeadLetterRaises, Exhausted, LeavesLess
    <3>2. CASE ~(StoreRaises \/ DeadLetterRaises)
      BY <1>1, <2>1, <3>2, FailureShortens, NextStepShortens,
         ShortensLeavesLess
         DEF HandlerSteps, LeavesLess
    <3> QED
      BY <3>1, <3>2
  <2>2. CASE WorkerSteps
    BY <1>1, <2>2, RecoveryLeavesLess, GivingUpLeavesLess
       DEF WorkerSteps, LeavesLess
  <2>3. CASE BeginAction
    BY <1>1, <2>3, ActionLeavesLess DEF LeavesLess
  <2>4. CASE DatabaseFault
    BY <1>1, <2>4, AbortShortens, ShortensLeavesLess
       DEF DatabaseFault, LeavesLess
  <2>5. CASE \E r \in Reviewers : ReviewerSteps(r)
    BY <1>1, <2>5, ReviewerAddsNothing
  <2> QED
    BY <1>1, <2>1, <2>2, <2>3, <2>4, <2>5 DEF Next
<1>2. OneInv /\ [Next]_vars => [Step]_vars
  BY <1>1
<1> QED
  BY <1>2, OneInvoiceInvariance, PTL DEF Spec, WorkRunsOut
=============================================================================
