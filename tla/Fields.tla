------------------------------- MODULE Fields -------------------------------
(***************************************************************************)
(* The header columns of an extraction: how a provider's answer and a      *)
(* reviewer's correction become column values, the rules and the duplicate *)
(* comparison on columns, and the reading the pipeline makes of a row.     *)
(*                                                                         *)
(* A raw value is a text, a date, an amount, Blank (empty or white space), *)
(* NaN (which float() accepts) or None.  Amounts are in cents.             *)
(* rapidfuzz's ratio is the constant Score on normalised names.            *)
(***************************************************************************)
EXTENDS InvoiceData, Sequences

CONSTANTS
  Texts,
  Dates,
  Long,              \* pairs: a column and a value too wide for it
  Blank, NaN,
  Normal,            \* text -> its normal form
  Score,             \* pair of normal forms -> 0 .. 100
  Vendors            \* names of the vendors on file, in order

ASSUME TextsAreWellFormed ==
  /\ Normal \in [Texts \cup {Blank} -> Texts \cup {Blank}]
  /\ Vendors \in Seq(Texts)

ASSUME ScoresAreWellFormed ==
  Score \in [(Texts \cup {Blank}) \X (Texts \cup {Blank}) -> 0 .. 100]

ASSUME NoneIsNoTriple ==
  None \notin (Texts \cup {Blank}) \X (Texts \cup {Blank}) \X Dates

ASSUME NaNIsNoAmount == NaN \notin Amounts /\ NaN # None /\ None \notin Amounts

MATCH_THRESHOLD == 85

NumericColumns == {"subtotal", "tax", "total"}

DateColumns == {"invoice_date", "due_date"}

TextColumns == {"vendor_name", "invoice_number", "currency"}

EXTRACTED_FIELDS == NumericColumns \cup DateColumns \cup TextColumns

Numbers == Amounts \cup {NaN}

IsRow(x) ==
  /\ DOMAIN x = EXTRACTED_FIELDS
  /\ \A c \in NumericColumns : x[c] \in Numbers \cup {None}
  /\ \A c \in DateColumns : x[c] \in Dates \cup {None}
  /\ \A c \in TextColumns : x[c] \in Texts \cup {Blank, None}

-----------------------------------------------------------------------------
(* Values of a column.                                                     *)

(* build_extraction_result: what is not a number or a date becomes NULL,   *)
(* a text is kept as it is. *)
FromProvider(annotation) ==
  [c \in EXTRACTED_FIELDS |->
     CASE c \in NumericColumns /\ annotation[c] \notin Numbers -> None
       [] c \in DateColumns /\ annotation[c] \notin Dates      -> None
       [] OTHER -> annotation[c]]

(* parse_corrected_value: what is not a number or a date is refused. *)
Refused(c, raw) ==
  \/ c \notin EXTRACTED_FIELDS
  \/ /\ raw \notin {None, Blank}
     /\ \/ c \in NumericColumns /\ raw \notin Numbers
        \/ c \in DateColumns /\ raw \notin Dates

Parsed(c, raw) == IF raw = Blank THEN None ELSE raw

(* The widths of String(3), String(128), String(512) and Numeric(12, 2).   *)
Fits(row) == \A c \in EXTRACTED_FIELDS : <<c, row[c]>> \notin Long

-----------------------------------------------------------------------------
(* Vendor matching: the first of the best, if it is good enough.           *)

Likeness(name, vendor) == Score[<<Normal[name], Normal[vendor]>>]

NoMatch == [vendor |-> None, score |-> 0]

(* Fault: the last of the best. *)
NoFarther(name, best, vendor) ==
  IF Likeness(name, vendor) >= best.score
  THEN [vendor |-> vendor, score |-> Likeness(name, vendor)]
  ELSE best

Nearer(name, best, vendor) ==
  IF Likeness(name, vendor) > best.score
  THEN [vendor |-> vendor, score |-> Likeness(name, vendor)]
  ELSE best

(* The best of the first n vendors, for each n the loop goes through.      *)
Matches(name, known) ==
  LET best[n \in 0 .. Len(known)] ==
        IF n = 0 THEN NoMatch ELSE Nearer(name, best[n - 1], known[n])
  IN best

FindBestMatch(name, known) == Matches(name, known)[Len(known)]

VendorKnown(name) ==
  /\ name \notin {None, Blank}
  /\ FindBestMatch(name, Vendors).score >= MATCH_THRESHOLD

-----------------------------------------------------------------------------
(* The rules of validation.                                                *)

(* Fault: the currency is not required. *)
REQUIRED_FIELDS_Forgetful == EXTRACTED_FIELDS \ {"due_date", "currency"}

REQUIRED_FIELDS == EXTRACTED_FIELDS \ {"due_date"}

(* A comparison with NaN is false, so its difference exceeds nothing. *)
Balanced(row) ==
  /\ \A c \in NumericColumns : row[c] # None
  /\ (\A c \in NumericColumns : row[c] # NaN)
       => Within(row["subtotal"] + row["tax"], row["total"])

Passes(row) ==
  /\ \A c \in REQUIRED_FIELDS : row[c] # None
  /\ Balanced(row)
  /\ VendorKnown(row["vendor_name"])

-----------------------------------------------------------------------------
(* The content comparison of two rows.                                     *)

KeyColumns == {"vendor_name", "invoice_number", "total", "invoice_date"}

(* Fault: the vendor's name is compared as it was read. *)
ContentDuplicateVerbatim(x, y) ==
  /\ \A c \in KeyColumns : x[c] # None /\ y[c] # None
  /\ x["vendor_name"] = y["vendor_name"]
  /\ Normal[x["invoice_number"]] = Normal[y["invoice_number"]]
  /\ NaN \in {x["total"], y["total"]} \/ Within(x["total"], y["total"])
  /\ x["invoice_date"] = y["invoice_date"]

ContentDuplicate(x, y) ==
  /\ \A c \in KeyColumns : x[c] # None /\ y[c] # None
  /\ Normal[x["vendor_name"]] = Normal[y["vendor_name"]]
  /\ Normal[x["invoice_number"]] = Normal[y["invoice_number"]]
  /\ NaN \in {x["total"], y["total"]} \/ Within(x["total"], y["total"])
  /\ x["invoice_date"] = y["invoice_date"]

(* What the pipeline sees of a row. *)
Reading(row) ==
  [invoice  |-> IF \E c \in KeyColumns \ {"total"} : row[c] = None
                THEN None
                ELSE <<Normal[row["vendor_name"]],
                       Normal[row["invoice_number"]], row["invoice_date"]>>,
   total    |-> row["total"],
   currency |-> row["currency"] # None,
   clean    |-> Balanced(row) /\ VendorKnown(row["vendor_name"])]

(* The rules decide on the reading as on the columns. *)
RulesDecideAlike(x) == Passes(x) <=> RulesPass(Reading(x))

(* The comparison decides on the readings as on the columns, if both       *)
(* totals are numbers: a comparison with NaN matches every total. *)
ComparesAlike(x, y) ==
  NaN \notin {x["total"], y["total"]} =>
    (ContentDuplicate(x, y) <=> SameInvoice(Reading(x), Reading(y)))
=============================================================================
