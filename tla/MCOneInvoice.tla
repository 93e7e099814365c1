---------------------------- MODULE MCOneInvoice ----------------------------
(***************************************************************************)
(* Values for the constants of one invoice in detail.  Amounts are cents,  *)
(* the tolerance is two of them as in the code; "Acme." normalises to      *)
(* "Acme", "Acmee" is close enough to it and "Axme" is not.                *)
(***************************************************************************)
EXTENDS OneInvoiceInvariant

CONSTANTS Acme, AcmeDot, Acmee, Axme, USD, Dollars, INV, inv, Mon, Tue

(* 0.10 - 0.08 exceeds 0.02 in binary, 0.12 - 0.10 does not. *)
MCRoundsOver == {<<8, 10>>, <<10, 8>>}

Names == {Acme, AcmeDot, Acmee, Axme}

MCTexts == Names \cup {USD, Dollars, INV, inv}

MCNormal ==
  [t \in MCTexts \cup {Blank} |->
     CASE t = AcmeDot -> Acme
       [] t = INV     -> inv
       [] OTHER       -> t]

(* Similarity to the two names on file; the first two score the same. *)
MCVendors == <<Acmee, Acme>>

Close == {<<Acme, Acmee>>, <<Acmee, Acme>>}

MCScore ==
  [p \in (MCTexts \cup {Blank}) \X (MCTexts \cup {Blank}) |->
     CASE p[1] = p[2]                             -> 100
       [] p \in Close                             -> 89
       [] p[1] = Axme /\ p[2] \in {Acme, Acmee}   -> 75
       [] OTHER                                   -> 0]

MCAttempts == [call \in Calls |-> IF call = "notify" THEN 2 ELSE 3]

(* A name of a currency, and an amount of eleven digits.                   *)
MCLong == {<<"currency", Dollars>>, <<"total", 99>>}

Good == [c \in EXTRACTED_FIELDS |->
           CASE c = "vendor_name"    -> Acme
             [] c = "invoice_number" -> inv
             [] c = "currency"       -> USD
             [] c = "subtotal"       -> 8
             [] c = "tax"            -> 2
             [] c = "total"          -> 10
             [] c \in DateColumns    -> Mon]

(* What a provider may get wrong of one column: leave it out, answer with  *)
(* the wrong kind of value, or read it slightly differently. *)
Slips(c) ==
  CASE c = "vendor_name"       -> {None, Blank, AcmeDot, Acmee, Axme}
    [] c = "invoice_number"    -> {None, Blank, INV}
    [] c = "currency"          -> {None, Dollars}
    [] c = "invoice_date"      -> {None, Tue, USD}
    [] c = "due_date"          -> {None, USD}
    [] c = "total"             -> {None, NaN, USD, 8, 12, 13, 99}
    [] c \in {"subtotal", "tax"} -> {None, NaN}

OneSlip ==
  {Good} \cup
    UNION {{[Good EXCEPT ![c] = v] : v \in Slips(c)} : c \in EXTRACTED_FIELDS}

(* No value, one, several, the same amount again, one good and one bad,    *)
(* values that are too wide, and a currency emptied. *)
SomeRequests ==
  {<<>>,
   <<<<"total", NaN>>>>,
   <<<<"currency", USD>>, <<"vendor_name", Acme>>>>,
   <<<<"currency", Dollars>>>>,
   <<<<"total", 99>>>>,
   <<<<"currency", Blank>>>>,
   <<<<"total", 12>>, <<"total", 10>>>>,
   <<<<"vendor_name", AcmeDot>>, <<"invoice_date", USD>>>>,
   <<<<"iban", USD>>>>}

(* One invoice whose number was not found, and the reviewer who fills it   *)
(* in and empties the currency by mistake. *)
NoNumber == {[Good EXCEPT !["invoice_number"] = None]}

FillNumber == {<<<<"invoice_number", inv>>, <<"currency", Blank>>>>}
=============================================================================
