------------------------- MODULE SignedFilesProofs --------------------------
(***************************************************************************)
(* How long a signed link lives, for every expiry, every history of keys   *)
(* and every number of links.                                              *)
(***************************************************************************)
EXTENDS SignedFiles, TLAPS

LinkOK(link) ==
  /\ link.at \in Nat
  /\ link.expires = link.at \div 2 + ExpiresIn
  /\ link.signature = Signature(link.path, link.expires, link.key)

(* Every link carries the expiry and the signature of the moment and the   *)
(* key it was handed out with. *)
LinksOK == clock \in Nat /\ \A link \in links : LinkOK(link)

Lifetimes == LinksOK /\ ServedInTime /\ RefusedWithCause

LEMMA Rounding ==
  ASSUME NEW s \in Nat, NEW n \in Nat, ExpiresIn \in Nat
  PROVE  /\ s \div 2 + ExpiresIn >= n \div 2 => n - s < 2 * (ExpiresIn + 1)
         /\ s \div 2 + ExpiresIn < n \div 2 => n - s > 2 * ExpiresIn
OBVIOUS

LEMMA Start ==
  Init => Lifetimes
BY DEF Init, Lifetimes, LinksOK, ServedInTime, RefusedWithCause

LEMMA FetchKeeps ==
  ASSUME ExpiresIn \in Nat, Lifetimes, NEW link \in links, GetFile(link)
  PROVE  Lifetimes'
<1> DEFINE f == [link |-> link, at |-> clock, key |-> secret,
                 outcome |-> IF VerifySignedUrl(link) THEN "served"
                                                      ELSE "refused"]
<1>1. fetches' = fetches \cup {f} /\ UNCHANGED <<clock, secret, links>>
  BY DEF GetFile
<1>2. LinkOK(link) /\ clock \in Nat
  BY DEF Lifetimes, LinksOK
<1>3. /\ link.at \div 2 + ExpiresIn >= Now
           => clock - link.at < 2 * (ExpiresIn + 1)
      /\ link.at \div 2 + ExpiresIn < Now => clock - link.at > 2 * ExpiresIn
  BY <1>2, Rounding DEF LinkOK, Now
<1>4. Now \in Int /\ link.expires \in Int
  BY <1>2 DEF LinkOK, Now
<1>5. Signature(link.path, link.expires, secret) = link.signature
        <=> secret = link.key
  BY <1>2 DEF LinkOK, Signature
<1>6. f.outcome = "served" =>
        f.key = f.link.key /\ f.at - f.link.at < 2 * (ExpiresIn + 1)
  BY <1>2, <1>3, <1>4, <1>5 DEF VerifySignedUrl, LinkOK
<1>7. f.outcome = "refused" =>
        f.key # f.link.key \/ f.at - f.link.at > 2 * ExpiresIn
  BY <1>2, <1>3, <1>4, <1>5 DEF VerifySignedUrl, LinkOK
<1>8. LinksOK'
  BY <1>1 DEF Lifetimes, LinksOK, LinkOK
<1>9. ServedInTime'
  BY <1>1, <1>6 DEF Lifetimes, ServedInTime
<1>10. RefusedWithCause'
  BY <1>1, <1>7 DEF Lifetimes, RefusedWithCause
<1> QED BY <1>8, <1>9, <1>10 DEF Lifetimes

LEMMA SignKeeps ==
  ASSUME ExpiresIn \in Nat, Lifetimes, NEW path \in Paths, SignUrl(path)
  PROVE  Lifetimes'
<1>1. LinksOK'
  BY DEF Lifetimes, LinksOK, LinkOK, SignUrl, Now
<1>2. ServedInTime' /\ RefusedWithCause'
  BY DEF Lifetimes, ServedInTime, RefusedWithCause, SignUrl
<1> QED BY <1>1, <1>2 DEF Lifetimes

LEMMA StepKeeps ==
  ASSUME ExpiresIn \in Nat, Lifetimes, [Next]_vars
  PROVE  Lifetimes'
<1>1. CASE \E path \in Paths : SignUrl(path)
  BY <1>1, SignKeeps
<1>2. CASE \E link \in links : GetFile(link)
  BY <1>2, FetchKeeps
<1>3. CASE Tick
  BY <1>3 DEF Tick, Lifetimes, LinksOK, LinkOK, ServedInTime,
              RefusedWithCause
<1>4. CASE Restart
  BY <1>4 DEF Restart, Lifetimes, LinksOK, LinkOK, ServedInTime,
              RefusedWithCause
<1>5. CASE UNCHANGED vars
  BY <1>5 DEF vars, Lifetimes, LinksOK, LinkOK, ServedInTime,
              RefusedWithCause
<1> QED BY <1>1, <1>2, <1>3, <1>4, <1>5 DEF Next

(* storage.py: a signed URL is short-lived.  A link that is served is      *)
(* younger than expires_in plus one second, and one that is refused under  *)
(* its own key is older than expires_in. *)
THEOREM LinkLifetime ==
  ASSUME ExpiresIn \in Nat
  PROVE  Spec => [](ServedInTime /\ RefusedWithCause)
<1>1. Init => Lifetimes
  BY Start
<1>2. Lifetimes /\ [Next]_vars => Lifetimes'
  BY StepKeeps
<1>3. Lifetimes => ServedInTime /\ RefusedWithCause
  BY DEF Lifetimes
<1> QED BY <1>1, <1>2, <1>3, PTL DEF Spec
=============================================================================
