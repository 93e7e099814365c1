---------------------------- MODULE SignedFiles -----------------------------
(***************************************************************************)
(* The links by which a reviewer's browser fetches the original file.      *)
(* Every answer of the review endpoints signs a new one; the signature     *)
(* covers the path and the expiry and is keyed with the process's secret,  *)
(* and both it and the expiry are checked when the link is used.           *)
(*                                                                         *)
(* The clock counts half seconds, so that the code's int(time.time())      *)
(* rounds; the HMAC is modelled by what it is a function of.               *)
(***************************************************************************)
EXTENDS Integers

CONSTANTS
  Paths,       \* storage paths of the stored documents
  Secrets,     \* values APP_SECRET_KEY has had
  ExpiresIn    \* expires_in, in seconds

VARIABLES
  clock,     \* half seconds
  secret,    \* key of the running process
  links,     \* links handed out: path, expiry, signature, and when
  fetches    \* uses of a link: the link, when, the key, and the outcome

vars == <<clock, secret, links, fetches>>

Signature(path, expires, key) == <<path, expires, key>>

Now == clock \div 2

Init ==
  /\ clock = 0
  /\ secret \in Secrets
  /\ links = {}
  /\ fetches = {}

SignUrl(path) ==
  /\ links' = links \cup
       {[path      |-> path,
         expires   |-> Now + ExpiresIn,
         signature |-> Signature(path, Now + ExpiresIn, secret),
         at        |-> clock,
         key       |-> secret]}
  /\ UNCHANGED <<clock, secret, fetches>>

VerifySignedUrl(link) ==
  /\ ~(link.expires < Now)
  /\ Signature(link.path, link.expires, secret) = link.signature

GetFile(link) ==
  /\ fetches' = fetches \cup
       {[link |-> link, at |-> clock, key |-> secret,
         outcome |-> IF VerifySignedUrl(link) THEN "served" ELSE "refused"]}
  /\ UNCHANGED <<clock, secret, links>>

Tick ==
  /\ clock' = clock + 1
  /\ UNCHANGED <<secret, links, fetches>>

(* The process is started again, possibly with another key. *)
Restart ==
  /\ secret' \in Secrets
  /\ UNCHANGED <<clock, links, fetches>>

Next ==
  \/ \E path \in Paths : SignUrl(path)
  \/ \E link \in links : GetFile(link)
  \/ Tick
  \/ Restart

Spec == Init /\ [][Next]_vars

-----------------------------------------------------------------------------
(* A link opens its file under the key that signed it and not a second     *)
(* longer than expires_in after it was handed out, rounding included. *)
ServedInTime ==
  \A f \in fetches :
    f.outcome = "served" =>
      /\ f.key = f.link.key
      /\ f.at - f.link.at < 2 * (ExpiresIn + 1)

(* Nobody is turned away early: what is refused is signed with another key *)
(* or is more than expires_in old. *)
RefusedWithCause ==
  \A f \in fetches :
    f.outcome = "refused" =>
      \/ f.key # f.link.key
      \/ f.at - f.link.at > 2 * ExpiresIn
=============================================================================
