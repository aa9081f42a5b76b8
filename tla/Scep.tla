-------------------------------- MODULE Scep --------------------------------
(***************************************************************************)
(* What pki_operation of src/http/scep.rs makes of a message before its    *)
(* first await, as the handlers of Enrolment see it: how far a message     *)
(* gets, and what it is answered with if that is not far enough.  Exchange *)
(* derives the same from the checks on the message itself.                 *)
(***************************************************************************)
EXTENDS Repo

CONSTANT PrintableTxns   \* transaction ids that fit an ASN.1 PrintableString

\* How far pki_operation gets with a message before the first await.
Bodies == {"malformed",    \* not a verifiable SCEP message: HTTP 400
           "unreadable",   \* the signer's key is not an RSA key, or what
                           \* was signed is not an EnvelopedData: HTTP 500
           "otherType",    \* a message type other than an enrolment: HTTP 400
           "noEnvelope",   \* an enrolment without an envelope: HTTP 400
           "unopenable",   \* an envelope that does not open to a CSR
           "csr"}          \* an envelope that holds a well-formed CSR

Passwords == {"right", "wrong", "absent"}

\* issuable: the CA can build a certificate from the CSR (its SAN and key
\* parse).  sealable: a reply can be encrypted to the sender's key.
Message(names) == [profile : names, txn : Txns, body : Bodies, pw : Passwords,
                   issuable : BOOLEAN, sealable : BOOLEAN]

Failures == {"BadMessageCheck", "BadRequest"}             \* signed CertReps
Replies  == Failures \cup {"Success", "Http400", "Http404", "Http500"}

\* Both kinds of CertRep carry the transaction id as a PrintableString; an
\* id that was readable but is not printable makes the reply an AppError.
CertRep(m, answer) == IF m.txn \in PrintableTxns THEN answer ELSE "Http500"

\* The replies that need no await; "none" lets the request go on.
EarlyReply(m) ==
  CASE m.profile \notin Profiles -> "Http404"
    [] m.profile \in Profiles /\ m.body \in {"malformed", "otherType", "noEnvelope"} -> "Http400"
    [] m.profile \in Profiles /\ m.body = "unreadable" -> "Http500"
    [] m.profile \in Profiles /\ m.body = "unopenable" -> CertRep(m, "BadMessageCheck")
    [] m.profile \in Profiles /\ m.body = "csr" -> "none"
=============================================================================
