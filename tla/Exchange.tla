------------------------------ MODULE Exchange ------------------------------
(***************************************************************************)
(* Devices and the server exchange SCEP messages: a device fetches the     *)
(* capabilities and a CA certificate, sends signed and sealed requests     *)
(* over connections that may damage or mix up what they carry, or break,   *)
(* tries again, and reads the answers; the server makes certificates.      *)
(*                                                                         *)
(* The server's part is the whole of pki_operation in one step: its awaits *)
(* and what they share are the subject of Enrolment, and here a validator  *)
(* may return either verdict.  The device is external; its steps are those *)
(* of the device in src/roundtrip.rs and of the client in README.md.       *)
(***************************************************************************)
EXTENDS ScepMessage

CONSTANTS
  Devices,
  Cert,         \* Cert[c]: the certificate of the CA c
  CaOf,         \* CaOf[p]: the CA of the profile p
  Options,      \* Options[p]: what the profile p puts into certificates
  Orders,       \* Orders[d]: what d may ask for, and how it writes it down
  Today,        \* the day of all issuing
  Draws,        \* random bytes of a serial number
  Sans,         \* subject alternative names
  MaxRequests   \* bound: requests of all devices

\* An order: the self-signed or earlier certificate that the client signs
\* with, the type, the transaction, the digest, the content cipher, how the
\* recipients are written (see Recipients), and the CSR.
Ways == {"named", "ski", "stranger", "strangers", "second", "first", "misfit", "foreign",
         "hollow"}

ASSUME DaysAssumption ==
  /\ Today \in Nat /\ LastDay \in Nat
  /\ \A p \in Profiles : Options[p].validity_days \in Nat
ASSUME BoundAssumption == MaxRequests \in Nat
ASSUME DrawsAssumption == Draws \subseteq [1..SerialBytes -> 0..(Base - 1)]
ASSUME CaOfAssumption == CaOf \in [Profiles -> CAs]
\* Values that can be written are there and decode.
ASSUME ValuesAssumption == {Nothing, Noise} \cap (PrintableTxns \cup {ServerNonce}) = {}
ASSUME OrdersAssumption ==
  \A d \in Devices : \A o \in Orders[d] :
    /\ o.way \in Ways
    /\ o.plain \in {Nothing, Noise} \/ o.plain.requests \in Seq({Noise} \cup Seq(Sans))

VARIABLES
  state,     \* state[d]: where the device d stands
  anchor,    \* anchor[d]: the CA certificate it seals to
  order,     \* order[d]: what it asks for
  attempt,   \* attempt[d]: the number, and nonce, of its last request
  posted,    \* posted[d]: the profile of its last request
  request,   \* request[d]: the message that is on its way to the server
  answer,    \* answer[d]: the answer that is on its way to the device
  damaged,   \* the devices whose last request was altered on its way
  got,       \* got[d]: the certificate the device holds
  sent,      \* the requests devices have made (history)
  issued,    \* what the server has issued, and told Intune (history)
  exchanges  \* the requests and answers of the server (history)

vars == <<state, anchor, order, attempt, posted, request, answer, damaged, got, sent,
          issued, exchanges>>

States == {"idle", "equipped", "waiting",
           "enrolled",   \* it holds a certificate
           "refused",    \* it was told of a failure in band
           "error",      \* it was given an HTTP error
           "confused"}   \* it was given a CertRep it can make nothing of

TypeOK ==
  /\ state \in [Devices -> States]
  /\ \A d \in Devices : order[d] \in Orders[d] \cup {Nothing}
  /\ anchor \in [Devices -> {Cert[c] : c \in CAs} \cup {Nothing}]
  /\ attempt \in [Devices -> 0..MaxRequests]
  /\ posted \in [Devices -> Profiles \cup {Nothing}]
  /\ damaged \subseteq Devices
  /\ \A x \in exchanges : x.answer.http \in {"Http200", "Http400", "Http500"}
  /\ \A i \in issued : i.profile \in Profiles /\ i.cert.not_after \in Today..LastDay

Init ==
  /\ state = [d \in Devices |-> "idle"]
  /\ anchor = [d \in Devices |-> Nothing]
  /\ order = [d \in Devices |-> Nothing]
  /\ attempt = [d \in Devices |-> 0]
  /\ posted = [d \in Devices |-> Nothing]
  /\ request = [d \in Devices |-> Nothing]
  /\ answer = [d \in Devices |-> Nothing]
  /\ damaged = {}
  /\ got = [d \in Devices |-> Nothing]
  /\ sent = {}
  /\ issued = {}
  /\ exchanges = {}

-----------------------------------------------------------------------------
(***************************************************************************)
(* The device.                                                             *)
(***************************************************************************)

\* The device gets the certificate of a CA, GetCACert.
\* The profile asked need not be the one that it later enrols with.
Fetch(d) ==
  /\ state[d] = "idle"
  /\ \E p \in Profiles : anchor' = [anchor EXCEPT ![d] = Cert[CaOf[p]]]
  /\ state' = [state EXCEPT ![d] = "equipped"]
  /\ UNCHANGED <<order, attempt, posted, request, answer, damaged, got, sent, issued, exchanges>>

\* The recipients of an envelope for the CA certificate cert with the content
\* key cek, as clients write them and as src/http_test.rs does.
Recipients(way, cert, cek) ==
  LET To(rid, key, k) == [kind |-> "ktri", rid |-> rid, encKey |-> [to |-> key, cek |-> k]]
      ByName == [by |-> "name", id |-> cert.name]
      Other  == [by |-> "name", id |-> Noise]
  IN  CASE way \in {"named", "hollow"} -> <<To(ByName, cert.key, cek)>>
        [] way = "ski"       -> <<To([by |-> "ski", id |-> cert.ski], cert.key, cek)>>
        [] way = "stranger"  -> <<To(Other, cert.key, cek)>>
        [] way = "strangers" -> <<To(Other, cert.key, cek), To(Other, cert.key, cek)>>
        [] way = "second"    -> <<To(Other, Noise, cek), To(ByName, cert.key, cek)>>
        [] way = "first"     -> <<To(ByName, cert.key, cek), To(Other, Noise, cek)>>
        [] way = "misfit"    -> <<To(ByName, cert.key, [len |-> 8, id |-> cek.id]),
                                  To(Other, cert.key, cek)>>
        [] way = "foreign"   -> <<To(ByName, Noise, cek), To(Other, cert.key, cek)>>

\* The envelope of the n-th request of d, for the CA certificate cert.
Envelope(d, n, o, cert) ==
  LET cek == [len |-> IF o.cipher \in Ciphers THEN KeyLength(o.cipher) ELSE 0, id |-> <<d, n>>]
  IN  [kind |-> "enveloped", alg |-> o.cipher, iv |-> IvLength(o.cipher),
       recipients |-> Recipients(o.way, cert, cek),
       encrypted |-> IF o.way = "hollow" THEN {}
                     ELSE {[alg |-> o.cipher, cek |-> cek, plain |-> o.plain]}]

Request(d, n, o, cert) ==
  SignedData(o.own, o.digest, Attributes(o.type, o.txn, <<d, n>>),
             IF o.plain = Nothing THEN Nothing ELSE Envelope(d, n, o, cert))

\* A request, the first one or, on a new connection, another attempt at the
\* same order, with a nonce and a content key of its own.
Send(d) ==
  /\ state[d] \in {"equipped", "waiting"}
  /\ Cardinality(sent) < MaxRequests
  /\ attempt' = [attempt EXCEPT ![d] = @ + 1]
  /\ \E o \in Orders[d], p \in Profiles :
       /\ state[d] = "waiting" => o = order[d] /\ p = posted[d]
       /\ order' = [order EXCEPT ![d] = o]
       /\ posted' = [posted EXCEPT ![d] = p]
       /\ LET m == Request(d, attempt'[d], o, anchor[d])
          IN  request' = [request EXCEPT ![d] = m] /\ sent' = sent \cup {m}
  /\ state' = [state EXCEPT ![d] = "waiting"]
  /\ answer' = [answer EXCEPT ![d] = Nothing]
  /\ damaged' = damaged \ {d}
  /\ UNCHANGED <<anchor, got, issued, exchanges>>

\* A part of the message is replaced by that of another message, or the
\* message no longer decodes.
Damage(d) ==
  /\ request[d] # Nothing
  /\ d \notin damaged
  /\ damaged' = damaged \cup {d}
  /\ \/ request' = [request EXCEPT ![d].decodes = FALSE]
     \/ \E m \in sent, part \in {"signer", "digest", "attrs", "signature", "econtent"} :
          request' = [request EXCEPT ![d][part] = m[part]]
  /\ UNCHANGED <<state, anchor, order, attempt, posted, answer, got, sent, issued, exchanges>>

\* What the device makes of a CertRep: it checks the signature, the
\* transaction and the nonce, and opens the content with its own key.
Reading(d, m) ==
  IF ~ /\ SignatureVerifies(m) /\ ContentIsSigned(m) /\ AttributesRead(m)
       /\ m.attrs.messageType = "CertRep"
       /\ m.attrs.transactionID = order[d].txn
       /\ m.attrs.recipientNonce = <<d, attempt[d]>>
  THEN "confused"
  ELSE IF m.attrs.pkiStatus = "FAILURE" THEN "refused"
  ELSE IF Open(m.econtent, order[d].own) = {} THEN "confused" ELSE "enrolled"

Read(d) ==
  /\ state[d] = "waiting"
  /\ answer[d] # Nothing
  /\ LET m == answer[d].body
         s == IF answer[d].http # "Http200" THEN "error" ELSE Reading(d, m)
     IN  /\ state' = [state EXCEPT ![d] = s]
         /\ got' = [got EXCEPT ![d] = IF s = "enrolled"
                                      THEN (CHOOSE plain \in Open(m.econtent, order[d].own) : TRUE).cert
                                      ELSE @]
  /\ answer' = [answer EXCEPT ![d] = Nothing]
  /\ UNCHANGED <<anchor, order, attempt, posted, request, damaged, sent, issued, exchanges>>

\* The connection breaks, and what was on it is lost.
Break(d) ==
  /\ request[d] # Nothing \/ answer[d] # Nothing
  /\ request' = [request EXCEPT ![d] = Nothing]
  /\ answer' = [answer EXCEPT ![d] = Nothing]
  /\ UNCHANGED <<state, anchor, order, attempt, posted, damaged, got, sent, issued, exchanges>>

-----------------------------------------------------------------------------
(***************************************************************************)
(* The server: pki_operation.                                              *)
(***************************************************************************)

\* The CSR in a message to a CA, if there is one.
CsrOf(m, cert) == {plain \in Open(m.econtent, cert) : plain # Noise /\ plain.kind = "csr"}

\* Mutated form of Unopened: the errors of open are passed on.
UnopenedAsError(cert, m) == HttpError("Http500")

\* Whatever is wrong between the envelope and a CSR is answered alike.
Unopened(cert, m) == Failure(cert, m, "BadMessageCheck")

\* The answer to a message that does not lead to a CSR.
Refusal(m, cert) ==
  IF ParseError(m) # "none" THEN HttpError(ParseError(m))
  ELSE IF \/ m.attrs.messageType \notin {"PKCSReq", "RenewalReq"}
          \/ m.econtent = Nothing THEN HttpError("Http400")
  ELSE Unopened(cert, m)

\* How far the message gets, in the terms of Scep.
Body(m, cert) ==
  CASE ParseError(m) = "Http400" -> "malformed"
    [] ParseError(m) = "Http500" -> "unreadable"
    [] ParseError(m) = "none" /\ m.attrs.messageType \notin {"PKCSReq", "RenewalReq"} -> "otherType"
    [] ParseError(m) = "none" /\ m.attrs.messageType \in {"PKCSReq", "RenewalReq"} ->
         (IF m.econtent = Nothing THEN "noEnvelope"
          ELSE IF CsrOf(m, cert) = {} THEN "unopenable" ELSE "csr")

Enrols(m, cert) ==
  /\ ParseError(m) = "none"
  /\ m.attrs.messageType \in {"PKCSReq", "RenewalReq"}
  /\ m.econtent # Nothing
  /\ CsrOf(m, cert) # {}

Replied(d, a) ==
  /\ request' = [request EXCEPT ![d] = Nothing]
  /\ answer' = [answer EXCEPT ![d] = a]
  /\ exchanges' = exchanges \cup {[msg |-> request[d], profile |-> posted[d], answer |-> a]}
  /\ UNCHANGED <<state, anchor, order, attempt, posted, damaged, got, sent>>

\* A message that asks for nothing the server can give, or whose challenge
\* the validator rejects.
Refuse(d) ==
  /\ request[d] # Nothing
  /\ LET m == request[d]
         cert == Cert[CaOf[posted[d]]]
     IN  Replied(d, IF Enrols(m, cert) THEN Failure(cert, m, "BadRequest") ELSE Refusal(m, cert))
  /\ UNCHANGED issued

\* A request that the validator accepts: a certificate, if one can be made.
Grant(d) ==
  /\ request[d] # Nothing
  /\ LET m == request[d]
         p == posted[d]
         ca == Cert[CaOf[p]]
     IN  /\ Enrols(m, ca)
         /\ \E csr \in CsrOf(m, ca), bytes \in Draws :
              LET made == Issue(ca, csr, Options[p], Today, bytes)
              IN  /\ \A i \in issued : i.cert.serial # RandomSerial(bytes)
                  /\ Replied(d, IF made = Nothing THEN Failure(ca, m, "BadRequest")
                                ELSE Success(ca, m, made, <<ca.name, made.serial>>))
                  /\ issued' = IF made = Nothing THEN issued
                               ELSE issued \cup {[cert |-> made, csr |-> csr, profile |-> p,
                                                  txn |-> m.attrs.transactionID,
                                                  decimal |-> SerialDecimal(made.serial)]}

-----------------------------------------------------------------------------
Next ==
  \E d \in Devices : Fetch(d) \/ Send(d) \/ Damage(d) \/ Read(d) \/ Break(d) \/ Refuse(d) \/ Grant(d)

Spec == Init /\ [][Next]_vars

-----------------------------------------------------------------------------
(***************************************************************************)
(* Properties.                                                             *)
(***************************************************************************)

\* Every CertRep reaches the device in a form it can read: signed, of its
\* transaction and of the nonce of its last attempt, and sealed to the very
\* certificate it signed with, whatever key its CSR is for and however long
\* its serial is (success_attrs, build_for, build_cert_rep).
RepliesAreUnderstood ==
  \A d \in Devices : state[d] = "confused" => d \in damaged

\* A device that is enrolled holds a certificate of the CA of the profile it
\* asked, for the subject and the key of its own CSR and with a SAN of that
\* CSR if it has one, and no other device holds it, however requests were
\* mixed up and repeated (pki_operation, issue, requested_san).
EnrolledAsAsked ==
  \A d \in Devices : state[d] = "enrolled" =>
    LET csr == order[d].plain
        asked == {i \in 1..Len(csr.requests) : csr.requests[i] # Noise}
        names == UNION {{csr.requests[i][j] : j \in 1..Len(csr.requests[i])} : i \in asked}
    IN  /\ got[d].issuer = Cert[CaOf[posted[d]]].name
        /\ got[d].subject = csr.subject /\ got[d].key = csr.key /\ ~ got[d].ca
        /\ IF names = {} THEN got[d].san = Nothing ELSE got[d].san \in names
        /\ \A e \in Devices \ {d} : state[e] = "enrolled" => got[e].serial # got[d].serial

\* No certificate without a message that a device has signed with that CSR in
\* it and under that transaction: no part of a message is taken from another
\* one (parse_and_verify, "Bind the signed attributes to the content").
SignedRequestsOnly ==
  \A i \in issued : \E m \in sent :
    /\ m.attrs.transactionID = i.txn
    /\ m.econtent # Nothing /\ \E c \in m.econtent.encrypted : c.plain = i.csr

\* What of a request anyone can see: the names of the recipients, and not the
\* keys wrapped for them.
PublicPart(m) ==
  [signer |-> m.signer, txn |-> m.attrs.transactionID, type |-> m.attrs.messageType,
   alg |-> m.econtent.alg, iv |-> m.econtent.iv,
   rids |-> [i \in 1..Len(m.econtent.recipients) |-> m.econtent.recipients[i].rid]]

\* What a client sees of an answer, apart from its nonces.
Kind(a) ==
  IF a.http # "Http200" THEN a.http
  ELSE IF a.body.attrs.pkiStatus = "SUCCESS" THEN "Success" ELSE a.body.attrs.failInfo

\* src/crypto/envelope.rs:192-196 and src/http/scep.rs:115-117: which recipient
\* is unwrapped depends on the public part of a request alone, and of two
\* requests that agree in it and hold no CSR the answers are alike, whether a
\* key does not unwrap, has the wrong length or opens the wrong thing.
AnswersRestOnThePublicPart ==
  \A x, y \in exchanges :
    (/\ x.profile = y.profile
     /\ ParseError(x.msg) = "none" /\ ParseError(y.msg) = "none"
     /\ x.msg.econtent # Nothing /\ y.msg.econtent # Nothing
     /\ PublicPart(x.msg) = PublicPart(y.msg)) =>
      LET cert == Cert[CaOf[x.profile]]
      IN  /\ Selected(x.msg.econtent, cert) = Selected(y.msg.econtent, cert)
          /\ ~ Enrols(x.msg, cert) /\ ~ Enrols(y.msg, cert) => Kind(x.answer) = Kind(y.answer)

\* The answers are those that Scep gives for how far a message gets, on which
\* Enrolment rests (pki_operation).
AnswersAreThoseOfScep ==
  \A x \in exchanges :
    LET cert == Cert[CaOf[x.profile]]
        m == [profile |-> x.profile, txn |-> x.msg.attrs.transactionID, body |-> Body(x.msg, cert)]
    IN  IF EarlyReply(m) # "none" THEN Kind(x.answer) = EarlyReply(m)
        ELSE \/ Kind(x.answer) \in {CertRep(m, "BadRequest"), CertRep(m, "Success")}
             \/ Kind(x.answer) = "Http500" /\ x.msg.signer.key \in ShortKeys

\* Intune is told the number that the serial is, of each certificate another
\* one, and a CRL names it by the same bytes as the certificate; the serial is
\* positive and as short as Intune's integer (random_serial, serial_decimal).
SerialsTravelWell ==
  \A i \in issued :
    /\ i.decimal = Value(i.cert.serial) /\ i.decimal > 0
    /\ CrlSerial(i.cert.serial) = i.cert.serial
    /\ \A j \in issued : j.decimal = i.decimal => j = i
=============================================================================
