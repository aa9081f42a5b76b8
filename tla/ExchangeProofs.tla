---------------------------- MODULE ExchangeProofs ----------------------------
(***************************************************************************)
(* Proofs about Exchange, for any devices, orders, names, keys and draws,  *)
(* and any number of requests.                                             *)
(***************************************************************************)
EXTENDS Exchange, FiniteSetTheorems, SequenceTheorems, WellFoundedInduction, TLAPS

-----------------------------------------------------------------------------
(***************************************************************************)
(* Messages.                                                               *)
(***************************************************************************)

IsMsg(m) == m = [decodes |-> m.decodes, signer |-> m.signer, digest |-> m.digest,
                 attrs |-> m.attrs, signature |-> m.signature, econtent |-> m.econtent]

\* The signature and the digest that are made with a message.
Signed(m) ==
  /\ m.signature = [key |-> m.signer.key, digest |-> m.digest, over |-> m.attrs]
  /\ m.attrs.messageDigest = IF m.econtent = Nothing THEN {}
                             ELSE {[digest |-> m.digest, of |-> m.econtent]}

\* m is r, damaged with parts of o.
Altered(m, r, o) ==
  \/ m = [r EXCEPT !.decodes = FALSE]
  \/ \E part \in {"signer", "digest", "attrs", "signature", "econtent"} : m = [r EXCEPT ![part] = o[part]]

LEMMA Alterations ==
  ASSUME NEW r, IsMsg(r), NEW o, NEW m, Altered(m, r, o)
  PROVE  /\ IsMsg(m)
         /\ m.signature = r.signature \/ m.signature = o.signature
         /\ m.econtent = r.econtent \/ m.econtent = o.econtent
BY DEF IsMsg, Altered

\* The nonce of the n-th request of d.
Nonce(d, n) == <<d, n>>

LEMMA Nonces ==
  ASSUME NEW d, NEW e, NEW n, NEW k, Nonce(d, n) = Nonce(e, k)
  PROVE  d = e /\ n = k
BY DEF Nonce

LEMMA RequestShape ==
  ASSUME NEW d, NEW n, NEW o, NEW cert, NEW m, m = Request(d, n, o, cert)
  PROVE  /\ IsMsg(m) /\ Signed(m)
         /\ m.signer = o.own /\ m.digest = o.digest
         /\ m.attrs.messageType = o.type /\ m.attrs.transactionID = o.txn
         /\ m.attrs.senderNonce = Nonce(d, n)
         /\ m.econtent = IF o.plain = Nothing THEN Nothing ELSE Envelope(d, n, o, cert)
BY DEF Request, SignedData, Attributes, IsMsg, Signed, Nonce

\* What a CertRep says, if there is one.
LEMMA AnswerShape ==
  ASSUME NEW cert, NEW m, NEW status, NEW failInfo, NEW content,
         Answer(cert, m, status, failInfo, content).http = "Http200"
  PROVE  LET b == Answer(cert, m, status, failInfo, content).body
         IN  /\ Signed(b) /\ b.digest = "SHA-256" /\ b.econtent = content
             /\ b.attrs.messageType = "CertRep"
             /\ b.attrs.transactionID = m.attrs.transactionID
             /\ b.attrs.transactionID \in PrintableTxns
             /\ b.attrs.senderNonce = ServerNonce
             /\ b.attrs.recipientNonce = m.attrs.senderNonce
             /\ b.attrs.pkiStatus = status /\ b.attrs.failInfo = failInfo
BY DEF Answer, HttpError, SignedData, ReplyAttrs, Attributes, Signed

LEMMA AnswerHttp ==
  ASSUME NEW cert, NEW m, NEW status, NEW failInfo, NEW content
  PROVE  Answer(cert, m, status, failInfo, content).http =
           IF m.attrs.transactionID \in PrintableTxns THEN "Http200" ELSE "Http500"
BY DEF Answer, HttpError

\* What a client sees of a CertRep.
LEMMA KindOfFailure ==
  ASSUME NEW cert, NEW m, NEW info
  PROVE  Kind(Failure(cert, m, info)) = IF m.attrs.transactionID \in PrintableTxns THEN info ELSE "Http500"
BY AnswerShape, AnswerHttp DEF Kind, Failure

LEMMA KindOfSuccess ==
  ASSUME NEW cert, NEW m, NEW content
  PROVE  Kind(Answer(cert, m, "SUCCESS", Nothing, content)) =
           IF m.attrs.transactionID \in PrintableTxns THEN "Success" ELSE "Http500"
BY AnswerShape, AnswerHttp DEF Kind

\* A message that passes the checks has the attributes and the content of the
\* one that its signature was made for.
LEMMA Merged ==
  ASSUME NEW m, NEW s, Signed(s), m.signature = s.signature,
         SignatureVerifies(m), ContentIsSigned(m)
  PROVE  /\ m.attrs = s.attrs
         /\ m.econtent # Nothing => m.econtent = s.econtent
<1>1. m.attrs = s.attrs /\ m.digest = s.digest
  BY DEF Signed, SignatureVerifies
<1>2. ASSUME m.econtent # Nothing PROVE m.econtent = s.econtent
  <2>1. m.attrs.messageDigest = {[digest |-> m.digest, of |-> m.econtent]}
    BY <1>2 DEF ContentIsSigned
  <2>2. s.econtent # Nothing
    BY <1>1, <2>1 DEF Signed
  <2>3. {[digest |-> m.digest, of |-> m.econtent]} = {[digest |-> s.digest, of |-> s.econtent]}
    BY <1>1, <2>1, <2>2 DEF Signed
  <2>4. [digest |-> m.digest, of |-> m.econtent] = [digest |-> s.digest, of |-> s.econtent]
    BY <2>3
  <2> QED
    BY <2>4
<1> QED
  BY <1>1, <1>2

LEMMA Passed ==
  ASSUME NEW m, ParseError(m) = "none"
  PROVE  SignatureVerifies(m) /\ ContentIsSigned(m) /\ AttributesRead(m)
BY DEF ParseError

\* An envelope opens to what was put into it, or does not.
LEMMA Opened ==
  ASSUME NEW e, NEW cert
  PROVE  Open(e, cert) \subseteq {c.plain : c \in e.encrypted}
BY DEF Open, Decrypt

\* A device puts its order, and nothing else, into an envelope.
LEMMA EnvelopeHolds ==
  ASSUME NEW d, NEW n, NEW o, NEW cert, NEW c \in Envelope(d, n, o, cert).encrypted
  PROVE  c.plain = o.plain
<1> DEFINE cek == [len |-> IF o.cipher \in Ciphers THEN KeyLength(o.cipher) ELSE 0, id |-> <<d, n>>]
           k == [alg |-> o.cipher, cek |-> cek, plain |-> o.plain]
<1>1. c = k
  BY DEF Envelope
<1> QED
  BY <1>1

LEMMA Csrs ==
  ASSUME NEW m, NEW cert, NEW csr \in CsrOf(m, cert)
  PROVE  csr # Noise /\ \E c \in m.econtent.encrypted : csr = c.plain
BY Opened DEF CsrOf

\* A reply opens for the certificate it is sealed to.
LEMMA Reopened ==
  ASSUME NEW plain, NEW own, NEW cek
  PROVE  /\ Open(BuildFor(plain, own, cek), own) = {plain}
         /\ \A c \in BuildFor(plain, own, cek).encrypted : c.plain = plain
<1> DEFINE e == BuildFor(plain, own, cek)
<1>1. /\ Len(e.recipients) = 1 /\ e.alg = "AES-256-CBC" /\ e.iv = 16
      /\ e.encrypted = {[alg |-> "AES-256-CBC", cek |-> [len |-> 32, id |-> cek], plain |-> plain]}
      /\ e.recipients[1] = [kind |-> "ktri", rid |-> [by |-> "name", id |-> own.name],
                            encKey |-> [to |-> own.key, cek |-> [len |-> 32, id |-> cek]]]
  BY DEF BuildFor
<1>2. KeyTransport(e) = {1}
  BY <1>1 DEF KeyTransport
<1>3. Named(e.recipients[1], own)
  BY <1>1 DEF Named
<1>4. {i \in KeyTransport(e) : Named(e.recipients[i], own)} = {1}
  BY <1>2, <1>3
<1>5. First({1}) = 1
  BY DEF First
<1>6. Selected(e, own) = 1
  BY <1>4, <1>5 DEF Selected
<1>7. KeyLength("AES-256-CBC") = 32 /\ "AES-256-CBC" \in Ciphers /\ IvLength("AES-256-CBC") = 16
  BY DEF KeyLength, Ciphers, IvLength
<1> HIDE DEF e
<1>8. Openable(e, own)
  BY <1>1, <1>6, <1>7 DEF Openable
<1>9. UnwrapCek(own.key, e.recipients[1].encKey, 32) = [len |-> 32, id |-> cek]
  BY <1>1 DEF UnwrapCek
<1>10. Open(e, own) = {plain}
  <2>1. Open(e, own) = Decrypt("AES-256-CBC", [len |-> 32, id |-> cek], e.encrypted)
    BY <1>1, <1>6, <1>7, <1>8, <1>9 DEF Open
  <2> DEFINE c == [alg |-> "AES-256-CBC", cek |-> [len |-> 32, id |-> cek], plain |-> plain]
  <2>2. /\ e.encrypted = {c} /\ c.alg = "AES-256-CBC"
        /\ c.cek = [len |-> 32, id |-> cek] /\ c.plain = plain
    BY <1>1
  <2> HIDE DEF c
  <2>3. Decrypt("AES-256-CBC", [len |-> 32, id |-> cek], {c}) = {plain}
    BY <2>2 DEF Decrypt
  <2> QED
    BY <2>1, <2>2, <2>3
<1> QED
  BY <1>1, <1>10 DEF e

-----------------------------------------------------------------------------
(***************************************************************************)
(* The inductive invariant.                                                *)
(***************************************************************************)

Started(d) == state[d] \notin {"idle", "equipped"}

\* The last request of d, as it made it.
Last(d) == Request(d, attempt[d], order[d], anchor[d])

\* The device is answered with the certificate cert.
Offered(a, cert) ==
  /\ a.http = "Http200" /\ a.body.attrs.pkiStatus # "FAILURE"
  /\ \E c \in a.body.econtent.encrypted : c.plain.cert = cert

Types ==
  /\ state \in [Devices -> States]
  /\ anchor \in [Devices -> {Cert[c] : c \in CAs} \cup {Nothing}]
  /\ posted \in [Devices -> Profiles \cup {Nothing}]
  /\ attempt \in [Devices -> Nat]
  /\ DOMAIN order = Devices /\ DOMAIN request = Devices
  /\ DOMAIN answer = Devices /\ DOMAIN got = Devices
  /\ \A d \in Devices : order[d] \in Orders[d] \cup {Nothing}
  /\ damaged \subseteq Devices

\* A device makes all its requests to one order and one CA certificate, and
\* numbers them.
Sendings ==
  /\ IsFiniteSet(sent) /\ Cardinality(sent) <= MaxRequests
  /\ \A d \in Devices : attempt[d] <= Cardinality(sent)
  /\ \A s \in sent : \E d \in Devices, n \in Nat :
       n <= attempt[d] /\ Started(d) /\ s = Request(d, n, order[d], anchor[d])

\* A message on its way has the signature of one that was sent and the
\* content of one that was sent.
UnderWay ==
  \A d \in Devices :
    /\ Started(d) => posted[d] \in Profiles /\ order[d] \in Orders[d]
    /\ ~ Started(d) => request[d] = Nothing /\ answer[d] = Nothing
    /\ request[d] # Nothing =>
         /\ IsMsg(request[d])
         /\ \E s \in sent : request[d].signature = s.signature
         /\ \E s \in sent : request[d].econtent = s.econtent
         /\ d \notin damaged => request[d] = Last(d)

Issuings ==
  /\ \A i \in issued :
       /\ i.profile \in Profiles
       /\ i.cert # Nothing
       /\ \E bytes \in Draws : i.cert = Issue(Cert[CaOf[i.profile]], i.csr, Options[i.profile], Today, bytes)
  /\ SignedRequestsOnly

\* What the server answers to the message of x, with what it has issued.
Served(x, made) ==
  LET cert == Cert[CaOf[x.profile]]
  IN  IF Enrols(x.msg, cert)
      THEN \/ x.answer = Failure(cert, x.msg, "BadRequest")
           \/ \E i \in made : \E cek :
                /\ i.profile = x.profile /\ i.csr \in CsrOf(x.msg, cert)
                /\ x.answer = Success(cert, x.msg, i.cert, cek)
      ELSE x.answer = Refusal(x.msg, cert)

Exchanged ==
  \A x \in exchanges :
    /\ x.profile \in Profiles
    /\ \E s \in sent : x.msg.signature = s.signature
    /\ \E s \in sent : x.msg.econtent = s.econtent
    /\ Served(x, issued)

\* A serial number is offered to one request.
SerialsOfferedOnce ==
  \A x, y \in exchanges : \A a, b :
    Offered(x.answer, a) /\ Offered(y.answer, b) /\ a.serial = b.serial =>
      x.msg.attrs.senderNonce = y.msg.attrs.senderNonce

\* An answer is to the last message of the device that arrived.
Answered ==
  \A d \in Devices : answer[d] # Nothing =>
    \E x \in exchanges :
      /\ x.answer = answer[d] /\ x.profile = posted[d]
      /\ d \notin damaged => x.msg = Last(d)

\* A device that is enrolled was offered its certificate in the answer to a
\* message with the nonce of its last request.
Held ==
  \A d \in Devices : state[d] = "enrolled" =>
    \E x \in exchanges :
      /\ Offered(x.answer, got[d]) /\ x.profile = posted[d]
      /\ x.msg.attrs.senderNonce = Nonce(d, attempt[d])

Inv ==
  /\ Types /\ Sendings /\ UnderWay /\ Issuings /\ Exchanged
  /\ SerialsOfferedOnce /\ Answered /\ Held /\ RepliesAreUnderstood

-----------------------------------------------------------------------------
LEMMA InitInv == Init => Inv
<1> SUFFICES ASSUME Init PROVE Inv
  OBVIOUS
<1>1. Types
  BY DEF Init, Types, States
<1>2. Sendings
  BY FS_EmptySet, BoundAssumption DEF Init, Sendings
<1>3. UnderWay
  BY DEF Init, UnderWay, Started
<1>4. Issuings /\ Exchanged /\ SerialsOfferedOnce
  BY DEF Init, Issuings, SignedRequestsOnly, Exchanged, SerialsOfferedOnce
<1>5. Answered /\ Held /\ RepliesAreUnderstood
  BY DEF Init, Answered, Held, RepliesAreUnderstood
<1> QED
  BY <1>1, <1>2, <1>3, <1>4, <1>5 DEF Inv

LEMMA ReadStates ==
  ASSUME NEW d, Read(d)
  PROVE  \E s \in States \ {"idle", "equipped"} : state' = [state EXCEPT ![d] = s]
<1>1. Reading(d, answer[d].body) \in States \ {"idle", "equipped"}
  BY DEF Reading, States
<1>2. "error" \in States \ {"idle", "equipped"}
  BY DEF States
<1> QED
  BY <1>1, <1>2 DEF Read

\* A message that passes the checks carries the attributes and the content of
\* one that a device sent.
LEMMA Genuine ==
  ASSUME Sendings, NEW m, ParseError(m) = "none", m.econtent # Nothing,
         \E s \in sent : m.signature = s.signature
  PROVE  \E s \in sent : m.attrs = s.attrs /\ m.econtent = s.econtent
<1>1. PICK s \in sent : m.signature = s.signature
  OBVIOUS
<1>2. Signed(s)
  BY RequestShape DEF Sendings
<1> QED
  BY <1>1, <1>2, Merged, Passed

LEMMA NextTypes ==
  ASSUME Types, Next
  PROVE  Types'
<1> PICK d \in Devices : Fetch(d) \/ Send(d) \/ Damage(d) \/ Read(d) \/ Break(d) \/ Refuse(d) \/ Grant(d)
  BY DEF Next
<1> USE DEF Types
<1>1. CASE Fetch(d)
  BY <1>1, CaOfAssumption DEF Fetch, States
<1>2. CASE Send(d)
  <2>1. PICK o \in Orders[d], p \in Profiles : order' = [order EXCEPT ![d] = o] /\ posted' = [posted EXCEPT ![d] = p]
    BY <1>2 DEF Send
  <2>2. \E m : request' = [request EXCEPT ![d] = m]
    BY <1>2 DEF Send
  <2> QED
    BY <1>2, <2>1, <2>2 DEF Send, States
<1>3. CASE Damage(d)
  <2>1. DOMAIN request' = Devices
    BY <1>3 DEF Damage
  <2> QED
    BY <1>3, <2>1 DEF Damage
<1>4. CASE Read(d)
  <2>1. \E s \in States : state' = [state EXCEPT ![d] = s]
    BY <1>4, ReadStates
  <2>2. DOMAIN got' = Devices
    BY <1>4 DEF Read
  <2> QED
    BY <1>4, <2>1, <2>2 DEF Read
<1>5. CASE Break(d)
  BY <1>5 DEF Break
<1>6. CASE Refuse(d) \/ Grant(d)
  <2>1. PICK a : Replied(d, a)
    BY <1>6 DEF Refuse, Grant
  <2> QED
    BY <2>1 DEF Replied
<1> QED
  BY <1>1, <1>2, <1>3, <1>4, <1>5, <1>6

LEMMA NextSendings ==
  ASSUME Inv, Next
  PROVE  Sendings'
<1> PICK d \in Devices : Fetch(d) \/ Send(d) \/ Damage(d) \/ Read(d) \/ Break(d) \/ Refuse(d) \/ Grant(d)
  BY DEF Next
<1> USE DEF Inv, Types, Sendings, Started
<1>1. CASE Fetch(d)
  BY <1>1 DEF Fetch
<1>2. CASE Send(d)
  <2>1. PICK o \in Orders[d] : /\ state[d] = "waiting" => o = order[d]
                               /\ order' = [order EXCEPT ![d] = o]
                               /\ sent' = sent \cup {Request(d, attempt'[d], o, anchor[d])}
    BY <1>2 DEF Send
  <2> DEFINE m == Request(d, attempt'[d], o, anchor[d])
  <2>2. attempt' = [attempt EXCEPT ![d] = attempt[d] + 1] /\ anchor' = anchor
        /\ Cardinality(sent) < MaxRequests /\ state' = [state EXCEPT ![d] = "waiting"]
        /\ state[d] \in {"equipped", "waiting"}
    BY <1>2 DEF Send
  <2>3. m.attrs.senderNonce = Nonce(d, attempt'[d]) /\ attempt'[d] = attempt[d] + 1
    <3>1. m.attrs.senderNonce = Nonce(d, attempt'[d])
      BY RequestShape
    <3> QED
      BY <2>2, <3>1
  <2>4. m \notin sent
    <3> SUFFICES ASSUME m \in sent PROVE FALSE
      OBVIOUS
    <3>1. PICK e \in Devices, n \in Nat : n <= attempt[e] /\ m = Request(e, n, order[e], anchor[e])
      OBVIOUS
    <3>2. m.attrs.senderNonce = Nonce(e, n)
      BY <3>1, RequestShape
    <3>3. d = e /\ attempt'[d] = n
      BY <2>3, <3>2, Nonces
    <3> QED
      BY <2>3, <3>1, <3>3
  <2> HIDE DEF m
  <2>5. sent' = sent \cup {m}
    BY <2>1 DEF m
  <2>6. IsFiniteSet(sent') /\ Cardinality(sent') = Cardinality(sent) + 1 /\ Cardinality(sent) \in Nat
    BY <2>4, <2>5, FS_AddElement, FS_CardinalityType
  <2>7. Cardinality(sent') <= MaxRequests /\ \A e \in Devices : attempt'[e] <= Cardinality(sent')
    BY <2>2, <2>6, BoundAssumption
  <2>8. ASSUME NEW s \in sent'
        PROVE  \E e \in Devices, n \in Nat :
                 n <= attempt'[e] /\ state'[e] \notin {"idle", "equipped"} /\ s = Request(e, n, order'[e], anchor'[e])
    <3>1. CASE s = m
      <4>1. s = Request(d, attempt'[d], order'[d], anchor'[d])
        BY <2>1, <2>2, <3>1 DEF m
      <4> QED
        BY <2>2, <4>1
    <3>2. CASE s \in sent
      <4>1. PICK e \in Devices, n \in Nat :
              n <= attempt[e] /\ Started(e) /\ s = Request(e, n, order[e], anchor[e])
        BY <3>2
      <4>2. order'[e] = order[e]
        BY <2>1, <2>2, <4>1
      <4>3. anchor'[e] = anchor[e] /\ attempt[e] <= attempt'[e] /\ attempt'[e] \in Nat
            /\ state'[e] \notin {"idle", "equipped"}
        BY <2>2, <4>1
      <4> QED
        BY <4>1, <4>2, <4>3
    <3> QED
      BY <2>5, <2>8, <3>1, <3>2
  <2> QED
    BY <2>6, <2>7, <2>8
<1>3. CASE Damage(d) \/ Break(d)
  BY <1>3 DEF Damage, Break
<1>4. CASE Read(d)
  <2>1. \E s \in States \ {"idle", "equipped"} : state' = [state EXCEPT ![d] = s]
    BY <1>4, ReadStates
  <2> QED
    BY <1>4, <2>1 DEF Read
<1>5. CASE Refuse(d) \/ Grant(d)
  <2>1. PICK a : Replied(d, a)
    BY <1>5 DEF Refuse, Grant
  <2> QED
    BY <2>1 DEF Replied
<1> QED
  BY <1>1, <1>2, <1>3, <1>4, <1>5

LEMMA NextUnderWay ==
  ASSUME Inv, Next
  PROVE  UnderWay'
<1> PICK d \in Devices : Fetch(d) \/ Send(d) \/ Damage(d) \/ Read(d) \/ Break(d) \/ Refuse(d) \/ Grant(d)
  BY DEF Next
<1> USE DEF Inv, Types, UnderWay, Started
<1>1. CASE Fetch(d)
  BY <1>1 DEF Fetch, Last
<1>2. CASE Send(d)
  <2>1. PICK o \in Orders[d], p \in Profiles :
          /\ state[d] = "waiting" => o = order[d] /\ p = posted[d]
          /\ order' = [order EXCEPT ![d] = o] /\ posted' = [posted EXCEPT ![d] = p]
          /\ request' = [request EXCEPT ![d] = Request(d, attempt'[d], o, anchor[d])]
          /\ sent' = sent \cup {Request(d, attempt'[d], o, anchor[d])}
    BY <1>2 DEF Send
  <2> DEFINE m == Request(d, attempt'[d], o, anchor[d])
  <2>2. /\ attempt' = [attempt EXCEPT ![d] = attempt[d] + 1] /\ anchor' = anchor
        /\ state' = [state EXCEPT ![d] = "waiting"] /\ damaged' = damaged \ {d}
        /\ answer' = [answer EXCEPT ![d] = Nothing]
    BY <1>2 DEF Send
  <2>3. IsMsg(m)
    BY RequestShape
  <2>4. m = Last(d)'
    BY <2>1, <2>2 DEF Last
  <2> HIDE DEF m
  <2>5. request' = [request EXCEPT ![d] = m] /\ sent' = sent \cup {m}
    BY <2>1 DEF m
  <2> SUFFICES ASSUME NEW e \in Devices
               PROVE  /\ state'[e] \notin {"idle", "equipped"} => posted'[e] \in Profiles /\ order'[e] \in Orders[e]
                      /\ state'[e] \in {"idle", "equipped"} => request'[e] = Nothing /\ answer'[e] = Nothing
                      /\ request'[e] # Nothing =>
                           /\ IsMsg(request'[e])
                           /\ \E s \in sent' : request'[e].signature = s.signature
                           /\ \E s \in sent' : request'[e].econtent = s.econtent
                           /\ e \notin damaged' => request'[e] = Last(e)'
    OBVIOUS
  <2>6. CASE e = d
    BY <2>1, <2>2, <2>3, <2>4, <2>5, <2>6
  <2>7. CASE e # d
    <3>1. /\ order'[e] = order[e] /\ posted'[e] = posted[e] /\ request'[e] = request[e]
          /\ state'[e] = state[e] /\ attempt'[e] = attempt[e] /\ answer'[e] = answer[e]
      BY <2>1, <2>2, <2>5, <2>7
    <3>2. Last(e)' = Last(e)
      BY <2>2, <3>1 DEF Last
    <3> QED
      BY <2>2, <2>5, <2>7, <3>1, <3>2
  <2> QED
    BY <2>6, <2>7
<1>3. CASE Damage(d)
  <2>1. /\ damaged' = damaged \cup {d} /\ request[d] # Nothing
        /\ UNCHANGED <<state, anchor, order, attempt, posted, answer, sent>>
    BY <1>3 DEF Damage
  <2>2. PICK s1 \in sent, s2 \in sent : request[d].signature = s1.signature /\ request[d].econtent = s2.econtent
    BY <2>1
  <2>3. PICK m : request' = [request EXCEPT ![d] = m] /\ IsMsg(m)
                 /\ (\E s \in sent : m.signature = s.signature) /\ (\E s \in sent : m.econtent = s.econtent)
    <3> DEFINE r == request[d]
    <3>1. IsMsg(r)
      BY <2>1
    <3>2. PICK o \in sent : \E m : request' = [request EXCEPT ![d] = m] /\ Altered(m, r, o)
      BY <1>3, <2>2 DEF Damage, Altered
    <3>4. PICK m : request' = [request EXCEPT ![d] = m] /\ Altered(m, r, o)
      BY <3>2
    <3> HIDE DEF r
    <3>3. /\ IsMsg(m)
          /\ m.signature = r.signature \/ m.signature = o.signature
          /\ m.econtent = r.econtent \/ m.econtent = o.econtent
      BY <3>1, <3>4, Alterations
    <3> QED
      BY <2>2, <3>4, <3>3 DEF r
  <2>4. \A e \in Devices : Last(e)' = Last(e)
    BY <2>1 DEF Last
  <2> QED
    BY <2>1, <2>3, <2>4
<1>4. CASE Read(d)
  <2>1. \E s \in States \ {"idle", "equipped"} : state' = [state EXCEPT ![d] = s]
    BY <1>4, ReadStates
  <2>2. UNCHANGED <<anchor, order, attempt, posted, request, damaged, sent>> /\ state[d] = "waiting"
        /\ answer' = [answer EXCEPT ![d] = Nothing]
    BY <1>4 DEF Read
  <2>3. \A e \in Devices : Last(e)' = Last(e)
    BY <2>2 DEF Last
  <2> QED
    BY <2>1, <2>2, <2>3
<1>5. CASE Break(d) \/ Refuse(d) \/ Grant(d)
  <2>1. UNCHANGED <<state, anchor, order, attempt, posted, damaged, sent>>
        /\ request' = [request EXCEPT ![d] = Nothing]
        /\ \A e \in Devices \ {d} : answer'[e] = answer[e]
    BY <1>5 DEF Break, Refuse, Grant, Replied
  <2>2. \A e \in Devices : Last(e)' = Last(e)
    BY <2>1 DEF Last
  <2>3. state[d] \in {"idle", "equipped"} => answer'[d] = Nothing
    BY <1>5 DEF Break, Refuse, Grant
  <2> QED
    BY <2>1, <2>2, <2>3
<1> QED
  BY <1>1, <1>2, <1>3, <1>4, <1>5

LEMMA NextIssuings ==
  ASSUME Inv, Next
  PROVE  Issuings'
<1> PICK d \in Devices : Fetch(d) \/ Send(d) \/ Damage(d) \/ Read(d) \/ Break(d) \/ Refuse(d) \/ Grant(d)
  BY DEF Next
<1> USE DEF Inv, Issuings, SignedRequestsOnly
<1>1. CASE Send(d)
  <2>1. issued' = issued /\ sent \subseteq sent'
    BY <1>1 DEF Send
  <2> QED
    BY <2>1
<1>2. CASE Fetch(d) \/ Damage(d) \/ Read(d) \/ Break(d) \/ Refuse(d)
  BY <1>2 DEF Fetch, Damage, Read, Break, Refuse, Replied
<1>3. CASE Grant(d)
  <2> DEFINE m == request[d]
             ca == Cert[CaOf[posted[d]]]
  <2>1. sent' = sent /\ m # Nothing /\ Enrols(m, ca)
    BY <1>3 DEF Grant, Replied
  <2>2. PICK csr \in CsrOf(m, ca), bytes \in Draws :
          LET made == Issue(ca, csr, Options[posted[d]], Today, bytes)
          IN  issued' = IF made = Nothing THEN issued
                        ELSE issued \cup {[cert |-> made, csr |-> csr, profile |-> posted[d],
                                           txn |-> m.attrs.transactionID,
                                           decimal |-> SerialDecimal(made.serial)]}
    BY <1>3 DEF Grant
  <2>3. PICK s \in sent : m.attrs = s.attrs /\ m.econtent = s.econtent
    BY <2>1, Genuine DEF Enrols, UnderWay
  <2> DEFINE made == Issue(ca, csr, Options[posted[d]], Today, bytes)
             dec == SerialDecimal(made.serial)
             i == [cert |-> made, csr |-> csr, profile |-> posted[d],
                   txn |-> m.attrs.transactionID, decimal |-> dec]
  <2>4. posted[d] \in Profiles
    BY <2>1 DEF UnderWay
  <2>5. \E c \in s.econtent.encrypted : c.plain = csr
    BY <2>3, Csrs
  <2>6. s.econtent # Nothing /\ s.attrs.transactionID = m.attrs.transactionID
    BY <2>1, <2>3 DEF Enrols
  <2>7. CASE made = Nothing
    BY <2>1, <2>2, <2>7
  <2>8. CASE made # Nothing
    <3>1. issued' = issued \cup {i}
      BY <2>2, <2>8
    <3>2. i.cert = Issue(Cert[CaOf[i.profile]], i.csr, Options[i.profile], Today, bytes)
          /\ i.profile = posted[d] /\ i.csr = csr /\ i.txn = m.attrs.transactionID /\ i.cert # Nothing
      BY <2>8
    <3> HIDE DEF i
    <3> QED
      BY <2>1, <2>4, <2>5, <2>6, <3>1, <3>2
  <2> QED
    BY <2>7, <2>8
<1> QED
  BY <1>1, <1>2, <1>3

-----------------------------------------------------------------------------
LEMMA ParseErrors ==
  ASSUME NEW m
  PROVE  ParseError(m) \in {"Http400", "Http500", "none"}
BY DEF ParseError

LEMMA FailureOffersNothing ==
  ASSUME NEW cert, NEW m, NEW info, NEW c
  PROVE  ~ Offered(Failure(cert, m, info), c)
BY AnswerShape DEF Offered, Failure

LEMMA RefusalOffersNothing ==
  ASSUME NEW cert, NEW m, NEW c
  PROVE  ~ Offered(Refusal(m, cert), c)
<1>1. CASE Refusal(m, cert) = Unopened(cert, m)
  BY <1>1, FailureOffersNothing DEF Unopened
<1>2. CASE Refusal(m, cert) # Unopened(cert, m)
  <2>1. PICK h \in {"Http400", "Http500"} : Refusal(m, cert) = HttpError(h)
    BY <1>2, ParseErrors DEF Refusal
  <2>2. Refusal(m, cert).http = h
    BY <2>1 DEF HttpError
  <2> QED
    BY <2>2 DEF Offered
<1> QED
  BY <1>1, <1>2

LEMMA SuccessOffers ==
  ASSUME NEW ca, NEW m, NEW c, NEW cek, NEW a, Offered(Success(ca, m, c, cek), a)
  PROVE  a = c
<1> DEFINE plain == [kind |-> "certs", cert |-> c]
           e == BuildFor(plain, m.signer, cek)
           r == Success(ca, m, c, cek)
<1>1. r.http = "Http200"
  BY DEF Offered
<1>2. m.signer.key \notin ShortKeys
  BY <1>1 DEF Success, HttpError
<1>3. r = Answer(ca, m, "SUCCESS", Nothing, e)
  BY <1>2 DEF Success
<1>4. plain.cert = c /\ \A k \in e.encrypted : k.plain = plain
  BY Reopened
<1> HIDE DEF plain, e, r
<1>5. r.body.econtent = e
  BY <1>1, <1>3, AnswerShape
<1> QED
  BY <1>4, <1>5 DEF Offered, r

LEMMA Offers ==
  ASSUME NEW x, NEW made, Served(x, made), NEW a, Offered(x.answer, a)
  PROVE  LET cert == Cert[CaOf[x.profile]]
         IN  /\ Enrols(x.msg, cert)
             /\ \E i \in made : i.cert = a /\ i.profile = x.profile /\ i.csr \in CsrOf(x.msg, cert)
BY FailureOffersNothing, RefusalOffersNothing, SuccessOffers DEF Served

\* Every CertRep is of the transaction and the nonce of the message it
\* answers, and tells of a failure or opens for who signed that message.
LEMMA ReplyShape ==
  ASSUME NEW x, NEW made, Served(x, made), x.answer.http = "Http200",
         NEW b, b = x.answer.body
  PROVE  /\ Signed(b) /\ b.digest = "SHA-256"
         /\ b.attrs.messageType = "CertRep"
         /\ b.attrs.transactionID = x.msg.attrs.transactionID
         /\ b.attrs.transactionID \in PrintableTxns
         /\ b.attrs.senderNonce = ServerNonce
         /\ b.attrs.recipientNonce = x.msg.attrs.senderNonce
         /\ b.attrs.pkiStatus = "FAILURE" \/ Open(b.econtent, x.msg.signer) # {}
<1> DEFINE cert == Cert[CaOf[x.profile]]
<1>1. \/ \E info : x.answer = Failure(cert, x.msg, info)
      \/ \E c, cek : x.answer = Success(cert, x.msg, c, cek)
  <2>1. ASSUME NEW h \in {"Http400", "Http500"} PROVE HttpError(h).http # "Http200"
    BY DEF HttpError
  <2>2. CASE Enrols(x.msg, cert)
    BY <2>1, <2>2 DEF Served
  <2>3. CASE ~ Enrols(x.msg, cert)
    BY <2>1, <2>3, ParseErrors DEF Served, Refusal, Unopened
  <2> QED
    BY <2>2, <2>3
<1>2. ASSUME NEW info, x.answer = Failure(cert, x.msg, info)
      PROVE  x.answer = Answer(cert, x.msg, "FAILURE", info, Nothing)
  BY <1>2 DEF Failure
<1>3. ASSUME NEW c, NEW cek, x.answer = Success(cert, x.msg, c, cek)
      PROVE  \E plain, k : x.answer = Answer(cert, x.msg, "SUCCESS", Nothing, BuildFor(plain, x.msg.signer, k))
  BY <1>3 DEF Success, HttpError
<1> HIDE DEF cert
<1>4. CASE \E info : x.answer = Failure(cert, x.msg, info)
  BY <1>2, <1>4, AnswerShape
<1>5. CASE \E c, cek : x.answer = Success(cert, x.msg, c, cek)
  <2>1. PICK plain, k : x.answer = Answer(cert, x.msg, "SUCCESS", Nothing, BuildFor(plain, x.msg.signer, k))
    BY <1>3, <1>5
  <2>2. Open(BuildFor(plain, x.msg.signer, k), x.msg.signer) = {plain}
    BY Reopened
  <2>3. b.econtent = BuildFor(plain, x.msg.signer, k)
    BY <2>1, AnswerShape
  <2>4. Open(b.econtent, x.msg.signer) # {}
    BY <2>2, <2>3
  <2> QED
    BY <2>1, <2>4, AnswerShape
<1> QED
  BY <1>1, <1>4, <1>5

\* What an answer of the server adds to its history.
LEMMA Answering ==
  ASSUME Inv, NEW d \in Devices, Refuse(d) \/ Grant(d)
  PROVE  \E x : /\ Replied(d, x.answer) /\ exchanges' = exchanges \cup {x}
                /\ request[d] # Nothing /\ x.msg = request[d] /\ x.profile = posted[d]
                /\ issued \subseteq issued' /\ Served(x, issued')
                /\ \A a : Offered(x.answer, a) => \A i \in issued : i.cert.serial # a.serial
<1> DEFINE m == request[d]
           ca == Cert[CaOf[posted[d]]]
<1>1. CASE Refuse(d)
  <2> DEFINE a == IF Enrols(m, ca) THEN Failure(ca, m, "BadRequest") ELSE Refusal(m, ca)
             x == [msg |-> m, profile |-> posted[d], answer |-> a]
  <2>1. Replied(d, a) /\ issued' = issued /\ m # Nothing
    BY <1>1 DEF Refuse
  <2>2. exchanges' = exchanges \cup {x}
    BY <2>1 DEF Replied
  <2>3. x.msg = m /\ x.profile = posted[d] /\ x.answer = a
    OBVIOUS
  <2>4. \A c : ~ Offered(a, c)
    BY FailureOffersNothing, RefusalOffersNothing
  <2> HIDE DEF x
  <2>5. Served(x, issued)
    BY <2>3 DEF Served
  <2> QED
    BY <2>1, <2>2, <2>3, <2>4, <2>5
<1>2. CASE Grant(d)
  <2>1. m # Nothing /\ Enrols(m, ca)
    BY <1>2 DEF Grant
  <2>2. PICK csr \in CsrOf(m, ca), bytes \in Draws :
          LET made == Issue(ca, csr, Options[posted[d]], Today, bytes)
          IN  /\ \A i \in issued : i.cert.serial # RandomSerial(bytes)
              /\ Replied(d, IF made = Nothing THEN Failure(ca, m, "BadRequest")
                            ELSE Success(ca, m, made, <<ca.name, made.serial>>))
              /\ issued' = IF made = Nothing THEN issued
                           ELSE issued \cup {[cert |-> made, csr |-> csr, profile |-> posted[d],
                                              txn |-> m.attrs.transactionID,
                                              decimal |-> SerialDecimal(made.serial)]}
    BY <1>2 DEF Grant
  <2> DEFINE made == Issue(ca, csr, Options[posted[d]], Today, bytes)
             a == IF made = Nothing THEN Failure(ca, m, "BadRequest")
                  ELSE Success(ca, m, made, <<ca.name, made.serial>>)
             x == [msg |-> m, profile |-> posted[d], answer |-> a]
             dec == SerialDecimal(made.serial)
             i == [cert |-> made, csr |-> csr, profile |-> posted[d],
                   txn |-> m.attrs.transactionID, decimal |-> dec]
  <2>3. Replied(d, a) /\ \A k \in issued : k.cert.serial # RandomSerial(bytes)
    BY <2>2
  <2>4. exchanges' = exchanges \cup {x}
    BY <2>3 DEF Replied
  <2>5. x.msg = m /\ x.profile = posted[d] /\ x.answer = a
    OBVIOUS
  <2>6. i.cert = made /\ i.profile = posted[d] /\ i.csr = csr
    OBVIOUS
  <2>7. issued' = IF made = Nothing THEN issued ELSE issued \cup {i}
    BY <2>2
  <2>8. made # Nothing => made.serial = RandomSerial(bytes)
    BY DEF Issue
  <2>9. \A c : Offered(a, c) => made # Nothing /\ c = made
    BY FailureOffersNothing, SuccessOffers
  <2>10. made # Nothing => a = Success(ca, m, i.cert, <<ca.name, made.serial>>)
    BY <2>6
  <2>11. made = Nothing => a = Failure(ca, m, "BadRequest")
    OBVIOUS
  <2> HIDE DEF x, a, i, made, dec
  <2>12. Served(x, issued')
    BY <2>1, <2>5, <2>6, <2>7, <2>10, <2>11 DEF Served
  <2> QED
    BY <2>1, <2>3, <2>4, <2>5, <2>7, <2>8, <2>9, <2>12
<1> QED
  BY <1>1, <1>2

\* The device and its connection leave the server's history alone.
LEMMA DeviceSteps ==
  ASSUME NEW d, Fetch(d) \/ Send(d) \/ Damage(d) \/ Read(d) \/ Break(d)
  PROVE  exchanges' = exchanges /\ issued' = issued /\ sent \subseteq sent'
BY DEF Fetch, Send, Damage, Read, Break

LEMMA NextExchanged ==
  ASSUME Inv, Next
  PROVE  Exchanged' /\ SerialsOfferedOnce'
<1> PICK d \in Devices : Fetch(d) \/ Send(d) \/ Damage(d) \/ Read(d) \/ Break(d) \/ Refuse(d) \/ Grant(d)
  BY DEF Next
<1> USE DEF Inv
<1>1. CASE Refuse(d) \/ Grant(d)
  <2>1. PICK x : /\ Replied(d, x.answer) /\ exchanges' = exchanges \cup {x}
                 /\ request[d] # Nothing /\ x.msg = request[d] /\ x.profile = posted[d]
                 /\ issued \subseteq issued' /\ Served(x, issued')
                 /\ \A a : Offered(x.answer, a) => \A i \in issued : i.cert.serial # a.serial
    BY <1>1, Answering
  <2>2. sent' = sent
    BY <2>1 DEF Replied
  <2>3. ASSUME NEW y \in exchanges
        PROVE  Served(y, issued')
    BY <2>1 DEF Exchanged, Served
  <2>4. /\ x.profile \in Profiles
        /\ \E s \in sent : x.msg.signature = s.signature
        /\ \E s \in sent : x.msg.econtent = s.econtent
    BY <2>1 DEF UnderWay, Started
  <2>5. Exchanged'
    BY <2>1, <2>2, <2>3, <2>4 DEF Exchanged
  <2>6. ASSUME NEW y \in exchanges, NEW a, NEW b, Offered(x.answer, a), Offered(y.answer, b)
        PROVE  a.serial # b.serial
    <3>1. \E i \in issued : i.cert = b
      BY <2>6, Offers DEF Exchanged
    <3> QED
      BY <2>1, <2>6, <3>1
  <2>7. SerialsOfferedOnce'
    BY <2>1, <2>6 DEF SerialsOfferedOnce
  <2> QED
    BY <2>5, <2>7
<1>2. CASE Fetch(d) \/ Send(d) \/ Damage(d) \/ Read(d) \/ Break(d)
  <2>1. exchanges' = exchanges /\ issued' = issued /\ sent \subseteq sent'
    BY <1>2, DeviceSteps
  <2> QED
    BY <2>1 DEF Exchanged, SerialsOfferedOnce
<1> QED
  BY <1>1, <1>2

LEMMA NextAnswered ==
  ASSUME Inv, Next
  PROVE  Answered'
<1> PICK d \in Devices : Fetch(d) \/ Send(d) \/ Damage(d) \/ Read(d) \/ Break(d) \/ Refuse(d) \/ Grant(d)
  BY DEF Next
<1> USE DEF Inv, Types, Answered
<1>1. CASE Refuse(d) \/ Grant(d)
  <2>1. PICK x : /\ Replied(d, x.answer) /\ exchanges' = exchanges \cup {x}
                 /\ request[d] # Nothing /\ x.msg = request[d] /\ x.profile = posted[d]
    BY <1>1, Answering
  <2>2. /\ answer' = [answer EXCEPT ![d] = x.answer]
        /\ UNCHANGED <<anchor, order, attempt, posted, damaged>>
    BY <2>1 DEF Replied
  <2>3. d \notin damaged => x.msg = Last(d)
    BY <2>1 DEF UnderWay
  <2>4. \A e \in Devices : Last(e)' = Last(e)
    BY <2>2 DEF Last
  <2> QED
    BY <2>1, <2>2, <2>3, <2>4
<1>2. CASE Send(d)
  <2>1. /\ exchanges' = exchanges /\ answer' = [answer EXCEPT ![d] = Nothing]
        /\ damaged' = damaged \ {d} /\ anchor' = anchor
    BY <1>2 DEF Send
  <2>2. \A e \in Devices \ {d} : order'[e] = order[e] /\ attempt'[e] = attempt[e] /\ posted'[e] = posted[e]
    BY <1>2 DEF Send
  <2>3. \A e \in Devices \ {d} : Last(e)' = Last(e)
    BY <2>1, <2>2 DEF Last
  <2> QED
    BY <2>1, <2>2, <2>3
<1>3. CASE Fetch(d)
  <2>1. /\ exchanges' = exchanges /\ answer' = answer /\ posted' = posted /\ damaged' = damaged
        /\ \A e \in Devices \ {d} : anchor'[e] = anchor[e]
        /\ order' = order /\ attempt' = attempt
    BY <1>3 DEF Fetch
  <2>2. \A e \in Devices \ {d} : Last(e)' = Last(e)
    BY <2>1 DEF Last
  <2>3. answer[d] = Nothing
    BY <1>3 DEF Fetch, UnderWay, Started
  <2> QED
    BY <2>1, <2>2, <2>3
<1>4. CASE Damage(d) \/ Read(d) \/ Break(d)
  <2>1. /\ UNCHANGED <<anchor, order, attempt, posted, exchanges>> /\ damaged \subseteq damaged'
        /\ answer' = answer \/ answer' = [answer EXCEPT ![d] = Nothing]
    BY <1>4 DEF Damage, Read, Break
  <2>2. \A e \in Devices : Last(e)' = Last(e)
    BY <2>1 DEF Last
  <2> QED
    BY <2>1, <2>2
<1> QED
  BY <1>1, <1>2, <1>3, <1>4

LEMMA NextHeld ==
  ASSUME Inv, Next
  PROVE  Held'
<1> PICK d \in Devices : Fetch(d) \/ Send(d) \/ Damage(d) \/ Read(d) \/ Break(d) \/ Refuse(d) \/ Grant(d)
  BY DEF Next
<1> USE DEF Inv, Types
<1>1. exchanges \subseteq exchanges'
  BY Answering, DeviceSteps
<1> SUFFICES ASSUME NEW e \in Devices, state'[e] = "enrolled"
             PROVE  \E x \in exchanges' :
                      /\ Offered(x.answer, got'[e]) /\ x.profile = posted'[e]
                      /\ x.msg.attrs.senderNonce = Nonce(e, attempt'[e])
  BY DEF Held
<1>2. CASE state[e] = "enrolled"
  <2>1. got'[e] = got[e] /\ posted'[e] = posted[e] /\ attempt'[e] = attempt[e]
    BY <1>2 DEF Fetch, Send, Damage, Read, Break, Refuse, Grant, Replied
  <2> QED
    BY <1>1, <1>2, <2>1 DEF Held
<1>3. CASE state[e] # "enrolled"
  <2> DEFINE a == answer[d]
             plain == CHOOSE k \in Open(a.body.econtent, order[d].own) : TRUE
  <2>1. Read(d) /\ e = d
    BY <1>3 DEF Fetch, Send, Damage, Read, Break, Refuse, Grant, Replied
  <2>2. /\ a # Nothing /\ a.http = "Http200" /\ Reading(d, a.body) = "enrolled"
        /\ got'[d] = plain.cert /\ UNCHANGED <<attempt, posted, exchanges>>
    BY <2>1 DEF Read
  <2>3. /\ a.body.attrs.recipientNonce = Nonce(d, attempt[d])
        /\ a.body.attrs.pkiStatus # "FAILURE"
        /\ Open(a.body.econtent, order[d].own) # {}
    BY <2>2 DEF Reading, Nonce
  <2>4. plain \in Open(a.body.econtent, order[d].own)
    BY <2>3
  <2> HIDE DEF plain
  <2>5. \E k \in a.body.econtent.encrypted : plain = k.plain
    BY <2>4, Opened
  <2>6. Offered(a, got'[d])
    BY <2>2, <2>3, <2>5 DEF Offered
  <2>7. PICK x \in exchanges : x.answer = a /\ x.profile = posted[d]
    BY <2>2 DEF Answered
  <2>8. x.msg.attrs.senderNonce = a.body.attrs.recipientNonce
    BY <2>2, <2>7, ReplyShape DEF Exchanged
  <2> QED
    BY <2>1, <2>2, <2>3, <2>6, <2>7, <2>8
<1> QED
  BY <1>2, <1>3

LEMMA NextUnderstood ==
  ASSUME Inv, Next
  PROVE  RepliesAreUnderstood'
<1> PICK d \in Devices : Fetch(d) \/ Send(d) \/ Damage(d) \/ Read(d) \/ Break(d) \/ Refuse(d) \/ Grant(d)
  BY DEF Next
<1> USE DEF Inv, Types
<1> SUFFICES ASSUME NEW e \in Devices, state'[e] = "confused"
             PROVE  e \in damaged'
  BY DEF RepliesAreUnderstood
<1>1. CASE state[e] = "confused"
  BY <1>1 DEF RepliesAreUnderstood, Fetch, Send, Damage, Read, Break, Refuse, Grant, Replied
<1>2. CASE state[e] # "confused"
  <2> DEFINE b == answer[d].body
             own == order[d].own
  <2>1. Read(d) /\ e = d
    BY <1>2 DEF Fetch, Send, Damage, Read, Break, Refuse, Grant, Replied
  <2>2. /\ answer[d] # Nothing /\ answer[d].http = "Http200" /\ Reading(d, b) = "confused"
        /\ damaged' = damaged
    BY <2>1 DEF Read
  <2> SUFFICES ASSUME d \notin damaged
               PROVE  FALSE
    BY <2>1, <2>2
  <2>3. PICK x \in exchanges : x.answer = answer[d] /\ x.msg = Last(d)
    BY <2>2 DEF Answered
  <2>4. /\ x.msg.signer = own /\ x.msg.attrs.transactionID = order[d].txn
        /\ x.msg.attrs.senderNonce = Nonce(d, attempt[d])
    BY <2>3, RequestShape DEF Last
  <2>5. Served(x, issued)
    BY DEF Exchanged
  <2>6. b = x.answer.body /\ x.answer.http = "Http200"
    BY <2>2, <2>3
  <2> HIDE DEF b, own
  <2>7. /\ Signed(b) /\ b.digest = "SHA-256"
        /\ b.attrs.messageType = "CertRep"
        /\ b.attrs.transactionID = x.msg.attrs.transactionID
        /\ b.attrs.transactionID \in PrintableTxns
        /\ b.attrs.senderNonce = ServerNonce
        /\ b.attrs.recipientNonce = x.msg.attrs.senderNonce
        /\ b.attrs.pkiStatus = "FAILURE" \/ Open(b.econtent, x.msg.signer) # {}
    BY <2>5, <2>6, ReplyShape
  <2>8. SignatureVerifies(b) /\ ContentIsSigned(b)
    BY <2>7 DEF SignatureVerifies, ContentIsSigned, Signed, Digests
  <2>9. AttributesRead(b)
    BY <2>7, ValuesAssumption DEF AttributesRead, MessageTypes
  <2>10. b.attrs.recipientNonce = <<d, attempt[d]>>
    BY <2>4, <2>7 DEF Nonce
  <2>11. b.attrs.pkiStatus = "FAILURE" \/ Open(b.econtent, order[d].own) # {}
    BY <2>4, <2>7 DEF own
  <2>12. Reading(d, b) \in {"refused", "enrolled"}
    BY <2>4, <2>7, <2>8, <2>9, <2>10, <2>11 DEF Reading
  <2> QED
    BY <2>2, <2>12
<1> QED
  BY <1>1, <1>2

LEMMA InvHolds == Spec => []Inv
<1>1. Inv /\ [Next]_vars => Inv'
  <2> SUFFICES ASSUME Inv, [Next]_vars PROVE Inv'
    OBVIOUS
  <2>1. CASE Next
    <3>1. Types'
      BY <2>1, NextTypes DEF Inv
    <3>2. Sendings' /\ UnderWay' /\ Issuings'
      BY <2>1, NextSendings, NextUnderWay, NextIssuings
    <3>3. Exchanged' /\ SerialsOfferedOnce' /\ Answered' /\ Held' /\ RepliesAreUnderstood'
      BY <2>1, NextExchanged, NextAnswered, NextHeld, NextUnderstood
    <3> QED
      BY <3>1, <3>2, <3>3 DEF Inv
  <2>2. CASE UNCHANGED vars
    BY <2>2 DEF vars, Inv, Types, Sendings, Started, UnderWay, Last, Issuings, SignedRequestsOnly, Exchanged,
                Served, SerialsOfferedOnce, Answered, Held, RepliesAreUnderstood
  <2> QED
    BY <2>1, <2>2
<1> QED
  BY <1>1, InitInv, PTL DEF Spec

-----------------------------------------------------------------------------
(***************************************************************************)
(* The theorems.                                                           *)
(***************************************************************************)

\* A certificate that is made names a day no later than the last one.
LEMMA Made ==
  ASSUME NEW ca, NEW csr, NEW p \in Profiles, NEW bytes,
         NEW c, c = Issue(ca, csr, Options[p], Today, bytes), c # Nothing
  PROVE  /\ c.not_after \in Today..LastDay
         /\ c.issuer = ca.name /\ c.subject = csr.subject /\ c.key = csr.key /\ ~ c.ca
         /\ c.san = RequestedSan(csr.requests) /\ c.san # Noise
<1> DEFINE until == NotAfter(Today, Options[p].validity_days)
<1>1. until # Noise
  BY DEF Issue
<1>2. until = Today + Options[p].validity_days /\ until \in Today..LastDay
  BY <1>1, DaysAssumption DEF NotAfter
<1> HIDE DEF until
<1>3. c.not_after = until
  BY DEF Issue, until
<1>4. /\ c.issuer = ca.name /\ c.subject = csr.subject /\ c.key = csr.key /\ ~ c.ca
      /\ c.san = RequestedSan(csr.requests) /\ c.san # Noise
  BY DEF Issue
<1> QED
  BY <1>2, <1>3, <1>4

LEMMA Statuses ==
  ASSUME NEW x, NEW made, Served(x, made)
  PROVE  x.answer.http \in {"Http200", "Http400", "Http500"}
<1>1. \A h \in {"Http400", "Http500"} : HttpError(h).http = h
  BY DEF HttpError
<1>2. \A cert, m, status, info, content :
        Answer(cert, m, status, info, content).http \in {"Http200", "Http500"}
  BY AnswerHttp
<1> DEFINE cert == Cert[CaOf[x.profile]]
<1>3. \A info : Failure(cert, x.msg, info).http \in {"Http200", "Http500"}
  BY <1>2 DEF Failure
<1>4. \A c, cek : Success(cert, x.msg, c, cek).http \in {"Http200", "Http500"}
  BY <1>1, <1>2 DEF Success
<1>5. Refusal(x.msg, cert).http \in {"Http200", "Http400", "Http500"}
  BY <1>1, <1>3, ParseErrors DEF Refusal, Unopened
<1> HIDE DEF cert
<1>6. CASE Enrols(x.msg, cert)
  BY <1>3, <1>4, <1>6 DEF Served, cert
<1>7. CASE ~ Enrols(x.msg, cert)
  BY <1>5, <1>7 DEF Served, cert
<1> QED
  BY <1>6, <1>7

LEMMA InvTypeOK == Inv => TypeOK
<1> SUFFICES ASSUME Inv PROVE TypeOK
  OBVIOUS
<1> USE DEF Inv
<1>1. attempt \in [Devices -> 0..MaxRequests]
  <2>1. \A d \in Devices : attempt[d] \in 0..MaxRequests
    BY FS_CardinalityType, BoundAssumption DEF Types, Sendings
  <2> QED
    BY <2>1 DEF Types
<1>2. \A x \in exchanges : x.answer.http \in {"Http200", "Http400", "Http500"}
  BY Statuses DEF Exchanged
<1>3. ASSUME NEW i \in issued
      PROVE  i.profile \in Profiles /\ i.cert.not_after \in Today..LastDay
  <2>1. PICK bytes \in Draws :
          i.cert = Issue(Cert[CaOf[i.profile]], i.csr, Options[i.profile], Today, bytes)
    BY DEF Issuings
  <2> DEFINE ca == Cert[CaOf[i.profile]]
             c == i.cert
             p == i.profile
  <2>2. p \in Profiles /\ c # Nothing /\ c = Issue(ca, i.csr, Options[p], Today, bytes)
    BY <2>1 DEF Issuings
  <2> HIDE DEF c, p, ca
  <2>3. c.not_after \in Today..LastDay
    BY <2>2, Made
  <2> QED
    BY <2>2, <2>3 DEF c, p
<1> QED
  BY <1>1, <1>2, <1>3 DEF TypeOK, Types

\* The variables have their types, and no certificate is dated beyond the last
\* day, whatever validity a profile is configured with.
THEOREM TypesCorrect == Spec => []TypeOK
BY InvHolds, InvTypeOK, PTL

\* SignedRequestsOnly: what is issued was signed for by a device.
THEOREM SignedOnly == Spec => []SignedRequestsOnly
<1>1. Inv => SignedRequestsOnly
  BY DEF Inv, Issuings
<1> QED
  BY <1>1, InvHolds, PTL

\* RepliesAreUnderstood: a device whose request was not altered on its way can
\* read the reply.
THEOREM Understood == Spec => []RepliesAreUnderstood
<1>1. Inv => RepliesAreUnderstood
  BY DEF Inv
<1> QED
  BY <1>1, InvHolds, PTL

-----------------------------------------------------------------------------
LEMMA InvAnswers == Inv => AnswersAreThoseOfScep
<1> SUFFICES ASSUME Inv, NEW x \in exchanges
             PROVE  LET cert == Cert[CaOf[x.profile]]
                        m == [profile |-> x.profile, txn |-> x.msg.attrs.transactionID, body |-> Body(x.msg, cert)]
                    IN  IF EarlyReply(m) # "none" THEN Kind(x.answer) = EarlyReply(m)
                        ELSE \/ Kind(x.answer) \in {CertRep(m, "BadRequest"), CertRep(m, "Success")}
                             \/ Kind(x.answer) = "Http500" /\ x.msg.signer.key \in ShortKeys
  BY DEF AnswersAreThoseOfScep
<1> DEFINE cert == Cert[CaOf[x.profile]]
           body == Body(x.msg, cert)
           m == [profile |-> x.profile, txn |-> x.msg.attrs.transactionID, body |-> body]
<1>1. m.profile \in Profiles /\ m.txn = x.msg.attrs.transactionID /\ m.body = body
  BY DEF Inv, Exchanged
<1>2. Served(x, issued)
  BY DEF Inv, Exchanged
<1>3. \A info : Kind(Failure(cert, x.msg, info)) = CertRep(m, info)
  BY <1>1, KindOfFailure DEF CertRep
<1>4. \A h \in {"Http400", "Http500"} : Kind(HttpError(h)) = h
  BY DEF Kind, HttpError
<1> HIDE DEF cert, body, m
<1>5. CASE Enrols(x.msg, cert)
  <2>1. body = "csr"
    BY <1>5 DEF Enrols, Body, body
  <2>2. EarlyReply(m) = "none"
    BY <1>1, <2>1 DEF EarlyReply
  <2>3. CASE x.answer = Failure(cert, x.msg, "BadRequest")
    BY <1>3, <2>2, <2>3 DEF cert, body, m
  <2>4. ASSUME NEW c, NEW cek, x.answer = Success(cert, x.msg, c, cek)
        PROVE  \/ Kind(x.answer) = CertRep(m, "Success")
               \/ Kind(x.answer) = "Http500" /\ x.msg.signer.key \in ShortKeys
    BY <1>1, <1>4, <2>4, KindOfSuccess DEF Success, CertRep
  <2> QED
    BY <1>2, <1>5, <2>2, <2>3, <2>4 DEF Served, cert, body, m
<1>6. CASE ~ Enrols(x.msg, cert)
  <2>1. x.answer = Refusal(x.msg, cert)
    BY <1>2, <1>6 DEF Served, cert
  <2>2. CASE ParseError(x.msg) = "Http400"
    <3>1. body = "malformed"
      BY <2>2 DEF Body, body
    <3>2. EarlyReply(m) = "Http400"
      BY <1>1, <3>1 DEF EarlyReply
    <3> QED
      BY <1>4, <2>1, <2>2, <3>2 DEF Refusal, cert, body, m
  <2>3. CASE ParseError(x.msg) = "Http500"
    <3>1. body = "unreadable"
      BY <2>3 DEF Body, body
    <3>2. EarlyReply(m) = "Http500"
      BY <1>1, <3>1 DEF EarlyReply
    <3> QED
      BY <1>4, <2>1, <2>3, <3>2 DEF Refusal, cert, body, m
  <2>4. CASE ParseError(x.msg) = "none" /\ x.msg.attrs.messageType \notin {"PKCSReq", "RenewalReq"}
    <3>1. body = "otherType"
      BY <2>4 DEF Body, body
    <3>2. EarlyReply(m) = "Http400"
      BY <1>1, <3>1 DEF EarlyReply
    <3> QED
      BY <1>4, <2>1, <2>4, <3>2 DEF Refusal, cert, body, m
  <2>5. CASE /\ ParseError(x.msg) = "none" /\ x.msg.attrs.messageType \in {"PKCSReq", "RenewalReq"}
             /\ x.msg.econtent = Nothing
    <3>1. body = "noEnvelope"
      BY <2>5 DEF Body, body
    <3>2. EarlyReply(m) = "Http400"
      BY <1>1, <3>1 DEF EarlyReply
    <3> QED
      BY <1>4, <2>1, <2>5, <3>2 DEF Refusal, cert, body, m
  <2>6. CASE /\ ParseError(x.msg) = "none" /\ x.msg.attrs.messageType \in {"PKCSReq", "RenewalReq"}
             /\ x.msg.econtent # Nothing
    <3>1. body = "unopenable"
      BY <1>6, <2>6 DEF Body, Enrols, body
    <3>2. EarlyReply(m) = CertRep(m, "BadMessageCheck")
      BY <1>1, <3>1 DEF EarlyReply
    <3>3. EarlyReply(m) # "none"
      BY <3>2 DEF CertRep
    <3> QED
      BY <1>3, <2>1, <2>6, <3>2, <3>3 DEF Refusal, Unopened, cert, body, m
  <2> QED
    BY <2>2, <2>3, <2>4, <2>5, <2>6, ParseErrors
<1> QED
  BY <1>5, <1>6

\* AnswersAreThoseOfScep: the checks on a message come to what Scep says of how
\* far it gets, so that Enrolment and Exchange speak of one server.
THEOREM AnswersMatchScep == Spec => []AnswersAreThoseOfScep
BY InvHolds, InvAnswers, PTL

-----------------------------------------------------------------------------
KeyTransportOnly(e) == \A i \in 1..Len(e.recipients) : e.recipients[i].kind = "ktri"

LEMMA ClientsUseKeyTransport ==
  ASSUME NEW d, NEW n, NEW o, NEW cert, o.way \in Ways
  PROVE  KeyTransportOnly(Envelope(d, n, o, cert))
<1> DEFINE To(rid, key, k) == [kind |-> "ktri", rid |-> rid, encKey |-> [to |-> key, cek |-> k]]
<1>1. ASSUME NEW way \in Ways, NEW cek
      PROVE  \/ \E a, b, c : Recipients(way, cert, cek) = <<To(a, b, c)>>
             \/ \E a, b, c, p, q, r : Recipients(way, cert, cek) = <<To(a, b, c), To(p, q, r)>>
  <2> HIDE DEF To
  <2>1. CASE way \in {"named", "hollow"}
    BY <2>1 DEF Recipients, To
  <2>2. CASE way = "ski"
    BY <2>2 DEF Recipients, To
  <2>3. CASE way = "stranger"
    BY <2>3 DEF Recipients, To
  <2>4. CASE way = "strangers"
    BY <2>4 DEF Recipients, To
  <2>5. CASE way = "second"
    BY <2>5 DEF Recipients, To
  <2>6. CASE way = "first"
    BY <2>6 DEF Recipients, To
  <2>7. CASE way = "misfit"
    BY <2>7 DEF Recipients, To
  <2>8. CASE way = "foreign"
    BY <2>8 DEF Recipients, To
  <2> QED
    BY <2>1, <2>2, <2>3, <2>4, <2>5, <2>6, <2>7, <2>8 DEF Ways
<1>2. \A a, b, c : To(a, b, c).kind = "ktri"
  OBVIOUS
<1> HIDE DEF To
<1>3. \E cek : Envelope(d, n, o, cert).recipients = Recipients(o.way, cert, cek)
  BY DEF Envelope
<1> QED
  BY <1>1, <1>2, <1>3 DEF KeyTransportOnly

\* The choice of the recipient looks at names only.
LEMMA SelectedByName ==
  ASSUME NEW e, NEW f, NEW cert, KeyTransportOnly(e), KeyTransportOnly(f),
         [i \in 1..Len(e.recipients) |-> e.recipients[i].rid] =
           [i \in 1..Len(f.recipients) |-> f.recipients[i].rid]
  PROVE  Selected(e, cert) = Selected(f, cert)
<1>1. 1..Len(e.recipients) = 1..Len(f.recipients)
  OBVIOUS
<1>2. \A i \in 1..Len(e.recipients) : e.recipients[i].rid = f.recipients[i].rid
  OBVIOUS
<1>3. KeyTransport(e) = 1..Len(e.recipients) /\ KeyTransport(f) = 1..Len(e.recipients)
  BY <1>1 DEF KeyTransport, KeyTransportOnly
<1>4. {i \in KeyTransport(e) : Named(e.recipients[i], cert)} = {i \in KeyTransport(f) : Named(f.recipients[i], cert)}
  BY <1>2, <1>3 DEF Named
<1> QED
  BY <1>3, <1>4 DEF Selected

LEMMA InvPublicPart == Inv => AnswersRestOnThePublicPart
<1> SUFFICES ASSUME Inv, NEW x \in exchanges, NEW y \in exchanges,
                    x.profile = y.profile,
                    ParseError(x.msg) = "none", ParseError(y.msg) = "none",
                    x.msg.econtent # Nothing, y.msg.econtent # Nothing,
                    PublicPart(x.msg) = PublicPart(y.msg)
             PROVE  LET cert == Cert[CaOf[x.profile]]
                    IN  /\ Selected(x.msg.econtent, cert) = Selected(y.msg.econtent, cert)
                        /\ ~ Enrols(x.msg, cert) /\ ~ Enrols(y.msg, cert) => Kind(x.answer) = Kind(y.answer)
  BY DEF AnswersRestOnThePublicPart
<1> DEFINE cert == Cert[CaOf[x.profile]]
<1>1. ASSUME NEW z \in exchanges, z.msg.econtent # Nothing
      PROVE  KeyTransportOnly(z.msg.econtent)
  <2>1. PICK s \in sent : z.msg.econtent = s.econtent
    BY DEF Inv, Exchanged
  <2>2. PICK d \in Devices, n \in Nat : Started(d) /\ s = Request(d, n, order[d], anchor[d])
    BY DEF Inv, Sendings
  <2>3. s.econtent = Envelope(d, n, order[d], anchor[d])
    BY <1>1, <2>1, <2>2, RequestShape
  <2>4. order[d].way \in Ways
    BY <2>2, OrdersAssumption DEF Inv, UnderWay
  <2> QED
    BY <2>1, <2>3, <2>4, ClientsUseKeyTransport
<1>2. /\ [i \in 1..Len(x.msg.econtent.recipients) |-> x.msg.econtent.recipients[i].rid] =
           [i \in 1..Len(y.msg.econtent.recipients) |-> y.msg.econtent.recipients[i].rid]
      /\ x.msg.attrs.transactionID = y.msg.attrs.transactionID
      /\ x.msg.attrs.messageType = y.msg.attrs.messageType
  BY DEF PublicPart
<1>3. Selected(x.msg.econtent, cert) = Selected(y.msg.econtent, cert)
  BY <1>1, <1>2, SelectedByName
<1>4. ASSUME ~ Enrols(x.msg, cert), ~ Enrols(y.msg, cert)
      PROVE  Kind(x.answer) = Kind(y.answer)
  <2>1. x.answer = Refusal(x.msg, cert) /\ y.answer = Refusal(y.msg, cert)
    BY <1>4 DEF Inv, Exchanged, Served
  <2> HIDE DEF cert
  <2>2. CASE x.msg.attrs.messageType \notin {"PKCSReq", "RenewalReq"}
    BY <1>2, <2>1, <2>2 DEF Refusal
  <2>3. CASE x.msg.attrs.messageType \in {"PKCSReq", "RenewalReq"}
    <3>1. x.answer = Failure(cert, x.msg, "BadMessageCheck") /\ y.answer = Failure(cert, y.msg, "BadMessageCheck")
      BY <1>2, <2>1, <2>3 DEF Refusal, Unopened
    <3> QED
      BY <1>2, <3>1, KindOfFailure
  <2> QED
    BY <2>2, <2>3
<1> QED
  BY <1>3, <1>4

\* AnswersRestOnThePublicPart: nobody learns from an answer whether a wrapped
\* key opened.
THEOREM PublicPartDecides == Spec => []AnswersRestOnThePublicPart
BY InvHolds, InvPublicPart, PTL

-----------------------------------------------------------------------------
LEMMA Least ==
  ASSUME NEW T, T \subseteq Nat, T # {}
  PROVE  \E i \in T : \A j \in T : i <= j
<1> DEFINE R == OpToRel(<, Nat)
<1>1. IsWellFoundedOn(R, Nat)
  BY NatLessThanWellFounded
<1>2. R = {ss \in Nat \X Nat : ss[1] < ss[2]}
  BY DEF OpToRel
<1> HIDE DEF R
<1>3. PICK i \in T : \A j \in T : <<j, i>> \notin R
  BY <1>1, WFMin
<1>4. \A j \in T : ~ (j < i)
  BY <1>2, <1>3
<1> QED
  BY <1>4

\* The names in the extension requests of a CSR that decode.
SanNames(requests) ==
  UNION {{requests[i][j] : j \in 1..Len(requests[i])} : i \in {k \in 1..Len(requests) : requests[k] # Noise}}

LEMMA SanIsRequested ==
  ASSUME NEW requests \in Seq({Noise} \cup Seq(Sans)), RequestedSan(requests) # Noise
  PROVE  IF SanNames(requests) = {} THEN RequestedSan(requests) = Nothing
         ELSE RequestedSan(requests) \in SanNames(requests)
<1> DEFINE Telling == {i \in 1..Len(requests) : requests[i] = Noise \/ requests[i] # <<>>}
           first == CHOOSE i \in Telling : \A j \in Telling : i <= j
<1>1. \A i \in 1..Len(requests) : requests[i] = Noise \/ requests[i] \in Seq(Sans)
  OBVIOUS
<1>2. CASE Telling = {}
  <2>1. RequestedSan(requests) = Nothing
    BY <1>2 DEF RequestedSan
  <2>2. \A i \in 1..Len(requests) : requests[i] = <<>>
    BY <1>2
  <2>3. \A i \in 1..Len(requests) : {requests[i][j] : j \in 1..Len(requests[i])} = {}
    BY <2>2
  <2>4. SanNames(requests) = {}
    BY <2>3 DEF SanNames
  <2> QED
    BY <2>1, <2>4
<1>3. CASE Telling # {}
  <2>1. Telling \subseteq Nat
    OBVIOUS
  <2>2. first \in Telling
    BY <1>3, <2>1, Least
  <2>3. RequestedSan(requests) = IF requests[first] = Noise THEN Noise ELSE requests[first][1]
    BY <1>3 DEF RequestedSan
  <2> HIDE DEF first
  <2>4. /\ first \in 1..Len(requests) /\ requests[first] # Noise
        /\ requests[first] # <<>> /\ requests[first] \in Seq(Sans)
    BY <1>1, <2>2, <2>3
  <2>5. 1 \in 1..Len(requests[first])
    BY <2>4
  <2>6. RequestedSan(requests) \in SanNames(requests)
    BY <2>3, <2>4, <2>5 DEF SanNames
  <2> QED
    BY <2>6
<1> QED
  BY <1>2, <1>3

\* What a device that is enrolled holds, and from which answer.
LEMMA Enrolled ==
  ASSUME Inv, NEW d \in Devices, state[d] = "enrolled"
  PROVE  /\ order[d] \in Orders[d] /\ posted[d] \in Profiles
         /\ \E x \in exchanges : Offered(x.answer, got[d]) /\ x.msg.attrs.senderNonce = Nonce(d, attempt[d])
         /\ order[d].plain \notin {Nothing, Noise}
         /\ \E bytes : got[d] = Issue(Cert[CaOf[posted[d]]], order[d].plain, Options[posted[d]], Today, bytes)
         /\ got[d] # Nothing
<1> USE DEF Inv
<1>1. order[d] \in Orders[d] /\ posted[d] \in Profiles
  BY DEF UnderWay, Started
<1>2. PICK x \in exchanges : /\ Offered(x.answer, got[d]) /\ x.profile = posted[d]
                              /\ x.msg.attrs.senderNonce = Nonce(d, attempt[d])
  BY DEF Held
<1> DEFINE ca == Cert[CaOf[posted[d]]]
<1>3. Enrols(x.msg, ca) /\ \E i \in issued : i.cert = got[d] /\ i.profile = posted[d] /\ i.csr \in CsrOf(x.msg, ca)
  BY <1>2, Offers DEF Exchanged
<1>4. PICK i \in issued : i.cert = got[d] /\ i.profile = posted[d] /\ i.csr \in CsrOf(x.msg, ca)
  BY <1>3
<1>5. PICK s \in sent : x.msg.attrs = s.attrs /\ x.msg.econtent = s.econtent
  BY <1>3, Genuine DEF Enrols, Exchanged
<1>6. PICK e \in Devices, n \in Nat : s = Request(e, n, order[e], anchor[e])
  BY DEF Sendings
<1>7. s.attrs.senderNonce = Nonce(e, n)
  BY <1>6, RequestShape
<1>8. e = d
  BY <1>2, <1>5, <1>7, Nonces
<1>9. s.econtent # Nothing
  BY <1>3, <1>5 DEF Enrols
<1>10. order[d].plain # Nothing /\ s.econtent = Envelope(d, n, order[d], anchor[d])
  BY <1>6, <1>8, <1>9, RequestShape
<1>11. \A c \in s.econtent.encrypted : c.plain = order[d].plain
  BY <1>10, EnvelopeHolds
<1>12. i.csr # Noise /\ i.csr = order[d].plain
  BY <1>4, <1>5, <1>11, Csrs
<1>13. i.cert # Nothing
       /\ \E bytes \in Draws : i.cert = Issue(Cert[CaOf[i.profile]], i.csr, Options[i.profile], Today, bytes)
  BY DEF Issuings
<1> QED
  BY <1>1, <1>2, <1>4, <1>10, <1>12, <1>13

LEMMA InvAsked == Inv => EnrolledAsAsked
<1> SUFFICES ASSUME Inv, NEW d \in Devices, state[d] = "enrolled"
             PROVE  LET csr == order[d].plain
                        asked == {i \in 1..Len(csr.requests) : csr.requests[i] # Noise}
                        names == UNION {{csr.requests[i][j] : j \in 1..Len(csr.requests[i])} : i \in asked}
                    IN  /\ got[d].issuer = Cert[CaOf[posted[d]]].name
                        /\ got[d].subject = csr.subject /\ got[d].key = csr.key /\ ~ got[d].ca
                        /\ IF names = {} THEN got[d].san = Nothing ELSE got[d].san \in names
                        /\ \A e \in Devices \ {d} : state[e] = "enrolled" => got[e].serial # got[d].serial
  BY DEF EnrolledAsAsked
<1> DEFINE csr == order[d].plain
           c == got[d]
           ca == Cert[CaOf[posted[d]]]
           p == posted[d]
<1>1. /\ p \in Profiles /\ order[d] \in Orders[d] /\ csr \notin {Nothing, Noise} /\ c # Nothing
      /\ \E bytes : c = Issue(ca, csr, Options[p], Today, bytes)
  BY Enrolled
<1>2. csr.requests \in Seq({Noise} \cup Seq(Sans))
  BY <1>1, OrdersAssumption
<1>3. ASSUME NEW e \in Devices \ {d}, state[e] = "enrolled"
      PROVE  got[e].serial # got[d].serial
  <2>1. PICK x \in exchanges : Offered(x.answer, got[d]) /\ x.msg.attrs.senderNonce = Nonce(d, attempt[d])
    BY Enrolled
  <2>2. PICK y \in exchanges : Offered(y.answer, got[e]) /\ y.msg.attrs.senderNonce = Nonce(e, attempt[e])
    BY <1>3, Enrolled
  <2>3. Nonce(d, attempt[d]) # Nonce(e, attempt[e])
    BY <1>3, Nonces
  <2> QED
    BY <2>1, <2>2, <2>3 DEF Inv, SerialsOfferedOnce
<1> HIDE DEF csr, c, ca, p
<1>4. /\ c.issuer = ca.name /\ c.subject = csr.subject /\ c.key = csr.key /\ ~ c.ca
      /\ c.san = RequestedSan(csr.requests) /\ c.san # Noise
  BY <1>1, Made
<1>5. IF SanNames(csr.requests) = {} THEN c.san = Nothing ELSE c.san \in SanNames(csr.requests)
  BY <1>2, <1>4, SanIsRequested
<1> QED
  BY <1>3, <1>4, <1>5 DEF SanNames, csr, c, ca, p

\* EnrolledAsAsked: a device that is enrolled holds a certificate as its own
\* CSR asks for, of the CA of its profile, which no other device holds.
THEOREM AskedFor == Spec => []EnrolledAsAsked
BY InvHolds, InvAsked, PTL

-----------------------------------------------------------------------------
(***************************************************************************)
(* Serial numbers.  What a sequence of bytes denotes is a sum by           *)
(* recursion: that it exists, is a number and tells sequences of one       *)
(* length apart is shown by a least counterexample (UpTo).                 *)
(***************************************************************************)

\* A set of numbers that has 0 and, with each number below N, the next one,
\* has all numbers up to N: a least one missing would have its predecessor in
\* the set.
LEMMA UpTo ==
  ASSUME NEW N \in Nat, NEW P, 0 \in P, \A n \in 0..N : n < N /\ n \in P => n + 1 \in P
  PROVE  0..N \subseteq P
<1> DEFINE Missing == (0..N) \ P
<1> SUFFICES ASSUME Missing # {} PROVE FALSE
  OBVIOUS
<1>1. Missing \subseteq Nat
  OBVIOUS
<1>2. PICK n \in Missing : \A m \in Missing : n <= m
  <2> HIDE DEF Missing
  <2> QED
    BY <1>1, Least
<1>3. n # 0 /\ n - 1 \in 0..N /\ n - 1 < N /\ ~ (n <= n - 1)
  BY <1>2
<1>4. n - 1 \in P
  BY <1>2, <1>3
<1>5. (n - 1) + 1 \in P
  BY <1>3, <1>4
<1> QED
  BY <1>2, <1>3, <1>5

Bytes == Seq(0..(Base - 1))

\* The number that a sequence of bytes denotes so far, byte by byte.
Equations(bytes, f) ==
  [n \in 0..Len(bytes) |-> IF n = 0 THEN 0 ELSE f[n - 1] * Base + bytes[n]]
Sums(bytes) == CHOOSE f : f = Equations(bytes, f)

LEMMA ValueIsSum == \A bytes : Value(bytes) = Sums(bytes)[Len(bytes)]
BY DEF Value, Sums, Equations

\* The sums up to the k-th byte.
UpToByte(bytes, k, f) ==
  f = [n \in 0..k |-> IF n = 0 THEN 0 ELSE f[n - 1] * Base + bytes[n]]

LEMMA SumsExist ==
  ASSUME NEW bytes \in Bytes
  PROVE  Sums(bytes) = Equations(bytes, Sums(bytes))
<1> DEFINE P == {k \in 0..Len(bytes) : \E f : UpToByte(bytes, k, f)}
<1>1. Len(bytes) \in Nat
  BY DEF Bytes
<1>2. 0 \in P
  <2>1. UpToByte(bytes, 0, [n \in 0..0 |-> 0])
    BY DEF UpToByte
  <2> QED
    BY <1>1, <2>1
<1>3. ASSUME NEW k \in 0..Len(bytes), k < Len(bytes), k \in P PROVE k + 1 \in P
  <2>1. PICK f : UpToByte(bytes, k, f)
    BY <1>3
  <2> DEFINE g == [n \in 0..(k + 1) |-> IF n = k + 1 THEN f[k] * Base + bytes[k + 1] ELSE f[n]]
  <2>2. ASSUME NEW n \in 0..(k + 1)
        PROVE  g[n] = IF n = 0 THEN 0 ELSE g[n - 1] * Base + bytes[n]
    <3>1. CASE n = k + 1
      <4>1. n # 0 /\ n - 1 = k /\ k \in 0..(k + 1) /\ k # k + 1
        BY <3>1
      <4>2. g[n - 1] = f[k]
        BY <4>1
      <4>3. g[n] = f[k] * Base + bytes[n]
        BY <3>1
      <4> QED
        BY <4>1, <4>2, <4>3
    <3>2. CASE n # k + 1
      <4>1. n \in 0..k /\ g[n] = f[n]
        BY <3>2
      <4>2. n # 0 => g[n - 1] = f[n - 1]
        BY <3>2
      <4>3. f[n] = IF n = 0 THEN 0 ELSE f[n - 1] * Base + bytes[n]
        BY <2>1, <4>1 DEF UpToByte
      <4> QED
        BY <4>1, <4>2, <4>3
    <3> QED
      BY <3>1, <3>2
  <2>3. g = [n \in 0..(k + 1) |-> g[n]]
    OBVIOUS
  <2> HIDE DEF g
  <2>4. g = [n \in 0..(k + 1) |-> IF n = 0 THEN 0 ELSE g[n - 1] * Base + bytes[n]]
    BY <2>2, <2>3
  <2>5. UpToByte(bytes, k + 1, g)
    BY <2>4 DEF UpToByte
  <2>6. k + 1 \in 0..Len(bytes)
    BY <1>1, <1>3
  <2> QED
    BY <2>5, <2>6
<1>4. 0..Len(bytes) \subseteq P
  <2>1. \A k \in 0..Len(bytes) : k < Len(bytes) /\ k \in P => k + 1 \in P
    BY <1>3
  <2> HIDE DEF P
  <2> QED
    BY <1>1, <1>2, <2>1, UpTo
<1>5. PICK f : UpToByte(bytes, Len(bytes), f)
  BY <1>1, <1>4
<1>6. f = Equations(bytes, f)
  BY <1>5 DEF Equations, UpToByte
<1> QED
  BY <1>6 DEF Sums

\* A number and a byte are told apart in what they make together.
LEMMA Digit ==
  ASSUME NEW x \in Nat, NEW y \in Nat, NEW p \in 0..(Base - 1), NEW q \in 0..(Base - 1)
  PROVE  /\ x * Base + p \in Nat
         /\ x >= 1 => x * Base + p >= 1
         /\ x * Base + p = y * Base + q => x = y /\ p = q
<1> USE BytesAssumption
<1>1. /\ x * Base \in Nat /\ y * Base \in Nat
      /\ x < y => y * Base >= x * Base + Base
      /\ y < x => x * Base >= y * Base + Base
      /\ x >= 1 => x * Base >= Base
  <2>1. \A m, n \in Nat : m < n => n * Base >= m * Base + Base
    <3> SUFFICES ASSUME NEW m \in Nat, NEW n \in Nat, m < n
                 PROVE  n * Base >= m * Base + Base
      OBVIOUS
    <3>1. n >= m + 1 /\ (m + 1) * Base = m * Base + Base
      OBVIOUS
    <3>2. n * Base >= (m + 1) * Base
      BY <3>1
    <3> QED
      BY <3>1, <3>2
  <2>2. \A n \in Nat : n * Base \in Nat /\ 0 * Base = 0
    OBVIOUS
  <2> QED
    BY <2>1, <2>2
<1>2. x < y \/ y < x \/ x = y
  OBVIOUS
<1> QED
  BY <1>1, <1>2

LEMMA SumStep ==
  ASSUME NEW bytes \in Bytes
  PROVE  /\ Len(bytes) \in Nat
         /\ Sums(bytes)[0] = 0
         /\ \A n \in 0..Len(bytes) : n < Len(bytes) =>
              Sums(bytes)[n + 1] = Sums(bytes)[n] * Base + bytes[n + 1] /\ bytes[n + 1] \in 0..(Base - 1)
<1>1. Len(bytes) \in Nat /\ \A n \in 1..Len(bytes) : bytes[n] \in 0..(Base - 1)
  BY LenProperties, ElementOfSeq DEF Bytes
<1>2. \A n \in 0..Len(bytes) :
        Sums(bytes)[n] = IF n = 0 THEN 0 ELSE Sums(bytes)[n - 1] * Base + bytes[n]
  <2>1. ASSUME NEW f, f = Equations(bytes, f)
        PROVE  \A n \in 0..Len(bytes) : f[n] = IF n = 0 THEN 0 ELSE f[n - 1] * Base + bytes[n]
    BY <2>1 DEF Equations
  <2> QED
    BY <2>1, SumsExist
<1> QED
  BY <1>1, <1>2

LEMMA SumsAreNumbers ==
  ASSUME NEW bytes \in Bytes
  PROVE  \A n \in 0..Len(bytes) : Sums(bytes)[n] \in Nat
<1> DEFINE P == {n \in 0..Len(bytes) : Sums(bytes)[n] \in Nat}
<1>1. 0 \in P
  BY SumStep
<1>2. ASSUME NEW n \in 0..Len(bytes), n < Len(bytes), n \in P PROVE n + 1 \in P
  <2>1. Sums(bytes)[n] * Base + bytes[n + 1] \in Nat
    BY <1>2, SumStep, Digit
  <2> QED
    BY <1>2, <2>1, SumStep
<1>3. \A n \in 0..Len(bytes) : n < Len(bytes) /\ n \in P => n + 1 \in P
  BY <1>2
<1> HIDE DEF P
<1>4. 0..Len(bytes) \subseteq P
  BY <1>1, <1>3, SumStep, UpTo
<1> QED
  BY <1>4 DEF P

\* A number with a leading byte that is not zero is not zero.
LEMMA ValueIsPositive ==
  ASSUME NEW bytes \in Bytes, Len(bytes) >= 1, bytes[1] # 0
  PROVE  Value(bytes) \in Nat /\ Value(bytes) > 0
<1> DEFINE P == {n \in 0..Len(bytes) : n >= 1 => Sums(bytes)[n] >= 1}
<1>1. 0 \in P
  BY SumStep
<1>2. ASSUME NEW n \in 0..Len(bytes), n < Len(bytes), n \in P PROVE n + 1 \in P
  <2>1. Sums(bytes)[n] \in Nat /\ Sums(bytes)[n + 1] = Sums(bytes)[n] * Base + bytes[n + 1]
        /\ bytes[n + 1] \in 0..(Base - 1) /\ n + 1 \in 0..Len(bytes)
    BY <1>2, SumStep, SumsAreNumbers
  <2>2. CASE n = 0
    <3>1. Sums(bytes)[n] = 0 /\ bytes[n + 1] >= 1
      BY <2>1, <2>2, SumStep
    <3>2. 0 * Base = 0
      BY BytesAssumption
    <3> QED
      BY <2>1, <3>1, <3>2
  <2>3. CASE n # 0
    <3>1. Sums(bytes)[n] >= 1
      BY <1>2, <2>3
    <3>2. Sums(bytes)[n] * Base + bytes[n + 1] >= 1
      BY <2>1, <3>1, Digit
    <3> QED
      BY <2>1, <3>2
  <2> QED
    BY <2>2, <2>3
<1>3. \A n \in 0..Len(bytes) : n < Len(bytes) /\ n \in P => n + 1 \in P
  BY <1>2
<1> HIDE DEF P
<1>4. 0..Len(bytes) \subseteq P
  BY <1>1, <1>3, SumStep, UpTo
<1>5. Len(bytes) \in 0..Len(bytes)
  BY SumStep
<1>6. Sums(bytes)[Len(bytes)] >= 1 /\ Sums(bytes)[Len(bytes)] \in Nat
  BY <1>4, <1>5, SumsAreNumbers DEF P
<1> QED
  BY <1>6, ValueIsSum

\* Sequences of one length that denote one number are one sequence.
LEMMA ValueTellsApart ==
  ASSUME NEW a \in Bytes, NEW b \in Bytes, Len(a) = Len(b), Value(a) = Value(b)
  PROVE  a = b
<1> DEFINE P == {n \in 0..Len(a) : Sums(a)[n] = Sums(b)[n] => \A i \in 1..n : a[i] = b[i]}
<1>1. 0 \in P
  BY SumStep
<1>2. ASSUME NEW n \in 0..Len(a), n < Len(a), n \in P PROVE n + 1 \in P
  <2> SUFFICES ASSUME Sums(a)[n + 1] = Sums(b)[n + 1]
               PROVE  \A i \in 1..(n + 1) : a[i] = b[i]
    BY <1>2
  <2>1. /\ Sums(a)[n] \in Nat /\ Sums(b)[n] \in Nat
        /\ a[n + 1] \in 0..(Base - 1) /\ b[n + 1] \in 0..(Base - 1)
        /\ Sums(a)[n] * Base + a[n + 1] = Sums(b)[n] * Base + b[n + 1]
    BY <1>2, SumStep, SumsAreNumbers
  <2>2. PICK x, y, p, q : x = Sums(a)[n] /\ y = Sums(b)[n] /\ p = a[n + 1] /\ q = b[n + 1]
    OBVIOUS
  <2>3. x = y /\ p = q
    <3>1. x \in Nat /\ y \in Nat /\ p \in 0..(Base - 1) /\ q \in 0..(Base - 1)
          /\ x * Base + p = y * Base + q
      BY <2>1, <2>2
    <3> QED
      BY <3>1, Digit
  <2> QED
    <3>1. \A i \in 1..n : a[i] = b[i]
      BY <1>2, <2>2, <2>3
    <3>2. \A i \in 1..(n + 1) : i \in 1..n \/ i = n + 1
      OBVIOUS
    <3> QED
      BY <2>2, <2>3, <3>1, <3>2
<1>3. \A n \in 0..Len(a) : n < Len(a) /\ n \in P => n + 1 \in P
  BY <1>2
<1> HIDE DEF P
<1>4. 0..Len(a) \subseteq P
  BY <1>1, <1>3, SumStep, UpTo
<1>5. Len(a) \in 0..Len(a)
  BY SumStep
<1>6. \A i \in 1..Len(a) : a[i] = b[i]
  BY <1>4, <1>5, ValueIsSum DEF P
<1> QED
  BY <1>6, SeqEqual DEF Bytes

\* A serial whose first byte is neither zero nor has its top bit set is
\* encoded as it is.
LEMMA PlainSerial ==
  ASSUME NEW bytes \in Bytes, Len(bytes) >= 1, bytes[1] \in 1..(Half - 1)
  PROVE  SerialNumber(bytes) = bytes
<1> DEFINE Zeros == {n \in 0..(Len(bytes) - 1) : \A i \in 1..n : bytes[i] = 0}
           first == CHOOSE n \in Zeros : \A k \in Zeros : k <= n
           tail  == SubSeq(bytes, first + 1, Len(bytes))
<1>1. Len(bytes) \in Nat /\ bytes \in Seq(0..(Base - 1))
  BY DEF Bytes
<1>2. Zeros = {0}
  <2>1. ASSUME NEW n \in Zeros PROVE n = 0
    <3> SUFFICES ASSUME n # 0 PROVE FALSE
      OBVIOUS
    <3>1. 1 \in 1..n
      BY <1>1
    <3> QED
      BY <3>1
  <2> QED
    BY <1>1, <2>1
<1>3. first = 0
  BY <1>2
<1>4. SerialNumber(bytes) = IF tail[1] < Half THEN tail ELSE <<0>> \o tail
  BY DEF SerialNumber
<1> HIDE DEF first
<1>5. tail = bytes
  <2>1. tail = SubSeq(bytes, 1, Len(bytes))
    BY <1>3
  <2> QED
    <3>1. \A i \in 1..Len(bytes) : bytes[i] \in 0..(Base - 1)
      BY <1>1, ElementOfSeq
    <3>2. /\ tail \in Seq(0..(Base - 1)) /\ Len(tail) = Len(bytes)
          /\ \A i \in 1..Len(bytes) : tail[i] = bytes[i]
      <4>1. 1 \in Int /\ Len(bytes) \in Int /\ 1 <= Len(bytes)
            /\ Len(bytes) - 1 + 1 = Len(bytes) /\ \A i \in 1..Len(bytes) : 1 + i - 1 = i
        BY <1>1
      <4>2. /\ SubSeq(bytes, 1, Len(bytes)) \in Seq(0..(Base - 1))
            /\ Len(SubSeq(bytes, 1, Len(bytes))) = Len(bytes) - 1 + 1
            /\ \A i \in 1..(Len(bytes) - 1 + 1) : SubSeq(bytes, 1, Len(bytes))[i] = bytes[1 + i - 1]
        BY <3>1, <4>1, SubSeqProperties
      <4> HIDE DEF tail
      <4> QED
        BY <2>1, <4>1, <4>2
    <3> HIDE DEF tail
    <3> QED
      BY <1>1, <3>2, SeqEqual
<1>6. bytes[1] < Half
  BY BytesAssumption DEF Half
<1> QED
  BY <1>4, <1>5, <1>6

\* Random bytes make a serial of as many bytes that is encoded as it is.
LEMMA Random ==
  ASSUME NEW bytes \in [1..SerialBytes -> 0..(Base - 1)]
  PROVE  LET serial == RandomSerial(bytes)
         IN  /\ serial \in Bytes /\ Len(serial) = SerialBytes
             /\ serial[1] \in 1..(Half - 1)
             /\ SerialNumber(serial) = serial
<1> DEFINE low == bytes[1] % Half
           drawn == [bytes EXCEPT ![1] = IF low = 0 THEN 1 ELSE low]
<1>1. Half \in Nat /\ Half >= 2 /\ Half - 1 <= Base - 1 /\ SerialBytes >= 1 /\ SerialBytes \in Nat
  BY BytesAssumption DEF Half
<1>2. low \in 0..(Half - 1)
  <2>1. bytes[1] \in Nat
    BY <1>1, BytesAssumption
  <2> QED
    BY <1>1, <2>1
<1>3. 1 \in 1..SerialBytes
  BY <1>1
<1>4. drawn \in [1..SerialBytes -> 0..(Base - 1)] /\ drawn[1] \in 1..(Half - 1)
  <2>1. (IF low = 0 THEN 1 ELSE low) \in 1..(Half - 1)
    BY <1>1, <1>2
  <2>2. 1..(Half - 1) \subseteq 0..(Base - 1)
    BY <1>1, BytesAssumption
  <2> HIDE DEF low
  <2> QED
    BY <1>3, <2>1, <2>2
<1>5. RandomSerial(bytes) = SerialNumber(drawn)
  BY DEF RandomSerial
<1> HIDE DEF drawn
<1>6. drawn \in Bytes /\ Len(drawn) = SerialBytes
  <2>1. drawn \in Bytes
    BY <1>1, <1>4, SeqDef DEF Bytes
  <2>2. DOMAIN drawn = 1..SerialBytes /\ DOMAIN drawn = 1..Len(drawn) /\ Len(drawn) \in Nat
    BY <1>4, <2>1, LenProperties DEF Bytes
  <2>3. Len(drawn) \in 1..SerialBytes /\ SerialBytes \in 1..Len(drawn)
    BY <1>1, <2>2
  <2> QED
    BY <1>1, <2>1, <2>2, <2>3
<1>7. SerialNumber(drawn) = drawn
  BY <1>1, <1>4, <1>6, PlainSerial
<1> QED
  BY <1>4, <1>5, <1>6, <1>7

\* What the history of issuing says of serials: Intune is told of each
\* certificate its serial, which no other one has.
Numbered ==
  \A i \in issued :
    /\ i.decimal = SerialDecimal(i.cert.serial)
    /\ \A j \in issued : j.cert.serial = i.cert.serial => j = i

LEMMA MadeSerial ==
  ASSUME NEW ca, NEW csr, NEW opts, NEW bytes,
         Issue(ca, csr, opts, Today, bytes) # Nothing
  PROVE  Issue(ca, csr, opts, Today, bytes).serial = RandomSerial(bytes)
BY DEF Issue

LEMMA NextNumbered ==
  ASSUME Numbered, Next
  PROVE  Numbered'
<1> PICK d \in Devices : Fetch(d) \/ Send(d) \/ Damage(d) \/ Read(d) \/ Break(d) \/ Refuse(d) \/ Grant(d)
  BY DEF Next
<1>1. CASE Fetch(d) \/ Send(d) \/ Damage(d) \/ Read(d) \/ Break(d) \/ Refuse(d)
  <2>1. issued' = issued
    BY <1>1 DEF Fetch, Send, Damage, Read, Break, Refuse
  <2> QED
    BY <2>1 DEF Numbered
<1>2. CASE Grant(d)
  <2> DEFINE m == request[d]
             ca == Cert[CaOf[posted[d]]]
  <2>1. PICK csr \in CsrOf(m, ca), bytes \in Draws :
          LET made == Issue(ca, csr, Options[posted[d]], Today, bytes)
          IN  /\ \A i \in issued : i.cert.serial # RandomSerial(bytes)
              /\ issued' = IF made = Nothing THEN issued
                           ELSE issued \cup {[cert |-> made, csr |-> csr, profile |-> posted[d],
                                              txn |-> m.attrs.transactionID,
                                              decimal |-> SerialDecimal(made.serial)]}
    BY <1>2 DEF Grant
  <2> DEFINE made == Issue(ca, csr, Options[posted[d]], Today, bytes)
             dec == SerialDecimal(made.serial)
             new == [cert |-> made, csr |-> csr, profile |-> posted[d],
                     txn |-> m.attrs.transactionID, decimal |-> dec]
  <2>2. CASE made = Nothing
    BY <2>1, <2>2 DEF Numbered
  <2>3. CASE made # Nothing
    <3>1. issued' = issued \cup {new}
      BY <2>1, <2>3
    <3>2. new.decimal = SerialDecimal(new.cert.serial) /\ new.cert.serial = RandomSerial(bytes)
      BY <2>3, MadeSerial
    <3> HIDE DEF new
    <3>3. \A i \in issued : i.cert.serial # new.cert.serial
      BY <2>1, <3>2
    <3> QED
      BY <3>1, <3>2, <3>3 DEF Numbered
  <2> QED
    BY <2>2, <2>3
<1> QED
  BY <1>1, <1>2

LEMMA NumberedHolds == Spec => []Numbered
<1>1. Init => Numbered
  BY DEF Init, Numbered
<1>2. Numbered /\ [Next]_vars => Numbered'
  <2>1. Numbered /\ UNCHANGED vars => Numbered'
    BY DEF Numbered, vars
  <2> QED
    BY <2>1, NextNumbered
<1> QED
  BY <1>1, <1>2, PTL DEF Spec

LEMMA InvTravels == Inv /\ Numbered => SerialsTravelWell
<1> SUFFICES ASSUME Inv, Numbered PROVE SerialsTravelWell
  OBVIOUS
<1>1. SerialBytes \in Nat /\ SerialBytes >= 1
  BY BytesAssumption
<1>2. ASSUME NEW i \in issued
      PROVE  /\ i.cert.serial \in Bytes /\ Len(i.cert.serial) = SerialBytes
             /\ i.cert.serial[1] \in 1..(Half - 1)
             /\ SerialNumber(i.cert.serial) = i.cert.serial
             /\ i.decimal = Value(i.cert.serial)
  <2>1. PICK bytes \in Draws :
          i.cert = Issue(Cert[CaOf[i.profile]], i.csr, Options[i.profile], Today, bytes)
    BY DEF Inv, Issuings
  <2>2. i.cert.serial = RandomSerial(bytes)
    BY <2>1, MadeSerial DEF Inv, Issuings
  <2>3. bytes \in [1..SerialBytes -> 0..(Base - 1)]
    BY DrawsAssumption
  <2>4. /\ i.cert.serial \in Bytes /\ Len(i.cert.serial) = SerialBytes
        /\ i.cert.serial[1] \in 1..(Half - 1)
        /\ SerialNumber(i.cert.serial) = i.cert.serial
    BY <2>2, <2>3, Random
  <2>5. i.decimal = Value(i.cert.serial)
    BY <1>1, <2>4 DEF Numbered, SerialDecimal
  <2> QED
    BY <2>4, <2>5
<1>3. ASSUME NEW i \in issued PROVE i.decimal > 0
  <2>1. i.cert.serial[1] # 0
    BY <1>2
  <2> QED
    BY <1>1, <1>2, <2>1, ValueIsPositive
<1>4. ASSUME NEW i \in issued PROVE CrlSerial(i.cert.serial) = i.cert.serial
  BY <1>2 DEF CrlSerial
<1>5. ASSUME NEW i \in issued, NEW j \in issued, j.decimal = i.decimal PROVE j = i
  <2>1. Value(j.cert.serial) = Value(i.cert.serial) /\ Len(j.cert.serial) = Len(i.cert.serial)
    BY <1>2, <1>5
  <2>2. j.cert.serial = i.cert.serial
    BY <1>2, <2>1, ValueTellsApart
  <2> QED
    BY <2>2 DEF Numbered
<1> QED
  BY <1>2, <1>3, <1>4, <1>5 DEF SerialsTravelWell

\* SerialsTravelWell: Intune and the CRL name each certificate by its own
\* serial, a positive number that no other certificate has.
THEOREM SerialsTravel == Spec => []SerialsTravelWell
BY InvHolds, NumberedHolds, InvTravels, PTL
=============================================================================
