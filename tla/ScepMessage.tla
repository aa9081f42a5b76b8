---------------------------- MODULE ScepMessage ----------------------------
(***************************************************************************)
(* SCEP messages as src/crypto reads and writes them: parse_and_verify of  *)
(* verify.rs, open and build_for of envelope.rs, build_cert_rep of sign.rs *)
(* with the attributes of src/scep.                                        *)
(*                                                                         *)
(* Cryptography is symbolic.  A signature names the key that made it and   *)
(* what it is over, a digest what it is of, and something encrypted the    *)
(* key that opens it.  A certificate is its name (issuer and serial        *)
(* together), its subject key identifier and its key.                      *)
(***************************************************************************)
EXTENDS Scep, Authority, FiniteSets

CONSTANTS
  RsaKeys,        \* RSA key pairs
  ShortKeys,      \* keys that are too short to wrap a content key
  LongNames,      \* names with a serial of more than 20 octets
  ServerNonce,    \* a nonce of the server
  NoCek           \* a content key that no sender uses

MessageTypes == {"CertRep", "PKCSReq", "RenewalReq", "GetCertInitial", "GetCert", "GetCRL"}

\* The digests that verify_rsa knows; GetCACaps names SHA-512 as well.
Digests == {"SHA-256", "SHA-1"}

-----------------------------------------------------------------------------
(***************************************************************************)
(* SignedData.                                                             *)
(***************************************************************************)

\* A message with its signature, as build_cert_rep makes it: the digest of
\* the content, if there is any, is a value of a signed attribute.
SignedData(signer, digest, attrs, content) ==
  LET md     == IF content = Nothing THEN {} ELSE {[digest |-> digest, of |-> content]}
      signed == [attrs EXCEPT !.messageDigest = md]
  IN  [decodes |-> TRUE, signer |-> signer, digest |-> digest, attrs |-> signed,
       signature |-> [key |-> signer.key, digest |-> digest, over |-> signed],
       econtent |-> content]

Attributes(type, txn, nonce) ==
  [messageType |-> type, transactionID |-> txn, senderNonce |-> nonce,
   messageDigest |-> {}, recipientNonce |-> Nothing, pkiStatus |-> Nothing,
   failInfo |-> Nothing]

\* verify_rsa, with the key of the embedded certificate.
SignatureVerifies(m) ==
  /\ m.digest \in Digests
  /\ m.signature = [key |-> m.signer.key, digest |-> m.digest, over |-> m.attrs]

\* Mutated form: it is enough that a digest is there.
ContentIsSignedByAny(m) ==
  m.econtent # Nothing => m.attrs.messageDigest # {}

\* The signed attributes are about the content that came with them.
ContentIsSigned(m) ==
  m.econtent # Nothing => m.attrs.messageDigest = {[digest |-> m.digest, of |-> m.econtent]}

AttributesRead(m) ==
  /\ m.attrs.messageType \in MessageTypes
  /\ m.attrs.transactionID \notin {Nothing, Noise}
  /\ m.attrs.senderNonce \notin {Nothing, Noise}

\* parse: the content is an EnvelopedData; a recipient whose serial is longer
\* than 20 octets does not decode.
IsEnvelope(content) ==
  /\ content # Noise
  /\ content.kind = "enveloped"
  /\ \A i \in 1..Len(content.recipients) : content.recipients[i].rid.id \notin LongNames

Enveloping == {"PKCSReq", "RenewalReq", "CertRep"}

\* parse_and_verify: the HTTP error of a message that does not pass, by the
\* order of its checks; "none" for one that does.
ParseError(m) ==
  IF ~ m.decodes THEN "Http400"
  ELSE IF m.signer.key \notin RsaKeys THEN "Http500"
  ELSE IF ~ (SignatureVerifies(m) /\ ContentIsSigned(m) /\ AttributesRead(m)) THEN "Http400"
  ELSE IF /\ m.attrs.messageType \in Enveloping /\ m.econtent # Nothing
          /\ ~ IsEnvelope(m.econtent) THEN "Http500"
  ELSE "none"

-----------------------------------------------------------------------------
(***************************************************************************)
(* EnvelopedData: a content key wrapped for each recipient, and content    *)
(* encrypted under it.                                                     *)
(***************************************************************************)

\* The ciphers open knows, the length of their keys and of their blocks.
Ciphers == {"AES-128-CBC", "AES-192-CBC", "AES-256-CBC", "DES-EDE3-CBC", "DES-CBC"}

KeyLength(alg) ==
  CASE alg = "AES-128-CBC" -> 16
    [] alg \in {"AES-192-CBC", "DES-EDE3-CBC"} -> 24
    [] alg = "AES-256-CBC" -> 32
    [] alg = "DES-CBC" -> 8

IvLength(alg) == IF alg \in {"DES-EDE3-CBC", "DES-CBC"} THEN 8 ELSE 16

\* ktri_matches: the recipient is named like the certificate.
Named(ri, cert) ==
  ri.rid = [by |-> "name", id |-> cert.name] \/ ri.rid = [by |-> "ski", id |-> cert.ski]

KeyTransport(e) == {i \in 1..Len(e.recipients) : e.recipients[i].kind = "ktri"}

First(I) == CHOOSE i \in I : \A j \in I : i <= j

\* Mutated form of Selected: the first that unwraps, if one does.
SelectedByUnwrapping(e, cert) ==
  LET Fit == {i \in KeyTransport(e) : /\ e.alg \in Ciphers
                                      /\ e.recipients[i].encKey.to = cert.key
                                      /\ e.recipients[i].encKey.cek.len = KeyLength(e.alg)}
      Ours == {i \in KeyTransport(e) : Named(e.recipients[i], cert)}
  IN  IF Fit # {} THEN First(Fit) ELSE IF Ours # {} THEN First(Ours) ELSE 0

\* select_recipient: the first one that names the certificate, or else the
\* only one there is; 0 for none.
Selected(e, cert) ==
  LET Ours == {i \in KeyTransport(e) : Named(e.recipients[i], cert)}
  IN  IF Ours # {} THEN First(Ours)
      ELSE IF Cardinality(KeyTransport(e)) = 1 THEN First(KeyTransport(e))
      ELSE 0

\* unwrap_cek: a wrapped key that does not unwrap, or not to a key of the
\* right length, stands for a key that opens nothing.
UnwrapCek(key, encKey, len) ==
  IF encKey.to = key /\ encKey.cek.len = len THEN encKey.cek ELSE [len |-> len, id |-> NoCek]

\* decrypt_symmetric: what was encrypted, if the key is the right one; with
\* another one it fails to unpad or comes to what is nothing to anybody.
Decrypt(alg, cek, encrypted) ==
  {c.plain : c \in {x \in encrypted : x.alg = alg /\ x.cek = cek}}

\* What open asks of the public part of an envelope; the length of the IV is
\* looked at last, by decrypt_symmetric.
Openable(e, cert) ==
  /\ e.alg \in Ciphers
  /\ e.encrypted # {}
  /\ e.iv = IvLength(e.alg)
  /\ Selected(e, cert) # 0

\* open: the plaintext, if there is one.
Open(e, cert) ==
  IF ~ Openable(e, cert) THEN {}
  ELSE LET encKey == e.recipients[Selected(e, cert)].encKey
       IN  Decrypt(e.alg, UnwrapCek(cert.key, encKey, KeyLength(e.alg)), e.encrypted)

\* build_for: a fresh key for AES-256, wrapped for one recipient, which is
\* named as in its own certificate however long its serial is.
BuildFor(plain, recipient, cek) ==
  LET fresh == [len |-> 32, id |-> cek]
  IN  [kind |-> "enveloped", alg |-> "AES-256-CBC", iv |-> 16,
       recipients |-> <<[kind |-> "ktri", rid |-> [by |-> "name", id |-> recipient.name],
                         encKey |-> [to |-> recipient.key, cek |-> fresh]]>>,
       encrypted |-> {[alg |-> "AES-256-CBC", cek |-> fresh, plain |-> plain]}]

-----------------------------------------------------------------------------
(***************************************************************************)
(* CertRep.                                                                *)
(***************************************************************************)

\* success_attrs and failure_attrs: the reply is of the transaction and the
\* nonce of the request.
ReplyAttrs(m, status, failInfo) ==
  [Attributes("CertRep", m.attrs.transactionID, ServerNonce)
     EXCEPT !.recipientNonce = m.attrs.senderNonce, !.pkiStatus = status, !.failInfo = failInfo]

\* An answer over HTTP: a status, and a CertRep if it is 200.
HttpError(status) == [http |-> status, body |-> Nothing]

\* build_cert_rep, after attributes that fail for an id that is not printable.
Answer(cert, m, status, failInfo, content) ==
  IF m.attrs.transactionID \notin PrintableTxns THEN HttpError("Http500")
  ELSE [http |-> "Http200",
        body |-> SignedData([name |-> cert.name, ski |-> cert.ski, key |-> cert.key], "SHA-256",
                            ReplyAttrs(m, status, failInfo), content)]

\* build_failure.
Failure(cert, m, failInfo) == Answer(cert, m, "FAILURE", failInfo, Nothing)

\* Mutated form: the reply is sealed to the key in the CSR.
SuccessToCsrKey(cert, m, issued, cek) ==
  LET holder == [m.signer EXCEPT !.key = issued.key]
  IN  IF holder.key \in ShortKeys THEN HttpError("Http500")
      ELSE Answer(cert, m, "SUCCESS", Nothing, BuildFor([kind |-> "certs", cert |-> issued], holder, cek))

\* The reply with a certificate, sealed to the certificate the request was
\* signed with; build_for fails if the key of that is too short.
Success(cert, m, issued, cek) ==
  IF m.signer.key \in ShortKeys THEN HttpError("Http500")
  ELSE Answer(cert, m, "SUCCESS", Nothing, BuildFor([kind |-> "certs", cert |-> issued], m.signer, cek))
=============================================================================
