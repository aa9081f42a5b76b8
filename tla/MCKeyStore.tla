----------------------------- MODULE MCKeyStore -----------------------------
(***************************************************************************)
(* Small instances of KeyStore: every text of four lines, two blocks one   *)
(* after the other however they are separated, DER, and what may be left   *)
(* of a bundle.                                                            *)
(***************************************************************************)
EXTENDS KeyStore

CONSTANTS a, b

Object(kind, p) == [kind |-> kind, pair |-> p, whole |-> TRUE]
Base64(object) == [is |-> "base64", object |-> object]
Begin(l) == [is |-> "begin", label |-> l]
End == [is |-> "end"]
Other == [is |-> "other"]

Begins == {Begin(l) : l \in {"CERTIFICATE", "PRIVATE KEY", "ENCRYPTED PRIVATE KEY"}}
Bodies == {Base64(Object("Certificate", a)), Base64(Object("PKCS8", b)),
           Base64(Object("EncryptedPKCS8", a)), Other}
SomeLines == Begins \cup Bodies \cup {End}

UpTo(n) == UNION {[1..k -> SomeLines] : k \in 0..n}

Apart == {<<l, x, e, m, y>> : l \in Begins, x \in Bodies, e \in SomeLines, m \in Begins, y \in Bodies}

Der == {<<[is |-> "der", object |-> Object(kind, a)]>> : kind \in Kinds}

\* A PKCS#1 key comes after a CRL.
Listed == {<<Begin("X509 CRL"), Base64(Object("PKCS1", b)), End,
             Begin("RSA PRIVATE KEY"), Base64(Object("PKCS1", a)), End>>}

Left == UNION {{t \in {[i \in 1..n |-> IF i = n THEN l ELSE Bundle(a)[i]] :
                         l \in {Bundle(a)[n]} \cup Pieces(Bundle(a)[n])} : LeftOf(t, Bundle(a))} :
               n \in 1..6}

MCTexts == UpTo(4) \cup Apart \cup Der \cup Listed \cup Left

MCPadded == {Object("EncryptedPKCS8", a)}
=============================================================================
