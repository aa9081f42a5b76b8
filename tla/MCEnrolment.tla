---------------------------- MODULE MCEnrolment ----------------------------
(***************************************************************************)
(* Small instances of Enrolment: a static profile on one CA, an Intune     *)
(* profile on another, a profile that is not configured, one transaction   *)
(* id that a reply can carry and one that it cannot.                       *)
(***************************************************************************)
EXTENDS Enrolment, TLC

CONSTANTS ca1, ca2, static, intune, none, unknown, t, u, r1, r2, r3, s1, s2, s3

MCCAs == {ca1, ca2}
MCCaOf == [p \in {static, intune, none} |-> IF p = intune THEN ca2 ELSE ca1]
MCMode == [p \in {static, intune, none} |->
             IF p = static THEN "static" ELSE IF p = intune THEN "intune" ELSE "none"]

Csr(p, txn, pw) == [profile |-> p, txn |-> txn, body |-> "csr", pw |-> pw,
                    issuable |-> TRUE, sealable |-> TRUE]

\* Requests that reach the tables, all with one transaction id: what clients
\* that retry, or share an id, send.
Contenders == {Csr(static, t, "right"), Csr(static, t, "wrong"), Csr(intune, t, "absent")}

\* The same with a request that has no certificate to expect.
Outcomes == Contenders \cup
  {[Csr(intune, t, "absent") EXCEPT !.issuable = FALSE],
   [Csr(none, t, "absent") EXCEPT !.sealable = FALSE],
   Csr(intune, u, "absent"), Csr(static, u, "absent")}

\* The messages that are answered without an await.
Early == {Csr(unknown, t, "right")} \cup
  {[Csr(static, id, "right") EXCEPT !.body = b] : id \in {t, u}, b \in Bodies \ {"csr"}}

AllRequests == Outcomes \cup Early

\* Handlers and serials are interchangeable.
Interchangeable == Permutations(Reqs) \cup Permutations(Serials)
=============================================================================
