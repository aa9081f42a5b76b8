------------------------------ MODULE MCBlapki ------------------------------
(***************************************************************************)
(* Small instances of Blapki: an Intune profile and an open one on two     *)
(* CAs, a request that may have either outcome, and one certificate to ask *)
(* for.                                                                    *)
(***************************************************************************)
EXTENDS Blapki

CONSTANTS ca1, ca2, intune, open, t, s1, s2

MCCaOf == [p \in Profiles |-> IF p = intune THEN ca2 ELSE ca1]
MCMode == [p \in Profiles |-> IF p = intune THEN "intune" ELSE "none"]

Csr(p, issuable) == [profile |-> p, txn |-> t, body |-> "csr", pw |-> "absent",
                     issuable |-> issuable, sealable |-> TRUE]

MCRequests == {Csr(intune, TRUE), Csr(open, FALSE)}

OneCertificate == {<<[issuer |-> ca2, serial |-> s1]>>}
=============================================================================
