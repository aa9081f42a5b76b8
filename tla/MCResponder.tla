---------------------------- MODULE MCResponder ----------------------------
(***************************************************************************)
(* Small instances of Responder: two CAs, one of which is asked, requests  *)
(* for one certificate twice or for two, and two concurrent revocations.   *)
(***************************************************************************)
EXTENDS Responder, TLC

CONSTANTS ca1, ca2, s1, s2

Id(c, s) == [issuer |-> c, serial |-> s]

\* One certificate asked for twice, and two certificates.
Twice == {<<Id(ca1, s1), Id(ca1, s1)>>, <<Id(ca1, s1), Id(ca1, s2)>>}

\* One serial under each issuer.
BothIssuers == {<<Id(ca1, s1)>>, <<Id(ca2, s1)>>}

\* Revoking calls are interchangeable.
Interchangeable == Permutations(Revokers)
=============================================================================
