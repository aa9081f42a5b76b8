------------------------------ MODULE Issuance ------------------------------
(***************************************************************************)
(* What an enrolment service promises, with nothing of how it is done.     *)
(* Three parties hear of a request: the device that sent it, Intune, and,  *)
(* through the certificate table, the OCSP and CRL endpoints.  They may    *)
(* hear nothing, but what they hear agrees.                                *)
(***************************************************************************)
CONSTANTS
  Reqs,     \* request instances; a retry is another instance
  Serials,  \* certificate serial numbers
  NoSerial  \* "no certificate was made"

VARIABLES
  cert,        \* cert[r]: the certificate made for request r, or NoSerial
  registered,  \* the serials in the certificate table
  intune,      \* intune[r]: what Intune was told of request r
  device       \* device[r]: where the device that sent r stands

vars == <<cert, registered, intune, device>>

TypeOK ==
  /\ cert \in [Reqs -> Serials \cup {NoSerial}]
  /\ registered \subseteq Serials
  /\ intune \in [Reqs -> {"nothing", "issued", "failed"}]
  /\ device \in [Reqs -> {"absent", "waiting", "certificate", "refusal", "nothing"}]

Init ==
  /\ cert = [r \in Reqs |-> NoSerial]
  /\ registered = {}
  /\ intune = [r \in Reqs |-> "nothing"]
  /\ device = [r \in Reqs |-> "absent"]

\* A request comes in; one that asks for nothing is answered at once.
Arrive(r) ==
  /\ device[r] = "absent"
  /\ \E d \in {"waiting", "refusal", "nothing"} : device' = [device EXCEPT ![r] = d]
  /\ UNCHANGED <<cert, registered, intune>>

\* A certificate is made under a serial no request has, and only as long as
\* nobody was told that there would be none.
Issue(r) ==
  /\ device[r] = "waiting"
  /\ cert[r] = NoSerial
  /\ intune[r] = "nothing"
  /\ \E s \in Serials :
       /\ \A q \in Reqs : cert[q] # s
       /\ cert' = [cert EXCEPT ![r] = s]
  /\ UNCHANGED <<registered, intune, device>>

\* The certificate becomes known to the responders, if it ever does, before
\* Intune hears of it and before the request is over.
Register(r) ==
  /\ device[r] = "waiting"
  /\ cert[r] # NoSerial
  /\ intune[r] = "nothing"
  /\ registered' = registered \cup {cert[r]}
  /\ UNCHANGED <<cert, intune, device>>

TellIntune(r) ==
  /\ device[r] = "waiting"
  /\ intune[r] = "nothing"
  /\ intune' = [intune EXCEPT ![r] = IF cert[r] = NoSerial THEN "failed" ELSE "issued"]
  /\ UNCHANGED <<cert, registered, device>>

\* The request is over: the device has what was decided, or nothing at all
\* (an HTTP error).
Answer(r) ==
  /\ device[r] = "waiting"
  /\ \E d \in {IF cert[r] = NoSerial THEN "refusal" ELSE "certificate", "nothing"} :
       device' = [device EXCEPT ![r] = d]
  /\ UNCHANGED <<cert, registered, intune>>

\* Requests in flight are lost together when the server stops.
Abandon(R) ==
  /\ \A r \in R : device[r] = "waiting"
  /\ device' = [r \in Reqs |-> IF r \in R THEN "nothing" ELSE device[r]]
  /\ UNCHANGED <<cert, registered, intune>>

Next ==
  \/ \E r \in Reqs : Arrive(r) \/ Issue(r) \/ Register(r) \/ TellIntune(r) \/ Answer(r)
  \/ \E R \in SUBSET Reqs : Abandon(R)

\* Every request that came in is over at some time.
Fairness == \A r \in Reqs : WF_vars(Answer(r))

Safety == Init /\ [][Next]_vars
Spec == Safety /\ Fairness

-----------------------------------------------------------------------------
\* What the three parties were told agrees: the device holds a certificate or
\* a refusal, Intune has heard of one or of a failure, and the table holds
\* rows, only as requests have certificates of their own or none.  No request
\* is both refused to its device and issued to Intune, or the reverse.
Agreement ==
  /\ \A r \in Reqs :
       /\ device[r] = "certificate" \/ intune[r] = "issued" => cert[r] # NoSerial
       /\ device[r] \in {"absent", "refusal"} \/ intune[r] = "failed" => cert[r] = NoSerial
  /\ \A q, r \in Reqs : cert[q] # NoSerial /\ cert[q] = cert[r] => q = r
  /\ registered \subseteq {cert[r] : r \in Reqs} \ {NoSerial}
=============================================================================
