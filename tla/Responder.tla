----------------------------- MODULE Responder -----------------------------
(***************************************************************************)
(* The revocation responders, src/http/ocsp.rs and src/http/crl.rs, the    *)
(* revocation statement of src/db/repo.rs, and the certificate table they  *)
(* share with the enrolment path, which goes on inserting rows.            *)
(*                                                                         *)
(* An OCSP request may name several certificates; the responder reads the  *)
(* clock once and then runs one query for each, so that revocations fall   *)
(* between its reads.  The CRL is built from one query, and its date is    *)
(* read after the query.                                                   *)
(***************************************************************************)
EXTENDS Repo, Sequences

CONSTANTS
  OcspReqs,          \* OCSP requests
  CrlReqs,           \* CRL requests
  Revokers,          \* calls of repo::revoke
  Paths,             \* CA ids that appear in request paths, known or not
  Questions,         \* lists of certificate ids in OCSP requests
  Stamps,            \* the times revoke is called with
  MaxTime,           \* bound: the wall clock stops here, in hours
  NoAnswer           \* "not answered yet"

\* A CertID: the issuer the client names, and the serial.
CertId == [issuer : CAs, serial : Serials]

ASSUME QuestionsAssumption == Questions \subseteq Seq(CertId)
\* The two endpoints have requests of their own.
ASSUME QueriesAssumption == OcspReqs \cap CrlReqs = {}
ASSUME NoAnswerAssumption == NoAnswer \notin Paths
ASSUME StampsAssumption == Stamps \subseteq Stamp
ASSUME MaxTimeAssumption == MaxTime \in Nat

OcspLifetime == 1    \* NEXT_UPDATE_SECS, in hours
CrlLifetime  == 24   \* CRL_LIFETIME_SECS, in hours

VARIABLES
  clock,      \* the wall clock
  certs,      \* the table issued_certificate
  phase,      \* phase[q]: where the handler of an OCSP or CRL request is
  ca,         \* ca[q]: the CA of its path
  ask,        \* ask[q]: the certificates an OCSP request names
  started,    \* started[q]: the clock when an OCSP request came in, which
              \* build_response reads as this_update, or when the rows of a
              \* CRL were read (history)
  singles,    \* singles[q]: the entries of the OCSP response so far
  listed,     \* listed[q]: the rows read for a CRL, its entries
  response,   \* response[q]: the validity period signed into the answer
  revokedWhen,\* the clock when a row was updated (history)
  outcome,    \* outcome[v]: what the call v of revoke returned
  target      \* target[v]: the arguments of a call v that returned true

vars == <<clock, certs, phase, ca, ask, started, singles, listed, response,
          revokedWhen, outcome, target>>

Queries == OcspReqs \cup CrlReqs

Phases == {"idle",
           "looking",   \* build_response, in status_by_serial
           "listing",   \* build_crl, in list_revoked
           "dating",    \* build_crl, list_revoked has returned
           "answered",
           "failed",    \* an HTTP error
           "gone"}      \* the client hung up or the process stopped

InFlight == {"looking", "listing", "dating"}

Single   == [id : CertId, status : {"good", "revoked", "unknown"}]
Validity == [this_update : Time, next_update : Time]
Call     == [ca : CAs, serial : Serials, at : Stamp]

TypeOK ==
  /\ clock \in Time
  /\ certs \in CertTable
  /\ phase \in [Queries -> Phases]
  /\ ca \in [Queries -> Paths \cup {NoAnswer}]
  /\ ask \in [OcspReqs -> Seq(CertId)]
  /\ started \in [Queries -> Time]
  /\ singles \in [OcspReqs -> Seq(Single)]
  /\ listed \in [CrlReqs -> SUBSET RevokedRow]
  /\ response \in [Queries -> Validity \cup {NoAnswer}]
  /\ revokedWhen \in [Serials -> Time \cup {NoTime}]
  /\ outcome \in [Revokers -> {"none", "true", "false", "error"}]
  /\ target \in [Revokers -> Call \cup {NoAnswer}]

Init ==
  /\ clock = 0
  /\ certs = [s \in Serials |-> NoRow]
  /\ phase = [q \in Queries |-> "idle"]
  /\ ca = [q \in Queries |-> NoAnswer]
  /\ ask = [q \in OcspReqs |-> <<>>]
  /\ started = [q \in Queries |-> 0]
  /\ singles = [q \in OcspReqs |-> <<>>]
  /\ listed = [q \in CrlReqs |-> {}]
  /\ response = [q \in Queries |-> NoAnswer]
  /\ revokedWhen = [s \in Serials |-> NoTime]
  /\ outcome = [v \in Revokers |-> "none"]
  /\ target = [v \in Revokers |-> NoAnswer]

RequestVars == <<phase, ca, ask, started, singles, listed, response>>
TableVars == <<certs, revokedWhen, outcome, target>>

-----------------------------------------------------------------------------
(***************************************************************************)
(* The table.                                                              *)
(***************************************************************************)

Tick ==
  /\ clock < MaxTime
  /\ clock' = clock + 1
  /\ UNCHANGED <<RequestVars, TableVars>>

\* An enrolment is persisted: serials are fresh, rows start valid.
Enrol(s) ==
  /\ certs[s] = NoRow
  /\ \E c \in CAs, t \in Txns, p \in Profiles :
       certs' = InsertIssued(certs, s, [ca_id |-> c, transaction_id |-> t, profile |-> p,
                                        status |-> "valid", revoked_at |-> NoTime])
  /\ UNCHANGED <<clock, RequestVars, revokedWhen, outcome, target>>

\* The UPDATE, and the moment at which it revokes a row.
Update(call) ==
  /\ certs' = Revoke(certs, call.ca, call.serial, call.at)
  /\ revokedWhen' = IF Revocable(certs, call.ca, call.serial)
                    THEN [revokedWhen EXCEPT ![call.serial] = clock] ELSE revokedWhen

\* A call of repo::revoke, for any CA and serial and with any time: the caller
\* hands in a string that nothing checks.  It returns whether a row was
\* affected, or an error, after which the row may or may not be updated.
Revocation(v) ==
  /\ outcome[v] = "none"
  /\ \E call \in [ca : CAs, serial : Serials, at : Stamps] :
       \/ /\ Update(call)
          /\ Revocable(certs, call.ca, call.serial)
          /\ outcome' = [outcome EXCEPT ![v] = "true"]
          /\ target' = [target EXCEPT ![v] = call]
       \/ /\ Update(call)
          /\ ~ Revocable(certs, call.ca, call.serial)
          /\ outcome' = [outcome EXCEPT ![v] = "false"]
          /\ UNCHANGED target
       \/ /\ Update(call) \/ UNCHANGED <<certs, revokedWhen>>
          /\ outcome' = [outcome EXCEPT ![v] = "error"]
          /\ UNCHANGED target
  /\ UNCHANGED <<clock, RequestVars>>

-----------------------------------------------------------------------------
(***************************************************************************)
(* OCSP: build_response.                                                   *)
(***************************************************************************)

\* Mutated form of OcspThisUpdate: the time is read when the answer is signed.
OcspThisUpdateLate(q) == clock

\* this_update is read before the first query and goes into every entry and
\* into the signed response.
OcspThisUpdate(q) == started[q]

OcspValidity(q) == [this_update |-> OcspThisUpdate(q),
                    next_update |-> OcspThisUpdate(q) + OcspLifetime]

\* A request for an unknown CA, or one that does not parse, is an HTTP error;
\* otherwise the clock is read and the loop over the entries starts.
OcspArrives(q) ==
  /\ phase[q] = "idle"
  /\ \E c \in Paths, es \in Questions, parses \in BOOLEAN :
       /\ ca' = [ca EXCEPT ![q] = c]
       /\ ask' = [ask EXCEPT ![q] = es]
       /\ phase' = [phase EXCEPT ![q] =
            IF c \notin CAs \/ ~ parses THEN "failed" ELSE "looking"]
  /\ started' = [started EXCEPT ![q] = clock]
  /\ UNCHANGED <<clock, TableVars, singles, listed, response>>

\* The loop has been through every entry.
Done(q) == Len(singles[q]) = Len(ask[q])

NextId(q) == ask[q][Len(singles[q]) + 1]

\* One turn of the loop.  The CertID's issuer is not looked at: the status is
\* that of its serial under the CA of the path.
Lookup(q) ==
  /\ phase[q] = "looking"
  /\ Len(singles[q]) < Len(ask[q])
  /\ singles' = [singles EXCEPT ![q] = Append(@,
       [id |-> NextId(q), status |-> StatusBySerial(certs, ca[q], NextId(q).serial)])]
  /\ UNCHANGED <<clock, TableVars, phase, ca, ask, started, listed, response>>

\* After the last entry the response is signed and sent.  A revocation date
\* that is missing or cannot be written is replaced by the current time
\* (to_cert_status), so that no row is in the way of an answer.
Sign(q) ==
  /\ phase[q] = "looking"
  /\ Done(q)
  /\ response' = [response EXCEPT ![q] = OcspValidity(q)]
  /\ phase' = [phase EXCEPT ![q] = "answered"]
  /\ UNCHANGED <<clock, TableVars, ca, ask, started, singles, listed>>

-----------------------------------------------------------------------------
(***************************************************************************)
(* The CRL: build_crl.                                                     *)
(***************************************************************************)

CrlArrives(q) ==
  /\ phase[q] = "idle"
  /\ \E c \in Paths :
       /\ ca' = [ca EXCEPT ![q] = c]
       /\ phase' = [phase EXCEPT ![q] = IF c \in CAs THEN "listing" ELSE "failed"]
  /\ UNCHANGED <<clock, TableVars, ask, started, singles, listed, response>>

List(q) ==
  /\ phase[q] = "listing"
  /\ listed' = [listed EXCEPT ![q] = ListRevoked(certs, ca[q])]
  /\ started' = [started EXCEPT ![q] = clock]
  /\ phase' = [phase EXCEPT ![q] = "dating"]
  /\ UNCHANGED <<clock, TableVars, ca, ask, singles, response>>

\* Mutated form of Date: a row whose date cannot be written is skipped.
DateSkips(q) ==
  /\ phase[q] = "dating"
  /\ listed' = [listed EXCEPT ![q] = {row \in @ : row.revoked_at # Unwritable}]
  /\ response' = [response EXCEPT ![q] =
       [this_update |-> clock, next_update |-> clock + CrlLifetime]]
  /\ phase' = [phase EXCEPT ![q] = "answered"]
  /\ UNCHANGED <<clock, TableVars, ca, ask, started, singles>>

\* now is read once the rows are there; then each row is given its date, or
\* now if it has none, and the list is signed and sent.  One date that cannot
\* be written is an error of the whole list (to_time).
Date(q) ==
  /\ phase[q] = "dating"
  /\ \A row \in listed[q] : row.revoked_at # Unwritable
  /\ response' = [response EXCEPT ![q] =
       [this_update |-> clock, next_update |-> clock + CrlLifetime]]
  /\ phase' = [phase EXCEPT ![q] = "answered"]
  /\ UNCHANGED <<clock, TableVars, ca, ask, started, singles, listed>>

-----------------------------------------------------------------------------
\* A query fails: the whole answer is an HTTP error.
QueryFails(q) ==
  /\ \/ phase[q] = "listing"
     \/ phase[q] = "looking" /\ Len(singles[q]) < Len(ask[q])
  /\ phase' = [phase EXCEPT ![q] = "failed"]
  /\ UNCHANGED <<clock, TableVars, ca, ask, started, singles, listed, response>>

\* The reply cannot be built, encoded or signed: a date (of the CRL or of one
\* of its rows), the nonce of an OCSP request or the signature.
AnswerFails(q) ==
  /\ phase[q] = "dating" \/ (phase[q] = "looking" /\ Done(q))
  /\ phase' = [phase EXCEPT ![q] = "failed"]
  /\ UNCHANGED <<clock, TableVars, ca, ask, started, singles, listed, response>>

HangUp(q) ==
  /\ phase[q] \in InFlight
  /\ phase' = [phase EXCEPT ![q] = "gone"]
  /\ UNCHANGED <<clock, TableVars, ca, ask, started, singles, listed, response>>

\* The process stops and starts again: its handlers are gone, the table is not.
Restart ==
  /\ \E q \in Queries : phase[q] \in InFlight
  /\ phase' = [q \in Queries |-> IF phase[q] \in InFlight THEN "gone" ELSE phase[q]]
  /\ UNCHANGED <<clock, TableVars, ca, ask, started, singles, listed, response>>

HandleOcsp(q) == Lookup(q) \/ Sign(q) \/ QueryFails(q) \/ AnswerFails(q)
HandleCrl(q) == List(q) \/ Date(q) \/ QueryFails(q) \/ AnswerFails(q)

Next ==
  \/ Tick
  \/ \E s \in Serials : Enrol(s)
  \/ \E v \in Revokers : Revocation(v)
  \/ \E q \in OcspReqs : OcspArrives(q) \/ HandleOcsp(q)
  \/ \E q \in CrlReqs : CrlArrives(q) \/ HandleCrl(q)
  \/ \E q \in Queries : HangUp(q)
  \/ Restart

Spec == Init /\ [][Next]_vars

-----------------------------------------------------------------------------
(***************************************************************************)
(* Properties.                                                             *)
(***************************************************************************)

\* What an entry of an OCSP answer says holds as of the this_update signed
\* with it: a certificate reported good was not revoked before that time,
\* although its entry is read later and other entries in between
\* (build_response).
GoodAsOfThisUpdate ==
  \A q \in OcspReqs : phase[q] = "answered" =>
    \A i \in 1..Len(singles[q]) : singles[q][i].status = "good" =>
      LET s == singles[q][i].id.serial
      IN  revokedWhen[s] = NoTime \/ revokedWhen[s] >= response[q].this_update

\* A CRL is whole or it is not there.  Every certificate of the CA that was
\* revoked before the rows were read is on it, with the date its row still
\* has, also where the column has none; nothing else is; and from the moment
\* one row of the CA has a date that cannot be written, no CRL of that CA is
\* issued any more, rather than one without that row (list_revoked,
\* build_crl).  What is revoked between the read and the date is missing.
CrlIsWholeOrAbsent ==
  \A q \in CrlReqs : phase[q] = "answered" =>
    /\ \A s \in Serials :
         (/\ certs[s] # NoRow /\ certs[s].ca_id = ca[q]
          /\ revokedWhen[s] # NoTime /\ revokedWhen[s] < started[q]) =>
           /\ \E row \in listed[q] : row.serial = s
           /\ certs[s].revoked_at # Unwritable
    /\ \A row \in listed[q] :
         /\ certs[row.serial] # NoRow /\ certs[row.serial].ca_id = ca[q]
         /\ certs[row.serial].revoked_at = row.revoked_at
         /\ revokedWhen[row.serial] # NoTime /\ revokedWhen[row.serial] <= started[q]
    /\ started[q] <= response[q].this_update

\* The two responders agree: a serial that a CRL lists is revoked in every
\* OCSP answer of that CA to a request that came in after the CRL was dated
\* (status_by_serial and list_revoked read the same column).
RespondersAgree ==
  \A c \in CrlReqs, q \in OcspReqs :
    (/\ phase[c] = "answered" /\ phase[q] = "answered" /\ ca[c] = ca[q]
     /\ response[c].this_update < started[q]) =>
      \A i \in 1..Len(singles[q]) :
        (\E row \in listed[c] : row.serial = singles[q][i].id.serial) =>
          singles[q][i].status = "revoked"

\* Of the calls that revoke one certificate at most one is told that it did,
\* and the row holds the time of that call for good (revoke: "WHERE ... AND
\* status = ?").
OneRevokerWins ==
  \A v \in Revokers : outcome[v] = "true" =>
    /\ certs[target[v].serial].status = "revoked"
    /\ certs[target[v].serial].revoked_at = target[v].at
    /\ \A w \in Revokers \ {v} :
         outcome[w] = "true" => target[w].serial # target[v].serial

\* Revocation is final: no step makes a revoked certificate valid again or
\* moves its date (revoke is the only UPDATE of the table).
RevocationIsFinal ==
  [][\A s \in Serials :
       (certs[s] # NoRow /\ certs[s].status = "revoked") => certs'[s] = certs[s]]_vars

\* src/http/ocsp.rs:4-5, "Certificates we never issued are reported
\* `unknown`": a certificate is named by its issuer and serial.
NeverIssuedIsUnknown ==
  \A q \in OcspReqs : \A i \in 1..Len(singles[q]) :
    LET id == singles[q][i].id
    IN  ~ Selects(certs, id.issuer, id.serial) => singles[q][i].status = "unknown"
=============================================================================
