----------------------------- MODULE Enrolment -----------------------------
(***************************************************************************)
(* PKIOperation, src/http/scep.rs: the handlers of concurrent enrolment    *)
(* requests, the challenge validators of src/challenge/mod.rs they ask,    *)
(* and the tables of src/db/repo.rs they write.                            *)
(*                                                                         *)
(* A handler is a future on a multi-threaded runtime: what it does between *)
(* two awaits touches no shared state and is one step here, and each await *)
(* (the validator, a notification, an SQL statement) is a phase in which   *)
(* any other handler may run, the call may fail, the client may hang up    *)
(* (which drops the future) or the process may stop.                       *)
(*                                                                         *)
(* A request instance is handled once; a client that retries sends another *)
(* instance with the same transaction id.                                  *)
(***************************************************************************)
EXTENDS Scep, FiniteSets

CONSTANTS
  Reqs,           \* request instances
  Requests,       \* the messages a client may send
  CaOf,           \* the CA of each profile
  Mode,           \* the challenge mode of each profile
  NoReq,          \* "no message received yet"
  NoSerial        \* "no certificate was made"

Modes == {"static", "intune", "none"}

ASSUME CaOfAssumption == CaOf \in [Profiles -> CAs]
ASSUME ModeAssumption == Mode \in [Profiles -> Modes]
ASSUME RequestsAssumption ==
  \A m \in Requests : m \in Message({m.profile})
ASSUME NoReqAssumption == NoReq \notin Requests
ASSUME NoSerialAssumption == NoSerial \notin Serials

VARIABLES
  pc,        \* pc[r]: the await the handler of r is at
  msg,       \* msg[r]: the message of r
  serial,    \* serial[r]: the certificate made for r
  found,     \* found[r]: record_transaction's SELECT returned a row
  reply,     \* reply[r]: what the client was sent
  certs,     \* the table issued_certificate
  txns,      \* the table scep_transaction
  approved,  \* requests Intune has judged a success
  told,      \* the notifications Intune has received
  dbErrors   \* <<r, op>>: a statement of that part of r's work failed

vars == <<pc, msg, serial, found, reply, certs, txns, approved, told, dbErrors>>

Phases == {"idle",
           "validating",    \* rt.validator.validate
           "tellRejected",  \* on_failure after a failed validation
           "tellUnissued",  \* on_failure after ca.issue failed
           "inserting",     \* repo::insert_issued
           "finding",       \* record_transaction, its SELECT
           "writing",       \* record_transaction, its UPDATE or INSERT
           "tellIssued",    \* on_issued
           "answered",
           "gone"}          \* the future was dropped before it answered

InFlight == Phases \ {"idle", "answered", "gone"}

Notification == [req : Reqs, kind : {"success", "failure"}, serial : Serials \cup {NoSerial}]

TypeOK ==
  /\ pc \in [Reqs -> Phases]
  /\ msg \in [Reqs -> Requests \cup {NoReq}]
  /\ serial \in [Reqs -> Serials \cup {NoSerial}]
  /\ found \in [Reqs -> BOOLEAN]
  /\ reply \in [Reqs -> Replies \cup {"none"}]
  /\ certs \in CertTable
  /\ txns \in TxnTable
  /\ approved \subseteq Reqs
  /\ told \subseteq Notification
  /\ dbErrors \subseteq Reqs \X {"insert", "audit"}

Init ==
  /\ pc = [r \in Reqs |-> "idle"]
  /\ msg = [r \in Reqs |-> NoReq]
  /\ serial = [r \in Reqs |-> NoSerial]
  /\ found = [r \in Reqs |-> FALSE]
  /\ reply = [r \in Reqs |-> "none"]
  /\ certs = [s \in Serials |-> NoRow]
  /\ txns = [t \in Txns |-> NoRow]
  /\ approved = {}
  /\ told = {}
  /\ dbErrors = {}

-----------------------------------------------------------------------------
\* record writes "issued" for a request that has its certificate, "failed"
\* for one that was rejected.
AuditStatus(r) == IF serial[r] = NoSerial THEN "failed" ELSE "issued"

-----------------------------------------------------------------------------
(***************************************************************************)
(* What a bug in one of the definitions below would make of it.  Nothing   *)
(* uses these forms: substituted for the definition each is named after,   *)
(* they show that the properties can fail.                                 *)
(***************************************************************************)

\* A reply that cannot be built is turned into an in-band failure.
FinalReplyInBand(r) ==
  IF serial[r] = NoSerial \/ ~ msg[r].sealable THEN CertRep(msg[r], "BadRequest")
  ELSE CertRep(msg[r], "Success")

\* The status column takes the status of the transaction.
IssuedRowStatus(m) == [ca_id |-> CaOf[m.profile], transaction_id |-> m.txn,
                       profile |-> m.profile, status |-> "issued", revoked_at |-> NoTime]

\* Every row is filed under the first CA.
IssuedRowFirstCa(m) == [ca_id |-> CHOOSE c \in CAs : TRUE, transaction_id |-> m.txn,
                        profile |-> m.profile, status |-> "valid", revoked_at |-> NoTime]

\* persist records the transaction even if the insert failed.
AfterInsertErrorRecord(r) == "finding"

\* A certificate that cannot be stored is notified as a failure.
AfterInsertErrorReject(r) == "tellRejected"

\* The insert is tried until it succeeds.
AfterInsertErrorRetry(r) == "inserting"

\* The branches on what the SELECT returned are swapped.
WrittenTxnsSwapped(r) ==
  IF found[r] THEN InsertTransaction(txns, msg[r].txn, msg[r].profile, AuditStatus(r))
  ELSE UpdateTransaction(txns, msg[r].txn, AuditStatus(r))

\* The row is replaced as a whole.
WrittenTxnsReplaced(r) ==
  [txns EXCEPT ![msg[r].txn] = TxnRecord(msg[r].profile, AuditStatus(r))]

-----------------------------------------------------------------------------
(***************************************************************************)
(* Replying.                                                               *)
(***************************************************************************)

\* What the client is sent at the end: the certificate, sealed to its key, if
\* there is one.
FinalReply(r) ==
  IF serial[r] = NoSerial THEN CertRep(msg[r], "BadRequest")
  ELSE IF msg[r].sealable THEN CertRep(msg[r], "Success") ELSE "Http500"

\* The handler of r moves on to the await p, or returns.
GoTo(r, p) ==
  /\ pc' = [pc EXCEPT ![r] = p]
  /\ reply' = IF p = "answered" THEN [reply EXCEPT ![r] = FinalReply(r)] ELSE reply

-----------------------------------------------------------------------------
(***************************************************************************)
(* Receiving and validating.                                               *)
(***************************************************************************)

\* scep_get or scep_post hands the body to pki_operation, which runs without
\* awaiting up to rt.validator.validate.
Receive(r) ==
  /\ pc[r] = "idle"
  /\ \E m \in Requests :
       /\ msg' = [msg EXCEPT ![r] = m]
       /\ reply' = [reply EXCEPT ![r] = EarlyReply(m)]
       /\ pc' = [pc EXCEPT ![r] = IF EarlyReply(m) = "none" THEN "validating" ELSE "answered"]
  /\ UNCHANGED <<serial, found, certs, txns, approved, told, dbErrors>>

\* Intune judges the challenge of a request it was asked about.  Its answer
\* may still be lost on the way back.
IntuneApproves(r) ==
  /\ pc[r] = "validating"
  /\ Mode[msg[r].profile] = "intune"
  /\ r \notin approved
  /\ approved' = approved \cup {r}
  /\ UNCHANGED <<pc, msg, serial, found, reply, certs, txns, told, dbErrors>>

\* validate returns Ok.
Accepts(r) ==
  \/ Mode[msg[r].profile] = "none"
  \/ Mode[msg[r].profile] = "static" /\ msg[r].pw = "right"
  \/ Mode[msg[r].profile] = "intune" /\ r \in approved

\* validate may return Err: the password is wrong or missing, or Intune
\* refused, or could not be asked or heard.
MayReject(r) ==
  \/ Mode[msg[r].profile] = "static" /\ msg[r].pw # "right"
  \/ Mode[msg[r].profile] = "intune"

Reject(r) ==
  /\ pc[r] = "validating"
  /\ MayReject(r)
  /\ GoTo(r, "tellRejected")
  /\ UNCHANGED <<msg, serial, found, certs, txns, approved, told, dbErrors>>

\* random_serial: 120 random bits and more, taken to be unused.
Fresh(s) == \A q \in Reqs : serial[q] # s

\* validate returns Ok and ca.issue makes a certificate.
Issue(r) ==
  /\ pc[r] = "validating"
  /\ Accepts(r)
  /\ msg[r].issuable
  /\ \E s \in Serials : Fresh(s) /\ serial' = [serial EXCEPT ![r] = s]
  /\ GoTo(r, "inserting")
  /\ UNCHANGED <<msg, found, certs, txns, approved, told, dbErrors>>

\* validate returns Ok and ca.issue an error: Intune is told, nothing is
\* recorded.
CannotIssue(r) ==
  /\ pc[r] = "validating"
  /\ Accepts(r)
  /\ ~ msg[r].issuable
  /\ GoTo(r, "tellUnissued")
  /\ UNCHANGED <<msg, serial, found, certs, txns, approved, told, dbErrors>>

-----------------------------------------------------------------------------
(***************************************************************************)
(* Persisting.                                                             *)
(***************************************************************************)

\* persist: the row for the certificate of r.
IssuedRow(m) == [ca_id |-> CaOf[m.profile], transaction_id |-> m.txn,
                 profile |-> m.profile, status |-> "valid", revoked_at |-> NoTime]

AfterInsert(r) == InsertIssued(certs, serial[r], IssuedRow(msg[r]))

\* insert_issued succeeds and persist goes on to record_ok.
Insert(r) ==
  /\ pc[r] = "inserting"
  /\ certs[serial[r]] = NoRow
  /\ certs' = AfterInsert(r)
  /\ GoTo(r, "finding")
  /\ UNCHANGED <<msg, serial, found, txns, approved, told, dbErrors>>

\* persist returns the error before record_ok; pki_operation logs it and goes
\* on to on_issued.
AfterInsertError(r) == "tellIssued"

\* insert_issued returns an error: the row is there only if the database
\* committed it and the answer was lost.
InsertFails(r) ==
  /\ pc[r] = "inserting"
  /\ \/ UNCHANGED certs
     \/ certs[serial[r]] = NoRow /\ certs' = AfterInsert(r)
  /\ dbErrors' = dbErrors \cup {<<r, "insert">>}
  /\ GoTo(r, AfterInsertError(r))
  /\ UNCHANGED <<msg, serial, found, txns, approved, told>>

\* record's result is ignored; the next await is on_issued for an issued
\* request, while a rejected one is answered.
AfterRecord(r) == IF serial[r] = NoSerial THEN "answered" ELSE "tellIssued"

\* record_transaction, first statement.
Find(r) ==
  /\ pc[r] = "finding"
  /\ found' = [found EXCEPT ![r] = txns[msg[r].txn] # NoRow]
  /\ GoTo(r, "writing")
  /\ UNCHANGED <<msg, serial, certs, txns, approved, told, dbErrors>>

\* record_transaction, second statement, chosen by what the first one saw.
\* An INSERT that meets a row written since then fails on the primary key,
\* and the error is ignored.
WrittenTxns(r) ==
  IF found[r] THEN UpdateTransaction(txns, msg[r].txn, AuditStatus(r))
  ELSE InsertTransaction(txns, msg[r].txn, msg[r].profile, AuditStatus(r))

Write(r) ==
  /\ pc[r] = "writing"
  /\ txns' = WrittenTxns(r)
  /\ GoTo(r, AfterRecord(r))
  /\ UNCHANGED <<msg, serial, found, certs, approved, told, dbErrors>>

\* A statement of record_transaction returns an error: the second one may have
\* been committed all the same, and its answer lost.
RecordFails(r) ==
  /\ pc[r] \in {"finding", "writing"}
  /\ \/ UNCHANGED txns
     \/ pc[r] = "writing" /\ txns' = WrittenTxns(r)
  /\ dbErrors' = dbErrors \cup {<<r, "audit">>}
  /\ GoTo(r, AfterRecord(r))
  /\ UNCHANGED <<msg, serial, found, certs, approved, told>>

-----------------------------------------------------------------------------
(***************************************************************************)
(* Notifying.                                                              *)
(***************************************************************************)

TellPhases == {"tellRejected", "tellUnissued", "tellIssued"}

Story(r, phase) == [req |-> r, serial |-> serial[r],
                    kind |-> IF phase = "tellIssued" THEN "success" ELSE "failure"]

\* A rejection is notified before it is recorded, a certificate after.
AfterTelling(phase) == IF phase = "tellRejected" THEN "finding" ELSE "answered"

\* A notification reaches Intune; only the Intune validator sends any.
IntuneHears(r) ==
  /\ pc[r] \in TellPhases
  /\ Mode[msg[r].profile] = "intune"
  /\ Story(r, pc[r]) \notin told
  /\ told' = told \cup {Story(r, pc[r])}
  /\ UNCHANGED <<pc, msg, serial, found, reply, certs, txns, approved, dbErrors>>

\* on_failure or on_issued returns, whether Intune heard or not, and its
\* result is ignored.
Tell(r) ==
  /\ pc[r] \in TellPhases
  /\ GoTo(r, AfterTelling(pc[r]))
  /\ UNCHANGED <<msg, serial, found, certs, txns, approved, told, dbErrors>>

-----------------------------------------------------------------------------
(***************************************************************************)
(* Interruptions: the tables stay as they are.                             *)
(***************************************************************************)

\* The client hangs up and the server drops the handler's future.
HangUp(r) ==
  /\ pc[r] \in InFlight
  /\ pc' = [pc EXCEPT ![r] = "gone"]
  /\ UNCHANGED <<msg, serial, found, reply, certs, txns, approved, told, dbErrors>>

\* The process stops and starts again: the handlers are gone, the database is
\* not.
Restart ==
  /\ \E r \in Reqs : pc[r] \in InFlight
  /\ pc' = [r \in Reqs |-> IF pc[r] \in InFlight THEN "gone" ELSE pc[r]]
  /\ UNCHANGED <<msg, serial, found, reply, certs, txns, approved, told, dbErrors>>

-----------------------------------------------------------------------------
\* What the handler of r does once its await is over.
Handle(r) ==
  \/ Reject(r) \/ Issue(r) \/ CannotIssue(r)
  \/ Insert(r) \/ InsertFails(r)
  \/ Find(r) \/ Write(r) \/ RecordFails(r)
  \/ Tell(r)

Next ==
  \/ \E r \in Reqs : Receive(r) \/ Handle(r) \/ HangUp(r) \/ IntuneApproves(r) \/ IntuneHears(r)
  \/ Restart

\* The runtime polls every handler whose await is over, and every await ends:
\* the peer answers or the connection to it breaks.
Fairness == \A r \in Reqs : WF_vars(Handle(r))

Spec == Init /\ [][Next]_vars /\ Fairness

-----------------------------------------------------------------------------
(***************************************************************************)
(* Properties.                                                             *)
(***************************************************************************)

Issued(r) == serial[r] # NoSerial

\* A transaction recorded as issued has a certificate on record: the audit
\* trail never claims a certificate that the responders do not know
\* (persist inserts the certificate before record_ok).
IssuedAuditHasCertificate ==
  \A t \in Txns : (txns[t] # NoRow /\ txns[t].status = "issued") =>
    \E s \in Serials : certs[s] # NoRow /\ certs[s].transaction_id = t

\* The handler of r was to record its outcome and no statement of it failed.  A
\* request that ca.issue refused is not recorded.
Recorded(r) ==
  /\ \/ pc[r] = "tellIssued"
     \/ pc[r] = "answered" /\ EarlyReply(msg[r]) = "none" /\ msg[r].issuable
  /\ dbErrors \cap {<<r, "insert">>, <<r, "audit">>} = {}

\* Two handlers with one transaction id may both see no row and both INSERT;
\* the loser's error is ignored.  Whichever way they interleave, a request
\* whose outcome went to the database without an error leaves a row for its
\* transaction (record_transaction).
RecordedTransactionHasRow ==
  \A r \in Reqs : Recorded(r) => txns[msg[r].txn] # NoRow

\* A device that holds a certificate gets "good" for it from the OCSP
\* responder of the CA that signed it, unless the insert failed
\* (pki_operation, "Persist and notify (best effort)").
DeliveredIsGood ==
  \A r \in Reqs : (reply[r] = "Success" /\ <<r, "insert">> \notin dbErrors) =>
    StatusBySerial(certs, CaOf[msg[r].profile], serial[r]) = "good"

\* Intune is told of a failure only when no certificate exists or will exist
\* for the request, and of a success only with the serial of a certificate
\* that is on record or whose insert failed; never both (on_failure is called
\* "when issuance fails", on_issued "after a certificate is issued").
IntuneIsToldTheTruth ==
  \A n \in told :
    IF n.kind = "failure"
    THEN ~ Issued(n.req) /\ pc[n.req] \notin {"idle", "validating", "inserting"}
    ELSE /\ n.serial = serial[n.req] /\ Issued(n.req)
         /\ certs[n.serial] # NoRow \/ <<n.req, "insert">> \in dbErrors

\* Rows are never lost: no handler deletes or rewrites a certificate row, and
\* a transaction keeps its row and the profile that first used its id
\* (insert_issued and record_transaction are the only writers of the path).
RowsPersist ==
  [][/\ \A s \in Serials : certs[s] # NoRow => certs'[s] = certs[s]
     /\ \A t \in Txns : txns[t] # NoRow =>
          txns'[t] # NoRow /\ txns'[t].profile = txns[t].profile]_vars

\* Every request that came in is answered or dropped, whatever fails on the
\* way: no error path leaves a handler waiting (pki_operation).
EveryRequestIsSettled ==
  \A r \in Reqs : pc[r] \in InFlight ~> pc[r] \in {"answered", "gone"}

\* The enrolment path implements Issuance.
DeviceSees(r) ==
  CASE pc[r] = "idle" -> "absent"
    [] pc[r] \in InFlight -> "waiting"
    [] pc[r] = "gone" -> "nothing"
    [] pc[r] = "answered" ->
         (IF reply[r] = "Success" THEN "certificate"
          ELSE IF reply[r] \in Failures THEN "refusal" ELSE "nothing")

IntuneSees(r) ==
  IF \E n \in told : n.req = r /\ n.kind = "success" THEN "issued"
  ELSE IF \E n \in told : n.req = r THEN "failed" ELSE "nothing"

Abstract == INSTANCE Issuance WITH
  cert <- serial,
  registered <- {s \in Serials : certs[s] # NoRow},
  intune <- [r \in Reqs |-> IntuneSees(r)],
  device <- [r \in Reqs |-> DeviceSees(r)]

\* Every behaviour of the handlers, with the device, Intune and the table
\* seen through the mapping above, is one that Issuance allows: the three
\* parties never hear contradictory things of one request, and each request
\* comes to an end (pki_operation as a whole).
ImplementsIssuance == Abstract!Spec

\* The comment of record_transaction, src/db/repo.rs:157: "Upsert-ish: ignore
\* if the transaction id already exists."  Under it, a row that exists stays
\* as it is.
ExistingTransactionIsIgnored ==
  [][\A t \in Txns : txns[t] # NoRow => txns'[t] = txns[t]]_vars

\* src/http/scep.rs:115-117: "Every failure between here and a parsed CSR
\* gets the same in-band badMessageCheck reply with no detail", for a message
\* whose envelope is there and does not open.
UnopenableIsAnsweredInBand ==
  \A r \in Reqs :
    (pc[r] = "answered" /\ msg[r].profile \in Profiles /\ msg[r].body = "unopenable") =>
      reply[r] = "BadMessageCheck"
=============================================================================
