---------------------------- MODULE BlapkiProofs ----------------------------
(***************************************************************************)
(* Proofs about Blapki, for any number of handlers and connections, any    *)
(* tables and messages.  Every step of the server is shown to be a step of *)
(* Enrolment on the table as it was inserted and a step of Responder on    *)
(* the table as it is, so that what is proved of either module holds of    *)
(* the server; the pool and what OCSP says of a delivered certificate are  *)
(* then argued on top of that.                                             *)
(***************************************************************************)
EXTENDS Blapki, FiniteSetTheorems, TLAPS

EP == INSTANCE EnrolmentProofs WITH certs <- Inserted
RP == INSTANCE ResponderProofs

-----------------------------------------------------------------------------
(***************************************************************************)
(* The two modules, their proofs and this module speak of the same.        *)
(***************************************************************************)

\* What Enrolment asks of the constants.
LEMMA EnrolmentAssumptions ==
  /\ EP!NoRowAssumption /\ EP!NoTimeAssumption /\ EP!CaOfAssumption /\ EP!ModeAssumption
  /\ EP!RequestsAssumption /\ EP!NoReqAssumption /\ EP!NoSerialAssumption
<1>1. EP!NoRowAssumption
  BY NoRowAssumption
  DEF EP!CertRow, EP!TxnRow, EP!Time, EP!Stamp, EP!CertStatus, EP!TxnStatus,
      CertRow, TxnRow, Time, Stamp, CertStatus, TxnStatus
<1>2. EP!NoTimeAssumption
  BY NoTimeAssumption DEF EP!Time, Time
<1>3. EP!CaOfAssumption /\ EP!ModeAssumption
  BY EnrolmentAssumption DEF EP!Modes, E!Modes
<1>4. EP!RequestsAssumption /\ EP!NoReqAssumption /\ EP!NoSerialAssumption
  BY EnrolmentAssumption
  DEF EP!Message, E!Message, EP!Bodies, E!Bodies, EP!Passwords, E!Passwords
<1> QED
  BY <1>1, <1>2, <1>3, <1>4

\* What Responder asks of them.
LEMMA ResponderAssumptions ==
  /\ RP!NoRowAssumption /\ RP!NoTimeAssumption /\ RP!QuestionsAssumption
  /\ RP!QueriesAssumption /\ RP!NoAnswerAssumption /\ RP!StampsAssumption
  /\ RP!MaxTimeAssumption
<1>1. RP!NoRowAssumption
  BY NoRowAssumption
  DEF RP!CertRow, RP!TxnRow, RP!Time, RP!Stamp, RP!CertStatus, RP!TxnStatus,
      CertRow, TxnRow, Time, Stamp, CertStatus, TxnStatus
<1>2. RP!NoTimeAssumption
  BY NoTimeAssumption DEF RP!Time, Time
<1>3. /\ RP!QuestionsAssumption /\ RP!NoAnswerAssumption /\ RP!StampsAssumption
      /\ RP!MaxTimeAssumption
  BY ResponderAssumption DEF RP!CertId, R!CertId, RP!Stamp, Stamp, RP!Time, Time
<1>4. RP!QueriesAssumption
  BY HandlersAssumption
<1> QED
  BY <1>1, <1>2, <1>3, <1>4

\* The enrolment path of the property and that of the proofs are one.
LEMMA SameEnrolment ==
  /\ EP!Init <=> Enrolled!Init
  /\ [EP!Next]_(EP!vars) <=> [Enrolled!Next]_(Enrolled!vars)
<1> USE DEF EP!GoTo, Enrolled!GoTo, EP!FinalReply, Enrolled!FinalReply,
            EP!CertRep, Enrolled!CertRep
<1>1. \A r \in Reqs : EP!Receive(r) <=> Enrolled!Receive(r)
  BY DEF EP!Receive, Enrolled!Receive, EP!EarlyReply, Enrolled!EarlyReply
<1>2. \A r \in Reqs : EP!Reject(r) <=> Enrolled!Reject(r)
  BY DEF EP!Reject, Enrolled!Reject, EP!MayReject, Enrolled!MayReject
<1>3. \A r \in Reqs : EP!Issue(r) <=> Enrolled!Issue(r)
  BY DEF EP!Issue, Enrolled!Issue, EP!Accepts, Enrolled!Accepts, EP!Fresh, Enrolled!Fresh
<1>4. \A r \in Reqs : EP!CannotIssue(r) <=> Enrolled!CannotIssue(r)
  BY DEF EP!CannotIssue, Enrolled!CannotIssue, EP!Accepts, Enrolled!Accepts
<1>5. \A r \in Reqs : EP!AfterInsert(r) = Enrolled!AfterInsert(r)
  BY DEF EP!AfterInsert, Enrolled!AfterInsert, EP!InsertIssued, Enrolled!InsertIssued,
         EP!IssuedRow, Enrolled!IssuedRow
<1>6. \A r \in Reqs : /\ EP!Insert(r) <=> Enrolled!Insert(r)
                      /\ EP!InsertFails(r) <=> Enrolled!InsertFails(r)
  BY <1>5 DEF EP!Insert, Enrolled!Insert, EP!InsertFails, Enrolled!InsertFails,
              EP!AfterInsertError, Enrolled!AfterInsertError
<1>7. \A r \in Reqs : EP!Find(r) <=> Enrolled!Find(r)
  BY DEF EP!Find, Enrolled!Find
<1>8. \A r \in Reqs : EP!WrittenTxns(r) = Enrolled!WrittenTxns(r)
  BY DEF EP!WrittenTxns, Enrolled!WrittenTxns, EP!UpdateTransaction, Enrolled!UpdateTransaction,
         EP!InsertTransaction, Enrolled!InsertTransaction, EP!TxnRecord, Enrolled!TxnRecord,
         EP!AuditStatus, Enrolled!AuditStatus
<1>9. \A r \in Reqs : /\ EP!Write(r) <=> Enrolled!Write(r)
                      /\ EP!RecordFails(r) <=> Enrolled!RecordFails(r)
  BY <1>8 DEF EP!Write, Enrolled!Write, EP!RecordFails, Enrolled!RecordFails,
              EP!AfterRecord, Enrolled!AfterRecord
<1>10. \A r \in Reqs : /\ EP!Tell(r) <=> Enrolled!Tell(r)
                       /\ EP!IntuneHears(r) <=> Enrolled!IntuneHears(r)
  BY DEF EP!Tell, Enrolled!Tell, EP!AfterTelling, Enrolled!AfterTelling, EP!TellPhases,
         Enrolled!TellPhases, EP!IntuneHears, Enrolled!IntuneHears, EP!Story, Enrolled!Story
<1>11. \A r \in Reqs : /\ EP!HangUp(r) <=> Enrolled!HangUp(r)
                       /\ EP!IntuneApproves(r) <=> Enrolled!IntuneApproves(r)
  BY DEF EP!HangUp, Enrolled!HangUp, EP!InFlight, Enrolled!InFlight, EP!Phases,
         Enrolled!Phases, EP!IntuneApproves, Enrolled!IntuneApproves
<1>12. EP!Restart <=> Enrolled!Restart
  BY DEF EP!Restart, Enrolled!Restart, EP!InFlight, Enrolled!InFlight, EP!Phases,
         Enrolled!Phases
<1>13. \A r \in Reqs : EP!Handle(r) <=> Enrolled!Handle(r)
  BY <1>2, <1>3, <1>4, <1>6, <1>7, <1>9, <1>10 DEF EP!Handle, Enrolled!Handle
<1>14. EP!Next <=> Enrolled!Next
  BY <1>1, <1>10, <1>11, <1>12, <1>13 DEF EP!Next, Enrolled!Next
<1>15. EP!Init <=> Enrolled!Init
  BY DEF EP!Init, Enrolled!Init
<1>16. UNCHANGED EP!vars <=> UNCHANGED Enrolled!vars
  BY DEF EP!vars, Enrolled!vars
<1> QED
  BY <1>14, <1>15, <1>16

\* So are the responders.
LEMMA SameResponder ==
  /\ RP!Init <=> R!Init
  /\ [RP!Next]_(RP!vars) <=> [R!Next]_(R!vars)
<1> USE DEF RP!RequestVars, R!RequestVars, RP!TableVars, R!TableVars, RP!Queries, R!Queries,
            RP!InFlight, R!InFlight
<1>1. /\ RP!Tick <=> R!Tick
      /\ RP!Restart <=> R!Restart
  BY DEF RP!Tick, R!Tick, RP!Restart, R!Restart
<1>2. \A s \in Serials : RP!Enrol(s) <=> R!Enrol(s)
  BY DEF RP!Enrol, R!Enrol, RP!InsertIssued, R!InsertIssued
<1>3. \A v \in Revokers : RP!Revocation(v) <=> R!Revocation(v)
  BY DEF RP!Revocation, R!Revocation, RP!Update, R!Update, RP!Revocable, R!Revocable,
         RP!Revoke, R!Revoke, RP!Selects, R!Selects
<1>4. \A q \in OcspReqs : /\ RP!OcspArrives(q) <=> R!OcspArrives(q)
                          /\ RP!Lookup(q) <=> R!Lookup(q)
                          /\ RP!Sign(q) <=> R!Sign(q)
  BY DEF RP!OcspArrives, R!OcspArrives, RP!Lookup, R!Lookup, RP!NextId, R!NextId,
         RP!StatusBySerial, R!StatusBySerial, RP!Selects, R!Selects, RP!Sign, R!Sign,
         RP!Done, R!Done, RP!OcspValidity, R!OcspValidity, RP!OcspThisUpdate, R!OcspThisUpdate,
         RP!OcspLifetime, R!OcspLifetime
<1>5. \A q \in CrlReqs : /\ RP!CrlArrives(q) <=> R!CrlArrives(q)
                         /\ RP!List(q) <=> R!List(q)
                         /\ RP!Date(q) <=> R!Date(q)
  BY DEF RP!CrlArrives, R!CrlArrives, RP!List, R!List, RP!ListRevoked, R!ListRevoked,
         RP!Selects, R!Selects, RP!Date, R!Date, RP!CrlLifetime, R!CrlLifetime
<1>6. \A q \in R!Queries : /\ RP!QueryFails(q) <=> R!QueryFails(q)
                           /\ RP!AnswerFails(q) <=> R!AnswerFails(q)
                           /\ RP!HangUp(q) <=> R!HangUp(q)
  BY DEF RP!QueryFails, R!QueryFails, RP!AnswerFails, R!AnswerFails, RP!Done, R!Done,
         RP!HangUp, R!HangUp
<1>7. RP!Next <=> R!Next
  BY <1>1, <1>2, <1>3, <1>4, <1>5, <1>6
  DEF RP!Next, R!Next, RP!HandleOcsp, R!HandleOcsp, RP!HandleCrl, R!HandleCrl
<1>8. RP!Init <=> R!Init
  BY DEF RP!Init, R!Init
<1>9. UNCHANGED RP!vars <=> UNCHANGED R!vars
  BY DEF RP!vars, R!vars
<1> QED
  BY <1>7, <1>8, <1>9

-----------------------------------------------------------------------------
(***************************************************************************)
(* The responders see the enrolment path as inserts of valid rows.         *)
(***************************************************************************)

\* What a handler that inserts works on.
LEMMA Inserting ==
  ASSUME EP!Progress, NEW r \in Reqs, pc[r] = "inserting"
  PROVE  /\ serial[r] \in Serials /\ msg[r] \in Requests
         /\ CaOf[msg[r].profile] \in CAs
         /\ msg[r].txn \in Txns /\ msg[r].profile \in Profiles
<1>1. serial[r] \in Serials
  BY EP!InsertType, EnrolmentAssumptions
<1>2. msg[r] \in Requests /\ EP!EarlyReply(msg[r]) = "none"
  BY DEF EP!Progress, EP!PhaseInv, EP!InFlight, EP!Phases
<1>3. msg[r].profile \in Profiles /\ msg[r].txn \in Txns
  BY <1>2, EP!EarlyReplies, EP!MessageFields, EnrolmentAssumptions
<1> QED
  BY <1>1, <1>2, <1>3, EnrolmentAssumption

\* A statement of the enrolment path leaves the certificates alone or adds
\* the row of its request.
LEMMA StatementTable ==
  ASSUME NEW r \in Reqs, EnrolmentStatement(r) \/ EnrolmentTimesOut(r)
  PROVE  /\ UNCHANGED ResponderVars
         /\ \/ UNCHANGED certs
            \/ pc[r] = "inserting" /\ certs[serial[r]] = NoRow /\ certs' = E!AfterInsert(r)
BY DEF EnrolmentStatement, EnrolmentTimesOut, E!Insert, E!InsertFails, E!Find, E!Write,
   E!RecordFails

\* Every step of the server is one of the responders, or none.
LEMMA ResponderSteps == EP!Progress /\ RP!Base /\ [Next]_vars => [R!Next]_(R!vars)
<1> SUFFICES ASSUME EP!Progress, RP!Base, [Next]_vars PROVE [R!Next]_(R!vars)
  OBVIOUS
<1>1. UNCHANGED <<certs, ResponderVars>> => UNCHANGED R!vars
  BY DEF R!vars, ResponderVars
<1>2. ASSUME NEW h \in Handlers, Acquire(h) PROVE UNCHANGED R!vars
  BY <1>1, <1>2 DEF Acquire
<1>3. ASSUME NEW r \in Reqs, Enrolling(r) \/ DeviceHangsUp(r) PROVE UNCHANGED R!vars
  BY <1>1, <1>3 DEF Enrolling, DeviceHangsUp, E!Receive, E!IntuneApproves, E!IntuneHears,
     E!Reject, E!Issue, E!CannotIssue, E!Tell, E!HangUp
<1>4. ASSUME NEW r \in Reqs, EnrolmentStatement(r) \/ EnrolmentTimesOut(r)
      PROVE  [R!Next]_(R!vars)
  <2>1. CASE UNCHANGED certs
    BY <1>1, <1>4, <2>1, StatementTable
  <2>2. CASE ~ UNCHANGED certs
    <3>1. pc[r] = "inserting" /\ certs[serial[r]] = NoRow /\ certs' = E!AfterInsert(r)
      BY <1>4, <2>2, StatementTable
    <3>2. R!Enrol(serial[r])
      BY <1>4, <3>1, StatementTable, Inserting
      DEF R!Enrol, E!AfterInsert, E!InsertIssued, R!InsertIssued, E!IssuedRow, ResponderVars,
          R!RequestVars
    <3> QED
      BY <3>1, <3>2, Inserting DEF R!Next
  <2> QED
    BY <2>1, <2>2
<1>5. ASSUME NEW q \in R!Queries, QueryArrives(q) PROVE R!Next
  BY <1>5 DEF QueryArrives, R!Next
<1>6. ASSUME NEW q \in R!Queries, Responding(q) PROVE R!Next
  BY <1>6 DEF Responding, R!Next, R!HandleOcsp, R!HandleCrl, R!Queries
<1>7. ASSUME NEW q \in R!Queries, ResponderStatement(q) \/ ResponderTimesOut(q) PROVE R!Next
  BY <1>7 DEF ResponderStatement, ResponderTimesOut, R!Next, R!HandleOcsp, R!HandleCrl, R!Queries
<1>8. ASSUME NEW q \in R!Queries, ClientHangsUp(q) PROVE R!Next
  BY <1>8 DEF ClientHangsUp, R!Next
<1>9. ASSUME NEW v \in Revokers, RevokerStatement(v) \/ RevokerTimesOut(v) PROVE R!Next
  BY <1>9 DEF RevokerStatement, RevokerTimesOut, R!Next
<1>10. ASSUME Restart PROVE [R!Next]_(R!vars)
  <2>1. \A q \in R!Queries : InFlight(q) <=> phase[q] \in R!InFlight
    BY HandlersAssumption DEF InFlight, R!Queries
  <2>2. phase' = [q \in R!Queries |-> IF phase[q] \in R!InFlight THEN "gone" ELSE phase[q]]
    BY <1>10, <2>1 DEF Restart
  <2>3. CASE \E q \in R!Queries : phase[q] \in R!InFlight
    BY <1>10, <2>2, <2>3 DEF Restart, R!Next, R!Restart, R!TableVars
  <2>4. CASE \A q \in R!Queries : phase[q] \notin R!InFlight
    <3>1. phase \in [R!Queries -> RP!Phases]
      BY DEF RP!Base, RP!TypeOK, RP!Queries, R!Queries
    <3>2. phase' = phase
      BY <2>2, <2>4, <3>1
    <3> QED
      BY <1>1, <1>10, <3>2 DEF Restart, ResponderVars
  <2> QED
    BY <2>3, <2>4
<1>11. ASSUME Tick PROVE R!Next
  BY <1>11 DEF Tick, R!Next
<1>12. ASSUME UNCHANGED vars PROVE UNCHANGED R!vars
  BY <1>1, <1>12 DEF vars
<1> QED
  BY <1>2, <1>3, <1>4, <1>5, <1>6, <1>7, <1>8, <1>9, <1>10, <1>11, <1>12 DEF Next

-----------------------------------------------------------------------------
(***************************************************************************)
(* The enrolment path sees nothing of the responders.                      *)
(***************************************************************************)

\* AsInserted takes back a revocation.
LEMMA AsInsertedRow ==
  ASSUME NEW row \in CertRow, row # NoRow
  PROVE  AsInserted(row) = [ca_id |-> row.ca_id, transaction_id |-> row.transaction_id,
                            profile |-> row.profile, status |-> "valid", revoked_at |-> NoTime]
BY DEF AsInserted, CertRow

\* The table as it was inserted has the rows of the table, and they have the
\* columns of a row.
LEMMA InsertedRows ==
  ASSUME RP!Base
  PROVE  /\ certs \in CertTable
         /\ \A s \in Serials : certs[s] # NoRow =>
              /\ certs[s] \in CertRow
              /\ Inserted[s] \in CertRow /\ Inserted[s] # NoRow
              /\ Inserted[s].ca_id = certs[s].ca_id
         /\ \A s \in Serials : certs[s] = NoRow => Inserted[s] = NoRow
<1>1. certs \in CertTable
  BY DEF RP!Base, RP!TypeOK, RP!CertTable, CertTable, RP!CertRow, CertRow, RP!CertStatus,
     CertStatus, RP!Stamp, Stamp, RP!Time, Time
<1>2. ASSUME NEW s \in Serials, certs[s] # NoRow
      PROVE  /\ certs[s] \in CertRow
             /\ Inserted[s] \in CertRow
             /\ Inserted[s].ca_id = certs[s].ca_id
  BY <1>1, <1>2 DEF CertTable, Inserted, AsInserted, CertRow, CertStatus, Stamp
<1> QED
  BY <1>1, <1>2, NoRowAssumption DEF Inserted, AsInserted

\* Adding a row for r adds it to the table as it was inserted.
LEMMA InsertedInsert ==
  ASSUME EP!Progress, RP!Base, NEW r \in Reqs, pc[r] = "inserting",
         certs[serial[r]] = NoRow, certs' = E!AfterInsert(r)
  PROVE  Inserted[serial[r]] = NoRow /\ Inserted' = Enrolled!AfterInsert(r)
<1> DEFINE row == [ca_id |-> CaOf[msg[r].profile], transaction_id |-> msg[r].txn,
                   profile |-> msg[r].profile, status |-> "valid", revoked_at |-> NoTime]
<1>1. serial[r] \in Serials /\ row \in CertRow
  BY Inserting DEF CertRow, CertStatus, Stamp
<1>2. row # NoRow /\ AsInserted(row) = row
  BY <1>1, NoRowAssumption DEF AsInserted, CertRow
<1>3. certs' = [certs EXCEPT ![serial[r]] = row]
  BY DEF E!AfterInsert, E!InsertIssued, E!IssuedRow
<1>4. Enrolled!AfterInsert(r) = [Inserted EXCEPT ![serial[r]] = row]
  BY DEF Enrolled!AfterInsert, Enrolled!InsertIssued, Enrolled!IssuedRow
<1>5. certs'[serial[r]] = row /\ \A s \in Serials \ {serial[r]} : certs'[s] = certs[s]
  BY <1>1, <1>3, InsertedRows DEF CertTable
<1>6. Inserted' = [s \in Serials |-> IF s = serial[r] THEN row ELSE AsInserted(certs[s])]
  BY <1>2, <1>5 DEF Inserted
<1> QED
  BY <1>1, <1>4, <1>6, InsertedRows DEF Inserted

\* Revoking a row does not change what was inserted.
LEMMA InsertedRevoke ==
  ASSUME RP!Base, NEW v \in Revokers, R!Revocation(v)
  PROVE  UNCHANGED Inserted
<1>1. PICK call \in [ca : CAs, serial : Serials, at : Stamps] :
        certs' = R!Revoke(certs, call.ca, call.serial, call.at) \/ UNCHANGED certs
  BY DEF R!Revocation, R!Update
<1>2. CASE R!Revocable(certs, call.ca, call.serial)
           /\ certs' = R!Revoke(certs, call.ca, call.serial, call.at)
  <2> DEFINE s == call.serial
             new == [ca_id |-> certs[s].ca_id, transaction_id |-> certs[s].transaction_id,
                     profile |-> certs[s].profile, status |-> "revoked", revoked_at |-> call.at]
  <2>1. s \in Serials /\ certs[s] # NoRow /\ certs[s] \in CertRow /\ call.at \in Stamp
    <3>1. s \in Serials /\ certs[s] # NoRow
      BY <1>2 DEF R!Revocable, R!Selects
    <3>2. call.at \in Stamp
      BY ResponderAssumption
    <3> QED
      BY <3>1, <3>2, InsertedRows
  <2>2. certs' = [certs EXCEPT ![s] = new]
    BY <1>2 DEF R!Revoke
  <2>3. new \in CertRow /\ new # NoRow
    BY <2>1, NoRowAssumption DEF CertRow, CertStatus
  <2>4. AsInserted(new) = AsInserted(certs[s])
    BY <2>1, <2>3, AsInsertedRow
  <2>5. certs'[s] = new /\ \A x \in Serials \ {s} : certs'[x] = certs[x]
    BY <2>1, <2>2, InsertedRows DEF CertTable
  <2>6. \A x \in Serials : AsInserted(certs'[x]) = AsInserted(certs[x])
    BY <2>4, <2>5
  <2> QED
    BY <2>6 DEF Inserted
<1>3. CASE UNCHANGED certs
  BY <1>3 DEF Inserted
<1> QED
  BY <1>1, <1>2, <1>3 DEF R!Revoke

\* What a handler does without the table is the same beside any table.
LEMMA SameHandlers ==
  ASSUME UNCHANGED certs, NEW r \in Reqs
  PROVE  /\ E!Receive(r) => Enrolled!Receive(r)
         /\ E!IntuneApproves(r) => Enrolled!IntuneApproves(r)
         /\ E!IntuneHears(r) => Enrolled!IntuneHears(r)
         /\ E!Reject(r) => Enrolled!Reject(r)
         /\ E!Issue(r) => Enrolled!Issue(r)
         /\ E!CannotIssue(r) => Enrolled!CannotIssue(r)
         /\ E!Tell(r) => Enrolled!Tell(r)
         /\ E!HangUp(r) => Enrolled!HangUp(r)
         /\ E!InsertFails(r) => Enrolled!InsertFails(r)
         /\ E!Find(r) => Enrolled!Find(r)
         /\ E!Write(r) => Enrolled!Write(r)
         /\ E!RecordFails(r) => Enrolled!RecordFails(r)
<1> USE DEF E!GoTo, Enrolled!GoTo, E!FinalReply, Enrolled!FinalReply, E!CertRep, Enrolled!CertRep
<1>0. UNCHANGED Inserted
  BY DEF Inserted
<1>1. E!Receive(r) => Enrolled!Receive(r)
  BY <1>0 DEF E!Receive, Enrolled!Receive, E!EarlyReply, Enrolled!EarlyReply
<1>2. /\ E!IntuneApproves(r) => Enrolled!IntuneApproves(r)
      /\ E!HangUp(r) => Enrolled!HangUp(r)
  BY <1>0 DEF E!IntuneApproves, Enrolled!IntuneApproves, E!HangUp, Enrolled!HangUp,
     E!InFlight, Enrolled!InFlight, E!Phases, Enrolled!Phases
<1>3. /\ E!IntuneHears(r) => Enrolled!IntuneHears(r)
      /\ E!Tell(r) => Enrolled!Tell(r)
  BY <1>0 DEF E!IntuneHears, Enrolled!IntuneHears, E!Tell, Enrolled!Tell, E!Story,
     Enrolled!Story, E!TellPhases, Enrolled!TellPhases, E!AfterTelling, Enrolled!AfterTelling
<1>4. E!Reject(r) => Enrolled!Reject(r)
  BY <1>0 DEF E!Reject, Enrolled!Reject, E!MayReject, Enrolled!MayReject
<1>5. E!Issue(r) => Enrolled!Issue(r)
  BY <1>0 DEF E!Issue, Enrolled!Issue, E!Accepts, Enrolled!Accepts, E!Fresh, Enrolled!Fresh
<1>6. E!CannotIssue(r) => Enrolled!CannotIssue(r)
  BY <1>0 DEF E!CannotIssue, Enrolled!CannotIssue, E!Accepts, Enrolled!Accepts
<1>7. E!InsertFails(r) => Enrolled!InsertFails(r)
  BY <1>0 DEF E!InsertFails, Enrolled!InsertFails, E!AfterInsertError, Enrolled!AfterInsertError
<1>8. E!Find(r) => Enrolled!Find(r)
  BY <1>0 DEF E!Find, Enrolled!Find
<1>9. E!WrittenTxns(r) = Enrolled!WrittenTxns(r) /\ E!AfterRecord(r) = Enrolled!AfterRecord(r)
  BY DEF E!WrittenTxns, Enrolled!WrittenTxns, E!UpdateTransaction, Enrolled!UpdateTransaction,
     E!InsertTransaction, Enrolled!InsertTransaction, E!TxnRecord, Enrolled!TxnRecord,
     E!AuditStatus, Enrolled!AuditStatus, E!AfterRecord, Enrolled!AfterRecord
<1>10. /\ E!Write(r) => Enrolled!Write(r)
       /\ E!RecordFails(r) => Enrolled!RecordFails(r)
  BY <1>0, <1>9 DEF E!Write, Enrolled!Write, E!RecordFails, Enrolled!RecordFails
<1> QED
  BY <1>1, <1>2, <1>3, <1>4, <1>5, <1>6, <1>7, <1>8, <1>10

\* Nor does it matter to the two statements that insert.
LEMMA SameInserts ==
  ASSUME EP!Progress, RP!Base, NEW r \in Reqs, certs' = E!AfterInsert(r),
         certs[serial[r]] = NoRow
  PROVE  /\ E!Insert(r) => Enrolled!Insert(r)
         /\ E!InsertFails(r) => Enrolled!InsertFails(r)
<1> USE DEF E!GoTo, Enrolled!GoTo, E!FinalReply, Enrolled!FinalReply, E!CertRep, Enrolled!CertRep
<1>1. ASSUME pc[r] = "inserting"
      PROVE  Inserted[serial[r]] = NoRow /\ Inserted' = Enrolled!AfterInsert(r)
  BY <1>1, InsertedInsert
<1>2. E!Insert(r) => Enrolled!Insert(r)
  BY <1>1 DEF E!Insert, Enrolled!Insert
<1>3. E!InsertFails(r) => Enrolled!InsertFails(r)
  BY <1>1 DEF E!InsertFails, Enrolled!InsertFails, E!AfterInsertError, Enrolled!AfterInsertError
<1> QED
  BY <1>2, <1>3

\* Every step of the server is one of the enrolment path, or none.
LEMMA EnrolmentSteps ==
  EP!Progress /\ RP!Base /\ [Next]_vars => [Enrolled!Next]_(Enrolled!vars)
<1> SUFFICES ASSUME EP!Progress, RP!Base, [Next]_vars PROVE [Enrolled!Next]_(Enrolled!vars)
  OBVIOUS
<1>1. UNCHANGED Inserted /\ UNCHANGED EnrolmentVars => UNCHANGED Enrolled!vars
  BY DEF Enrolled!vars, EnrolmentVars
<1>2. UNCHANGED certs => UNCHANGED Inserted
  BY DEF Inserted
<1>3. ASSUME NEW h \in Handlers, Acquire(h) PROVE UNCHANGED Enrolled!vars
  BY <1>1, <1>2, <1>3 DEF Acquire
<1>4. ASSUME NEW r \in Reqs, Enrolling(r) \/ DeviceHangsUp(r) PROVE Enrolled!Next
  <2>1. UNCHANGED certs
    BY <1>4 DEF Enrolling, DeviceHangsUp, E!Receive, E!IntuneApproves, E!IntuneHears, E!Reject,
       E!Issue, E!CannotIssue, E!Tell, E!HangUp
  <2> QED
    BY <1>4, <2>1, SameHandlers DEF Enrolling, DeviceHangsUp, Enrolled!Next, Enrolled!Handle
<1>5. ASSUME NEW r \in Reqs, EnrolmentStatement(r) \/ EnrolmentTimesOut(r) PROVE Enrolled!Next
  <2>1. E!Insert(r) \/ E!InsertFails(r) \/ E!Find(r) \/ E!Write(r) \/ E!RecordFails(r)
    BY <1>5 DEF EnrolmentStatement, EnrolmentTimesOut
  <2>2. CASE E!Insert(r)
    BY <2>2, SameInserts DEF E!Insert, Enrolled!Next, Enrolled!Handle
  <2>3. CASE ~ E!Insert(r) /\ UNCHANGED certs
    BY <2>1, <2>3, SameHandlers DEF Enrolled!Next, Enrolled!Handle
  <2>4. CASE ~ E!Insert(r) /\ ~ UNCHANGED certs
    <3>1. E!InsertFails(r)
      BY <2>1, <2>4 DEF E!Find, E!Write, E!RecordFails
    <3> QED
      BY <1>5, <2>4, <3>1, StatementTable, SameInserts DEF Enrolled!Next, Enrolled!Handle
  <2> QED
    BY <2>2, <2>3, <2>4
<1>6. ASSUME NEW q \in R!Queries,
             \/ QueryArrives(q) \/ Responding(q) \/ ResponderStatement(q)
             \/ ResponderTimesOut(q) \/ ClientHangsUp(q)
      PROVE  UNCHANGED Enrolled!vars
  BY <1>1, <1>2, <1>6 DEF QueryArrives, Responding, ResponderStatement, ResponderTimesOut,
     ClientHangsUp, R!OcspArrives, R!CrlArrives, R!Sign, R!Date, R!Lookup, R!List, R!QueryFails,
     R!AnswerFails, R!HangUp, R!TableVars
<1>7. ASSUME NEW v \in Revokers, RevokerStatement(v) \/ RevokerTimesOut(v)
      PROVE  UNCHANGED Enrolled!vars
  BY <1>1, <1>7, InsertedRevoke DEF RevokerStatement, RevokerTimesOut
<1>8. ASSUME Restart PROVE [Enrolled!Next]_(Enrolled!vars)
  <2>1. \A r \in Reqs : InFlight(r) <=> pc[r] \in Enrolled!InFlight
    BY HandlersAssumption DEF InFlight, R!Queries, E!InFlight, Enrolled!InFlight, E!Phases,
       Enrolled!Phases
  <2>2. pc' = [r \in Reqs |-> IF pc[r] \in Enrolled!InFlight THEN "gone" ELSE pc[r]]
    BY <1>8, <2>1 DEF Restart
  <2>3. CASE \E r \in Reqs : pc[r] \in Enrolled!InFlight
    BY <1>2, <1>8, <2>2, <2>3 DEF Restart, Enrolled!Next, Enrolled!Restart
  <2>4. CASE \A r \in Reqs : pc[r] \notin Enrolled!InFlight
    <3>1. pc \in [Reqs -> EP!Phases]
      BY DEF EP!Progress, EP!TypeOK
    <3>2. pc' = pc
      BY <2>2, <2>4, <3>1
    <3> QED
      BY <1>1, <1>2, <1>8, <3>2 DEF Restart, EnrolmentVars
  <2> QED
    BY <2>3, <2>4
<1>9. ASSUME Tick PROVE UNCHANGED Enrolled!vars
  BY <1>1, <1>2, <1>9 DEF Tick, R!Tick, R!TableVars
<1>10. ASSUME UNCHANGED vars PROVE UNCHANGED Enrolled!vars
  BY <1>1, <1>2, <1>10 DEF vars
<1> QED
  BY <1>3, <1>4, <1>5, <1>6, <1>7, <1>8, <1>9, <1>10 DEF Next

-----------------------------------------------------------------------------
(***************************************************************************)
(* The two implementations, and what they bring.                           *)
(***************************************************************************)

\* What the proofs of the two modules say of every state.
Parts == EP!IInv /\ RP!IInv

LEMMA PartsInit == Init => Parts /\ Enrolled!Init /\ R!Init
<1> SUFFICES ASSUME Init PROVE Parts /\ Enrolled!Init /\ R!Init
  OBVIOUS
<1>1. R!Init
  BY DEF Init
<1>2. Inserted = [s \in Serials |-> NoRow]
  BY <1>1 DEF R!Init, Inserted, AsInserted
<1>3. Enrolled!Init
  BY <1>2 DEF Init, E!Init, Enrolled!Init
<1>4. EP!IInv
  BY <1>3, SameEnrolment, EnrolmentAssumptions, EP!ProgressInit, EP!TablesInit, EP!TrailInit
  DEF EP!IInv
<1>5. RP!IInv
  BY <1>1, SameResponder, ResponderAssumptions, RP!BaseInit, RP!RevocationInit, RP!AnswersInit
  DEF RP!IInv
<1> QED
  BY <1>1, <1>3, <1>4, <1>5 DEF Parts

LEMMA PartsStep ==
  Parts /\ [Next]_vars => Parts' /\ [Enrolled!Next]_(Enrolled!vars) /\ [R!Next]_(R!vars)
<1> SUFFICES ASSUME Parts, [Next]_vars
             PROVE  Parts' /\ [Enrolled!Next]_(Enrolled!vars) /\ [R!Next]_(R!vars)
  OBVIOUS
<1>1. [Enrolled!Next]_(Enrolled!vars) /\ [R!Next]_(R!vars)
  BY EnrolmentSteps, ResponderSteps DEF Parts, EP!IInv, RP!IInv
<1>2. EP!IInv'
  BY <1>1, SameEnrolment, EnrolmentAssumptions, EP!ProgressStep, EP!TablesStep, EP!AuditStep,
     EP!FoundStep, EP!RecordedStep, EP!ToldStep
  DEF Parts, EP!IInv, EP!Trail
<1>3. RP!IInv'
  BY <1>1, SameResponder, ResponderAssumptions, RP!BaseStep, RP!RevocationStep, RP!OcspStep,
     RP!CrlStep
  DEF Parts, RP!IInv
<1> QED
  BY <1>1, <1>2, <1>3 DEF Parts

\* Parts is inductive.
THEOREM PartsHold == Spec => []Parts
BY PartsInit, PartsStep, PTL DEF Spec

\* The server implements Enrolment: revocations, the other handlers and the
\* wait for a connection change nothing of what is proved of PKIOperation.
THEOREM EnrolmentImplemented == Spec => ImplementsEnrolment
BY PartsInit, PartsStep, PartsHold, PTL DEF Spec, ImplementsEnrolment

\* The server implements Responder: it inserts only fresh, valid rows.
THEOREM ResponderImplemented == Spec => ImplementsResponder
BY PartsInit, PartsStep, PartsHold, PTL DEF Spec, ImplementsResponder

\* What is proved of the responders holds with enrolment, restarts and the
\* pool around them.
THEOREM RespondersHold ==
  Spec => [](/\ R!GoodAsOfThisUpdate /\ R!CrlIsWholeOrAbsent
             /\ R!RespondersAgree /\ R!OneRevokerWins)
<1>1. Spec => RP!Spec
  <2>1. R!Init <=> RP!Init
    BY SameResponder
  <2>2. [R!Next]_(R!vars) <=> [RP!Next]_(RP!vars)
    BY SameResponder
  <2> QED
    BY <2>1, <2>2, ResponderImplemented, PTL DEF ImplementsResponder, RP!Spec
<1>2. RP!Spec => [](/\ RP!GoodAsOfThisUpdate /\ RP!CrlIsWholeOrAbsent
                    /\ RP!RespondersAgree /\ RP!OneRevokerWins)
  <2>1. /\ RP!Spec => []RP!GoodAsOfThisUpdate
        /\ RP!Spec => []RP!CrlIsWholeOrAbsent
        /\ RP!Spec => []RP!RespondersAgree
        /\ RP!Spec => []RP!OneRevokerWins
    BY ResponderAssumptions, RP!GoodIsTrue, RP!CrlIsComplete, RP!CrlAndOcspAgree, RP!OneWins
  <2> QED
    BY <2>1, PTL
<1>3. /\ RP!GoodAsOfThisUpdate <=> R!GoodAsOfThisUpdate
      /\ RP!CrlIsWholeOrAbsent <=> R!CrlIsWholeOrAbsent
      /\ RP!RespondersAgree <=> R!RespondersAgree
      /\ RP!OneRevokerWins <=> R!OneRevokerWins
  BY DEF RP!GoodAsOfThisUpdate, R!GoodAsOfThisUpdate, RP!CrlIsWholeOrAbsent,
         R!CrlIsWholeOrAbsent, RP!RespondersAgree, R!RespondersAgree, RP!OneRevokerWins,
         R!OneRevokerWins
<1> QED
  BY <1>1, <1>2, <1>3, PTL

\* What is proved of PKIOperation holds while its rows are revoked and its
\* statements wait.
THEOREM EnrolmentHolds ==
  Spec => [](/\ Enrolled!IssuedAuditHasCertificate
             /\ Enrolled!RecordedTransactionHasRow /\ Enrolled!IntuneIsToldTheTruth)
<1>1. Parts => /\ EP!IssuedAuditHasCertificate
               /\ EP!RecordedTransactionHasRow /\ EP!IntuneIsToldTheTruth
  BY DEF Parts, EP!IInv, EP!Tables, EP!Trail
<1>2. EP!IssuedAuditHasCertificate <=> Enrolled!IssuedAuditHasCertificate
  BY DEF EP!IssuedAuditHasCertificate, Enrolled!IssuedAuditHasCertificate
<1>3. EP!RecordedTransactionHasRow <=> Enrolled!RecordedTransactionHasRow
  BY DEF EP!RecordedTransactionHasRow, Enrolled!RecordedTransactionHasRow, EP!Recorded,
         Enrolled!Recorded, EP!EarlyReply, Enrolled!EarlyReply, EP!CertRep, Enrolled!CertRep
<1>4. EP!IntuneIsToldTheTruth <=> Enrolled!IntuneIsToldTheTruth
  BY DEF EP!IntuneIsToldTheTruth, Enrolled!IntuneIsToldTheTruth, EP!Issued, Enrolled!Issued
<1> QED
  BY <1>1, <1>2, <1>3, <1>4, PartsHold, PTL

-----------------------------------------------------------------------------
(***************************************************************************)
(* The server implements Issuance.                                         *)
(***************************************************************************)

\* Issuance, seen in the table as it is: a row counts as registered also when
\* its certificate has been revoked.
Promised == INSTANCE Issuance WITH
  cert <- serial,
  registered <- {s \in Serials : certs[s] # NoRow},
  intune <- [r \in Reqs |-> E!IntuneSees(r)],
  device <- [r \in Reqs |-> E!DeviceSees(r)]

\* Revocation takes no row away, so that the table as inserted registers the
\* same serials.
SameViews ==
  /\ {s \in Serials : Inserted[s] # NoRow} = {s \in Serials : certs[s] # NoRow}
  /\ [r \in Reqs |-> EP!IntuneSees(r)] = [r \in Reqs |-> E!IntuneSees(r)]
  /\ [r \in Reqs |-> EP!DeviceSees(r)] = [r \in Reqs |-> E!DeviceSees(r)]

LEMMA ViewsAreSame == Parts => SameViews
<1> SUFFICES ASSUME Parts PROVE SameViews
  OBVIOUS
<1>1. \A s \in Serials : Inserted[s] # NoRow <=> certs[s] # NoRow
  BY InsertedRows DEF Parts, RP!IInv
<1>2. \A r \in Reqs : EP!IntuneSees(r) = E!IntuneSees(r)
  BY DEF EP!IntuneSees, E!IntuneSees
<1>3. \A r \in Reqs : EP!DeviceSees(r) = E!DeviceSees(r)
  BY DEF EP!DeviceSees, E!DeviceSees, EP!InFlight, E!InFlight, EP!Phases, E!Phases,
     EP!Failures, E!Failures
<1> QED
  BY <1>1, <1>2, <1>3 DEF SameViews

LEMMA SameAbstract ==
  /\ SameViews => (EP!Abstract!Init <=> Promised!Init)
  /\ SameViews /\ SameViews' =>
       ([EP!Abstract!Next]_(EP!Abstract!vars) <=> [Promised!Next]_(Promised!vars))
<1>1. SameViews => (EP!Abstract!Init <=> Promised!Init)
  BY DEF SameViews, EP!Abstract!Init, Promised!Init
<1>2. ASSUME SameViews, SameViews'
      PROVE  [EP!Abstract!Next]_(EP!Abstract!vars) <=> [Promised!Next]_(Promised!vars)
  <2> USE <1>2 DEF SameViews
  <2>1. \A r \in Reqs : EP!Abstract!Arrive(r) <=> Promised!Arrive(r)
    BY DEF EP!Abstract!Arrive, Promised!Arrive
  <2>2. \A r \in Reqs : EP!Abstract!Issue(r) <=> Promised!Issue(r)
    BY DEF EP!Abstract!Issue, Promised!Issue
  <2>3. \A r \in Reqs : EP!Abstract!Register(r) <=> Promised!Register(r)
    BY DEF EP!Abstract!Register, Promised!Register
  <2>4. \A r \in Reqs : EP!Abstract!TellIntune(r) <=> Promised!TellIntune(r)
    BY DEF EP!Abstract!TellIntune, Promised!TellIntune
  <2>5. \A r \in Reqs : EP!Abstract!Answer(r) <=> Promised!Answer(r)
    BY DEF EP!Abstract!Answer, Promised!Answer
  <2>6. \A lost \in SUBSET Reqs : EP!Abstract!Abandon(lost) <=> Promised!Abandon(lost)
    BY DEF EP!Abstract!Abandon, Promised!Abandon
  <2>7. UNCHANGED EP!Abstract!vars <=> UNCHANGED Promised!vars
    BY DEF EP!Abstract!vars, Promised!vars
  <2> QED
    BY <2>1, <2>2, <2>3, <2>4, <2>5, <2>6, <2>7 DEF EP!Abstract!Next, Promised!Next
<1> QED
  BY <1>1, <1>2

\* What the server has of Issuance's own argument in every state.
Kept == EP!Silence /\ EP!ViewsAgree

LEMMA KeptInit == Parts /\ Enrolled!Init => Kept /\ Promised!Init
<1>1. EP!Init => EP!Silence /\ EP!Abstract!Init
  BY EnrolmentAssumptions, EP!SilenceInit, EP!RefinementInit
<1>2. EP!Abstract!Init => EP!ViewsAgree
  BY EnrolmentAssumptions, EP!AgreementInit
<1> QED
  BY <1>1, <1>2, SameEnrolment, ViewsAreSame, SameAbstract DEF Kept

LEMMA KeptStep ==
  Parts /\ Kept /\ [Enrolled!Next]_(Enrolled!vars) => Kept' /\ [EP!Abstract!Next]_(EP!Abstract!vars)
<1> SUFFICES ASSUME Parts, Kept, [Enrolled!Next]_(Enrolled!vars)
             PROVE  Kept' /\ [EP!Abstract!Next]_(EP!Abstract!vars)
  OBVIOUS
<1>1. EP!Silence' /\ [EP!Abstract!Next]_(EP!Abstract!vars)
  BY EnrolmentAssumptions, SameEnrolment, EP!SilenceStep, EP!AbstractStep DEF Parts, Kept
<1>2. EP!TypeOK
  BY DEF Parts, EP!IInv, EP!Progress
<1>3. EP!ViewsAgree'
  BY <1>1, <1>2, EnrolmentAssumptions, EP!AgreementStep DEF Kept
<1> QED
  BY <1>1, <1>3 DEF Kept

LEMMA KeptHolds == Spec => []Kept
BY KeptInit, KeptStep, PartsInit, PartsStep, PartsHold, PTL DEF Spec

\* The server implements Issuance: with revocations, the responders, the wait
\* for connections and restarts around it, the device, Intune and the table
\* still see only what Issuance allows.
THEOREM ServerKeepsItsPromise == Spec => Promised!Safety
<1>1. Spec => [](Parts /\ SameViews)
  BY PartsHold, ViewsAreSame, PTL
<1>2. Parts /\ Kept /\ SameViews /\ SameViews' /\ [Next]_vars => [Promised!Next]_(Promised!vars)
  BY KeptStep, PartsStep, SameAbstract
<1> QED
  BY <1>1, <1>2, KeptInit, KeptHolds, PartsInit, PTL DEF Spec, Promised!Safety

\* The device, Intune and the table of the whole server agree about every
\* request, also once its certificate has been revoked.
THEOREM ServerPartiesAgree == Spec => []Promised!Agreement
<1>1. EP!ViewsAgree <=> EP!Abstract!Agreement
  BY EnrolmentAssumptions, EP!AgreementIsOfViews
<1>2. SameViews => (EP!Abstract!Agreement <=> Promised!Agreement)
  BY DEF SameViews, EP!Abstract!Agreement, Promised!Agreement
<1>3. Parts /\ Kept => Promised!Agreement
  BY <1>1, <1>2, ViewsAreSame DEF Kept
<1> QED
  BY <1>3, PartsHold, KeptHolds, PTL

\* Type correctness of the server.
THEOREM TypesCorrect == Spec => []TypeOK
<1> DEFINE Typed == held \subseteq Handlers /\ delivered \in [OcspReqs -> SUBSET Serials]
<1>1. Init => Typed
  BY DEF Init
<1>2. ASSUME Parts, NEW c PROVE Delivered(c) \subseteq Serials
  BY <1>2 DEF Delivered, Parts, EP!IInv, EP!Progress, EP!PhaseInv, EP!TypeOK, EP!Issued
<1>3. Parts /\ Typed /\ [Next]_vars => Typed'
  <2> SUFFICES ASSUME Parts, Typed, [Next]_vars PROVE Typed'
    OBVIOUS
  <2>1. held' \subseteq Handlers
    BY DEF Next, Acquire, Enrolling, EnrolmentStatement, EnrolmentTimesOut, DeviceHangsUp,
       QueryArrives, Responding, ResponderStatement, ResponderTimesOut, ClientHangsUp,
       RevokerStatement, RevokerTimesOut, Restart, Tick, Released, Dropped, vars
  <2>2. UNCHANGED delivered \/ \E q \in OcspReqs : \E c : delivered' = [delivered EXCEPT ![q] = Delivered(c)]
    BY DEF Next, Acquire, Enrolling, EnrolmentStatement, EnrolmentTimesOut, DeviceHangsUp,
       QueryArrives, Responding, ResponderStatement, ResponderTimesOut, ClientHangsUp,
       RevokerStatement, RevokerTimesOut, Restart, Tick, vars
  <2> QED
    BY <1>2, <2>1, <2>2
<1>4. Parts /\ Typed => TypeOK
  <2> SUFFICES ASSUME Parts, Typed PROVE TypeOK
    OBVIOUS
  <2>1. E!TypeOK
    BY InsertedRows
    DEF Parts, EP!IInv, EP!Progress, EP!TypeOK, E!TypeOK, RP!IInv, EP!Phases, E!Phases,
        EP!Replies, E!Replies, EP!Failures, E!Failures, EP!TxnTable, E!TxnTable, EP!TxnRow,
        E!TxnRow, EP!TxnStatus, E!TxnStatus, EP!Notification, E!Notification,
        CertTable, E!CertTable, CertRow, E!CertRow, CertStatus, E!CertStatus, Stamp, E!Stamp,
        Time, E!Time
  <2>2. R!TypeOK
    BY DEF Parts, RP!IInv, RP!Base, RP!TypeOK, R!TypeOK, RP!Time, R!Time, RP!CertTable,
           R!CertTable, RP!Stamp, R!Stamp, RP!RevokedRow, R!RevokedRow, RP!CertRow, R!CertRow,
           RP!CertStatus, R!CertStatus, RP!Queries, R!Queries, RP!Phases, R!Phases, RP!CertId, R!CertId, RP!Single, R!Single, RP!Validity,
           R!Validity, RP!Call, R!Call
  <2> QED
    BY <2>1, <2>2 DEF TypeOK
<1> QED
  BY <1>1, <1>3, <1>4, PartsHold, PTL DEF Spec

-----------------------------------------------------------------------------
(***************************************************************************)
(* The pool.                                                               *)
(***************************************************************************)

PoolInv == held \subseteq Handlers /\ IsFiniteSet(held) /\ ConnectionsAreForStatements

\* A step of one handler leaves the others where they are.
LEMMA EnrolmentMoves ==
  ASSUME Parts, NEW r \in Reqs,
         Enrolling(r) \/ EnrolmentStatement(r) \/ EnrolmentTimesOut(r) \/ DeviceHangsUp(r)
  PROVE  UNCHANGED ResponderVars /\ \A g \in Reqs \ {r} : pc'[g] = pc[g]
<1>1. pc \in [Reqs -> EP!Phases]
  BY DEF Parts, EP!IInv, EP!Progress, EP!TypeOK
<1> QED
  BY <1>1 DEF Enrolling, EnrolmentStatement, EnrolmentTimesOut, DeviceHangsUp, E!Receive,
     E!IntuneApproves, E!IntuneHears, E!Reject, E!Issue, E!CannotIssue, E!Tell, E!HangUp,
     E!Insert, E!InsertFails, E!Find, E!Write, E!RecordFails, E!GoTo

LEMMA ResponderMoves ==
  ASSUME Parts, NEW q \in R!Queries,
         \/ QueryArrives(q) \/ Responding(q) \/ ResponderStatement(q)
         \/ ResponderTimesOut(q) \/ ClientHangsUp(q)
  PROVE  /\ UNCHANGED <<pc, outcome>>
         /\ \A g \in R!Queries \ {q} :
              /\ phase'[g] = phase[g]
              /\ g \in OcspReqs => singles'[g] = singles[g] /\ ask'[g] = ask[g]
<1>1. /\ phase \in [R!Queries -> RP!Phases]
      /\ ask \in [OcspReqs -> Seq(RP!CertId)] /\ singles \in [OcspReqs -> Seq(RP!Single)]
  BY DEF Parts, RP!IInv, RP!Base, RP!TypeOK, RP!Queries, R!Queries
<1> QED
  BY <1>1 DEF QueryArrives, Responding, ResponderStatement, ResponderTimesOut, ClientHangsUp,
     R!OcspArrives, R!CrlArrives, R!Sign, R!Date, R!Lookup, R!List, R!QueryFails,
     R!AnswerFails, R!HangUp, R!TableVars, EnrolmentVars

LEMMA RevokerMoves ==
  ASSUME Parts, NEW v \in Revokers, RevokerStatement(v) \/ RevokerTimesOut(v)
  PROVE  /\ UNCHANGED <<pc, phase, singles, ask>>
         /\ \A g \in Revokers \ {v} : outcome'[g] = outcome[g]
<1>1. outcome \in [Revokers -> {"none", "true", "false", "error"}]
  BY DEF Parts, RP!IInv, RP!Base, RP!TypeOK
<1> QED
  BY <1>1 DEF RevokerStatement, RevokerTimesOut, R!Revocation, R!RequestVars, EnrolmentVars

\* Giving connections back, or giving up one's own, keeps the pool in order.
LEMMA PoolShrinks ==
  ASSUME PoolInv, held' \subseteq held,
         \A h \in held' : AtStatement(h) => AtStatement(h)'
  PROVE  PoolInv'
<1>1. IsFiniteSet(held') /\ Cardinality(held') <= Cardinality(held)
  BY FS_Subset DEF PoolInv
<1>2. Cardinality(held) \in Nat /\ Cardinality(held') \in Nat /\ PoolSize \in Nat
  BY <1>1, FS_CardinalityType, PoolSizeAssumption DEF PoolInv
<1>3. Cardinality(held') <= PoolSize
  BY <1>1, <1>2 DEF PoolInv, ConnectionsAreForStatements
<1> QED
  BY <1>1, <1>3 DEF PoolInv, ConnectionsAreForStatements

LEMMA PoolStep == Parts /\ PoolInv /\ [Next]_vars => PoolInv'
<1> SUFFICES ASSUME Parts, PoolInv, [Next]_vars PROVE PoolInv'
  OBVIOUS
<1>0. \A h \in held : h \in Handlers /\ AtStatement(h)
  BY DEF PoolInv, ConnectionsAreForStatements
<1>1. ASSUME NEW h \in Handlers, Acquire(h) PROVE PoolInv'
  <2>1. held' = held \cup {h} /\ h \notin held /\ Cardinality(held) < PoolSize /\ AtStatement(h)
    BY <1>1 DEF Acquire
  <2>2. IsFiniteSet(held') /\ Cardinality(held') = Cardinality(held) + 1
    BY <2>1, FS_AddElement DEF PoolInv
  <2>3. Cardinality(held') <= PoolSize
    BY <2>1, <2>2, FS_CardinalityType, PoolSizeAssumption DEF PoolInv
  <2>4. \A g \in Handlers : AtStatement(g) => AtStatement(g)'
    BY <1>1 DEF Acquire, AtStatement, R!Done, EnrolmentVars, ResponderVars
  <2> QED
    BY <1>0, <2>1, <2>2, <2>3, <2>4 DEF PoolInv, ConnectionsAreForStatements
<1>2. ASSUME NEW r \in Reqs,
             Enrolling(r) \/ EnrolmentStatement(r) \/ EnrolmentTimesOut(r) \/ DeviceHangsUp(r)
      PROVE  PoolInv'
  <2>1. held' \subseteq held \ {r}
    <3>1. Enrolling(r) => ~ AtStatement(r)
      BY HandlersAssumption DEF Enrolling, AtStatement, E!Receive, E!IntuneApproves,
         E!IntuneHears, E!Reject, E!Issue, E!CannotIssue, E!Tell, E!TellPhases
    <3> QED
      BY <1>0, <1>2, <3>1 DEF Enrolling, EnrolmentStatement, EnrolmentTimesOut, DeviceHangsUp,
         Released, Dropped
  <2>2. \A g \in Handlers \ {r} : AtStatement(g) => AtStatement(g)'
    BY <1>2, EnrolmentMoves DEF AtStatement, R!Done, ResponderVars
  <2> QED
    BY <1>0, <2>1, <2>2, PoolShrinks
<1>3. ASSUME NEW q \in R!Queries,
             \/ QueryArrives(q) \/ Responding(q) \/ ResponderStatement(q)
             \/ ResponderTimesOut(q) \/ ClientHangsUp(q)
      PROVE  PoolInv'
  <2>1. held' \subseteq held \ {q}
    <3>1. QueryArrives(q) \/ Responding(q) => ~ AtStatement(q)
      BY HandlersAssumption DEF QueryArrives, Responding, AtStatement, R!Queries, R!OcspArrives,
         R!CrlArrives, R!Sign, R!Date, R!AnswerFails
    <3> QED
      BY <1>0, <1>3, <3>1 DEF QueryArrives, Responding, ResponderStatement, ResponderTimesOut,
         ClientHangsUp, Released, Dropped
  <2>2. \A g \in Handlers \ {q} : AtStatement(g) => AtStatement(g)'
    BY <1>3, ResponderMoves DEF AtStatement, R!Done, R!Queries
  <2> QED
    BY <1>0, <2>1, <2>2, PoolShrinks
<1>4. ASSUME NEW v \in Revokers, RevokerStatement(v) \/ RevokerTimesOut(v) PROVE PoolInv'
  <2>1. held' \subseteq held \ {v}
    BY <1>4 DEF RevokerStatement, RevokerTimesOut, Released
  <2>2. \A g \in Handlers \ {v} : AtStatement(g) => AtStatement(g)'
    BY <1>4, RevokerMoves DEF AtStatement, R!Done
  <2> QED
    BY <1>0, <2>1, <2>2, PoolShrinks
<1>5. ASSUME Restart PROVE PoolInv'
  BY <1>5, PoolShrinks DEF Restart
<1>6. ASSUME Tick \/ UNCHANGED vars PROVE PoolInv'
  <2>1. \A g \in Handlers : AtStatement(g) => AtStatement(g)'
    BY <1>6 DEF Tick, R!Tick, R!RequestVars, R!TableVars, AtStatement, R!Done, vars,
       EnrolmentVars, ResponderVars
  <2> QED
    BY <1>0, <1>6, <2>1, PoolShrinks DEF Tick, vars
<1> QED
  BY <1>1, <1>2, <1>3, <1>4, <1>5, <1>6 DEF Next

\* The pool is never overdrawn, and a handler keeps a connection only where
\* the database works for it.
THEOREM PoolIsKept == Spec => []ConnectionsAreForStatements
<1>1. Init => PoolInv
  BY FS_EmptySet, PoolSizeAssumption DEF Init, PoolInv, ConnectionsAreForStatements
<1>2. PoolInv => ConnectionsAreForStatements
  BY DEF PoolInv
<1> QED
  BY <1>1, <1>2, PoolStep, PartsHold, PTL DEF Spec

-----------------------------------------------------------------------------
(***************************************************************************)
(* What OCSP says of a delivered certificate.                              *)
(***************************************************************************)

\* What had been delivered when q came in has a row of the CA q asks, and
\* every entry of the answer was read from it.
QueryInv(q) ==
  /\ delivered[q] \subseteq Serials
  /\ phase[q] = "idle" => delivered[q] = {}
  /\ \A s \in delivered[q] : certs[s] # NoRow /\ certs[s].ca_id = ca[q]
  /\ \A i \in 1..Len(singles[q]) :
       singles[q][i].id.serial \in delivered[q] => singles[q][i].status # "unknown"

DeliveredInv == delivered \in [OcspReqs -> SUBSET Serials] /\ \A q \in OcspReqs : QueryInv(q)

\* A delivered certificate whose insert did not fail has its row, for the
\* handler came to its answer by way of the insert.
LEMMA DeliveredRows ==
  ASSUME Parts, NEW c, NEW s \in Delivered(c)
  PROVE  s \in Serials /\ certs[s] # NoRow /\ certs[s].ca_id = c
<1>1. PICK r \in Reqs : /\ s = serial[r] /\ reply[r] = "Success" /\ <<r, "insert">> \notin dbErrors
                        /\ CaOf[msg[r].profile] = c
  BY DEF Delivered
<1>2. pc[r] = "answered" /\ EP!Issued(r) /\ serial[r] \in Serials
  BY <1>1 DEF Parts, EP!IInv, EP!Progress, EP!PhaseInv, EP!TypeOK, EP!Issued
<1>3. Inserted[s] # NoRow /\ Inserted[s] = EP!IssuedRow(msg[r])
  BY <1>1, <1>2 DEF Parts, EP!IInv, EP!Tables, EP!InsertedOrFailed, EP!RowsMatchOwners
<1>4. certs[s] # NoRow /\ certs[s].ca_id = Inserted[s].ca_id
  BY <1>1, <1>2, <1>3, InsertedRows DEF Parts, RP!IInv
<1> QED
  BY <1>1, <1>2, <1>3, <1>4 DEF EP!IssuedRow

\* Rows stay, under their CA.
LEMMA RowsStay ==
  ASSUME Parts, [Next]_vars, NEW s \in Serials, certs[s] # NoRow
  PROVE  certs'[s] # NoRow /\ certs'[s].ca_id = certs[s].ca_id
BY PartsStep, SameResponder, ResponderAssumptions, RP!HistoryStays DEF Parts, RP!IInv

\* A step that does not touch q's answer keeps what is known of it.
LEMMA QueryFrame ==
  ASSUME Parts, DeliveredInv, [Next]_vars, NEW q \in OcspReqs,
         delivered'[q] = delivered[q], ca'[q] = ca[q], singles'[q] = singles[q],
         phase'[q] = "idle" => phase[q] = "idle"
  PROVE  QueryInv(q)'
BY RowsStay DEF DeliveredInv, QueryInv

LEMMA DeliveredStep == Parts /\ DeliveredInv /\ [Next]_vars => DeliveredInv'
<1> SUFFICES ASSUME Parts, DeliveredInv, [Next]_vars PROVE DeliveredInv'
  OBVIOUS
<1>0. /\ phase \in [R!Queries -> RP!Phases] /\ ca \in [R!Queries -> Paths \cup {NoAnswer}]
      /\ ask \in [OcspReqs -> Seq(RP!CertId)] /\ singles \in [OcspReqs -> Seq(RP!Single)]
      /\ \A p \in OcspReqs : p \in R!Queries /\ (phase[p] = "idle" => singles[p] = <<>>)
  BY DEF Parts, RP!IInv, RP!Base, RP!OcspInv, RP!TypeOK, RP!Queries, R!Queries
<1>1. ASSUME NEW q \in OcspReqs, R!OcspArrives(q),
             delivered' = [delivered EXCEPT ![q] = Delivered(ca'[q])]
      PROVE  DeliveredInv'
  <2>1. /\ delivered'[q] = Delivered(ca'[q]) /\ singles'[q] = <<>> /\ phase'[q] # "idle"
        /\ UNCHANGED certs
    BY <1>0, <1>1 DEF R!OcspArrives, R!TableVars, DeliveredInv
  <2>2. QueryInv(q)'
    BY <2>1, DeliveredRows DEF QueryInv
  <2>3. ASSUME NEW p \in OcspReqs \ {q} PROVE QueryInv(p)'
    BY <1>0, <1>1, QueryFrame DEF R!OcspArrives, DeliveredInv
  <2>4. delivered' \in [OcspReqs -> SUBSET Serials]
    BY <1>1, <2>1, DeliveredRows DEF DeliveredInv
  <2> QED
    BY <2>2, <2>3, <2>4 DEF DeliveredInv
<1>2. ASSUME NEW q \in OcspReqs, R!Lookup(q), UNCHANGED delivered PROVE DeliveredInv'
  <2> DEFINE e == [id |-> R!NextId(q),
                   status |-> R!StatusBySerial(certs, ca[q], R!NextId(q).serial)]
  <2>1. /\ phase[q] = "looking" /\ UNCHANGED <<certs, ca, phase>>
        /\ singles' = [singles EXCEPT ![q] = Append(@, e)]
    BY <1>2 DEF R!Lookup, R!TableVars
  <2>2. ca[q] \in CAs /\ R!NextId(q) \in RP!CertId /\ singles[q] \in Seq(RP!Single)
    BY <1>0, <1>2, <2>1
    DEF R!Lookup, R!NextId, Parts, RP!IInv, RP!Base, RP!InFlight, RP!Queries, R!Queries
  <2>3. e \in RP!Single
    BY <2>2 DEF RP!Single, R!StatusBySerial
  <2>4. e.id.serial \in delivered[q] => e.status # "unknown"
    BY DEF DeliveredInv, QueryInv, R!StatusBySerial, R!Selects
  <2>5. PICK n \in Nat : /\ n = Len(singles[q]) /\ Len(singles'[q]) = n + 1
                         /\ singles'[q][n + 1] = e
                         /\ \A i \in 1..n : singles'[q][i] = singles[q][i]
    <3> HIDE DEF e
    <3>1. singles'[q] = Append(singles[q], e)
      BY <1>0, <2>1
    <3>2. /\ Len(singles[q]) \in Nat /\ Len(Append(singles[q], e)) = Len(singles[q]) + 1
          /\ Append(singles[q], e)[Len(singles[q]) + 1] = e
      BY <2>2, <2>3, RP!AppendLast
    <3>3. \A i \in 1..Len(singles[q]) : Append(singles[q], e)[i] = singles[q][i]
      BY <2>2, <2>3
    <3> QED
      BY <3>1, <3>2, <3>3
  <2>6. \A i \in 1..(n + 1) : i \in 1..n \/ i = n + 1
    OBVIOUS
  <2>7. QueryInv(q)'
    <3> HIDE DEF e
    <3> QED
      BY <1>2, <2>1, <2>4, <2>5, <2>6 DEF DeliveredInv, QueryInv
  <2>8. ASSUME NEW p \in OcspReqs \ {q} PROVE QueryInv(p)'
    BY <1>0, <1>2, <2>1, QueryFrame
  <2> QED
    BY <1>2, <2>7, <2>8 DEF DeliveredInv
<1>3. ASSUME UNCHANGED <<delivered, ca, singles>>,
             \A p \in OcspReqs : phase'[p] = "idle" => phase[p] = "idle"
      PROVE  DeliveredInv'
  BY <1>3, QueryFrame DEF DeliveredInv
<1>4. ASSUME NEW r \in Reqs,
             Enrolling(r) \/ EnrolmentStatement(r) \/ EnrolmentTimesOut(r) \/ DeviceHangsUp(r)
      PROVE  DeliveredInv'
  BY <1>3, <1>4 DEF Enrolling, EnrolmentStatement, EnrolmentTimesOut, DeviceHangsUp, ResponderVars
<1>5. ASSUME NEW q \in R!Queries,
             \/ QueryArrives(q) \/ Responding(q) \/ ResponderStatement(q)
             \/ ResponderTimesOut(q) \/ ClientHangsUp(q)
      PROVE  DeliveredInv'
  <2>1. CASE \/ /\ q \in OcspReqs /\ R!OcspArrives(q)
                /\ delivered' = [delivered EXCEPT ![q] = Delivered(ca'[q])]
             \/ q \in OcspReqs /\ R!Lookup(q) /\ UNCHANGED delivered
    BY <1>1, <1>2, <2>1
  <2>2. CASE q \in CrlReqs /\ R!CrlArrives(q) /\ UNCHANGED delivered
    <3>1. \A p \in OcspReqs : p # q /\ phase'[p] = phase[p] /\ ca'[p] = ca[p]
      BY <1>0, <2>2, HandlersAssumption DEF R!CrlArrives
    <3>2. UNCHANGED singles
      BY <2>2 DEF R!CrlArrives
    <3> QED
      BY <2>2, <3>1, <3>2, QueryFrame DEF DeliveredInv
  <2>3. CASE /\ \/ q \in OcspReqs /\ R!Sign(q)
                \/ q \in CrlReqs /\ (R!List(q) \/ R!Date(q))
                \/ R!QueryFails(q) \/ R!AnswerFails(q) \/ R!HangUp(q)
             /\ UNCHANGED delivered
    <3>1. UNCHANGED <<ca, singles>> /\ \A p \in OcspReqs : phase'[p] = "idle" => phase[p] = "idle"
      BY <1>0, <2>3 DEF R!Sign, R!List, R!Date, R!QueryFails, R!AnswerFails,
         R!HangUp
    <3> QED
      BY <1>3, <2>3, <3>1
  <2> QED
    BY <1>5, <2>1, <2>2, <2>3 DEF QueryArrives, Responding, ResponderStatement,
       ResponderTimesOut, ClientHangsUp
<1>6. ASSUME NEW v \in Revokers, RevokerStatement(v) \/ RevokerTimesOut(v) PROVE DeliveredInv'
  BY <1>3, <1>6 DEF RevokerStatement, RevokerTimesOut, R!Revocation, R!RequestVars
<1>7. ASSUME Restart PROVE DeliveredInv'
  BY <1>0, <1>3, <1>7 DEF Restart
<1>8. ASSUME \/ Tick \/ UNCHANGED vars \/ \E h \in Handlers : Acquire(h) PROVE DeliveredInv'
  BY <1>3, <1>8 DEF Tick, R!Tick, R!RequestVars, vars, Acquire, ResponderVars
<1> QED
  BY <1>4, <1>5, <1>6, <1>7, <1>8 DEF Next

\* A device that shows the certificate it was sent is known to its CA's
\* responder, whatever is revoked, fails or restarts in between.
THEOREM DeliveredAreKnown == Spec => []DeliveredIsKnown
<1>1. Init => DeliveredInv
  BY DEF Init, R!Init, DeliveredInv, QueryInv
<1>2. DeliveredInv => DeliveredIsKnown
  BY DEF DeliveredInv, QueryInv, DeliveredIsKnown
<1> QED
  BY <1>1, <1>2, DeliveredStep, PartsHold, PTL DEF Spec
=============================================================================
