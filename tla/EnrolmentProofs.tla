-------------------------- MODULE EnrolmentProofs --------------------------
(***************************************************************************)
(* Proofs about Enrolment, for any number of handlers, any tables and any  *)
(* messages.  The argument has three layers, each inductive relative to    *)
(* the one before it:                                                      *)
(*   Progress  what a handler's phase says of its message and certificate, *)
(*   Tables    how the certificate table, the serials and the errors fit,  *)
(*   Trail     what the audit trail and Intune's notifications say.        *)
(***************************************************************************)
EXTENDS Enrolment, RepoProofs

-----------------------------------------------------------------------------
(***************************************************************************)
(* Messages and replies.                                                   *)
(***************************************************************************)

\* The fields of a message a client may send.
LEMMA MessageFields ==
  ASSUME NEW m \in Requests
  PROVE  /\ m.txn \in Txns /\ m.body \in Bodies /\ m.pw \in Passwords
         /\ m.issuable \in BOOLEAN /\ m.sealable \in BOOLEAN
BY RequestsAssumption DEF Message

\* The checks before the first await answer every message they do not let
\* through, and let through only CSRs for a configured profile.
LEMMA EarlyReplies ==
  ASSUME NEW m \in Requests
  PROVE  /\ EarlyReply(m) \in Replies \cup {"none"}
         /\ EarlyReply(m) # "Success"
         /\ EarlyReply(m) = "none" => m.profile \in Profiles
<1>1. CASE m.profile \notin Profiles
  BY <1>1 DEF EarlyReply, Replies, Failures
<1>2. CASE m.profile \in Profiles
  BY <1>2, MessageFields DEF EarlyReply, Replies, Failures, Bodies, CertRep
<1> QED
  BY <1>1, <1>2

\* The row persist builds has the columns of issued_certificate.
LEMMA IssuedRowType ==
  ASSUME NEW m \in Requests, m.profile \in Profiles
  PROVE  IssuedRow(m) \in CertRow /\ IssuedRow(m) # NoRow
<1>1. IssuedRow(m) \in CertRow
  BY MessageFields, CaOfAssumption DEF IssuedRow, CertRow, CertStatus, Stamp
<1> QED
  BY <1>1, NoRowAssumption

-----------------------------------------------------------------------------
(***************************************************************************)
(* First layer: types, and what a phase says.                              *)
(***************************************************************************)

\* A handler past its first await works on an enrolment for a configured
\* profile; it has a certificate exactly in the phases after ca.issue, and a
\* client is sent a success only for a certificate.
PhaseInv(r) ==
  /\ pc[r] # "idle" => msg[r] \in Requests
  /\ pc[r] \in InFlight \/ Issued(r) => EarlyReply(msg[r]) = "none"
  /\ pc[r] \in {"idle", "validating", "tellRejected", "tellUnissued"} => ~ Issued(r)
  /\ pc[r] \in {"inserting", "tellIssued"} => Issued(r)
  /\ pc[r] = "tellUnissued" => ~ msg[r].issuable
  /\ reply[r] = "Success" => pc[r] = "answered" /\ Issued(r)

Progress == TypeOK /\ \A r \in Reqs : PhaseInv(r)

LEMMA ProgressInit == Init => Progress
BY NoRowAssumption DEF Init, Progress, PhaseInv, TypeOK, CertTable, TxnTable, Phases,
   InFlight, Issued, Replies

\* What returning from the handler, or reaching the next await, does to the
\* phase and the reply.
LEMMA GoToTypes ==
  ASSUME Progress, NEW r \in Reqs, pc[r] \in InFlight, NEW p \in Phases, GoTo(r, p)
  PROVE  /\ pc' \in [Reqs -> Phases]
         /\ reply' \in [Reqs -> Replies \cup {"none"}]
         /\ pc'[r] = p
         /\ p # "answered" => reply'[r] = reply[r]
         /\ reply'[r] = "Success" => p = "answered" /\ Issued(r)
         /\ \A q \in Reqs \ {r} : pc'[q] = pc[q] /\ reply'[q] = reply[q]
<1>1. FinalReply(r) \in Replies /\ (FinalReply(r) = "Success" => Issued(r))
  BY DEF FinalReply, CertRep, Replies, Failures, Issued
<1>2. reply[r] # "Success"
  BY DEF Progress, PhaseInv, InFlight
<1> QED
  BY <1>1, <1>2 DEF GoTo, Progress, TypeOK

\* The tables stay well-typed under the two writes of a handler.
LEMMA InsertType ==
  ASSUME Progress, NEW r \in Reqs, pc[r] = "inserting"
  PROVE  AfterInsert(r) \in CertTable /\ serial[r] \in Serials
<1>1. msg[r] \in Requests /\ msg[r].profile \in Profiles
  BY EarlyReplies DEF Progress, PhaseInv, InFlight, Phases
<1>2. serial[r] \in Serials
  BY DEF Progress, PhaseInv, TypeOK, Issued
<1> QED
  BY <1>1, <1>2, IssuedRowType, InsertIssuedTable DEF AfterInsert, Progress, TypeOK

LEMMA WriteType ==
  ASSUME Progress, NEW r \in Reqs, pc[r] = "writing"
  PROVE  /\ WrittenTxns(r) \in TxnTable
         /\ msg[r] \in Requests /\ msg[r].txn \in Txns /\ msg[r].profile \in Profiles
         /\ AuditStatus(r) \in TxnStatus
<1>1. msg[r] \in Requests /\ msg[r].profile \in Profiles
  BY EarlyReplies DEF Progress, PhaseInv, InFlight, Phases
<1>2. msg[r].txn \in Txns /\ AuditStatus(r) \in TxnStatus
  BY <1>1, MessageFields DEF AuditStatus, TxnStatus
<1>3. txns \in TxnTable
  BY DEF Progress, TypeOK
<1> QED
  BY <1>1, <1>2, <1>3, UpdateTransactionTable, InsertTransactionTable DEF WrittenTxns

\* Every step keeps types and phases together.
LEMMA ProgressStep == Progress /\ [Next]_vars => Progress'
<1> SUFFICES ASSUME Progress, [Next]_vars PROVE Progress'
  OBVIOUS
<1>0. TypeOK
  BY DEF Progress
<1>1. ASSUME NEW r \in Reqs, Receive(r) PROVE Progress'
  <2>1. PICK m \in Requests :
          /\ msg' = [msg EXCEPT ![r] = m]
          /\ reply' = [reply EXCEPT ![r] = EarlyReply(m)]
          /\ pc' = [pc EXCEPT ![r] = IF EarlyReply(m) = "none" THEN "validating" ELSE "answered"]
    BY <1>1 DEF Receive
  <2>2. TypeOK'
    BY <1>0, <1>1, <2>1, EarlyReplies DEF Receive, TypeOK, Phases
  <2>3. \A q \in Reqs \ {r} : PhaseInv(q)'
    BY <1>0, <1>1, <2>1 DEF Receive, Progress, PhaseInv, TypeOK, Issued
  <2>4. PhaseInv(r)'
    BY <1>0, <1>1, <2>1, EarlyReplies
    DEF Receive, Progress, PhaseInv, TypeOK, Issued, InFlight, Phases
  <2> QED
    BY <2>2, <2>3, <2>4 DEF Progress
<1>2. ASSUME NEW r \in Reqs, Reject(r) PROVE Progress'
  <2>1. pc[r] \in InFlight /\ "tellRejected" \in Phases /\ GoTo(r, "tellRejected")
    BY <1>2 DEF Reject, InFlight, Phases
  <2> QED
    BY <1>0, <1>2, <2>1, GoToTypes DEF Reject, Progress, PhaseInv, TypeOK, Issued, InFlight
<1>3. ASSUME NEW r \in Reqs, Issue(r) PROVE Progress'
  <2>1. pc[r] \in InFlight /\ "inserting" \in Phases /\ GoTo(r, "inserting")
    BY <1>3 DEF Issue, InFlight, Phases
  <2>2. PICK s \in Serials : serial' = [serial EXCEPT ![r] = s]
    BY <1>3 DEF Issue
  <2> QED
    BY <1>0, <1>3, <2>1, <2>2, GoToTypes, NoSerialAssumption
    DEF Issue, Progress, PhaseInv, TypeOK, Issued, InFlight
<1>4. ASSUME NEW r \in Reqs, CannotIssue(r) PROVE Progress'
  <2>1. pc[r] \in InFlight /\ "tellUnissued" \in Phases /\ GoTo(r, "tellUnissued")
    BY <1>4 DEF CannotIssue, InFlight, Phases
  <2> QED
    BY <1>0, <1>4, <2>1, GoToTypes DEF CannotIssue, Progress, PhaseInv, TypeOK, Issued, InFlight
<1>5. ASSUME NEW r \in Reqs, Insert(r) PROVE Progress'
  <2>1. pc[r] \in InFlight /\ "finding" \in Phases /\ GoTo(r, "finding")
    BY <1>5 DEF Insert, InFlight, Phases
  <2>2. certs' \in CertTable
    BY <1>5, InsertType DEF Insert
  <2> QED
    BY <1>0, <1>5, <2>1, <2>2, GoToTypes DEF Insert, Progress, PhaseInv, TypeOK, Issued, InFlight
<1>6. ASSUME NEW r \in Reqs, InsertFails(r) PROVE Progress'
  <2>1. pc[r] \in InFlight /\ "tellIssued" \in Phases /\ GoTo(r, "tellIssued")
    BY <1>6 DEF InsertFails, AfterInsertError, InFlight, Phases
  <2>2. certs' \in CertTable
    BY <1>0, <1>6, InsertType DEF InsertFails, TypeOK
  <2>3. dbErrors' \subseteq Reqs \X {"insert", "audit"}
    BY <1>0, <1>6 DEF InsertFails, TypeOK
  <2> QED
    BY <1>0, <1>6, <2>1, <2>2, <2>3, GoToTypes
    DEF InsertFails, Progress, PhaseInv, TypeOK, Issued, InFlight
<1>7. ASSUME NEW r \in Reqs, Find(r) PROVE Progress'
  <2>1. pc[r] \in InFlight /\ "writing" \in Phases /\ GoTo(r, "writing")
    BY <1>7 DEF Find, InFlight, Phases
  <2> QED
    BY <1>0, <1>7, <2>1, GoToTypes DEF Find, Progress, PhaseInv, TypeOK, Issued, InFlight
<1>8. ASSUME NEW r \in Reqs, Write(r) PROVE Progress'
  <2>1. /\ pc[r] \in InFlight /\ AfterRecord(r) \in Phases /\ GoTo(r, AfterRecord(r))
        /\ AfterRecord(r) = "answered" \/ (AfterRecord(r) = "tellIssued" /\ Issued(r))
    BY <1>8 DEF Write, AfterRecord, InFlight, Phases, Issued
  <2>2. txns' \in TxnTable
    BY <1>8, WriteType DEF Write
  <2> QED
    BY <1>0, <1>8, <2>1, <2>2, GoToTypes DEF Write, Progress, PhaseInv, TypeOK, Issued, InFlight
<1>9. ASSUME NEW r \in Reqs, RecordFails(r) PROVE Progress'
  <2>0. txns' \in TxnTable
    BY <1>0, <1>9, WriteType DEF RecordFails, TypeOK
  <2>1. /\ pc[r] \in InFlight /\ AfterRecord(r) \in Phases /\ GoTo(r, AfterRecord(r))
        /\ AfterRecord(r) = "answered" \/ (AfterRecord(r) = "tellIssued" /\ Issued(r))
    BY <1>9 DEF RecordFails, AfterRecord, InFlight, Phases, Issued
  <2>2. dbErrors' \subseteq Reqs \X {"insert", "audit"}
    BY <1>0, <1>9 DEF RecordFails, TypeOK
  <2> QED
    BY <1>0, <1>9, <2>0, <2>1, <2>2, GoToTypes
    DEF RecordFails, Progress, PhaseInv, TypeOK, Issued, InFlight
<1>10. ASSUME NEW r \in Reqs, Tell(r) PROVE Progress'
  <2>1. /\ pc[r] \in InFlight /\ AfterTelling(pc[r]) \in {"finding", "answered"}
        /\ AfterTelling(pc[r]) \in Phases /\ GoTo(r, AfterTelling(pc[r]))
    BY <1>10 DEF Tell, TellPhases, AfterTelling, InFlight, Phases
  <2> QED
    BY <1>0, <1>10, <2>1, GoToTypes DEF Tell, Progress, PhaseInv, TypeOK, Issued, InFlight
<1>11. ASSUME NEW r \in Reqs, HangUp(r) PROVE Progress'
  BY <1>0, <1>11 DEF HangUp, Progress, PhaseInv, TypeOK, Issued, InFlight, Phases
<1>12. ASSUME NEW r \in Reqs, IntuneApproves(r) PROVE Progress'
  BY <1>0, <1>12 DEF IntuneApproves, Progress, PhaseInv, TypeOK, Issued
<1>13. ASSUME NEW r \in Reqs, IntuneHears(r) PROVE Progress'
  <2>1. Story(r, pc[r]) \in Notification
    BY <1>0 DEF Story, Notification, TypeOK
  <2> QED
    BY <1>0, <1>13, <2>1 DEF IntuneHears, Progress, PhaseInv, TypeOK, Issued
<1>14. CASE Restart
  BY <1>0, <1>14 DEF Restart, Progress, PhaseInv, TypeOK, Issued, InFlight, Phases
<1>15. CASE UNCHANGED vars
  BY <1>0, <1>15 DEF vars, Progress, PhaseInv, TypeOK, Issued
<1> QED
  BY <1>1, <1>2, <1>3, <1>4, <1>5, <1>6, <1>7, <1>8, <1>9, <1>10, <1>11, <1>12, <1>13,
     <1>14, <1>15
  DEF Next, Handle

\* Type correctness of the enrolment path.
THEOREM TypesCorrect == Spec => []TypeOK
<1>1. Progress => TypeOK
  BY DEF Progress
<1> QED
  BY <1>1, ProgressInit, ProgressStep, PTL DEF Spec

-----------------------------------------------------------------------------
(***************************************************************************)
(* Second layer: serials, certificate rows and their requests.             *)
(***************************************************************************)

SerialsDiffer ==
  \A q, r \in Reqs : Issued(r) /\ serial[q] = serial[r] => q = r

RowsHaveOwners ==
  \A s \in Serials : certs[s] # NoRow => \E r \in Reqs : serial[r] = s

RowsMatchOwners ==
  \A r \in Reqs : Issued(r) /\ certs[serial[r]] # NoRow => certs[serial[r]] = IssuedRow(msg[r])

\* A handler that is past its insert has its row, unless the insert failed,
\* after which it never reaches record_transaction.
InsertedOrFailed ==
  \A r \in Reqs :
    /\ Issued(r) /\ pc[r] \in {"finding", "writing"} => certs[serial[r]] # NoRow
    /\ Issued(r) /\ pc[r] \in {"tellIssued", "answered"} =>
         certs[serial[r]] # NoRow \/ <<r, "insert">> \in dbErrors

Tables == SerialsDiffer /\ RowsHaveOwners /\ RowsMatchOwners /\ InsertedOrFailed

LEMMA TablesInit == Init => Tables
BY DEF Init, Tables, SerialsDiffer, RowsHaveOwners, RowsMatchOwners, InsertedOrFailed, Issued

\* A step that leaves the messages, the certificates and their table alone,
\* moves handlers no nearer to a row they lack and forgets no error.
LEMMA TablesFrame ==
  ASSUME Progress, Tables, UNCHANGED <<msg, serial, certs>>,
         dbErrors \subseteq dbErrors',
         \A r \in Reqs :
           /\ Issued(r) /\ pc'[r] \in {"finding", "writing"} => pc[r] \in {"finding", "writing"}
           /\ Issued(r) /\ pc'[r] \in {"tellIssued", "answered"} =>
                \/ pc[r] \in {"finding", "writing", "tellIssued", "answered"}
                \/ <<r, "insert">> \in dbErrors'
  PROVE  Tables'
<1>1. SerialsDiffer' /\ RowsHaveOwners' /\ RowsMatchOwners'
  BY DEF Tables, SerialsDiffer, RowsHaveOwners, RowsMatchOwners, Issued, IssuedRow
<1>2. InsertedOrFailed'
  BY DEF Tables, InsertedOrFailed, Issued
<1> QED
  BY <1>1, <1>2 DEF Tables

\* Putting the row of a request under its own serial.
LEMMA TablesInsert ==
  ASSUME Progress, Tables, NEW r \in Reqs, pc[r] = "inserting",
         certs' = AfterInsert(r), certs[serial[r]] = NoRow, UNCHANGED <<msg, serial>>,
         dbErrors \subseteq dbErrors',
         \A q \in Reqs \ {r} : pc'[q] = pc[q]
  PROVE  Tables'
<1>1. /\ serial[r] \in Serials /\ Issued(r)
      /\ msg[r] \in Requests /\ msg[r].profile \in Profiles
  BY InsertType, EarlyReplies DEF Progress, PhaseInv, InFlight, Phases
<1>2. /\ certs'[serial[r]] = IssuedRow(msg[r]) /\ certs'[serial[r]] # NoRow
      /\ \A x \in Serials \ {serial[r]} : certs'[x] = certs[x]
  BY <1>1, InsertIssuedTable, IssuedRowType DEF AfterInsert, Progress, TypeOK
<1>3. \A q \in Reqs \ {r} : Issued(q) =>
        serial[q] \in Serials \ {serial[r]} /\ certs'[serial[q]] = certs[serial[q]]
  BY <1>1, <1>2 DEF Progress, TypeOK, Issued, Tables, SerialsDiffer
<1>4. SerialsDiffer'
  BY DEF Tables, SerialsDiffer, Issued
<1>5. RowsHaveOwners'
  BY <1>2 DEF Tables, RowsHaveOwners
<1>6. RowsMatchOwners'
  BY <1>2, <1>3 DEF Tables, RowsMatchOwners, Issued, IssuedRow
<1>7. InsertedOrFailed'
  BY <1>2, <1>3 DEF Tables, InsertedOrFailed, Issued
<1> QED
  BY <1>4, <1>5, <1>6, <1>7 DEF Tables

LEMMA TablesStep == Progress /\ Tables /\ [Next]_vars => Tables'
<1> SUFFICES ASSUME Progress, Tables, [Next]_vars PROVE Tables'
  OBVIOUS
<1>0. TypeOK
  BY DEF Progress
<1>1. ASSUME NEW r \in Reqs, Receive(r) PROVE Tables'
  <2>1. /\ ~ Issued(r) /\ UNCHANGED <<serial, certs, dbErrors>>
        /\ \A q \in Reqs \ {r} : msg'[q] = msg[q] /\ pc'[q] = pc[q]
    BY <1>0, <1>1 DEF Receive, Progress, PhaseInv, TypeOK
  <2>2. SerialsDiffer' /\ RowsHaveOwners'
    BY <2>1 DEF Tables, SerialsDiffer, RowsHaveOwners, Issued
  <2>3. RowsMatchOwners' /\ InsertedOrFailed'
    BY <2>1 DEF Tables, RowsMatchOwners, InsertedOrFailed, Issued, IssuedRow
  <2> QED
    BY <2>2, <2>3 DEF Tables
<1>2. ASSUME NEW r \in Reqs, Reject(r) PROVE Tables'
  BY <1>0, <1>2, TablesFrame DEF Reject, GoTo, Progress, PhaseInv, TypeOK
<1>3. ASSUME NEW r \in Reqs, Issue(r) PROVE Tables'
  <2>1. PICK s \in Serials : Fresh(s) /\ serial' = [serial EXCEPT ![r] = s]
    BY <1>3 DEF Issue
  <2>2. /\ ~ Issued(r) /\ serial'[r] = s /\ pc'[r] = "inserting"
        /\ \A q \in Reqs \ {r} : serial'[q] = serial[q] /\ pc'[q] = pc[q]
    BY <1>0, <1>3, <2>1 DEF Issue, GoTo, Progress, PhaseInv, TypeOK
  <2>3. certs[s] = NoRow
    BY <2>1 DEF Fresh, Tables, RowsHaveOwners
  <2>4. SerialsDiffer'
    BY <2>1, <2>2 DEF Fresh, Tables, SerialsDiffer, Issued
  <2>5. RowsHaveOwners'
    <3> SUFFICES ASSUME NEW x \in Serials, certs[x] # NoRow
                 PROVE  \E q \in Reqs : serial'[q] = x
      BY <1>3 DEF Issue, RowsHaveOwners
    <3>1. PICK q \in Reqs : serial[q] = x
      BY DEF Tables, RowsHaveOwners
    <3>2. q # r
      BY <2>2, <3>1, NoSerialAssumption DEF Issued
    <3> QED
      BY <2>2, <3>1, <3>2
  <2>6. RowsMatchOwners' /\ InsertedOrFailed'
    BY <1>3, <2>2, <2>3
    DEF Issue, Tables, RowsMatchOwners, InsertedOrFailed, Issued, IssuedRow
  <2> QED
    BY <2>4, <2>5, <2>6 DEF Tables
<1>4. ASSUME NEW r \in Reqs, CannotIssue(r) PROVE Tables'
  BY <1>0, <1>4, TablesFrame DEF CannotIssue, GoTo, Progress, PhaseInv, TypeOK
<1>5. ASSUME NEW r \in Reqs, Insert(r) PROVE Tables'
  BY <1>0, <1>5, TablesInsert DEF Insert, GoTo, TypeOK
<1>6. ASSUME NEW r \in Reqs, InsertFails(r) PROVE Tables'
  <2>1. CASE UNCHANGED certs
    BY <1>0, <1>6, <2>1, TablesFrame DEF InsertFails, GoTo, AfterInsertError, TypeOK
  <2>2. CASE certs[serial[r]] = NoRow /\ certs' = AfterInsert(r)
    BY <1>0, <1>6, <2>2, TablesInsert DEF InsertFails, GoTo, TypeOK
  <2> QED
    BY <1>6, <2>1, <2>2 DEF InsertFails
<1>7. ASSUME NEW r \in Reqs, Find(r) PROVE Tables'
  BY <1>0, <1>7, TablesFrame DEF Find, GoTo, TypeOK
<1>8. ASSUME NEW r \in Reqs, Write(r) PROVE Tables'
  BY <1>0, <1>8, TablesFrame DEF Write, AfterRecord, GoTo, TypeOK
<1>9. ASSUME NEW r \in Reqs, RecordFails(r) PROVE Tables'
  BY <1>0, <1>9, TablesFrame DEF RecordFails, AfterRecord, GoTo, TypeOK
<1>10. ASSUME NEW r \in Reqs, Tell(r) PROVE Tables'
  <2>1. Issued(r) => pc[r] = "tellIssued"
    BY <1>10 DEF Tell, TellPhases, Progress, PhaseInv
  <2> QED
    BY <1>0, <1>10, <2>1, TablesFrame DEF Tell, AfterTelling, GoTo, TypeOK
<1>11. ASSUME NEW r \in Reqs, HangUp(r) PROVE Tables'
  BY <1>0, <1>11, TablesFrame DEF HangUp, TypeOK
<1>12. ASSUME NEW r \in Reqs, IntuneApproves(r) PROVE Tables'
  BY <1>12, TablesFrame DEF IntuneApproves
<1>13. ASSUME NEW r \in Reqs, IntuneHears(r) PROVE Tables'
  BY <1>13, TablesFrame DEF IntuneHears
<1>14. CASE Restart
  BY <1>0, <1>14, TablesFrame DEF Restart, TypeOK
<1>15. CASE UNCHANGED vars
  BY <1>15, TablesFrame DEF vars
<1> QED
  BY <1>1, <1>2, <1>3, <1>4, <1>5, <1>6, <1>7, <1>8, <1>9, <1>10, <1>11, <1>12, <1>13,
     <1>14, <1>15
  DEF Next, Handle

-----------------------------------------------------------------------------
(***************************************************************************)
(* Third layer: the audit trail and the notifications.                     *)
(***************************************************************************)

\* A row the SELECT saw is still there at the UPDATE.
FoundStays ==
  \A r \in Reqs : pc[r] = "writing" /\ found[r] => txns[msg[r].txn] # NoRow

Trail == /\ IssuedAuditHasCertificate /\ FoundStays /\ RecordedTransactionHasRow
         /\ IntuneIsToldTheTruth

IInv == Progress /\ Tables /\ Trail

LEMMA TrailInit == Init => Trail
BY DEF Init, Trail, IssuedAuditHasCertificate, FoundStays, RecordedTransactionHasRow,
   IntuneIsToldTheTruth, Recorded

\* Only the second statement of record_transaction writes the audit trail,
\* and it may do so and be reported as failed.
LEMMA TxnsSteps ==
  ASSUME [Next]_vars
  PROVE  UNCHANGED txns \/ \E r \in Reqs : pc[r] = "writing" /\ txns' = WrittenTxns(r)
BY DEF Next, Handle, Receive, Reject, Issue, CannotIssue, Insert, InsertFails, Find, Write,
   RecordFails, Tell, HangUp, IntuneApproves, IntuneHears, Restart, vars

\* No step takes a row away, rewrites a certificate row, or gives a
\* transaction another profile.
LEMMA RowsStay ==
  ASSUME Progress, Tables, [Next]_vars
  PROVE  /\ \A s \in Serials : certs[s] # NoRow => certs'[s] = certs[s]
         /\ \A t \in Txns : txns[t] # NoRow =>
              txns'[t] # NoRow /\ txns'[t].profile = txns[t].profile
<1>0. TypeOK
  BY DEF Progress
<1>1. ASSUME NEW r \in Reqs, pc[r] = "inserting", certs[serial[r]] = NoRow,
             certs' = AfterInsert(r)
      PROVE  \A s \in Serials : certs[s] # NoRow => certs'[s] = certs[s]
  BY <1>0, <1>1 DEF AfterInsert, InsertIssued, TypeOK, CertTable
<1>2. ASSUME NEW r \in Reqs, pc[r] = "writing", txns' = WrittenTxns(r)
      PROVE  \A t \in Txns : txns[t] # NoRow =>
               txns'[t] # NoRow /\ txns'[t].profile = txns[t].profile
  <2>1. /\ msg[r].txn \in Txns /\ msg[r].profile \in Profiles /\ AuditStatus(r) \in TxnStatus
        /\ txns \in TxnTable
    BY <1>0, <1>2, WriteType DEF TypeOK
  <2>2. txns' = WrittenTxns(r)
    BY <1>2
  <2>3. CASE found[r]
    <3>1. \A p \in Profiles : TxnRecord(p, AuditStatus(r)) # NoRow
                            /\ TxnRecord(p, AuditStatus(r)).profile = p
      BY <2>1, NoRowAssumption DEF TxnRecord, TxnRow
    <3>2. txns[msg[r].txn] # NoRow => txns[msg[r].txn].profile \in Profiles
      BY <2>1 DEF TxnTable, TxnRow
    <3> QED
      BY <2>1, <2>2, <2>3, <3>1, <3>2, UpdateTransactionTable DEF WrittenTxns
  <2>4. CASE ~ found[r]
    BY <2>1, <2>2, <2>4, InsertTransactionTable DEF WrittenTxns
  <2> QED
    BY <2>3, <2>4
<1>3. \/ UNCHANGED certs
      \/ \E r \in Reqs : pc[r] = "inserting" /\ certs[serial[r]] = NoRow /\ certs' = AfterInsert(r)
  BY DEF Next, Handle, Receive, Reject, Issue, CannotIssue, Insert, InsertFails, Find, Write,
     RecordFails, Tell, HangUp, IntuneApproves, IntuneHears, Restart, vars
<1>4. UNCHANGED txns \/ \E r \in Reqs : pc[r] = "writing" /\ txns' = WrittenTxns(r)
  BY TxnsSteps
<1> QED
  BY <1>1, <1>2, <1>3, <1>4

\* The message of a request that has come in, its certificate and its errors
\* stay.
LEMMA HistoryStays ==
  ASSUME Progress, [Next]_vars
  PROVE  /\ dbErrors \subseteq dbErrors'
         /\ \A r \in Reqs : pc[r] # "idle" => msg'[r] = msg[r] /\ pc'[r] # "idle"
         /\ \A r \in Reqs : Issued(r) => serial'[r] = serial[r]
<1>1. TypeOK /\ \A r \in Reqs : PhaseInv(r)
  BY DEF Progress
<1>2. dbErrors \subseteq dbErrors'
  BY DEF Next, Handle, Receive, Reject, Issue, CannotIssue, Insert, InsertFails, Find, Write,
     RecordFails, Tell, HangUp, IntuneApproves, IntuneHears, Restart, vars
<1>3. \/ UNCHANGED msg
      \/ \E r \in Reqs, m \in Requests : pc[r] = "idle" /\ msg' = [msg EXCEPT ![r] = m]
  BY DEF Next, Handle, Receive, Reject, Issue, CannotIssue, Insert, InsertFails, Find, Write,
     RecordFails, Tell, HangUp, IntuneApproves, IntuneHears, Restart, vars
<1>4. \/ UNCHANGED serial
      \/ \E r \in Reqs, s \in Serials : pc[r] = "validating" /\ serial' = [serial EXCEPT ![r] = s]
  BY DEF Next, Handle, Receive, Reject, Issue, CannotIssue, Insert, InsertFails, Find, Write,
     RecordFails, Tell, HangUp, IntuneApproves, IntuneHears, Restart, vars
<1>5. \/ UNCHANGED pc
      \/ \E r \in Reqs, p \in Phases \ {"idle"} : pc' = [pc EXCEPT ![r] = p]
      \/ pc' = [r \in Reqs |-> IF pc[r] \in InFlight THEN "gone" ELSE pc[r]]
  BY DEF Next, Handle, Receive, Reject, Issue, CannotIssue, Insert, InsertFails, Find, Write,
     RecordFails, Tell, HangUp, IntuneApproves, IntuneHears, Restart, vars, GoTo, Phases,
     AfterInsertError, AfterRecord, AfterTelling
<1> QED
  BY <1>1, <1>2, <1>3, <1>4, <1>5 DEF TypeOK, PhaseInv, Issued

\* The record step of a handler, by what the table and the SELECT showed.
LEMMA WriteEffect ==
  ASSUME Progress, FoundStays, NEW r \in Reqs, pc[r] = "writing", txns' = WrittenTxns(r)
  PROVE  /\ txns'[msg[r].txn] # NoRow
         /\ \A t \in Txns : txns'[t] # NoRow /\ txns'[t].status = "issued" =>
              \/ txns[t] # NoRow /\ txns[t].status = "issued"
              \/ t = msg[r].txn /\ Issued(r)
<1>1. /\ msg[r].txn \in Txns /\ msg[r].profile \in Profiles /\ AuditStatus(r) \in TxnStatus
      /\ txns \in TxnTable /\ txns' = WrittenTxns(r)
  BY WriteType DEF Progress, TypeOK
<1>2. AuditStatus(r) = "issued" => Issued(r)
  BY DEF AuditStatus, Issued
<1>3. \A p \in Profiles : /\ TxnRecord(p, AuditStatus(r)) # NoRow
                         /\ TxnRecord(p, AuditStatus(r)).status = AuditStatus(r)
  BY <1>1, NoRowAssumption DEF TxnRecord, TxnRow
<1>4. CASE found[r]
  <2>1. txns[msg[r].txn] # NoRow /\ txns[msg[r].txn].profile \in Profiles
    BY <1>1, <1>4 DEF FoundStays, TxnTable, TxnRow
  <2> QED
    BY <1>1, <1>2, <1>3, <1>4, <2>1, UpdateTransactionTable DEF WrittenTxns
<1>5. CASE ~ found[r]
  BY <1>1, <1>2, <1>3, <1>5, InsertTransactionTable DEF WrittenTxns
<1> QED
  BY <1>4, <1>5

LEMMA AuditStep ==
  Progress /\ Tables /\ Trail /\ [Next]_vars => IssuedAuditHasCertificate'
<1> SUFFICES ASSUME Progress, Tables, Trail, [Next]_vars,
                    NEW t \in Txns, txns'[t] # NoRow, txns'[t].status = "issued"
             PROVE  \E s \in Serials : certs'[s] # NoRow /\ certs'[s].transaction_id = t
  BY DEF IssuedAuditHasCertificate
<1>1. \A s \in Serials : certs[s] # NoRow => certs'[s] = certs[s]
  BY RowsStay
<1>2. CASE txns[t] # NoRow /\ txns[t].status = "issued"
  BY <1>1, <1>2 DEF Trail, IssuedAuditHasCertificate
<1>3. ASSUME NEW r \in Reqs, pc[r] = "writing", t = msg[r].txn, Issued(r)
      PROVE  \E s \in Serials : certs'[s] # NoRow /\ certs'[s].transaction_id = t
  <2>1. serial[r] \in Serials
    BY <1>3 DEF Progress, TypeOK, Issued
  <2>2. certs[serial[r]] # NoRow /\ certs[serial[r]] = IssuedRow(msg[r])
    BY <1>3 DEF Tables, InsertedOrFailed, RowsMatchOwners
  <2> QED
    BY <1>1, <1>3, <2>1, <2>2 DEF IssuedRow
<1>4. UNCHANGED txns \/ \E r \in Reqs : pc[r] = "writing" /\ txns' = WrittenTxns(r)
  BY TxnsSteps
<1> QED
  BY <1>2, <1>3, <1>4, WriteEffect DEF Trail

LEMMA FoundStep == Progress /\ Tables /\ Trail /\ [Next]_vars => FoundStays'
<1> SUFFICES ASSUME Progress, Tables, Trail, [Next]_vars,
                    NEW r \in Reqs, pc'[r] = "writing", found'[r]
             PROVE  txns'[msg'[r].txn] # NoRow
  BY DEF FoundStays
<1>0. TypeOK
  BY DEF Progress
<1>1. CASE Find(r)
  BY <1>0, <1>1 DEF Find, TypeOK
<1>2. CASE pc[r] = "writing" /\ found[r]
  <2>1. msg'[r] = msg[r]
    BY <1>2, HistoryStays
  <2>2. msg[r].txn \in Txns
    BY <1>2, WriteType
  <2> QED
    BY <1>2, <2>1, <2>2, RowsStay DEF Trail, FoundStays
<1>3. Find(r) \/ (pc[r] = "writing" /\ found[r])
  BY <1>0 DEF Next, Handle, Receive, Reject, Issue, CannotIssue, Insert, InsertFails, Find,
     Write, RecordFails, Tell, HangUp, IntuneApproves, IntuneHears, Restart, vars, TypeOK,
     GoTo, AfterInsertError, AfterRecord, AfterTelling, InFlight
<1> QED
  BY <1>1, <1>2, <1>3

LEMMA RecordedStep ==
  Progress /\ Tables /\ Trail /\ [Next]_vars => RecordedTransactionHasRow'
<1> SUFFICES ASSUME Progress, Tables, Trail, [Next]_vars, NEW r \in Reqs, Recorded(r)'
             PROVE  txns'[msg'[r].txn] # NoRow
  BY DEF RecordedTransactionHasRow
<1>0. TypeOK /\ PhaseInv(r) /\ Progress'
  BY ProgressStep DEF Progress
<1>1. CASE Write(r)
  BY <1>1, WriteEffect DEF Write, Trail
<1>2. CASE Recorded(r)
  <2>1. pc[r] # "idle" /\ msg[r] \in Requests
    BY <1>0, <1>2 DEF Recorded, PhaseInv
  <2>2. msg'[r] = msg[r] /\ msg[r].txn \in Txns
    BY <2>1, HistoryStays, MessageFields
  <2> QED
    BY <1>2, <2>2, RowsStay DEF Trail, RecordedTransactionHasRow
<1>3. Write(r) \/ Recorded(r)
  <2>1. dbErrors \subseteq dbErrors'
    BY HistoryStays
  <2>2. <<r, "insert">> \notin dbErrors' /\ <<r, "audit">> \notin dbErrors'
    BY DEF Recorded
  <2>3. ~ InsertFails(r) /\ ~ RecordFails(r)
    BY <2>2 DEF InsertFails, RecordFails
  <2>4. ~ Receive(r)
    <3> SUFFICES ASSUME Receive(r) PROVE FALSE
      OBVIOUS
    <3>1. PICK m \in Requests :
            /\ msg' = [msg EXCEPT ![r] = m]
            /\ pc' = [pc EXCEPT ![r] = IF EarlyReply(m) = "none" THEN "validating" ELSE "answered"]
      BY DEF Receive
    <3> QED
      BY <1>0, <3>1 DEF Recorded, TypeOK
  <2>5. CASE Tell(r)
    BY <1>0, <2>1, <2>5
    DEF Tell, TellPhases, AfterTelling, GoTo, Recorded, TypeOK, PhaseInv, InFlight
  <2>6. CASE pc'[r] = pc[r]
    <3>1. pc[r] # "idle"
      BY <2>6 DEF Recorded
    <3> QED
      BY <2>1, <2>6, <3>1, HistoryStays DEF Recorded
  <2>7. \/ Write(r) \/ Tell(r) \/ InsertFails(r) \/ RecordFails(r) \/ Receive(r)
        \/ pc'[r] = pc[r]
        \/ pc'[r] \notin {"tellIssued", "answered"}
    BY <1>0 DEF Next, Handle, Receive, Reject, Issue, CannotIssue, Insert, InsertFails, Find,
       Write, RecordFails, Tell, HangUp, IntuneApproves, IntuneHears, Restart, vars, TypeOK,
       GoTo
  <2> QED
    BY <2>3, <2>4, <2>5, <2>6, <2>7 DEF Recorded
<1> QED
  BY <1>1, <1>2, <1>3

LEMMA ToldStep ==
  Progress /\ Tables /\ Trail /\ [Next]_vars => IntuneIsToldTheTruth'
<1> SUFFICES ASSUME Progress, Tables, Trail, [Next]_vars, NEW n \in told'
             PROVE  IF n.kind = "failure"
                    THEN ~ Issued(n.req)' /\ pc'[n.req] \notin {"idle", "validating", "inserting"}
                    ELSE /\ n.serial = serial'[n.req] /\ Issued(n.req)'
                         /\ certs'[n.serial] # NoRow \/ <<n.req, "insert">> \in dbErrors'
  BY DEF IntuneIsToldTheTruth
<1>0. TypeOK /\ \A r \in Reqs : PhaseInv(r)
  BY DEF Progress
<1>1. ASSUME n \in told
      PROVE  IF n.kind = "failure"
             THEN ~ Issued(n.req)' /\ pc'[n.req] \notin {"idle", "validating", "inserting"}
             ELSE /\ n.serial = serial'[n.req] /\ Issued(n.req)'
                  /\ certs'[n.serial] # NoRow \/ <<n.req, "insert">> \in dbErrors'
  <2>1. n.req \in Reqs /\ n.serial \in Serials \cup {NoSerial}
    BY <1>0, <1>1 DEF TypeOK, Notification
  <2>2. CASE n.kind = "failure"
    <3>1. ~ Issued(n.req) /\ pc[n.req] \notin {"idle", "validating", "inserting"}
      BY <1>1, <2>2 DEF Trail, IntuneIsToldTheTruth
    <3>2. UNCHANGED serial \/ \E r \in Reqs : r # n.req /\ Issue(r)
      BY <3>1 DEF Next, Handle, Receive, Reject, Issue, CannotIssue, Insert, InsertFails, Find,
         Write, RecordFails, Tell, HangUp, IntuneApproves, IntuneHears, Restart, vars
    <3>3. serial'[n.req] = serial[n.req]
      BY <1>0, <2>1, <3>2 DEF Issue, TypeOK
    <3>4. pc'[n.req] \notin {"idle", "validating", "inserting"}
      BY <1>0, <2>1, <3>1 DEF Next, Handle, Receive, Reject, Issue, CannotIssue, Insert,
         InsertFails, Find, Write, RecordFails, Tell, HangUp, IntuneApproves, IntuneHears,
         Restart, vars, TypeOK, GoTo, AfterInsertError, AfterRecord, AfterTelling
    <3> QED
      BY <2>2, <3>1, <3>3, <3>4 DEF Issued
  <2>3. CASE n.kind # "failure"
    <3>1. /\ n.serial = serial[n.req] /\ Issued(n.req)
          /\ certs[n.serial] # NoRow \/ <<n.req, "insert">> \in dbErrors
      BY <1>1, <2>3 DEF Trail, IntuneIsToldTheTruth
    <3>2. n.serial \in Serials
      BY <2>1, <3>1 DEF Issued
    <3> QED
      BY <2>1, <2>3, <3>1, <3>2, RowsStay, HistoryStays DEF Issued
  <2> QED
    BY <2>2, <2>3
<1>2. ASSUME NEW r \in Reqs, IntuneHears(r), n = Story(r, pc[r])
      PROVE  IF n.kind = "failure"
             THEN ~ Issued(n.req)' /\ pc'[n.req] \notin {"idle", "validating", "inserting"}
             ELSE /\ n.serial = serial'[n.req] /\ Issued(n.req)'
                  /\ certs'[n.serial] # NoRow \/ <<n.req, "insert">> \in dbErrors'
  <2>1. /\ n.req = r /\ n.serial = serial[r]
        /\ n.kind = IF pc[r] = "tellIssued" THEN "success" ELSE "failure"
        /\ pc[r] \in TellPhases /\ UNCHANGED <<pc, serial, certs, dbErrors>>
    BY <1>2 DEF Story, IntuneHears
  <2> QED
    BY <1>0, <2>1 DEF TellPhases, PhaseInv, Issued, Tables, InsertedOrFailed
<1>3. n \in told \/ \E r \in Reqs : IntuneHears(r) /\ n = Story(r, pc[r])
  BY DEF Next, Handle, Receive, Reject, Issue, CannotIssue, Insert, InsertFails, Find, Write,
     RecordFails, Tell, HangUp, IntuneApproves, IntuneHears, Restart, vars
<1> QED
  BY <1>1, <1>2, <1>3

-----------------------------------------------------------------------------
(***************************************************************************)
(* The results.                                                            *)
(***************************************************************************)

\* IInv is inductive.
THEOREM InvariantHolds == Spec => []IInv
<1>1. Init => IInv
  BY ProgressInit, TablesInit, TrailInit DEF IInv
<1>2. IInv /\ [Next]_vars => IInv'
  BY ProgressStep, TablesStep, AuditStep, FoundStep, RecordedStep, ToldStep DEF IInv, Trail
<1> QED
  BY <1>1, <1>2, PTL DEF Spec

\* The audit trail claims no certificate that is not on record.
THEOREM AuditIsBacked == Spec => []IssuedAuditHasCertificate
<1>1. IInv => IssuedAuditHasCertificate
  BY DEF IInv, Trail
<1> QED
  BY <1>1, InvariantHolds, PTL

\* The race of record_transaction loses no transaction.
THEOREM RecordsSurviveTheRace == Spec => []RecordedTransactionHasRow
<1>1. IInv => RecordedTransactionHasRow
  BY DEF IInv, Trail
<1> QED
  BY <1>1, InvariantHolds, PTL

\* A delivered certificate is good at its responder unless its insert failed.
THEOREM Delivered == Spec => []DeliveredIsGood
<1>1. IInv => DeliveredIsGood
  <2> SUFFICES ASSUME IInv, NEW r \in Reqs, reply[r] = "Success", <<r, "insert">> \notin dbErrors
               PROVE  StatusBySerial(certs, CaOf[msg[r].profile], serial[r]) = "good"
    BY DEF DeliveredIsGood
  <2>1. pc[r] = "answered" /\ Issued(r)
    BY DEF IInv, Progress, PhaseInv
  <2>2. certs[serial[r]] # NoRow /\ certs[serial[r]] = IssuedRow(msg[r])
    BY <2>1 DEF IInv, Tables, InsertedOrFailed, RowsMatchOwners
  <2> QED
    BY <2>2 DEF IssuedRow, StatusBySerial, Selects
<1> QED
  BY <1>1, InvariantHolds, PTL

\* Intune hears nothing of a request that is not so.
THEOREM IntuneHearsTheTruth == Spec => []IntuneIsToldTheTruth
<1>1. IInv => IntuneIsToldTheTruth
  BY DEF IInv, Trail
<1> QED
  BY <1>1, InvariantHolds, PTL

\* Rows are never lost, rewritten or given to another profile.
THEOREM RowsArePersistent == Spec => RowsPersist
<1>1. IInv /\ [Next]_vars =>
        [/\ \A s \in Serials : certs[s] # NoRow => certs'[s] = certs[s]
         /\ \A t \in Txns : txns[t] # NoRow =>
              txns'[t] # NoRow /\ txns'[t].profile = txns[t].profile]_vars
  BY RowsStay DEF IInv
<1> QED
  BY <1>1, InvariantHolds, PTL DEF Spec, RowsPersist

-----------------------------------------------------------------------------
(***************************************************************************)
(* Refinement: the enrolment path implements Issuance.  What IInv says of  *)
(* the tables and the notifications is nearly enough for it; missing is    *)
(* that Intune has heard nothing of a certificate before its row can be    *)
(* there, and that what it can hear of one request is the same each time.  *)
(***************************************************************************)

\* No insert has failed before it is tried, and a failure names no serial.
Silence ==
  /\ \A r \in Reqs : <<r, "insert">> \in dbErrors => Issued(r) /\ pc[r] # "inserting"
  /\ \A n \in told : n.kind = "failure" => n.serial = NoSerial

LEMMA SilenceInit == Init => Silence
BY DEF Init, Silence

LEMMA SilenceStep == IInv /\ Silence /\ [Next]_vars => Silence'
<1> SUFFICES ASSUME IInv, Silence, [Next]_vars PROVE Silence'
  OBVIOUS
<1>0. TypeOK /\ Progress /\ \A r \in Reqs : PhaseInv(r)
  BY DEF IInv, Progress
<1>1. ASSUME NEW r \in Reqs, <<r, "insert">> \in dbErrors'
      PROVE  Issued(r)' /\ pc'[r] # "inserting"
  <2>1. CASE <<r, "insert">> \in dbErrors
    <3>1. Issued(r) /\ pc[r] # "inserting" /\ Issued(r)'
      BY <1>0, <2>1, HistoryStays DEF Silence, Issued
    <3>2. pc[r] # "validating"
      BY <1>0, <3>1 DEF PhaseInv
    <3>3. pc'[r] = "inserting" => pc[r] \in {"validating", "inserting"}
      BY <1>0 DEF Next, Handle, Receive, Reject, Issue, CannotIssue, Insert, InsertFails, Find,
         Write, RecordFails, Tell, HangUp, IntuneApproves, IntuneHears, Restart, vars, TypeOK,
         GoTo, AfterInsertError, AfterRecord, AfterTelling
    <3> QED
      BY <3>1, <3>2, <3>3
  <2>2. CASE <<r, "insert">> \notin dbErrors
    <3>1. InsertFails(r)
      BY <1>1, <2>2 DEF Next, Handle, Receive, Reject, Issue, CannotIssue, Insert, InsertFails,
         Find, Write, RecordFails, Tell, HangUp, IntuneApproves, IntuneHears, Restart, vars
    <3> QED
      BY <1>0, <3>1 DEF InsertFails, GoTo, AfterInsertError, PhaseInv, Issued, TypeOK
  <2> QED
    BY <2>1, <2>2
<1>2. ASSUME NEW n \in told', n.kind = "failure"
      PROVE  n.serial = NoSerial
  <2>1. CASE n \in told
    BY <1>2, <2>1 DEF Silence
  <2>2. ASSUME NEW r \in Reqs, IntuneHears(r), n = Story(r, pc[r])
        PROVE  n.serial = NoSerial
    <3>1. n.serial = serial[r] /\ pc[r] \in TellPhases /\ pc[r] # "tellIssued"
      BY <1>2, <2>2 DEF Story, IntuneHears
    <3> QED
      BY <1>0, <3>1 DEF TellPhases, PhaseInv, Issued
  <2>3. n \in told \/ \E r \in Reqs : IntuneHears(r) /\ n = Story(r, pc[r])
    BY DEF Next, Handle, Receive, Reject, Issue, CannotIssue, Insert, InsertFails, Find, Write,
       RecordFails, Tell, HangUp, IntuneApproves, IntuneHears, Restart, vars
  <2> QED
    BY <2>1, <2>2, <2>3
<1> QED
  BY <1>1, <1>2 DEF Silence

-----------------------------------------------------------------------------
(***************************************************************************)
(* What a step does to the three parties' views.                           *)
(***************************************************************************)

Registered == {s \in Serials : certs[s] # NoRow}
IntuneView == [r \in Reqs |-> IntuneSees(r)]
DeviceView == [r \in Reqs |-> DeviceSees(r)]

\* A device waits as long as its handler is at an await.
LEMMA DeviceWaits ==
  ASSUME NEW r \in Reqs, pc[r] \in InFlight
  PROVE  DeviceView[r] = "waiting"
<1>1. pc[r] \notin {"idle", "gone", "answered"}
  BY DEF InFlight
<1> QED
  BY <1>1 DEF DeviceView, DeviceSees

\* A device whose handler stays where it is sees no change.
LEMMA DeviceSame ==
  ASSUME Progress, NEW r \in Reqs, pc'[r] = pc[r], reply'[r] = reply[r]
  PROVE  DeviceView'[r] = DeviceView[r]
<1>1. pc[r] \in {"idle", "gone", "answered"} \cup InFlight
  BY DEF Progress, TypeOK, InFlight
<1> QED
  BY <1>1 DEF DeviceView, DeviceSees, InFlight

\* A handler that moves to another await goes unseen; one that returns sends
\* the device what became of the request, or an HTTP error.
LEMMA DeviceMoves ==
  ASSUME Progress, NEW r \in Reqs, pc[r] \in InFlight, NEW p \in Phases, GoTo(r, p)
  PROVE  /\ p \in InFlight => DeviceView' = DeviceView
         /\ p = "answered" =>
              \E d \in {IF serial[r] = NoSerial THEN "refusal" ELSE "certificate", "nothing"} :
                DeviceView' = [DeviceView EXCEPT ![r] = d]
<1>1. /\ pc'[r] = p /\ \A q \in Reqs \ {r} : pc'[q] = pc[q] /\ reply'[q] = reply[q]
  BY GoToTypes
<1>2. \A q \in Reqs \ {r} : DeviceView'[q] = DeviceView[q]
  BY <1>1, DeviceSame
<1>3. CASE p \in InFlight
  <2>1. DeviceView[r] = "waiting"
    BY DeviceWaits
  <2>2. pc'[r] \in InFlight /\ pc'[r] \notin {"idle", "gone", "answered"}
    BY <1>1, <1>3 DEF InFlight
  <2>3. DeviceView'[r] = "waiting"
    BY <2>2 DEF DeviceView, DeviceSees
  <2>4. \A q \in Reqs : DeviceView'[q] = DeviceView[q]
    BY <1>2, <2>1, <2>3
  <2> QED
    BY <1>3, <2>4 DEF DeviceView, InFlight
<1>4. CASE p = "answered"
  <2>1. reply'[r] = FinalReply(r)
    BY <1>4 DEF GoTo, Progress, TypeOK
  <2>2. DeviceView'[r] = IF reply'[r] = "Success" THEN "certificate"
                        ELSE IF reply'[r] \in Failures THEN "refusal" ELSE "nothing"
    BY <1>1, <1>4 DEF DeviceView, DeviceSees, InFlight
  <2>3. DeviceView'[r] \in {IF serial[r] = NoSerial THEN "refusal" ELSE "certificate", "nothing"}
    BY <2>1, <2>2 DEF FinalReply, CertRep, Failures
  <2>4. DeviceView' = [DeviceView EXCEPT ![r] = DeviceView'[r]]
    BY <1>2 DEF DeviceView
  <2> QED
    BY <1>4, <2>3, <2>4 DEF InFlight
<1> QED
  BY <1>3, <1>4

\* A certificate becomes known to the responders with its row.
LEMMA InsertRegisters ==
  ASSUME Progress, NEW r \in Reqs, pc[r] = "inserting", certs[serial[r]] = NoRow,
         certs' = AfterInsert(r)
  PROVE  Registered' = Registered \cup {serial[r]}
<1>1. /\ serial[r] \in Serials /\ msg[r] \in Requests /\ msg[r].profile \in Profiles
  BY InsertType, EarlyReplies DEF Progress, PhaseInv, InFlight, Phases
<1>2. /\ certs'[serial[r]] # NoRow
      /\ \A s \in Serials \ {serial[r]} : certs'[s] = certs[s]
  BY <1>1, InsertIssuedTable, IssuedRowType DEF AfterInsert, Progress, TypeOK
<1> QED
  BY <1>1, <1>2 DEF Registered

\* Intune has heard nothing of a request before its certificate is made, nor
\* before the insert is tried.
LEMMA IntuneHeardNothing ==
  ASSUME IInv, Silence, NEW r \in Reqs,
         \/ pc[r] = "validating"
         \/ pc[r] = "inserting" /\ certs[serial[r]] = NoRow
  PROVE  IntuneSees(r) = "nothing"
<1> SUFFICES ASSUME NEW n \in told, n.req = r PROVE FALSE
  BY DEF IntuneSees
<1>1. n.kind \in {"success", "failure"}
  BY DEF IInv, Progress, TypeOK, Notification
<1>2. pc[r] = "validating" => ~ Issued(r)
  BY DEF IInv, Progress, PhaseInv
<1>3. pc[r] = "inserting" => Issued(r) /\ <<r, "insert">> \notin dbErrors
  BY DEF IInv, Progress, PhaseInv, Silence
<1> QED
  BY <1>1, <1>2, <1>3 DEF IInv, Trail, IntuneIsToldTheTruth

\* A notification is the first of its request, and says what is so.
LEMMA HearingTells ==
  ASSUME IInv, Silence, NEW r \in Reqs, IntuneHears(r)
  PROVE  /\ IntuneSees(r) = "nothing"
         /\ IntuneView' = [IntuneView EXCEPT ![r] =
              IF serial[r] = NoSerial THEN "failed" ELSE "issued"]
<1>0. TypeOK /\ PhaseInv(r)
  BY DEF IInv, Progress
<1> DEFINE n == Story(r, pc[r])
<1>1. /\ n.req = r /\ n.serial = serial[r] /\ n.kind \in {"success", "failure"}
      /\ n.kind = "success" <=> pc[r] = "tellIssued"
      /\ told' = told \cup {n} /\ n \notin told
      /\ pc[r] \in TellPhases
  BY DEF Story, IntuneHears
<1>2. n.kind = "success" <=> Issued(r)
  BY <1>0, <1>1 DEF PhaseInv, TellPhases
<1>3. ASSUME NEW m \in told, m.req = r PROVE FALSE
  <2>1. m \in Notification /\ n \in Notification
    BY <1>0, <1>3 DEF TypeOK, Story, Notification
  <2>2. m.kind = n.kind /\ m.serial = n.serial
    BY <1>1, <1>2, <1>3, <2>1
    DEF IInv, Trail, IntuneIsToldTheTruth, Silence, Notification, Issued
  <2>3. m = n
    BY <1>1, <1>3, <2>1, <2>2 DEF Notification
  <2> QED
    BY <1>1, <1>3, <2>3
<1>4. IntuneSees(r) = "nothing"
  BY <1>3 DEF IntuneSees
<1>5. IntuneSees(r)' = IF serial[r] = NoSerial THEN "failed" ELSE "issued"
  <2>1. \A m \in told' : m.req = r => m = n
    BY <1>1, <1>3
  <2>2. n \in told'
    BY <1>1
  <2> QED
    BY <1>1, <1>2, <2>1, <2>2 DEF IntuneSees, Issued
<1>6. ASSUME NEW q \in Reqs \ {r} PROVE IntuneSees(q)' = IntuneSees(q)
  BY <1>1, <1>6 DEF IntuneSees
<1> QED
  BY <1>4, <1>5, <1>6 DEF IntuneView

-----------------------------------------------------------------------------
(***************************************************************************)
(* The steps.                                                              *)
(***************************************************************************)

\* Every step of the handlers is a step of Issuance or goes unseen.
LEMMA AbstractStep ==
  IInv /\ Silence /\ [Next]_vars => [Abstract!Next]_(Abstract!vars)
<1> SUFFICES ASSUME IInv, Silence, [Next]_vars PROVE [Abstract!Next]_(Abstract!vars)
  OBVIOUS
<1> USE DEF Registered, IntuneView, DeviceView
<1>0. TypeOK /\ Progress /\ \A r \in Reqs : PhaseInv(r)
  BY DEF IInv, Progress
\* What a handler does when it neither writes the table nor tells Intune.
<1>1. ASSUME NEW r \in Reqs, pc[r] \in InFlight, NEW p \in Phases, GoTo(r, p),
             p \in InFlight \/ p = "answered", UNCHANGED <<serial, Registered, IntuneView>>
      PROVE  UNCHANGED Abstract!vars \/ Abstract!Answer(r)
  <2>1. CASE p \in InFlight
    <3>1. DeviceView' = DeviceView
      BY <1>0, <1>1, <2>1, DeviceMoves
    <3> QED
      BY <1>1, <3>1 DEF Abstract!vars
  <2>2. CASE p = "answered"
    <3>1. /\ DeviceView[r] = "waiting"
          /\ \E d \in {IF serial[r] = NoSerial THEN "refusal" ELSE "certificate", "nothing"} :
               DeviceView' = [DeviceView EXCEPT ![r] = d]
      BY <1>0, <1>1, <2>2, DeviceMoves, DeviceWaits
    <3> QED
      BY <1>1, <3>1 DEF Abstract!Answer
  <2> QED
    BY <1>1, <2>1, <2>2
<1>2. UNCHANGED certs => Registered' = Registered
  OBVIOUS
<1>3. UNCHANGED told => IntuneView' = IntuneView
  BY DEF IntuneSees
<1>4. UNCHANGED <<pc, reply>> => DeviceView' = DeviceView
  <2> SUFFICES ASSUME UNCHANGED <<pc, reply>>, NEW r \in Reqs
               PROVE  DeviceSees(r)' = DeviceSees(r)
    OBVIOUS
  <2> QED
    BY <1>0, DeviceSame
<1>5. ASSUME NEW r \in Reqs, Receive(r) PROVE Abstract!Arrive(r)
  <2>1. PICK m \in Requests :
          /\ reply' = [reply EXCEPT ![r] = EarlyReply(m)]
          /\ pc' = [pc EXCEPT ![r] = IF EarlyReply(m) = "none" THEN "validating" ELSE "answered"]
    BY <1>5 DEF Receive
  <2>2. pc[r] = "idle" /\ UNCHANGED <<serial, certs, told>>
    BY <1>5 DEF Receive
  <2>3. DeviceView[r] = "absent"
    BY <2>2 DEF DeviceSees, InFlight
  <2>4. /\ pc'[r] = IF EarlyReply(m) = "none" THEN "validating" ELSE "answered"
        /\ reply'[r] = EarlyReply(m) /\ reply'[r] # "Success"
        /\ \A q \in Reqs \ {r} : DeviceView'[q] = DeviceView[q]
    BY <1>0, <2>1, EarlyReplies, DeviceSame DEF TypeOK
  <2>5. DeviceView'[r] \in {"waiting", "refusal", "nothing"}
    BY <2>4 DEF DeviceSees, InFlight, Phases
  <2>6. DeviceView' = [DeviceView EXCEPT ![r] = DeviceView'[r]]
    BY <2>4
  <2> QED
    BY <1>2, <1>3, <2>2, <2>3, <2>5, <2>6 DEF Abstract!Arrive
<1>6. ASSUME NEW r \in Reqs, Reject(r) \/ CannotIssue(r)
      PROVE  UNCHANGED Abstract!vars \/ Abstract!Answer(r)
  <2>1. /\ pc[r] \in InFlight /\ UNCHANGED <<serial, certs, told>>
        /\ \E p \in {"tellRejected", "tellUnissued"} : GoTo(r, p)
    BY <1>6 DEF Reject, CannotIssue, InFlight, Phases
  <2> QED
    BY <1>1, <1>2, <1>3, <2>1 DEF InFlight, Phases
<1>7. ASSUME NEW r \in Reqs, Issue(r) PROVE Abstract!Issue(r)
  <2>1. /\ pc[r] = "validating" /\ pc[r] \in InFlight /\ GoTo(r, "inserting")
        /\ "inserting" \in Phases \cap InFlight
        /\ UNCHANGED <<certs, told>>
        /\ \E s \in Serials : Fresh(s) /\ serial' = [serial EXCEPT ![r] = s]
    BY <1>7 DEF Issue, InFlight, Phases
  <2>2. DeviceView[r] = "waiting" /\ DeviceView' = DeviceView
    BY <1>0, <2>1, DeviceMoves, DeviceWaits
  <2>3. serial[r] = NoSerial /\ IntuneView[r] = "nothing"
    BY <1>0, <2>1, IntuneHeardNothing DEF PhaseInv, Issued
  <2> QED
    BY <1>2, <1>3, <2>1, <2>2, <2>3 DEF Abstract!Issue, Fresh
\* The row of a certificate that has none yet is written, with or without an
\* error that says otherwise.
<1>8. ASSUME NEW r \in Reqs, pc[r] = "inserting", certs[serial[r]] = NoRow,
             certs' = AfterInsert(r), NEW p \in {"finding", "tellIssued"}, GoTo(r, p),
             UNCHANGED <<serial, told>>
      PROVE  Abstract!Register(r)
  <2>1. pc[r] \in InFlight /\ p \in Phases \cap InFlight
    BY <1>8 DEF InFlight, Phases
  <2>2. DeviceView[r] = "waiting" /\ DeviceView' = DeviceView
    BY <1>0, <1>8, <2>1, DeviceMoves, DeviceWaits
  <2>3. serial[r] # NoSerial /\ IntuneView[r] = "nothing"
    BY <1>0, <1>8, IntuneHeardNothing DEF PhaseInv, Issued
  <2>4. Registered' = Registered \cup {serial[r]}
    BY <1>0, <1>8, InsertRegisters
  <2> QED
    BY <1>3, <1>8, <2>2, <2>3, <2>4 DEF Abstract!Register
<1>9. ASSUME NEW r \in Reqs, Insert(r) PROVE Abstract!Register(r)
  BY <1>8, <1>9 DEF Insert
<1>10. ASSUME NEW r \in Reqs, InsertFails(r)
       PROVE  UNCHANGED Abstract!vars \/ Abstract!Register(r) \/ Abstract!Answer(r)
  <2>1. /\ pc[r] = "inserting" /\ GoTo(r, "tellIssued") /\ UNCHANGED <<serial, told>>
        /\ UNCHANGED certs \/ (certs[serial[r]] = NoRow /\ certs' = AfterInsert(r))
    BY <1>10 DEF InsertFails, AfterInsertError
  <2>2. CASE UNCHANGED certs
    BY <1>1, <1>2, <1>3, <2>1, <2>2 DEF InFlight, Phases
  <2>3. CASE certs[serial[r]] = NoRow /\ certs' = AfterInsert(r)
    BY <1>8, <2>1, <2>3
  <2> QED
    BY <2>1, <2>2, <2>3
<1>11. ASSUME NEW r \in Reqs, Find(r) \/ Write(r) \/ RecordFails(r) \/ Tell(r)
       PROVE  UNCHANGED Abstract!vars \/ Abstract!Answer(r)
  <2>1. /\ pc[r] \in InFlight /\ UNCHANGED <<serial, certs, told>>
        /\ \E p \in {"writing", "tellIssued", "finding", "answered"} : GoTo(r, p)
    BY <1>11 DEF Find, Write, RecordFails, Tell, AfterRecord, AfterTelling, TellPhases,
       InFlight, Phases
  <2> QED
    BY <1>1, <1>2, <1>3, <2>1 DEF InFlight, Phases
<1>12. ASSUME NEW r \in Reqs, HangUp(r) PROVE Abstract!Abandon({r})
  <2>1. /\ pc[r] \in InFlight /\ pc' = [pc EXCEPT ![r] = "gone"]
        /\ UNCHANGED <<serial, certs, told, reply>>
    BY <1>12 DEF HangUp
  <2>2. DeviceView[r] = "waiting" /\ \A q \in Reqs \ {r} : DeviceView'[q] = DeviceView[q]
    BY <1>0, <2>1, DeviceWaits, DeviceSame DEF TypeOK
  <2>3. DeviceView'[r] = "nothing"
    BY <1>0, <2>1 DEF DeviceSees, TypeOK, InFlight
  <2> QED
    BY <1>2, <1>3, <2>1, <2>2, <2>3 DEF Abstract!Abandon
<1>13. ASSUME NEW r \in Reqs, IntuneHears(r) PROVE Abstract!TellIntune(r)
  <2>1. pc[r] \in InFlight /\ UNCHANGED <<pc, serial, reply, certs>>
    BY <1>13 DEF IntuneHears, TellPhases, InFlight, Phases
  <2>2. DeviceView[r] = "waiting"
    BY <2>1, DeviceWaits
  <2>3. IntuneView[r] = "nothing" /\ IntuneView' = [IntuneView EXCEPT ![r] =
          IF serial[r] = NoSerial THEN "failed" ELSE "issued"]
    BY <1>13, HearingTells
  <2> QED
    BY <1>2, <1>4, <2>1, <2>2, <2>3 DEF Abstract!TellIntune
<1>14. ASSUME NEW r \in Reqs, IntuneApproves(r) PROVE UNCHANGED Abstract!vars
  BY <1>2, <1>3, <1>4, <1>14 DEF IntuneApproves, Abstract!vars
<1>15. CASE Restart
  <2> DEFINE Lost == {r \in Reqs : pc[r] \in InFlight}
  <2>1. /\ pc' = [r \in Reqs |-> IF pc[r] \in InFlight THEN "gone" ELSE pc[r]]
        /\ UNCHANGED <<serial, certs, told, reply>>
    BY <1>15 DEF Restart
  <2>2. \A r \in Lost : DeviceView[r] = "waiting" /\ DeviceView'[r] = "nothing"
    <3> SUFFICES ASSUME NEW r \in Lost
                 PROVE  DeviceView[r] = "waiting" /\ DeviceView'[r] = "nothing"
      OBVIOUS
    <3>1. pc'[r] = "gone"
      BY <2>1
    <3> QED
      BY <3>1, DeviceWaits DEF DeviceSees, InFlight
  <2>3. \A r \in Reqs \ Lost : DeviceView'[r] = DeviceView[r]
    BY <1>0, <2>1, DeviceSame
  <2>4. DeviceView' = [r \in Reqs |-> IF r \in Lost THEN "nothing" ELSE DeviceView[r]]
    BY <2>2, <2>3
  <2>5. Abstract!Abandon(Lost)
    BY <1>2, <1>3, <2>1, <2>2, <2>4 DEF Abstract!Abandon
  <2> QED
    BY <2>5 DEF Abstract!Next
<1>16. CASE UNCHANGED vars
  BY <1>2, <1>3, <1>4, <1>16 DEF vars, Abstract!vars
<1> QED
  BY <1>5, <1>6, <1>7, <1>9, <1>10, <1>11, <1>12, <1>13, <1>14, <1>15, <1>16
  DEF Next, Handle, Abstract!Next

LEMMA RefinementInit == Init => Abstract!Init
<1> SUFFICES ASSUME Init PROVE Abstract!Init
  OBVIOUS
<1>1. {s \in Serials : certs[s] # NoRow} = {}
  BY DEF Init
<1>2. \A r \in Reqs : IntuneSees(r) = "nothing" /\ DeviceSees(r) = "absent"
  BY DEF Init, IntuneSees, DeviceSees, InFlight
<1> QED
  BY <1>1, <1>2 DEF Init, Abstract!Init

\* The enrolment path implements Issuance: whatever it does, crashes and
\* failing calls included, the device, Intune and the certificate table see a
\* behaviour that Issuance allows.
THEOREM Refinement == Spec => Abstract!Safety
<1>1. Init => Abstract!Init
  BY RefinementInit
<1>2. Spec => [](IInv /\ Silence)
  <2>1. Init => Silence
    BY SilenceInit
  <2>2. IInv /\ Silence /\ [Next]_vars => Silence'
    BY SilenceStep
  <2> QED
    BY <2>1, <2>2, InvariantHolds, PTL DEF Spec
<1>3. IInv /\ Silence /\ [Next]_vars => [Abstract!Next]_(Abstract!vars)
  BY AbstractStep
<1> QED
  BY <1>1, <1>2, <1>3, PTL DEF Spec, Abstract!Safety

\* What Issuance promises, said of the views; the argument needs nothing of
\* how they are computed, and is one about Issuance alone.
ViewsAgree ==
  /\ \A r \in Reqs :
       /\ DeviceSees(r) = "certificate" \/ IntuneSees(r) = "issued" => Issued(r)
       /\ DeviceSees(r) \in {"absent", "refusal"} \/ IntuneSees(r) = "failed" => ~ Issued(r)
  /\ SerialsDiffer
  /\ \A s \in Registered : \E r \in Reqs : serial[r] = s

LEMMA AgreementIsOfViews == Abstract!Agreement <=> ViewsAgree
BY NoSerialAssumption
DEF Abstract!Agreement, ViewsAgree, Registered, SerialsDiffer, Issued

LEMMA AgreementInit == Abstract!Init => ViewsAgree
<1> SUFFICES ASSUME Abstract!Init PROVE ViewsAgree
  OBVIOUS
<1>1. /\ \A r \in Reqs : ~ Issued(r) /\ DeviceSees(r) = "absent" /\ IntuneSees(r) = "nothing"
      /\ Registered = {}
  BY DEF Abstract!Init, Issued, Registered
<1> QED
  BY <1>1 DEF ViewsAgree, SerialsDiffer

LEMMA AgreementStep ==
  TypeOK /\ ViewsAgree /\ [Abstract!Next]_(Abstract!vars) => ViewsAgree'
<1> SUFFICES ASSUME TypeOK, ViewsAgree, [Abstract!Next]_(Abstract!vars) PROVE ViewsAgree'
  OBVIOUS
<1> DEFINE SameIntune == \A q \in Reqs : IntuneSees(q)' = IntuneSees(q)
           SameDevice(R) == \A q \in Reqs \ R : DeviceSees(q)' = DeviceSees(q)
           SameTable == Registered' = Registered
<1> USE DEF ViewsAgree, SerialsDiffer, Issued
<1>1. ASSUME NEW r \in Reqs, Abstract!Arrive(r) PROVE ViewsAgree'
  <2>1. /\ UNCHANGED serial /\ SameTable /\ SameIntune /\ SameDevice({r})
        /\ DeviceSees(r) = "absent" /\ DeviceSees(r)' \in {"waiting", "refusal", "nothing"}
    BY <1>1 DEF Abstract!Arrive, Registered
  <2> QED
    BY <2>1
<1>2. ASSUME NEW r \in Reqs, Abstract!Issue(r) PROVE ViewsAgree'
  <2>1. /\ SameTable /\ SameIntune /\ SameDevice({})
        /\ DeviceSees(r) = "waiting" /\ IntuneSees(r) = "nothing" /\ serial[r] = NoSerial
    BY <1>2 DEF Abstract!Issue, Registered
  <2>2. PICK s \in Serials : (\A q \in Reqs : serial[q] # s) /\ serial' = [serial EXCEPT ![r] = s]
    BY <1>2 DEF Abstract!Issue
  <2>3. /\ serial'[r] = s /\ s # NoSerial
        /\ \A q \in Reqs \ {r} : serial'[q] = serial[q]
    BY <2>2, NoSerialAssumption DEF TypeOK
  <2>4. \A q \in Reqs :
          /\ DeviceSees(q)' = "certificate" \/ IntuneSees(q)' = "issued" => Issued(q)'
          /\ DeviceSees(q)' \in {"absent", "refusal"} \/ IntuneSees(q)' = "failed" => ~ Issued(q)'
    BY <2>1, <2>3
  <2>5. SerialsDiffer'
    BY <2>2, <2>3
  <2>6. ASSUME NEW x \in Registered' PROVE \E q \in Reqs : serial'[q] = x
    <3>1. PICK q \in Reqs : serial[q] = x
      BY <2>1, <2>6
    <3>2. x # NoSerial
      BY <2>1, <2>6, NoSerialAssumption DEF Registered
    <3> QED
      BY <2>1, <2>3, <3>1, <3>2
  <2> QED
    BY <2>4, <2>5, <2>6
<1>3. ASSUME NEW r \in Reqs, Abstract!Register(r) PROVE ViewsAgree'
  <2>1. /\ UNCHANGED serial /\ SameIntune /\ SameDevice({})
        /\ Registered' = Registered \cup {serial[r]}
    BY <1>3 DEF Abstract!Register, Registered
  <2> QED
    BY <2>1
<1>4. ASSUME NEW r \in Reqs, Abstract!TellIntune(r) PROVE ViewsAgree'
  <2>1. /\ UNCHANGED serial /\ SameTable /\ SameDevice({})
        /\ IntuneSees(r)' = IF serial[r] = NoSerial THEN "failed" ELSE "issued"
        /\ \A q \in Reqs \ {r} : IntuneSees(q)' = IntuneSees(q)
    BY <1>4 DEF Abstract!TellIntune, Registered
  <2> QED
    BY <2>1
<1>5. ASSUME NEW r \in Reqs, Abstract!Answer(r) PROVE ViewsAgree'
  <2>1. /\ UNCHANGED serial /\ SameTable /\ SameIntune /\ SameDevice({r})
        /\ DeviceSees(r)' \in {IF serial[r] = NoSerial THEN "refusal" ELSE "certificate", "nothing"}
    BY <1>5 DEF Abstract!Answer, Registered
  <2> QED
    BY <2>1
<1>6. ASSUME NEW R \in SUBSET Reqs, Abstract!Abandon(R) PROVE ViewsAgree'
  <2>1. /\ UNCHANGED serial /\ SameTable /\ SameIntune /\ SameDevice(R)
        /\ \A q \in R : DeviceSees(q)' = "nothing"
    BY <1>6 DEF Abstract!Abandon, Registered
  <2> QED
    BY <2>1
<1>7. CASE UNCHANGED Abstract!vars
  <2>1. UNCHANGED serial /\ SameTable /\ SameIntune /\ SameDevice({})
    BY <1>7 DEF Abstract!vars, Registered
  <2> QED
    BY <2>1
<1> QED
  BY <1>1, <1>2, <1>3, <1>4, <1>5, <1>6, <1>7 DEF Abstract!Next

\* The device, Intune and the certificate table agree about every request:
\* none is refused to the device and issued to Intune, or the reverse.  It
\* holds of whatever implements Issuance, and so of the enrolment path.
THEOREM PartiesAgree == Spec => []Abstract!Agreement
<1>1. Abstract!Safety /\ []TypeOK => []ViewsAgree
  BY AgreementInit, AgreementStep, PTL DEF Abstract!Safety
<1> QED
  BY <1>1, AgreementIsOfViews, Refinement, TypesCorrect, PTL
=============================================================================
