-------------------------- MODULE ResponderProofs --------------------------
(***************************************************************************)
(* Proofs about Responder, for any number of requests, certificates and    *)
(* revoking calls, and for OCSP requests of any length.                    *)
(***************************************************************************)
EXTENDS Responder, RepoProofs

-----------------------------------------------------------------------------
(***************************************************************************)
(* The table and its history.                                              *)
(***************************************************************************)

IsRevoked(s) == certs[s] # NoRow /\ certs[s].status = "revoked"

\* A row is revoked exactly when a revocation was applied, in the past; a
\* call that was told so wrote the date the row has, and was the only one.
RevocationInv ==
  /\ \A s \in Serials : IsRevoked(s) <=> revokedWhen[s] # NoTime
  /\ \A s \in Serials : revokedWhen[s] # NoTime => revokedWhen[s] <= clock
  /\ \A v \in Revokers : outcome[v] = "true" =>
       target[v] \in Call /\ IsRevoked(target[v].serial)
  /\ OneRevokerWins

\* revoke keeps the table well-typed; it touches no other row, and only a
\* valid row of that CA.
LEMMA RevokeTable ==
  ASSUME NEW table \in CertTable, NEW c \in CAs, NEW s \in Serials,
         NEW at \in Stamp
  PROVE  /\ Revoke(table, c, s, at) \in CertTable
         /\ \A x \in Serials \ {s} : Revoke(table, c, s, at)[x] = table[x]
         /\ ~ Revocable(table, c, s) => Revoke(table, c, s, at) = table
         /\ Revocable(table, c, s) =>
              /\ table[s] # NoRow /\ table[s].status = "valid"
              /\ Revoke(table, c, s, at)[s] # NoRow
              /\ Revoke(table, c, s, at)[s].ca_id = table[s].ca_id
              /\ Revoke(table, c, s, at)[s].status = "revoked"
              /\ Revoke(table, c, s, at)[s].revoked_at = at
<1>1. CASE ~ Revocable(table, c, s)
  BY <1>1 DEF Revoke
<1>2. CASE Revocable(table, c, s)
  <2> DEFINE new == [ca_id |-> table[s].ca_id, transaction_id |-> table[s].transaction_id,
                     profile |-> table[s].profile, status |-> "revoked", revoked_at |-> at]
  <2>1. table[s] \in CertRow /\ table[s] # NoRow /\ table[s].status = "valid"
    BY <1>2 DEF Revocable, Selects, CertTable
  <2>2. new \in CertRow
    BY <2>1 DEF CertRow, CertStatus
  <2>3. Revoke(table, c, s, at) = [table EXCEPT ![s] = new]
    BY <1>2 DEF Revoke
  <2> QED
    BY <1>2, <2>1, <2>2, <2>3, NoRowAssumption DEF CertTable
<1> QED
  BY <1>1, <1>2

\* A call of revoke that changes a row.
Revoked(v, call) ==
  /\ ~ IsRevoked(call.serial) /\ certs[call.serial] # NoRow
  /\ certs' \in CertTable
  /\ \A x \in Serials \ {call.serial} : certs'[x] = certs[x]
  /\ certs'[call.serial] # NoRow
  /\ certs'[call.serial].ca_id = certs[call.serial].ca_id
  /\ certs'[call.serial].status = "revoked"
  /\ certs'[call.serial].revoked_at = call.at
  /\ revokedWhen' = [revokedWhen EXCEPT ![call.serial] = clock]
  /\ \/ /\ outcome' = [outcome EXCEPT ![v] = "true"]
        /\ target' = [target EXCEPT ![v] = call]
     \/ /\ outcome' = [outcome EXCEPT ![v] = "error"]
        /\ UNCHANGED target

\* What one call of revoke does to the rows.
LEMMA RevocationEffect ==
  ASSUME TypeOK, NEW v \in Revokers, Revocation(v)
  PROVE  /\ outcome[v] = "none" /\ UNCHANGED clock
         /\ \/ /\ UNCHANGED <<certs, revokedWhen, target>>
               /\ \E o \in {"false", "error"} : outcome' = [outcome EXCEPT ![v] = o]
            \/ \E call \in Call : Revoked(v, call)
<1>1. PICK call \in [ca : CAs, serial : Serials, at : Stamps] :
        \/ /\ Update(call)
           /\ Revocable(certs, call.ca, call.serial)
           /\ outcome' = [outcome EXCEPT ![v] = "true"]
           /\ target' = [target EXCEPT ![v] = call]
        \/ /\ Update(call)
           /\ ~ Revocable(certs, call.ca, call.serial)
           /\ outcome' = [outcome EXCEPT ![v] = "false"]
           /\ UNCHANGED target
        \/ /\ Update(call) \/ UNCHANGED <<certs, revokedWhen>>
           /\ outcome' = [outcome EXCEPT ![v] = "error"]
           /\ UNCHANGED target
  BY DEF Revocation
<1>2. call \in Call /\ call.ca \in CAs /\ call.serial \in Serials /\ call.at \in Stamp
  BY StampsAssumption DEF Call
<1>3. outcome[v] = "none" /\ UNCHANGED clock
  BY DEF Revocation
<1>4. CASE ~ Revocable(certs, call.ca, call.serial)
  <2>1. Update(call) => UNCHANGED <<certs, revokedWhen>>
    BY <1>4 DEF Update, Revoke
  <2> QED
    BY <1>1, <1>3, <1>4, <2>1
<1>5. CASE Revocable(certs, call.ca, call.serial)
  <2>1. CASE UNCHANGED <<certs, revokedWhen, target>> /\ outcome' = [outcome EXCEPT ![v] = "error"]
    BY <1>3, <2>1
  <2>2. CASE /\ Update(call)
             /\ \/ /\ outcome' = [outcome EXCEPT ![v] = "true"]
                   /\ target' = [target EXCEPT ![v] = call]
                \/ outcome' = [outcome EXCEPT ![v] = "error"] /\ UNCHANGED target
    <3> DEFINE s == call.serial
    <3>1. /\ certs' = Revoke(certs, call.ca, call.serial, call.at)
          /\ revokedWhen' = [revokedWhen EXCEPT ![s] = clock]
          /\ certs \in CertTable
      BY <1>5, <2>2 DEF TypeOK, Update
    <3>2. /\ certs' \in CertTable
          /\ \A x \in Serials \ {s} : certs'[x] = certs[x]
          /\ certs[s] # NoRow /\ certs[s].status = "valid"
          /\ certs'[s] # NoRow /\ certs'[s].ca_id = certs[s].ca_id
          /\ certs'[s].status = "revoked" /\ certs'[s].revoked_at = call.at
      BY <1>2, <1>5, <3>1, RevokeTable
    <3>3. ~ IsRevoked(s)
      BY <3>2 DEF IsRevoked
    <3> QED
      BY <1>2, <1>3, <2>2, <3>1, <3>2, <3>3 DEF Revoked
  <2> QED
    BY <1>1, <1>5, <2>1, <2>2
<1> QED
  BY <1>4, <1>5

-----------------------------------------------------------------------------
(***************************************************************************)
(* Types and the history of revocations.                                   *)
(***************************************************************************)

\* A handler that is past the checks works for a configured CA.
Base ==
  TypeOK /\ \A q \in Queries : phase[q] \in InFlight \cup {"answered"} => ca[q] \in CAs

LEMMA BaseInit == Init => Base
BY DEF Init, Base, TypeOK, InFlight, CertTable, Time, Phases

LEMMA BaseStep == Base /\ [Next]_vars => Base'
<1> SUFFICES ASSUME Base, [Next]_vars PROVE Base'
  OBVIOUS
<1>0. TypeOK
  BY DEF Base
<1>1. CASE Tick
  BY <1>0, <1>1, MaxTimeAssumption DEF Tick, Base, TypeOK, TableVars, RequestVars, Time
<1>2. ASSUME NEW s \in Serials, Enrol(s) PROVE Base'
  <2>1. certs' \in CertTable
    <3>1. PICK row \in CertRow : certs' = InsertIssued(certs, s, row)
      <4>1. PICK c \in CAs, t \in Txns, p \in Profiles :
              certs' = InsertIssued(certs, s, [ca_id |-> c, transaction_id |-> t, profile |-> p,
                                               status |-> "valid", revoked_at |-> NoTime])
        BY <1>2 DEF Enrol
      <4> QED
        BY <4>1 DEF CertRow, CertStatus, Stamp
    <3> QED
      BY <1>0, <3>1, InsertIssuedTable DEF TypeOK
  <2> QED
    BY <1>0, <1>2, <2>1 DEF Enrol, Base, TypeOK, RequestVars
<1>3. ASSUME NEW v \in Revokers, Revocation(v) PROVE Base'
  <2>1. UNCHANGED <<clock, RequestVars>>
    BY <1>3 DEF Revocation
  <2>2. CASE /\ UNCHANGED <<certs, revokedWhen, target>>
             /\ \E o \in {"false", "error"} : outcome' = [outcome EXCEPT ![v] = o]
    BY <1>0, <2>1, <2>2 DEF Base, TypeOK, RequestVars
  <2>3. ASSUME NEW call \in Call, Revoked(v, call) PROVE Base'
    <3>1. call.serial \in Serials
      BY DEF Call
    <3> QED
      BY <1>0, <2>1, <2>3, <3>1 DEF Revoked, Base, TypeOK, RequestVars
  <2> QED
    BY <1>0, <1>3, <2>2, <2>3, RevocationEffect
<1>4. ASSUME NEW q \in OcspReqs, OcspArrives(q) PROVE Base'
  BY <1>0, <1>4, QuestionsAssumption
  DEF OcspArrives, Base, TypeOK, TableVars, InFlight, Phases, Queries
<1>5. ASSUME NEW q \in OcspReqs, Lookup(q) PROVE Base'
  <2>1. NextId(q) \in CertId
    BY <1>0, <1>5 DEF Lookup, NextId, TypeOK
  <2>2. [id |-> NextId(q), status |-> StatusBySerial(certs, ca[q], NextId(q).serial)] \in Single
    BY <2>1 DEF Single, StatusBySerial
  <2>3. singles' \in [OcspReqs -> Seq(Single)]
    BY <1>0, <1>5, <2>2 DEF Lookup, TypeOK
  <2> QED
    BY <1>0, <1>5, <2>3 DEF Lookup, Base, TypeOK, TableVars
<1>6. ASSUME NEW q \in OcspReqs, Sign(q) PROVE Base'
  <2>1. OcspValidity(q) \in Validity
    BY <1>0 DEF OcspValidity, OcspThisUpdate, OcspLifetime, Validity, TypeOK, Time, Queries
  <2> QED
    BY <1>0, <1>6, <2>1 DEF Sign, Base, TypeOK, TableVars, InFlight, Phases
<1>7. ASSUME NEW q \in CrlReqs, CrlArrives(q) PROVE Base'
  BY <1>0, <1>7 DEF CrlArrives, Base, TypeOK, TableVars, InFlight, Phases, Queries
<1>8. ASSUME NEW q \in CrlReqs, List(q) PROVE Base'
  <2>1. ListRevoked(certs, ca[q]) \subseteq RevokedRow
    BY <1>0 DEF ListRevoked, RevokedRow, Selects, CertTable, CertRow, TypeOK
  <2> QED
    BY <1>0, <1>8, <2>1 DEF List, Base, TypeOK, TableVars, InFlight, Phases
<1>9. ASSUME NEW q \in CrlReqs, Date(q) PROVE Base'
  <2>1. [this_update |-> clock, next_update |-> clock + CrlLifetime] \in Validity
    BY <1>0 DEF CrlLifetime, Validity, TypeOK, Time
  <2> QED
    BY <1>0, <1>9, <2>1 DEF Date, Base, TypeOK, TableVars, InFlight, Phases
<1>10. ASSUME NEW q \in Queries, QueryFails(q) \/ AnswerFails(q) PROVE Base'
  BY <1>0, <1>10 DEF QueryFails, AnswerFails, Base, TypeOK, TableVars, InFlight, Phases
<1>11. ASSUME NEW q \in Queries, HangUp(q) PROVE Base'
  BY <1>0, <1>11 DEF HangUp, Base, TypeOK, TableVars, InFlight, Phases
<1>12. CASE Restart
  BY <1>0, <1>12 DEF Restart, Base, TypeOK, TableVars, InFlight, Phases
<1>13. CASE UNCHANGED vars
  BY <1>0, <1>13 DEF vars, Base, TypeOK
<1> QED
  BY <1>1, <1>2, <1>3, <1>4, <1>5, <1>6, <1>7, <1>8, <1>9, <1>10, <1>11, <1>12, <1>13
  DEF Next, HandleOcsp, HandleCrl, Queries

\* What a step may do to the rows: nothing, add a valid one, or revoke one.
LEMMA RowSteps ==
  ASSUME Base, [Next]_vars
  PROVE  /\ clock' >= clock
         /\ \/ UNCHANGED <<certs, revokedWhen, outcome, target>>
            \/ \E s \in Serials :
                 /\ certs[s] = NoRow /\ certs'[s] # NoRow /\ certs'[s].status = "valid"
                 /\ \A x \in Serials \ {s} : certs'[x] = certs[x]
                 /\ UNCHANGED <<revokedWhen, outcome, target>>
            \/ \E v \in Revokers : Revocation(v)
<1>0. TypeOK
  BY DEF Base
<1>1. ASSUME NEW s \in Serials, Enrol(s)
      PROVE  /\ certs[s] = NoRow /\ certs'[s] # NoRow /\ certs'[s].status = "valid"
             /\ \A x \in Serials \ {s} : certs'[x] = certs[x]
             /\ UNCHANGED <<clock, revokedWhen, outcome, target>>
  <2>1. PICK row \in CertRow : certs' = InsertIssued(certs, s, row) /\ row.status = "valid"
    <3>1. PICK c \in CAs, t \in Txns, p \in Profiles :
            certs' = InsertIssued(certs, s, [ca_id |-> c, transaction_id |-> t, profile |-> p,
                                             status |-> "valid", revoked_at |-> NoTime])
      BY <1>1 DEF Enrol
    <3> QED
      BY <3>1 DEF CertRow, CertStatus, Stamp
  <2>2. certs'[s] = row /\ \A x \in Serials \ {s} : certs'[x] = certs[x]
    BY <1>0, <2>1, InsertIssuedTable DEF TypeOK
  <2>3. row # NoRow
    BY NoRowAssumption
  <2> QED
    BY <1>1, <2>1, <2>2, <2>3 DEF Enrol, RequestVars
<1>2. clock' >= clock
  <2>1. clock' = clock \/ clock' = clock + 1
    BY DEF Next, HandleOcsp, HandleCrl, Tick, Enrol, Revocation, OcspArrives, Lookup, Sign,
       CrlArrives, List, Date, QueryFails, AnswerFails, HangUp, Restart, vars
  <2> QED
    BY <1>0, <2>1 DEF TypeOK, Time
<1>3. \/ UNCHANGED TableVars
      \/ \E s \in Serials : Enrol(s)
      \/ \E v \in Revokers : Revocation(v)
  BY DEF Next, HandleOcsp, HandleCrl, Tick, OcspArrives, Lookup, Sign, CrlArrives, List, Date,
     QueryFails, AnswerFails, HangUp, Restart, vars, TableVars
<1> QED
  BY <1>1, <1>2, <1>3 DEF TableVars

LEMMA RevocationInit == Init => RevocationInv
BY DEF Init, RevocationInv, IsRevoked, OneRevokerWins

LEMMA RevocationStep == Base /\ RevocationInv /\ [Next]_vars => RevocationInv'
<1> SUFFICES ASSUME Base, RevocationInv, [Next]_vars PROVE RevocationInv'
  OBVIOUS
<1>0. TypeOK /\ clock' >= clock /\ clock' \in Nat /\ clock \in Nat
  BY RowSteps, BaseStep DEF Base, TypeOK, Time
<1>1. CASE UNCHANGED <<certs, revokedWhen, outcome, target>>
  BY <1>0, <1>1 DEF RevocationInv, IsRevoked, OneRevokerWins, TypeOK, Time
<1>2. ASSUME NEW s \in Serials,
             certs[s] = NoRow, certs'[s] # NoRow, certs'[s].status = "valid",
             \A x \in Serials \ {s} : certs'[x] = certs[x],
             UNCHANGED <<revokedWhen, outcome, target>>
      PROVE  RevocationInv'
  <2>1. \A x \in Serials : IsRevoked(x)' <=> IsRevoked(x)
    BY <1>2 DEF IsRevoked
  <2>2. \A v \in Revokers : outcome[v] = "true" => target[v].serial \in Serials \ {s}
    BY <1>2 DEF RevocationInv, IsRevoked, Call
  <2>3. OneRevokerWins'
    BY <1>2, <2>2 DEF RevocationInv, OneRevokerWins
  <2> QED
    BY <1>0, <1>2, <2>1, <2>3 DEF RevocationInv, Call, TypeOK, Time
<1>3. ASSUME NEW v \in Revokers, outcome[v] = "none",
             UNCHANGED <<certs, revokedWhen, target>>,
             \E o \in {"false", "error"} : outcome' = [outcome EXCEPT ![v] = o]
      PROVE  RevocationInv'
  <2>1. \A w \in Revokers : outcome'[w] = "true" =>
          w # v /\ outcome[w] = "true" /\ target'[w] = target[w]
    BY <1>0, <1>3 DEF TypeOK
  <2>2. OneRevokerWins'
    BY <1>3, <2>1 DEF RevocationInv, OneRevokerWins
  <2> QED
    BY <1>0, <1>3, <2>1, <2>2 DEF RevocationInv, IsRevoked, TypeOK, Time
<1>4. ASSUME NEW v \in Revokers, NEW call \in Call, outcome[v] = "none",
             UNCHANGED clock, Revoked(v, call)
      PROVE  RevocationInv'
  <2> USE DEF Revoked
  <2>1. call.serial \in Serials
    BY DEF Call
  <2>2. \A w \in Revokers : outcome'[w] = "true" /\ w # v =>
          outcome[w] = "true" /\ target'[w] = target[w]
    BY <1>0, <1>4 DEF TypeOK
  <2>3. \A w \in Revokers : outcome[w] = "true" =>
          /\ target[w].serial \in Serials \ {call.serial}
          /\ certs'[target[w].serial] = certs[target[w].serial]
    BY <1>4 DEF RevocationInv, Call
  <2>4. outcome'[v] = "true" => target'[v] = call
    BY <1>0, <1>4 DEF TypeOK
  <2>5. OneRevokerWins'
    <3> SUFFICES ASSUME NEW w \in Revokers, outcome'[w] = "true"
                 PROVE  /\ certs'[target'[w].serial].status = "revoked"
                        /\ certs'[target'[w].serial].revoked_at = target'[w].at
                        /\ \A z \in Revokers \ {w} :
                             outcome'[z] = "true" => target'[z].serial # target'[w].serial
      BY DEF OneRevokerWins
    <3>1. CASE w = v
      BY <1>4, <2>2, <2>3, <2>4, <3>1
    <3>2. CASE w # v
      BY <1>4, <2>2, <2>3, <2>4, <3>2 DEF RevocationInv, OneRevokerWins
    <3> QED
      BY <3>1, <3>2
  <2>6. \A s \in Serials : IsRevoked(s)' <=> revokedWhen'[s] # NoTime
    <3> SUFFICES ASSUME NEW s \in Serials PROVE IsRevoked(s)' <=> revokedWhen'[s] # NoTime
      OBVIOUS
    <3>1. CASE s = call.serial
      <4>1. revokedWhen'[s] = clock /\ clock # NoTime
        BY <1>0, <1>4, <2>1, <3>1, NoTimeAssumption DEF TypeOK, Time
      <4> QED
        BY <1>4, <3>1, <4>1 DEF IsRevoked
    <3>2. CASE s # call.serial
      <4>1. revokedWhen'[s] = revokedWhen[s] /\ certs'[s] = certs[s]
        BY <1>0, <1>4, <2>1, <3>2 DEF TypeOK
      <4> QED
        BY <4>1 DEF RevocationInv, IsRevoked
    <3> QED
      BY <3>1, <3>2
  <2>7. \A s \in Serials : revokedWhen'[s] # NoTime => revokedWhen'[s] <= clock'
    BY <1>0, <1>4, <2>1 DEF RevocationInv, TypeOK, Time
  <2>8. \A w \in Revokers : outcome'[w] = "true" =>
          target'[w] \in Call /\ IsRevoked(target[w].serial)'
    BY <1>4, <2>2, <2>3, <2>4 DEF RevocationInv, IsRevoked
  <2> QED
    BY <2>5, <2>6, <2>7, <2>8 DEF RevocationInv
<1>5. ASSUME NEW v \in Revokers, Revocation(v) PROVE RevocationInv'
  BY <1>0, <1>3, <1>4, <1>5, RevocationEffect
<1> QED
  BY <1>1, <1>2, <1>5, RowSteps

-----------------------------------------------------------------------------
(***************************************************************************)
(* What the answers say, as of their dates.                                *)
(***************************************************************************)

\* s was revoked under the CA c before the time d.
RevokedBefore(c, s, d) ==
  /\ certs[s] # NoRow /\ certs[s].ca_id = c
  /\ revokedWhen[s] # NoTime /\ revokedWhen[s] < d

\* An entry other than "revoked" was right when it was read, which was not
\* before the request came in; and a later revocation is not before that.
EntryInv(q, i) ==
  LET e == singles[q][i]
  IN  /\ e.status # "revoked" => ~ RevokedBefore(ca[q], e.id.serial, started[q])
      /\ e.status = "good" => Selects(certs, ca[q], e.id.serial)

OcspInv ==
  \A q \in OcspReqs :
    /\ phase[q] = "idle" => singles[q] = <<>>
    /\ phase[q] \in {"looking", "answered"} => started[q] <= clock
    /\ phase[q] \in {"looking", "answered"} => \A i \in 1..Len(singles[q]) : EntryInv(q, i)
    /\ phase[q] = "answered" => response[q].this_update = started[q]

\* An entry of a CRL is a row of its CA that is revoked, since no later than
\* the read, with the date it still has.
CrlEntry(q, row) ==
  /\ certs[row.serial] # NoRow /\ certs[row.serial].ca_id = ca[q]
  /\ certs[row.serial].revoked_at = row.revoked_at
  /\ revokedWhen[row.serial] # NoTime /\ revokedWhen[row.serial] <= started[q]

\* A list read from the table has what was revoked before the read, and only
\* what was revoked by then; one that is signed has dates for all of it.
CrlOk(q) ==
  /\ phase[q] \in {"dating", "answered"} =>
       /\ started[q] <= clock
       /\ \A s \in Serials : RevokedBefore(ca[q], s, started[q]) =>
            \E row \in listed[q] : row.serial = s
       /\ \A row \in listed[q] : CrlEntry(q, row)
  /\ phase[q] = "answered" =>
       /\ response[q].this_update \in Nat /\ started[q] <= response[q].this_update
       /\ \A row \in listed[q] : row.revoked_at # Unwritable

CrlInv == \A q \in CrlReqs : CrlOk(q)

IInv == Base /\ RevocationInv /\ OcspInv /\ CrlInv

LEMMA AnswersInit == Init => OcspInv /\ CrlInv
BY DEF Init, OcspInv, CrlInv, CrlOk, Queries

\* Rows stay with their CA, a revocation keeps its time, and a new one is of
\* the present.
LEMMA HistoryStays ==
  ASSUME Base, RevocationInv, [Next]_vars, NEW s \in Serials
  PROVE  /\ certs[s] # NoRow => certs'[s] # NoRow /\ certs'[s].ca_id = certs[s].ca_id
         /\ revokedWhen[s] # NoTime =>
              revokedWhen'[s] = revokedWhen[s] /\ certs'[s] = certs[s]
         /\ revokedWhen[s] = NoTime =>
              revokedWhen'[s] = NoTime \/ (revokedWhen'[s] = clock /\ certs[s] # NoRow)
<1>0. TypeOK
  BY DEF Base
<1>1. ASSUME NEW x \in Serials, certs[x] = NoRow, UNCHANGED revokedWhen,
             \A y \in Serials \ {x} : certs'[y] = certs[y]
      PROVE  /\ certs[s] # NoRow => certs'[s] # NoRow /\ certs'[s].ca_id = certs[s].ca_id
             /\ revokedWhen'[s] = revokedWhen[s]
             /\ revokedWhen[s] # NoTime => certs'[s] = certs[s]
  BY <1>1 DEF RevocationInv, IsRevoked
<1>2. ASSUME NEW v \in Revokers, NEW call \in Call, Revoked(v, call)
      PROVE  /\ certs[s] # NoRow => certs'[s] # NoRow /\ certs'[s].ca_id = certs[s].ca_id
             /\ revokedWhen[s] # NoTime =>
                  revokedWhen'[s] = revokedWhen[s] /\ certs'[s] = certs[s]
             /\ revokedWhen[s] = NoTime =>
                  revokedWhen'[s] = NoTime \/ (revokedWhen'[s] = clock /\ certs[s] # NoRow)
  <2> USE DEF Revoked
  <2>1. call.serial \in Serials /\ revokedWhen[call.serial] = NoTime
    BY <1>2 DEF Call, RevocationInv
  <2>2. CASE s = call.serial
    BY <1>0, <1>2, <2>1, <2>2 DEF TypeOK
  <2>3. CASE s # call.serial
    BY <1>0, <1>2, <2>1, <2>3 DEF TypeOK
  <2> QED
    BY <2>2, <2>3
<1>3. ASSUME NEW v \in Revokers, Revocation(v)
      PROVE  /\ certs[s] # NoRow => certs'[s] # NoRow /\ certs'[s].ca_id = certs[s].ca_id
             /\ revokedWhen[s] # NoTime =>
                  revokedWhen'[s] = revokedWhen[s] /\ certs'[s] = certs[s]
             /\ revokedWhen[s] = NoTime =>
                  revokedWhen'[s] = NoTime \/ (revokedWhen'[s] = clock /\ certs[s] # NoRow)
  BY <1>0, <1>2, <1>3, RevocationEffect
<1> QED
  BY <1>1, <1>3, RowSteps

\* So what was revoked before a past time stays as it was.
LEMMA RevokedBeforeStays ==
  ASSUME Base, RevocationInv, [Next]_vars, NEW s \in Serials, NEW c \in CAs,
         NEW d \in Nat, d <= clock
  PROVE  /\ RevokedBefore(c, s, d) => RevokedBefore(c, s, d)'
         /\ RevokedBefore(c, s, d)' => RevokedBefore(c, s, d)
<1>0. clock \in Nat /\ revokedWhen[s] \in Nat \cup {NoTime} /\ NoTime \notin Nat
  BY NoTimeAssumption DEF Base, TypeOK, Time
<1>1. RevokedBefore(c, s, d) => RevokedBefore(c, s, d)'
  BY <1>0, HistoryStays DEF RevokedBefore
<1>2. ASSUME RevokedBefore(c, s, d)' PROVE RevokedBefore(c, s, d)
  <2>1. revokedWhen[s] # NoTime
    BY <1>0, <1>2, HistoryStays DEF RevokedBefore
  <2>2. certs[s] # NoRow
    BY <2>1 DEF RevocationInv, IsRevoked
  <2> QED
    BY <1>2, <2>1, <2>2, HistoryStays DEF RevokedBefore
<1> QED
  BY <1>1, <1>2

OcspOk(q) ==
  /\ phase[q] = "idle" => singles[q] = <<>>
  /\ phase[q] \in {"looking", "answered"} => started[q] <= clock
  /\ phase[q] \in {"looking", "answered"} => \A i \in 1..Len(singles[q]) : EntryInv(q, i)
  /\ phase[q] = "answered" => response[q].this_update = started[q]

\* The entries of a request that a step does not touch stay right.
LEMMA EntriesStay ==
  ASSUME Base, RevocationInv, OcspInv, [Next]_vars, NEW q \in OcspReqs,
         phase[q] \in {"looking", "answered"}, ca'[q] = ca[q], started'[q] = started[q],
         NEW i \in 1..Len(singles[q]), singles'[q][i] = singles[q][i]
  PROVE  EntryInv(q, i)'
<1>0. TypeOK /\ q \in Queries
  BY DEF Base, Queries
<1>1. PICK c \in CAs, d \in Nat : c = ca[q] /\ d = started[q] /\ d <= clock
  BY <1>0 DEF Base, TypeOK, Time, OcspInv, InFlight
<1>2. singles[q][i] \in Single
  BY <1>0 DEF TypeOK
<1>3. PICK e \in Single : e = singles[q][i] /\ e = singles'[q][i]
  BY <1>2
<1>4. e.id.serial \in Serials
  BY DEF Single, CertId
<1>5. EntryInv(q, i)
  BY DEF OcspInv
<1>6. /\ e.status # "revoked" => ~ RevokedBefore(c, e.id.serial, d)
      /\ e.status = "good" => Selects(certs, c, e.id.serial)
  BY <1>1, <1>3, <1>5 DEF EntryInv
<1>7. e.status # "revoked" => ~ RevokedBefore(c, e.id.serial, d)'
  BY <1>1, <1>4, <1>6, RevokedBeforeStays
<1>8. e.status = "good" => Selects(certs', c, e.id.serial)
  BY <1>4, <1>6, HistoryStays DEF Selects
<1> QED
  BY <1>1, <1>3, <1>7, <1>8 DEF EntryInv, RevokedBefore

LEMMA OcspFrame ==
  ASSUME Base, RevocationInv, OcspInv, [Next]_vars, NEW q \in OcspReqs,
         \/ phase'[q] = phase[q]
         \/ phase'[q] \notin {"idle", "looking", "answered"},
         ca'[q] = ca[q], started'[q] = started[q], singles'[q] = singles[q],
         response'[q] = response[q]
  PROVE  OcspOk(q)'
<1>1. started[q] \in Nat /\ clock \in Nat /\ clock' \in Nat /\ clock' >= clock
  BY RowSteps, BaseStep DEF Base, TypeOK, Time, Queries
<1>2. phase'[q] \in {"looking", "answered"} => \A i \in 1..Len(singles'[q]) : EntryInv(q, i)'
  BY EntriesStay
<1> QED
  BY <1>1, <1>2 DEF OcspInv, OcspOk

\* The entry that Append adds is the last.
LEMMA AppendLast ==
  ASSUME NEW S, NEW list \in Seq(S), NEW x \in S
  PROVE  Len(list) \in Nat /\ Len(Append(list, x)) = Len(list) + 1
         /\ Append(list, x)[Len(list) + 1] = x
OBVIOUS

LEMMA OcspStep == Base /\ RevocationInv /\ OcspInv /\ [Next]_vars => OcspInv'
<1> SUFFICES ASSUME Base, RevocationInv, OcspInv, [Next]_vars, NEW q \in OcspReqs
             PROVE  OcspOk(q)'
  BY DEF OcspInv, OcspOk
<1>0. /\ TypeOK /\ q \in Queries /\ q \notin CrlReqs
      /\ started[q] \in Nat /\ clock \in Nat /\ clock' \in Nat /\ clock' >= clock
  BY RowSteps, BaseStep, QueriesAssumption DEF Base, TypeOK, Time, Queries
<1>1. CASE OcspArrives(q)
  BY <1>0, <1>1 DEF OcspArrives, OcspInv, OcspOk, TypeOK, TableVars
<1>2. CASE Lookup(q)
  <2>1. /\ phase'[q] = "looking" /\ phase[q] = "looking" /\ ca'[q] = ca[q]
        /\ started'[q] = started[q] /\ started[q] <= clock /\ UNCHANGED <<certs, revokedWhen, clock>>
    BY <1>2 DEF Lookup, TableVars, OcspInv
  <2> DEFINE e == [id |-> NextId(q), status |-> StatusBySerial(certs, ca[q], NextId(q).serial)]
  <2>2. singles'[q] = Append(singles[q], e) /\ singles[q] \in Seq(Single)
    BY <1>0, <1>2 DEF Lookup, TypeOK
  <2>3. NextId(q) \in CertId
    BY <1>0, <1>2 DEF Lookup, NextId, TypeOK
  <2>4. e.id.serial \in Serials
    BY <2>3 DEF CertId
  <2>5. /\ e.status # "revoked" => ~ RevokedBefore(ca[q], e.id.serial, started[q])
        /\ e.status = "good" => Selects(certs, ca[q], e.id.serial)
    BY <2>4 DEF StatusBySerial, Selects, RevokedBefore, RevocationInv, IsRevoked
  <2>6. ASSUME NEW i \in 1..Len(singles[q]) PROVE EntryInv(q, i)'
    <3>1. singles'[q][i] = singles[q][i]
      BY <2>2
    <3> QED
      BY <2>1, <3>1, EntriesStay
  <2>6a. e \in Single
    BY <2>3 DEF StatusBySerial, Single
  <2>7. PICK n \in Nat : n = Len(singles[q]) /\ Len(singles'[q]) = n + 1 /\ singles'[q][n + 1] = e
    <3> HIDE DEF e
    <3> QED
      BY <2>2, <2>6a, AppendLast
  <2>8. EntryInv(q, n + 1)'
    BY <2>1, <2>5, <2>7 DEF EntryInv, RevokedBefore
  <2>9. \A i \in 1..(n + 1) : i \in 1..n \/ i = n + 1
    OBVIOUS
  <2>10. \A i \in 1..Len(singles'[q]) : EntryInv(q, i)'
    BY <2>6, <2>7, <2>8, <2>9
  <2> QED
    BY <2>1, <2>10 DEF OcspOk
<1>3. CASE Sign(q)
  <2>1. /\ phase'[q] = "answered" /\ phase[q] = "looking" /\ ca'[q] = ca[q]
        /\ started'[q] = started[q] /\ singles'[q] = singles[q] /\ UNCHANGED clock
        /\ response'[q].this_update = started[q]
    BY <1>0, <1>3 DEF Sign, OcspValidity, OcspThisUpdate, TypeOK, Queries
  <2>2. \A i \in 1..Len(singles'[q]) : EntryInv(q, i)'
    BY <2>1, EntriesStay
  <2> QED
    BY <2>1, <2>2 DEF OcspInv, OcspOk
<1>4. CASE QueryFails(q) \/ AnswerFails(q) \/ HangUp(q) \/ Restart
  BY <1>0, <1>4, OcspFrame DEF QueryFails, AnswerFails, HangUp, Restart, TypeOK
<1>5. CASE /\ phase'[q] = phase[q] /\ ca'[q] = ca[q] /\ started'[q] = started[q]
           /\ singles'[q] = singles[q] /\ response'[q] = response[q]
  BY <1>5, OcspFrame
<1>6. ASSUME NEW p \in Queries, p # q,
             \/ p \in OcspReqs /\ (OcspArrives(p) \/ Lookup(p) \/ Sign(p))
             \/ p \in CrlReqs /\ (CrlArrives(p) \/ List(p) \/ Date(p))
             \/ QueryFails(p) \/ AnswerFails(p) \/ HangUp(p)
      PROVE  /\ phase'[q] = phase[q] /\ ca'[q] = ca[q] /\ started'[q] = started[q]
             /\ singles'[q] = singles[q] /\ response'[q] = response[q]
  BY <1>0, <1>6 DEF OcspArrives, Lookup, Sign, CrlArrives, List, Date, QueryFails,
     AnswerFails, HangUp, TypeOK
<1>7. CASE UNCHANGED vars \/ Tick \/ (\E s \in Serials : Enrol(s)) \/ (\E v \in Revokers : Revocation(v))
  BY <1>5, <1>7 DEF vars, Tick, Enrol, Revocation, RequestVars
<1> QED
  BY <1>0, <1>1, <1>2, <1>3, <1>4, <1>5, <1>6, <1>7 DEF Next, HandleOcsp, HandleCrl, Queries

\* A list that a step does not touch stays complete and right.
LEMMA ListStays ==
  ASSUME Base, RevocationInv, CrlInv, [Next]_vars, NEW q \in CrlReqs,
         phase[q] \in {"dating", "answered"}, ca'[q] = ca[q], started'[q] = started[q],
         listed'[q] = listed[q]
  PROVE  /\ started'[q] <= clock'
         /\ \A s \in Serials : RevokedBefore(ca[q], s, started[q])' =>
              \E row \in listed'[q] : row.serial = s
         /\ \A row \in listed'[q] : CrlEntry(q, row)'
<1>0. TypeOK /\ q \in Queries /\ CrlOk(q)
  BY DEF Base, Queries, CrlInv
<1>1. PICK c \in CAs, d \in Nat : c = ca[q] /\ d = started[q] /\ d <= clock
  BY <1>0 DEF Base, TypeOK, Time, CrlOk, InFlight
<1>2. \A row \in listed[q] : row.serial \in Serials
  BY <1>0 DEF TypeOK, RevokedRow
<1>3. \A s \in Serials : RevokedBefore(c, s, d)' => RevokedBefore(c, s, d)
  BY <1>1, RevokedBeforeStays
<1>4. \A s \in Serials : RevokedBefore(c, s, d) => \E row \in listed[q] : row.serial = s
  BY <1>0, <1>1 DEF CrlOk
<1>5. \A s \in Serials : RevokedBefore(ca[q], s, started[q])' =>
        \E row \in listed'[q] : row.serial = s
  BY <1>1, <1>3, <1>4 DEF RevokedBefore
<1>6. ASSUME NEW row \in listed'[q] PROVE CrlEntry(q, row)'
  <2>1. CrlEntry(q, row) /\ row.serial \in Serials
    BY <1>0, <1>2 DEF CrlOk
  <2>2. certs'[row.serial] = certs[row.serial] /\ revokedWhen'[row.serial] = revokedWhen[row.serial]
    BY <2>1, HistoryStays DEF CrlEntry
  <2> QED
    BY <2>1, <2>2 DEF CrlEntry
<1>7. d <= clock'
  <2>1. clock' >= clock /\ clock \in Nat /\ clock' \in Nat
    BY RowSteps, BaseStep DEF Base, TypeOK, Time
  <2> QED
    BY <1>1, <2>1
<1> QED
  BY <1>1, <1>5, <1>6, <1>7

LEMMA CrlFrame ==
  ASSUME Base, RevocationInv, CrlInv, [Next]_vars, NEW q \in CrlReqs,
         \/ phase'[q] = phase[q]
         \/ phase'[q] \notin {"dating", "answered"},
         ca'[q] = ca[q], started'[q] = started[q], listed'[q] = listed[q],
         response'[q] = response[q]
  PROVE  CrlOk(q)'
<1>1. CrlOk(q)
  BY DEF CrlInv
<1>2. CASE phase[q] \in {"dating", "answered"}
  BY <1>1, <1>2, ListStays DEF CrlOk
<1>3. CASE phase[q] \notin {"dating", "answered"}
  BY <1>1, <1>3 DEF CrlOk
<1> QED
  BY <1>2, <1>3

\* What list_revoked returns.
LEMMA ListRevokedRows ==
  ASSUME NEW c
  PROVE  /\ \A row \in ListRevoked(certs, c) :
              /\ row.serial \in Serials /\ Selects(certs, c, row.serial)
              /\ certs[row.serial].status = "revoked"
              /\ certs[row.serial].revoked_at = row.revoked_at
         /\ \A s \in Serials : (Selects(certs, c, s) /\ certs[s].status = "revoked") =>
              \E row \in ListRevoked(certs, c) : row.serial = s
<1> DEFINE On == {x \in Serials : Selects(certs, c, x) /\ certs[x].status = "revoked"}
           Row(s) == [serial |-> s, revoked_at |-> certs[s].revoked_at]
<1>1. ListRevoked(certs, c) = {Row(s) : s \in On}
  BY DEF ListRevoked
<1>2. \A s : Row(s).serial = s /\ Row(s).revoked_at = certs[s].revoked_at
  OBVIOUS
<1>3. \A s \in On : s \in Serials /\ Selects(certs, c, s) /\ certs[s].status = "revoked"
  BY Zenon
<1>4. \A s \in Serials : Selects(certs, c, s) /\ certs[s].status = "revoked" => s \in On
  BY Zenon
<1> HIDE DEF On, Row
<1> QED
  BY <1>1, <1>2, <1>3, <1>4

LEMMA CrlStep == Base /\ RevocationInv /\ CrlInv /\ [Next]_vars => CrlInv'
<1> SUFFICES ASSUME Base, RevocationInv, CrlInv, [Next]_vars, NEW q \in CrlReqs
             PROVE  CrlOk(q)'
  BY DEF CrlInv
<1>0. /\ TypeOK /\ q \in Queries /\ q \notin OcspReqs /\ CrlOk(q)
      /\ started[q] \in Nat /\ clock \in Nat /\ clock' \in Nat /\ clock' >= clock
  BY RowSteps, BaseStep, QueriesAssumption DEF Base, TypeOK, Time, Queries, CrlInv
<1>1. CASE CrlArrives(q)
  BY <1>0, <1>1 DEF CrlArrives, CrlOk, TypeOK
<1>2. CASE List(q)
  <2>1. /\ phase'[q] = "dating" /\ ca'[q] = ca[q]
        /\ started'[q] = clock /\ UNCHANGED <<certs, revokedWhen, clock>>
        /\ listed'[q] = ListRevoked(certs, ca[q])
    BY <1>0, <1>2 DEF List, TableVars, TypeOK
  <2>2. \A s \in Serials : RevokedBefore(ca[q], s, started[q])' =>
          \E row \in listed'[q] : row.serial = s
    BY <2>1, ListRevokedRows DEF RevokedBefore, Selects, RevocationInv, IsRevoked
  <2>3. \A row \in listed'[q] : CrlEntry(q, row)'
    BY <2>1, ListRevokedRows DEF CrlEntry, Selects, RevocationInv, IsRevoked
  <2> QED
    BY <1>0, <2>1, <2>2, <2>3 DEF CrlOk
<1>3. CASE Date(q)
  <2>1. /\ phase'[q] = "answered" /\ phase[q] = "dating" /\ ca'[q] = ca[q]
        /\ started'[q] = started[q] /\ listed'[q] = listed[q]
        /\ UNCHANGED clock /\ response'[q].this_update = clock
        /\ \A row \in listed[q] : row.revoked_at # Unwritable
    BY <1>0, <1>3 DEF Date, TypeOK
  <2>2. /\ started'[q] <= clock'
        /\ \A s \in Serials : RevokedBefore(ca[q], s, started[q])' =>
             \E row \in listed'[q] : row.serial = s
        /\ \A row \in listed'[q] : CrlEntry(q, row)'
    BY <2>1, ListStays
  <2> QED
    BY <1>0, <2>1, <2>2 DEF CrlOk
<1>4. CASE QueryFails(q) \/ AnswerFails(q) \/ HangUp(q) \/ Restart
  BY <1>0, <1>4, CrlFrame DEF QueryFails, AnswerFails, HangUp, Restart, TypeOK
<1>5. CASE /\ phase'[q] = phase[q] /\ ca'[q] = ca[q] /\ started'[q] = started[q]
           /\ listed'[q] = listed[q] /\ response'[q] = response[q]
  BY <1>5, CrlFrame
<1>6. ASSUME NEW p \in Queries, p # q,
             \/ p \in OcspReqs /\ (OcspArrives(p) \/ Lookup(p) \/ Sign(p))
             \/ p \in CrlReqs /\ (CrlArrives(p) \/ List(p) \/ Date(p))
             \/ QueryFails(p) \/ AnswerFails(p) \/ HangUp(p)
      PROVE  /\ phase'[q] = phase[q] /\ ca'[q] = ca[q] /\ started'[q] = started[q]
             /\ listed'[q] = listed[q] /\ response'[q] = response[q]
  BY <1>0, <1>6 DEF OcspArrives, Lookup, Sign, CrlArrives, List, Date, QueryFails,
     AnswerFails, HangUp, TypeOK
<1>7. CASE UNCHANGED vars \/ Tick \/ (\E s \in Serials : Enrol(s)) \/ (\E v \in Revokers : Revocation(v))
  BY <1>5, <1>7 DEF vars, Tick, Enrol, Revocation, RequestVars
<1> QED
  BY <1>0, <1>1, <1>2, <1>3, <1>4, <1>5, <1>6, <1>7 DEF Next, HandleOcsp, HandleCrl, Queries

-----------------------------------------------------------------------------
(***************************************************************************)
(* The results.                                                            *)
(***************************************************************************)

\* IInv is inductive.
THEOREM InvariantHolds == Spec => []IInv
<1>1. Init => IInv
  BY BaseInit, RevocationInit, AnswersInit DEF IInv
<1>2. IInv /\ [Next]_vars => IInv'
  BY BaseStep, RevocationStep, OcspStep, CrlStep DEF IInv
<1> QED
  BY <1>1, <1>2, PTL DEF Spec

\* Type correctness of the responders.
THEOREM TypesCorrect == Spec => []TypeOK
<1>1. IInv => TypeOK
  BY DEF IInv, Base
<1> QED
  BY <1>1, InvariantHolds, PTL

\* Of concurrent revocations of a certificate one wins, and its date stays.
THEOREM OneWins == Spec => []OneRevokerWins
<1>1. IInv => OneRevokerWins
  BY DEF IInv, RevocationInv
<1> QED
  BY <1>1, InvariantHolds, PTL

\* "good" is true as of the date signed with it, for a request of any length.
THEOREM GoodIsTrue == Spec => []GoodAsOfThisUpdate
<1>1. IInv => GoodAsOfThisUpdate
  <2> SUFFICES ASSUME IInv, NEW q \in OcspReqs, phase[q] = "answered",
                      NEW i \in 1..Len(singles[q]), singles[q][i].status = "good"
               PROVE  \/ revokedWhen[singles[q][i].id.serial] = NoTime
                      \/ revokedWhen[singles[q][i].id.serial] >= response[q].this_update
    BY DEF GoodAsOfThisUpdate
  <2> DEFINE s == singles[q][i].id.serial
  <2>0. TypeOK /\ EntryInv(q, i) /\ response[q].this_update = started[q]
    BY DEF IInv, Base, OcspInv
  <2>1. singles[q][i] \in Single
    BY <2>0 DEF TypeOK
  <2>2. s \in Serials
    BY <2>1 DEF Single, CertId
  <2>3. started[q] \in Nat /\ (revokedWhen[s] \in Nat \/ revokedWhen[s] = NoTime)
    BY <2>0, <2>2 DEF TypeOK, Queries, Time
  <2>4. Selects(certs, ca[q], s) /\ ~ RevokedBefore(ca[q], s, started[q])
    BY <2>0 DEF EntryInv
  <2> QED
    BY <2>0, <2>3, <2>4 DEF Selects, RevokedBefore
<1> QED
  BY <1>1, InvariantHolds, PTL

\* A CRL has every revocation that precedes its read, and no other, and one
\* date that cannot be written leaves the CA without a CRL.
THEOREM CrlIsComplete == Spec => []CrlIsWholeOrAbsent
<1>1. IInv => CrlIsWholeOrAbsent
  <2> SUFFICES ASSUME IInv, NEW q \in CrlReqs, phase[q] = "answered"
               PROVE  /\ \A s \in Serials : RevokedBefore(ca[q], s, started[q]) =>
                           /\ \E row \in listed[q] : row.serial = s
                           /\ certs[s].revoked_at # Unwritable
                      /\ \A row \in listed[q] : CrlEntry(q, row)
                      /\ started[q] <= response[q].this_update
    BY DEF CrlIsWholeOrAbsent, RevokedBefore, CrlEntry
  <2>1. CrlOk(q)
    BY DEF IInv, CrlInv
  <2>2. ASSUME NEW s \in Serials, NEW row \in listed[q], row.serial = s
        PROVE  certs[s].revoked_at # Unwritable
    BY <2>1, <2>2 DEF CrlOk, CrlEntry
  <2> QED
    BY <2>1, <2>2 DEF CrlOk
<1> QED
  BY <1>1, InvariantHolds, PTL

\* A serial on a CRL is revoked in every later OCSP answer of the CA.
THEOREM CrlAndOcspAgree == Spec => []RespondersAgree
<1>1. IInv => RespondersAgree
  <2> SUFFICES ASSUME IInv, NEW c \in CrlReqs, NEW q \in OcspReqs,
                      phase[c] = "answered", phase[q] = "answered", ca[c] = ca[q],
                      response[c].this_update < started[q],
                      NEW i \in 1..Len(singles[q]), NEW row \in listed[c],
                      row.serial = singles[q][i].id.serial, singles[q][i].status # "revoked"
               PROVE  FALSE
    BY DEF RespondersAgree
  <2> DEFINE s == singles[q][i].id.serial
  <2>0. /\ TypeOK /\ EntryInv(q, i) /\ started[q] \in Nat /\ response[c].this_update \in Nat
        /\ started[c] \in Nat /\ started[c] <= response[c].this_update
    BY DEF IInv, Base, OcspInv, CrlInv, CrlOk, TypeOK, Queries, Time
  <2>1. /\ certs[s] # NoRow /\ certs[s].ca_id = ca[c] /\ revokedWhen[s] # NoTime
        /\ revokedWhen[s] <= started[c]
    BY DEF IInv, CrlInv, CrlOk, CrlEntry
  <2>2. revokedWhen[s] \in Nat
    BY <2>0, <2>1 DEF TypeOK, RevokedRow, Time
  <2>3. RevokedBefore(ca[q], s, started[q])
    BY <2>0, <2>1, <2>2 DEF RevokedBefore
  <2> QED
    BY <2>0, <2>3 DEF EntryInv
<1> QED
  BY <1>1, InvariantHolds, PTL

\* Revocation is final, and so is its date.
THEOREM RevokedStaysRevoked == Spec => RevocationIsFinal
<1>1. IInv /\ [Next]_vars =>
        [\A s \in Serials :
           (certs[s] # NoRow /\ certs[s].status = "revoked") => certs'[s] = certs[s]]_vars
  <2> SUFFICES ASSUME IInv, [Next]_vars, NEW s \in Serials, certs[s] # NoRow,
                      certs[s].status = "revoked"
               PROVE  certs'[s] = certs[s]
    OBVIOUS
  <2>1. Base /\ TypeOK
    BY DEF IInv, Base
  <2>2. ASSUME NEW v \in Revokers, Revocation(v) PROVE certs'[s] = certs[s]
    BY <2>1, <2>2, RevocationEffect DEF Revoked, IsRevoked, Call
  <2> QED
    BY <2>1, <2>2, RowSteps
<1> QED
  BY <1>1, InvariantHolds, PTL DEF Spec, RevocationIsFinal
=============================================================================
