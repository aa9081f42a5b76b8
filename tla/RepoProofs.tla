----------------------------- MODULE RepoProofs -----------------------------
(***************************************************************************)
(* What the statements of Repo return, for every table.                    *)
(***************************************************************************)
EXTENDS Repo, TLAPS

\* insert_issued: the table keeps its type, the key has the new row and every
\* other key keeps its own.
LEMMA InsertIssuedTable ==
  ASSUME NEW table \in CertTable, NEW s \in Serials, NEW row \in CertRow
  PROVE  /\ InsertIssued(table, s, row) \in CertTable
         /\ InsertIssued(table, s, row)[s] = row
         /\ \A x \in Serials \ {s} : InsertIssued(table, s, row)[x] = table[x]
BY DEF CertTable, InsertIssued

\* The UPDATE of record_transaction: only the row of the given id changes, it
\* appears or disappears nowhere, and keeps its profile.
LEMMA UpdateTransactionTable ==
  ASSUME NEW table \in TxnTable, NEW t \in Txns, NEW status \in TxnStatus
  PROVE  /\ UpdateTransaction(table, t, status) \in TxnTable
         /\ \A x \in Txns \ {t} : UpdateTransaction(table, t, status)[x] = table[x]
         /\ table[t] = NoRow => UpdateTransaction(table, t, status)[t] = NoRow
         /\ table[t] # NoRow => UpdateTransaction(table, t, status)[t] =
              TxnRecord(table[t].profile, status)
<1>1. CASE table[t] = NoRow
  BY <1>1 DEF UpdateTransaction
<1>2. CASE table[t] # NoRow
  <2>1. table[t] \in TxnRow
    BY <1>2 DEF TxnTable
  <2>2. TxnRecord(table[t].profile, status) \in TxnRow
    BY <2>1 DEF TxnRow, TxnRecord
  <2> QED
    BY <1>2, <2>2 DEF TxnTable, UpdateTransaction
<1> QED
  BY <1>1, <1>2

\* The INSERT of record_transaction: afterwards the id has a row, the one it
\* had if there was one.
LEMMA InsertTransactionTable ==
  ASSUME NEW table \in TxnTable, NEW t \in Txns, NEW profile \in Profiles,
         NEW status \in TxnStatus
  PROVE  /\ InsertTransaction(table, t, profile, status) \in TxnTable
         /\ \A x \in Txns \ {t} : InsertTransaction(table, t, profile, status)[x] = table[x]
         /\ table[t] # NoRow => InsertTransaction(table, t, profile, status)[t] = table[t]
         /\ table[t] = NoRow => InsertTransaction(table, t, profile, status)[t] =
              TxnRecord(profile, status)
<1>1. TxnRecord(profile, status) \in TxnRow
  BY DEF TxnRow, TxnRecord
<1> QED
  BY <1>1 DEF InsertTransaction, TxnTable
=============================================================================
