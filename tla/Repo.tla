-------------------------------- MODULE Repo --------------------------------
(***************************************************************************)
(* The two tables of src/db/mod.rs and the SQL statements of               *)
(* src/db/repo.rs, as operators on table values.  A table is a function    *)
(* from its primary key to a row or to NoRow, so that a second row under   *)
(* one key cannot exist; an INSERT that meets an existing key fails in the *)
(* database, and the modules that use these operators say what the caller  *)
(* then does.  Each operator is one statement: the database runs it        *)
(* atomically, and statements of different handlers interleave freely.     *)
(*                                                                         *)
(* Of a certificate row we keep the columns that a decision reads or that  *)
(* tie it to its request; subject, validity, DER and thumbprint follow     *)
(* from the certificate named by the serial.                               *)
(***************************************************************************)
EXTENDS Naturals

CONSTANTS
  CAs,       \* ids of the configured certificate authorities
  Profiles,  \* names of the configured SCEP profiles
  Txns,      \* SCEP transaction ids, chosen by the clients
  Serials,   \* certificate serial numbers
  NoRow,     \* "no row under this key"
  NoTime,    \* a time column that is NULL or does not parse as a date
  Unwritable \* a date that parses and has no place in a certificate or a
             \* CRL: before 1970, or after the year 9999

CertStatus == {"valid", "revoked"}
TxnStatus  == {"issued", "failed"}
Time       == Nat

\* What the column revoked_at, a string, may hold.
Stamp == Time \cup {NoTime, Unwritable}

\* issued_certificate: PRIMARY KEY serial, over all CAs together.
CertRow == [ca_id : CAs, transaction_id : Txns, profile : Profiles,
            status : CertStatus, revoked_at : Stamp]
CertTable == [Serials -> CertRow \cup {NoRow}]

\* scep_transaction: PRIMARY KEY transaction_id, over all profiles together.
TxnRow == [profile : Profiles, status : TxnStatus, message_type : {"PKCSReq"}]
TxnTable == [Txns -> TxnRow \cup {NoRow}]

ASSUME NoRowAssumption == NoRow \notin CertRow /\ NoRow \notin TxnRow
ASSUME NoTimeAssumption ==
  NoTime \notin Time /\ Unwritable \notin Time /\ NoTime # Unwritable

-----------------------------------------------------------------------------
(***************************************************************************)
(* Certificates.                                                           *)
(***************************************************************************)

\* INSERT INTO issued_certificate, when no row has the key yet.
InsertIssued(table, s, row) == [table EXCEPT ![s] = row]

\* The WHERE ca_id = ? AND serial = ? of a lookup and of the revocation.
Selects(table, ca, s) == table[s] # NoRow /\ table[s].ca_id = ca

\* Mutated forms of the definitions below, not used here: what the statement
\* or the reading of its rows becomes with a condition too many or too few.
StatusBySerialRaw(table, ca, s) ==
  IF ~ Selects(table, ca, s) THEN "unknown" ELSE table[s].status

StatusBySerialDated(table, ca, s) ==
  IF ~ Selects(table, ca, s) THEN "unknown"
  ELSE IF table[s].revoked_at # NoTime THEN "revoked" ELSE "good"

RevocableAgain(table, ca, s) == Selects(table, ca, s)

StatusBySerial(table, ca, s) ==
  IF ~ Selects(table, ca, s) THEN "unknown"
  ELSE IF table[s].status = "revoked" THEN "revoked" ELSE "good"

\* SELECT serial, revoked_at ... WHERE ca_id = ? AND status = 'revoked'.
RevokedRow == [serial : Serials, revoked_at : Stamp]

ListRevoked(table, ca) ==
  {[serial |-> s, revoked_at |-> table[s].revoked_at] :
     s \in {x \in Serials : Selects(table, ca, x) /\ table[x].status = "revoked"}}

\* UPDATE ... WHERE ca_id = ? AND serial = ? AND status = 'valid'.
Revocable(table, ca, s) == Selects(table, ca, s) /\ table[s].status = "valid"

\* Mutated form of Revoke: the row is deleted instead of marked.
RevokeDeletes(table, ca, s, at) ==
  IF ~ Revocable(table, ca, s) THEN table ELSE [table EXCEPT ![s] = NoRow]

Revoke(table, ca, s, at) ==
  IF ~ Revocable(table, ca, s) THEN table
  ELSE [table EXCEPT ![s] = [ca_id |-> table[s].ca_id,
                             transaction_id |-> table[s].transaction_id,
                             profile |-> table[s].profile,
                             status |-> "revoked", revoked_at |-> at]]

-----------------------------------------------------------------------------
(***************************************************************************)
(* Transactions: record_transaction is a SELECT followed by one of these.  *)
(***************************************************************************)

TxnRecord(profile, status) ==
  [profile |-> profile, status |-> status, message_type |-> "PKCSReq"]

\* UPDATE ... SET status, message_type WHERE transaction_id = ?: the profile
\* and the creation time stay those of the first request that used the id.
UpdateTransaction(table, t, status) ==
  IF table[t] = NoRow THEN table
  ELSE [table EXCEPT ![t] = TxnRecord(table[t].profile, status)]

\* INSERT INTO scep_transaction: with a row already there, the key constraint
\* makes the statement fail and leaves the table alone.
InsertTransaction(table, t, profile, status) ==
  IF table[t] # NoRow THEN table
  ELSE [table EXCEPT ![t] = TxnRecord(profile, status)]
=============================================================================
