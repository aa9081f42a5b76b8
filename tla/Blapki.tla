------------------------------- MODULE Blapki -------------------------------
(***************************************************************************)
(* The server as a whole: the enrolment handlers of Enrolment, the         *)
(* responders and the revoking calls of Responder, the table               *)
(* issued_certificate they share, and the pool of database connections for *)
(* which every statement of any of them waits (src/db/mod.rs).             *)
(*                                                                         *)
(* Both modules leave out what their handlers wait for and who else writes *)
(* the table.  Here an SQL statement is two steps, the first of which      *)
(* takes one of PoolSize connections; a statement that is given none in    *)
(* time fails; and what is in flight when the process stops is lost on     *)
(* both sides at once.                                                     *)
(***************************************************************************)
EXTENDS Repo, FiniteSets, Sequences

CONSTANTS
  Reqs, Requests, CaOf, Mode, PrintableTxns, NoReq, NoSerial,       \* of Enrolment
  OcspReqs, CrlReqs, Revokers, Paths, Questions, Stamps, MaxTime, NoAnswer, \* of Responder
  PoolSize    \* max_connections

ASSUME PoolSizeAssumption == PoolSize \in Nat \ {0}

Handlers == Reqs \cup OcspReqs \cup CrlReqs \cup Revokers

\* A handler has one name.
ASSUME HandlersAssumption ==
  /\ Reqs \cap (OcspReqs \cup CrlReqs \cup Revokers) = {}
  /\ OcspReqs \cap CrlReqs = {} /\ (OcspReqs \cup CrlReqs) \cap Revokers = {}

VARIABLES
  certs,                                                  \* the shared table
  pc, msg, serial, found, reply, txns, approved, told, dbErrors,  \* of Enrolment
  clock, phase, ca, ask, started, singles, listed, response,
  revokedWhen, outcome, target,                           \* of Responder
  held,      \* the handlers that hold a connection
  delivered  \* delivered[q]: the serials of q's CA that devices had been sent
             \* when the OCSP request q came in (history)

EnrolmentVars == <<pc, msg, serial, found, reply, txns, approved, told, dbErrors>>
ResponderVars == <<clock, phase, ca, ask, started, singles, listed, response,
                   revokedWhen, outcome, target>>
vars == <<certs, EnrolmentVars, ResponderVars, held, delivered>>

E == INSTANCE Enrolment
R == INSTANCE Responder

\* What the two modules ask of these constants.
ASSUME EnrolmentAssumption ==
  /\ CaOf \in [Profiles -> CAs] /\ Mode \in [Profiles -> E!Modes]
  /\ \A m \in Requests : m \in E!Message({m.profile})
  /\ NoReq \notin Requests /\ NoSerial \notin Serials
ASSUME ResponderAssumption ==
  /\ Questions \subseteq Seq(R!CertId) /\ NoAnswer \notin Paths
  /\ Stamps \subseteq Stamp /\ MaxTime \in Nat

TypeOK ==
  /\ E!TypeOK
  /\ R!TypeOK
  /\ held \subseteq Handlers
  /\ delivered \in [OcspReqs -> SUBSET Serials]

Init ==
  /\ E!Init
  /\ R!Init
  /\ held = {}
  /\ delivered = [q \in OcspReqs |-> {}]

-----------------------------------------------------------------------------
(***************************************************************************)
(* The pool.                                                               *)
(***************************************************************************)

\* The handlers that wait for a connection or for the database.
AtStatement(h) ==
  \/ h \in Reqs /\ pc[h] \in {"inserting", "finding", "writing"}
  \/ h \in OcspReqs /\ phase[h] = "looking" /\ ~ R!Done(h)
  \/ h \in CrlReqs /\ phase[h] = "listing"
  \/ h \in Revokers /\ outcome[h] = "none"

\* A statement is given a connection.
Acquire(h) ==
  /\ AtStatement(h)
  /\ h \notin held
  /\ Cardinality(held) < PoolSize
  /\ held' = held \cup {h}
  /\ UNCHANGED <<certs, EnrolmentVars, ResponderVars, delivered>>

\* Mutated form of Released: a request keeps its connection until it is
\* answered.
ReleasedAtAnswer(h) == IF h \in Reqs /\ pc'[h] # "answered" THEN held ELSE held \ {h}

\* The connection goes back after each statement: the calls of the database
\* are given the pool.
Released(h) == held \ {h}

\* Mutated form of Dropped: what a dropped future held is lost.
DroppedLeaks(h) == held

\* A future that is dropped at a statement gives its connection back.
Dropped(h) == held \ {h}

-----------------------------------------------------------------------------
(***************************************************************************)
(* Enrolment.                                                              *)
(***************************************************************************)

\* What a handler does without the database.
Enrolling(r) ==
  /\ \/ E!Receive(r) \/ E!IntuneApproves(r) \/ E!IntuneHears(r)
     \/ E!Reject(r) \/ E!Issue(r) \/ E!CannotIssue(r) \/ E!Tell(r)
  /\ UNCHANGED <<ResponderVars, held, delivered>>

EnrolmentStatement(r) ==
  /\ r \in held
  /\ E!Insert(r) \/ E!InsertFails(r) \/ E!Find(r) \/ E!Write(r) \/ E!RecordFails(r)
  /\ held' = Released(r)
  /\ UNCHANGED <<ResponderVars, delivered>>

\* acquire_timeout: the statement fails and was never sent.
EnrolmentTimesOut(r) ==
  /\ r \notin held
  /\ UNCHANGED <<certs, txns, ResponderVars, held, delivered>>
  /\ E!InsertFails(r) \/ E!RecordFails(r)

DeviceHangsUp(r) ==
  /\ E!HangUp(r)
  /\ held' = Dropped(r)
  /\ UNCHANGED <<ResponderVars, delivered>>

-----------------------------------------------------------------------------
(***************************************************************************)
(* The responders and revocation.                                          *)
(***************************************************************************)

Delivered(c) ==
  {serial[r] : r \in {x \in Reqs : /\ reply[x] = "Success" /\ <<x, "insert">> \notin dbErrors
                                   /\ CaOf[msg[x].profile] = c}}

QueryArrives(q) ==
  /\ \/ /\ q \in OcspReqs /\ R!OcspArrives(q)
        /\ delivered' = [delivered EXCEPT ![q] = Delivered(ca'[q])]
     \/ q \in CrlReqs /\ R!CrlArrives(q) /\ UNCHANGED delivered
  /\ UNCHANGED <<EnrolmentVars, held>>

\* What a responder does without the database.
Responding(q) ==
  /\ \/ q \in OcspReqs /\ R!Sign(q)
     \/ q \in CrlReqs /\ R!Date(q)
     \/ R!AnswerFails(q)
  /\ UNCHANGED <<EnrolmentVars, held, delivered>>

ResponderStatement(q) ==
  /\ q \in held
  /\ \/ q \in OcspReqs /\ R!Lookup(q)
     \/ q \in CrlReqs /\ R!List(q)
     \/ R!QueryFails(q)
  /\ held' = Released(q)
  /\ UNCHANGED <<EnrolmentVars, delivered>>

ResponderTimesOut(q) ==
  /\ q \notin held
  /\ R!QueryFails(q)
  /\ UNCHANGED <<EnrolmentVars, held, delivered>>

ClientHangsUp(q) ==
  /\ R!HangUp(q)
  /\ held' = Dropped(q)
  /\ UNCHANGED <<EnrolmentVars, delivered>>

RevokerStatement(v) ==
  /\ v \in held
  /\ R!Revocation(v)
  /\ held' = Released(v)
  /\ UNCHANGED <<EnrolmentVars, delivered>>

RevokerTimesOut(v) ==
  /\ v \notin held
  /\ UNCHANGED <<certs, revokedWhen, EnrolmentVars, held, delivered>>
  /\ R!Revocation(v)
  /\ outcome'[v] = "error"

-----------------------------------------------------------------------------
(***************************************************************************)
(* The process.                                                            *)
(***************************************************************************)

InFlight(h) ==
  \/ h \in Reqs /\ pc[h] \in E!InFlight
  \/ h \in R!Queries /\ phase[h] \in R!InFlight

\* The process stops, with all of its handlers and its pool, and starts again.
Restart ==
  /\ held # {} \/ \E h \in Handlers : InFlight(h)
  /\ pc' = [r \in Reqs |-> IF InFlight(r) THEN "gone" ELSE pc[r]]
  /\ phase' = [q \in R!Queries |-> IF InFlight(q) THEN "gone" ELSE phase[q]]
  /\ held' = {}
  /\ UNCHANGED <<certs, msg, serial, found, reply, txns, approved, told, dbErrors>>
  /\ UNCHANGED <<clock, ca, ask, started, singles, listed, response, revokedWhen, outcome, target>>
  /\ UNCHANGED delivered

Tick == R!Tick /\ UNCHANGED <<EnrolmentVars, held, delivered>>

Next ==
  \/ \E h \in Handlers : Acquire(h)
  \/ \E r \in Reqs : Enrolling(r) \/ EnrolmentStatement(r) \/ EnrolmentTimesOut(r) \/ DeviceHangsUp(r)
  \/ \E q \in R!Queries : \/ QueryArrives(q) \/ Responding(q) \/ ResponderStatement(q)
                          \/ ResponderTimesOut(q) \/ ClientHangsUp(q)
  \/ \E v \in Revokers : RevokerStatement(v) \/ RevokerTimesOut(v)
  \/ Restart
  \/ Tick

\* The pool hands out a connection that is free, every statement on one ends,
\* and every call of Intune does.  No timeout is relied upon, and no revoking
\* call need be made, but one that has its connection ends.
Fairness ==
  /\ \A r \in Reqs :
       WF_vars(Acquire(r) \/ EnrolmentStatement(r) \/ (Enrolling(r) /\ E!Handle(r)))
  /\ \A q \in R!Queries : WF_vars(Acquire(q) \/ ResponderStatement(q) \/ Responding(q))
  /\ \A v \in Revokers : WF_vars(RevokerStatement(v))

Spec == Init /\ [][Next]_vars /\ Fairness

-----------------------------------------------------------------------------
(***************************************************************************)
(* Properties.                                                             *)
(***************************************************************************)

\* No more connections than the pool has, and none is kept where the database
\* is not at work: not across a call of Intune, after an error, or by a
\* handler that is gone, so that a slow peer or a client that hangs up never
\* costs the others the database (persist, record, build_response, build_crl
\* are given the pool, never a connection of it).
ConnectionsAreForStatements ==
  /\ Cardinality(held) <= PoolSize
  /\ \A h \in held : AtStatement(h)

\* A device that shows the certificate it was sent is known to the OCSP
\* responder of the CA in the path, from the moment it was sent and through
\* revocations and restarts, unless the insert failed (pki_operation persists
\* before it answers, status_by_serial asks the table each time).
DeliveredIsKnown ==
  \A q \in OcspReqs : \A i \in 1..Len(singles[q]) :
    singles[q][i].id.serial \in delivered[q] => singles[q][i].status # "unknown"

\* However many handlers share the connections, every request that came in is
\* answered, fails or is dropped: no handler that holds one waits for another
\* handler, or for a second one.  A handler runs once, so that it is enough
\* that the server comes to rest.
EveryHandlerEnds == []<>(\A h \in Reqs \cup R!Queries : ~ InFlight(h))

\* The enrolment path does what Enrolment says also where rows are revoked
\* under it and its statements wait: revocation changes nothing it reads.
AsInserted(row) == IF row = NoRow THEN NoRow ELSE [row EXCEPT !.status = "valid", !.revoked_at = NoTime]
Inserted == [s \in Serials |-> AsInserted(certs[s])]
Enrolled == INSTANCE Enrolment WITH certs <- Inserted
ImplementsEnrolment == Enrolled!Init /\ [][Enrolled!Next]_(Enrolled!vars)

\* The responders do what Responder says with the enrolment path as the one
\* that inserts rows: an insert is a fresh, valid row, whatever request it is
\* of, and nothing else of that path reaches them.
ImplementsResponder == R!Init /\ [][R!Next]_(R!vars)
=============================================================================
