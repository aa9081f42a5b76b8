# A TLA+ verification of blapki

blapki is a SCEP enrolment server in Rust: devices send certificate requests to a
profile, the server checks the challenge (a static secret, Microsoft Intune, or
nothing), issues a certificate from one of its CAs, stores it, and answers OCSP and
CRL requests about what it issued. This directory holds TLA+ models of it, the TLC
configurations that check them, and proofs that TLAPS checks. Paths below are
relative to the repository's root; lines refer to the same commit.

To check a run: `tlc -config EnrolmentThree.cfg MCEnrolment.tla`. To check the proofs:
`tlapm EnrolmentProofs.tla`, and likewise `ResponderProofs.tla`, `IntuneClientProofs.tla`,
`StartupProofs.tla`, `KeyStoreProofs.tla`, `ExchangeProofs.tla`, `BlapkiProofs.tla` and `RepoProofs.tla`.
`PROJECT.json` lists the runs, what each definition models (`map`), the mutants that
show that each property can fail, the hazards, the findings and the theorems.

## 1. The system

Everything runs in one process on a multi-threaded tokio runtime. Each HTTP request is
a future; the only state that requests share is the database, the pool of ten
connections to it, and the caches of the Intune client. The CAs, the profiles and their keys are built once at startup
(`src/app.rs`) and do not change.

| part | source | state | operations | modelled in |
|---|---|---|---|---|
| SCEP enrolment | `src/http/scep.rs` | the future of each request | `scep_get`, `scep_post`, `pki_operation`, `persist`, `record` | `Enrolment` (its awaits), `Exchange` (its messages) |
| SCEP messages | `src/crypto/verify.rs`, `src/scep/*`, `src/ca/csr.rs` | none | `parse_and_verify`, `verify_rsa`, attributes, capabilities | `ScepMessage`, `Exchange`; `Scep` (how far a message gets) |
| envelopes | `src/crypto/envelope.rs` | none | `open`, `select_recipient`, `unwrap_cek`, `build_for` | `ScepMessage`, `Exchange` |
| CertReps | `src/crypto/sign.rs`, `src/http/scep.rs` | none | `build_cert_rep`, `success_attrs`, `failure_attrs` | `ScepMessage`, `Exchange` |
| issuing | `src/ca/authority.rs`, `serial.rs`, `extensions.rs` | the CA's key | `issue`, `random_serial`, `serial_decimal`, `requested_san` | `Authority`, `Exchange`; `Enrolment` (a fresh serial, or a failure) |
| challenge validators | `src/challenge/mod.rs` | none | `validate`, `on_issued`, `on_failure` in three modes | `Enrolment` |
| Intune client | `src/intune/mod.rs` | token cache, service endpoint cache | `validate_request`, `success_notification`, `failure_notification`, `validation_endpoint`, `token` | `IntuneClient`; `Enrolment` (verdicts and notifications) |
| tables | `src/db/repo.rs` | `issued_certificate`, `scep_transaction` | `insert_issued`, `status_by_serial`, `list_revoked`, `revoke`, `record_transaction` | `Repo`, used by `Enrolment`, `Responder` and `Blapki` |
| pool | `src/db/mod.rs` | the connections in use | acquire, release, time out | `Blapki` |
| OCSP responder | `src/http/ocsp.rs` | the future of each request | `ocsp_get`, `ocsp_post`, `build_response` | `Responder` |
| CRL publisher | `src/http/crl.rs` | the future of each request | `crl`, `build_crl` | `Responder` |
| configuration, startup | `src/config.rs`, `src/app.rs`, `src/main.rs` | the CA key files | `load`, `validate`, `build_state`, `load_or_bootstrap_ca` | `Startup`; `Enrolment` (restarts) |
| key store | `src/ca/keystore.rs` | none | `load`, `pem_blocks`, `parse_certificate`, `parse_private_key` | `KeyStore`; `Startup` (its outcomes) |
| routing, errors, health | `src/http/mod.rs`, `src/error.rs`, `src/http/health.rs` | none | `router`, `into_response` | `Scep` and `Exchange` (statuses), `Blapki` (all handlers at once) |

How they interact. An enrolment calls its validator and awaits it, issues without
awaiting, then awaits the insert, the SELECT and the UPDATE or INSERT of the audit trail,
and the notification. An Intune validator asks a service that may refuse, may not
answer, or whose answer may be lost. Rows written by the enrolment path are what the
responders read, each with one statement at a time. `repo::revoke`, the only other
writer, is public and has no caller in `src/` but the tests: the models let it be called at
any moment, with any CA, serial and time, beside all other handlers. Each statement takes a connection of
the pool and gives it back, so that a handler is never given the database for longer
than one statement.

What is hard in it:

* No transaction spans two statements. `record_transaction` is a SELECT followed by a
  write that depends on it; handlers of one transaction id interleave in between.
* Almost every error is survived: after a failed insert the certificate is delivered
  anyway, the results of `record`, `on_failure` and `on_issued` are dropped.
* A client that hangs up drops the future at whatever await it is in; the process may
  stop. Nothing is undone and nothing is resumed.
* Three parties learn about one request (the device, Intune, and everybody who asks
  the responders) by different channels, and must not hear contradictory things.
* An OCSP answer signs one date over several reads, a CRL is dated after its read.
* Clients choose transaction ids and retry with them.
* A connection may damage a message or deliver parts of two; only what is signed binds
  its parts to each other, and an answer may come after the device has tried again.
* Which recipient of an envelope is unwrapped, and what is answered when that fails, must
  not depend on whether it unwraps.
* A key file may be put together by hand or half written; a block without its end swallows
  the next one, and what does not decode is dropped without a word.
* Ten connections serve every handler; one that is kept across a slow peer, or lost with a
  dropped future, is missing to everybody else.

What makes each part correct, in a line: enrolment tells the device, Intune and the
database the same of a request; the tables never lose a row, and a certificate that was
delivered is in them under its CA; the responders' answers are true as of their dates, whole, and
agree with each other; the
Intune client never reports an approval Intune did not give and never uses a token
that has run out; startup never replaces a CA key and serves the last entry of each id; a certificate is for what some device
signed, and the device that asked can read its answer; a connection is held by a
statement and by nothing else.

## 2. Modules

| module | what it is |
|---|---|
| `Repo` | the two tables as functions from their key, and every SQL statement as an operator on a table |
| `Scep` | what a request is to the handlers: how far its body gets, and what it is answered before the first await |
| `Authority` | what a CA puts into a certificate: extensions, validity, the serial and its other forms |
| `ScepMessage` | signed messages, envelopes and CertReps, with symbolic cryptography |
| `Exchange` | devices and the server exchange these messages over connections that are not reliable |
| `Issuance` | the abstract enrolment service: what the device, Intune and the responders may hear of a request |
| `Enrolment` | the handlers of `pki_operation` with the validators, the database and the interruptions |
| `Responder` | OCSP and CRL requests, revocations, restarts, and the enrolments that go on meanwhile |
| `Blapki` | the handlers of `Enrolment` and of `Responder` over one table and one pool |
| `RemoteCall` | the abstract Intune client: what a caller may conclude from Ok and from an error |
| `IntuneClient` | concurrent calls of the Intune client, its two caches, and the three services it asks |
| `Startup` | processes that start: the configuration, the sources of a CA, the bootstrap of a key file, the profiles |
| `KeyStore` | the lines of a key file, its blocks, and the certificate and key that come of them |
| `MCEnrolment`, `MCResponder`, `MCBlapki`, `MCExchange`, `MCIntuneClient`, `MCStartup`, `MCKeyStore` | the instances TLC checks |
| `RepoProofs` | lemmas on the operators of `Repo` |
| `EnrolmentProofs`, `ResponderProofs`, `BlapkiProofs`, `ExchangeProofs`, `IntuneClientProofs`, `StartupProofs`, `KeyStoreProofs` | the proofs |

`Enrolment` and `Exchange` look at the same handler from two sides. `Enrolment` has every
await of it and takes a message to be its outcome, a `body` of `Scep`; `Exchange` has the
messages, part by part, and takes the handler in one step. That `Exchange` answers as
`Scep` says, for the body its own checks come to, is the property
`AnswersAreThoseOfScep`, which ties the two together. `Blapki` is `Enrolment` and
`Responder` in one: both are instances in it, over one variable `certs`.

### Repo

`certs` maps a serial to a row or `NoRow`, since the serial alone is the primary key
(`src/db/mod.rs:20`), over all CAs; `txns` maps a transaction id to a row. Of a
certificate row the model keeps `ca_id`, `transaction_id`, `profile`, `status` and
`revoked_at`; the columns that only restate the certificate are left out. `Selects`
is the WHERE of a lookup, `Revocable` that of the UPDATE. A time that is NULL or does
not parse is `NoTime`: the code then fills in the current time, and the entry stays. One that
parses as a date before 1970 or after 9999 is `Unwritable`: a certificate or a CRL has no
form for it. `revoked_at` is a string that nobody checks, so a `Stamp` is any of the three:
a time, `NoTime` or `Unwritable`.

### Enrolment

Each request instance `r` has a phase `pc[r]`: the await its handler is at.

| phase | await | code |
|---|---|---|
| `validating` | `rt.validator.validate` | `src/http/scep.rs:139` |
| `tellRejected` | `on_failure` of a rejected request | 141 |
| `tellUnissued` | `on_failure` after `ca.issue` failed | 158 |
| `inserting` | `repo::insert_issued` | 219 |
| `finding`, `writing` | the two statements of `record_transaction` | `src/db/repo.rs:158`, 164/173 |
| `tellIssued` | `on_issued` | `src/http/scep.rs:171` |
| `answered`, `gone` | the handler has returned, or was dropped | |

What the code does between two awaits touches nothing shared and is part of the step
that ends the first of them: `Issue` for instance is "validate returns Ok, `ca.issue`
makes a certificate". The action of an await's end has a sibling for its failure
(`InsertFails`, `RecordFails`, the disjunct `MayReject`). `InsertFails` and `RecordFails` may
have written what they were to write, as a statement whose answer is lost does. `IntuneApproves` and
`IntuneHears` are steps of Intune while it is being asked or told: the handler's own
step follows and need not know of them, which is how a lost answer looks.

A message (`Message`) is a record: its profile, its transaction id, how far
`pki_operation` gets with its body (`Bodies`), its password against the configured
one, whether a certificate can be built from it (`issuable`) and whether a reply can be
sealed to its sender's key (`sealable`). `PrintableTxns` are the ids that a reply can
carry.

`Restart` sends every handler to `gone` and leaves the tables: after a start nothing
of a request in flight is left (`src/main.rs`). `HangUp` is the same for one handler.

### Responder

`OcspArrives` reads the clock, as `build_response` does, and `Lookup` is one turn of
its loop, so that `Revocation`, `Enrol` and other requests come in between. `Date`
reads the clock after `List` has read the rows. `revokedWhen` is a history variable:
the clock when a row was in fact updated, which the column `revoked_at`, filled in by
the caller, need not be. `Revocation(v)` is one call with any CA and serial and any time of
`Stamps`, be it in the past, in the future, missing or impossible to write; it may fail
before or after the database has done the update (`Update`). `AnswerFails` is every error after
the last query, which ends in HTTP 500: the nonce, the signature and the encoding of an OCSP
answer (`src/http/ocsp.rs:90-102`), a date, the signature and the encoding of a CRL
(`src/http/crl.rs:54-102`). `Date`, the CRL that succeeds, is only possible if every row read has a date
that can be written: one that has not costs the whole list, where a row without a date gets
the date of the list. OCSP replaces both by the current time (`to_cert_status`). `Enrol` stands for the enrolment path and
inserts a fresh, valid row of any request; `Blapki` shows that this is what that path does
to the responders.

### Blapki

An SQL statement is two steps: `Acquire`, for which one of `PoolSize` connections must be
free, and the statement itself, a step of `Enrolment` or `Responder`, with which the
connection goes back (`Released`): sqlx is given `&pool` at each call
(`src/db/repo.rs`), never a connection. A statement that gets no connection in time fails
(`EnrolmentTimesOut`, `ResponderTimesOut`, `RevokerTimesOut`), and was then not sent, so
that nothing of it can have happened. `HangUp` and `Restart` drop futures, and with
them their connections; `Restart` stops the handlers of both components at once, where
each component's own module has a restart of its own. `delivered` is a history variable:
the serials that devices had been sent when an OCSP request came in.

### Authority, ScepMessage and Exchange

Cryptography is symbolic: a signature is a record of the key, the digest and the attributes
it was made over, the digest of a content is a record with that content in it, and
something encrypted can be read by whoever has the key it names. A `Noise` is bytes that do not
decode, `Nothing` is absent. `ParseError` is `parse_and_verify` in the order of its
checks, each with the status its error becomes. `Selected` is `select_recipient`,
`UnwrapCek` the substitution of a key that opens nothing for one that does not unwrap or has the
wrong length, `Openable` and `Open` the rest of `open`. `Success` and `Failure` are the two
CertReps with every reason for which they cannot be built. `Issue` gives a certificate
or `Nothing`; its serial comes from random bytes, which `RandomSerial` makes positive and
`SerialNumber` writes as a DER INTEGER, and leaves as a number for Intune and as a
row's hex digits for the CRL. A byte is a number below `Base`, so that the edges of a byte
(zero, the top bit) are there with a base of four.

The device is external. It follows `src/roundtrip.rs` (fetch, sign, seal, read) and the
recipients of `src/http_test.rs`, and may send what no well-behaved client sends. It
makes all its attempts at one `order`, each with a nonce of its own. `Damage` replaces a part of a
message on its way by the same part of any message ever sent, or spoils it as a whole;
`Break` loses it, or the answer to it; `Send` in the state `waiting` is a retry, and may
come before or after the server has worked on the attempt before. `Grant` and `Refuse` are
the server, with either verdict of a validator. `sent`, `issued` and `exchanges` are
history variables.

`Draws` are the random bytes of a serial, `SerialBytes` of them below `Base`
(`DrawsAssumption`, `BytesAssumption`). `Grant` makes a certificate only under a serial that
is not in use: that 120 random bits differ is the one thing `random_serial` is trusted for.
That serials then stay different in every form they take, in decimal for Intune too, is part
of `SerialsTravelWell`.

### IntuneClient

A call of one of the three operations runs through `validation_endpoint` and
`post_intune`, each of which may call `token`. The phases are again the awaits; `scope`
says for which of the two `token` is running, and thereby where the call goes on.

| phase | await | code (`src/intune/mod.rs`) |
|---|---|---|
| `endpoint` | the lock for reading the endpoint | 155 |
| `token` | the lock for reading the tokens | 227 |
| `fetching` | the request for a token | 239-256 |
| `caching` | the lock for writing the tokens | 263 |
| `discovering` | the request to Graph | 162-180 |
| `storing` | the lock for writing the endpoint | 190 |
| `posting` | the request to Intune | 203-222 |

A guard of a lock is dropped at the end of the `if let` or of the statement it is taken
in, so that none is held across another await, and a lock is always free or about to
be. But taking one is an await of its own: between the arrival of a token and its
insertion other calls read, fetch and insert, and what is inserted last need not have
been fetched last. That is why `caching` and `storing` are phases.

`net[c]` is what a peer has answered to `c` and `c` has not yet read. `Fails` may follow
the peer's answer, as when a connection breaks; a peer that acts after the client has
given up is the same to every property as one that acted just before. The lifetime of a token
counts for the token service from its answer (`at`), for the code from its arrival
(`ExpiresAt`); `until` keeps the former in the model's token. `expires_at` is an `Instant`
plus a duration, and the addition panics if the sum is beyond `MaxInstant`, the last instant there
is: `TokenOverflows` drops the handler that called, with no lock held and nothing cached.
A notification is answered with any JSON and its code is not read (`Answers`). `Delay` bounds what lies
between the two, in `Tick`: `CachedTokenIsLive` is true because the minute that `token`
takes off is at least as long, which is the assumption `DelayAssumption`.

`RemoteCall` is the client as its callers see it (`CallerSees`): a call is open until it
returns or is dropped, Intune may hear of it once while it is open, Ok requires that it did
and that it approved a validation, and an error says nothing. It has no tokens, endpoints,
caches or clock. `Enrolment` takes a call of the client to be one await, with the judgement
of Intune or the arrival of a notification as a step while it lasts, and any
error after it: that is as much as `RemoteCall` allows to conclude.

### Startup

A process `p` goes through `main` and `build_state`. Only the key files are shared with
other processes, so that its steps are what it does to a file, and what it does between
two of them.

| phase | next | code |
|---|---|---|
| `loading` | the [[ca]] entry `next[p]` | `src/app.rs:24`, 104-118 |
| `reading` | its key file is read | 119 |
| `generating` | a CA is made, the file is created or truncated | 129, `write_ca_pem` |
| `writingCert`, `writingKey` | the two blocks of the file | `write_ca_pem` |
| `wiring` | the [[profile]] entry `next[p]`, at last the socket | `src/app.rs:43`, `src/main.rs:18` |
| `serving`, `ended` | | |

`std::fs::write` is a truncation followed by writes, so `CreateFile`, `WriteCert` and
`WriteKey` are three steps, and `Stop`, the process being killed, may come between any
two. Before `CreateFile` a process has been generating a key of 3072 bits for a while: that
another one writes the file meanwhile is the violation `BootstrapRace`. `Exists` takes
the answer of `Path::exists` to be true; that answers false as well for a file in a
directory that cannot be read, and then `CreateFile` cannot write it either. Entries of one id
replace one another in the map, as `HashMap::insert` does, and several entries may name
one file. `fate` is a history variable: where a process gave up (`refused` by `validate`, at the
`material` of a CA, at the `secret` of Intune, at the `validator` of a profile, or over
something `outside`: a file, the database, the network). It names the place only; what may
have been the reason there is said by `AcceptedConfigsAreWired`, and is read off the configuration. One
thing that the configuration alone decides is left by `validate` for `build_state` to find:
a certificate without a key, or a key without a certificate, beside a `key_file`. `has_source`
(`src/config.rs:73-77`) is content with the file, `inline_material` (`src/config.rs:85-91`)
refuses the half, and the server does not start. The test
`inline_material_requires_both_cert_and_key` wants the refusal, and no sentence of the repository
promises that `validate` comes first, so that this is a disclosed exception in the property and
not a finding.

There is no fairness in `Startup` and nothing is said of its progress: a start that does not
succeed ends the process.

### KeyStore

One reading of one text: a key file, a value of the configuration, or a value that is the
base64 of a text. `Material` is `material_to_bytes`, `Pem` is `as_pem_blocks`. The loop of
`pem_blocks` has a step for each line (`SkipLine`, `BeginBlock`, `TakeLine`, `EndBlock`), and
`Parse` is what `parse_certificate` and `parse_private_key` then find in the blocks; for
an inline store the two are given different values, and each is such a reading. An
object (a certificate, a key in one of three encodings) takes one line of base64, and
`whole` says whether it has been cut off; two objects in one block decode, unless
the first one's base64 is padded, and are then trailing data to the decoder. `Padded` is
a parameter, since padding depends on a length. A password opens every encrypted key or none.

`Startup` says of a file only whether both blocks are whole; that a file which is not
whole is refused or as good as whole is `HalfWrittenFilesAreRefused`.

### Abstractions

* Serials are fresh: `random_serial` draws 120 random bits or more, and no property
  is about collisions. A serial that a dropped request used is not used again. With a collision the
  second insert fails on the key, which is the failed insert of the model.
* That only an approved request is issued is the guard `Accepts` of `Issue`, translated from
  `validate`, and not a property: nothing in the design could take it away between its check and
  its use. What a lost or late answer of Intune may lead to is the subject of
  `ApprovalIsIntunes` and of `IntuneIsToldTheTruth`.
* Cryptography is symbolic (`ScepMessage`): no signature without the key, no collision of
  digests, no content without its key. A padding error and a wrong plaintext of a wrong key are both
  "nothing that anybody made". DER decodes or does not.
* A certificate is its issuer and serial in one name, its key identifier and its key; of
  the nonces of the server there is one, since nobody compares it.
* The clock moves in hours (the unit of the two lifetimes), at any step.
* SQL statements are atomic and linearisable, as SQLite and a single-node Postgres or
  MySQL make single-row statements.

## 3. Runs

Instances are as small as the question allows. Handlers run to an end, so that every
behaviour may stop once all requests are over: the runs say `CHECK_DEADLOCK FALSE`, and
`EveryRequestIsSettled`, `EveryHandlerEnds` and `EveryCallReturns` say that nothing stops before.
A start may end in a refusal, and a device need not read its answer.

| run | instance | properties |
|---|---|---|
| `EnrolmentThree` | 3 requests, 3 serials, 2 CAs, 3 messages with one transaction id; handlers and serials symmetric; 266 thousand states | `TypeOK`, `IssuedAuditHasCertificate`, `RecordedTransactionHasRow`, `DeliveredIsGood`, `IntuneIsToldTheTruth` |
| `EnrolmentTwo` | 2 requests, 2 serials, 18 messages of every kind, 2 transaction ids; no symmetry, since it checks liveness; 108 thousand states | `RowsPersist`, `EveryRequestIsSettled`, `ImplementsIssuance` |
| `Responders` | 1 OCSP request for one certificate twice or for two, 1 CRL request, 2 serials, 2 CAs of which one is asked, 2 revoking calls (symmetric) with 4 stamps (either time, none, one that cannot be written), 2 times; 2.2 million states | `TypeOK`, `GoodAsOfThisUpdate`, `CrlIsWholeOrAbsent`, `RespondersAgree`, `OneRevokerWins`, `RevocationIsFinal` |
| `Blapki` | 1 enrolment, accepted or not, at either of 2 CAs, 1 OCSP request, 1 CRL request, 1 revoking call with 2 stamps, 1 serial, 2 times, a pool of 1; 239 thousand states | `ConnectionsAreForStatements`, `DeliveredIsKnown`, `ImplementsEnrolment`, `ImplementsResponder`, `EveryHandlerEnds` |
| `Exchange` | 2 devices, 2 requests in all, 2 CAs with a profile each, one with dates that cannot be written, 21 orders, 2 draws of a serial; 864 thousand states | `TypeOK`, `RepliesAreUnderstood`, `EnrolledAsAsked`, `SignedRequestsOnly`, `AnswersRestOnThePublicPart`, `AnswersAreThoseOfScep`, `SerialsTravelWell` |
| `TokenRace` | 2 calls, 1 endpoint, lifetimes of -1, 2 and 6 minutes, a minute and a delay of one unit, times 0 to 2, instants up to 4; 576 thousand states | `TypeOK`, `CachedTokenIsLive`, `RequestsAreEquipped`, `ApprovalIsIntunes`, `EveryCallReturns`, `ImplementsRemoteCall` |
| `Restarts` | 2 processes that do not overlap, 2 key files, up to 2 [[ca]] entries, of one id or of two, and up to 2 [[profile]] entries of one name; 1.5 million states | `TypeOK`, `AcceptedConfigsAreWired`, `LastEntryIsServed`, `ServedCaIsPersisted`, `CaSurvivesRestarts` |
| `KeyFiles` | every text of up to 4 lines out of 8, two blocks one after the other with any line between them, DER of every kind, a CRL before a key, everything that may be left of a bundle; 3 sources, 3 passwords; 303 thousand states | `HalfWrittenFilesAreRefused`, `FirstOfEachDecides` |

Why the bounds are enough to be of interest: a race for one transaction id needs two
handlers, and a third can arrive after they have disturbed each other; three request
messages are one that is issued, one that is rejected and one whose verdict is
Intune's, on two CAs. A race inside an OCSP answer needs two entries and one
revocation; a disagreement between the responders needs one request of each kind, in
either order, a revocation and two times (before it and after it); with a second
revocation two calls compete for one row. With a pool of one every statement competes with every other, and one
connection that is not given back stops the server; one handler of each kind is enough for that,
and for a device to show the certificate that it was sent. The orders of `Exchange` are a plain
request and one for each respect in which a request may differ from it: every way to write
its recipients, a digest, cipher, type or content the server does not know, a key that is not RSA
or is too short, a name with a long serial, a transaction id that cannot be printed, a
renewal for a new key with three extension requests. Two requests are what it takes to mix
up two messages, to retry, and to compare two answers. Two calls of the Intune client meet in either cache in every order; a lifetime of -1 is one that the
code clamps and never hands out of its cache; one of 2 minutes, granted at 0, is good for the
cache until 1 and for its service until 2, and the clock reaches both, so that a cache that does not
take the minute off hands out a token at its very end; one of 6 minutes ends after the last
instant whenever it arrives. A key file that
a killed process has left half written is met by the next process, and one that is whole by
the next process or a second entry, so that two of each suffice; a block takes three lines, and two
blocks meet in five when the end of one is missing, in six when they are a bundle; the configurations of `Restarts`
are every single [[ca]] entry with each part inline, by an unset variable or absent, half of it
beside a key file among them, every two good ones, of one id or one file or neither, and every
profile, and two of one name that differ in their challenge, with every setting of
[intune]. The stamps of a revocation are one of each kind: a time that may be past, now or
to come, none, and one that cannot be written; `Blapki` has the first and the last. `MaxInstant` stands
for the end of the clock's range. The bounds in guards are `MaxTime` and `Delay`, both in the actions `Tick`, and
`MaxRequests` in `Send`; `PoolSize` is no bound but a parameter of the program.

Fairness. `Enrolment!Fairness` is weak fairness of the step of each handler that ends its
await, `IntuneClient!Fairness` likewise: tokio polls a future whose await is over, and every
await ends, in success or in an error. The second half is an assumption about the peers:
a database or an Intune that keeps a connection open and silent holds a handler for
ever, since the code sets no timeout (`src/intune/mod.rs:63`). Arrivals, hang-ups,
restarts, revocations and Intune's own steps are not fair. `Blapki!Fairness` is about a handler
that waits for a connection, works with one or does without: the pool hands out a connection
that is free, fairly among those that wait. It relies on no timeout, so that
`EveryHandlerEnds` is not true just because everyone gives up in the end. A revoking call
need not be made at all; one that has its connection ends. `Responder` and `Exchange` are
about safety and state no fairness; that responders end is part of `EveryHandlerEnds`.

`ImplementsIssuance` is the refinement: with `registered` the serials in the table,
`cert` the certificate of each request, `intune` what it was told and `device` what the
device has, every behaviour of the handlers is a behaviour of `Issuance!Spec`, fairness
included. `Issuance` allows to register a certificate only before Intune is told and
before the request is over, to tell Intune once, and to answer with what was decided
or not at all. `Issuance!Safety` is `Issuance!Spec` without its fairness, and `Issuance!Agreement`
what the three parties can rely on in it. `ImplementsRemoteCall` is the same for the Intune
client, as far as safety goes; that calls do not stay open is `EveryCallReturns`. `ImplementsEnrolment` and `ImplementsResponder` are refinements in the
other direction, of parts by the whole: with every row shown as it was inserted
(`Inserted`), what happens in `Blapki` is a behaviour of `Enrolment` without its fairness (a revocation is
invisible to it), and as it stands one of `Responder` (an insert of any request is an
`Enrol`). So what is true of the two parts is true of the whole. Each of the two is a
question where a step is not one of that part in the model of the whole. A statement of an enrolment is a step of `Enrolment`
conjoined with nothing of `Responder`, so that `ImplementsResponder` asks of every insert
whether the responders' own module allows it: a row of another status than `valid` refutes it (its
mutant). A revocation is a step of `Responder` conjoined with nothing of `Enrolment`, so that
`ImplementsEnrolment` asks whether the enrolment path can tell: an UPDATE that loses
a row, or gives it to another request, refutes it (its mutant deletes the row). For the steps that are conjoined
steps of the part, both hold by construction.

### Findings

Four runs expect a violation: each checks one sentence of the repository against what
the code does.

| run | sentence | what the code does |
|---|---|---|
| `AuditOverwrite` | `src/db/repo.rs:157`, "ignore if the transaction id already exists" | updates status and message type: a rejected retry turns an issued transaction into a failed one |
| `UnopenableReply` | `src/http/scep.rs:115-117`, "Every failure ... gets the same in-band badMessageCheck reply" | a transaction id that was readable as UTF8String but is not printable makes the reply fail: HTTP 500 |
| `NeverIssued` | `src/http/ocsp.rs:4-5`, "Certificates we never issued are reported `unknown`" | the issuer hashes of a CertID are not compared with the CA; only the serial counts |
| `BootstrapRace` | `src/app.rs:95-96`, "generate and persist a self-signed CA if a key file is configured but missing" | the file is looked for long before it is written and then truncated: of two processes that start at once, one serves a CA that is on no disk |

A certificate whose insert failed is delivered all the same, and OCSP answers `unknown` for
it. The code says so ("best effort; a certificate was issued regardless",
`src/http/scep.rs:166`), so this is modelled, not listed as a finding: `DeliveredIsGood`
is about certificates whose insert did not fail, and so is `DeliveredIsKnown`. The setting
`crl_lifetime_hours`, "How long a freshly generated CRL is valid, in hours."
(`src/config.rs:62`), is read by nothing: a CRL is valid for 24 hours (`CrlLifetime` in
`Responder`). GetCACaps names SHA-512 (`src/scep/protocol.rs:14`), which `verify_rsa` does not know
(`src/crypto/verify.rs:215`): one of the orders of `Exchange` is signed with it, and is answered
with HTTP 400, as the code has it. A single row with a `revoked_at` before 1970 or after 9999 leaves its CA
without a CRL until the row is repaired, where one that does not parse at all is given the current time: that is
the code of `build_crl` (`src/http/crl.rs:54-60`), no sentence speaks of it, and
`CrlIsWholeOrAbsent` says what is certain in either case, that no CRL with that row missing is
signed. A certificate that is revoked between the reading of the rows and the date is missing from a
CRL, by the order of the two in the code; the property therefore asks for what was revoked before the reading.

### Mutants

Every property of a passing run has a mutant in `PROJECT.json`: a definition of the
module with a plausible bug, which stands before that definition as its "mutated form", with
which TLC finds the property violated. They range from a column filled with the wrong
value (`IssuedRowStatus`) over swapped branches (`WrittenTxnsSwapped`), a row that is skipped
because its date cannot be written (`DateSkips`), a revocation that deletes the row
(`RevokeDeletes`), a map that keeps its first entry (`HaveFirst`), a connection kept
until the answer (`ReleasedAtAnswer`) and a recipient chosen by what unwraps
(`SelectedByUnwrapping`) to a failure path that tries again for ever (`AfterInsertErrorRetry`).

## 4. Proofs

TLAPS proves, for every number of requests, serials, profiles, transactions, entries,
revocations, devices and connections, and for every set of messages and orders:

* `EnrolmentProofs`: `TypesCorrect`, `AuditIsBacked`,
  `RecordsSurviveTheRace`, `Delivered`, `IntuneHearsTheTruth`, `RowsArePersistent`, that
  is, every safety property of the two passing runs; `Refinement`, that the
  enrolment path implements `Issuance!Safety`, the safety half of `ImplementsIssuance`, and
  `PartiesAgree`, that `Issuance!Agreement` therefore holds of it;
* `ResponderProofs`: `TypesCorrect`, `GoodIsTrue`, `CrlIsComplete`, `CrlAndOcspAgree`,
  `OneWins`, `RevokedStaysRevoked`, that is, every property of its passing run;
* `BlapkiProofs`: `TypesCorrect`, `PoolIsKept`, `DeliveredAreKnown`, `EnrolmentImplemented`,
  `ResponderImplemented`, that is, every safety property of its passing run, and, by the last two, `EnrolmentHolds`
  and `RespondersHold`: the invariants of the two components are invariants of the whole;
  `ServerKeepsItsPromise` and `ServerPartiesAgree`: the whole server implements
  `Issuance!Safety`, in the table as it stands, revocations included, and `Issuance!Agreement` holds of it;
* `ExchangeProofs`: `TypesCorrect`, `SignedOnly`, `Understood`, `AnswersMatchScep`,
  `PublicPartDecides`, `AskedFor`, `SerialsTravel`, that is, every property of its passing run;
* `IntuneClientProofs`: `TypesCorrect`, `TokensAreLive`, `Equipped`, `Approved`,
  `Refinement` (which is `ImplementsRemoteCall`), that is, every safety property of its passing
  run, and `OkMeansHeard`, that `RemoteCall!OkIsGranted` therefore holds of it;
* `KeyStoreProofs`: `TypesCorrect`, `FirstDecides`, `HalfWrittenRefused`, that
  is, every property of its passing run and its types, for texts of any length;
* `StartupProofs`: `TypesCorrect`, `Wiring`, and, if processes do not overlap, `Persisted`
  and `Survives`, that is, every property of its passing run but `LastEntryIsServed`, for every set of
  configurations and any number of starts and key files.

The assumptions are those named in the modules: rows and `NoRow`, times, `NoTime` and `Unwritable`,
messages and `NoReq`, serials and `NoSerial` are different things; every profile has a CA
and a mode; OCSP and CRL requests are different requests, a handler has one name, and the
pool has at least one connection; orders are of a known way, a transaction id or nonce
that can be written is there and decodes, days are natural numbers; a serial has at least one
byte, a byte at least four values, and the random bytes drawn for a serial are as many bytes; a minute is at least one unit
of the clock and at least `Delay`; an absent file, CA or profile is no file content, CA or
profile; the lines of a text are lines, and an error is no key pair. `Persisted` and `Survives` assume `~ Overlap`; the run `BootstrapRace` shows that they must.

The argument for enrolment. None of the properties is inductive: that a delivered
certificate is good depends on what the handler did three awaits earlier. `IInv` has
three parts. `Progress` says for each phase what the handler has established: who has
approved, whether there is a certificate, whether its row is in the table or its
insert failed, be it with the row written. `Tables` says that rows and certificates in flight correspond: serials are
unique among requests, a row is `IssuedRow` of the request that has its serial, an issued
transaction has a row. `Trail` says what a handler that has finished its audit, or is
between its two statements, has left in `txns`, and what Intune was told. That `found[r]`
may be stale is harmless because rows are never removed (`RowsPersist`), which is why
`Trail` can carry over another handler's step. Each step preserves each part by a case
split on the actions, with frame lemmas for handlers that do not move.

The argument for the refinement. Each party has its view of the state (`Registered`,
`IntuneView`, `DeviceView`), and each action of a handler is shown to change at most one
view, and that as one action of `Issuance` does: an insert that
writes is `Register`, `IntuneHears` is `TellIntune`, a reply is `Answer`, a hang-up or a restart is
`Abandon`; all else is a stutter. `IInv` does not suffice for it: Intune must have heard
nothing of a request when its certificate is made or registered, and this needs `Silence`, a second
invariant on top of `IInv`: an insert that failed belongs to a request that has a certificate
and is past its insert, and a notification of a failure names no serial.
`Agreement` is proved once, as an invariant of `Issuance`, and inherited.

For the whole server the refinement is had by composition: `EnrolmentImplemented` gives it in the
table as inserted, and what `Issuance` sees of a table, the serials that have a row,
is the same in the table as it stands, for a revocation adds and removes no row (`SameViews`, with
`Kept` as the invariant).

The argument for the responders. `started[q] <= clock`, and every entry read so far that
is `good` had no revocation before `started[q]`: a later revocation has a later
`revokedWhen`, because the clock only moves forward. The CRL part is the mirror
image: what is revoked before its rows are read is in the list, since no step makes a revoked
row valid again, and every row of the list is still the row in the table, since no step moves the
date of one. A list that was dated had no date that cannot be written, and nor then has the
table for what was revoked before. `RespondersAgree` combines the two through the clock.

The argument for the whole. Each step of `Blapki` is shown to be a step of `Enrolment` on
the table as inserted, and one of `Responder`, or to change nothing of theirs; the steps
that wait for the pool change nothing of either, and a timeout is the failure of a
statement that did not happen. The theorems of `EnrolmentProofs` and `ResponderProofs` are then used, as
instances of those modules, for the whole, and the former is read back from the inserted
table to the real one. `PoolIsKept` needs that a handler leaves its statement only by a step
that gives its connection back, `DeliveredAreKnown` that a certificate in `delivered` has a
row of that CA, which `Delivered` of `EnrolmentProofs` says at the time it is sent
and which no later step takes away.

The argument for the exchange. The invariant is a conjunction of what is under way.
`Sendings` says that every message in `sent` is the request of one device, of its one order
and of an attempt it has made; `UnderWay` that a message on its way has the signature of one of those, and the content of one of
those, which need not be the same. The lemmas `Merged` and `Genuine` are the
heart: a message that passes `parse_and_verify` has the attributes and the content of the
request its signature was made for, since the signature is over all attributes, and these
have the digest of the content. `Issuings` carries this over to certificates, `Exchanged` to
answers, `SerialsOfferedOnce` says that a serial is in one answer, `Answered` and `Held` that what is on its way to
a device, and what it has read, is such an answer. That a reply with the right nonce is of
the device's own order needs that a device numbers its attempts and keeps to one order.

The argument for serials. `Numbered`, inductive on its own, says that Intune is told
`SerialDecimal` of each certificate's serial and that no two certificates have one serial. The
rest is arithmetic. What bytes denote, `Value`, is a recursive function on the bytes read so far
(`Sums`). That it exists, is a number, is positive after a first byte other than zero, and
tells byte sequences of one length apart would each be an induction; here each follows from `UpTo`, a
set of numbers that contains 0 and with each number the next one up to N, which in turn is
shown by a least counterexample: the order of the natural numbers is well-founded
(`NatLessThanWellFounded`, `WFMin`), and these two facts have no operator as a parameter. The step is
`Digit`: x * Base + p and y * Base + q are equal for bytes p and q only if x = y and p = q. `Random`
says that what is drawn starts with a byte in 1 to `Half` - 1, so that DER neither cuts it nor puts a zero in
front, and the serial has exactly `SerialBytes` bytes in every form.

The argument for the Intune client. `CachedTokenIsLive` is not inductive, for a token that
is about to be cached may by then be old. The invariant is `Sound`, of tokens in the cache
and in futures alike: the code's end of a token is not after the service's, or it has
passed already. The second half is for lifetimes under a minute, which the code
stretches to a minute and takes off again. `Sound` survives the clock and any order of
insertion, because it is about one token and not about which is newer. For the other
properties `NetInv` and `HeldInv` say what a call has got in each phase, and `StoryInv`
that Intune hears of a call only while it is posting. With these the steps of a call are steps
of `RemoteCall`: `Judge` is `Hear`, since nothing was heard before, `PostReturns` and `Fails` are `Return`,
`HangUp` and `Restart` are `Drop`, and whatever happens to tokens and endpoints is not seen
(`Quiet`). `OkMeansHeard` also says of a notification that Ok means it was heard, which
`ApprovalIsIntunes` does not.

The argument for startup. `WiringInv` holds for overlapping processes as well: the entries
that a process has passed have given it their CAs and profiles, and what it is at lies
within a configuration that `Valid` has accepted, so that a missing CA or
[intune] section is never met in `build_state`. `FateInv` says of a process that gave up what is the
matter with the very entry it was at: from `HasSource` and the failure of
`inline_material` it follows that a value cannot be had or that half of the material stands beside
a key file. `FilesInv` needs that processes do not overlap
(`Alone`): a CA that anybody holds or ever held from a file is whole in that file
(`KeptInv`), a file that is complete holds a pair (`WholeInv`), and a process that is
writing finds what it has left there (`WritingInv`). The step that matters is
`CreateFile`: it destroys a file, but one from which no CA is held, since it was
absent when this process looked and nobody else has been there since.

The argument for the key store. `FirstOfEachDecides` says where blocks are without the loop:
a line begins one if every earlier line that begins one has an end in between
(`Starts`), and it goes to the first line that ends one (`Ends`). `LoopInv` ties the loop to
that: while no block is open, for every set of labels the first block read is the
first one before `at` (`Read`); while one is open, it began at some `s`, nothing has ended it
since, and `lines` is what lies between. `ReadOneMore` is the end of a block, kept or
dropped. `HalfWrittenRefused` then needs no loop any more: a line of a half written
bundle begins a block only where the bundle does, and holds a whole object only if it is
the bundle's own line.

`TypeOK` of `Blapki` and of `KeyStore` is proved and not checked by a run.

What is only model-checked: `EveryRequestIsSettled`, `EveryHandlerEnds` and
`EveryCallReturns`, which are liveness under fairness and out of the prover's reach, the fairness
half of `ImplementsIssuance`, and `LastEntryIsServed`.

## 5. Not modelled, and why

* The encodings (DER, PEM, base64) and the arithmetic of the cryptography, and the text of errors and
  logs: no state; `ScepMessage` has what they come to.
* That a key the operator provides belongs to the certificate beside it: the code does not
  check it, and `KeyStore` may come to two pairs.
* What becomes of calls when Intune's service moves away from the endpoint that the client has
  cached (`src/intune/mod.rs:155`): it is kept for the life of the process, and nothing in
  the repository promises more.
* The health endpoint, paths, query strings and the GET form of PKIOperation: no state, and no
  decision beyond the one to call a handler.
* The tests (`src/*_test.rs`, `src/roundtrip.rs`) and packaging: read as statements of intent,
  and as the description of a device.

## 6. Plan

Written so far, in this order: `Repo`, `Enrolment` with `Issuance`, `Responder`, `IntuneClient`,
`Startup`, each with its proofs; then `Scep`, `Authority`, `ScepMessage` and `Exchange`, `Blapki`,
and `KeyStore`, with theirs; last the refinements of `Issuance` and of `RemoteCall`, and serials. What
is left:

1. `Blapki` with two handlers of each kind and a pool of two, by symmetry or in a run of
   safety properties alone.
2. `Enrolment` with the calls of `RemoteCall` in the place of its own steps of Intune, so that
   what it assumes of the client is what the client is proved to keep.
3. A theorem for `LastEntryIsServed`, with the entries a process has passed as its invariant.
