---------------------------- MODULE IntuneClient ----------------------------
(***************************************************************************)
(* src/intune/mod.rs: concurrent calls of validate_request,                *)
(* success_notification and failure_notification, and the two caches they  *)
(* share, of access tokens and of the endpoint of the validation service.  *)
(*                                                                         *)
(* A call finds the endpoint (with a token for Graph, unless it is cached) *)
(* and posts to it (with a token for the Intune API).  Every request to a  *)
(* peer is an await: the peer may act on it and its answer may be lost,    *)
(* and other calls run meanwhile.  No guard of a cache lives across such   *)
(* an await, but the lock for writing a cache is itself awaited, so that   *)
(* what is written may be older than what it replaces.                     *)
(***************************************************************************)
EXTENDS Integers

CONSTANTS
  Calls,       \* calls of the three operations
  Endpoints,   \* endpoints that Graph may name
  Lifetimes,   \* values of expires_in that the token service returns
  Minute,      \* a minute, in units of the clock
  MaxInstant,  \* the latest moment an Instant can hold
  Delay,       \* bound: how long the answer with a token is under way
  MaxTime,     \* bound: the clock stops here
  NoLifetime,  \* expires_in is absent
  NoEndpoint,  \* the endpoint is not cached
  NoToken,     \* no token
  NoAnswer     \* the peer has not answered

ASSUME LifetimesAssumption == Lifetimes \subseteq Int \cup {NoLifetime}
ASSUME NoLifetimeAssumption == NoLifetime \notin Int
ASSUME MinuteAssumption == Minute \in Nat \ {0}
ASSUME MaxInstantAssumption == MaxInstant \in Nat
ASSUME DelayAssumption == Delay \in 0..Minute
ASSUME MaxTimeAssumption == MaxTime \in Nat

\* success_notification and failure_notification differ in the body they send.
Ops    == {"validate", "notify"}
Scopes == {"graph", "intune"}

VARIABLES
  clock,    \* the monotonic clock
  tokens,   \* the token cache
  uri,      \* the endpoint cache
  pc,       \* pc[c]: the await the call c is at
  op,       \* op[c]: what c was called for
  scope,    \* scope[c]: the audience of the token c needs
  token,    \* token[c]: the token c has
  where,    \* where[c]: the endpoint c has
  net,      \* net[c]: what the peer has answered, under way to c
  result,   \* result[c]: what c returned
  heard,    \* heard[c]: how often Intune has acted on a post of c (history)
  verdict   \* verdict[c]: the code it then answered (history; "other" before)

vars == <<clock, tokens, uri, pc, op, scope, token, where, net, result, heard, verdict>>
caches == <<tokens, uri>>
history == <<heard, verdict>>

Phases == {"idle",
           "endpoint",     \* validation_endpoint, before its cache
           "token",        \* token, before its cache
           "fetching",     \* token, the request for one
           "caching",      \* token, the lock for writing its cache
           "discovering",  \* validation_endpoint, the request to Graph
           "storing",      \* validation_endpoint, the lock for writing its cache
           "posting",      \* post_intune, the request to Intune
           "returned",
           "gone"}         \* the future was dropped, by its owner or in a panic

InFlight == Phases \ {"idle", "returned", "gone"}
Waiting  == {"fetching", "discovering", "posting"}   \* for a peer

\* "other" is any other code, or none.
Codes == {"Success", "other"}

\* until: when the token service lets the token expire; expires_at: when the
\* code takes it to.
Token == [scope : Scopes, until : Int, expires_at : Nat]

\* What the three peers answer.
Grant    == [at : Nat, expires_in : Lifetimes]
Location == [uri : Endpoints]
Verdict  == [code : Codes]

ASSUME NoEndpointAssumption == NoEndpoint \notin Endpoints
ASSUME NoTokenAssumption == NoToken \notin Token
ASSUME NoAnswerAssumption == NoAnswer \notin Grant \cup Location \cup Verdict

TypeOK ==
  /\ clock \in Nat
  /\ tokens \in [Scopes -> Token \cup {NoToken}]
  /\ uri \in Endpoints \cup {NoEndpoint}
  /\ pc \in [Calls -> Phases]
  /\ op \in [Calls -> Ops]
  /\ scope \in [Calls -> Scopes]
  /\ token \in [Calls -> Token \cup {NoToken}]
  /\ where \in [Calls -> Endpoints \cup {NoEndpoint}]
  /\ net \in [Calls -> Grant \cup Location \cup Verdict \cup {NoAnswer}]
  /\ result \in [Calls -> {"none", "ok", "error"}]
  /\ heard \in [Calls -> Nat]
  /\ verdict \in [Calls -> Codes]

Init ==
  /\ clock = 0
  /\ tokens = [s \in Scopes |-> NoToken]
  /\ uri = NoEndpoint
  /\ pc = [c \in Calls |-> "idle"]
  /\ op = [c \in Calls |-> "validate"]
  /\ scope = [c \in Calls |-> "graph"]
  /\ token = [c \in Calls |-> NoToken]
  /\ where = [c \in Calls |-> NoEndpoint]
  /\ net = [c \in Calls |-> NoAnswer]
  /\ result = [c \in Calls |-> "none"]
  /\ heard = [c \in Calls |-> 0]
  /\ verdict = [c \in Calls |-> "other"]

-----------------------------------------------------------------------------
(***************************************************************************)
(* What the operations have in common.                                     *)
(***************************************************************************)

Hour == 60 * Minute

\* What the token service means by an answer; without expires_in an hour.
Life(l) == IF l = NoLifetime THEN Hour ELSE l

\* What the calls C hold in their futures is gone.
Forget(C) ==
  /\ scope' = [c \in Calls |-> IF c \in C THEN "graph" ELSE scope[c]]
  /\ token' = [c \in Calls |-> IF c \in C THEN NoToken ELSE token[c]]
  /\ where' = [c \in Calls |-> IF c \in C THEN NoEndpoint ELSE where[c]]
  /\ net' = [c \in Calls |-> IF c \in C THEN NoAnswer ELSE net[c]]

\* The call goes on with the token it has.
AfterToken(c) == IF scope[c] = "graph" THEN "discovering" ELSE "posting"

-----------------------------------------------------------------------------
(***************************************************************************)
(* What a bug in one of the definitions below would make of it.  Nothing   *)
(* uses these forms: substituted for the definition each is named after,   *)
(* they show that the properties can fail.                                 *)
(***************************************************************************)

\* No lower bound.
TtlUnbounded(l) == IF l = NoLifetime THEN Hour ELSE l

\* Lifetimes above the lower bound are taken as they are.
ExpiresAtFull(l) ==
  clock + IF l = NoLifetime THEN Hour ELSE IF l > Minute THEN l ELSE 0

\* After a fetch the cache is read again.
AfterFetchReread(c) == "token"

\* One slot for the tokens of both audiences.
CachedTokensOne(c) == [s \in Scopes |-> token[c]]

\* A post that failed is tried again.
AfterFailureRetry(c) == IF pc[c] = "posting" THEN "endpoint" ELSE "returned"

\* The code is read of no answer.
OutcomeUnread(c) == "ok"

-----------------------------------------------------------------------------
(***************************************************************************)
(* validation_endpoint.                                                    *)
(***************************************************************************)

Call(c) ==
  /\ pc[c] = "idle"
  /\ \E o \in Ops : op' = [op EXCEPT ![c] = o]
  /\ pc' = [pc EXCEPT ![c] = "endpoint"]
  /\ UNCHANGED <<clock, caches, scope, token, where, net, result, history>>

\* The endpoint is taken from the cache, or Graph has to be asked.
ReadUri(c) ==
  /\ pc[c] = "endpoint"
  /\ where' = [where EXCEPT ![c] = uri]
  /\ scope' = [scope EXCEPT ![c] = IF uri = NoEndpoint THEN "graph" ELSE "intune"]
  /\ pc' = [pc EXCEPT ![c] = "token"]
  /\ UNCHANGED <<clock, caches, op, token, net, result, history>>

\* Graph answers, now with one endpoint and now with another.
Locate(c) ==
  /\ pc[c] = "discovering"
  /\ net[c] = NoAnswer
  /\ \E u \in Endpoints : net' = [net EXCEPT ![c] = [uri |-> u]]
  /\ UNCHANGED <<clock, caches, pc, op, scope, token, where, result, history>>

EndpointArrives(c) ==
  /\ pc[c] = "discovering"
  /\ net[c] # NoAnswer
  /\ where' = [where EXCEPT ![c] = net[c].uri]
  /\ token' = [token EXCEPT ![c] = NoToken]
  /\ net' = [net EXCEPT ![c] = NoAnswer]
  /\ pc' = [pc EXCEPT ![c] = "storing"]
  /\ UNCHANGED <<clock, caches, op, scope, result, history>>

\* The lock is there: whatever is cached by now is replaced, and the call
\* goes on to post_intune.
StoreEndpoint(c) ==
  /\ pc[c] = "storing"
  /\ uri' = where[c]
  /\ scope' = [scope EXCEPT ![c] = "intune"]
  /\ pc' = [pc EXCEPT ![c] = "token"]
  /\ UNCHANGED <<clock, tokens, op, token, where, net, result, history>>

-----------------------------------------------------------------------------
(***************************************************************************)
(* token.                                                                  *)
(***************************************************************************)

\* expires_in.unwrap_or(3600).max(60).
Ttl(l) == IF l = NoLifetime THEN Hour ELSE IF l > Minute THEN l ELSE Minute

\* Refresh a minute early.
ExpiresAt(l) == clock + Ttl(l) - Minute

\* There is a token in the cache that the code takes to be good.
Cached(s) == tokens[s] # NoToken /\ tokens[s].expires_at > clock

FindToken(c) ==
  /\ pc[c] = "token"
  /\ Cached(scope[c])
  /\ token' = [token EXCEPT ![c] = tokens[scope[c]]]
  /\ pc' = [pc EXCEPT ![c] = AfterToken(c)]
  /\ UNCHANGED <<clock, caches, op, scope, where, net, result, history>>

MissToken(c) ==
  /\ pc[c] = "token"
  /\ ~ Cached(scope[c])
  /\ pc' = [pc EXCEPT ![c] = "fetching"]
  /\ UNCHANGED <<clock, caches, op, scope, token, where, net, result, history>>

\* The token service grants a token, from now on.
GrantToken(c) ==
  /\ pc[c] = "fetching"
  /\ net[c] = NoAnswer
  /\ \E l \in Lifetimes : net' = [net EXCEPT ![c] = [at |-> clock, expires_in |-> l]]
  /\ UNCHANGED <<clock, caches, pc, op, scope, token, where, result, history>>

\* The lifetime counts from the arrival of the answer.
TokenArrives(c) ==
  /\ pc[c] = "fetching"
  /\ net[c] # NoAnswer
  /\ ExpiresAt(net[c].expires_in) <= MaxInstant
  /\ token' = [token EXCEPT ![c] = [scope |-> scope[c],
                                    until |-> net[c].at + Life(net[c].expires_in),
                                    expires_at |-> ExpiresAt(net[c].expires_in)]]
  /\ net' = [net EXCEPT ![c] = NoAnswer]
  /\ pc' = [pc EXCEPT ![c] = "caching"]
  /\ UNCHANGED <<clock, caches, op, scope, where, result, history>>

\* No Instant is as late as that: the addition panics, which ends the handler
\* that called and nothing else, as no lock is held.
TokenOverflows(c) ==
  /\ pc[c] = "fetching"
  /\ net[c] # NoAnswer
  /\ ExpiresAt(net[c].expires_in) > MaxInstant
  /\ pc' = [pc EXCEPT ![c] = "gone"]
  /\ Forget({c})
  /\ UNCHANGED <<clock, caches, op, result, history>>

CachedTokens(c) == [tokens EXCEPT ![scope[c]] = token[c]]

AfterFetch(c) == AfterToken(c)

\* The lock is there: the token replaces what is cached, be that newer, and
\* is used in any case.
CacheToken(c) ==
  /\ pc[c] = "caching"
  /\ tokens' = CachedTokens(c)
  /\ pc' = [pc EXCEPT ![c] = AfterFetch(c)]
  /\ UNCHANGED <<clock, uri, op, scope, token, where, net, result, history>>

-----------------------------------------------------------------------------
(***************************************************************************)
(* post_intune, and what the three operations make of its answer.          *)
(***************************************************************************)

\* A notification may be answered with any JSON, of which no code is read.
Answers(c) == IF op[c] = "validate" THEN Codes ELSE {"other"}

\* Intune acts on the request and answers it.
Judge(c) ==
  /\ pc[c] = "posting"
  /\ net[c] = NoAnswer
  /\ \E k \in Answers(c) : /\ net' = [net EXCEPT ![c] = [code |-> k]]
                           /\ verdict' = [verdict EXCEPT ![c] = k]
  /\ heard' = [heard EXCEPT ![c] = @ + 1]
  /\ UNCHANGED <<clock, caches, pc, op, scope, token, where, result>>

\* Only validate_request looks at the code.
Outcome(c) ==
  IF op[c] = "validate" /\ net[c].code # "Success" THEN "error" ELSE "ok"

PostReturns(c) ==
  /\ pc[c] = "posting"
  /\ net[c] # NoAnswer
  /\ result' = [result EXCEPT ![c] = Outcome(c)]
  /\ pc' = [pc EXCEPT ![c] = "returned"]
  /\ Forget({c})
  /\ UNCHANGED <<clock, caches, op, history>>

-----------------------------------------------------------------------------
(***************************************************************************)
(* Failures and interruptions.                                             *)
(***************************************************************************)

AfterFailure(c) == "returned"

\* A request fails, before or after the peer acted on it, with an HTTP status
\* or an answer that cannot be read: the whole call returns the error.  A peer
\* that acts later still is for the call one that acted just before.
Fails(c) ==
  /\ pc[c] \in Waiting
  /\ result' = [result EXCEPT ![c] = "error"]
  /\ pc' = [pc EXCEPT ![c] = AfterFailure(c)]
  /\ Forget({c})
  /\ UNCHANGED <<clock, caches, op, history>>

\* The handler that called is dropped.
HangUp(c) ==
  /\ pc[c] \in InFlight
  /\ pc' = [pc EXCEPT ![c] = "gone"]
  /\ Forget({c})
  /\ UNCHANGED <<clock, caches, op, result, history>>

\* The caches live in memory.
Restart ==
  /\ \E c \in Calls : pc[c] \in InFlight
  /\ pc' = [c \in Calls |-> IF pc[c] \in InFlight THEN "gone" ELSE pc[c]]
  /\ Forget(Calls)
  /\ tokens' = [s \in Scopes |-> NoToken]
  /\ uri' = NoEndpoint
  /\ UNCHANGED <<clock, op, result, history>>

\* An answer of the token service is under way for Delay at most.
Tick ==
  /\ clock < MaxTime
  /\ \A c \in Calls : (pc[c] = "fetching" /\ net[c] # NoAnswer) => clock < net[c].at + Delay
  /\ clock' = clock + 1
  /\ UNCHANGED <<caches, pc, op, scope, token, where, net, result, history>>

-----------------------------------------------------------------------------
\* What a call does once its await is over.
Handle(c) ==
  \/ ReadUri(c) \/ EndpointArrives(c) \/ StoreEndpoint(c)
  \/ FindToken(c) \/ MissToken(c) \/ TokenArrives(c) \/ TokenOverflows(c) \/ CacheToken(c)
  \/ PostReturns(c) \/ Fails(c)

Peers(c) == Locate(c) \/ GrantToken(c) \/ Judge(c)

Next ==
  \/ \E c \in Calls : Call(c) \/ Handle(c) \/ Peers(c) \/ HangUp(c)
  \/ Restart
  \/ Tick

\* Every request to a peer is answered or fails at last, every lock is
\* given, and the runtime polls the future it wakes.
Fairness == \A c \in Calls : WF_vars(Handle(c))

Spec == Init /\ [][Next]_vars /\ Fairness

-----------------------------------------------------------------------------
(***************************************************************************)
(* Properties.                                                             *)
(***************************************************************************)

\* A token that the cache would hand out has not expired: the minute that
\* token takes off covers the time its answer was under way, in whatever
\* order concurrent calls fetch, replace and read it, and whatever lifetime
\* the service announces ("Refresh a minute early").
CachedTokenIsLive ==
  \A s \in Scopes : Cached(s) => clock < tokens[s].until

\* Every request carries a token for its audience, and Intune is asked at an
\* endpoint that Graph named (post_intune, validation_endpoint).
RequestsAreEquipped ==
  \A c \in Calls :
    /\ pc[c] = "discovering" => token[c] # NoToken /\ token[c].scope = "graph"
    /\ pc[c] = "posting" => /\ token[c] # NoToken /\ token[c].scope = "intune"
                            /\ where[c] # NoEndpoint

\* validate_request is Ok only if Intune approved this very call: "any other
\* outcome is an error" (validate_request).
ApprovalIsIntunes ==
  \A c \in Calls : (op[c] = "validate" /\ result[c] = "ok") =>
    heard[c] = 1 /\ verdict[c] = "Success"

\* What the caller of an operation sees of it.
CallerSees(c) ==
  CASE pc[c] = "idle" -> "none"
    [] pc[c] \in InFlight -> "open"
    [] pc[c] = "returned" -> result[c]
    [] pc[c] = "gone" -> "dropped"

Abstract == INSTANCE RemoteCall WITH stage <- [c \in Calls |-> CallerSees(c)]

\* Every behaviour of the client is one that RemoteCall allows: no failure of
\* a peer, no other call and no cache makes it send a validation or a
\* notification to Intune twice, nor return Ok for one that Intune has not
\* heard or, asked to validate, not approved (validate_request,
\* success_notification, failure_notification as a whole).
ImplementsRemoteCall == Abstract!Spec

\* Every call returns or is dropped, however short the tokens' lifetimes are
\* (token hands out what it fetched, whether or not the cache would).
EveryCallReturns ==
  \A c \in Calls : pc[c] \in InFlight ~> pc[c] \in {"returned", "gone"}
=============================================================================
