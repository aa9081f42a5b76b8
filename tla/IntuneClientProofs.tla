------------------------- MODULE IntuneClientProofs -------------------------
(***************************************************************************)
(* Proofs about IntuneClient, for any number of concurrent calls and any   *)
(* lifetimes of tokens.                                                    *)
(***************************************************************************)
EXTENDS IntuneClient, TLAPS

-----------------------------------------------------------------------------
(***************************************************************************)
(* The inductive invariant.                                                *)
(***************************************************************************)

\* The token expires for the code no later than for the service, or has
\* expired for the code already.
Sound(x) == x.expires_at <= x.until \/ x.expires_at <= clock

CacheInv ==
  \A s \in Scopes : tokens[s] # NoToken => tokens[s].scope = s /\ Sound(tokens[s])

\* What may be under way to a call.
NetInv(c) ==
  /\ pc[c] \notin Waiting => net[c] = NoAnswer
  /\ net[c] # NoAnswer =>
       /\ pc[c] = "fetching" => /\ net[c] \in Grant
                                /\ net[c].at <= clock /\ clock <= net[c].at + Delay
       /\ pc[c] = "discovering" => net[c] \in Location
       /\ pc[c] = "posting" => net[c] \in Verdict /\ heard[c] = 1 /\ verdict[c] = net[c].code

\* What a call has got together.
HeldInv(c) ==
  /\ pc[c] = "caching" => token[c] \in Token /\ token[c].scope = scope[c] /\ Sound(token[c])
  /\ pc[c] = "discovering" => token[c] \in Token /\ token[c].scope = "graph"
  /\ pc[c] = "posting" => token[c] \in Token /\ token[c].scope = "intune" /\ where[c] \in Endpoints
  /\ (pc[c] \in {"token", "fetching", "caching"} /\ scope[c] = "intune") => where[c] \in Endpoints
  /\ pc[c] = "storing" => where[c] \in Endpoints

\* What a call has told and been told.
StoryInv(c) ==
  /\ pc[c] \notin {"posting", "returned", "gone"} => heard[c] = 0
  /\ (pc[c] = "posting" /\ net[c] = NoAnswer) => heard[c] = 0
  /\ heard[c] <= 1
  /\ result[c] # "none" => pc[c] = "returned"
  /\ (op[c] = "validate" /\ result[c] = "ok") => heard[c] = 1 /\ verdict[c] = "Success"

CallInv(c) == NetInv(c) /\ HeldInv(c) /\ StoryInv(c)

IInv == TypeOK /\ CacheInv /\ \A c \in Calls : CallInv(c)

LEMMA InvInit == Init => IInv
  BY MaxTimeAssumption DEF Init, IInv, TypeOK, CacheInv, CallInv, NetInv, HeldInv, StoryInv, Phases, Ops, Scopes,
         Codes, Waiting

-----------------------------------------------------------------------------
(***************************************************************************)
(* Lifetimes.                                                              *)
(***************************************************************************)

\* The minute that is taken off covers the time the answer was under way.
LEMMA Lifetime ==
  ASSUME NEW l \in Lifetimes, NEW at \in Nat, clock \in Nat, clock <= at + Delay
  PROVE  /\ ExpiresAt(l) \in Nat
         /\ at + Life(l) \in Int
         /\ ExpiresAt(l) <= at + Life(l) \/ ExpiresAt(l) <= clock
<1>1. /\ Minute \in Nat /\ Delay \in Nat /\ Delay <= Minute /\ 60 * Minute \in Nat
      /\ 60 * Minute >= Minute /\ (l # NoLifetime => l \in Int)
  BY MinuteAssumption, DelayAssumption, LifetimesAssumption
<1> QED
  BY <1>1 DEF ExpiresAt, Ttl, Life, Hour

\* Time makes no token worse.
LEMMA SoundStays ==
  ASSUME NEW x \in Token, clock \in Nat, clock' \in Nat, clock <= clock', Sound(x)
  PROVE  (x.expires_at <= x.until \/ x.expires_at <= clock')
  BY DEF Sound, Token

-----------------------------------------------------------------------------
(***************************************************************************)
(* Steps.                                                                  *)
(***************************************************************************)

LEMMA TypeStep == IInv /\ [Next]_vars => TypeOK'
<1> SUFFICES ASSUME IInv, [Next]_vars PROVE TypeOK'
  OBVIOUS
<1>0. /\ TypeOK
      /\ \A c \in Calls : NetInv(c) /\ HeldInv(c)
  BY DEF IInv, CallInv
<1>1. ASSUME NEW c \in Calls, Call(c) PROVE TypeOK'
  BY <1>0, <1>1 DEF TypeOK, Call, caches, history, Phases
<1>2. ASSUME NEW c \in Calls, ReadUri(c) PROVE TypeOK'
  BY <1>0, <1>2 DEF TypeOK, ReadUri, caches, history, Phases, Scopes
<1>3. ASSUME NEW c \in Calls, EndpointArrives(c) PROVE TypeOK'
  <2>1. net[c].uri \in Endpoints
    BY <1>0, <1>3 DEF NetInv, EndpointArrives, Location
  <2> QED
    BY <1>0, <1>3, <2>1 DEF TypeOK, EndpointArrives, caches, history, Phases
<1>4. ASSUME NEW c \in Calls, StoreEndpoint(c) PROVE TypeOK'
  BY <1>0, <1>4 DEF TypeOK, StoreEndpoint, caches, history, Phases, Scopes
<1>5. ASSUME NEW c \in Calls, FindToken(c) PROVE TypeOK'
  BY <1>0, <1>5 DEF TypeOK, FindToken, AfterToken, caches, history, Phases
<1>6. ASSUME NEW c \in Calls, MissToken(c) PROVE TypeOK'
  BY <1>0, <1>6 DEF TypeOK, MissToken, caches, history, Phases
<1>7. ASSUME NEW c \in Calls, TokenArrives(c) PROVE TypeOK'
  <2>1. /\ net[c].at \in Nat /\ net[c].expires_in \in Lifetimes
        /\ clock <= net[c].at + Delay /\ clock \in Nat
    BY <1>0, <1>7 DEF NetInv, TokenArrives, Grant, TypeOK
  <2> DEFINE x == [scope |-> scope[c], until |-> net[c].at + Life(net[c].expires_in),
                   expires_at |-> ExpiresAt(net[c].expires_in)]
  <2>2. x \in Token
    BY <1>0, <2>1, Lifetime DEF Token, TypeOK
  <2>3. token' = [token EXCEPT ![c] = x]
    BY <1>7 DEF TokenArrives
  <2> HIDE DEF x
  <2> QED
    BY <1>0, <1>7, <2>2, <2>3 DEF TypeOK, TokenArrives, caches, history, Phases
<1>8. ASSUME NEW c \in Calls, CacheToken(c) PROVE TypeOK'
  BY <1>0, <1>8 DEF TypeOK, CacheToken, CachedTokens, AfterFetch, AfterToken, history, Phases
<1>9. ASSUME NEW c \in Calls, PostReturns(c) PROVE TypeOK'
  BY <1>0, <1>9 DEF TypeOK, PostReturns, Forget, Outcome, Scopes, caches, history, Phases
<1>10. ASSUME NEW c \in Calls, Fails(c) PROVE TypeOK'
  BY <1>0, <1>10 DEF TypeOK, Fails, AfterFailure, Forget, Scopes, caches, history, Phases
<1>11. ASSUME NEW c \in Calls, Locate(c) PROVE TypeOK'
  BY <1>0, <1>11 DEF TypeOK, Locate, Location, caches, history
<1>12. ASSUME NEW c \in Calls, GrantToken(c) PROVE TypeOK'
  BY <1>0, <1>12 DEF TypeOK, GrantToken, Grant, caches, history
<1>13. ASSUME NEW c \in Calls, Judge(c) PROVE TypeOK'
  BY <1>0, <1>13 DEF TypeOK, Judge, Answers, Codes, Verdict, caches
<1>14. ASSUME NEW c \in Calls, HangUp(c) PROVE TypeOK'
  BY <1>0, <1>14 DEF TypeOK, HangUp, Forget, Scopes, caches, history, Phases
<1>15. CASE Restart
  BY <1>0, <1>15 DEF TypeOK, Restart, Forget, Scopes, history, Phases, InFlight
<1>16. CASE Tick
  BY <1>0, <1>16 DEF TypeOK, Tick, caches, history
<1>17. CASE UNCHANGED vars
  BY <1>0, <1>17 DEF TypeOK, vars
<1>18. ASSUME NEW c \in Calls, TokenOverflows(c) PROVE TypeOK'
  BY <1>0, <1>18 DEF TypeOK, TokenOverflows, Forget, Scopes, caches, history, Phases
<1> QED
  BY <1>1, <1>2, <1>3, <1>4, <1>5, <1>6, <1>7, <1>8, <1>9, <1>10, <1>11, <1>12, <1>13, <1>14,
     <1>15, <1>16, <1>17, <1>18 DEF Next, Handle, Peers

\* A call that a step leaves where it is.
LEMMA CallFrame ==
  ASSUME TypeOK, NEW c \in Calls, CallInv(c), clock' = clock,
         pc'[c] = pc[c], op'[c] = op[c], scope'[c] = scope[c], token'[c] = token[c],
         where'[c] = where[c], net'[c] = net[c], result'[c] = result[c],
         heard'[c] = heard[c], verdict'[c] = verdict[c]
  PROVE  CallInv(c)'
  BY DEF CallInv, NetInv, HeldInv, StoryInv, Sound

\* A step that concerns at most the call c is right if it is right for c.
LEMMA OneCall ==
  ASSUME IInv, [Next]_vars, NEW c \in Calls, clock' = clock, CallInv(c)',
         \A q \in Calls \ {c} :
           /\ pc'[q] = pc[q] /\ op'[q] = op[q] /\ scope'[q] = scope[q] /\ token'[q] = token[q]
           /\ where'[q] = where[q] /\ net'[q] = net[q] /\ result'[q] = result[q]
           /\ heard'[q] = heard[q] /\ verdict'[q] = verdict[q]
  PROVE  \A q \in Calls : CallInv(q)'
  BY CallFrame DEF IInv

\* The parts of a call that its own steps write.
LEMMA OwnSteps ==
  ASSUME TypeOK, NEW c \in Calls, Call(c) \/ Handle(c) \/ Peers(c) \/ HangUp(c)
  PROVE  /\ clock' = clock
         /\ \A q \in Calls \ {c} :
              /\ pc'[q] = pc[q] /\ op'[q] = op[q] /\ scope'[q] = scope[q] /\ token'[q] = token[q]
              /\ where'[q] = where[q] /\ net'[q] = net[q] /\ result'[q] = result[q]
              /\ heard'[q] = heard[q] /\ verdict'[q] = verdict[q]
<1>1. CASE Call(c) \/ Peers(c) \/ HangUp(c)
  BY <1>1 DEF TypeOK, Call, Peers, Locate, GrantToken, Judge, HangUp, Forget, caches, history
<1>2. CASE ReadUri(c) \/ EndpointArrives(c) \/ StoreEndpoint(c) \/ FindToken(c) \/ MissToken(c)
  BY <1>2 DEF TypeOK, ReadUri, EndpointArrives, StoreEndpoint, FindToken, MissToken, caches, history
<1>3. CASE TokenArrives(c) \/ TokenOverflows(c) \/ CacheToken(c) \/ PostReturns(c) \/ Fails(c)
  BY <1>3 DEF TypeOK, TokenArrives, TokenOverflows, CacheToken, PostReturns, Fails, Forget, caches, history
<1> QED
  BY <1>1, <1>2, <1>3 DEF Handle

LEMMA OwnInv ==
  ASSUME IInv, [Next]_vars, NEW c \in Calls, Call(c) \/ Handle(c) \/ Peers(c) \/ HangUp(c)
  PROVE  CallInv(c)'
<1>0. /\ TypeOK /\ CacheInv /\ NetInv(c) /\ HeldInv(c) /\ StoryInv(c)
      /\ clock' = clock /\ clock \in Nat
  BY OwnSteps DEF IInv, CallInv, TypeOK
<1>1. CASE Call(c)
  BY <1>0, <1>1 DEF Call, TypeOK, CallInv, NetInv, HeldInv, StoryInv, Waiting, Ops, caches, history
<1>2. CASE ReadUri(c)
  BY <1>0, <1>2 DEF ReadUri, TypeOK, CallInv, NetInv, HeldInv, StoryInv, Waiting, caches, history
<1>3. CASE EndpointArrives(c)
  <2>1. net[c].uri \in Endpoints
    BY <1>0, <1>3 DEF NetInv, EndpointArrives, Location
  <2> QED
    BY <1>0, <1>3, <2>1 DEF EndpointArrives, TypeOK, CallInv, NetInv, HeldInv, StoryInv, Waiting,
       caches, history
<1>4. CASE StoreEndpoint(c)
  BY <1>0, <1>4 DEF StoreEndpoint, TypeOK, CallInv, NetInv, HeldInv, StoryInv, Waiting, history
<1>5. CASE FindToken(c)
  <2>1. tokens[scope[c]] \in Token /\ tokens[scope[c]].scope = scope[c]
    BY <1>0, <1>5 DEF FindToken, Cached, TypeOK, CacheInv
  <2>2. token'[c] = tokens[scope[c]] /\ pc'[c] = AfterToken(c) /\ scope'[c] = scope[c]
        /\ net'[c] = NoAnswer
    BY <1>0, <1>5 DEF FindToken, TypeOK, NetInv, Waiting
  <2>3. scope[c] \in {"graph", "intune"}
    BY <1>0 DEF TypeOK, Scopes
  <2>4. NetInv(c)'
    BY <2>2 DEF NetInv
  <2>5. HeldInv(c)'
    BY <1>0, <1>5, <2>1, <2>2, <2>3 DEF FindToken, HeldInv, AfterToken
  <2>6. StoryInv(c)'
    BY <1>0, <1>5, <2>2, <2>3 DEF FindToken, StoryInv, AfterToken, history
  <2> QED
    BY <2>4, <2>5, <2>6 DEF CallInv
<1>6. CASE MissToken(c)
  BY <1>0, <1>6 DEF MissToken, TypeOK, CallInv, NetInv, HeldInv, StoryInv, Waiting, caches, history
<1>7. CASE TokenArrives(c)
  <2>1. /\ net[c].at \in Nat /\ net[c].expires_in \in Lifetimes /\ clock <= net[c].at + Delay
    BY <1>0, <1>7 DEF NetInv, TokenArrives, Grant
  <2> DEFINE x == [scope |-> scope[c], until |-> net[c].at + Life(net[c].expires_in),
                   expires_at |-> ExpiresAt(net[c].expires_in)]
  <2>2. x \in Token /\ x.scope = scope[c] /\ Sound(x)
    BY <1>0, <2>1, Lifetime DEF Token, TypeOK, Sound
  <2>3. token'[c] = x /\ pc'[c] = "caching" /\ net'[c] = NoAnswer /\ scope'[c] = scope[c]
    BY <1>0, <1>7 DEF TokenArrives, TypeOK
  <2> HIDE DEF x
  <2>4. HeldInv(c)'
    BY <1>0, <1>7, <2>2, <2>3 DEF TokenArrives, HeldInv, Sound
  <2> QED
    BY <1>0, <1>7, <2>3, <2>4 DEF TokenArrives, CallInv, NetInv, StoryInv, history
<1>8. CASE CacheToken(c)
  <2>1. /\ token'[c] = token[c] /\ pc'[c] = AfterToken(c) /\ scope'[c] = scope[c]
        /\ net'[c] = NoAnswer /\ where'[c] = where[c] /\ scope[c] \in {"graph", "intune"}
    BY <1>0, <1>8 DEF CacheToken, AfterFetch, TypeOK, NetInv, Waiting, Scopes
  <2>2. NetInv(c)'
    BY <2>1 DEF NetInv
  <2>3. HeldInv(c)'
    BY <1>0, <1>8, <2>1 DEF CacheToken, HeldInv, AfterToken
  <2>4. StoryInv(c)'
    BY <1>0, <1>8, <2>1 DEF CacheToken, StoryInv, AfterToken, history
  <2> QED
    BY <2>2, <2>3, <2>4 DEF CallInv
<1>9. CASE PostReturns(c)
  BY <1>0, <1>9 DEF PostReturns, Forget, Outcome, TypeOK, CallInv, NetInv, HeldInv, StoryInv,
     Waiting, caches, history
<1>10. CASE Fails(c)
  BY <1>0, <1>10 DEF Fails, AfterFailure, Forget, TypeOK, CallInv, NetInv, HeldInv, StoryInv,
     Waiting, caches, history
<1>11. CASE Locate(c)
  BY <1>0, <1>11 DEF Locate, Location, TypeOK, CallInv, NetInv, HeldInv, StoryInv, Waiting,
     caches, history
<1>12. CASE GrantToken(c)
  <2>1. net'[c] \in Grant /\ net'[c].at = clock /\ clock <= clock + Delay
    BY <1>0, <1>12, DelayAssumption, MinuteAssumption DEF GrantToken, Grant, TypeOK
  <2> QED
    BY <1>0, <1>12, <2>1 DEF GrantToken, CallInv, NetInv, HeldInv, StoryInv, Sound, Waiting, caches,
       history
<1>13. CASE Judge(c)
  <2>1. PICK k \in Answers(c) : /\ net' = [net EXCEPT ![c] = [code |-> k]]
                                /\ verdict' = [verdict EXCEPT ![c] = k]
    BY <1>13 DEF Judge
  <2>2. k \in Codes
    BY <2>1 DEF Answers, Codes
  <2>3. net'[c] \in Verdict /\ verdict'[c] = net'[c].code /\ heard'[c] = 1
    BY <1>0, <1>13, <2>1, <2>2 DEF Judge, Verdict, TypeOK, StoryInv
  <2>4. /\ pc[c] = "posting" /\ pc'[c] = "posting" /\ result[c] = "none" /\ result'[c] = "none"
        /\ UNCHANGED <<token, where, scope, op>>
    BY <1>0, <1>13 DEF Judge, StoryInv
  <2>5. NetInv(c)'
    BY <2>3, <2>4 DEF NetInv, Waiting
  <2>6. HeldInv(c)'
    BY <1>0, <2>4 DEF HeldInv
  <2>7. StoryInv(c)'
    BY <2>3, <2>4, NoAnswerAssumption DEF StoryInv
  <2> QED
    BY <2>5, <2>6, <2>7 DEF CallInv
<1>14. CASE HangUp(c) \/ TokenOverflows(c)
  BY <1>0, <1>14 DEF HangUp, TokenOverflows, Forget, InFlight, TypeOK, CallInv, NetInv, HeldInv,
     StoryInv, Waiting, Phases, caches, history
<1> QED
  BY <1>1, <1>2, <1>3, <1>4, <1>5, <1>6, <1>7, <1>8, <1>9, <1>10, <1>11, <1>12, <1>13, <1>14
     DEF Handle, Peers

LEMMA CallsStep == IInv /\ [Next]_vars => \A c \in Calls : CallInv(c)'
<1> SUFFICES ASSUME IInv, [Next]_vars PROVE \A c \in Calls : CallInv(c)'
  OBVIOUS
<1>0. TypeOK /\ \A c \in Calls : CallInv(c)
  BY DEF IInv
<1>1. ASSUME NEW c \in Calls, Call(c) \/ Handle(c) \/ Peers(c) \/ HangUp(c)
      PROVE  \A q \in Calls : CallInv(q)'
  <2>1. CallInv(c)'
    BY <1>1, OwnInv
  <2> QED
    BY <1>0, <1>1, <2>1, OwnSteps, OneCall
<1>2. CASE Restart
  <2> SUFFICES ASSUME NEW c \in Calls PROVE CallInv(c)'
    OBVIOUS
  <2> QED
    BY <1>0, <1>2 DEF Restart, Forget, InFlight, TypeOK, CallInv, NetInv, HeldInv, StoryInv,
       Waiting, Phases, history
<1>3. CASE Tick
  <2> SUFFICES ASSUME NEW c \in Calls PROVE CallInv(c)'
    OBVIOUS
  <2>1. /\ UNCHANGED <<pc, op, scope, token, where, net, result, heard, verdict>>
        /\ clock \in Nat /\ clock' = clock + 1 /\ NetInv(c) /\ HeldInv(c) /\ StoryInv(c)
    BY <1>0, <1>3 DEF Tick, TypeOK, CallInv, history
  <2>2. NetInv(c)'
    <3>1. CASE pc[c] = "fetching" /\ net[c] # NoAnswer
      <4>1. net[c] \in Grant /\ net[c].at \in Nat /\ net[c].at <= clock /\ clock < net[c].at + Delay
        BY <1>3, <2>1, <3>1 DEF Tick, NetInv, Grant
      <4>2. net[c].at <= clock' /\ clock' <= net[c].at + Delay
        BY <2>1, <4>1, DelayAssumption, MinuteAssumption
      <4> QED
        BY <2>1, <3>1, <4>1, <4>2 DEF NetInv, Waiting
    <3>2. CASE ~ (pc[c] = "fetching" /\ net[c] # NoAnswer)
      BY <2>1, <3>2 DEF NetInv
    <3> QED
      BY <3>1, <3>2
  <2>3. HeldInv(c)'
    <3>1. CASE pc[c] = "caching"
      <4>1. Sound(token[c])'
        BY <2>1, <3>1, SoundStays DEF HeldInv, Sound
      <4> QED
        BY <2>1, <3>1, <4>1 DEF HeldInv
    <3>2. CASE pc[c] # "caching"
      BY <2>1, <3>2 DEF HeldInv
    <3> QED
      BY <3>1, <3>2
  <2> QED
    BY <2>1, <2>2, <2>3 DEF CallInv, StoryInv
<1>4. CASE UNCHANGED vars
  BY <1>0, <1>4, CallFrame DEF vars
<1> QED
  BY <1>1, <1>2, <1>3, <1>4 DEF Next

LEMMA CacheStep == IInv /\ [Next]_vars => CacheInv'
<1> SUFFICES ASSUME IInv, [Next]_vars PROVE CacheInv'
  OBVIOUS
<1>0. TypeOK /\ CacheInv /\ clock \in Nat
  BY DEF IInv, TypeOK
<1>1. CASE UNCHANGED <<tokens, clock>>
  BY <1>0, <1>1 DEF CacheInv, Sound
<1>2. ASSUME NEW c \in Calls, CacheToken(c) PROVE CacheInv'
  <2>1. /\ tokens' = [tokens EXCEPT ![scope[c]] = token[c]] /\ clock' = clock
        /\ scope[c] \in Scopes /\ token[c].scope = scope[c] /\ Sound(token[c])
    BY <1>0, <1>2 DEF CacheToken, CachedTokens, IInv, CallInv, HeldInv, TypeOK
  <2> QED
    BY <1>0, <2>1 DEF CacheInv, TypeOK, Sound
<1>3. CASE Restart
  BY <1>3 DEF Restart, CacheInv
<1>4. CASE Tick
  <2>1. clock' = clock + 1 /\ tokens' = tokens
    BY <1>4 DEF Tick, caches
  <2> SUFFICES ASSUME NEW s \in Scopes, tokens[s] # NoToken
               PROVE  tokens[s].scope = s /\ Sound(tokens[s])'
    BY <2>1 DEF CacheInv
  <2>2. tokens[s] \in Token /\ tokens[s].scope = s /\ Sound(tokens[s])
    BY <1>0 DEF CacheInv, TypeOK
  <2> QED
    BY <1>0, <2>1, <2>2, SoundStays DEF Sound
<1>5. ASSUME NEW c \in Calls,
             Call(c) \/ (Handle(c) /\ ~ CacheToken(c)) \/ Peers(c) \/ HangUp(c)
      PROVE  UNCHANGED <<tokens, clock>>
  BY <1>5 DEF Call, Handle, Peers, HangUp, ReadUri, EndpointArrives, StoreEndpoint, FindToken,
     MissToken, TokenArrives, TokenOverflows, PostReturns, Fails, Locate, GrantToken, Judge, caches
<1> QED
  BY <1>1, <1>2, <1>3, <1>4, <1>5 DEF Next, vars

-----------------------------------------------------------------------------
(***************************************************************************)
(* Theorems.                                                               *)
(***************************************************************************)

\* The invariant holds throughout, whatever the calls, the peers and the
\* clock do.
THEOREM InvariantHolds == Spec => []IInv
<1>1. IInv /\ [Next]_vars => IInv'
  BY TypeStep, CallsStep, CacheStep DEF IInv
<1> QED
  BY InvInit, <1>1, PTL DEF Spec

\* The state of the client is well-typed (IntuneClient).
THEOREM TypesCorrect == Spec => []TypeOK
<1>1. IInv => TypeOK
  BY DEF IInv
<1> QED
  BY InvariantHolds, <1>1, PTL

\* The cache hands out no token that has expired, if an answer of the token
\* service takes a minute at most (token).
THEOREM TokensAreLive == Spec => []CachedTokenIsLive
<1>1. IInv => CachedTokenIsLive
  <2> SUFFICES ASSUME IInv, NEW s \in Scopes, Cached(s) PROVE clock < tokens[s].until
    BY DEF CachedTokenIsLive
  <2>1. tokens[s] \in Token /\ clock \in Nat /\ Sound(tokens[s]) /\ tokens[s].expires_at > clock
    BY DEF IInv, TypeOK, CacheInv, Cached
  <2> QED
    BY <2>1 DEF Sound, Token
<1> QED
  BY InvariantHolds, <1>1, PTL

\* Every request carries the token and goes to the endpoint it should
\* (post_intune, validation_endpoint).
THEOREM Equipped == Spec => []RequestsAreEquipped
<1>1. IInv => RequestsAreEquipped
  BY NoTokenAssumption, NoEndpointAssumption DEF IInv, CallInv, HeldInv, RequestsAreEquipped
<1> QED
  BY InvariantHolds, <1>1, PTL

\* validate_request is Ok only if Intune approved this very call
\* (validate_request).
THEOREM Approved == Spec => []ApprovalIsIntunes
<1>1. IInv => ApprovalIsIntunes
  BY DEF IInv, CallInv, StoryInv, ApprovalIsIntunes
<1> QED
  BY InvariantHolds, <1>1, PTL

-----------------------------------------------------------------------------
(***************************************************************************)
(* The client implements RemoteCall: what a step does to the call it is of *)
(* is one of the abstract steps or nothing, and the other calls see        *)
(* nothing of it.                                                          *)
(***************************************************************************)

Views == [c \in Calls |-> CallerSees(c)]

\* A call stays where it is for its caller.
Same(c) ==
  /\ CallerSees(c)' = CallerSees(c)
  /\ op'[c] = op[c] /\ heard'[c] = heard[c] /\ verdict'[c] = verdict[c]

LEMMA Seen ==
  ASSUME NEW c \in Calls
  PROVE  /\ pc[c] = "idle" => CallerSees(c) = "none"
         /\ pc[c] \in InFlight => CallerSees(c) = "open"
         /\ pc[c] = "returned" => CallerSees(c) = result[c]
         /\ pc[c] = "gone" => CallerSees(c) = "dropped"
BY DEF CallerSees, InFlight, Phases

LEMMA SeenNext ==
  ASSUME NEW c \in Calls
  PROVE  /\ pc'[c] = "idle" => CallerSees(c)' = "none"
         /\ pc'[c] \in InFlight => CallerSees(c)' = "open"
         /\ pc'[c] = "returned" => CallerSees(c)' = result'[c]
         /\ pc'[c] = "gone" => CallerSees(c)' = "dropped"
BY DEF CallerSees, InFlight, Phases

LEMMA Untouched ==
  ASSUME TypeOK, NEW c \in Calls, pc'[c] = pc[c], result'[c] = result[c],
         op'[c] = op[c], heard'[c] = heard[c], verdict'[c] = verdict[c]
  PROVE  Same(c)
BY Seen, SeenNext DEF Same, TypeOK, InFlight

\* A step between two awaits, before the call is over.
LEMMA Quiet ==
  ASSUME TypeOK, NEW c \in Calls,
         \/ ReadUri(c) \/ EndpointArrives(c) \/ StoreEndpoint(c) \/ FindToken(c) \/ MissToken(c)
         \/ TokenArrives(c) \/ CacheToken(c) \/ Locate(c) \/ GrantToken(c)
  PROVE  /\ pc[c] \in InFlight /\ pc'[c] \in InFlight
         /\ op' = op /\ heard' = heard /\ verdict' = verdict
<1>1. CASE ReadUri(c) \/ EndpointArrives(c) \/ StoreEndpoint(c)
  BY <1>1 DEF TypeOK, ReadUri, EndpointArrives, StoreEndpoint, InFlight, Phases, history
<1>2. CASE FindToken(c) \/ MissToken(c)
  BY <1>2 DEF TypeOK, FindToken, MissToken, AfterToken, InFlight, Phases, history
<1>3. CASE TokenArrives(c) \/ CacheToken(c)
  BY <1>3 DEF TypeOK, TokenArrives, CacheToken, AfterFetch, AfterToken, InFlight, Phases, history
<1>4. CASE Locate(c) \/ GrantToken(c)
  BY <1>4 DEF TypeOK, Locate, GrantToken, InFlight, Phases, history
<1> QED
  BY <1>1, <1>2, <1>3, <1>4

\* The views when only that of c may change.
LEMMA OneView ==
  ASSUME NEW c \in Calls, \A q \in Calls \ {c} : CallerSees(q)' = CallerSees(q)
  PROVE  /\ Views' = [Views EXCEPT ![c] = CallerSees(c)']
         /\ CallerSees(c)' = CallerSees(c) => Views' = Views
BY DEF Views

LEMMA AbstractStep == IInv /\ [Next]_vars => [Abstract!Next]_<<op, Views, heard, verdict>>
<1> SUFFICES ASSUME IInv, [Next]_vars
             PROVE  Abstract!Next \/ UNCHANGED <<op, Views, heard, verdict>>
  OBVIOUS
<1>0. TypeOK /\ \A c \in Calls : CallInv(c)
  BY DEF IInv
<1>1. ASSUME NEW c \in Calls, Call(c) \/ Handle(c) \/ Peers(c) \/ HangUp(c)
      PROVE  /\ \A q \in Calls \ {c} : CallerSees(q)' = CallerSees(q)
             /\ Views' = [Views EXCEPT ![c] = CallerSees(c)']
             /\ CallerSees(c)' = CallerSees(c) => Views' = Views
  <2>1. \A q \in Calls \ {c} : CallerSees(q)' = CallerSees(q)
    BY <1>0, <1>1, OwnSteps, Untouched DEF Same
  <2> QED
    BY <2>1, OneView
<1>2. \A c \in Calls : Views[c] = CallerSees(c)
  BY DEF Views
<1>3. ASSUME NEW c \in Calls, Call(c) PROVE Abstract!Ask(c)
  <2>1. CallerSees(c) = "none" /\ CallerSees(c)' = "open"
    BY <1>0, <1>3, Seen, SeenNext DEF Call, TypeOK, InFlight, Phases
  <2>2. Views' = [Views EXCEPT ![c] = "open"]
    BY <1>1, <1>3, <2>1
  <2> QED
    BY <1>2, <1>3, <2>1, <2>2 DEF Abstract!Ask, Call, history, Views
<1>4. ASSUME NEW c \in Calls, Judge(c) PROVE Abstract!Hear(c)
  <2>1. CallerSees(c) = "open" /\ CallerSees(c)' = "open"
    BY <1>0, <1>4, Seen, SeenNext DEF Judge, InFlight, Phases
  <2>2. Views' = Views
    BY <1>1, <1>4, <2>1 DEF Peers
  <2>3. heard[c] = 0
    BY <1>0, <1>4 DEF Judge, CallInv, StoryInv
  <2>4. heard' = [heard EXCEPT ![c] = 1] /\ op' = op
    BY <1>4, <2>3 DEF Judge
  <2>5. \E k \in Codes : verdict' = [verdict EXCEPT ![c] = k]
    BY <1>4 DEF Judge, Answers, Codes
  <2> QED
    BY <1>2, <2>1, <2>2, <2>3, <2>4, <2>5 DEF Abstract!Hear, Views
<1>5. ASSUME NEW c \in Calls, PostReturns(c) \/ Fails(c) PROVE Abstract!Return(c)
  <2>1. pc[c] \in InFlight /\ pc'[c] = "returned" /\ op' = op /\ heard' = heard /\ verdict' = verdict
    BY <1>0, <1>5 DEF PostReturns, Fails, AfterFailure, TypeOK, InFlight, Phases, Waiting, history
  <2>2. CallerSees(c) = "open" /\ CallerSees(c)' = result'[c]
    BY <2>1, Seen, SeenNext
  <2>3. Views' = [Views EXCEPT ![c] = result'[c]]
    BY <1>1, <1>5, <2>2 DEF Handle
  <2>4. result'[c] \in {"ok", "error"}
    BY <1>0, <1>5 DEF PostReturns, Fails, Outcome, TypeOK
  <2>5. result'[c] = "ok" => heard[c] = 1 /\ (op[c] = "validate" => verdict[c] = "Success")
    <3>1. CASE PostReturns(c)
      <4>1. heard[c] = 1 /\ verdict[c] = net[c].code
        BY <1>0, <3>1 DEF PostReturns, CallInv, NetInv
      <4>2. result'[c] = Outcome(c)
        BY <1>0, <3>1 DEF PostReturns, TypeOK
      <4> QED
        BY <4>1, <4>2 DEF Outcome
    <3>2. CASE Fails(c)
      BY <1>0, <3>2 DEF Fails, TypeOK
    <3> QED
      BY <1>5, <3>1, <3>2
  <2> QED
    BY <1>2, <2>1, <2>2, <2>3, <2>4, <2>5 DEF Abstract!Return, Abstract!Granted, Views
<1>6. ASSUME NEW C \in SUBSET Calls, \A c \in C : pc[c] \in InFlight,
             pc' = [c \in Calls |-> IF c \in C THEN "gone" ELSE pc[c]],
             UNCHANGED <<op, result, history>>
      PROVE  Abstract!Drop(C)
  <2>1. \A c \in C : CallerSees(c) = "open" /\ CallerSees(c)' = "dropped"
    BY <1>6, Seen, SeenNext
  <2>2. \A c \in Calls \ C : CallerSees(c)' = CallerSees(c)
    BY <1>0, <1>6, Untouched DEF Same, history
  <2>3. Views' = [c \in Calls |-> IF c \in C THEN "dropped" ELSE Views[c]]
    BY <1>2, <2>1, <2>2 DEF Views
  <2> QED
    BY <1>2, <1>6, <2>1, <2>3 DEF Abstract!Drop, Views, history
<1>7. ASSUME NEW c \in Calls, HangUp(c) \/ TokenOverflows(c) PROVE Abstract!Drop({c})
  <2>1. /\ pc' = [q \in Calls |-> IF q \in {c} THEN "gone" ELSE pc[q]]
        /\ pc[c] \in InFlight /\ UNCHANGED <<op, result, history>>
    BY <1>0, <1>7 DEF HangUp, TokenOverflows, TypeOK, InFlight, Phases
  <2> QED
    BY <1>6, <2>1
<1>8. CASE Restart
  <2> DEFINE C == {c \in Calls : pc[c] \in InFlight}
  <2>1. pc' = [c \in Calls |-> IF c \in C THEN "gone" ELSE pc[c]]
    BY <1>8 DEF Restart
  <2>2. Abstract!Drop(C)
    BY <1>6, <1>8, <2>1 DEF Restart
  <2>3. C \in SUBSET Calls
    OBVIOUS
  <2> QED
    BY <2>2, <2>3 DEF Abstract!Next
<1>9. CASE Tick \/ UNCHANGED vars
  <2>1. \A c \in Calls : CallerSees(c)' = CallerSees(c)
    BY <1>0, <1>9, Untouched DEF Same, Tick, vars, history
  <2> QED
    BY <1>9, <2>1 DEF Views, Tick, vars, history
<1>10. ASSUME NEW c \in Calls,
              \/ ReadUri(c) \/ EndpointArrives(c) \/ StoreEndpoint(c) \/ FindToken(c) \/ MissToken(c)
              \/ TokenArrives(c) \/ CacheToken(c) \/ Locate(c) \/ GrantToken(c)
       PROVE  UNCHANGED <<op, Views, heard, verdict>>
  <2>1. /\ pc[c] \in InFlight /\ pc'[c] \in InFlight
        /\ op' = op /\ heard' = heard /\ verdict' = verdict
    BY <1>0, <1>10, Quiet
  <2>2. CallerSees(c)' = CallerSees(c)
    BY <2>1, Seen, SeenNext
  <2>3. Handle(c) \/ Peers(c)
    BY <1>10 DEF Handle, Peers
  <2>4. Views' = Views
    BY <1>1, <2>2, <2>3
  <2> QED
    BY <2>1, <2>4
<1>11. ASSUME NEW c \in Calls, Call(c) \/ Handle(c) \/ Peers(c) \/ HangUp(c)
       PROVE  Abstract!Next \/ UNCHANGED <<op, Views, heard, verdict>>
  <2>1. CASE Call(c)
    BY <1>3, <2>1 DEF Abstract!Next
  <2>2. CASE HangUp(c) \/ TokenOverflows(c)
    <3>1. {c} \in SUBSET Calls
      OBVIOUS
    <3> QED
      BY <1>7, <2>2, <3>1 DEF Abstract!Next
  <2>3. CASE Judge(c)
    BY <1>4, <2>3 DEF Abstract!Next
  <2>4. CASE PostReturns(c) \/ Fails(c)
    BY <1>5, <2>4 DEF Abstract!Next
  <2> QED
    BY <1>10, <1>11, <2>1, <2>2, <2>3, <2>4 DEF Handle, Peers
<1> QED
  BY <1>8, <1>9, <1>11 DEF Next

LEMMA AbstractInit == Init => Abstract!Init
<1> SUFFICES ASSUME Init PROVE Abstract!Init
  OBVIOUS
<1>1. \A c \in Calls : CallerSees(c) = "none"
  BY Seen DEF Init
<1> QED
  BY <1>1 DEF Init, Abstract!Init, Ops, Codes

\* ImplementsRemoteCall: whatever the caches, the peers and the other calls
\* do, Intune hears of a call once or never, and Ok says that it did and, of a
\* validation, that it approved (validate_request, success_notification,
\* failure_notification).
THEOREM Refinement == Spec => ImplementsRemoteCall
<1>1. IInv /\ [Next]_vars => [Abstract!Next]_(Abstract!vars)
  BY AbstractStep DEF Abstract!vars, Views
<1> QED
  BY InvariantHolds, AbstractInit, <1>1, PTL DEF Spec, ImplementsRemoteCall, Abstract!Spec

LEMMA PromiseStep ==
  ASSUME IInv, Abstract!OkIsGranted, [Abstract!Next]_<<op, Views, heard, verdict>>
  PROVE  Abstract!OkIsGranted'
<1> USE DEF Abstract!OkIsGranted, Abstract!Granted
<1>0. /\ op \in [Calls -> Ops] /\ heard \in [Calls -> Nat] /\ verdict \in [Calls -> Codes]
      /\ Views = [c \in Calls |-> Views[c]]
  BY DEF IInv, TypeOK, Views
<1>1. /\ \A c \in Calls : /\ Views[c] = "ok" => Abstract!Granted(c)
                          /\ Views[c] = "none" => heard[c] = 0
                          /\ heard[c] <= 1
      /\ (\A c \in Calls : /\ Views'[c] = "ok" => Abstract!Granted(c)'
                           /\ Views'[c] = "none" => heard'[c] = 0
                           /\ heard'[c] <= 1) => Abstract!OkIsGranted'
  BY DEF Views
<1>2. ASSUME NEW c \in Calls, Abstract!Ask(c) PROVE Abstract!OkIsGranted'
  <2>1. Views' = [Views EXCEPT ![c] = "open"] /\ \E o \in Ops : op' = [op EXCEPT ![c] = o]
        /\ heard' = heard /\ verdict' = verdict
    BY <1>2 DEF Abstract!Ask, Views
  <2> QED
    BY <1>0, <1>1, <2>1
<1>3. ASSUME NEW c \in Calls, Abstract!Hear(c) PROVE Abstract!OkIsGranted'
  <2>1. Views[c] = "open" /\ Views' = Views /\ op' = op /\ heard' = [heard EXCEPT ![c] = 1]
        /\ \E k \in Codes : verdict' = [verdict EXCEPT ![c] = k]
    BY <1>3 DEF Abstract!Hear, Views
  <2>2. heard'[c] = 1 /\ \A q \in Calls \ {c} : heard'[q] = heard[q] /\ verdict'[q] = verdict[q]
    BY <1>0, <2>1
  <2>3. \A q \in Calls : q = c \/ q \in Calls \ {c}
    OBVIOUS
  <2> QED
    BY <1>1, <2>1, <2>2, <2>3
<1>4. ASSUME NEW c \in Calls, Abstract!Return(c) PROVE Abstract!OkIsGranted'
  <2>1. PICK x \in {"ok", "error"} : (x = "ok" => Abstract!Granted(c)) /\ Views' = [Views EXCEPT ![c] = x]
    BY <1>4 DEF Abstract!Return, Views
  <2>2. op' = op /\ heard' = heard /\ verdict' = verdict
    BY <1>4 DEF Abstract!Return
  <2> QED
    BY <1>0, <1>1, <2>1, <2>2
<1>5. ASSUME NEW C \in SUBSET Calls, Abstract!Drop(C) PROVE Abstract!OkIsGranted'
  <2>1. Views' = [c \in Calls |-> IF c \in C THEN "dropped" ELSE Views[c]]
    BY <1>5 DEF Abstract!Drop, Views
  <2>2. op' = op /\ heard' = heard /\ verdict' = verdict
    BY <1>5 DEF Abstract!Drop
  <2> QED
    BY <1>0, <1>1, <2>1, <2>2
<1>6. CASE UNCHANGED <<op, Views, heard, verdict>>
  BY <1>1, <1>6
<1> QED
  BY <1>2, <1>3, <1>4, <1>5, <1>6 DEF Abstract!Next

\* An operation that returned Ok was heard exactly once, a notification as
\* well as a validation, and no call is heard twice (post_intune).
THEOREM OkMeansHeard == Spec => []Abstract!OkIsGranted
<1>1. Init => Abstract!OkIsGranted
  <2> SUFFICES ASSUME Init PROVE Abstract!OkIsGranted
    OBVIOUS
  <2>1. \A c \in Calls : CallerSees(c) = "none" /\ heard[c] = 0
    BY Seen DEF Init
  <2>2. ASSUME NEW c \in Calls
        PROVE  Views[c] = "none" /\ heard[c] = 0 /\ heard[c] <= 1 /\ "none" # "ok"
    BY <2>1 DEF Views
  <2> QED
    BY <2>2 DEF Abstract!OkIsGranted, Views
<1>2. IInv /\ Abstract!OkIsGranted /\ [Next]_vars => Abstract!OkIsGranted'
  BY AbstractStep, PromiseStep
<1> QED
  BY InvariantHolds, <1>1, <1>2, PTL DEF Spec
=============================================================================
