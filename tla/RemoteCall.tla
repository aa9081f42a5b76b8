----------------------------- MODULE RemoteCall -----------------------------
(***************************************************************************)
(* What a caller may rely on when it asks Intune something, with nothing   *)
(* of tokens, endpoints, caches and requests: Intune hears of a call once  *)
(* or never, and Ok says that it did, and that it approved what it was     *)
(* asked to validate.  An error says nothing.                              *)
(***************************************************************************)
EXTENDS Naturals

CONSTANTS
  Calls,  \* calls of the operations
  Ops,    \* the operations, "validate" and others
  Codes   \* the codes Intune may answer with, "Success" and others

VARIABLES
  op,      \* op[c]: what c asks
  stage,   \* stage[c]: where c stands, for the caller
  heard,   \* heard[c]: how often Intune has heard of c
  verdict  \* verdict[c]: the code it then answered

vars == <<op, stage, heard, verdict>>

TypeOK ==
  /\ op \in [Calls -> Ops]
  /\ stage \in [Calls -> {"none", "open", "ok", "error", "dropped"}]
  /\ heard \in [Calls -> 0..1]
  /\ verdict \in [Calls -> Codes]

Init ==
  /\ op \in [Calls -> Ops]
  /\ stage = [c \in Calls |-> "none"]
  /\ heard = [c \in Calls |-> 0]
  /\ verdict \in [Calls -> Codes]

Ask(c) ==
  /\ stage[c] = "none"
  /\ \E o \in Ops : op' = [op EXCEPT ![c] = o]
  /\ stage' = [stage EXCEPT ![c] = "open"]
  /\ UNCHANGED <<heard, verdict>>

\* Intune hears of a call while somebody waits for it, and decides.
Hear(c) ==
  /\ stage[c] = "open"
  /\ heard[c] = 0
  /\ heard' = [heard EXCEPT ![c] = 1]
  /\ \E k \in Codes : verdict' = [verdict EXCEPT ![c] = k]
  /\ UNCHANGED <<op, stage>>

\* Intune has heard of the call and has nothing against it.
Granted(c) == heard[c] = 1 /\ (op[c] = "validate" => verdict[c] = "Success")

Return(c) ==
  /\ stage[c] = "open"
  /\ \E s \in {"ok", "error"} :
       /\ s = "ok" => Granted(c)
       /\ stage' = [stage EXCEPT ![c] = s]
  /\ UNCHANGED <<op, heard, verdict>>

\* Callers that stop waiting, alone or all together.
Drop(C) ==
  /\ \A c \in C : stage[c] = "open"
  /\ stage' = [c \in Calls |-> IF c \in C THEN "dropped" ELSE stage[c]]
  /\ UNCHANGED <<op, heard, verdict>>

Next ==
  \/ \E c \in Calls : Ask(c) \/ Hear(c) \/ Return(c)
  \/ \E C \in SUBSET Calls : Drop(C)

\* A call may stay open for ever: that it does not is EveryCallReturns, of
\* IntuneClient.
Spec == Init /\ [][Next]_vars

-----------------------------------------------------------------------------
\* An operation that returned Ok was heard once, and a validation approved;
\* what nobody has asked was not heard.
OkIsGranted ==
  \A c \in Calls : /\ stage[c] = "ok" => Granted(c)
                   /\ stage[c] = "none" => heard[c] = 0
                   /\ heard[c] <= 1
=============================================================================
