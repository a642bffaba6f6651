--------------------------- MODULE IdempotentService ---------------------------
(***************************************************************************)
(* What POST /message promises a client that signs a request and retries   *)
(* it: the request takes effect at most once, effects are never undone,    *)
(* and a success response states the result of an effect that happened.    *)
(***************************************************************************)
EXTENDS Integers, Sequences

CONSTANTS Requests, Results

VARIABLES
  effects,   \* sequence of executed requests with their results
  answers    \* <<request, result>> success responses received by clients

Performed(r, v) ==
  \E i \in DOMAIN effects : effects[i].req = r /\ effects[i].result = v

Init == effects = <<>> /\ answers = {}

\* Requests that had no effect yet take effect: one, or several at once when
\* an earlier transaction was still open.  Earlier effects stay.
TakeEffect ==
  /\ Len(effects) <= Len(effects')
  /\ \A i \in 1..Len(effects) : effects'[i] = effects[i]
  /\ \A j \in Len(effects)+1..Len(effects') :
       \A i \in 1..Len(effects') : effects'[i].req = effects'[j].req => i = j

\* A success response is received, or lost.
Respond ==
  \/ answers' = answers
  \/ \E r \in Requests, v \in Results :
       answers' = answers \cup {<<r, v>>} /\ Performed(r, v)'

Next == TakeEffect /\ Respond

Spec == Init /\ [][Next]_<<effects, answers>>
================================================================================
