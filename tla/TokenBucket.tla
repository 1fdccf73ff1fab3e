----------------------------- MODULE TokenBucket -----------------------------
(***************************************************************************)
(* What a rate limiter promises, told without a map of visitors: every key *)
(* has a bucket of Burst tokens, full at the start; a unit of time brings  *)
(* it one token, and nothing else brings it any; a request that asks for a *)
(* token of a key is allowed if there is one.                              *)
(***************************************************************************)
EXTENDS Naturals

CONSTANTS Keys, Requests, Burst

VARIABLES
    now,     \* the time
    tokens,  \* the tokens of each key
    asked    \* what each request was told about each key

vars == <<now, tokens, asked>>

Init ==
    /\ now = 0
    /\ tokens = [k \in Keys |-> Burst]
    /\ asked = [r \in Requests |-> [k \in Keys |-> "not"]]

Told(r, k, answer) ==
    asked' = [asked EXCEPT ![r] = [@ EXCEPT ![k] = answer]]

Allow(r, k) ==
    /\ tokens[k] > 0
    /\ tokens' = [tokens EXCEPT ![k] = @ - 1]
    /\ Told(r, k, "allowed")
    /\ UNCHANGED now

Refuse(r, k) ==
    /\ tokens[k] = 0
    /\ Told(r, k, "refused")
    /\ UNCHANGED <<now, tokens>>

Refill ==
    /\ now' = now + 1
    /\ tokens' = [k \in Keys |-> IF tokens[k] < Burst THEN tokens[k] + 1
                                 ELSE tokens[k]]
    /\ UNCHANGED asked

Next ==
    \/ \E r \in Requests, k \in Keys : Allow(r, k) \/ Refuse(r, k)
    \/ Refill

Spec == Init /\ [][Next]_vars

=============================================================================
