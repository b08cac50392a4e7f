----------------------------- MODULE Verification -----------------------------
(***************************************************************************)
(* The human-verification challenge (src/src/flowjack/verification.py):    *)
(* tokens are issued one by one and each is good for one request.  issue   *)
(* and spend hold one lock, so each is one step.  verify-n is the number n.*)
(***************************************************************************)
EXTENDS Naturals

VARIABLES
    unspent,        \* _unspent
    issued, spent   \* the counters of the same names

challengeVars == <<unspent, issued, spent>>

ChallengeInit == unspent = {} /\ issued = 0 /\ spent = 0

\* Fault: the token is numbered before the counter moves on.
NextTokenFromZero == issued
NextToken == issued + 1

Issue ==
    /\ unspent' = unspent \cup {NextToken}
    /\ issued' = issued + 1
    /\ UNCHANGED spent

\* Fault: a spent token stays good.
UnspentAfterKept(token) == unspent
UnspentAfter(token) == unspent \ {token}

Spend(token) ==
    /\ token \in unspent
    /\ unspent' = UnspentAfter(token)
    /\ spent' = spent + 1
    /\ UNCHANGED issued

\* A missing, unknown or spent token.  Fault: the request waits for a good one.
SpendRefusedNever(token) == FALSE /\ UNCHANGED challengeVars
SpendRefused(token) == token \notin unspent /\ UNCHANGED challengeVars
==============================================================================
