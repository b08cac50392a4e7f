-------------------------------- MODULE Policy --------------------------------
(***************************************************************************)
(* Which limits an application enforces (src/src/flowjack/policy.py), and  *)
(* which of the policies each of the two entry points will serve           *)
(* (secure_app.py, vulnerable_app.py).  Whether there is a rate limit is   *)
(* part of the policy; how large it is, is RateLimiter's Limit and Window. *)
(***************************************************************************)

Steps == {"register", "hold", "confirm"}

AnyPolicy(names) ==
    [name : names, seat_quota : BOOLEAN, governed_identity_supply : BOOLEAN,
     flow_state : BOOLEAN, per_source_rate_limit : BOOLEAN,
     verification_gate_steps : SUBSET Steps]

\* Policy(name): the defaults of its fields.
Unlimited(name) ==
    [name |-> name, seat_quota |-> FALSE, governed_identity_supply |-> FALSE,
     flow_state |-> FALSE, per_source_rate_limit |-> FALSE,
     verification_gate_steps |-> {}]

SECURE ==
    [Unlimited("secure") EXCEPT !.seat_quota = TRUE,
        !.governed_identity_supply = TRUE, !.flow_state = TRUE]
VULNERABLE_NONE == Unlimited("no-anti-automation")
VULNERABLE_PER_SOURCE_RATE_LIMIT ==
    [Unlimited("per-source-rate-limit") EXCEPT !.per_source_rate_limit = TRUE]
VULNERABLE_PER_ACCOUNT_QUOTA ==
    [Unlimited("per-account-quota") EXCEPT !.seat_quota = TRUE]
VULNERABLE_FRONT_DOOR_GATE ==
    [Unlimited("front-door-gate") EXCEPT !.verification_gate_steps = {"register"}]

VULNERABLE_POLICIES ==
    {VULNERABLE_NONE, VULNERABLE_PER_SOURCE_RATE_LIMIT,
     VULNERABLE_PER_ACCOUNT_QUOTA, VULNERABLE_FRONT_DOOR_GATE}
POLICIES == {SECURE} \cup VULNERABLE_POLICIES

is_vulnerable(p) == ~(p.seat_quota /\ p.governed_identity_supply /\ p.flow_state)

-----------------------------------------------------------------------------
(* The entry points.  An application that refuses to start is none at all. *)

secure_app == {SECURE}

\* FLOWJACK_POLICY names a vulnerable shape, or nothing for the barest one.
selected_policy(name) ==
    IF name = "" THEN {VULNERABLE_NONE} ELSE {p \in VULNERABLE_POLICIES : p.name = name}

create_vulnerable_app(acknowledged, name) ==
    IF acknowledged THEN selected_policy(name) ELSE {}
==============================================================================
