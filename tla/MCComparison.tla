----------------------------- MODULE MCComparison -----------------------------
(***************************************************************************)
(* Comparison for TLC: the fixtures of harness/fixtures.py in the small.   *)
(* The references issued come first, one more of them than the cap grants, *)
(* and enough invented ones to drain the allocation a quota at a time.     *)
(***************************************************************************)
EXTENDS Comparison, TLC

CONSTANTS ref1, ref2, ann, bob, srcA, srcB

Presented == <<ref1, ref2, Null, Null>>
PublicPatrons == <<ann, bob>>
OperatorLabels == <<srcA, srcB>>

\* The comparison, and its scenarios against the secure application, as in
\* test_half_fixes.py.
SecureTargets ==
    {[policy |-> SECURE, config |-> t.config] : t \in DEFAULT_TARGETS}

\* Runs that the limits do turn away: no challenge paid, no pace kept on
\* one source, a pace that no hold survives and one that no token does.
Unpaid ==
    [policy |-> VULNERABLE_FRONT_DOOR_GATE,
     config |-> [FRONT_DOOR_GATE EXCEPT !.pass_verification = FALSE]]
Unpaced ==
    [policy |-> VULNERABLE_PER_SOURCE_RATE_LIMIT,
     config |-> [HarnessConfig EXCEPT !.operator_seats_per_identity = 1,
                                      !.source_labels = <<srcA>>]]
TooSlow ==
    {[policy |-> SECURE,
      config |-> [SLOW_AND_SEQUENTIAL EXCEPT !.operator_seats_per_identity = 2,
                                             !.pace_seconds = pace]]
        : pace \in {HoldTTL + 1, TokenTTL \div 2 + 1}}

\* More seats wanted than there are; the abandoning operator, held to its limits.
Oversubscribed == {[policy |-> VULNERABLE_NONE, config |-> HarnessConfig]}
AbandonedOnSecure == {[policy |-> SECURE, config |-> ABANDONED_HOLDS]}

EveryRow == DEFAULT_TARGETS \cup SecureTargets \cup {Unpaid, Unpaced} \cup TooSlow
==============================================================================
