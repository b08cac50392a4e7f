------------------------------ MODULE Comparison ------------------------------
(***************************************************************************)
(* The comparison (src/src/flowjack/compare) and the runs it is made of:   *)
(* each named scenario of the harness against the Compose service that     *)
(* serves its row, what every row must come to, and what the reports say   *)
(* of it.  A row is one behaviour of Harness: run_comparison runs them one *)
(* after the other against applications that share nothing.                *)
(***************************************************************************)
EXTENDS Harness

CONSTANTS
    Concurrency,    \* HarnessConfig.concurrency, of the scenarios that keep it
    Pace            \* the pace of the scenarios that have one

ASSUME ComparisonAssumption == {Concurrency, Pace} \subseteq Nat

-----------------------------------------------------------------------------
(* Scenarios.  60 identities of 4 seats, one of 120 and 8 of 15 are what   *)
(* these come to with the fixtures and the settings of the repository.     *)

HarnessConfig ==
    [mode |-> "acquire", operator_identities |-> Len(Candidates),
     operator_seats_per_identity |-> SeatQuotaDefault + 1,
     genuine_patrons |-> Len(GenuinePatrons), genuine_seats_each |-> SeatQuotaDefault,
     concurrency |-> Concurrency, pace_seconds |-> 0, pass_verification |-> FALSE,
     source_labels |-> SourceLabels, abandon_rounds |-> 2, abandon_wait_seconds |-> 0]

SECURE_BASELINE == HarnessConfig
NO_ANTI_AUTOMATION ==
    [HarnessConfig EXCEPT !.operator_identities = 1,
        !.operator_seats_per_identity = SeatsAllocated]
ABANDONED_HOLDS ==
    [NO_ANTI_AUTOMATION EXCEPT !.mode = "abandon", !.abandon_wait_seconds = HoldTTL + 1]
PER_SOURCE_RATE_LIMIT ==
    [HarnessConfig EXCEPT !.operator_identities = Len(SourceLabels),
        !.operator_seats_per_identity = SeatsAllocated \div Len(SourceLabels),
        !.pace_seconds = Pace]
PER_ACCOUNT_QUOTA ==
    [HarnessConfig EXCEPT !.operator_seats_per_identity = SeatQuotaDefault]
FRONT_DOOR_GATE == [NO_ANTI_AUTOMATION EXCEPT !.pass_verification = TRUE]
SLOW_AND_SEQUENTIAL ==
    [NO_ANTI_AUTOMATION EXCEPT !.concurrency = 1, !.pace_seconds = Pace]

\* What each Compose service serves, started the way scripts/verify.sh does.
VulnerableApp(name) == create_vulnerable_app(TRUE, name)

Row(scenario, service, negative_control) ==
    {[policy |-> p, config |-> scenario, negative_control |-> negative_control]
        : p \in service}

DEFAULT_TARGETS ==
    Row(SECURE_BASELINE, secure_app, FALSE)
    \cup Row(NO_ANTI_AUTOMATION, VulnerableApp(""), FALSE)
    \cup Row(ABANDONED_HOLDS, VulnerableApp(""), FALSE)
    \cup Row(PER_SOURCE_RATE_LIMIT, VulnerableApp("per-source-rate-limit"), FALSE)
    \cup Row(PER_ACCOUNT_QUOTA, VulnerableApp("per-account-quota"), FALSE)
    \cup Row(FRONT_DOOR_GATE, VulnerableApp("front-door-gate"), FALSE)
    \cup Row(SLOW_AND_SEQUENTIAL, VulnerableApp("per-source-rate-limit"), TRUE)

\* The run under way is a row of the comparison as it stands.
IsRow == [policy |-> policy, config |-> config]
            \in {[policy |-> t.policy, config |-> t.config] : t \in DEFAULT_TARGETS}
NegativeControl == config = SLOW_AND_SEQUENTIAL

-----------------------------------------------------------------------------
(* What the reports say. *)

secure == verdict(ledger) = "flow limit held"

\* Nobody has more than the quota.  Fault: one seat more is let pass.
QuotaKeptOffByOne(l) == l.max_seats_per_identity <= SeatQuotaDefault + 1
QuotaKept(l) == l.max_seats_per_identity <= SeatQuotaDefault

\* _closing's note on a row, by the case that words it.
Note(l) ==
    IF secure THEN "held"
    ELSE IF NegativeControl THEN "paced_under_limit"
    ELSE IF l.seats_confirmed = 0 THEN "denied"
    ELSE IF l.challenges_passed > 0 THEN "challenged"
    ELSE IF l.rate_limited_requests = 0 /\ QuotaKept(l) THEN "quota"
    ELSE IF l.rate_limited_requests = 0 /\ config.pace_seconds > 0 THEN "stayed_under"
    ELSE "took"

\* The transcript's paragraph on identities that cost nothing.
IdentityNote(l) == QuotaKept(l) /\ l.operator_identities > 1

-----------------------------------------------------------------------------
(* The ladder of controls (test_compare.py, test_half_fixes.py,            *)
(* test_ladder_bottom.py).                                                 *)

\* Every vulnerable row drains: whatever the threads interleave, the operator
\* ends with the whole allocation and the public with nothing, on requests none
\* of which was invalid or declined by the rate limit, and the verdict says so.
\* The control in force does not change that by one seat.
VulnerableRowsDrain ==
    phase = "done" /\ IsRow /\ is_vulnerable(policy) /\ InTime =>
        /\ ledger.operator_seats = SeatsAllocated /\ ledger.seats_available = 0
        /\ ledger.genuine_seats = 0 /\ ledger.demand_served = 0
        /\ ledger.invalid_requests = 0 /\ ledger.rate_limited_requests = 0
        /\ ~secure

\* And every control held perfectly while it did: the gate was passed once for
\* each registration it let through, no source exceeded its limit, and under the
\* quota nobody has more than two seats.
ControlsHeldPerfectly ==
    phase = "done" =>
        /\ Gated => Granted("operator", "register") <= spent
        /\ challenges = issued /\ spent <= issued
        /\ policy.per_source_rate_limit =>
              \A s \in Sources : Len(seen[s]) <= Limit
        /\ SeatQuota /\ IsRow =>
              ledger.max_seats_per_identity
                <= IF HouseholdPatron \in {Public[i] : i \in DOMAIN Public}
                   THEN HouseholdEntitlement ELSE SeatQuotaDefault

\* The report says what is so: every request of a row was valid, and "denied every
\* seat", "no identity exceeded its quota", "stayed under the enforced rate
\* limit" and the rest are only printed of a run against an application with that
\* control and that outcome.
NotesTruthful ==
    phase = "done" /\ IsRow /\ InTime =>
        LET note == Note(ledger) IN
        /\ replay.valid = ledger.requests_issued
        /\ note = "held" <=> ~is_vulnerable(policy)
        /\ note = "denied" => ledger.seats_available = 0 /\ config.mode = "abandon"
        /\ note = "challenged" => ledger.challenges_passed = 1 /\ Gated
        /\ note = "quota" => SeatQuota /\ ledger.operator_identities > 1
        /\ note \in {"paced_under_limit", "stayed_under"} => policy.per_source_rate_limit

\* transcript.py: a run is said to have brought identities that "cost nothing"
\* only where they do.
FreeIdentitiesCostNothing ==
    phase = "done" /\ IsRow /\ IdentityNote(ledger) => ~GovernedIdentitySupply
==============================================================================
