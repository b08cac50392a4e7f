------------------------------ MODULE Walkthrough ------------------------------
(***************************************************************************)
(* The HTTP walkthrough (src/src/flowjack/walkthrough.py): one client that *)
(* drives an application through a script of requests, one at a time, and  *)
(* compares each answer with what the secure application promises.  The    *)
(* application is the one of BookingFlow, under any policy; the clock is   *)
(* the host's, so the script may be held up between any two requests.      *)
(***************************************************************************)
EXTENDS BookingFlow

CONSTANTS
    PATRON_001, PATRON_002, PATRON_003, PATRON_004, PATRON_005, PATRON_010,
    ELIGIBILITY_REFS,   \* in order
    Delays,             \* how long the script may be held up
    MaxDelays           \* bound: how many times

Scripted == <<PATRON_001, PATRON_002, PATRON_003, PATRON_004, PATRON_005, PATRON_010>>

ASSUME WalkthroughAssumption ==
    /\ \A i \in DOMAIN Scripted :
          /\ Scripted[i] \in FixturePatrons \ {HouseholdPatron}
          /\ \A j \in DOMAIN Scripted : Scripted[i] = Scripted[j] => i = j
    /\ ELIGIBILITY_REFS \in Seq(EligibilityRefs) /\ Len(ELIGIBILITY_REFS) >= 4
    /\ \A i, j \in DOMAIN ELIGIBILITY_REFS :
          ELIGIBILITY_REFS[i] = ELIGIBILITY_REFS[j] => i = j
    /\ Delays \subseteq Nat /\ MaxDelays \in Nat
    /\ Null \notin {"passed", "failed", "crashed"}

VARIABLES
    at,        \* the next call of the script
    answers,   \* of the calls made: the status, and the hold or the seats it tells
    asleep,    \* time.sleep returns then
    delays,    \* how often the script was held up,
    late,      \* and for how long in all
    outcome    \* what run returns, or how it ended; Null until then

walk == <<at, answers, asleep, delays, late, outcome>>
walkVars == <<vars, walk>>

-----------------------------------------------------------------------------
(* The script.  A call that uses the hold_id of an earlier answer says how *)
(* many calls back that is.                                                *)

Call(kind, by, back, expects) ==
    [kind |-> kind, by |-> by, back |-> back, expects |-> expects]
Get == Call("get", Null, 0, {200})
HoldBy(p, status) == Call("hold", p, 0, {status})
ConfirmBy(p, back, status) == Call("confirm", p, back, {status})
ConfirmUnknown(p, back) == Call("confirm_unknown", p, back, {409})
RegisterWith(ref, status) == Call("register", ref, 0, {status})
Times(n, call) == [i \in 1..n |-> call]

\* The household's confirmations leave out the holds that were not granted.
ConfirmGranted(p, back) == Call("confirm_granted", p, back, {201})
\* The re-hold loop stops at the first hold that is not granted.
Cycle(p) == Call("cycle", p, 0, {201, 401, 409})

_check_generic_401 == Times(4, HoldBy(Null, 401))
_check_entitlement ==
    <<HoldBy(PATRON_001, 201), HoldBy(PATRON_001, 201), HoldBy(PATRON_001, 409),
      ConfirmBy(PATRON_001, 3, 201), HoldBy(PATRON_001, 409)>>
_check_hold_charges_entitlement ==
    Times(2, HoldBy(PATRON_002, 201)) \o <<HoldBy(PATRON_002, 409)>>
\* Fault: nobody but the owner tries to confirm the hold.
_check_flow_of_owner_alone ==
    <<HoldBy(PATRON_003, 201), ConfirmUnknown(PATRON_004, 1),
      ConfirmBy(PATRON_003, 2, 201), ConfirmBy(PATRON_003, 3, 409)>>
_check_flow_scoped_enforcement ==
    <<HoldBy(PATRON_003, 201), ConfirmUnknown(PATRON_004, 1),
      ConfirmBy(PATRON_004, 2, 409), ConfirmBy(PATRON_003, 3, 201),
      ConfirmBy(PATRON_003, 4, 409)>>
_check_identity_supply ==
    <<RegisterWith(Null, 409)>>
        \o [i \in 1..3 |-> RegisterWith(ELIGIBILITY_REFS[i], 201)]
        \o <<RegisterWith(ELIGIBILITY_REFS[1], 409), RegisterWith(ELIGIBILITY_REFS[4], 409)>>
_check_household_booking ==
    Times(4, HoldBy(HouseholdPatron, 201)) \o Times(4, ConfirmGranted(HouseholdPatron, 4))
        \o <<HoldBy(HouseholdPatron, 409)>>
_check_refusals_are_identical ==
    <<HoldBy(PATRON_001, 409), ConfirmUnknown(PATRON_005, 0), RegisterWith(Null, 409)>>
_check_rehold_allowance == Times(3, Cycle(PATRON_010)) \o <<HoldBy(PATRON_010, 409)>>

Script ==
    <<Get>> \o _check_generic_401 \o _check_entitlement
        \o _check_hold_charges_entitlement \o _check_flow_scoped_enforcement
        \o _check_identity_supply \o _check_household_booking
        \o _check_refusals_are_identical \o _check_rehold_allowance

\* What one check makes of one answer.
Meets(i) ==
    /\ answers[i].status \in Script[i].expects
    /\ Script[i].kind = "get" => answers[i].tells = SeatsAllocated

-----------------------------------------------------------------------------
(* The requests. *)

Running == outcome = Null /\ now >= asleep /\ at <= Len(Script)
Now(kinds) == Running /\ Script[at].kind \in kinds
By == Script[at].by
Earlier == answers[at - Script[at].back]

Answered(status, tells) ==
    answers' = [i \in DOMAIN answers \cup {at} |->
        IF i = at THEN [status |-> status, tells |-> tells] ELSE answers[i]]
\* Fault: a call is made again and again.
NextCallAgain == at' = at
NextCall == at' = at + 1

\* Fault: the loop does not rest.
SettleAtOnce == 0
Settle == HoldTTL + 1

Authentic == By \in DOMAIN tokens /\ now < tokens[By]

\* The hold_id is read from an answer that has one, or the script crashes.
HoldIdRead == Script[at].back > 0 => Earlier.status = 201
Crash ==
    /\ Now({"confirm", "confirm_unknown"}) /\ ~HoldIdRead
    /\ outcome' = "crashed"
    /\ UNCHANGED <<vars, at, answers, asleep, delays, late>>

ReadsShow ==
    /\ Now({"get"}) /\ \E show \in Shows : ReadShow(show)
    /\ Answered(200, SeatsAvailable) /\ NextCall
    /\ UNCHANGED <<asleep, delays, late, outcome>>

Unauthenticated ==
    /\ Now({"hold", "cycle", "confirm", "confirm_unknown", "confirm_granted"})
    /\ ~Authentic /\ HoldIdRead
    /\ Answered(401, 0) /\ at' = IF Script[at].kind = "cycle" THEN Len(Script) ELSE at + 1
    /\ UNCHANGED <<vars, asleep, delays, late, outcome>>

Holds ==
    /\ Now({"hold"}) /\ Authentic
    /\ \E show \in Shows :
          \/ PlaceHold(By, show) /\ Answered(201, Len(holds'))
          \/ RefuseHold(By, show) /\ Answered(409, 0)
    /\ NextCall /\ UNCHANGED <<asleep, delays, late, outcome>>

Cycles ==
    /\ Now({"cycle"}) /\ Authentic
    /\ \E show \in Shows :
          \/ PlaceHold(By, show) /\ Answered(201, Len(holds'))
             /\ asleep' = now + Settle /\ NextCall
          \/ RefuseHold(By, show) /\ Answered(409, 0)
             /\ at' = Len(Script) /\ UNCHANGED asleep
    /\ UNCHANGED <<delays, late, outcome>>

Confirms ==
    /\ Now({"confirm", "confirm_unknown", "confirm_granted"}) /\ Authentic /\ HoldIdRead
    /\ LET h == IF Script[at].kind = "confirm_unknown" THEN Len(holds) + 1 ELSE Earlier.tells
       IN  \/ ConfirmHold(By, h) /\ Answered(201, 0)
           \/ RefuseConfirm(By, h) /\ Answered(409, 0)
    /\ NextCall /\ UNCHANGED <<asleep, delays, late, outcome>>

LeavesOut ==
    /\ Now({"confirm_granted"}) /\ ~HoldIdRead
    /\ NextCall /\ UNCHANGED <<vars, answers, asleep, delays, late, outcome>>

Registers ==
    /\ Now({"register"})
    /\ \/ RegisterPatron(By) /\ Answered(201, 0)
       \/ RefuseRegistration(By) /\ Answered(409, 0)
    /\ NextCall /\ UNCHANGED <<asleep, delays, late, outcome>>

Concludes ==
    /\ outcome = Null /\ at > Len(Script)
    /\ outcome' = IF \A i \in DOMAIN answers : Meets(i) THEN "passed" ELSE "failed"
    /\ UNCHANGED <<vars, at, answers, asleep, delays, late>>

\* time.sleep returns, and a host that is slow.
Passes(d) == now + d <= MaxTime /\ now' = now + d /\ UNCHANGED <<policy, db>>
Wakes ==
    /\ outcome = Null /\ now < asleep /\ Passes(asleep - now)
    /\ UNCHANGED walk
HeldUp ==
    /\ outcome = Null /\ delays < MaxDelays
    /\ \E d \in Delays : Passes(d) /\ late' = late + d
    /\ delays' = delays + 1
    /\ UNCHANGED <<at, answers, asleep, outcome>>

WalkInit ==
    /\ Init
    /\ at = 1 /\ answers = << >> /\ asleep = 0 /\ delays = 0 /\ late = 0 /\ outcome = Null

Walks ==
    \/ Crash \/ ReadsShow \/ Unauthenticated \/ Holds \/ Cycles \/ Confirms \/ LeavesOut
    \/ Registers \/ Concludes \/ Wakes
Ended == outcome # Null /\ UNCHANGED walkVars
WalkNext == Walks \/ HeldUp \/ Ended

\* One thread, that is always about to issue its next request or asleep.
WalkSpec == WalkInit /\ [][WalkNext]_walkVars /\ WF_walkVars(Walks)

-----------------------------------------------------------------------------
WalkTypeOK ==
    /\ TypeOK
    /\ at \in 1..(Len(Script) + 1) /\ DOMAIN answers \subseteq 1..(at - 1)
    /\ \A i \in DOMAIN answers :
          answers[i].status \in {200, 201, 401, 409} /\ answers[i].tells \in Nat
    /\ asleep \in Nat /\ delays \in Nat /\ late \in Nat
    /\ outcome \in {Null, "passed", "failed", "crashed"}

\* No window the script relies on has closed under it.
InTime == late < HoldTTL /\ now < TokenTTL

\* The settings the script was written for, under which every number in it is
\* the one the secure application must answer with.
Documented ==
    /\ SeatQuotaDefault = 2 /\ HouseholdEntitlement = 4 /\ ReholdAllowance = 1
    /\ RegistrationCap = 3

\* "the secure application behaves as promised": with the documented settings,
\* and as long as no window closes under the script, every check passes, the
\* re-hold check after exactly the cycles that entitlement and allowance grant,
\* and the script leaves sold what it confirmed.
SecurePasses ==
    ~is_vulnerable(policy) /\ Documented /\ InTime /\ outcome # Null =>
        /\ outcome = "passed"
        /\ Cardinality(HoldsEver(PATRON_010)) = SeatQuotaDefault + ReholdAllowance
        /\ Len(tickets) = 2 + HouseholdEntitlement

\* And only then: an application that leaves any one of the three flow limits out
\* never gets through, however the script is held up.
PassesOnlySecure == outcome = "passed" => ~is_vulnerable(policy)

\* Every walkthrough comes to an end.
WalkthroughEnds == <>(outcome # Null)
==============================================================================
