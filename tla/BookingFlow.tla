----------------------------- MODULE BookingFlow -----------------------------
(***************************************************************************)
(* The venue's database and the three booking transactions that write it:  *)
(* register a patron, place a hold, confirm a hold, and the two reads that *)
(* lapse overdue holds (src/src/flowjack/flow.py, limits.py, db.py and the *)
(* endpoints of app.py).  Database.transaction runs each of them under one *)
(* lock and rolls back on any exception, so a transaction is one action: a *)
(* request that is granted commits every row it wrote, and one that is     *)
(* refused leaves the tables as they were, the holds it had just lapsed    *)
(* included.  The application is created with one policy and keeps it, so  *)
(* the same module is the secure application and the vulnerable ones.      *)
(***************************************************************************)
EXTENDS Integers, Sequences, FiniteSets, Policy

CONSTANTS
    FixturePatrons,          \* patrons seeded with created_via = 'fixture'
    HouseholdPatron,         \* the one that carries the higher entitlement
    EligibilityRefs,         \* single-use references issued out of band
    Null,                    \* SQL NULL; as an input, no or an unknown reference
    SeatsAllocated, SeatQuotaDefault, HouseholdEntitlement,
    HoldTTL, ReholdAllowance, RegistrationCap, TokenTTL,
    Policies,                \* the policies an application may be created with
    MaxTime,                 \* bound: the clock stays in 0..MaxTime
    MaxHolds,                \* bound: rows of the holds table
    MaxSelfService           \* bound: self-service patrons

ASSUME PatronsAssumption ==
    /\ IsFiniteSet(FixturePatrons) /\ HouseholdPatron \in FixturePatrons
    /\ FixturePatrons \cap Nat = {}
    /\ Null \notin FixturePatrons \cup Nat \cup EligibilityRefs
ASSUME SettingsAssumption ==
    /\ {SeatsAllocated, SeatQuotaDefault, HouseholdEntitlement} \subseteq Nat
    /\ {ReholdAllowance, RegistrationCap} \subseteq Nat
    /\ {HoldTTL, TokenTTL} \subseteq Nat \ {0}
ASSUME PolicyAssumption == Policies \subseteq AnyPolicy({p.name : p \in Policies})
ASSUME BoundsAssumption == {MaxTime, MaxHolds, MaxSelfService} \subseteq Nat

VARIABLES
    policy,         \* create_app's
    now,            \* what the injected clock reads
    patrons,        \* table patrons: the ids present
    tokens,         \* table tokens: expires_at of each patron's token
    consumedBy,     \* table eligibility_refs: the patron that spent each, or Null
    registrations,  \* table registrations
    holds,          \* table holds; HOLD-n is holds[n]
    flows,          \* table flow_states; FLOW-n, whose hold_id is HOLD-n
    tickets         \* table tickets; TICKET-n is tickets[n]

db == <<patrons, tokens, consumedBy, registrations, holds, flows, tickets>>
vars == <<policy, now, db>>

SeatQuota == policy.seat_quota                             \* strategy A
GovernedIdentitySupply == policy.governed_identity_supply  \* strategy B
FlowState == policy.flow_state                             \* strategy C

-----------------------------------------------------------------------------
(* Rows.  PATRON-SS-n is the number n. *)

Seats == 1..SeatsAllocated
PatronIds == FixturePatrons \cup (Nat \ {0})
Shows == {"SHOW-2026-11-07"}
ShowIds == Shows \cup {"SHOW-unknown"}     \* what a path may name

HoldRows == [seat : Seats, patron : PatronIds, expires : Int,
             state : {"held", "confirmed", "expired"}]
FlowRows == [patron : PatronIds, step : {"held", "confirmed"}]
TicketRows == [hold : Nat \ {0}, seat : Seats, patron : PatronIds]
RegistrationRows == [patron : PatronIds, ref : EligibilityRefs]

SelfService == patrons \ FixturePatrons
SeatEntitlement(p) ==
    IF p = HouseholdPatron THEN HouseholdEntitlement ELSE SeatQuotaDefault

(* The holds with one patron, or on one seat, in one state. *)
HoldsOf(hs, p, state) == {h \in DOMAIN hs : hs[h].patron = p /\ hs[h].state = state}
HoldsOn(hs, s, state) == {h \in DOMAIN hs : hs[h].seat = s /\ hs[h].state = state}
TicketsOf(p) == {t \in DOMAIN tickets : tickets[t].patron = p}
TicketsOn(s) == {t \in DOMAIN tickets : tickets[t].seat = s}

-----------------------------------------------------------------------------
(* The helpers of limits.py, with the faults that would break them beside. *)

\* Fault: the UPDATE also lapses what is confirmed.
DueIgnoringState(h) == holds[h].expires <= now
Due(h) == holds[h].state = "held" /\ holds[h].expires <= now

\* expire_due_holds: the holds table once every overdue hold has lapsed.
Lapsed ==
    [h \in DOMAIN holds |->
        IF Due(h) THEN [holds[h] EXCEPT !.state = "expired"] ELSE holds[h]]

\* Faults: holding is free; letting a hold lapse always gives its seat back.
SeatsChargedTicketsOnly(hs, p) == Cardinality(TicketsOf(p))
SeatsChargedAllForgiven(hs, p) ==
    Cardinality(HoldsOf(hs, p, "held")) + Cardinality(TicketsOf(p))
SeatsCharged(hs, p) ==
    LET expired == Cardinality(HoldsOf(hs, p, "expired"))
        forgiven == IF expired <= ReholdAllowance THEN expired ELSE ReholdAllowance
    IN  Cardinality(HoldsOf(hs, p, "held")) + Cardinality(TicketsOf(p))
            + (expired - forgiven)

\* Fault: > for >=.
WithinSeatEntitlementOffByOne(hs, p) == SeatsCharged(hs, p) <= SeatEntitlement(p)
WithinSeatEntitlement(hs, p) == SeatsCharged(hs, p) < SeatEntitlement(p)

\* Fault: the cap is not looked at.
IdentityGrantedUncapped(ref) ==
    ref \in EligibilityRefs /\ consumedBy[ref] = Null
IdentityGranted(ref) ==
    /\ Len(registrations) < RegistrationCap
    /\ ref \in EligibilityRefs /\ consumedBy[ref] = Null

-----------------------------------------------------------------------------
(* flow.py *)

\* Faults: a ticketed seat is free again; a held seat is free.
FreeSeatsIgnoringTickets(hs) == {s \in Seats : HoldsOn(hs, s, "held") = {}}
FreeSeatsIgnoringHolds(hs) == {s \in Seats : TicketsOn(s) = {}}
FreeSeats(hs) ==
    {s \in Seats : HoldsOn(hs, s, "held") = {} /\ TicketsOn(s) = {}}

\* ORDER BY seat_id LIMIT 1.  Fault: seats counted from zero.
LowestSeatFromZero(free) == (CHOOSE s \in free : \A t \in free : s <= t) - 1
LowestSeat(free) == CHOOSE s \in free : \A t \in free : s <= t

HoldAdmitted(hs, p, show) ==
    /\ show \in Shows
    /\ SeatQuota => WithinSeatEntitlement(hs, p)
    /\ FreeSeats(hs) # {}

\* Faults: the lapsed state, or the flow's owner, is not looked at.
ConfirmAdmittedLapsed(hs, p, h) ==
    /\ h \in DOMAIN flows /\ hs[h].state # "confirmed"
    /\ FlowState => flows[h].patron = p /\ flows[h].step = "held"
ConfirmAdmittedAnyPatron(hs, p, h) ==
    h \in DOMAIN flows /\ hs[h].state = "held"
ConfirmAdmitted(hs, p, h) ==
    /\ h \in DOMAIN flows /\ hs[h].state = "held"
    /\ FlowState => flows[h].patron = p /\ flows[h].step = "held"

\* The row a granted hold inserts.
HoldRow(hs, p) ==
    [seat |-> LowestSeat(FreeSeats(hs)), patron |-> p,
     expires |-> now + HoldTTL, state |-> "held"]

HoldsAfterConfirm(hs, h) == [hs EXCEPT ![h].state = "confirmed"]

\* Fault: the flow is left open at step 'held'.
FlowsAfterConfirmUnmarked(h) == flows
FlowsAfterConfirm(h) == [flows EXCEPT ![h].step = "confirmed"]

\* Fault: a reference that was used is still good.
ConsumedAfterUnspent(ref, id) == consumedBy
ConsumedAfter(ref, id) == [consumedBy EXCEPT ![ref] = id]

-----------------------------------------------------------------------------
Init ==
    /\ policy \in Policies
    /\ now = 0
    /\ patrons = FixturePatrons
    /\ tokens = [p \in FixturePatrons |-> TokenTTL]
    /\ consumedBy = [r \in EligibilityRefs |-> Null]
    /\ registrations = << >> /\ holds = << >> /\ flows = << >> /\ tickets = << >>

\* register_patron: the new patron, its token and, under governance, the
\* reference it costs and the registration that counts against the cap.
RegisterPatron(ref) ==
    LET id == Cardinality(SelfService) + 1 IN
    /\ Cardinality(SelfService) < MaxSelfService
    /\ GovernedIdentitySupply => IdentityGranted(ref)
    /\ patrons' = patrons \cup {id}
    /\ tokens' = [p \in patrons \cup {id} |->
                    IF p = id THEN now + TokenTTL ELSE tokens[p]]
    /\ \/ /\ GovernedIdentitySupply
          /\ consumedBy' = ConsumedAfter(ref, id)
          /\ registrations' = Append(registrations, [patron |-> id, ref |-> ref])
       \/ /\ ~GovernedIdentitySupply
          /\ UNCHANGED <<consumedBy, registrations>>
    /\ UNCHANGED <<policy, now, holds, flows, tickets>>

\* place_hold, granted: overdue holds lapse, then the lowest free seat is held
\* and the flow is recorded as entered.
PlaceHold(p, show) ==
    /\ Len(holds) < MaxHolds
    /\ HoldAdmitted(Lapsed, p, show)
    /\ holds' = Append(Lapsed, HoldRow(Lapsed, p))
    /\ flows' = Append(flows, [patron |-> p, step |-> "held"])
    /\ UNCHANGED <<policy, now, patrons, tokens, consumedBy, registrations, tickets>>

\* confirm_hold, granted: the ticket goes to the patron that confirms.
ConfirmHold(p, h) ==
    /\ ConfirmAdmitted(Lapsed, p, h)
    /\ tickets' = Append(tickets, [hold |-> h, seat |-> holds[h].seat, patron |-> p])
    /\ holds' = HoldsAfterConfirm(Lapsed, h)
    /\ flows' = FlowsAfterConfirm(h)
    /\ UNCHANGED <<policy, now, patrons, tokens, consumedBy, registrations>>

\* get_show and get_allocation: a read of the show commits the lapses it sees.
ReadShow(show) ==
    /\ show \in Shows
    /\ holds' = Lapsed
    /\ UNCHANGED <<policy, now, patrons, tokens, consumedBy, registrations, flows, tickets>>

\* FlowLimitRefusedError, from any of the transactions: ROLLBACK.
RefuseRegistration(ref) ==
    GovernedIdentitySupply /\ ~IdentityGranted(ref) /\ UNCHANGED vars
RefuseHold(p, show) == ~HoldAdmitted(Lapsed, p, show) /\ UNCHANGED vars
RefuseConfirm(p, h) == ~ConfirmAdmitted(Lapsed, p, h) /\ UNCHANGED vars
RefuseRead(show) == show \notin Shows /\ UNCHANGED vars

\* One request of a patron whose token was accepted, or of anybody.
Request ==
    \/ \E ref \in EligibilityRefs \cup {Null} :
          RegisterPatron(ref) \/ RefuseRegistration(ref)
    \/ \E p \in patrons, show \in ShowIds : PlaceHold(p, show) \/ RefuseHold(p, show)
    \/ \E p \in patrons, h \in 1..(Len(holds) + 1) :
          ConfirmHold(p, h) \/ RefuseConfirm(p, h)
    \/ \E show \in ShowIds : ReadShow(show) \/ RefuseRead(show)

Tick == now < MaxTime /\ now' = now + 1 /\ UNCHANGED <<policy, db>>

\* SystemClock is time.time(), which an adjustment of the host may set back.
ClockStepsBack == now > 0 /\ now' = now - 1 /\ UNCHANGED <<policy, db>>

Next == Request \/ Tick \/ ClockStepsBack

Spec == Init /\ [][Next]_vars

-----------------------------------------------------------------------------
TypeOK ==
    /\ policy \in Policies
    /\ now \in 0..MaxTime
    /\ FixturePatrons \subseteq patrons /\ patrons \subseteq PatronIds
    /\ IsFiniteSet(patrons)
    /\ tokens \in [patrons -> Int]
    /\ consumedBy \in [EligibilityRefs -> PatronIds \cup {Null}]
    /\ registrations \in Seq(RegistrationRows)
    /\ holds \in Seq(HoldRows) /\ flows \in Seq(FlowRows) /\ tickets \in Seq(TicketRows)
    /\ Len(flows) = Len(holds)

(* What one patron has: seats held or ticketed, and every hold ever placed. *)
SeatsClaimed(p) ==
    Cardinality(HoldsOf(holds, p, "held")) + Cardinality(TicketsOf(p))
HoldsEver(p) == {h \in DOMAIN holds : holds[h].patron = p}

\* get_show and get_allocation: allocated - held - confirmed, after the lapse.
SeatsAvailable ==
    SeatsAllocated
        - Cardinality({h \in DOMAIN Lapsed : Lapsed[h].state = "held"}) - Len(tickets)

\* No seat is claimed twice, by two live holds, two tickets or one of each,
\* although nothing in the schema makes seat_id unique: a seat is only ever
\* reassigned once place_hold has lapsed the hold before it.
SeatExclusive ==
    /\ \A h, k \in DOMAIN holds :
          holds[h].state = "held" /\ holds[k].state = "held"
            /\ holds[h].seat = holds[k].seat => h = k
    /\ \A t, u \in DOMAIN tickets : tickets[t].seat = tickets[u].seat => t = u
    /\ \A h \in DOMAIN holds, t \in DOMAIN tickets :
          holds[h].state = "held" => holds[h].seat # tickets[t].seat

\* The three tables of the flow agree: a hold is confirmed exactly when its
\* flow is finished and exactly when one ticket, on the same seat, names it;
\* with the flow state enforced the ticket belongs to whoever entered the flow.
FlowConsistent ==
    /\ \A h \in DOMAIN holds :
          /\ flows[h].patron = holds[h].patron
          /\ holds[h].state = "confirmed" <=> flows[h].step = "confirmed"
          /\ holds[h].state = "confirmed" <=> \E t \in DOMAIN tickets : tickets[t].hold = h
    /\ \A t \in DOMAIN tickets :
          /\ tickets[t].hold \in DOMAIN holds
          /\ tickets[t].seat = holds[tickets[t].hold].seat
          /\ FlowState => tickets[t].patron = holds[tickets[t].hold].patron
    /\ \A t, u \in DOMAIN tickets : tickets[t].hold = tickets[u].hold => t = u

\* Strategy A: no patron ever holds and owns more seats than its entitlement,
\* although the quota is looked at when a hold is placed and not when it is
\* confirmed (place_hold and confirm_hold of flow.py).
WithinEntitlement ==
    SeatQuota => \A p \in patrons : SeatsClaimed(p) <= SeatEntitlement(p)

\* Hold, let it lapse, hold again is not an unlimited flow: over the whole run a
\* patron places at most ReholdAllowance holds beyond its entitlement.
ReholdBounded ==
    SeatQuota /\ FlowState =>
        \A p \in patrons : Cardinality(HoldsEver(p)) <= SeatEntitlement(p) + ReholdAllowance

\* Strategy B: every self-service identity was granted once, for a reference of
\* its own that is now spent on it, and there are no more of them than the cap.
IdentitySupply ==
    GovernedIdentitySupply =>
        /\ Cardinality(SelfService) <= RegistrationCap
        /\ \A p \in SelfService :
              \E r \in EligibilityRefs :
                 consumedBy[r] = p /\ [patron |-> p, ref |-> r]
                                        \in {registrations[i] : i \in DOMAIN registrations}
        /\ \A r \in EligibilityRefs :
              Cardinality({i \in DOMAIN registrations : registrations[i].ref = r})
                = IF consumedBy[r] = Null THEN 0 ELSE 1

\* Settings.operator_seat_ceiling: under the secure policy all the self-service
\* identities together never claim more than the cap times the quota.
OperatorWithinCeiling ==
    SeatQuota /\ GovernedIdentitySupply /\ FlowState =>
        Cardinality({h \in DOMAIN holds :
                        holds[h].state = "held" /\ holds[h].patron \in SelfService})
          + Cardinality({t \in DOMAIN tickets : tickets[t].patron \in SelfService})
            <= RegistrationCap * SeatQuotaDefault

\* The allocation is at least what every identity may claim (with the defaults,
\* 120 seats against 40 * 2 + 4 + 3 * 2).
AllocationCoversEntitlements ==
    (Cardinality(FixturePatrons) - 1) * SeatQuotaDefault + HouseholdEntitlement
        + RegistrationCap * SeatQuotaDefault <= SeatsAllocated

\* What the secure policy is for: whatever the others hold, abandon or buy, a
\* patron with entitlement left is granted the next seat it asks for.
NobodyCrowdedOut ==
    SeatQuota /\ GovernedIdentitySupply /\ FlowState /\ AllocationCoversEntitlements =>
        \A p \in patrons, show \in Shows :
            WithinSeatEntitlement(Lapsed, p) => HoldAdmitted(Lapsed, p, show)

\* The seats_available a reader is shown is the number of seats the next
\* place_hold has to choose from, overdue holds counted as gone by both.
AvailabilityTruthful == SeatsAvailable = Cardinality(FreeSeats(Lapsed))

\* No transaction revives a lapsed hold, lapses a confirmed one, moves a hold to
\* another seat, patron or deadline, or takes a sold ticket back.
ResolvedIsFinal ==
    [][ /\ \A h \in DOMAIN holds :
              /\ h \in DOMAIN holds'
              /\ [holds[h] EXCEPT !.state = ""] = [holds'[h] EXCEPT !.state = ""]
              /\ holds[h].state # "held" => holds'[h].state = holds[h].state
        /\ \A t \in DOMAIN tickets : t \in DOMAIN tickets' /\ tickets'[t] = tickets[t]
      ]_<<holds, tickets>>

\* A ticket is sold only against a live claim: the hold was 'held', the clock
\* had not reached its deadline, and the step lapsed every overdue hold first.
SoldInTime ==
    [][ \A t \in DOMAIN tickets' \ DOMAIN tickets :
            LET h == tickets'[t].hold IN
            /\ holds[h].state = "held" /\ now < holds[h].expires
            /\ \A k \in DOMAIN holds' : holds'[k].state = "held" => now < holds'[k].expires
      ]_<<holds, tickets>>
==============================================================================
