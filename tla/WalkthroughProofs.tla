--------------------------- MODULE WalkthroughProofs ---------------------------
(***************************************************************************)
(* Theorems about Walkthrough: what the script shows of an application,    *)
(* for every setting, every policy and however slow the host is.           *)
(***************************************************************************)
EXTENDS Walkthrough, BookingFlowProofs
-----------------------------------------------------------------------------
(* The script, call by call. *)

\* A call of the script; what it is made by is a patron or a reference.
CallOf(kinds, who) ==
    [kind : kinds, by : who \cup {Null}, back : 0..4, expects : SUBSET {200, 201, 401, 409}]
AnyCall ==
    CallOf({"get", "hold", "confirm", "confirm_unknown", "confirm_granted", "register",
            "cycle"}, FixturePatrons \cup EligibilityRefs)

LEMMA ScriptedPatrons ==
    /\ {PATRON_001, PATRON_002, PATRON_003, PATRON_004, PATRON_005, PATRON_010}
          \subseteq FixturePatrons \ {HouseholdPatron}
    /\ PATRON_002 # PATRON_001 /\ PATRON_003 \notin {PATRON_001, PATRON_002}
    /\ PATRON_004 # PATRON_003
    /\ PATRON_010 \notin {PATRON_001, PATRON_002, PATRON_003}
<1>1. /\ DOMAIN Scripted = 1..6
      /\ Scripted[1] = PATRON_001 /\ Scripted[2] = PATRON_002 /\ Scripted[3] = PATRON_003
      /\ Scripted[4] = PATRON_004 /\ Scripted[5] = PATRON_005 /\ Scripted[6] = PATRON_010
  BY DEF Scripted
<1>2. \A i, j \in 1..6 : Scripted[i] = Scripted[j] => i = j
  BY <1>1, WalkthroughAssumption
<1>3. \A i \in 1..6 : Scripted[i] \in FixturePatrons \ {HouseholdPatron}
  BY <1>1, WalkthroughAssumption
<1>4. QED
  BY <1>1, <1>2, <1>3

LEMMA ScriptedRefs ==
    /\ \A i \in 1..4 : i \in DOMAIN ELIGIBILITY_REFS /\ ELIGIBILITY_REFS[i] \in EligibilityRefs
    /\ \A i, j \in 1..4 : ELIGIBILITY_REFS[i] = ELIGIBILITY_REFS[j] => i = j
<1>1. DOMAIN ELIGIBILITY_REFS = 1..Len(ELIGIBILITY_REFS) /\ Len(ELIGIBILITY_REFS) \in Nat
  BY WalkthroughAssumption, LenProperties
<1>2. QED
  BY <1>1, WalkthroughAssumption, ElementOfSeq

LEMMA CallTypes ==
    /\ Get \in AnyCall
    /\ \A p \in FixturePatrons \cup {Null} : \A status \in {201, 401, 409} :
          HoldBy(p, status) \in AnyCall
    /\ \A p \in FixturePatrons : \A back \in 0..4 : \A status \in {201, 409} :
          /\ ConfirmBy(p, back, status) \in AnyCall /\ ConfirmUnknown(p, back) \in AnyCall
          /\ ConfirmGranted(p, back) \in AnyCall /\ Cycle(p) \in AnyCall
    /\ \A ref \in EligibilityRefs \cup {Null} : \A status \in {201, 409} :
          RegisterWith(ref, status) \in AnyCall
  BY DEF Get, HoldBy, ConfirmBy, ConfirmUnknown, ConfirmGranted, Cycle, RegisterWith, Call,
         AnyCall, CallOf

LEMMA TimesType ==
    ASSUME NEW n \in Nat, NEW call \in AnyCall
    PROVE  /\ Times(n, call) \in Seq(AnyCall) /\ Len(Times(n, call)) = n
           /\ \A i \in 1..n : Times(n, call)[i] = call
<1>1. Times(n, call) \in [1..n -> AnyCall]
  BY DEF Times
<1>2. Times(n, call) \in Seq(AnyCall)
  BY <1>1, SeqDef
<1>3. QED
  BY <1>1, <1>2, LenProperties DEF Times

\* One part of the script after another.
LEMMA Joined ==
    ASSUME NEW a \in Seq(AnyCall), NEW b \in Seq(AnyCall), NEW c, c = a \o b
    PROVE  /\ c \in Seq(AnyCall) /\ Len(c) = Len(a) + Len(b)
           /\ \A i \in 1..(Len(a) + Len(b)) : c[i] = IF i <= Len(a) THEN a[i] ELSE b[i - Len(a)]
  BY ConcatProperties

(* A part of n calls, and a part that is two others in a row. *)
Calls(s, n) == s \in Seq(AnyCall) /\ Len(s) = n
InARow(c, a, b) == c = a \o b

LEMMA Appended ==
    ASSUME NEW m \in Nat, NEW n \in Nat, NEW a, NEW b, NEW c,
           Calls(a, m), Calls(b, n), InARow(c, a, b)
    PROVE  /\ Calls(c, m + n)
           /\ \A i \in 1..m : c[i] = a[i]
           /\ \A i \in (m + 1)..(m + n) : c[i] = b[i - m]
<1>1. /\ c \in Seq(AnyCall) /\ Len(c) = Len(a) + Len(b)
      /\ \A i \in 1..(Len(a) + Len(b)) : c[i] = IF i <= Len(a) THEN a[i] ELSE b[i - Len(a)]
  <2>1. a \in Seq(AnyCall) /\ b \in Seq(AnyCall) /\ c = a \o b
    BY DEF Calls, InARow
  <2>2. QED
    BY <2>1, Joined
<1>2. QED
  BY <1>1 DEF Calls

LEMMA TimesCalls ==
    ASSUME NEW n \in Nat, NEW call, call \in AnyCall
    PROVE  Calls(Times(n, call), n) /\ \A i \in 1..n : Times(n, call)[i] = call
  BY TimesType DEF Calls

LEMMA Generic401Calls ==
    /\ Calls(_check_generic_401, 4)
    /\ \A i \in 1..4 : _check_generic_401[i] = HoldBy(Null, 401)
<1>1. /\ HoldBy(Null, 401) \in AnyCall
  BY CallTypes, ScriptedPatrons, ScriptedRefs, PatronsAssumption
<1> DEFINE a == Times(4, HoldBy(Null, 401))
<1>2. /\ Calls(a, 4)
      /\ \A i \in 1..4 : a[i] = HoldBy(Null, 401)
  BY <1>1, TimesCalls
<1>3. _check_generic_401 = a
  BY DEF _check_generic_401
<1> HIDE DEF a
<1>4. QED
  BY <1>2, <1>3

LEMMA EntitlementCalls ==
    /\ Calls(_check_entitlement, 5)
    /\ \A i \in 1..2 : _check_entitlement[i] = HoldBy(PATRON_001, 201)
    /\ _check_entitlement[3] = HoldBy(PATRON_001, 409)
    /\ _check_entitlement[4] = ConfirmBy(PATRON_001, 3, 201)
    /\ _check_entitlement[5] = HoldBy(PATRON_001, 409)
<1>1. /\ HoldBy(PATRON_001, 201) \in AnyCall
      /\ HoldBy(PATRON_001, 409) \in AnyCall
      /\ ConfirmBy(PATRON_001, 3, 201) \in AnyCall
  BY CallTypes, ScriptedPatrons, ScriptedRefs, PatronsAssumption
<1>2. Calls(_check_entitlement, 5)
  BY <1>1 DEF Calls, _check_entitlement
<1>3. QED
  BY <1>2 DEF _check_entitlement

LEMMA HoldChargesEntitlementCalls ==
    /\ Calls(_check_hold_charges_entitlement, 3)
    /\ \A i \in 1..2 : _check_hold_charges_entitlement[i] = HoldBy(PATRON_002, 201)
    /\ _check_hold_charges_entitlement[3] = HoldBy(PATRON_002, 409)
<1> DEFINE a == Times(2, HoldBy(PATRON_002, 201))
           b == <<HoldBy(PATRON_002, 409)>>
<1>1. /\ HoldBy(PATRON_002, 201) \in AnyCall
      /\ HoldBy(PATRON_002, 409) \in AnyCall
  BY CallTypes, ScriptedPatrons, ScriptedRefs, PatronsAssumption
<1>2. /\ Calls(a, 2)
      /\ \A i \in 1..2 : a[i] = HoldBy(PATRON_002, 201)
  BY <1>1, TimesCalls
<1>3. /\ Calls(b, 1)
      /\ b[1] = HoldBy(PATRON_002, 409)
  BY <1>1 DEF Calls
<1> HIDE DEF a, b
<1>4. InARow(_check_hold_charges_entitlement, a, b)
  BY DEF InARow, _check_hold_charges_entitlement, a, b
<1>5. /\ Calls(_check_hold_charges_entitlement, 3)
      /\ \A i \in 1..2 : _check_hold_charges_entitlement[i] = a[i]
      /\ \A i \in 3..3 : _check_hold_charges_entitlement[i] = b[i - 2]
  <2>1. Calls(a, 2) /\ Calls(b, 1)
    BY <1>2, <1>3, <1>4
  <2>2. QED
    BY <1>4, <2>1, Appended
<1>6. QED
  BY <1>2, <1>3, <1>5

LEMMA FlowScopedEnforcementCalls ==
    /\ Calls(_check_flow_scoped_enforcement, 5)
    /\ _check_flow_scoped_enforcement[1] = HoldBy(PATRON_003, 201)
    /\ _check_flow_scoped_enforcement[2] = ConfirmUnknown(PATRON_004, 1)
    /\ _check_flow_scoped_enforcement[3] = ConfirmBy(PATRON_004, 2, 409)
    /\ _check_flow_scoped_enforcement[4] = ConfirmBy(PATRON_003, 3, 201)
    /\ _check_flow_scoped_enforcement[5] = ConfirmBy(PATRON_003, 4, 409)
<1>1. /\ HoldBy(PATRON_003, 201) \in AnyCall
      /\ ConfirmUnknown(PATRON_004, 1) \in AnyCall
      /\ ConfirmBy(PATRON_004, 2, 409) \in AnyCall
      /\ ConfirmBy(PATRON_003, 3, 201) \in AnyCall
      /\ ConfirmBy(PATRON_003, 4, 409) \in AnyCall
  BY CallTypes, ScriptedPatrons, ScriptedRefs, PatronsAssumption
<1>2. Calls(_check_flow_scoped_enforcement, 5)
  BY <1>1 DEF Calls, _check_flow_scoped_enforcement
<1>3. QED
  BY <1>2 DEF _check_flow_scoped_enforcement

LEMMA IdentitySupplyCalls ==
    /\ Calls(_check_identity_supply, 6)
    /\ _check_identity_supply[1] = RegisterWith(Null, 409)
    /\ _check_identity_supply[2] = RegisterWith(ELIGIBILITY_REFS[1], 201)
    /\ _check_identity_supply[3] = RegisterWith(ELIGIBILITY_REFS[2], 201)
    /\ _check_identity_supply[4] = RegisterWith(ELIGIBILITY_REFS[3], 201)
    /\ _check_identity_supply[5] = RegisterWith(ELIGIBILITY_REFS[1], 409)
    /\ _check_identity_supply[6] = RegisterWith(ELIGIBILITY_REFS[4], 409)
<1> DEFINE a == <<RegisterWith(Null, 409)>>
           b == [i \in 1..3 |-> RegisterWith(ELIGIBILITY_REFS[i], 201)]
           c == <<RegisterWith(ELIGIBILITY_REFS[1], 409), RegisterWith(ELIGIBILITY_REFS[4], 409)>>
           ab == a \o b
<1>1. /\ RegisterWith(Null, 409) \in AnyCall
      /\ RegisterWith(ELIGIBILITY_REFS[1], 201) \in AnyCall
      /\ RegisterWith(ELIGIBILITY_REFS[2], 201) \in AnyCall
      /\ RegisterWith(ELIGIBILITY_REFS[3], 201) \in AnyCall
      /\ RegisterWith(ELIGIBILITY_REFS[1], 409) \in AnyCall
      /\ RegisterWith(ELIGIBILITY_REFS[4], 409) \in AnyCall
  BY CallTypes, ScriptedPatrons, ScriptedRefs, PatronsAssumption
<1>2. /\ Calls(a, 1)
      /\ a[1] = RegisterWith(Null, 409)
  BY <1>1 DEF Calls
<1>3. /\ Calls(b, 3)
      /\ b[1] = RegisterWith(ELIGIBILITY_REFS[1], 201)
      /\ b[2] = RegisterWith(ELIGIBILITY_REFS[2], 201)
      /\ b[3] = RegisterWith(ELIGIBILITY_REFS[3], 201)
  <2>1. b \in [1..3 -> AnyCall]
    BY CallTypes, ScriptedRefs
  <2>2. QED
    BY <2>1, SeqDef, LenProperties DEF Calls
<1>4. /\ Calls(c, 2)
      /\ c[1] = RegisterWith(ELIGIBILITY_REFS[1], 409)
      /\ c[2] = RegisterWith(ELIGIBILITY_REFS[4], 409)
  BY <1>1 DEF Calls
<1> HIDE DEF a, b, c
<1>5. InARow(ab, a, b)
  BY DEF InARow
<1> HIDE DEF ab
<1>6. /\ Calls(ab, 4)
      /\ \A i \in 1..1 : ab[i] = a[i]
      /\ \A i \in 2..4 : ab[i] = b[i - 1]
  <2>1. Calls(a, 1) /\ Calls(b, 3)
    BY <1>2, <1>3, <1>5
  <2>2. QED
    BY <1>5, <2>1, Appended
<1>7. InARow(_check_identity_supply, ab, c)
  BY DEF InARow, _check_identity_supply, ab, a, b, c
<1>8. /\ Calls(_check_identity_supply, 6)
      /\ \A i \in 1..4 : _check_identity_supply[i] = ab[i]
      /\ \A i \in 5..6 : _check_identity_supply[i] = c[i - 4]
  <2>1. Calls(ab, 4) /\ Calls(c, 2)
    BY <1>4, <1>6, <1>7
  <2>2. QED
    BY <1>7, <2>1, Appended
<1>9. QED
  BY <1>2, <1>3, <1>4, <1>6, <1>8

LEMMA HouseholdBookingCalls ==
    /\ Calls(_check_household_booking, 9)
    /\ \A i \in 1..4 : _check_household_booking[i] = HoldBy(HouseholdPatron, 201)
    /\ \A i \in 5..8 : _check_household_booking[i] = ConfirmGranted(HouseholdPatron, 4)
    /\ _check_household_booking[9] = HoldBy(HouseholdPatron, 409)
<1> DEFINE a == Times(4, HoldBy(HouseholdPatron, 201))
           b == Times(4, ConfirmGranted(HouseholdPatron, 4))
           c == <<HoldBy(HouseholdPatron, 409)>>
           ab == a \o b
<1>1. /\ HoldBy(HouseholdPatron, 201) \in AnyCall
      /\ ConfirmGranted(HouseholdPatron, 4) \in AnyCall
      /\ HoldBy(HouseholdPatron, 409) \in AnyCall
  BY CallTypes, ScriptedPatrons, ScriptedRefs, PatronsAssumption
<1>2. /\ Calls(a, 4)
      /\ \A i \in 1..4 : a[i] = HoldBy(HouseholdPatron, 201)
  BY <1>1, TimesCalls
<1>3. /\ Calls(b, 4)
      /\ \A i \in 1..4 : b[i] = ConfirmGranted(HouseholdPatron, 4)
  BY <1>1, TimesCalls
<1>4. /\ Calls(c, 1)
      /\ c[1] = HoldBy(HouseholdPatron, 409)
  BY <1>1 DEF Calls
<1> HIDE DEF a, b, c
<1>5. InARow(ab, a, b)
  BY DEF InARow
<1> HIDE DEF ab
<1>6. /\ Calls(ab, 8)
      /\ \A i \in 1..4 : ab[i] = a[i]
      /\ \A i \in 5..8 : ab[i] = b[i - 4]
  <2>1. Calls(a, 4) /\ Calls(b, 4)
    BY <1>2, <1>3, <1>5
  <2>2. QED
    BY <1>5, <2>1, Appended
<1>7. InARow(_check_household_booking, ab, c)
  BY DEF InARow, _check_household_booking, ab, a, b, c
<1>8. /\ Calls(_check_household_booking, 9)
      /\ \A i \in 1..8 : _check_household_booking[i] = ab[i]
      /\ \A i \in 9..9 : _check_household_booking[i] = c[i - 8]
  <2>1. Calls(ab, 8) /\ Calls(c, 1)
    BY <1>4, <1>6, <1>7
  <2>2. QED
    BY <1>7, <2>1, Appended
<1>9. QED
  BY <1>2, <1>3, <1>4, <1>6, <1>8

LEMMA RefusalsAreIdenticalCalls ==
    /\ Calls(_check_refusals_are_identical, 3)
    /\ _check_refusals_are_identical[1] = HoldBy(PATRON_001, 409)
    /\ _check_refusals_are_identical[2] = ConfirmUnknown(PATRON_005, 0)
    /\ _check_refusals_are_identical[3] = RegisterWith(Null, 409)
<1>1. /\ HoldBy(PATRON_001, 409) \in AnyCall
      /\ ConfirmUnknown(PATRON_005, 0) \in AnyCall
      /\ RegisterWith(Null, 409) \in AnyCall
  BY CallTypes, ScriptedPatrons, ScriptedRefs, PatronsAssumption
<1>2. Calls(_check_refusals_are_identical, 3)
  BY <1>1 DEF Calls, _check_refusals_are_identical
<1>3. QED
  BY <1>2 DEF _check_refusals_are_identical

LEMMA ReholdAllowanceCalls ==
    /\ Calls(_check_rehold_allowance, 4)
    /\ \A i \in 1..3 : _check_rehold_allowance[i] = Cycle(PATRON_010)
    /\ _check_rehold_allowance[4] = HoldBy(PATRON_010, 409)
<1> DEFINE a == Times(3, Cycle(PATRON_010))
           b == <<HoldBy(PATRON_010, 409)>>
<1>1. /\ Cycle(PATRON_010) \in AnyCall
      /\ HoldBy(PATRON_010, 409) \in AnyCall
  BY CallTypes, ScriptedPatrons, ScriptedRefs, PatronsAssumption
<1>2. /\ Calls(a, 3)
      /\ \A i \in 1..3 : a[i] = Cycle(PATRON_010)
  BY <1>1, TimesCalls
<1>3. /\ Calls(b, 1)
      /\ b[1] = HoldBy(PATRON_010, 409)
  BY <1>1 DEF Calls
<1> HIDE DEF a, b
<1>4. InARow(_check_rehold_allowance, a, b)
  BY DEF InARow, _check_rehold_allowance, a, b
<1>5. /\ Calls(_check_rehold_allowance, 4)
      /\ \A i \in 1..3 : _check_rehold_allowance[i] = a[i]
      /\ \A i \in 4..4 : _check_rehold_allowance[i] = b[i - 3]
  <2>1. Calls(a, 3) /\ Calls(b, 1)
    BY <1>2, <1>3, <1>4
  <2>2. QED
    BY <1>4, <2>1, Appended
<1>6. QED
  BY <1>2, <1>3, <1>5

\* The forty calls, as run issues them one after the other.
LEMMA ScriptCalls ==
    /\ Calls(Script, 40)
    /\ Script[1] = Get
    /\ \A i \in 2..5 : Script[i] = HoldBy(Null, 401)
    /\ \A i \in 6..7 : Script[i] = HoldBy(PATRON_001, 201)
    /\ Script[8] = HoldBy(PATRON_001, 409)
    /\ Script[9] = ConfirmBy(PATRON_001, 3, 201)
    /\ Script[10] = HoldBy(PATRON_001, 409)
    /\ \A i \in 11..12 : Script[i] = HoldBy(PATRON_002, 201)
    /\ Script[13] = HoldBy(PATRON_002, 409)
    /\ Script[14] = HoldBy(PATRON_003, 201)
    /\ Script[15] = ConfirmUnknown(PATRON_004, 1)
    /\ Script[16] = ConfirmBy(PATRON_004, 2, 409)
    /\ Script[17] = ConfirmBy(PATRON_003, 3, 201)
    /\ Script[18] = ConfirmBy(PATRON_003, 4, 409)
    /\ Script[19] = RegisterWith(Null, 409)
    /\ Script[20] = RegisterWith(ELIGIBILITY_REFS[1], 201)
    /\ Script[21] = RegisterWith(ELIGIBILITY_REFS[2], 201)
    /\ Script[22] = RegisterWith(ELIGIBILITY_REFS[3], 201)
    /\ Script[23] = RegisterWith(ELIGIBILITY_REFS[1], 409)
    /\ Script[24] = RegisterWith(ELIGIBILITY_REFS[4], 409)
    /\ \A i \in 25..28 : Script[i] = HoldBy(HouseholdPatron, 201)
    /\ \A i \in 29..32 : Script[i] = ConfirmGranted(HouseholdPatron, 4)
    /\ Script[33] = HoldBy(HouseholdPatron, 409)
    /\ Script[34] = HoldBy(PATRON_001, 409)
    /\ Script[35] = ConfirmUnknown(PATRON_005, 0)
    /\ Script[36] = RegisterWith(Null, 409)
    /\ \A i \in 37..39 : Script[i] = Cycle(PATRON_010)
    /\ Script[40] = HoldBy(PATRON_010, 409)
<1> DEFINE s1 == <<Get>>
           s2 == s1 \o _check_generic_401
           s3 == s2 \o _check_entitlement
           s4 == s3 \o _check_hold_charges_entitlement
           s5 == s4 \o _check_flow_scoped_enforcement
           s6 == s5 \o _check_identity_supply
           s7 == s6 \o _check_household_booking
           s8 == s7 \o _check_refusals_are_identical
<1>1. Calls(s1, 1) /\ s1[1] = Get
  BY CallTypes DEF Calls
<1> HIDE DEF s1
<1>2. InARow(s2, s1, _check_generic_401)
  BY DEF InARow
<1> HIDE DEF s2
<1>3. /\ Calls(s2, 5)
      /\ \A i \in 1..1 : s2[i] = s1[i]
      /\ \A i \in 2..5 : s2[i] = _check_generic_401[i - 1]
  <2>1. Calls(s1, 1) /\ Calls(_check_generic_401, 4)
    BY <1>1, Generic401Calls
  <2>2. QED
    BY <1>2, <2>1, Appended
<1>4. InARow(s3, s2, _check_entitlement)
  BY DEF InARow
<1> HIDE DEF s3
<1>5. /\ Calls(s3, 10)
      /\ \A i \in 1..5 : s3[i] = s2[i]
      /\ \A i \in 6..10 : s3[i] = _check_entitlement[i - 5]
  <2>1. Calls(s2, 5) /\ Calls(_check_entitlement, 5)
    BY <1>3, EntitlementCalls
  <2>2. QED
    BY <1>4, <2>1, Appended
<1>6. InARow(s4, s3, _check_hold_charges_entitlement)
  BY DEF InARow
<1> HIDE DEF s4
<1>7. /\ Calls(s4, 13)
      /\ \A i \in 1..10 : s4[i] = s3[i]
      /\ \A i \in 11..13 : s4[i] = _check_hold_charges_entitlement[i - 10]
  <2>1. Calls(s3, 10) /\ Calls(_check_hold_charges_entitlement, 3)
    BY <1>5, HoldChargesEntitlementCalls
  <2>2. QED
    BY <1>6, <2>1, Appended
<1>8. InARow(s5, s4, _check_flow_scoped_enforcement)
  BY DEF InARow
<1> HIDE DEF s5
<1>9. /\ Calls(s5, 18)
      /\ \A i \in 1..13 : s5[i] = s4[i]
      /\ \A i \in 14..18 : s5[i] = _check_flow_scoped_enforcement[i - 13]
  <2>1. Calls(s4, 13) /\ Calls(_check_flow_scoped_enforcement, 5)
    BY <1>7, FlowScopedEnforcementCalls
  <2>2. QED
    BY <1>8, <2>1, Appended
<1>10. InARow(s6, s5, _check_identity_supply)
  BY DEF InARow
<1> HIDE DEF s6
<1>11. /\ Calls(s6, 24)
       /\ \A i \in 1..18 : s6[i] = s5[i]
       /\ \A i \in 19..24 : s6[i] = _check_identity_supply[i - 18]
  <2>1. Calls(s5, 18) /\ Calls(_check_identity_supply, 6)
    BY <1>9, IdentitySupplyCalls
  <2>2. QED
    BY <1>10, <2>1, Appended
<1>12. InARow(s7, s6, _check_household_booking)
  BY DEF InARow
<1> HIDE DEF s7
<1>13. /\ Calls(s7, 33)
       /\ \A i \in 1..24 : s7[i] = s6[i]
       /\ \A i \in 25..33 : s7[i] = _check_household_booking[i - 24]
  <2>1. Calls(s6, 24) /\ Calls(_check_household_booking, 9)
    BY <1>11, HouseholdBookingCalls
  <2>2. QED
    BY <1>12, <2>1, Appended
<1>14. InARow(s8, s7, _check_refusals_are_identical)
  BY DEF InARow
<1> HIDE DEF s8
<1>15. /\ Calls(s8, 36)
       /\ \A i \in 1..33 : s8[i] = s7[i]
       /\ \A i \in 34..36 : s8[i] = _check_refusals_are_identical[i - 33]
  <2>1. Calls(s7, 33) /\ Calls(_check_refusals_are_identical, 3)
    BY <1>13, RefusalsAreIdenticalCalls
  <2>2. QED
    BY <1>14, <2>1, Appended
<1>16. InARow(Script, s8, _check_rehold_allowance)
  BY DEF InARow, Script, s1, s2, s3, s4, s5, s6, s7, s8
<1>17. /\ Calls(Script, 40)
       /\ \A i \in 1..36 : Script[i] = s8[i]
       /\ \A i \in 37..40 : Script[i] = _check_rehold_allowance[i - 36]
  <2>1. Calls(s8, 36) /\ Calls(_check_rehold_allowance, 4)
    BY <1>15, ReholdAllowanceCalls
  <2>2. QED
    BY <1>16, <2>1, Appended
<1>18. QED
  BY <1>1, <1>3, <1>5, <1>7, <1>9, <1>11, <1>13, <1>15, <1>17,
     Generic401Calls, EntitlementCalls, HoldChargesEntitlementCalls, FlowScopedEnforcementCalls, IdentitySupplyCalls, HouseholdBookingCalls, RefusalsAreIdenticalCalls, ReholdAllowanceCalls

-----------------------------------------------------------------------------
(* What kind of call comes when, and by whom. *)

LEMMA CallKinds ==
    /\ Len(Script) = 40
    /\ \A i \in 1..40 : Script[i] \in AnyCall
    /\ \A i \in 1..40 : Script[i].kind = "get" <=> i = 1
    /\ \A i \in 1..40 : Script[i].kind = "hold" <=> i \in 2..8 \cup 10..14 \cup 25..28 \cup {33, 34, 40}
    /\ \A i \in 1..40 : Script[i].kind = "confirm" <=> i \in {9, 16, 17, 18}
    /\ \A i \in 1..40 : Script[i].kind = "confirm_unknown" <=> i \in {15, 35}
    /\ \A i \in 1..40 : Script[i].kind = "confirm_granted" <=> i \in 29..32
    /\ \A i \in 1..40 : Script[i].kind = "register" <=> i \in 19..24 \cup {36}
    /\ \A i \in 1..40 : Script[i].kind = "cycle" <=> i \in 37..39
<1>1. Len(Script) = 40 /\ \A i \in 1..40 : Script[i] \in AnyCall
  <2>1. Calls(Script, 40)
    BY ScriptCalls
  <2>2. QED
    BY <2>1, ElementOfSeq DEF Calls
<1>2. /\ Get.kind = "get"
      /\ \A p, status : HoldBy(p, status).kind = "hold"
      /\ \A p, back, status : ConfirmBy(p, back, status).kind = "confirm"
      /\ \A p, back : ConfirmUnknown(p, back).kind = "confirm_unknown"
      /\ \A p, back : ConfirmGranted(p, back).kind = "confirm_granted"
      /\ \A ref, status : RegisterWith(ref, status).kind = "register"
      /\ \A p : Cycle(p).kind = "cycle"
  BY DEF Get, HoldBy, ConfirmBy, ConfirmUnknown, ConfirmGranted, Cycle, RegisterWith, Call
<1>3. /\ Script[1].kind = "get"
      /\ \A i \in 2..8 \cup 10..14 \cup 25..28 \cup {33, 34, 40} : Script[i].kind = "hold"
      /\ \A i \in {9, 16, 17, 18} : Script[i].kind = "confirm"
      /\ \A i \in {15, 35} : Script[i].kind = "confirm_unknown"
      /\ \A i \in 29..32 : Script[i].kind = "confirm_granted"
      /\ \A i \in 19..24 \cup {36} : Script[i].kind = "register"
      /\ \A i \in 37..39 : Script[i].kind = "cycle"
  BY <1>2, ScriptCalls
<1> SUFFICES ASSUME NEW i \in 1..40
             PROVE  /\ Script[i].kind = "get" <=> i = 1
                    /\ Script[i].kind = "hold" <=> i \in 2..8 \cup 10..14 \cup 25..28 \cup {33, 34, 40}
                    /\ Script[i].kind = "confirm" <=> i \in {9, 16, 17, 18}
                    /\ Script[i].kind = "confirm_unknown" <=> i \in {15, 35}
                    /\ Script[i].kind = "confirm_granted" <=> i \in 29..32
                    /\ Script[i].kind = "register" <=> i \in 19..24 \cup {36}
                    /\ Script[i].kind = "cycle" <=> i \in 37..39
  BY <1>1
<1>4. CASE i = 1
  BY <1>3, <1>4
<1>5. CASE i \in 2..8 \cup 10..14 \cup 25..28 \cup {33, 34, 40}
  BY <1>3, <1>5
<1>6. CASE i \in {9, 16, 17, 18}
  BY <1>3, <1>6
<1>7. CASE i \in {15, 35}
  BY <1>3, <1>7
<1>8. CASE i \in 29..32
  BY <1>3, <1>8
<1>9. CASE i \in 19..24 \cup {36}
  BY <1>3, <1>9
<1>10. CASE i \in 37..39
  BY <1>3, <1>10
<1>11. QED
  BY <1>4, <1>5, <1>6, <1>7, <1>8, <1>9, <1>10

LEMMA CallBys ==
    \A i \in 1..40 :
        IF Script[i].kind = "register" THEN Script[i].by \in EligibilityRefs \cup {Null}
                                       ELSE Script[i].by \in FixturePatrons \cup {Null}
<1>1. /\ Get.by = Null
      /\ \A p, status : HoldBy(p, status).by = p
      /\ \A p, back, status : ConfirmBy(p, back, status).by = p
      /\ \A p, back : ConfirmUnknown(p, back).by = p
      /\ \A p, back : ConfirmGranted(p, back).by = p
      /\ \A ref, status : RegisterWith(ref, status).by = ref
      /\ \A p : Cycle(p).by = p
  BY DEF Get, HoldBy, ConfirmBy, ConfirmUnknown, ConfirmGranted, Cycle, RegisterWith, Call
<1>2. \A i \in {1} \cup 2..8 \cup 10..14 \cup 25..28 \cup {33, 34, 40}
         \cup {9, 16, 17, 18} \cup {15, 35} \cup 29..32 \cup 37..39 :
         Script[i].by \in FixturePatrons \cup {Null}
  BY <1>1, ScriptCalls, ScriptedPatrons, PatronsAssumption
<1>3. \A i \in 19..24 \cup {36} : Script[i].by \in EligibilityRefs \cup {Null}
  BY <1>1, ScriptCalls, ScriptedRefs
<1>4. QED
  BY <1>2, <1>3, CallKinds

(* The walkthrough does to the venue what its requests do, or lets it be     *)
(* while time passes.                                                        *)
Waits == UNCHANGED <<policy, db>> /\ now' \in 0..MaxTime /\ now' >= now

LEMMA TokensOfPatrons ==
    ASSUME TypeOK, Authentic PROVE By \in patrons
  BY DEF TypeOK, Authentic

LEMMA RequestStep ==
    ASSUME WalkTypeOK,
           ReadsShow \/ Unauthenticated \/ Holds \/ Cycles \/ Confirms \/ LeavesOut \/ Registers
    PROVE  [Next]_vars
<1>1. TypeOK /\ Len(Script) = 40 /\ (Running => at \in 1..40)
  BY CallKinds DEF WalkTypeOK, Running
<1>2. CASE ReadsShow
  <2>1. Shows \subseteq ShowIds
    BY DEF ShowIds
  <2>2. QED
    BY <1>2, <2>1 DEF ReadsShow, Next, Request
<1>3. ASSUME Holds \/ Cycles PROVE [Next]_vars
  <2>1. By \in patrons
    BY <1>1, <1>3, TokensOfPatrons DEF Holds, Cycles
  <2>2. PICK show \in Shows : PlaceHold(By, show) \/ RefuseHold(By, show)
    BY <1>3 DEF Holds, Cycles
  <2>3. show \in ShowIds
    BY DEF ShowIds
  <2>4. QED
    BY <2>1, <2>2, <2>3 DEF Next, Request
<1>4. CASE Confirms
  <2>1. By \in patrons
    BY <1>1, <1>4, TokensOfPatrons DEF Confirms
  <2>2. PICK h : ConfirmHold(By, h) \/ RefuseConfirm(By, h)
    BY <1>4 DEF Confirms
  <2>3. CASE RefuseConfirm(By, h)
    BY <2>3 DEF RefuseConfirm
  <2>4. CASE ConfirmHold(By, h)
    <3>1. h \in 1..(Len(holds) + 1)
      <4>1. h \in DOMAIN holds
        BY <1>1, <2>1, <2>4, ConfirmHoldRows DEF ConfirmedRows
      <4>2. DOMAIN holds = 1..Len(holds) /\ Len(holds) \in Nat
        BY <1>1, LenProperties DEF TypeOK
      <4>3. QED
        BY <4>1, <4>2
    <3>2. QED
      BY <2>1, <2>4, <3>1 DEF Next, Request
  <2>5. QED
    BY <2>2, <2>3, <2>4
<1>5. CASE Registers
  <2>1. By \in EligibilityRefs \cup {Null}
    BY <1>1, <1>5, CallBys DEF Registers, Now, By
  <2>2. QED
    BY <1>5, <2>1 DEF Registers, Next, Request
<1>6. CASE Unauthenticated \/ LeavesOut
  BY <1>6 DEF Unauthenticated, LeavesOut
<1>7. QED
  BY <1>2, <1>3, <1>4, <1>5, <1>6

LEMMA WalkStep ==
    ASSUME WalkTypeOK, [WalkNext]_walkVars PROVE [Next]_vars \/ Waits
<1>1. CASE Crash \/ Concludes \/ Ended \/ UNCHANGED walkVars
  BY <1>1 DEF Crash, Concludes, Ended, walkVars
<1>2. ASSUME Wakes \/ HeldUp PROVE Waits
  <2>1. now \in 0..MaxTime /\ MaxTime \in Nat /\ asleep \in Nat
    BY BoundsAssumption DEF TypeOK, WalkTypeOK
  <2>2. PICK d : Passes(d) /\ d \in Nat
    <3>1. CASE Wakes
      <4>1. asleep - now \in Nat
        BY <2>1, <3>1 DEF Wakes
      <4>2. QED
        BY <3>1, <4>1 DEF Wakes
    <3>2. CASE HeldUp
      BY <3>2, WalkthroughAssumption DEF HeldUp
    <3>3. QED
      BY <1>2, <3>1, <3>2
  <2>3. QED
    BY <2>1, <2>2 DEF Passes, Waits
<1>3. QED
  BY <1>1, <1>2, RequestStep DEF WalkNext, Walks

(* What the requests keep, a wait keeps too. *)
Venue == TypeOK /\ SeatExclusive /\ FlowConsistent /\ ChargesKept

LEMMA VenueStep == Venue /\ ([Next]_vars \/ Waits) => Venue'
<1>1. Venue /\ [Next]_vars => Venue'
  BY NextType, SeatStep, FlowStep, QuotaStep DEF Venue
<1>2. ASSUME Venue, Waits PROVE Venue'
  <2>1. /\ policy' = policy /\ patrons' = patrons /\ tokens' = tokens
        /\ consumedBy' = consumedBy /\ registrations' = registrations
        /\ holds' = holds /\ flows' = flows /\ tickets' = tickets /\ now' \in 0..MaxTime
    BY <1>2 DEF Waits, db
  <2>2. TypeOK'
    BY <1>2, <2>1 DEF Venue, TypeOK
  <2>3. SeatExclusive'
    BY <1>2, <2>1 DEF Venue, SeatExclusive
  <2>4. FlowConsistent'
    BY <1>2, <2>1 DEF Venue, FlowConsistent, FlowState
  <2>5. ChargesKept'
    BY <1>2, <2>1 DEF Venue, ChargesKept, FlowState, SeatQuota, SeatsCharged, SeatEntitlement,
                      Placed, Held, Ticketed, Expired, HoldsOf, HoldsEver, TicketsOf
  <2>6. QED
    BY <2>2, <2>3, <2>4, <2>5 DEF Venue
<1>3. QED
  BY <1>1, <1>2

LEMMA InitVenueWalk == WalkInit => Venue
  BY InitType, InitSeats, InitQuota DEF WalkInit, Venue, Init, FlowConsistent

-----------------------------------------------------------------------------
(* Type correctness of the walkthrough. *)

\* What one answer is written to, and where the script goes on.
LEMMA AnsweredRows ==
    ASSUME WalkTypeOK, at \in 1..40, NEW status, NEW tells, Answered(status, tells)
    PROVE  /\ at \notin DOMAIN answers /\ DOMAIN answers' = DOMAIN answers \cup {at}
           /\ answers'[at] = [status |-> status, tells |-> tells]
           /\ \A i \in DOMAIN answers : answers'[i] = answers[i]
<1>1. at \notin DOMAIN answers
  BY DEF WalkTypeOK
<1>2. QED
  BY <1>1 DEF Answered

LEMMA WalkInitType == WalkInit => WalkTypeOK
<1> SUFFICES ASSUME WalkInit PROVE WalkTypeOK
  OBVIOUS
<1>1. TypeOK /\ Len(Script) = 40
  BY InitType, CallKinds DEF WalkInit
<1>2. answers = << >> /\ DOMAIN answers = {}
  BY DEF WalkInit
<1>3. QED
  BY <1>1, <1>2 DEF WalkInit, WalkTypeOK

\* A call that is answered, or not made at all, keeps the types.
LEMMA WalkTypeKept ==
    ASSUME WalkTypeOK, TypeOK', at \in 1..40, at' \in (at + 1)..41,
           UNCHANGED <<delays, late, outcome>>, asleep' \in Nat,
           \/ UNCHANGED answers
           \/ \E status \in {200, 201, 401, 409}, tells \in Nat : Answered(status, tells)
    PROVE  WalkTypeOK'
<1>1. Len(Script) = 40 /\ Script' = Script
  BY CallKinds
<1>2. CASE UNCHANGED answers
  BY <1>1, <1>2 DEF WalkTypeOK
<1>3. ASSUME NEW status \in {200, 201, 401, 409}, NEW tells \in Nat, Answered(status, tells)
      PROVE  WalkTypeOK'
  <2>1. /\ DOMAIN answers' = DOMAIN answers \cup {at}
        /\ answers'[at] = [status |-> status, tells |-> tells]
        /\ \A i \in DOMAIN answers : answers'[i] = answers[i]
    BY <1>3, AnsweredRows
  <2>2. \A i \in DOMAIN answers' :
            answers'[i].status \in {200, 201, 401, 409} /\ answers'[i].tells \in Nat
    BY <2>1 DEF WalkTypeOK
  <2>3. DOMAIN answers' \subseteq 1..(at' - 1)
    BY <2>1 DEF WalkTypeOK
  <2>4. QED
    BY <1>1, <2>2, <2>3 DEF WalkTypeOK
<1>4. QED
  BY <1>2, <1>3

LEMMA SeatsToldType == Venue => SeatsAvailable \in Nat
<1> SUFFICES ASSUME Venue PROVE Cardinality(FreeSeats(Lapsed)) \in Nat
  BY SeatsAreCounted DEF Venue, AvailabilityTruthful
<1>1. FreeSeats(Lapsed) \in SUBSET (1..SeatsAllocated) /\ SeatsAllocated \in Nat
  BY SettingsAssumption DEF FreeSeats, Seats
<1>2. QED
  BY <1>1, RowSetsFinite

LEMMA WalkTypeStep ==
    ASSUME WalkTypeOK, Venue, [WalkNext]_walkVars PROVE WalkTypeOK'
<1>1. Len(Script) = 40 /\ Script' = Script /\ TypeOK'
  BY CallKinds, WalkStep, VenueStep DEF Venue
<1>2. Running => at \in 1..40 /\ at + 1 \in (at + 1)..41
  BY <1>1 DEF Running, WalkTypeOK
<1>3. asleep \in Nat /\ now \in Nat /\ HoldTTL \in Nat /\ TypeOK
  BY BoundsAssumption, SettingsAssumption DEF WalkTypeOK, TypeOK
<1>4. CASE ReadsShow
  BY <1>1, <1>2, <1>3, <1>4, SeatsToldType, WalkTypeKept DEF ReadsShow, Now, NextCall
<1>5. CASE Unauthenticated
  <2>1. at' \in (at + 1)..41
    <3>1. Script[at].kind = "cycle" => at \in 37..39
      BY <1>2, <1>5, CallKinds DEF Unauthenticated, Now
    <3>2. QED
      BY <1>1, <1>2, <1>5, <3>1 DEF Unauthenticated, Now
  <2>2. QED
    BY <1>2, <1>3, <1>5, <1>1, <2>1, WalkTypeKept DEF Unauthenticated, Now
<1>6. CASE Holds
  <2>1. Len(holds') \in Nat
    BY <1>1, LenProperties DEF TypeOK
  <2>2. QED
    BY <1>1, <1>2, <1>3, <1>6, <2>1, WalkTypeKept DEF Holds, Now, NextCall
<1>7. CASE Cycles
  <2>1. Len(holds') \in Nat
    BY <1>1, LenProperties DEF TypeOK
  <2>2. at \in 37..39 /\ now + Settle \in Nat
    <3>1. Script[at].kind = "cycle" /\ at \in 1..40
      BY <1>2, <1>7 DEF Cycles, Now
    <3>2. at \in 37..39
      BY <3>1, CallKinds
    <3>3. QED
      BY <1>3, <3>2 DEF Settle
  <2>3. at' \in (at + 1)..41 /\ asleep' \in Nat
    BY <1>1, <1>3, <1>7, <2>2 DEF Cycles, NextCall
  <2>4. QED
    BY <1>1, <1>2, <1>3, <1>7, <2>1, <2>3, WalkTypeKept DEF Cycles, Now
<1>8. CASE Confirms
  BY <1>1, <1>2, <1>3, <1>8, WalkTypeKept DEF Confirms, Now, NextCall
<1>9. CASE LeavesOut
  BY <1>1, <1>2, <1>3, <1>9, WalkTypeKept DEF LeavesOut, Now, NextCall
<1>10. CASE Registers
  BY <1>1, <1>2, <1>3, <1>10, WalkTypeKept DEF Registers, Now, NextCall
<1>11. CASE Crash \/ Concludes \/ Wakes \/ Ended \/ UNCHANGED walkVars
  BY <1>1, <1>11 DEF WalkTypeOK, Crash, Concludes, Wakes, Ended, walkVars, walk
<1>12. CASE HeldUp
  BY <1>1, <1>12, WalkthroughAssumption DEF WalkTypeOK, HeldUp
<1>13. QED
  BY <1>4, <1>5, <1>6, <1>7, <1>8, <1>9, <1>10, <1>11, <1>12 DEF WalkNext, Walks

LEMMA WalkAlwaysTyped == WalkSpec => [](WalkTypeOK /\ Venue)
<1>1. WalkInit => WalkTypeOK /\ Venue
  BY WalkInitType, InitVenueWalk
<1>2. (WalkTypeOK /\ Venue) /\ [WalkNext]_walkVars => (WalkTypeOK /\ Venue)'
  BY WalkTypeStep, WalkStep, VenueStep
<1>3. QED
  BY <1>1, <1>2, PTL DEF WalkSpec

\* The script stays within its forty calls and what it is told makes sense,
\* the seats a reader is shown included: no schedule, policy or setting makes
\* get_show's count negative (walkthrough.py, _seat_counts of app.py).
THEOREM WalkthroughIsTyped == WalkSpec => []WalkTypeOK
  BY WalkAlwaysTyped, PTL

-----------------------------------------------------------------------------
(* The script is a client like any other: a wait may be longer than a tick   *)
(* of BookingFlow, but it moves no seat.                                     *)

LEMMA WalkKnownStep ==
    Venue /\ PatronsKnown /\ ([Next]_vars \/ Waits) => PatronsKnown'
<1>1. ASSUME PatronsKnown, Waits PROVE PatronsKnown'
  BY <1>1 DEF Waits, db, PatronsKnown
<1>2. QED
  BY <1>1, KnownStep DEF Venue

LEMMA WalkAllocationStep ==
    ASSUME Venue, Venue', PatronsKnown, [Next]_vars \/ Waits
    PROVE  [Allocation!AllocationNext]_<<
               [bounded |-> SeatQuota /\ FlowState, holder_buys |-> FlowState],
               [s \in Seats |-> SeatClaim(s)]>>
<1>1. CASE [Next]_vars
  BY <1>1, AllocationStep DEF Venue
<1>2. CASE Waits
  <2>1. policy' = policy /\ holds' = holds /\ tickets' = tickets
    BY <1>2 DEF Waits, db
  <2>2. SeatQuota' = SeatQuota /\ FlowState' = FlowState
    BY <2>1 DEF SeatQuota, FlowState
  <2>3. [s \in Seats |-> SeatClaim(s)]' = [s \in Seats |-> SeatClaim(s)]
    BY <2>1 DEF SeatClaim, TicketsOn, HoldsOn, Seats
  <2>4. QED
    BY <2>2, <2>3
<1>3. QED
  BY <1>1, <1>2

\* Against an application with any of the flow limits or none, and however the
\* host is held up, what the script does (walkthrough.py, run) is a history of
\* seats taken when free, sold when held and let lapse when due, on the terms of
\* the application's policy.
THEOREM WalkthroughImplementsAllocation == WalkSpec => ImplementsAllocation
<1>1. WalkInit => Allocation!AllocationInit
  BY InitAllocates DEF WalkInit
<1>2. WalkInit => PatronsKnown
  BY InitKnown DEF WalkInit
<1>3. WalkTypeOK /\ Venue /\ PatronsKnown /\ [WalkNext]_walkVars => PatronsKnown'
  BY WalkStep, WalkKnownStep
<1>4. WalkTypeOK /\ Venue /\ Venue' /\ PatronsKnown /\ [WalkNext]_walkVars =>
        [Allocation!AllocationNext]_<<
            [bounded |-> SeatQuota /\ FlowState, holder_buys |-> FlowState],
            [s \in Seats |-> SeatClaim(s)]>>
  BY WalkStep, WalkAllocationStep
<1>5. QED
  BY <1>1, <1>2, <1>3, <1>4, WalkAlwaysTyped, PTL
     DEF WalkSpec, ImplementsAllocation, Allocation!AllocationSpec

-----------------------------------------------------------------------------
(* Only a secure application passes.  Each of the three flow limits is what  *)
(* one answer of the script takes: the third hold of one patron is refused   *)
(* although seats are left (call 8), a hold that is good enough for its      *)
(* owner is refused to another patron (16 and 17), and nobody registers      *)
(* without a reference (19).                                                 *)

AllMet == \A i \in DOMAIN answers : Meets(i)
Gone(h) == holds[h].state # "held" \/ holds[h].expires <= now

Proved ==
    /\ \A i \in 1..36 : i < at => i \in DOMAIN answers
    /\ at > 8 => SeatQuota \/ SeatsAllocated <= 2
    /\ at = 17 => FlowState \/ Gone(answers[14].tells)
    /\ at > 17 => FlowState
    /\ at > 19 => GovernedIdentitySupply
    /\ (at > 9 => Len(tickets) >= 1) /\ (at > 17 => Len(tickets) >= 2)
    /\ at > 29 => Len(tickets) >= 3

PassInv ==
    /\ at <= 8 => Len(holds) = 0 \/ Len(holds) <= at - 6
    /\ at <= 9 => Len(tickets) = 0
    /\ at \in 15..17 /\ 14 \in DOMAIN answers /\ answers[14].status = 201 =>
          answers[14].tells \in DOMAIN holds
    /\ AllMet => Proved
    /\ outcome = "passed" => AllMet /\ at > 40

LEMMA CallParts ==
    /\ \A p, status : LET c == HoldBy(p, status) IN
          c.kind = "hold" /\ c.by = p /\ c.back = 0 /\ c.expects = {status}
    /\ \A p, back, status : LET c == ConfirmBy(p, back, status) IN
          c.kind = "confirm" /\ c.by = p /\ c.back = back /\ c.expects = {status}
    /\ \A p, back : LET c == ConfirmUnknown(p, back) IN
          c.kind = "confirm_unknown" /\ c.by = p /\ c.back = back /\ c.expects = {409}
    /\ \A p, back : LET c == ConfirmGranted(p, back) IN
          c.kind = "confirm_granted" /\ c.by = p /\ c.back = back /\ c.expects = {201}
    /\ \A ref, status : LET c == RegisterWith(ref, status) IN
          c.kind = "register" /\ c.by = ref /\ c.back = 0 /\ c.expects = {status}
    /\ \A p : LET c == Cycle(p) IN
          c.kind = "cycle" /\ c.by = p /\ c.back = 0 /\ c.expects = {201, 401, 409}
  BY DEF HoldBy, ConfirmBy, ConfirmUnknown, ConfirmGranted, Cycle, RegisterWith, Call

LEMMA InitPass == WalkInit => PassInv
<1> SUFFICES ASSUME WalkInit PROVE PassInv
  OBVIOUS
<1>1. at = 1 /\ DOMAIN answers = {} /\ Len(holds) = 0 /\ Len(tickets) = 0
  BY DEF WalkInit, Init
<1>2. outcome # "passed"
  BY WalkthroughAssumption DEF WalkInit
<1>3. QED
  BY <1>1, <1>2 DEF PassInv, Proved

LEMMA TicketsGrow ==
    ASSUME TypeOK, [Next]_vars
    PROVE  Len(tickets') >= Len(tickets) /\ Len(tickets) \in Nat /\ Len(tickets') \in Nat
<1>1. TypeOK'
  BY NextType
<1>2. /\ Len(tickets) \in Nat /\ DOMAIN tickets = 1..Len(tickets)
      /\ Len(tickets') \in Nat /\ DOMAIN tickets' = 1..Len(tickets')
  BY <1>1, LenProperties DEF TypeOK
<1>3. CASE Final
  <2>1. DOMAIN tickets \subseteq DOMAIN tickets'
    BY <1>3 DEF Final
  <2>2. Len(tickets) = 0 \/ Len(tickets) \in DOMAIN tickets
    BY <1>2
  <2>3. QED
    BY <1>2, <2>1, <2>2
<1>4. QED
  BY <1>2, <1>3, FinalStep

LEMMA SeatsRunOut ==
    ASSUME Venue, FreeSeats(Lapsed) = {}
    PROVE  SeatsAllocated <= Len(holds) + Len(tickets)
<1> DEFINE H == {h \in DOMAIN Lapsed : Lapsed[h].state = "held"}
<1>1. Len(holds) \in Nat /\ DOMAIN Lapsed = 1..Len(holds) /\ Len(tickets) \in Nat
      /\ SeatsAllocated \in Nat
  BY LapsedRows, LenProperties, SettingsAssumption DEF Venue, TypeOK, LapseKeepsRows
<1>2. SeatsAllocated - Cardinality(H) - Len(tickets) = 0
  BY SeatsAreCounted, FS_EmptySet DEF Venue, AvailabilityTruthful, SeatsAvailable
<1>3. H \subseteq 1..Len(holds) /\ IsFiniteSet(1..Len(holds)) /\ Cardinality(1..Len(holds)) = Len(holds)
  BY <1>1, IntervalCount
<1> HIDE DEF H
<1>4. Cardinality(H) <= Len(holds) /\ Cardinality(H) \in Nat
  BY <1>3, FS_Subset, FS_CardinalityType
<1>5. QED
  BY <1>1, <1>2, <1>4

\* The script is where it was, and so is all that it goes by.
Unmoved ==
    /\ UNCHANGED <<policy, db, at, answers>> /\ now' \in 0..MaxTime /\ now' >= now
    /\ outcome' # outcome => outcome' = "crashed" \/ (at > 40 /\ outcome' \in {"passed", "failed"})
    /\ outcome' = "passed" => outcome = "passed" \/ AllMet

LEMMA MovesOrNot ==
    ASSUME WalkTypeOK, [WalkNext]_walkVars
    PROVE  \/ Unmoved
           \/ /\ at \in 1..40 /\ Running /\ outcome' = outcome
              /\ ReadsShow \/ Unauthenticated \/ Holds \/ Cycles \/ Confirms \/ LeavesOut \/ Registers
<1>1. now \in 0..MaxTime /\ MaxTime \in Nat /\ asleep \in Nat /\ Len(Script) = 40 /\ at \in Nat
  BY CallKinds, BoundsAssumption DEF WalkTypeOK, TypeOK
<1>2. CASE Crash \/ Ended \/ UNCHANGED walkVars
  BY <1>1, <1>2, WalkthroughAssumption DEF Crash, Ended, walkVars, walk, vars, db, Unmoved
<1>3. CASE Concludes
  BY <1>1, <1>3 DEF Concludes, vars, Unmoved, AllMet
<1>4. CASE Wakes
  BY <1>1, <1>4 DEF Wakes, Passes, walk, Unmoved
<1>5. CASE HeldUp
  BY <1>1, <1>5, WalkthroughAssumption DEF HeldUp, Passes, Unmoved
<1>6. ASSUME ReadsShow \/ Unauthenticated \/ Holds \/ Cycles \/ Confirms \/ LeavesOut \/ Registers
      PROVE  at \in 1..40 /\ Running /\ outcome' = outcome
  <2>1. Running /\ outcome' = outcome
    BY <1>6 DEF ReadsShow, Unauthenticated, Holds, Cycles, Confirms, LeavesOut, Registers, Now
  <2>2. QED
    BY <1>1, <2>1 DEF Running, WalkTypeOK
<1>7. QED
  BY <1>2, <1>3, <1>4, <1>5, <1>6 DEF WalkNext, Walks

LEMMA MetAt14 ==
    ASSUME PassInv, AllMet, at \in 15..37
    PROVE  14 \in DOMAIN answers /\ answers[14].status = 201
<1>1. 14 \in DOMAIN answers
  BY DEF PassInv, Proved
<1>2. Script[14].expects = {201}
  BY ScriptCalls, CallParts
<1>3. QED
  BY <1>1, <1>2 DEF AllMet, Meets

LEMMA UnmovedPass == ASSUME PassInv, WalkTypeOK, Unmoved PROVE PassInv'
<1>1. /\ policy' = policy /\ holds' = holds /\ tickets' = tickets /\ at' = at /\ answers' = answers
      /\ now' >= now /\ now \in Int /\ now' \in Int /\ Script' = Script
  BY BoundsAssumption DEF Unmoved, db, WalkTypeOK, TypeOK
<1>2. AllMet' <=> AllMet
  BY <1>1 DEF AllMet, Meets
<1>3. ASSUME at = 17, PassInv, AllMet PROVE FlowState \/ Gone(answers[14].tells)'
  <2>1. FlowState \/ Gone(answers[14].tells)
    BY <1>3 DEF PassInv, Proved
  <2>2. CASE Gone(answers[14].tells)
    <3>1. answers[14].tells \in DOMAIN holds
      BY <1>3, MetAt14 DEF PassInv
    <3>2. holds[answers[14].tells].expires \in Int
      BY <3>1, TimesAreInts DEF WalkTypeOK
    <3>3. QED
      BY <1>1, <2>2, <3>2 DEF Gone
  <2>3. QED
    BY <2>1, <2>2
<1>4. AllMet => Proved'
  BY <1>1, <1>3 DEF PassInv, Proved, FlowState, SeatQuota, GovernedIdentitySupply
<1>5. outcome' = "passed" => AllMet' /\ at > 40
  BY <1>2 DEF Unmoved, PassInv
<1>6. QED
  BY <1>1, <1>2, <1>4, <1>5 DEF PassInv

\* What an answer shows if it is the expected one.
LEMMA MadeMet ==
    ASSUME WalkTypeOK, at \in 1..40, NEW status, NEW tells, Answered(status, tells), AllMet'
    PROVE  /\ AllMet /\ status \in Script[at].expects
           /\ \A i \in DOMAIN answers : i \in DOMAIN answers' /\ answers'[i] = answers[i]
           /\ at \in DOMAIN answers'
<1>1. /\ at \notin DOMAIN answers /\ DOMAIN answers' = DOMAIN answers \cup {at}
      /\ answers'[at] = [status |-> status, tells |-> tells]
      /\ \A i \in DOMAIN answers : answers'[i] = answers[i]
  BY AnsweredRows
<1>2. \A i \in DOMAIN answers' :
         /\ answers'[i].status \in Script[i].expects
         /\ Script[i].kind = "get" => answers'[i].tells = SeatsAllocated
  BY DEF AllMet, Meets
<1>3. QED
  BY <1>1, <1>2 DEF AllMet, Meets

\* The script reads no hold_id that is not there, as long as all went well.
LEMMA MetHoldIds ==
    ASSUME WalkTypeOK, AllMet, Proved, at \in 29..32
    PROVE  HoldIdRead
<1>1. Script[at].back = 4 /\ at - 4 \in 25..28
  BY ScriptCalls, CallParts
<1>2. at - 4 \in DOMAIN answers /\ Script[at - 4].expects = {201}
  <2>1. at - 4 \in DOMAIN answers
    BY <1>1 DEF Proved
  <2>2. \A i \in 25..28 : Script[i].expects = {201}
    BY ScriptCalls, CallParts
  <2>3. QED
    BY <1>1, <2>1, <2>2
<1>3. QED
  BY <1>1, <1>2 DEF AllMet, Meets, HoldIdRead, Earlier

LEMMA OnToTheNext ==
    ASSUME WalkTypeOK, at \in 1..40,
           ReadsShow \/ Unauthenticated \/ Holds \/ Cycles \/ Confirms \/ LeavesOut \/ Registers
    PROVE  at' \in (at + 1)..41 /\ (at' = at + 1 \/ (at \in 37..39 /\ at' = 40))
<1>1. (Script[at].kind = "cycle" => at \in 37..39) /\ Len(Script) = 40
  BY CallKinds
<1>2. at' = at + 1 \/ (Script[at].kind = "cycle" /\ at' = 40)
  BY <1>1 DEF ReadsShow, Unauthenticated, Holds, Cycles, Confirms, LeavesOut, Registers, NextCall, Now
<1>3. QED
  BY <1>1, <1>2

\* Nothing is held before the first hold of a patron, nor sold before call 9.
LEMMA EarlyCalls ==
    ASSUME WalkTypeOK, [Next]_vars, TypeOK, PassInv, at \in 1..40, Running,
           ReadsShow \/ Unauthenticated \/ Holds \/ Cycles \/ Confirms \/ LeavesOut \/ Registers
    PROVE  /\ at' <= 8 => Len(holds') = 0 \/ Len(holds') <= at' - 6
           /\ at' <= 9 => Len(tickets') = 0
<1>1. at' = at + 1 \/ at' = 40
  BY OnToTheNext
<1>2. Len(holds) \in Nat /\ Len(tickets) \in Nat
  BY LenProperties DEF TypeOK
<1> SUFFICES ASSUME at \in 1..8, at' = at + 1
             PROVE  /\ Len(holds') <= Len(holds) + (IF at \in 6..7 THEN 1 ELSE 0) \/ at > 7
                    /\ Len(tickets') = 0
  BY <1>1, <1>2 DEF PassInv
<1>3. Len(tickets) = 0
  BY DEF PassInv
<1>4. at = 1 \/ Script[at].kind = "hold"
  BY CallKinds
<1>5. CASE at = 1
  <2>1. Script[at].kind = "get"
    BY <1>5, CallKinds
  <2>2. ReadsShow
    BY <2>1 DEF Unauthenticated, Holds, Cycles, Confirms, LeavesOut, Registers, Now
  <2>3. holds' = Lapsed /\ tickets' = tickets
    BY <2>2 DEF ReadsShow, ReadShow
  <2>4. Len(Lapsed) = Len(holds)
    BY LapsedRows DEF LapseKeepsRows, TypeOK
  <2>5. QED
    BY <1>2, <1>3, <2>3, <2>4
<1>6. CASE Script[at].kind = "hold"
  <2>1. Unauthenticated \/ Holds
    BY <1>6 DEF ReadsShow, Cycles, Confirms, LeavesOut, Registers, Now
  <2>2. CASE Unauthenticated
    BY <1>2, <1>3, <2>2 DEF Unauthenticated, vars, db
  <2>3. CASE Holds
    <3>1. By \in patrons
      BY <2>3, TokensOfPatrons DEF Holds
    <3>2. PICK show \in Shows : PlaceHold(By, show) \/ RefuseHold(By, show)
      BY <2>3 DEF Holds
    <3>3. at \notin 2..5
      <4>1. ASSUME at \in 2..5 PROVE By = Null
        BY <4>1, ScriptCalls, CallParts DEF By
      <4>2. Null \notin patrons
        BY PatronsAssumption DEF TypeOK, PatronIds
      <4>3. QED
        BY <3>1, <4>1, <4>2
    <3>4. CASE RefuseHold(By, show)
      BY <1>2, <1>3, <3>4 DEF RefuseHold, vars, db
    <3>5. CASE PlaceHold(By, show)
      <4>1. Len(holds') = Len(holds) + 1 /\ tickets' = tickets
        <5>1. PlacedRows(By)
          BY <3>1, <3>5, PlaceHoldRows
        <5>2. Len(holds') = Len(holds) + 1
          BY <5>1, <1>2 DEF PlacedRows
        <5>3. QED
          BY <5>2, <3>5 DEF PlaceHold
      <4>2. at # 1
        BY <1>6, CallKinds
      <4>3. QED
        BY <1>2, <1>3, <3>3, <4>1, <4>2
    <3>6. QED
      BY <3>2, <3>4, <3>5
  <2>4. QED
    BY <2>1, <2>2, <2>3
<1>7. QED
  BY <1>4, <1>5, <1>6

\* The eighth call was refused for want of a seat, unless the quota refused it.
LEMMA MetAt8 ==
    ASSUME WalkTypeOK, Venue, PassInv, at = 8, Running, Holds \/ Unauthenticated,
           ~Unauthenticated \/ 401 \in Script[8].expects, ~ \E tells : Answered(201, tells)
    PROVE  SeatQuota \/ SeatsAllocated <= 2
<1>1. Script[8].expects = {409} /\ Script[8].by = PATRON_001
  BY ScriptCalls, CallParts
<1>2. PICK show \in Shows : RefuseHold(By, show)
  BY <1>1 DEF Holds
<1>3. SeatQuota \/ FreeSeats(Lapsed) = {}
  BY <1>2 DEF RefuseHold, HoldAdmitted
<1>4. Len(holds) \in Nat /\ Len(tickets) \in Nat /\ SeatsAllocated \in Nat
  BY LenProperties, SettingsAssumption DEF Venue, TypeOK
<1>5. (Len(holds) = 0 \/ Len(holds) <= 2) /\ Len(tickets) = 0
  BY DEF PassInv
<1>6. QED
  BY <1>3, <1>4, <1>5, SeatsRunOut

\* The owner's hold was no longer live when another patron was refused it, or
\* the flow is scoped to its owner.
LEMMA MetAt16 ==
    ASSUME WalkTypeOK, PassInv, AllMet, at = 16, Confirms,
           ~ \E tells : Answered(201, tells)
    PROVE  FlowState \/ Gone(answers[14].tells)
<1>1. Script[16].kind = "confirm" /\ Script[16].back = 2 /\ Script[16].by = PATRON_004
  BY ScriptCalls, CallParts
<1>2. RefuseConfirm(By, answers[14].tells)
  <2>1. 16 - 2 = 14
    OBVIOUS
  <2>2. QED
    BY <1>1, <2>1 DEF Confirms, Earlier
<1>3. answers[14].tells \in DOMAIN holds
  BY MetAt14 DEF PassInv
<1>4. /\ DOMAIN flows = DOMAIN holds
      /\ Lapsed[answers[14].tells].state = "held" <=>
            holds[answers[14].tells].state = "held" /\ ~Due(answers[14].tells)
  BY <1>3, LapsedRows, LenProperties DEF LapseKeepsRows, WalkTypeOK, TypeOK
<1>5. QED
  BY <1>2, <1>3, <1>4 DEF RefuseConfirm, ConfirmAdmitted, Due, Gone

LEMMA MetAt17 ==
    ASSUME WalkTypeOK, PassInv, AllMet, at = 17, Confirms, ~ \E tells : Answered(409, tells)
    PROVE  FlowState
<1>1. Script[17].kind = "confirm" /\ Script[17].back = 3
  BY ScriptCalls, CallParts
<1>2. ConfirmHold(By, answers[14].tells)
  <2>1. 17 - 3 = 14
    OBVIOUS
  <2>2. QED
    BY <1>1, <2>1 DEF Confirms, Earlier
<1>3. answers[14].tells \in DOMAIN holds
  BY MetAt14 DEF PassInv
<1>4. ~Gone(answers[14].tells)
  BY <1>2, <1>3, LapsedRows DEF ConfirmHold, ConfirmAdmitted, LapseKeepsRows, WalkTypeOK, TypeOK,
                                Due, Gone
<1>5. QED
  BY <1>4 DEF PassInv, Proved

\* Every confirmation that is granted sells a ticket.
LEMMA MetSale ==
    ASSUME WalkTypeOK, at \in 1..40, Confirms, ~ \E tells : Answered(409, tells)
    PROVE  Len(tickets') = Len(tickets) + 1
<1>1. PICK h : ConfirmHold(By, h)
  BY DEF Confirms
<1>2. By \in patrons
  BY TokensOfPatrons DEF Confirms, WalkTypeOK
<1>3. TypeOK' /\ ConfirmedRows(By, h)
  BY <1>1, <1>2, ConfirmHoldType, ConfirmHoldRows DEF WalkTypeOK
<1>4. /\ DOMAIN tickets' = 1..(Len(tickets) + 1) /\ Len(tickets) \in Nat
      /\ DOMAIN tickets' = 1..Len(tickets') /\ Len(tickets') \in Nat
  BY <1>3, LenProperties DEF ConfirmedRows, TypeOK
<1>5. QED
  BY <1>4

\* A call that went as expected: what is expected was answered, and only that.
LEMMA MetCall ==
    ASSUME WalkTypeOK, PassInv, AllMet', at \in 1..40,
           ReadsShow \/ Unauthenticated \/ Holds \/ Cycles \/ Confirms \/ LeavesOut \/ Registers
    PROVE  /\ AllMet /\ Proved /\ ~LeavesOut
           /\ \A i \in 1..36 : i < at \/ i = at => i \in DOMAIN answers'
           /\ \A i \in DOMAIN answers : answers'[i] = answers[i]
           /\ \A status : status \notin Script[at].expects => ~ \E tells : Answered(status, tells)
           /\ at' = at + 1 \/ at >= 37
<1>1. ~LeavesOut
  <2> SUFFICES ASSUME LeavesOut PROVE FALSE
    OBVIOUS
  <2>1. at \in 29..32
    BY CallKinds DEF LeavesOut, Now
  <2>2. AllMet /\ Proved /\ ~HoldIdRead
    BY DEF LeavesOut, AllMet, Meets, PassInv
  <2>3. QED
    BY <2>1, <2>2, MetHoldIds
<1>2. PICK status, tells : Answered(status, tells)
  BY <1>1 DEF ReadsShow, Unauthenticated, Holds, Cycles, Confirms, Registers
<1>3. /\ AllMet /\ at \in DOMAIN answers'
      /\ \A i \in DOMAIN answers : i \in DOMAIN answers' /\ answers'[i] = answers[i]
  BY <1>2, MadeMet
<1>4. Proved
  BY <1>3 DEF PassInv
<1>5. \A i \in 1..36 : i < at \/ i = at => i \in DOMAIN answers'
  BY <1>3, <1>4 DEF Proved
<1>6. at' = at + 1 \/ at >= 37
  BY OnToTheNext
<1>7. QED
  BY <1>1, <1>3, <1>4, <1>5, <1>6, MadeMet

LEMMA CallExpects ==
    /\ \A i \in {6, 7, 9, 14, 17, 29} : Script[i].expects = {201}
    /\ \A i \in {8, 16, 19} : Script[i].expects = {409}
  BY ScriptCalls, CallParts

LEMMA MetProves ==
    ASSUME WalkTypeOK, Venue, PassInv, AllMet', at \in 1..40, Running, [Next]_vars,
           ReadsShow \/ Unauthenticated \/ Holds \/ Cycles \/ Confirms \/ LeavesOut \/ Registers
    PROVE  Proved'
<1>1. AllMet /\ Proved /\ ~LeavesOut
  BY MetCall
<1>2. \A i \in 1..36 : i < at \/ i = at => i \in DOMAIN answers'
  BY MetCall
<1>3. \A status : status \notin Script[at].expects => ~ \E tells : Answered(status, tells)
  BY MetCall
<1>4. at \in 1..40 /\ at' \in 2..41 /\ at' > at /\ (at' = at + 1 \/ at >= 37)
  BY OnToTheNext
<1>5. /\ SeatQuota' <=> SeatQuota
      /\ GovernedIdentitySupply' <=> GovernedIdentitySupply
      /\ FlowState' <=> FlowState
  BY PolicyKept
<1>6. Len(tickets') >= Len(tickets) /\ Len(tickets) \in Nat /\ Len(tickets') \in Nat
  BY TicketsGrow DEF Venue
<1>7. \A i \in 1..36 : i < at' => i \in DOMAIN answers'
  BY <1>2, <1>4
<1>8. CASE at = 8
  <2>1. Script[8].kind = "hold" /\ Script[8].expects = {409}
    BY CallKinds, CallExpects
  <2>2. Holds \/ Unauthenticated
    BY <1>1, <1>8, <2>1 DEF ReadsShow, Cycles, Confirms, Registers, Now
  <2>3. ~ \E tells : Answered(401, tells)
    BY <1>3, <1>8, <2>1
  <2>4. ~ \E tells : Answered(201, tells)
    BY <1>3, <1>8, <2>1
  <2>5. SeatQuota \/ SeatsAllocated <= 2
    BY <1>8, <2>2, <2>3, <2>4, MetAt8 DEF Unauthenticated
  <2>6. QED
    BY <1>1, <1>4, <1>5, <1>6, <1>7, <1>8, <2>5 DEF Proved
<1>9. ASSUME at \in {9, 16, 17, 29} PROVE Confirms
  <2>1. Script[at].kind \in {"confirm", "confirm_granted"}
    BY <1>9, CallKinds
  <2>2. 401 \notin Script[at].expects
    BY <1>9, CallExpects
  <2>3. ~Unauthenticated
    BY <1>3, <2>2 DEF Unauthenticated
  <2>4. QED
    BY <1>1, <2>1, <2>3 DEF ReadsShow, Holds, Cycles, Registers, Now
<1>10. CASE at = 16
  <2>1. ~ \E tells : Answered(201, tells)
    <3>1. 201 \notin Script[16].expects
      BY CallExpects
    <3>2. QED
      BY <1>3, <1>10, <3>1
  <2>2. FlowState \/ Gone(answers[14].tells)
    BY <1>1, <1>9, <1>10, <2>1, MetAt16
  <2>3. holds' = holds /\ now' = now
    <3>1. PICK h : (ConfirmHold(By, h) /\ Answered(201, 0)) \/ RefuseConfirm(By, h)
      BY <1>9, <1>10 DEF Confirms
    <3>2. QED
      BY <2>1, <3>1 DEF RefuseConfirm, vars, db
  <2>4. answers'[14] = answers[14]
    BY <1>10, MetAt14, MetCall
  <2>5. FlowState \/ Gone(answers[14].tells)'
    BY <2>2, <2>3, <2>4 DEF Gone
  <2>6. QED
    BY <1>1, <1>4, <1>5, <1>6, <1>7, <1>10, <2>5 DEF Proved
<1>11. ASSUME at \in {9, 17, 29} PROVE Len(tickets') = Len(tickets) + 1
  <2>1. 409 \notin Script[at].expects
    BY <1>11, CallExpects
  <2>2. ~ \E tells : Answered(409, tells)
    BY <1>3, <2>1
  <2>3. QED
    BY <1>9, <1>11, <2>2, MetSale
<1>12. CASE at = 17
  <2>1. ~ \E tells : Answered(409, tells)
    <3>1. 409 \notin Script[17].expects
      BY CallExpects
    <3>2. QED
      BY <1>3, <1>12, <3>1
  <2>2. FlowState
    BY <1>1, <1>9, <1>12, <2>1, MetAt17
  <2>3. Len(tickets') = Len(tickets) + 1
    BY <1>11, <1>12
  <2>4. QED
    BY <1>1, <1>4, <1>5, <1>6, <1>7, <1>12, <2>2, <2>3 DEF Proved
<1>13. CASE at = 19
  <2>1. Script[19].kind = "register" /\ 201 \notin Script[19].expects
    BY CallKinds, CallExpects
  <2>2. Registers
    BY <1>1, <1>13, <2>1 DEF ReadsShow, Unauthenticated, Holds, Cycles, Confirms, Now
  <2>3. ~ \E tells : Answered(201, tells)
    BY <1>3, <1>13, <2>1
  <2>4. GovernedIdentitySupply
    BY <2>2, <2>3 DEF Registers, RefuseRegistration
  <2>5. at' = 20
    BY <1>4, <1>13
  <2>6. SeatQuota \/ SeatsAllocated <= 2
    BY <1>1, <1>13 DEF Proved
  <2>7. FlowState /\ Len(tickets) >= 1 /\ Len(tickets) >= 2
    BY <1>1, <1>13 DEF Proved
  <2>8. QED
    BY <1>5, <1>6, <1>7, <2>4, <2>5, <2>6, <2>7 DEF Proved
<1>14. CASE at \notin {8, 16, 17, 19}
  <2>1. /\ at > 8 => SeatQuota \/ SeatsAllocated <= 2
        /\ at > 17 => FlowState
        /\ at > 19 => GovernedIdentitySupply
        /\ (at > 9 => Len(tickets) >= 1) /\ (at > 17 => Len(tickets) >= 2)
        /\ at > 29 => Len(tickets) >= 3
    BY <1>1 DEF Proved
  <2>2. at' # 17 /\ (at' > 8 => at > 8) /\ (at' > 17 => at > 17) /\ (at' > 19 => at > 19)
    BY <1>4, <1>14
  <2>3. /\ (at' > 9 => Len(tickets') >= 1) /\ (at' > 17 => Len(tickets') >= 2)
        /\ at' > 29 => Len(tickets') >= 3
    BY <1>4, <1>6, <1>11, <1>14, <2>1
  <2>4. QED
    BY <1>5, <1>7, <2>1, <2>2, <2>3 DEF Proved
<1>15. QED
  BY <1>8, <1>10, <1>12, <1>13, <1>14

LEMMA EarlierKept ==
    ASSUME WalkTypeOK, at \in 1..40, NEW status, NEW tells, Answered(status, tells),
           NEW i, i \in DOMAIN answers', i # at
    PROVE  i \in DOMAIN answers /\ answers'[i] = answers[i]
  BY AnsweredRows

LEMMA TellsAt14 ==
    ASSUME WalkTypeOK, PassInv, at \in 1..40, Running, [Next]_vars,
           ReadsShow \/ Unauthenticated \/ Holds \/ Cycles \/ Confirms \/ LeavesOut \/ Registers,
           at' \in 15..17, 14 \in DOMAIN answers', answers'[14].status = 201
    PROVE  answers'[14].tells \in DOMAIN holds'
<1>1. TypeOK /\ TypeOK'
  BY NextType DEF WalkTypeOK
<1>2. at' = at + 1
  BY OnToTheNext
<1>3. CASE at = 14
  <2>1. Script[14].kind = "hold"
    BY CallKinds
  <2>2. Holds \/ Unauthenticated
    BY <1>3, <2>1 DEF ReadsShow, Cycles, Confirms, LeavesOut, Registers, Now
  <2>3. \A status, tells : Answered(status, tells) =>
           answers'[14] = [status |-> status, tells |-> tells]
    BY <1>3, AnsweredRows
  <2>4. Holds
    BY <2>2, <2>3 DEF Unauthenticated
  <2>5. PICK show \in Shows : PlaceHold(By, show) /\ Answered(201, Len(holds'))
    BY <2>3, <2>4 DEF Holds
  <2>6. By \in patrons
    BY <1>1, <2>4, TokensOfPatrons DEF Holds
  <2>7. PlacedRows(By)
    BY <1>1, <2>5, <2>6, PlaceHoldRows
  <2>8. Len(holds') \in DOMAIN holds'
    BY <1>1, <2>7, LenProperties DEF PlacedRows, TypeOK
  <2>9. QED
    BY <2>3, <2>5, <2>8
<1>4. CASE at # 14
  <2>1. 14 \in DOMAIN answers /\ answers'[14] = answers[14]
    <3>1. CASE LeavesOut
      BY <3>1 DEF LeavesOut
    <3>2. ASSUME NEW status, NEW tells, Answered(status, tells)
          PROVE  14 \in DOMAIN answers /\ answers'[14] = answers[14]
      BY <1>4, <3>2, EarlierKept
    <3>3. QED
      BY <3>1, <3>2 DEF ReadsShow, Unauthenticated, Holds, Cycles, Confirms, Registers
  <2>2. answers[14].tells \in DOMAIN holds
    BY <1>2, <1>4, <2>1 DEF PassInv
  <2>3. QED
    BY <1>1, <2>1, <2>2, HoldsStay
<1>5. QED
  BY <1>3, <1>4

LEMMA PassStep ==
    ASSUME WalkTypeOK, Venue, PassInv, [WalkNext]_walkVars PROVE PassInv'
<1>1. CASE Unmoved
  BY <1>1, UnmovedPass
<1>2. CASE /\ at \in 1..40 /\ Running /\ outcome' = outcome
           /\ ReadsShow \/ Unauthenticated \/ Holds \/ Cycles \/ Confirms \/ LeavesOut \/ Registers
  <2>1. [Next]_vars /\ TypeOK
    BY <1>2, RequestStep DEF WalkTypeOK
  <2>2. /\ at' <= 8 => Len(holds') = 0 \/ Len(holds') <= at' - 6
        /\ at' <= 9 => Len(tickets') = 0
    BY <1>2, <2>1, EarlyCalls
  <2>3. AllMet' => Proved'
    BY <1>2, <2>1, MetProves
  <2>4. outcome' # "passed"
    BY <1>2, WalkthroughAssumption DEF Running
  <2>5. ASSUME at' \in 15..17, 14 \in DOMAIN answers', answers'[14].status = 201
        PROVE  answers'[14].tells \in DOMAIN holds'
    BY <1>2, <2>1, <2>5, TellsAt14
  <2>6. QED
    BY <2>2, <2>3, <2>4, <2>5 DEF PassInv
<1>3. QED
  BY <1>1, <1>2, MovesOrNot

\* There are no more tickets than seats, as no two are for one seat.
LEMMA TicketsWithinSeats == Venue => Len(tickets) <= SeatsAllocated
<1> SUFFICES ASSUME Venue PROVE Len(tickets) <= SeatsAllocated
  OBVIOUS
<1> DEFINE H == {h \in DOMAIN Lapsed : Lapsed[h].state = "held"}
<1>1. /\ FreeSeats(Lapsed) \in SUBSET (1..SeatsAllocated) /\ SeatsAllocated \in Nat
      /\ Len(tickets) \in Nat
      /\ Len(holds) \in Nat /\ H \in SUBSET (1..Len(holds))
  BY SettingsAssumption, LapsedRows, LenProperties
     DEF FreeSeats, Seats, Venue, TypeOK, LapseKeepsRows
<1>2. SeatsAllocated - Cardinality(H) - Len(tickets) = Cardinality(FreeSeats(Lapsed))
  BY SeatsAreCounted DEF Venue, AvailabilityTruthful, SeatsAvailable
<1> HIDE DEF H
<1>3. Cardinality(FreeSeats(Lapsed)) \in Nat /\ Cardinality(H) \in Nat
  BY <1>1, RowSetsFinite
<1>4. QED
  BY <1>1, <1>2, <1>3

\* A walkthrough that passes proves the application secure: whatever the host's
\* delays, an application that leaves out a flow limit fails one of the checks
\* (walkthrough.py).  Even one with so few seats that the quota is never met is
\* found out, for the script buys more seats than that.
THEOREM OnlySecurePasses == WalkSpec => []PassesOnlySecure
<1>1. WalkTypeOK /\ Venue /\ PassInv => PassesOnlySecure
  <2> SUFFICES ASSUME WalkTypeOK, Venue, PassInv, outcome = "passed"
               PROVE  SeatQuota /\ GovernedIdentitySupply /\ FlowState
    BY DEF PassesOnlySecure, is_vulnerable, SeatQuota, GovernedIdentitySupply, FlowState
  <2>1. at > 40 /\ Proved /\ at \in Nat
    BY DEF PassInv, WalkTypeOK
  <2>2. /\ SeatQuota \/ SeatsAllocated <= 2
        /\ FlowState /\ GovernedIdentitySupply /\ Len(tickets) >= 3
    BY <2>1 DEF Proved
  <2>3. Len(tickets) <= SeatsAllocated /\ Len(tickets) \in Nat /\ SeatsAllocated \in Nat
    BY TicketsWithinSeats, LenProperties, SettingsAssumption DEF Venue, TypeOK
  <2>4. QED
    BY <2>2, <2>3
<1>2. (WalkTypeOK /\ Venue) /\ PassInv /\ [WalkNext]_walkVars => PassInv'
  BY PassStep
<1>3. QED
  BY <1>1, <1>2, InitPass, WalkAlwaysTyped, PTL DEF WalkSpec

-----------------------------------------------------------------------------
(* The secure application passes.  Before each call of the script, with the  *)
(* documented settings and as long as no window closes under the script,     *)
(* the tables hold exactly what the calls before it were granted: the holds  *)
(* in the order of the script, none of them lapsed before the re-hold check  *)
(* begins, and from then on every hold of that check lapsed.                 *)

Promised == ~is_vulnerable(policy) /\ Documented

\* Of hold h: who places it, in which call, and whether it is sold before call k.
Placer(h) ==
    IF h <= 2 THEN PATRON_001 ELSE IF h <= 4 THEN PATRON_002 ELSE IF h = 5 THEN PATRON_003
    ELSE IF h <= 9 THEN HouseholdPatron ELSE PATRON_010
PlacedIn(h) ==
    IF h <= 2 THEN h + 5 ELSE IF h <= 4 THEN h + 8 ELSE IF h = 5 THEN 14 ELSE h + 19
SoldBefore(h, k) == (h = 1 /\ k > 9) \/ (h = 5 /\ k > 17) \/ (h \in 6..9 /\ k > h + 23)

HoldsBefore(k) ==
    IF k <= 6 THEN 0 ELSE IF k = 7 THEN 1 ELSE IF k <= 11 THEN 2 ELSE IF k = 12 THEN 3
    ELSE IF k <= 14 THEN 4 ELSE IF k <= 25 THEN 5 ELSE IF k <= 28 THEN k - 20
    ELSE IF k <= 37 THEN 9 ELSE IF k <= 40 THEN k - 28 ELSE 12
TicketsBefore(k) ==
    IF k <= 9 THEN 0 ELSE IF k <= 17 THEN 1 ELSE IF k <= 29 THEN 2
    ELSE IF k <= 32 THEN k - 27 ELSE 6
RefsBefore(k) == IF k <= 20 THEN 0 ELSE IF k <= 22 THEN k - 20 ELSE 3

RowsBefore(k) ==
    /\ Len(holds) = HoldsBefore(k) /\ Len(tickets) = TicketsBefore(k)
    /\ \A h \in DOMAIN holds :
          holds[h].patron = Placer(h) /\ (holds[h].state = "confirmed" <=> SoldBefore(h, k))
RefsSpent(k) ==
    /\ Len(registrations) = RefsBefore(k)
    /\ \A j \in 1..4 : consumedBy[ELIGIBILITY_REFS[j]] = Null <=> j > RefsBefore(k)
TokensGood == \A p \in FixturePatrons : p \in DOMAIN tokens /\ tokens[p] = TokenTTL
Told(k) ==
    /\ \A i \in 1..40 : i < k => i \in DOMAIN answers /\ Meets(i)
    /\ \A h \in 1..9 : PlacedIn(h) < k => answers[PlacedIn(h)].tells = h
Unlapsed ==
    /\ asleep = 0 /\ now = late
    /\ \A h \in DOMAIN holds : holds[h].expires >= HoldTTL /\ holds[h].state # "expired"

Scene ==
    /\ RowsBefore(at) /\ RefsSpent(at) /\ TokensGood /\ Told(at)
    /\ at <= 37 => Unlapsed
    /\ at > 37 => \A h \in DOMAIN holds : h > 9 => holds[h].expires < asleep
    /\ outcome = Null \/ (outcome = "passed" /\ at = 41)
SceneInv == Promised /\ InTime => Scene

LEMMA InitScene == WalkInit => SceneInv
<1> SUFFICES ASSUME WalkInit PROVE Scene
  BY DEF SceneInv
<1>1. /\ at = 1 /\ asleep = 0 /\ now = 0 /\ late = 0 /\ outcome = Null
      /\ holds = << >> /\ tickets = << >> /\ registrations = << >>
      /\ tokens = [p \in FixturePatrons |-> TokenTTL]
      /\ consumedBy = [r \in EligibilityRefs |-> Null]
  BY DEF WalkInit, Init
<1>2. RowsBefore(1)
  BY <1>1 DEF RowsBefore, HoldsBefore, TicketsBefore
<1>3. RefsSpent(1)
  BY <1>1, ScriptedRefs DEF RefsSpent, RefsBefore
<1>4. TokensGood /\ Told(1) /\ Unlapsed
  BY <1>1 DEF TokensGood, Told, PlacedIn, Unlapsed
<1>5. QED
  BY <1>1, <1>2, <1>3, <1>4 DEF Scene

\* Windows that are closed stay closed.
LEMMA ClosedForGood ==
    ASSUME WalkTypeOK, [WalkNext]_walkVars, InTime'
    PROVE  InTime
<1>1. late' >= late /\ now' >= now /\ late \in Nat /\ late' \in Nat /\ now \in Int /\ now' \in Int
  <2>1. late \in Nat /\ now \in 0..MaxTime /\ MaxTime \in Nat
    BY BoundsAssumption DEF WalkTypeOK, TypeOK
  <2>2. CASE HeldUp
    <3>1. PICK d \in Delays : Passes(d) /\ late' = late + d
      BY <2>2 DEF HeldUp
    <3>2. d \in Nat
      BY WalkthroughAssumption
    <3>3. QED
      BY <2>1, <3>1, <3>2 DEF Passes
  <2>3. CASE Wakes
    <3>1. asleep \in Nat /\ late' = late
      BY <2>3 DEF Wakes, walk, WalkTypeOK
    <3>2. QED
      BY <2>1, <2>3, <3>1 DEF Wakes, Passes
  <2>4. CASE ReadsShow \/ Unauthenticated \/ Holds \/ Cycles \/ Confirms \/ LeavesOut \/ Registers
    BY <2>1, <2>4 DEF ReadsShow, Unauthenticated, Holds, Cycles, Confirms, LeavesOut, Registers,
       ReadShow, PlaceHold, RefuseHold, ConfirmHold, RefuseConfirm, RegisterPatron,
       RefuseRegistration, vars
  <2>5. CASE Crash \/ Concludes \/ Ended \/ UNCHANGED walkVars
    BY <2>1, <2>5 DEF Crash, Concludes, Ended, walkVars, walk, vars
  <2>6. QED
    BY <2>2, <2>3, <2>4, <2>5 DEF WalkNext, Walks
<1>2. HoldTTL \in Nat /\ TokenTTL \in Nat
  BY SettingsAssumption
<1>3. QED
  BY <1>1, <1>2 DEF InTime

LEMMA HoldsBeforeTypes ==
    \A k \in 1..41 : HoldsBefore(k) \in 0..12 /\ TicketsBefore(k) \in 0..6 /\ RefsBefore(k) \in 0..3
  BY DEF HoldsBefore, TicketsBefore, RefsBefore

\* Until the re-hold check begins, no hold is overdue.
LEMMA NothingLapses ==
    ASSUME WalkTypeOK, Unlapsed, InTime
    PROVE  Lapsed = holds
<1>1. HoldTTL \in Nat /\ late \in Nat /\ now < HoldTTL
  BY SettingsAssumption DEF WalkTypeOK, Unlapsed, InTime
<1>2. \A h \in DOMAIN holds : ~Due(h)
  BY <1>1, TimesAreInts DEF Unlapsed, WalkTypeOK, Due
<1>3. holds = [h \in DOMAIN holds |-> holds[h]]
  BY DEF WalkTypeOK, TypeOK
<1>4. QED
  BY <1>2, <1>3 DEF Lapsed

\* So a patron is charged for what it ever placed.
LEMMA ChargedInFull ==
    ASSUME WalkTypeOK, Venue, Promised, Unlapsed, InTime, NEW p \in PatronIds
    PROVE  WithinSeatEntitlement(Lapsed, p) <=> Placed(p) < SeatEntitlement(p)
<1>1. Lapsed = holds
  BY NothingLapses
<1>2. Placed(p) = Held(p) + Ticketed(p) + Expired(p)
  BY DEF Venue, ChargesKept, Promised, is_vulnerable, SeatQuota, FlowState
<1>3. Expired(p) = 0
  <2>1. HoldsOf(holds, p, "expired") = {}
    BY DEF HoldsOf, Unlapsed
  <2>2. QED
    BY <2>1, FS_EmptySet DEF Expired
<1>4. Held(p) \in Nat /\ Ticketed(p) \in Nat /\ ReholdAllowance \in Nat
  BY CountTypes, SettingsAssumption DEF WalkTypeOK
<1>5. SeatsCharged(holds, p) =
         Held(p) + Ticketed(p)
            + (Expired(p) - IF Expired(p) <= ReholdAllowance THEN Expired(p) ELSE ReholdAllowance)
  BY DEF SeatsCharged, Held, Ticketed, Expired
<1>6. SeatsCharged(holds, p) = Placed(p)
  BY <1>2, <1>3, <1>4, <1>5
<1>7. QED
  BY <1>1, <1>6 DEF WithinSeatEntitlement

LEMMA IntervalSize ==
    ASSUME NEW a \in Int, NEW b \in Int
    PROVE  Cardinality(a..b) = IF a > b THEN 0 ELSE b - a + 1
  BY FS_Interval

\* How many holds each patron of the script has placed.
LEMMA PlacedSoFar ==
    ASSUME WalkTypeOK, NEW k \in 1..41, RowsBefore(k), NEW n, n = HoldsBefore(k)
    PROVE  /\ n \in 0..12 /\ DOMAIN holds = 1..n
           /\ Placed(PATRON_001) = IF n <= 2 THEN n ELSE 2
           /\ Placed(PATRON_002) = IF n <= 2 THEN 0 ELSE IF n <= 4 THEN n - 2 ELSE 2
           /\ Placed(PATRON_003) = IF n <= 4 THEN 0 ELSE 1
           /\ Placed(HouseholdPatron) = IF n <= 5 THEN 0 ELSE IF n <= 9 THEN n - 5 ELSE 4
           /\ Placed(PATRON_010) = IF n <= 9 THEN 0 ELSE n - 9
<1> DEFINE two == IF n <= 2 THEN n ELSE 2
           four == IF n <= 4 THEN n ELSE 4
           five == IF n <= 5 THEN n ELSE 5
           nine == IF n <= 9 THEN n ELSE 9
<1>1. n \in 0..12 /\ DOMAIN holds = 1..n /\ \A h \in 1..n : holds[h].patron = Placer(h)
  <2>1. n \in 0..12 /\ Len(holds) = n
    BY HoldsBeforeTypes DEF RowsBefore
  <2>2. DOMAIN holds = 1..n
    BY <2>1, LenProperties DEF WalkTypeOK, TypeOK
  <2>3. QED
    BY <2>1, <2>2 DEF RowsBefore
<1>2. /\ HoldsEver(PATRON_001) = 1..two /\ HoldsEver(PATRON_002) = 3..four
      /\ HoldsEver(PATRON_003) = 5..five /\ HoldsEver(HouseholdPatron) = 6..nine
      /\ HoldsEver(PATRON_010) = 10..n
  BY <1>1, ScriptedPatrons DEF HoldsEver, Placer
<1>3. two \in Int /\ four \in Int /\ five \in Int /\ nine \in Int /\ n \in Int
  BY <1>1
<1>4. /\ Placed(PATRON_001) = IF 1 > two THEN 0 ELSE two - 1 + 1
      /\ Placed(PATRON_002) = IF 3 > four THEN 0 ELSE four - 3 + 1
      /\ Placed(PATRON_003) = IF 5 > five THEN 0 ELSE five - 5 + 1
      /\ Placed(HouseholdPatron) = IF 6 > nine THEN 0 ELSE nine - 6 + 1
      /\ Placed(PATRON_010) = IF 10 > n THEN 0 ELSE n - 10 + 1
  <2> HIDE DEF two, four, five, nine
  <2>1. Cardinality(1..two) = IF 1 > two THEN 0 ELSE two - 1 + 1
    BY <1>3, IntervalSize
  <2>2. Cardinality(3..four) = IF 3 > four THEN 0 ELSE four - 3 + 1
    BY <1>3, IntervalSize
  <2>3. Cardinality(5..five) = IF 5 > five THEN 0 ELSE five - 5 + 1
    BY <1>3, IntervalSize
  <2>4. Cardinality(6..nine) = IF 6 > nine THEN 0 ELSE nine - 6 + 1
    BY <1>3, IntervalSize
  <2>5. Cardinality(10..n) = IF 10 > n THEN 0 ELSE n - 10 + 1
    <3>1. \A m \in Int : Cardinality(10..m) = IF 10 > m THEN 0 ELSE m - 10 + 1
      BY IntervalSize
    <3>2. QED
      BY <1>3, <3>1
  <2>6. QED
    BY <1>2, <2>1, <2>2, <2>3, <2>4, <2>5 DEF Placed
<1>5. QED
  BY <1>1, <1>4

\* No more seats are taken than there are holds that may still be claims.
LEMMA SeatLeftFor ==
    ASSUME Venue, NEW n \in Nat, n < SeatsAllocated,
           \A h \in DOMAIN holds : h > n => holds[h].state # "confirmed" /\ Lapsed[h].state # "held"
    PROVE  FreeSeats(Lapsed) # {}
<1> SUFFICES ASSUME FreeSeats(Lapsed) = {} PROVE FALSE
  OBVIOUS
<1> DEFINE H == {h \in DOMAIN Lapsed : Lapsed[h].state = "held"}
           T == 1..Len(tickets)
           C == {tickets[t].hold : t \in T}
           f == [t \in T |-> tickets[t].hold]
<1>1. /\ Len(holds) \in Nat /\ DOMAIN holds = 1..Len(holds) /\ LapseKeepsRows
      /\ Len(tickets) \in Nat /\ DOMAIN tickets = 1..Len(tickets) /\ SeatsAllocated \in Nat
  BY LapsedRows, LenProperties, SettingsAssumption DEF Venue, TypeOK
<1>2. SeatsAllocated - Cardinality(H) - Len(tickets) = 0
  BY SeatsAreCounted, FS_EmptySet DEF Venue, AvailabilityTruthful, SeatsAvailable
<1>3. IsFiniteSet(C) /\ Cardinality(C) = Len(tickets)
  <2>1. IsFiniteSet(T) /\ Cardinality(T) = Len(tickets)
    BY <1>1, IntervalCount
  <2>2. \A t, u \in T : f[t] = f[u] => t = u
    BY <1>1 DEF Venue, FlowConsistent
  <2>3. f \in [T -> C] /\ \A c \in C : \E t \in T : f[t] = c
    OBVIOUS
  <2> HIDE DEF f, T, C
  <2>4. QED
    BY <2>1, <2>2, <2>3, InjectiveImage
<1>4. /\ H \subseteq 1..n /\ C \subseteq 1..n /\ H \cap C = {}
  <2>1. \A c \in C : c \in DOMAIN holds /\ holds[c].state = "confirmed"
    BY <1>1 DEF Venue, FlowConsistent
  <2>2. \A h \in H : h \in DOMAIN holds /\ holds[h].state # "confirmed"
    BY <1>1 DEF LapseKeepsRows
  <2> HIDE DEF C
  <2>3. H \cap C = {}
    BY <2>1, <2>2
  <2>4. \A h \in DOMAIN holds : h \in 1..n \/ h > n
    BY <1>1
  <2>5. QED
    BY <2>1, <2>2, <2>3, <2>4
<1>5. IsFiniteSet(1..n) /\ Cardinality(1..n) = n /\ IsFiniteSet(H)
  BY <1>1, <1>4, IntervalCount, RowSetsFinite
<1> HIDE DEF H, C
<1>6. Cardinality(H \cup C) = Cardinality(H) + Cardinality(C) /\ Cardinality(H \cup C) <= n
      /\ Cardinality(H) \in Nat
  <2>1. Cardinality(H \cup C) = Cardinality(H) + Cardinality(C)
    BY <1>3, <1>4, <1>5, DisjointCount
  <2>2. H \cup C \subseteq 1..n
    BY <1>4
  <2>3. Cardinality(H \cup C) <= n
    BY <1>5, <2>2, FS_Subset
  <2>4. QED
    BY <1>5, <2>1, <2>3, FS_CardinalityType
<1>7. QED
  BY <1>1, <1>2, <1>3, <1>6

-----------------------------------------------------------------------------
(* Call by call: what the secure application does with each, and what that   *)
(* leaves for the next.                                                      *)

Is(i, by, back, status) ==
    Script[i].by = by /\ Script[i].back = back /\ Script[i].expects = {status}

LEMMA Cast ==
    /\ Is(1, Null, 0, 200) /\ \A i \in 2..5 : Is(i, Null, 0, 401)
    /\ \A i \in 6..7 : Is(i, PATRON_001, 0, 201)
    /\ \A i \in {8, 10, 34} : Is(i, PATRON_001, 0, 409)
    /\ Is(9, PATRON_001, 3, 201)
    /\ (\A i \in 11..12 : Is(i, PATRON_002, 0, 201)) /\ Is(13, PATRON_002, 0, 409)
    /\ Is(14, PATRON_003, 0, 201) /\ Is(15, PATRON_004, 1, 409)
    /\ Is(16, PATRON_004, 2, 409) /\ Is(17, PATRON_003, 3, 201) /\ Is(18, PATRON_003, 4, 409)
    /\ (\A i \in {19, 36} : Is(i, Null, 0, 409))
    /\ (\A i \in 20..22 : Is(i, ELIGIBILITY_REFS[i - 19], 0, 201))
    /\ Is(23, ELIGIBILITY_REFS[1], 0, 409) /\ Is(24, ELIGIBILITY_REFS[4], 0, 409)
    /\ (\A i \in 25..28 : Is(i, HouseholdPatron, 0, 201))
    /\ (\A i \in 29..32 : Is(i, HouseholdPatron, 4, 201)) /\ Is(33, HouseholdPatron, 0, 409)
    /\ Is(35, PATRON_005, 0, 409) /\ Is(40, PATRON_010, 0, 409)
    /\ \A i \in 37..39 : Script[i].by = PATRON_010 /\ Script[i].back = 0
                            /\ Script[i].expects = {201, 401, 409}
<1>1. Get.by = Null /\ Get.back = 0 /\ Get.expects = {200}
  BY DEF Get, Call
<1>2. /\ Is(1, Null, 0, 200) /\ \A i \in 2..5 : Is(i, Null, 0, 401)
      /\ \A i \in 6..7 : Is(i, PATRON_001, 0, 201)
      /\ Is(8, PATRON_001, 0, 409) /\ Is(10, PATRON_001, 0, 409) /\ Is(34, PATRON_001, 0, 409)
      /\ Is(9, PATRON_001, 3, 201)
      /\ (\A i \in 11..12 : Is(i, PATRON_002, 0, 201)) /\ Is(13, PATRON_002, 0, 409)
  BY <1>1, ScriptCalls, CallParts DEF Is
<1>3. /\ Is(14, PATRON_003, 0, 201) /\ Is(15, PATRON_004, 1, 409)
      /\ Is(16, PATRON_004, 2, 409) /\ Is(17, PATRON_003, 3, 201) /\ Is(18, PATRON_003, 4, 409)
      /\ Is(19, Null, 0, 409) /\ Is(36, Null, 0, 409)
      /\ Is(23, ELIGIBILITY_REFS[1], 0, 409) /\ Is(24, ELIGIBILITY_REFS[4], 0, 409)
  BY ScriptCalls, CallParts DEF Is
<1>4. \A i \in 20..22 : Is(i, ELIGIBILITY_REFS[i - 19], 0, 201)
  <2>1. /\ Is(20, ELIGIBILITY_REFS[1], 0, 201) /\ Is(21, ELIGIBILITY_REFS[2], 0, 201)
        /\ Is(22, ELIGIBILITY_REFS[3], 0, 201)
    BY ScriptCalls, CallParts DEF Is
  <2>2. 20 - 19 = 1 /\ 21 - 19 = 2 /\ 22 - 19 = 3 /\ 20..22 = {20, 21, 22}
    OBVIOUS
  <2>3. QED
    BY <2>1, <2>2
<1>5. /\ (\A i \in 25..28 : Is(i, HouseholdPatron, 0, 201))
      /\ (\A i \in 29..32 : Is(i, HouseholdPatron, 4, 201)) /\ Is(33, HouseholdPatron, 0, 409)
      /\ Is(35, PATRON_005, 0, 409) /\ Is(40, PATRON_010, 0, 409)
  BY ScriptCalls, CallParts DEF Is
<1>6. \A i \in 37..39 : Script[i].by = PATRON_010 /\ Script[i].back = 0
                            /\ Script[i].expects = {201, 401, 409}
  BY ScriptCalls, CallParts
<1>7. QED
  BY <1>2, <1>3, <1>4, <1>5, <1>6

\* Which calls are granted a hold, a sale or a registration, and which hold is sold.
Placing == {6, 7, 11, 12, 14} \cup 25..28 \cup 37..39
Selling == {9, 17} \cup 29..32
SoldIn(k) == IF k = 9 THEN 1 ELSE IF k = 17 THEN 5 ELSE k - 23

LEMMA Timetable ==
    ASSUME NEW k \in 1..40
    PROVE  /\ HoldsBefore(k + 1) = IF k \in Placing THEN HoldsBefore(k) + 1 ELSE HoldsBefore(k)
           /\ TicketsBefore(k + 1) = IF k \in Selling THEN TicketsBefore(k) + 1 ELSE TicketsBefore(k)
           /\ RefsBefore(k + 1) = IF k \in 20..22 THEN RefsBefore(k) + 1 ELSE RefsBefore(k)
  BY DEF HoldsBefore, TicketsBefore, RefsBefore, Placing, Selling

LEMMA SalesTable ==
    ASSUME NEW k \in 1..40, NEW h \in 1..12
    PROVE  /\ SoldBefore(h, k + 1) <=> SoldBefore(h, k) \/ (k \in Selling /\ h = SoldIn(k))
           /\ k \in Selling /\ h = SoldIn(k) => ~SoldBefore(h, k) /\ h <= HoldsBefore(k)
           /\ k \in Placing /\ h = HoldsBefore(k) + 1 => ~SoldBefore(h, k + 1)
           /\ h > 9 => ~SoldBefore(h, k)
  BY DEF SoldBefore, HoldsBefore, Placing, Selling, SoldIn

\* The next call is due, and all went well so far.
Ready ==
    /\ WalkTypeOK /\ Venue /\ Promised /\ InTime /\ Scene /\ Running /\ at \in 1..40
Asked == ReadsShow \/ Unauthenticated \/ Holds \/ Cycles \/ Confirms \/ LeavesOut \/ Registers

LEMMA LoggedIn == ASSUME Ready, By \in FixturePatrons PROVE Authentic /\ By \in patrons
<1>1. By \in DOMAIN tokens /\ tokens[By] = TokenTTL /\ now < TokenTTL
  BY DEF Ready, Scene, TokensGood, InTime
<1>2. QED
  BY <1>1, TokensOfPatrons DEF Authentic, Ready, WalkTypeOK

LEMMA IdsRead == Ready => HoldIdRead
<1> SUFFICES ASSUME Ready, Script[at].back > 0 PROVE Earlier.status = 201
  BY DEF HoldIdRead
<1>1. \/ at = 9 /\ Script[at].back = 3
      \/ at = 15 /\ Script[at].back = 1
      \/ at = 16 /\ Script[at].back = 2
      \/ at = 17 /\ Script[at].back = 3
      \/ at = 18 /\ Script[at].back = 4
      \/ at \in 29..32 /\ Script[at].back = 4
  <2>1. \A i \in 1..8 \cup 10..14 \cup 19..28 \cup 33..40 : Script[i].back = 0
    <3>1. \A i \in 1..8 : Script[i].back = 0
      BY Cast DEF Is
    <3>2. \A i \in 10..14 \cup 19..28 : Script[i].back = 0
      BY Cast DEF Is
    <3>3. \A i \in 33..40 : Script[i].back = 0
      BY Cast DEF Is
    <3>4. QED
      BY <3>1, <3>2, <3>3
  <2>2. at \in {9, 15, 16, 17, 18} \cup 29..32
    BY <2>1 DEF Ready
  <2>3. /\ Script[9].back = 3 /\ Script[15].back = 1 /\ Script[16].back = 2 /\ Script[17].back = 3
        /\ Script[18].back = 4 /\ \A i \in 29..32 : Script[i].back = 4
    BY Cast DEF Is
  <2>4. QED
    BY <2>2, <2>3
<1>2. at - Script[at].back \in {6, 14} \cup 25..28 /\ at - Script[at].back < at
  BY <1>1
<1>3. \A i \in {6, 14} \cup 25..28 : Script[i].expects = {201}
  BY Cast DEF Is
<1>4. Meets(at - Script[at].back)
  BY <1>2 DEF Ready, Scene, Told
<1>5. QED
  BY <1>2, <1>3, <1>4 DEF Meets, Earlier

\* Which handler takes the call.
LEMMA HandlerOf ==
    ASSUME Ready, Asked
    PROVE  /\ at = 1 => ReadsShow
           /\ at \in 2..5 => Unauthenticated
           /\ at \in 6..8 \cup 10..14 \cup 25..28 \cup {33, 34, 40} => Holds
           /\ at \in {9} \cup 15..18 \cup 29..32 \cup {35} => Confirms
           /\ at \in 19..24 \cup {36} => Registers
           /\ at \in 37..39 => Cycles
<1>1. at \in 1..40 /\ ~LeavesOut
  BY IdsRead DEF Ready, LeavesOut
<1>2. at \in 2..5 => ~Authentic
  <2>1. \A i \in 2..5 : Script[i].by = Null
    BY Cast DEF Is
  <2>2. Null \notin PatronIds
    BY PatronsAssumption DEF PatronIds
  <2>3. DOMAIN tokens \subseteq PatronIds
    BY DEF Ready, WalkTypeOK, TypeOK
  <2>4. QED
    BY <2>1, <2>2, <2>3 DEF By, Authentic
<1>3. at \in 1..40 \ (1..5 \cup 19..24 \cup {36}) => Authentic
  <2>1. \A i \in 6..18 : Script[i].by \in FixturePatrons
    BY Cast, ScriptedPatrons DEF Is
  <2>2. \A i \in 25..35 : Script[i].by \in FixturePatrons
    BY Cast, ScriptedPatrons, PatronsAssumption DEF Is
  <2>3. \A i \in 37..40 : Script[i].by \in FixturePatrons
    BY Cast, ScriptedPatrons DEF Is
  <2>4. at \in 1..40 \ (1..5 \cup 19..24 \cup {36}) => By \in FixturePatrons
    BY <1>1, <2>1, <2>2, <2>3 DEF By
  <2>5. QED
    BY <2>4, LoggedIn
<1>4. /\ ReadsShow => Script[at].kind = "get"
      /\ Unauthenticated => ~Authentic /\ Script[at].kind \notin {"get", "register"}
      /\ Holds => Script[at].kind = "hold" /\ Authentic
      /\ Cycles => Script[at].kind = "cycle" /\ Authentic
      /\ Confirms => Script[at].kind \in {"confirm", "confirm_unknown", "confirm_granted"}
                      /\ Authentic
      /\ Registers => Script[at].kind = "register"
  BY DEF ReadsShow, Unauthenticated, Holds, Cycles, Confirms, Registers, Now
<1>5. ReadsShow \/ Unauthenticated \/ Holds \/ Cycles \/ Confirms \/ Registers
  BY <1>1 DEF Asked
<1>6. CASE at = 1
  <2>1. Script[at].kind = "get"
    BY <1>6, CallKinds
  <2>2. QED
    BY <1>4, <1>5, <1>6, <2>1
<1>7. CASE at \in 2..8 \cup 10..14 \cup 25..28 \cup {33, 34, 40}
  <2>1. Script[at].kind = "hold"
    BY <1>7, CallKinds
  <2>2. Unauthenticated \/ Holds
    BY <1>4, <1>5, <2>1
  <2>3. CASE at \in 2..5
    BY <1>2, <1>4, <2>2, <2>3
  <2>4. CASE at \notin 2..5
    BY <1>3, <1>4, <1>7, <2>2, <2>4
  <2>5. QED
    BY <2>3, <2>4
<1>8. CASE at \in {9} \cup 15..18 \cup 29..32 \cup {35}
  <2>1. Script[at].kind \in {"confirm", "confirm_unknown", "confirm_granted"}
    BY <1>8, CallKinds
  <2>2. Unauthenticated \/ Confirms
    BY <1>4, <1>5, <2>1
  <2>3. QED
    BY <1>3, <1>4, <1>8, <2>2
<1>9. CASE at \in 19..24 \cup {36}
  <2>1. Script[at].kind = "register"
    BY <1>9, CallKinds
  <2>2. QED
    BY <1>4, <1>5, <1>9, <2>1
<1>10. CASE at \in 37..39
  <2>1. Script[at].kind = "cycle"
    BY <1>10, CallKinds
  <2>2. Unauthenticated \/ Cycles
    BY <1>4, <1>5, <2>1
  <2>3. QED
    BY <1>3, <1>4, <1>10, <2>2
<1>11. QED
  BY <1>1, <1>6, <1>7, <1>8, <1>9, <1>10

LEMMA PlacedNow ==
    ASSUME Ready
    PROVE  LET n == HoldsBefore(at) IN
           /\ n \in 0..12 /\ DOMAIN holds = 1..n
           /\ Placed(PATRON_001) = IF n <= 2 THEN n ELSE 2
           /\ Placed(PATRON_002) = IF n <= 2 THEN 0 ELSE IF n <= 4 THEN n - 2 ELSE 2
           /\ Placed(PATRON_003) = IF n <= 4 THEN 0 ELSE 1
           /\ Placed(HouseholdPatron) = IF n <= 5 THEN 0 ELSE IF n <= 9 THEN n - 5 ELSE 4
           /\ Placed(PATRON_010) = IF n <= 9 THEN 0 ELSE n - 9
<1>1. PICK k : k = at
  OBVIOUS
<1>2. WalkTypeOK /\ k \in 1..41 /\ RowsBefore(k)
  BY <1>1 DEF Ready, Scene
<1>3. QED
  BY <1>1, <1>2, PlacedSoFar

\* Until the re-hold check begins, a hold is granted as long as its patron has
\* placed fewer than it is entitled to.
LEMMA HoldAnswer ==
    ASSUME Ready, Holds, at <= 37, SeatsAllocated >= 10
    PROVE  \E show \in Shows :
              IF Placed(By) < SeatEntitlement(By)
              THEN PlaceHold(By, show) /\ Answered(201, Len(holds'))
              ELSE UNCHANGED vars /\ Answered(409, 0)
<1>1. PICK show \in Shows : \/ PlaceHold(By, show) /\ Answered(201, Len(holds'))
                            \/ RefuseHold(By, show) /\ Answered(409, 0)
  BY DEF Holds
<1>2. By \in PatronIds /\ SeatQuota
  BY TokensOfPatrons DEF Holds, Ready, WalkTypeOK, TypeOK, Promised, is_vulnerable, SeatQuota
<1>3. WithinSeatEntitlement(Lapsed, By) <=> Placed(By) < SeatEntitlement(By)
  BY <1>2, ChargedInFull DEF Ready, Scene
<1>4. FreeSeats(Lapsed) # {}
  <2>1. HoldsBefore(at) <= 9
    BY DEF Ready, HoldsBefore
  <2>2. \A h \in DOMAIN holds : h <= 9
    <3>1. DOMAIN holds = 1..HoldsBefore(at) /\ HoldsBefore(at) \in 0..12
      BY PlacedNow
    <3>2. QED
      BY <2>1, <3>1
  <2>3. SeatsAllocated \in Nat /\ DOMAIN holds \subseteq Nat
    BY SettingsAssumption, LenProperties DEF Ready, WalkTypeOK, TypeOK
  <2>4. QED
    BY <2>2, <2>3, SeatLeftFor DEF Ready
<1>5. QED
  BY <1>1, <1>2, <1>3, <1>4 DEF PlaceHold, RefuseHold, HoldAdmitted

LEMMA HoldGranted ==
    ASSUME Ready, Holds, at \in Placing, at < 37, SeatsAllocated >= 10
    PROVE  /\ By = Placer(HoldsBefore(at) + 1)
           /\ \E show \in Shows : PlaceHold(By, show) /\ Answered(201, Len(holds'))
<1> DEFINE n == HoldsBefore(at)
<1>1. /\ SeatQuotaDefault = 2 /\ HouseholdEntitlement = 4
      /\ at \in {6, 7, 11, 12, 14} \cup 25..28
  BY DEF Ready, Promised, Documented, Placing
<1>2. \/ at \in 6..7 /\ n = at - 6 /\ By = PATRON_001
      \/ at \in 11..12 /\ n = at - 9 /\ By = PATRON_002
      \/ at = 14 /\ n = 4 /\ By = PATRON_003
      \/ at \in 25..28 /\ n = at - 20 /\ By = HouseholdPatron
  BY <1>1, Cast DEF Is, By, HoldsBefore
<1>3. By = Placer(n + 1)
  BY <1>2 DEF Placer
<1>4. Placed(By) < SeatEntitlement(By)
  <2>1. /\ Placed(PATRON_001) = IF n <= 2 THEN n ELSE 2
        /\ Placed(PATRON_002) = IF n <= 2 THEN 0 ELSE IF n <= 4 THEN n - 2 ELSE 2
        /\ Placed(PATRON_003) = IF n <= 4 THEN 0 ELSE 1
        /\ Placed(HouseholdPatron) = IF n <= 5 THEN 0 ELSE IF n <= 9 THEN n - 5 ELSE 4
    BY PlacedNow
  <2>2. /\ SeatEntitlement(HouseholdPatron) = 4
        /\ \A p \in {PATRON_001, PATRON_002, PATRON_003} : SeatEntitlement(p) = 2
    BY <1>1, ScriptedPatrons DEF SeatEntitlement
  <2> HIDE DEF n
  <2>3. QED
    BY <1>2, <2>1, <2>2
<1>5. QED
  BY <1>3, <1>4, <1>1, HoldAnswer

LEMMA HoldRefused ==
    ASSUME Ready, Holds, at \in {8, 10, 13, 33, 34}, SeatsAllocated >= 10
    PROVE  UNCHANGED vars /\ Answered(409, 0)
<1> DEFINE n == HoldsBefore(at)
<1>1. SeatQuotaDefault = 2 /\ HouseholdEntitlement = 4
  BY DEF Ready, Promised, Documented
<1>2. \/ at \in {8, 10, 34} /\ n >= 2 /\ n \in Int /\ By = PATRON_001
      \/ at = 13 /\ n = 4 /\ By = PATRON_002
      \/ at = 33 /\ n = 9 /\ By = HouseholdPatron
  BY <1>1, Cast DEF Is, By, HoldsBefore
<1>3. ~(Placed(By) < SeatEntitlement(By))
  <2>1. /\ Placed(PATRON_001) = IF n <= 2 THEN n ELSE 2
        /\ Placed(PATRON_002) = IF n <= 2 THEN 0 ELSE IF n <= 4 THEN n - 2 ELSE 2
        /\ Placed(HouseholdPatron) = IF n <= 5 THEN 0 ELSE IF n <= 9 THEN n - 5 ELSE 4
    BY PlacedNow
  <2>2. /\ SeatEntitlement(HouseholdPatron) = 4
        /\ \A p \in {PATRON_001, PATRON_002} : SeatEntitlement(p) = 2
    BY <1>1, ScriptedPatrons DEF SeatEntitlement
  <2> HIDE DEF n
  <2>3. QED
    BY <1>2, <2>1, <2>2
<1>4. QED
  BY <1>3, HoldAnswer

\* The hold_id an earlier answer told.
LEMMA HoldIdTold ==
    ASSUME Ready, at \in {16, 17, 18, 9} \cup 29..32
    PROVE  /\ Script[at].kind \in {"confirm", "confirm_granted"}
           /\ Earlier.tells = IF at \in {16, 18} THEN 5 ELSE SoldIn(at)
<1>1. /\ at = 9 => Script[at].back = 3
      /\ at = 16 => Script[at].back = 2 
      /\ at = 17 => Script[at].back = 3
      /\ at = 18 => Script[at].back = 4
      /\ at \in 29..32 => Script[at].back = 4
  BY Cast DEF Is
<1>2. \A h \in 1..9 : PlacedIn(h) < at => answers[PlacedIn(h)].tells = h
  BY DEF Ready, Scene, Told
<1>3. CASE at = 9
  <2>1. PlacedIn(1) = 6 /\ at - Script[at].back = 6
    BY <1>1, <1>3 DEF PlacedIn
  <2>2. QED
    BY <1>2, <1>3, <2>1, CallKinds DEF Earlier, SoldIn
<1>4. CASE at \in {16, 17, 18}
  <2>1. PlacedIn(5) = 14 /\ at - Script[at].back = 14
    BY <1>1, <1>4 DEF PlacedIn
  <2>2. Script[at].kind = "confirm"
    BY <1>4, CallKinds
  <2>3. QED
    BY <1>2, <1>4, <2>1, <2>2 DEF Earlier, SoldIn
<1>5. CASE at \in 29..32
  <2>1. at - 23 \in 6..9 /\ PlacedIn(at - 23) = at - 4 /\ at - Script[at].back = at - 4
    BY <1>1, <1>5 DEF PlacedIn
  <2>2. Script[at].kind = "confirm_granted"
    BY <1>5, CallKinds
  <2>3. answers[PlacedIn(at - 23)].tells = at - 23
    BY <1>2, <1>5, <2>1
  <2>4. QED
    BY <1>5, <2>1, <2>2, <2>3 DEF Earlier, SoldIn
<1>6. QED
  BY <1>3, <1>4, <1>5

\* What a confirmation finds in the tables.
LEMMA SceneRows ==
    ASSUME Ready, at <= 37
    PROVE  /\ Lapsed = holds /\ FlowState
           /\ DOMAIN holds = 1..HoldsBefore(at) /\ HoldsBefore(at) \in 0..9
           /\ DOMAIN flows = DOMAIN holds
           /\ \A h \in DOMAIN holds :
                 /\ holds[h].patron = Placer(h) /\ flows[h].patron = Placer(h)
                 /\ IF SoldBefore(h, at) THEN holds[h].state = "confirmed"
                                         ELSE holds[h].state = "held" /\ flows[h].step = "held"
<1>1. Lapsed = holds /\ FlowState
  BY NothingLapses DEF Ready, Scene, Promised, is_vulnerable, FlowState
<1>2. DOMAIN holds = 1..HoldsBefore(at) /\ HoldsBefore(at) \in 0..12 /\ HoldsBefore(at) <= 9
  <2>1. HoldsBefore(at) <= 9
    BY DEF Ready, HoldsBefore
  <2>2. QED
    BY <2>1, PlacedNow
<1>3. DOMAIN flows = DOMAIN holds
  BY LenProperties DEF Ready, WalkTypeOK, TypeOK
<1>4. ASSUME NEW h \in DOMAIN holds
      PROVE  /\ holds[h].patron = Placer(h) /\ flows[h].patron = Placer(h)
             /\ IF SoldBefore(h, at) THEN holds[h].state = "confirmed"
                                     ELSE holds[h].state = "held" /\ flows[h].step = "held"
  <2>1. holds[h] \in HoldRows /\ flows[h] \in FlowRows
    <3>1. h \in 1..Len(holds) /\ h \in 1..Len(flows)
      BY <1>3, LenProperties DEF Ready, WalkTypeOK, TypeOK
    <3>2. QED
      BY <3>1, ElementOfSeq DEF Ready, WalkTypeOK, TypeOK
  <2>2. holds[h].patron = Placer(h) /\ (holds[h].state = "confirmed" <=> SoldBefore(h, at))
    BY DEF Ready, Scene, RowsBefore
  <2>3. /\ flows[h].patron = holds[h].patron
        /\ holds[h].state = "confirmed" <=> flows[h].step = "confirmed"
    BY DEF Ready, Venue, FlowConsistent
  <2>4. holds[h].state # "expired"
    BY DEF Ready, Scene, Unlapsed
  <2>5. QED
    BY <2>1, <2>2, <2>3, <2>4 DEF HoldRows, FlowRows
<1>5. QED
  BY <1>1, <1>2, <1>3, <1>4

LEMMA ConfirmRefused ==
    ASSUME Ready, Confirms, at \in {15, 16, 18, 35}
    PROVE  UNCHANGED vars /\ Answered(409, 0)
<1> DEFINE h == IF Script[at].kind = "confirm_unknown" THEN Len(holds) + 1 ELSE Earlier.tells
<1>1. ~ConfirmAdmitted(Lapsed, By, h)
  <2>1. CASE at \in {15, 35}
    <3>1. Script[at].kind = "confirm_unknown"
      BY <2>1, CallKinds
    <3>2. DOMAIN flows = 1..Len(holds) /\ Len(holds) \in Nat
      BY LenProperties DEF Ready, WalkTypeOK, TypeOK
    <3>3. QED
      BY <3>1, <3>2 DEF ConfirmAdmitted
  <2>2. CASE at \in {16, 18}
    <3>1. h = 5
      BY <2>2, HoldIdTold
    <3>2. HoldsBefore(at) = 5 /\ SoldBefore(5, 18)
      BY <2>2 DEF HoldsBefore, SoldBefore
    <3>3. 5 \in DOMAIN holds /\ flows[5].patron = Placer(5)
      BY <2>2, <3>2, SceneRows
    <3>4. CASE at = 16
      <4>1. By # Placer(5)
        BY <3>4, Cast, ScriptedPatrons DEF Is, By, Placer
      <4>2. FlowState
        BY <2>2, SceneRows
      <4>3. QED
        BY <3>1, <3>3, <4>1, <4>2 DEF ConfirmAdmitted
    <3>5. CASE at = 18
      <4>1. Lapsed = holds /\ holds[5].state = "confirmed"
        BY <3>2, <3>3, <3>5, SceneRows
      <4>2. QED
        BY <3>1, <4>1 DEF ConfirmAdmitted
    <3>6. QED
      BY <2>2, <3>4, <3>5
  <2>3. QED
    BY <2>1, <2>2
<1>2. \/ ConfirmHold(By, h) /\ Answered(201, 0)
      \/ RefuseConfirm(By, h) /\ Answered(409, 0)
  BY DEF Confirms
<1>3. QED
  BY <1>1, <1>2 DEF ConfirmHold, RefuseConfirm

LEMMA ConfirmGrantedTo ==
    ASSUME Ready, Confirms, at \in Selling
    PROVE  ConfirmHold(By, SoldIn(at)) /\ Answered(201, 0)
<1>1. at \in {9, 17} \cup 29..32
  BY DEF Selling
<1>2. Script[at].kind \in {"confirm", "confirm_granted"} /\ Earlier.tells = SoldIn(at)
  BY <1>1, HoldIdTold
<1>3. SoldIn(at) \in 1..9 /\ SoldIn(at) <= HoldsBefore(at) /\ ~SoldBefore(SoldIn(at), at)
  BY <1>1 DEF SoldIn, HoldsBefore, SoldBefore
<1>4. By = Placer(SoldIn(at))
  <2>1. CASE at \in {9, 17}
    BY <2>1, Cast DEF Is, By, Placer, SoldIn
  <2>2. CASE at \in 29..32
    <3>1. By = HouseholdPatron /\ SoldIn(at) \in 6..9
      BY <2>2, Cast DEF Is, By, SoldIn
    <3>2. QED
      BY <3>1 DEF Placer
  <2>3. QED
    BY <1>1, <2>1, <2>2
<1>5. ConfirmAdmitted(Lapsed, By, SoldIn(at))
  <2>1. SoldIn(at) \in DOMAIN holds
    BY <1>1, <1>3, SceneRows
  <2>2. /\ SoldIn(at) \in DOMAIN flows /\ Lapsed = holds
        /\ holds[SoldIn(at)].state = "held" /\ flows[SoldIn(at)].step = "held"
        /\ flows[SoldIn(at)].patron = Placer(SoldIn(at))
    BY <1>1, <1>3, <2>1, SceneRows
  <2>3. QED
    BY <1>4, <2>2 DEF ConfirmAdmitted
<1>6. \/ ConfirmHold(By, SoldIn(at)) /\ Answered(201, 0)
      \/ RefuseConfirm(By, SoldIn(at)) /\ Answered(409, 0)
  BY <1>2 DEF Confirms
<1>7. QED
  BY <1>5, <1>6 DEF RefuseConfirm

LEMMA RegistrationRefused ==
    ASSUME Ready, Registers, at \in {19, 23, 24, 36}
    PROVE  UNCHANGED vars /\ Answered(409, 0)
<1>1. ~IdentityGranted(By) /\ GovernedIdentitySupply
  <2>1. GovernedIdentitySupply /\ RegistrationCap = 3
    BY DEF Ready, Promised, Documented, is_vulnerable, GovernedIdentitySupply
  <2>2. CASE at \in {19, 36}
    <3>1. By = Null
      BY <2>2, Cast DEF Is, By
    <3>2. QED
      BY <2>1, <3>1, PatronsAssumption DEF IdentityGranted
  <2>3. CASE at \in {23, 24}
    <3>1. Len(registrations) = RefsBefore(at) /\ RefsBefore(at) = 3
      BY <2>3 DEF Ready, Scene, RefsSpent, RefsBefore
    <3>2. QED
      BY <2>1, <3>1 DEF IdentityGranted
  <2>4. QED
    BY <2>1, <2>2, <2>3
<1>2. \/ RegisterPatron(By) /\ Answered(201, 0)
      \/ RefuseRegistration(By) /\ Answered(409, 0)
  BY DEF Registers
<1>3. QED
  BY <1>1, <1>2 DEF RegisterPatron, RefuseRegistration

LEMMA RegistrationGranted ==
    ASSUME Ready, Registers, at \in 20..22
    PROVE  By = ELIGIBILITY_REFS[at - 19] /\ RegisterPatron(By) /\ Answered(201, 0)
<1>1. By = ELIGIBILITY_REFS[at - 19]
  BY Cast DEF Is, By
<1>2. IdentityGranted(By)
  <2>1. RegistrationCap = 3
    BY DEF Ready, Promised, Documented
  <2>2. /\ Len(registrations) = at - 20
        /\ \A j \in 1..4 : consumedBy[ELIGIBILITY_REFS[j]] = Null <=> j > at - 20
    BY DEF Ready, Scene, RefsSpent, RefsBefore
  <2>3. at - 19 \in 1..4 /\ at - 19 > at - 20 /\ at - 20 < 3
    OBVIOUS
  <2>4. QED
    BY <1>1, <2>1, <2>2, <2>3, ScriptedRefs DEF IdentityGranted
<1>3. \/ RegisterPatron(By) /\ Answered(201, 0)
      \/ RefuseRegistration(By) /\ Answered(409, 0)
  BY DEF Registers
<1>4. QED
  BY <1>1, <1>2, <1>3 DEF RefuseRegistration

\* In the re-hold check every hold of the check has lapsed when the next call
\* is made, and all but one of them is charged.
LEMMA ReholdCharge ==
    ASSUME Ready, at >= 37
    PROVE  /\ \A h \in DOMAIN holds : h > 9 => holds[h].state # "confirmed" /\ Lapsed[h].state # "held"
           /\ SeatsCharged(Lapsed, PATRON_010) = IF at = 37 THEN 0 ELSE at - 38
<1>1. /\ at \in 37..40 /\ LapseKeepsRows /\ DOMAIN holds = 1..HoldsBefore(at)
      /\ HoldsBefore(at) = at - 28
  <2>1. at \in 37..40
    BY DEF Ready
  <2>2. LapseKeepsRows
    BY LapsedRows DEF Ready, WalkTypeOK, TypeOK
  <2>3. QED
    BY <2>1, <2>2, PlacedNow DEF HoldsBefore
<1>2. \A h \in DOMAIN holds : holds[h].patron = Placer(h)
  BY DEF Ready, Scene, RowsBefore
<1>3. ASSUME NEW h \in DOMAIN holds, h > 9
      PROVE  holds[h].state # "confirmed" /\ Lapsed[h].state # "held"
  <2>1. h \in 10..12 /\ at # 37
    BY <1>1, <1>3
  <2>2. holds[h].expires < asleep /\ asleep <= now
    BY <1>1, <1>3, <2>1 DEF Ready, Scene, Running
  <2>3. holds[h].expires <= now
    <3>1. TypeOK
      BY DEF Ready, WalkTypeOK
    <3>2. asleep \in Nat
      BY DEF Ready, WalkTypeOK
    <3>3. holds[h].expires \in Int /\ now \in Int
      BY <1>3, <3>1, TimesAreInts
    <3>4. QED
      BY <2>2, <3>2, <3>3
  <2>4. ~SoldBefore(h, at)
    BY <2>1 DEF SoldBefore
  <2>5. holds[h].state # "confirmed"
    BY <1>3, <2>4 DEF Ready, Scene, RowsBefore
  <2>6. QED
    BY <1>1, <1>3, <2>3, <2>5 DEF LapseKeepsRows, Due
<1>4. \A h \in DOMAIN holds : h > 9 <=> holds[h].patron = PATRON_010
  BY <1>1, <1>2, ScriptedPatrons DEF Placer
<1>5. HoldsOf(Lapsed, PATRON_010, "held") = {}
  BY <1>1, <1>3, <1>4 DEF HoldsOf, LapseKeepsRows
<1>6. TicketsOf(PATRON_010) = {}
  <2> SUFFICES ASSUME NEW t \in DOMAIN tickets, tickets[t].patron = PATRON_010 PROVE FALSE
    BY DEF TicketsOf
  <2>1. /\ tickets[t].hold \in DOMAIN holds
        /\ holds[tickets[t].hold].patron = PATRON_010
        /\ holds[tickets[t].hold].state = "confirmed"
    BY DEF Ready, Venue, FlowConsistent, Promised, is_vulnerable, FlowState
  <2>2. QED
    BY <1>3, <1>4, <2>1
<1>7. Cardinality(HoldsOf(Lapsed, PATRON_010, "held")) = 0 /\ Ticketed(PATRON_010) = 0
  BY <1>5, <1>6, FS_EmptySet DEF Ticketed
<1>8. Placed(PATRON_010) = at - 37
  <2>1. Placed(PATRON_010) = IF at - 28 <= 9 THEN 0 ELSE at - 28 - 9
    BY <1>1, PlacedNow
  <2>2. QED
    BY <1>1, <2>1
<1>9. Cardinality(HoldsOf(Lapsed, PATRON_010, "expired")) = at - 37
  <2>1. PATRON_010 \in PatronIds /\ TypeOK
    BY ScriptedPatrons DEF PatronIds, Ready, WalkTypeOK
  <2>2. KeptFor(Held(PATRON_010), Ticketed(PATRON_010), Expired(PATRON_010), Placed(PATRON_010),
                SeatEntitlement(PATRON_010))
    BY <2>1, ChargesKeptFor DEF Ready, Venue, Promised, is_vulnerable, SeatQuota, FlowState
  <2>3. Placed(PATRON_010) = Cardinality(HoldsOf(Lapsed, PATRON_010, "held"))
                                + Ticketed(PATRON_010)
                                + Cardinality(HoldsOf(Lapsed, PATRON_010, "expired"))
    BY <2>1, <2>2, LapseKeeps DEF KeptFor
  <2>4. Cardinality(HoldsOf(Lapsed, PATRON_010, "expired")) \in Nat
    <3>1. HoldsOf(Lapsed, PATRON_010, "expired") \in SUBSET (1..Len(holds)) /\ Len(holds) \in Nat
      BY <1>1, LenProperties DEF HoldsOf, LapseKeepsRows, Ready, WalkTypeOK, TypeOK
    <3>2. QED
      BY <3>1, RowSetsFinite
  <2>5. QED
    BY <1>1, <1>7, <1>8, <2>3, <2>4
<1>10. ReholdAllowance = 1
  BY DEF Ready, Promised, Documented
<1>11. SeatsCharged(Lapsed, PATRON_010) = IF at = 37 THEN 0 ELSE at - 38
  BY <1>1, <1>7, <1>9, <1>10 DEF SeatsCharged, Ticketed
<1>12. QED
  BY <1>3, <1>11

LEMMA CycleGranted ==
    ASSUME Ready, Cycles, at \in 37..39, SeatsAllocated >= 10
    PROVE  /\ By = PATRON_010 /\ NextCall /\ asleep' = now + Settle
           /\ \E show \in Shows : PlaceHold(By, show) /\ Answered(201, Len(holds'))
<1>1. By = PATRON_010
  BY Cast DEF By
<1>2. SeatEntitlement(PATRON_010) = 2
  BY ScriptedPatrons DEF SeatEntitlement, Ready, Promised, Documented
<1>3. WithinSeatEntitlement(Lapsed, By)
  <2>1. SeatsCharged(Lapsed, PATRON_010) = IF at = 37 THEN 0 ELSE at - 38
    BY ReholdCharge
  <2>2. QED
    BY <1>1, <1>2, <2>1 DEF WithinSeatEntitlement
<1>4. FreeSeats(Lapsed) # {}
  <2>1. 9 \in Nat /\ 9 < SeatsAllocated
    BY SettingsAssumption
  <2>2. QED
    BY <2>1, ReholdCharge, SeatLeftFor DEF Ready
<1>5. \A show \in Shows : HoldAdmitted(Lapsed, By, show)
  BY <1>3, <1>4 DEF HoldAdmitted
<1>6. QED
  BY <1>1, <1>5 DEF Cycles, RefuseHold

LEMMA LastHoldRefused ==
    ASSUME Ready, Holds, at = 40
    PROVE  UNCHANGED vars /\ Answered(409, 0)
<1>1. By = PATRON_010
  BY Cast DEF Is, By
<1>2. SeatEntitlement(PATRON_010) = 2 /\ SeatQuota
  BY ScriptedPatrons DEF SeatEntitlement, Ready, Promised, Documented, is_vulnerable, SeatQuota
<1>3. ~WithinSeatEntitlement(Lapsed, By)
  <2>1. SeatsCharged(Lapsed, PATRON_010) = IF at = 37 THEN 0 ELSE at - 38
    BY ReholdCharge
  <2>2. QED
    BY <1>1, <1>2, <2>1 DEF WithinSeatEntitlement
<1>4. PICK show \in Shows : \/ PlaceHold(By, show) /\ Answered(201, Len(holds'))
                            \/ RefuseHold(By, show) /\ Answered(409, 0)
  BY DEF Holds
<1>5. QED
  BY <1>2, <1>3, <1>4 DEF PlaceHold, RefuseHold, HoldAdmitted

-----------------------------------------------------------------------------
(* What a call leaves for the next, table by table. *)

LEMMA ToldOn ==
    ASSUME WalkTypeOK, NEW k \in 1..40, at = k, Told(k), NEW status, NEW tells,
           Answered(status, tells), status \in Script[k].expects,
           k = 1 => tells = SeatsAllocated,
           \A h \in 1..9 : PlacedIn(h) = k => tells = h
    PROVE  Told(k + 1)'
<1>1. /\ DOMAIN answers' = DOMAIN answers \cup {k}
      /\ answers'[k] = [status |-> status, tells |-> tells]
      /\ \A i \in DOMAIN answers : answers'[i] = answers[i]
  BY AnsweredRows
<1>2. ASSUME NEW i \in 1..40, i < k + 1
      PROVE  i \in DOMAIN answers' /\ answers'[i].status \in Script[i].expects
                /\ (Script[i].kind = "get" => answers'[i].tells = SeatsAllocated)
  <2>1. CASE i = k
    <3>1. Script[k].kind = "get" => k = 1
      BY CallKinds
    <3>2. QED
      BY <1>1, <2>1, <3>1
  <2>2. CASE i < k
    <3>1. i \in DOMAIN answers /\ Meets(i)
      BY <2>2 DEF Told
    <3>2. QED
      BY <1>1, <3>1 DEF Meets
  <2>3. QED
    BY <1>2, <2>1, <2>2
<1>3. ASSUME NEW h \in 1..9, PlacedIn(h) < k + 1
      PROVE  answers'[PlacedIn(h)].tells = h
  <2>1. PlacedIn(h) \in 1..40
    BY DEF PlacedIn
  <2>2. CASE PlacedIn(h) = k
    BY <1>1, <2>2
  <2>3. CASE PlacedIn(h) < k
    <3>1. PlacedIn(h) \in DOMAIN answers /\ answers[PlacedIn(h)].tells = h
      BY <2>1, <2>3 DEF Told
    <3>2. QED
      BY <1>1, <3>1
  <2>4. QED
    BY <1>3, <2>1, <2>2, <2>3
<1>4. QED
  BY <1>2, <1>3 DEF Told, Meets

LEMMA RowsKept ==
    ASSUME NEW k \in 1..40, RowsBefore(k), UNCHANGED <<holds, tickets>>,
           DOMAIN holds \subseteq 1..12, k \notin Placing, k \notin Selling
    PROVE  RowsBefore(k + 1)'
<1>1. /\ HoldsBefore(k + 1) = HoldsBefore(k) /\ TicketsBefore(k + 1) = TicketsBefore(k)
      /\ \A h \in 1..12 : SoldBefore(h, k + 1) <=> SoldBefore(h, k)
  BY Timetable, SalesTable
<1>2. QED
  BY <1>1 DEF RowsBefore

LEMMA RefsKept ==
    ASSUME NEW k \in 1..40, RefsSpent(k), UNCHANGED <<registrations, consumedBy>>,
           k \notin 20..22
    PROVE  RefsSpent(k + 1)'
<1>1. RefsBefore(k + 1) = RefsBefore(k)
  BY Timetable
<1>2. QED
  BY <1>1 DEF RefsSpent

LEMMA RowsPlaced ==
    ASSUME Ready, NEW k, at = k, k \in Placing, NEW show, PlaceHold(By, show),
           By \in patrons, By = Placer(HoldsBefore(k) + 1)
    PROVE  /\ RowsBefore(k + 1)' /\ Len(holds') = HoldsBefore(k) + 1
           /\ \A h \in DOMAIN holds' : IF h \in DOMAIN holds THEN holds'[h] = Lapsed[h]
                                       ELSE h = HoldsBefore(k) + 1 /\ holds'[h] = HoldRow(Lapsed, By)
<1> DEFINE n == HoldsBefore(k)
<1>1. k \in 1..40 /\ n \in 0..12 /\ DOMAIN holds = 1..n /\ Len(holds) = n
  BY PlacedNow DEF Ready, Scene, RowsBefore
<1>2. PlacedRows(By) /\ LapseKeepsRows
  BY PlaceHoldRows, LapsedRows DEF Ready, WalkTypeOK, TypeOK
<1>3. /\ DOMAIN holds' = 1..(n + 1) /\ holds'[n + 1] = HoldRow(Lapsed, By)
      /\ \A h \in 1..n : holds'[h] = Lapsed[h]
  BY <1>1, <1>2 DEF PlacedRows
<1>4. Len(holds') = n + 1 /\ n + 1 \in 1..12
  <2>1. holds' \in Seq(HoldRows)
    BY PlaceHoldType DEF Ready, WalkTypeOK, TypeOK
  <2>2. DOMAIN holds' = 1..Len(holds') /\ Len(holds') \in Nat
    BY <2>1, LenProperties
  <2>3. Len(holds') = n + 1
    BY <1>1, <1>3, <2>2
  <2>4. n + 1 \in 1..12
    <3>1. HoldsBefore(k + 1) = n + 1
      BY <1>1, Timetable
    <3>2. k + 1 \in 1..41
      BY <1>1
    <3>3. HoldsBefore(k + 1) \in 0..12
      BY <3>2, HoldsBeforeTypes
    <3> HIDE DEF n
    <3>4. QED
      BY <1>1, <3>1, <3>3
  <2>5. QED
    BY <2>3, <2>4
<1>5. HoldsBefore(k + 1) = n + 1 /\ TicketsBefore(k + 1) = TicketsBefore(k) /\ k \notin Selling
  <2>1. k \notin Selling
    BY DEF Placing, Selling
  <2>2. QED
    BY <1>1, <2>1, Timetable
<1>6. \A h \in 1..12 : /\ SoldBefore(h, k + 1) <=> SoldBefore(h, k)
                       /\ h = n + 1 => ~SoldBefore(h, k + 1)
  BY <1>1, <1>5, SalesTable
<1>7. tickets' = tickets /\ Len(tickets) = TicketsBefore(k)
  BY DEF PlaceHold, Ready, Scene, RowsBefore
<1>8. ASSUME NEW h \in 1..(n + 1)
      PROVE  holds'[h].patron = Placer(h) /\ (holds'[h].state = "confirmed" <=> SoldBefore(h, k + 1))
  <2>1. CASE h \in 1..n
    <3>1. holds[h].patron = Placer(h) /\ (holds[h].state = "confirmed" <=> SoldBefore(h, k))
      BY <1>1, <2>1 DEF Ready, Scene, RowsBefore
    <3>2. Lapsed[h].patron = holds[h].patron
          /\ (Lapsed[h].state = "confirmed" <=> holds[h].state = "confirmed")
      BY <1>1, <1>2, <2>1 DEF LapseKeepsRows
    <3>3. h \in 1..12
      BY <1>1, <2>1
    <3>4. QED
      BY <1>3, <1>6, <2>1, <3>1, <3>2, <3>3
  <2>2. CASE h = n + 1
    BY <1>3, <1>4, <1>6, <2>2 DEF HoldRow
  <2>3. QED
    BY <1>1, <2>1, <2>2
<1>9. RowsBefore(k + 1)'
  BY <1>3, <1>4, <1>5, <1>7, <1>8 DEF RowsBefore
<1>10. QED
  BY <1>1, <1>3, <1>4, <1>9

LEMMA RowsSold ==
    ASSUME Ready, NEW k, at = k, k \in Selling, ConfirmHold(By, SoldIn(k)), By \in patrons,
           UNCHANGED <<asleep, late>>
    PROVE  RowsBefore(k + 1)' /\ Unlapsed'
<1>1. k \in 1..40 /\ k <= 37 /\ Lapsed = holds /\ DOMAIN holds = 1..HoldsBefore(k)
      /\ HoldsBefore(k) \in 0..9
  <2>1. k \in 1..40 /\ k <= 37
    BY DEF Selling
  <2>2. QED
    BY <2>1, SceneRows
<1>2. ConfirmedRows(By, SoldIn(k))
  BY ConfirmHoldRows DEF Ready, WalkTypeOK
<1>3. /\ HoldsBefore(k + 1) = HoldsBefore(k) /\ TicketsBefore(k + 1) = TicketsBefore(k) + 1
      /\ \A h \in 1..12 : SoldBefore(h, k + 1) <=> SoldBefore(h, k) \/ h = SoldIn(k)
  <2>1. k \notin Placing
    BY DEF Selling, Placing
  <2>2. QED
    BY <1>1, <2>1, Timetable, SalesTable
<1>4. TypeOK'
  BY ConfirmHoldType DEF Ready, WalkTypeOK
<1>5. Len(holds') = HoldsBefore(k + 1) /\ Len(tickets') = TicketsBefore(k + 1)
  <2>1. /\ DOMAIN holds' = 1..Len(holds') /\ Len(holds') \in Nat
        /\ DOMAIN tickets' = 1..Len(tickets') /\ Len(tickets') \in Nat
    BY <1>4, LenProperties DEF TypeOK
  <2>2. DOMAIN holds' = 1..HoldsBefore(k) /\ DOMAIN tickets' = 1..(TicketsBefore(k) + 1)
    BY <1>1, <1>2 DEF ConfirmedRows, Ready, Scene, RowsBefore
  <2>3. TicketsBefore(k) \in 0..6
    <3>1. k \in 1..41
      BY <1>1
    <3>2. QED
      BY <3>1, HoldsBeforeTypes
  <2>4. QED
    BY <1>1, <1>3, <2>1, <2>2, <2>3
<1>6. ASSUME NEW h \in DOMAIN holds
      PROVE  /\ holds'[h].patron = Placer(h)
             /\ holds'[h].state = "confirmed" <=> SoldBefore(h, k + 1)
             /\ holds'[h].expires >= HoldTTL /\ holds'[h].state # "expired"
  <2>1. /\ holds[h].patron = Placer(h) /\ (holds[h].state = "confirmed" <=> SoldBefore(h, k))
        /\ holds[h].expires >= HoldTTL /\ holds[h].state # "expired"
    BY <1>1 DEF Ready, Scene, RowsBefore, Unlapsed
  <2>2. /\ holds'[h].patron = holds[h].patron /\ holds'[h].expires = holds[h].expires
        /\ holds'[h].state = IF h = SoldIn(k) THEN "confirmed" ELSE holds[h].state
    BY <1>1, <1>2 DEF ConfirmedRows
  <2>3. h \in 1..12
    BY <1>1
  <2>4. QED
    BY <1>3, <2>1, <2>2, <2>3
<1>7. DOMAIN holds' = DOMAIN holds
  BY <1>2 DEF ConfirmedRows
<1>8. RowsBefore(k + 1)'
  BY <1>5, <1>6, <1>7 DEF RowsBefore
<1>9. now' = now /\ asleep = 0 /\ now = late
  BY <1>1 DEF ConfirmHold, Ready, Scene, Unlapsed
<1>10. QED
  BY <1>6, <1>7, <1>8, <1>9 DEF Unlapsed

-----------------------------------------------------------------------------
(* Scene by scene. *)

LEMMA NextScene ==
    ASSUME WalkTypeOK, NEW k \in 1..40, at = k, NextCall, Scene, outcome = Null, UNCHANGED outcome,
           RowsBefore(k + 1)', RefsSpent(k + 1)', TokensGood', Told(k + 1)',
           k + 1 <= 37 => Unlapsed',
           k + 1 > 37 => \A h \in DOMAIN holds' : h > 9 => holds'[h].expires < asleep'
    PROVE  Scene'
<1>1. at' = k + 1 /\ outcome' = Null
  BY DEF NextCall
<1>2. RowsBefore(at)' /\ RefsSpent(at)' /\ Told(at)'
  BY <1>1
<1>3. QED
  BY <1>1, <1>2 DEF Scene

LEMMA QuietOn ==
    ASSUME Ready, NEW k, at = k, k \notin Placing, k \notin Selling, k \notin 20..22,
           UNCHANGED <<now, tokens, consumedBy, registrations, holds, tickets>>,
           UNCHANGED <<asleep, late, outcome>>, NextCall,
           NEW status, NEW tells, Answered(status, tells), status \in Script[k].expects,
           k = 1 => tells = SeatsAllocated
    PROVE  Scene'
<1>1. WalkTypeOK /\ Scene /\ k \in 1..40 /\ outcome = Null
  BY DEF Ready, Running
<1>2. RowsBefore(k + 1)'
  <2>1. DOMAIN holds \subseteq 1..12
    BY PlacedNow
  <2>2. RowsBefore(k)
    BY <1>1 DEF Scene
  <2>3. QED
    BY <1>1, <2>1, <2>2, RowsKept
<1>3. RefsSpent(k + 1)'
  BY <1>1, RefsKept DEF Scene
<1>4. TokensGood'
  BY <1>1 DEF Scene, TokensGood
<1>5. Told(k + 1)'
  <2>1. \A h \in 1..9 : PlacedIn(h) # k
    BY DEF Placing, PlacedIn
  <2>2. Told(k)
    BY <1>1 DEF Scene
  <2>3. QED
    BY <1>1, <2>1, <2>2, ToldOn
<1>6. k + 1 <= 37 => Unlapsed'
  BY <1>1 DEF Scene, Unlapsed
<1>7. k + 1 > 37 => \A h \in DOMAIN holds' : h > 9 => holds'[h].expires < asleep'
  <2>1. k + 1 > 37 => k > 37
    BY <1>1 DEF Placing
  <2>2. QED
    BY <1>1, <2>1 DEF Scene
<1>8. QED
  BY <1>1, <1>2, <1>3, <1>4, <1>5, <1>6, <1>7, NextScene

LEMMA PlacingExpects == \A i \in Placing : 201 \in Script[i].expects
<1>1. \A i \in {6, 7, 11, 12, 14} : Script[i].expects = {201}
  BY Cast DEF Is
<1>2. \A i \in 25..28 : Script[i].expects = {201}
  BY Cast DEF Is
<1>3. \A i \in 37..39 : Script[i].expects = {201, 401, 409}
  BY Cast
<1>4. QED
  BY <1>1, <1>2, <1>3 DEF Placing

LEMMA PlacedOn ==
    ASSUME Ready, NEW k, at = k, k \in Placing, NextCall, UNCHANGED <<late, outcome>>,
           IF k < 37 THEN UNCHANGED asleep ELSE asleep' = now + Settle,
           By \in patrons, By = Placer(HoldsBefore(k) + 1),
           NEW show, PlaceHold(By, show), Answered(201, Len(holds'))
    PROVE  Scene'
<1>1. WalkTypeOK /\ Scene /\ k \in 1..40 /\ outcome = Null
  BY DEF Ready, Running
<1>2. /\ RowsBefore(k + 1)' /\ Len(holds') = HoldsBefore(k) + 1
      /\ \A h \in DOMAIN holds' : IF h \in DOMAIN holds THEN holds'[h] = Lapsed[h]
                                  ELSE h = HoldsBefore(k) + 1 /\ holds'[h] = HoldRow(Lapsed, By)
  BY RowsPlaced
<1>3. UNCHANGED <<now, tokens, consumedBy, registrations>>
  BY DEF PlaceHold
<1>4. RefsSpent(k + 1)' /\ TokensGood'
  <2>1. k \notin 20..22
    BY DEF Placing
  <2>2. QED
    BY <1>1, <1>3, <2>1, RefsKept DEF Scene, TokensGood
<1>5. Told(k + 1)'
  <2>1. \A h \in 1..9 : PlacedIn(h) = k => Len(holds') = h
    <3>1. ASSUME NEW h \in 1..9, PlacedIn(h) = k PROVE h = HoldsBefore(k) + 1
      BY <3>1 DEF PlacedIn, HoldsBefore
    <3>2. QED
      BY <1>2, <3>1
  <2>2. 201 \in Script[k].expects /\ k # 1
    BY PlacingExpects DEF Placing
  <2>3. Told(k)
    BY <1>1 DEF Scene
  <2>4. PICK tells : tells = Len(holds')
    OBVIOUS
  <2>5. Answered(201, tells) /\ \A h \in 1..9 : PlacedIn(h) = k => tells = h
    BY <2>1, <2>4
  <2>6. QED
    BY <1>1, <2>2, <2>3, <2>5, ToldOn
<1>6. now \in Nat /\ HoldTTL \in Nat /\ HoldRow(Lapsed, By).expires = now + HoldTTL
      /\ HoldRow(Lapsed, By).state = "held"
  BY BoundsAssumption, SettingsAssumption DEF Ready, WalkTypeOK, TypeOK, HoldRow
<1>7. k + 1 <= 37 => Unlapsed'
  <2> SUFFICES ASSUME k + 1 <= 37 PROVE Unlapsed'
    OBVIOUS
  <2>1. Unlapsed /\ k < 37
    <3>1. k <= 37 /\ k < 37
      BY <1>1
    <3>2. QED
      BY <1>1, <3>1 DEF Scene
  <2>2. Lapsed = holds
    BY <2>1, NothingLapses DEF Ready
  <2>3. asleep' = 0 /\ now' = late'
    BY <1>3, <2>1 DEF Unlapsed
  <2>4. ASSUME NEW h \in DOMAIN holds' PROVE holds'[h].expires >= HoldTTL /\ holds'[h].state # "expired"
    <3>1. CASE h \in DOMAIN holds
      BY <1>2, <2>1, <2>2, <3>1 DEF Unlapsed
    <3>2. CASE h \notin DOMAIN holds
      BY <1>2, <1>6, <3>2
    <3>3. QED
      BY <3>1, <3>2
  <2>5. QED
    BY <2>3, <2>4 DEF Unlapsed
<1>8. k + 1 > 37 => \A h \in DOMAIN holds' : h > 9 => holds'[h].expires < asleep'
  <2> SUFFICES ASSUME k + 1 > 37, NEW h \in DOMAIN holds', h > 9
               PROVE  holds'[h].expires < asleep'
    OBVIOUS
  <2>1. k \in 37..39 /\ asleep' = now + HoldTTL + 1
    BY <1>6 DEF Placing, Settle
  <2>2. CASE h \notin DOMAIN holds
    BY <1>2, <1>6, <2>1, <2>2
  <2>3. CASE h \in DOMAIN holds
    <3>1. Lapsed[h].expires = holds[h].expires /\ holds[h].expires \in Int
      BY <2>3, LapsedRows, TimesAreInts DEF Ready, WalkTypeOK, TypeOK, LapseKeepsRows
    <3>2. k # 37
      <4>1. DOMAIN holds = 1..HoldsBefore(k)
        BY PlacedNow
      <4>2. HoldsBefore(37) = 9
        BY DEF HoldsBefore
      <4>3. QED
        BY <2>3, <4>1, <4>2
    <3>3. holds[h].expires < asleep /\ asleep <= now /\ asleep \in Nat
      BY <1>1, <2>1, <2>3, <3>2 DEF Scene, Ready, Running, WalkTypeOK
    <3>4. QED
      BY <1>2, <1>6, <2>1, <2>3, <3>1, <3>3
  <2>4. QED
    BY <2>2, <2>3
<1>9. QED
  BY <1>1, <1>2, <1>4, <1>5, <1>7, <1>8, NextScene

LEMMA SoldOn ==
    ASSUME Ready, NEW k, at = k, k \in Selling, NextCall, UNCHANGED <<asleep, late, outcome>>,
           By \in patrons, ConfirmHold(By, SoldIn(k)), Answered(201, 0)
    PROVE  Scene'
<1>1. WalkTypeOK /\ Scene /\ k \in 1..40 /\ outcome = Null /\ k + 1 <= 37
  BY DEF Ready, Running, Selling
<1>2. RowsBefore(k + 1)' /\ Unlapsed'
  BY RowsSold
<1>3. RefsSpent(k + 1)' /\ TokensGood'
  <2>1. k \notin 20..22
    BY DEF Selling
  <2>2. QED
    BY <1>1, <2>1, RefsKept DEF Scene, TokensGood, ConfirmHold
<1>4. Told(k + 1)'
  <2>1. \A h \in 1..9 : PlacedIn(h) # k
    BY DEF Selling, PlacedIn
  <2>2. 201 \in Script[k].expects /\ k # 1
    <3>1. Script[9].expects = {201} /\ Script[17].expects = {201}
      BY Cast DEF Is
    <3>2. \A i \in 29..32 : Script[i].expects = {201}
      BY Cast DEF Is
    <3>3. QED
      BY <3>1, <3>2 DEF Selling
  <2>3. Told(k)
    BY <1>1 DEF Scene
  <2>4. QED
    BY <1>1, <2>1, <2>2, <2>3, ToldOn
<1>5. QED
  BY <1>1, <1>2, <1>3, <1>4, NextScene

LEMMA RegisteredOn ==
    ASSUME Ready, NEW k, at = k, k \in 20..22, NextCall, UNCHANGED <<asleep, late, outcome>>,
           NEW ref, ref = ELIGIBILITY_REFS[k - 19], RegisterPatron(ref), Answered(201, 0)
    PROVE  Scene'
<1>1. WalkTypeOK /\ Scene /\ k \in 1..40 /\ outcome = Null /\ k + 1 <= 37 /\ TypeOK
      /\ GovernedIdentitySupply
  BY DEF Ready, Running, WalkTypeOK, Promised, is_vulnerable, GovernedIdentitySupply
<1>2. UNCHANGED <<now, holds, tickets>>
  BY DEF RegisterPatron
<1> DEFINE id == Cardinality(SelfService) + 1
<1>3. /\ tokens' = [p \in patrons \cup {id} |-> IF p = id THEN now + TokenTTL ELSE tokens[p]]
      /\ consumedBy' = [consumedBy EXCEPT ![ref] = id]
      /\ registrations' = Append(registrations, [patron |-> id, ref |-> ref])
  BY <1>1 DEF RegisterPatron, ConsumedAfter
<1>4. id \in Nat \ {0}
  BY <1>1, SelfServiceIdType
<1> HIDE DEF id
<1>5. TokensGood'
  <2>1. ASSUME NEW p \in FixturePatrons PROVE p \in DOMAIN tokens' /\ tokens'[p] = TokenTTL
    <3>1. p # id /\ p \in patrons
      BY <1>1, <1>4, PatronsAssumption DEF TypeOK
    <3>2. tokens[p] = TokenTTL
      BY <1>1 DEF Scene, TokensGood
    <3>3. QED
      BY <1>3, <3>1, <3>2
  <2>2. QED
    BY <2>1 DEF TokensGood
<1>6. RefsSpent(k + 1)'
  <2>1. RefsBefore(k) = k - 20 /\ RefsBefore(k + 1) = k - 19
    BY DEF RefsBefore
  <2>2. Len(registrations') = Len(registrations) + 1
    BY <1>3
  <2>3. Len(registrations) = k - 20
    BY <1>1, <2>1 DEF Scene, RefsSpent
  <2>4. ref \in EligibilityRefs /\ consumedBy \in [EligibilityRefs -> PatronIds \cup {Null}]
    BY <1>1, ScriptedRefs DEF TypeOK
  <2>5. ASSUME NEW j \in 1..4 PROVE consumedBy'[ELIGIBILITY_REFS[j]] = Null <=> j > k - 19
    <3>1. consumedBy[ELIGIBILITY_REFS[j]] = Null <=> j > k - 20
      BY <1>1, <2>1 DEF Scene, RefsSpent
    <3>2. ELIGIBILITY_REFS[j] \in EligibilityRefs
      BY ScriptedRefs
    <3>3. CASE j = k - 19
      <4>1. consumedBy'[ELIGIBILITY_REFS[j]] = id
        BY <1>3, <2>4, <3>2, <3>3
      <4>2. id # Null
        BY <1>4, PatronsAssumption
      <4>3. QED
        BY <3>3, <4>1, <4>2
    <3>4. CASE j # k - 19
      <4>1. ELIGIBILITY_REFS[j] # ref
        BY <3>4, ScriptedRefs
      <4>2. consumedBy'[ELIGIBILITY_REFS[j]] = consumedBy[ELIGIBILITY_REFS[j]]
        BY <1>3, <2>4, <3>2, <4>1
      <4>3. QED
        BY <3>1, <3>4, <4>2
    <3>5. QED
      BY <3>3, <3>4
  <2>6. QED
    BY <2>1, <2>2, <2>3, <2>5 DEF RefsSpent
<1>7. RowsBefore(k + 1)'
  <2>1. DOMAIN holds \subseteq 1..12 /\ k \notin Placing /\ k \notin Selling
    BY PlacedNow DEF Placing, Selling
  <2>2. RowsBefore(k)
    BY <1>1 DEF Scene
  <2>3. QED
    BY <1>1, <1>2, <2>1, <2>2, RowsKept
<1>8. Told(k + 1)'
  <2>1. \A h \in 1..9 : PlacedIn(h) # k
    BY DEF PlacedIn
  <2>2. 201 \in Script[k].expects /\ k # 1
    BY Cast DEF Is
  <2>3. Told(k)
    BY <1>1 DEF Scene
  <2>4. QED
    BY <1>1, <2>1, <2>2, <2>3, ToldOn
<1>9. Unlapsed'
  BY <1>1, <1>2 DEF Scene, Unlapsed
<1>10. QED
  BY <1>1, <1>5, <1>6, <1>7, <1>8, <1>9, NextScene

LEMMA AskedOn ==
    ASSUME Ready, Asked, SeatsAllocated >= 10
    PROVE  Scene'
<1>1. PICK k \in 1..40 : k = at
  BY DEF Ready
<1>2. UNCHANGED <<late, outcome>>
  BY DEF Asked, ReadsShow, Unauthenticated, Holds, Cycles, Confirms, LeavesOut, Registers
<1>3. CASE k = 1
  <2>1. ReadsShow
    BY <1>1, <1>3, HandlerOf
  <2>2. Lapsed = holds
    BY <1>1, <1>3, SceneRows DEF Ready
  <2>3. /\ UNCHANGED <<now, tokens, consumedBy, registrations, holds, tickets>>
        /\ UNCHANGED asleep /\ NextCall /\ Answered(200, SeatsAvailable)
    BY <2>1, <2>2 DEF ReadsShow, ReadShow
  <2>4. SeatsAvailable = SeatsAllocated
    <3>1. DOMAIN holds = 1..0 /\ Len(tickets) = 0
      BY <1>1, <1>3, PlacedNow DEF HoldsBefore, TicketsBefore, Ready, Scene, RowsBefore
    <3>2. {h \in DOMAIN Lapsed : Lapsed[h].state = "held"} = {}
      BY <2>2, <3>1
    <3>3. SeatsAvailable = SeatsAllocated - 0 - 0
      BY <3>1, <3>2, FS_EmptySet DEF SeatsAvailable
    <3>4. SeatsAllocated \in Nat
      BY SettingsAssumption
    <3>5. QED
      BY <3>3, <3>4
  <2>5. 200 \in Script[k].expects
    BY <1>3, Cast DEF Is
  <2>6. k \notin Placing /\ k \notin Selling /\ k \notin 20..22
    BY <1>3 DEF Placing, Selling
  <2>7. QED
    BY <1>1, <1>2, <2>3, <2>4, <2>5, <2>6, QuietOn
<1>4. CASE k \in 2..5 \cup {8, 10, 13, 33, 34, 40, 15, 16, 18, 35, 19, 23, 24, 36}
  <2>1. PICK status : /\ UNCHANGED vars /\ UNCHANGED asleep /\ NextCall
                      /\ Answered(status, 0) /\ status \in Script[k].expects
    <3>1. CASE k \in 2..5
      <4>1. Unauthenticated /\ Script[at].kind # "cycle"
        BY <1>1, <3>1, HandlerOf, CallKinds
      <4>2. 401 \in Script[k].expects
        BY <3>1, Cast DEF Is
      <4>3. QED
        BY <4>1, <4>2 DEF Unauthenticated, NextCall
    <3>2. CASE k \in {8, 10, 13, 33, 34, 40}
      <4>1. Holds
        BY <1>1, <3>2, HandlerOf
      <4>2. UNCHANGED vars /\ Answered(409, 0)
        BY <1>1, <3>2, <4>1, HoldRefused, LastHoldRefused
      <4>3. 409 \in Script[k].expects
        BY <3>2, Cast DEF Is
      <4>4. QED
        BY <4>1, <4>2, <4>3 DEF Holds
    <3>3. CASE k \in {15, 16, 18, 35}
      <4>1. Confirms
        BY <1>1, <3>3, HandlerOf
      <4>2. UNCHANGED vars /\ Answered(409, 0)
        BY <1>1, <3>3, <4>1, ConfirmRefused
      <4>3. 409 \in Script[k].expects
        BY <3>3, Cast DEF Is
      <4>4. QED
        BY <4>1, <4>2, <4>3 DEF Confirms
    <3>4. CASE k \in {19, 23, 24, 36}
      <4>1. Registers
        BY <1>1, <3>4, HandlerOf
      <4>2. UNCHANGED vars /\ Answered(409, 0)
        BY <1>1, <3>4, <4>1, RegistrationRefused
      <4>3. 409 \in Script[k].expects
        BY <3>4, Cast DEF Is
      <4>4. QED
        BY <4>1, <4>2, <4>3 DEF Registers
    <3>5. QED
      BY <1>4, <3>1, <3>2, <3>3, <3>4
  <2>2. UNCHANGED <<now, tokens, consumedBy, registrations, holds, tickets>>
    BY <2>1 DEF vars, db
  <2>3. k \notin Placing /\ k \notin Selling /\ k \notin 20..22 /\ k # 1
    BY <1>4 DEF Placing, Selling
  <2>4. QED
    BY <1>1, <1>2, <2>1, <2>2, <2>3, QuietOn
<1>5. CASE k \in Placing /\ k < 37
  <2>1. Holds
    BY <1>1, <1>5, HandlerOf DEF Placing
  <2>2. By = Placer(HoldsBefore(k) + 1)
    BY <1>1, <1>5, <2>1, HoldGranted
  <2>3. PICK show \in Shows : PlaceHold(By, show) /\ Answered(201, Len(holds'))
    BY <1>1, <1>5, <2>1, HoldGranted
  <2>4. By \in patrons /\ NextCall /\ UNCHANGED asleep
    BY <2>1, TokensOfPatrons DEF Holds, Ready, WalkTypeOK
  <2>5. QED
    BY <1>1, <1>2, <1>5, <2>2, <2>3, <2>4, PlacedOn
<1>6. CASE k \in 37..39
  <2>1. Cycles
    BY <1>1, <1>6, HandlerOf
  <2>2. By = PATRON_010 /\ NextCall /\ asleep' = now + Settle
    BY <1>1, <1>6, <2>1, CycleGranted
  <2>3. PICK show \in Shows : PlaceHold(By, show) /\ Answered(201, Len(holds'))
    BY <1>1, <1>6, <2>1, CycleGranted
  <2>4. By \in patrons
    BY <2>1, TokensOfPatrons DEF Cycles, Ready, WalkTypeOK
  <2>5. k \in Placing /\ ~(k < 37) /\ By = Placer(HoldsBefore(k) + 1)
    BY <1>6, <2>2 DEF Placing, Placer, HoldsBefore
  <2>6. QED
    BY <1>1, <1>2, <2>2, <2>3, <2>4, <2>5, PlacedOn
<1>7. CASE k \in Selling
  <2>1. Confirms
    BY <1>1, <1>7, HandlerOf DEF Selling
  <2>2. ConfirmHold(By, SoldIn(k)) /\ Answered(201, 0)
    BY <1>1, <1>7, <2>1, ConfirmGrantedTo
  <2>3. By \in patrons /\ NextCall /\ UNCHANGED asleep
    BY <2>1, TokensOfPatrons DEF Confirms, Ready, WalkTypeOK
  <2>4. QED
    BY <1>1, <1>2, <1>7, <2>2, <2>3, SoldOn
<1>8. CASE k \in 20..22
  <2>1. Registers
    BY <1>1, <1>8, HandlerOf
  <2>2. PICK ref : ref = By
    OBVIOUS
  <2>3. ref = ELIGIBILITY_REFS[k - 19] /\ RegisterPatron(ref) /\ Answered(201, 0)
    BY <1>1, <1>8, <2>1, <2>2, RegistrationGranted
  <2>4. NextCall /\ UNCHANGED asleep
    BY <2>1 DEF Registers
  <2>5. QED
    BY <1>1, <1>2, <1>8, <2>3, <2>4, RegisteredOn
<1>9. QED
  BY <1>3, <1>4, <1>5, <1>6, <1>7, <1>8 DEF Placing, Selling

\* Until the next call is made the tables stay as they are.
LEMMA UnaskedOn ==
    ASSUME WalkTypeOK, InTime, Promised, Venue, Scene,
           Crash \/ Concludes \/ Wakes \/ HeldUp \/ Ended \/ UNCHANGED walkVars
    PROVE  Scene'
<1>1. at \in 1..41 /\ Len(Script) = 40 /\ now \in Nat /\ asleep \in Nat /\ late \in Nat
  BY CallKinds, BoundsAssumption DEF WalkTypeOK, TypeOK
<1>2. ~Crash
  <2> SUFFICES ASSUME Crash PROVE FALSE
    OBVIOUS
  <2>1. Ready
    BY <1>1 DEF Crash, Now, Running, Ready
  <2>2. QED
    BY <2>1, IdsRead DEF Crash
<1>3. UNCHANGED <<holds, tickets, registrations, consumedBy, tokens, at, answers, asleep>>
  BY <1>2 DEF Concludes, Wakes, HeldUp, Ended, Passes, walkVars, walk, vars, db
<1>4. RowsBefore(at)' /\ RefsSpent(at)' /\ TokensGood' /\ Told(at)'
  BY <1>3 DEF Scene, RowsBefore, RefsSpent, TokensGood, Told, Meets
<1>5. at <= 37 => Unlapsed'
  <2> SUFFICES ASSUME at <= 37 PROVE now' = late'
    BY <1>1, <1>3 DEF Scene, Unlapsed
  <2>1. now = late /\ asleep = 0
    BY <1>1 DEF Scene, Unlapsed
  <2>2. ~Wakes
    BY <1>1, <2>1 DEF Wakes
  <2>3. CASE HeldUp
    BY <2>1, <2>3 DEF HeldUp, Passes
  <2>4. QED
    BY <1>2, <2>1, <2>2, <2>3 DEF Concludes, Ended, walkVars, walk, vars
<1>6. outcome' = Null \/ (outcome' = "passed" /\ at = 41)
  <2>1. CASE Concludes
    <3>1. at = 41 /\ DOMAIN answers \subseteq 1..40
      BY <1>1, <2>1 DEF Concludes, WalkTypeOK
    <3>2. \A i \in 1..40 : Meets(i)
      BY <3>1 DEF Scene, Told
    <3>3. QED
      BY <2>1, <3>1, <3>2 DEF Concludes
  <2>2. CASE ~Concludes
    BY <1>2, <2>2 DEF Scene, Wakes, HeldUp, Ended, walkVars, walk
  <2>3. QED
    BY <2>1, <2>2
<1>7. QED
  BY <1>1, <1>3, <1>4, <1>5, <1>6 DEF Scene

LEMMA SceneStep ==
    ASSUME SeatsAllocated >= 10, WalkTypeOK, Venue, SceneInv, [WalkNext]_walkVars
    PROVE  SceneInv'
<1> SUFFICES ASSUME Promised', InTime' PROVE Scene'
  BY DEF SceneInv
<1>1. InTime
  BY ClosedForGood
<1>2. Promised
  <2>1. policy' = policy
    <3>1. CASE Waits
      BY <3>1 DEF Waits
    <3>2. CASE [Next]_vars
      BY <3>2 DEF Next, Request, RegisterPatron, PlaceHold, ConfirmHold, ReadShow, RefuseRegistration,
             RefuseHold, RefuseConfirm, RefuseRead, Tick, ClockStepsBack, vars
    <3>3. QED
      BY <3>1, <3>2, WalkStep
  <2>2. QED
    BY <2>1 DEF Promised, Documented
<1>3. Scene
  BY <1>1, <1>2 DEF SceneInv
<1>4. CASE Asked
  <2>1. at \in 1..40 /\ Running
    <3>1. Running
      BY <1>4 DEF Asked, ReadsShow, Unauthenticated, Holds, Cycles, Confirms, LeavesOut, Registers,
                  Now
    <3>2. QED
      BY <3>1, CallKinds DEF Running, WalkTypeOK
  <2>2. QED
    BY <1>1, <1>2, <1>3, <1>4, <2>1, AskedOn DEF Ready
<1>5. CASE Crash \/ Concludes \/ Wakes \/ HeldUp \/ Ended \/ UNCHANGED walkVars
  BY <1>1, <1>2, <1>3, <1>5, UnaskedOn
<1>6. QED
  BY <1>4, <1>5 DEF WalkNext, Walks, Asked

\* Whatever the script was held up, as long as that closed no window, the secure
\* application with the documented settings answers every call as promised: no
\* check fails, the re-hold loop gets through exactly SeatQuotaDefault +
\* ReholdAllowance holds, and all that was confirmed is sold.  Ten seats are what
\* the script needs at once at most (walkthrough.py, run and its checks).
THEOREM SecureApplicationPasses ==
    ASSUME SeatsAllocated >= 10
    PROVE  WalkSpec => []SecurePasses
<1>1. WalkInit => WalkTypeOK /\ Venue /\ SceneInv
  BY WalkInitType, InitVenueWalk, InitScene
<1>2. (WalkTypeOK /\ Venue /\ SceneInv) /\ [WalkNext]_walkVars => (WalkTypeOK /\ Venue /\ SceneInv)'
  BY SceneStep, WalkTypeStep, WalkStep, VenueStep
<1>3. WalkTypeOK /\ Venue /\ SceneInv => SecurePasses
  <2> SUFFICES ASSUME WalkTypeOK, Venue, SceneInv, ~is_vulnerable(policy), Documented, InTime,
                      outcome # Null
               PROVE  /\ outcome = "passed"
                      /\ Placed(PATRON_010) = SeatQuotaDefault + ReholdAllowance
                      /\ Len(tickets) = 2 + HouseholdEntitlement
    BY DEF SecurePasses, Placed
  <2>1. Scene /\ outcome = "passed" /\ at = 41
    BY DEF SceneInv, Promised, Scene
  <2>2. PICK k : k = at
    OBVIOUS
  <2>3. k \in 1..41 /\ RowsBefore(k) /\ HoldsBefore(k) = 12 /\ TicketsBefore(k) = 6
    BY <2>1, <2>2 DEF Scene, HoldsBefore, TicketsBefore
  <2>4. Placed(PATRON_010) = 3
    <3>1. PICK n : n = HoldsBefore(k)
      OBVIOUS
    <3>2. Placed(PATRON_010) = IF n <= 9 THEN 0 ELSE n - 9
      BY <2>3, <3>1, PlacedSoFar
    <3>3. QED
      BY <2>3, <3>1, <3>2
  <2>5. Len(tickets) = 6
    BY <2>3 DEF RowsBefore
  <2>6. QED
    BY <2>1, <2>4, <2>5 DEF Documented
<1>4. QED
  BY <1>1, <1>2, <1>3, PTL DEF WalkSpec
==============================================================================
