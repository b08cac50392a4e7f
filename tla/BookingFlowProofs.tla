--------------------------- MODULE BookingFlowProofs ---------------------------
(***************************************************************************)
(* Theorems about BookingFlow, for every policy, every number of seats,    *)
(* patrons and references, and every setting: what its tables keep; then   *)
(* who has which seats, that the flow implements the seat allocation, that *)
(* the operator stays within its ceiling and nobody is crowded out.        *)
(***************************************************************************)
EXTENDS BookingFlowAllocation, FiniteSetTheorems, FunctionTheorems, SequenceTheorems, TLAPS

-----------------------------------------------------------------------------
(* Lemmas about the operators. *)

\* A non-empty set of seats has a lowest one, which LowestSeat picks.
LEMMA LowestSeatExists ==
    ASSUME NEW S \in SUBSET Nat, S # {}
    PROVE  LowestSeat(S) \in S
<1> DEFINE Less == {ss \in Nat \X Nat : ss[1] < ss[2]}
<1>1. IsWellFoundedOn(Less, Nat)
  BY NatLessThanWellFounded DEF OpToRel
<1>2. \E x \in S : \A y \in S : ~ (<<y, x>> \in Less)
  <2> HIDE DEF Less
  <2> QED
    BY <1>1, WFMin
<1>3. PICK x \in S : \A y \in S : ~ (<<y, x>> \in Less)
  BY <1>2
<1>4. ASSUME NEW y \in S  PROVE x <= y
  <2>1. <<y, x>> \in Less <=> y < x
    OBVIOUS
  <2>2. x \in Nat /\ y \in Nat /\ ~ (y < x)
    BY <1>3, <2>1
  <2>3. QED
    BY <2>2
<1>5. QED
  BY <1>4 DEF LowestSeat

\* expire_due_holds keeps every row and only moves held ones to expired.
LapseKeepsRows ==
    /\ Lapsed \in Seq(HoldRows)
    /\ Len(Lapsed) = Len(holds)
    /\ DOMAIN Lapsed = DOMAIN holds
    /\ DOMAIN holds = 1..Len(holds)
    /\ \A h \in DOMAIN holds :
          /\ Lapsed[h].seat = holds[h].seat
          /\ Lapsed[h].patron = holds[h].patron
          /\ Lapsed[h].expires = holds[h].expires
          /\ Lapsed[h].state = "held" <=> holds[h].state = "held" /\ ~Due(h)
          /\ Lapsed[h].state = "confirmed" <=> holds[h].state = "confirmed"
          /\ Lapsed[h].state = "expired"
               <=> holds[h].state = "expired" \/ Due(h)

LEMMA LapsedRows ==
    ASSUME holds \in Seq(HoldRows)
    PROVE  LapseKeepsRows
<1>1. /\ DOMAIN holds = 1..Len(holds) /\ Len(holds) \in Nat
      /\ holds \in [1..Len(holds) -> HoldRows]
  BY LenProperties
<1>2. Lapsed \in [1..Len(holds) -> HoldRows]
  BY <1>1 DEF Lapsed, HoldRows
<1>3. Lapsed \in Seq(HoldRows) /\ Len(Lapsed) = Len(holds)
  BY <1>1, <1>2, SeqDef, LenProperties
<1>4. QED
  BY <1>1, <1>2, <1>3 DEF LapseKeepsRows, Lapsed, Due, HoldRows

\* The rows a transaction adds or changes are rows of their tables.
LEMMA HoldRowType ==
    ASSUME TypeOK, NEW p \in patrons, NEW show, HoldAdmitted(Lapsed, p, show)
    PROVE  /\ HoldRow(Lapsed, p) \in HoldRows
           /\ LowestSeat(FreeSeats(Lapsed)) \in FreeSeats(Lapsed)
<1>1. FreeSeats(Lapsed) \in SUBSET Nat /\ FreeSeats(Lapsed) \subseteq Seats
  BY DEF FreeSeats, Seats
<1>2. LowestSeat(FreeSeats(Lapsed)) \in FreeSeats(Lapsed)
  BY <1>1, LowestSeatExists DEF HoldAdmitted
<1>3. now + HoldTTL \in Int
  BY SettingsAssumption DEF TypeOK
<1>4. QED
  BY <1>1, <1>2, <1>3 DEF HoldRow, HoldRows, TypeOK

\* COUNT(*) + 1 over the self-service patrons is the number of an id.
LEMMA SelfServiceIdType ==
    ASSUME TypeOK
    PROVE  Cardinality(SelfService) + 1 \in Nat \ {0}
<1>1. IsFiniteSet(SelfService)
  BY FS_Subset DEF SelfService, TypeOK
<1>2. QED
  BY <1>1, FS_CardinalityType

LEMMA HoldsAfterConfirmRows ==
    ASSUME TypeOK, NEW h \in DOMAIN holds
    PROVE  /\ HoldsAfterConfirm(Lapsed, h) \in Seq(HoldRows)
           /\ Len(HoldsAfterConfirm(Lapsed, h)) = Len(holds)
           /\ \A k \in DOMAIN holds :
                 HoldsAfterConfirm(Lapsed, h)[k] =
                    IF k = h THEN [Lapsed[h] EXCEPT !.state = "confirmed"] ELSE Lapsed[k]
<1>1. Lapsed \in Seq(HoldRows) /\ Len(Lapsed) = Len(holds) /\ h \in 1..Len(Lapsed)
      /\ DOMAIN holds = 1..Len(Lapsed)
  BY LapsedRows DEF LapseKeepsRows, TypeOK
<1>2. [Lapsed[h] EXCEPT !.state = "confirmed"] \in HoldRows
  <2>1. Lapsed[h] \in HoldRows
    BY <1>1, ElementOfSeq
  <2>2. QED
    BY <2>1 DEF HoldRows
<1>3. QED
  BY <1>1, <1>2, ExceptSeq DEF HoldsAfterConfirm

LEMMA FlowsAfterConfirmRows ==
    ASSUME TypeOK, NEW h \in DOMAIN flows
    PROVE  /\ FlowsAfterConfirm(h) \in Seq(FlowRows)
           /\ Len(FlowsAfterConfirm(h)) = Len(flows)
           /\ \A k \in DOMAIN flows :
                 FlowsAfterConfirm(h)[k] =
                    IF k = h THEN [flows[h] EXCEPT !.step = "confirmed"] ELSE flows[k]
<1>1. flows \in Seq(FlowRows) /\ DOMAIN flows = 1..Len(flows)
  BY LenProperties DEF TypeOK
<1>2. [flows[h] EXCEPT !.step = "confirmed"] \in FlowRows
  <2>1. flows[h] \in FlowRows
    BY <1>1, ElementOfSeq
  <2>2. QED
    BY <2>1 DEF FlowRows
<1>3. QED
  BY <1>1, <1>2, ExceptSeq DEF FlowsAfterConfirm

-----------------------------------------------------------------------------
(* Type correctness. *)

LEMMA InitType == Init => TypeOK
<1> SUFFICES ASSUME Init PROVE TypeOK
  OBVIOUS
<1>1. /\ registrations \in Seq(RegistrationRows) /\ holds \in Seq(HoldRows)
      /\ flows \in Seq(FlowRows) /\ tickets \in Seq(TicketRows)
      /\ Len(flows) = Len(holds)
  BY EmptySeq DEF Init
<1>2. policy \in Policies /\ now \in 0..MaxTime /\ tokens \in [patrons -> Int]
  BY BoundsAssumption, SettingsAssumption DEF Init
<1>3. /\ FixturePatrons \subseteq patrons /\ patrons \subseteq PatronIds
      /\ IsFiniteSet(patrons)
      /\ consumedBy \in [EligibilityRefs -> PatronIds \cup {Null}]
  BY PatronsAssumption DEF Init, PatronIds
<1>4. QED
  BY <1>1, <1>2, <1>3 DEF TypeOK

LEMMA RegisterType ==
    ASSUME TypeOK, NEW ref \in EligibilityRefs \cup {Null}, RegisterPatron(ref)
    PROVE  TypeOK'
<1> DEFINE id == Cardinality(SelfService) + 1
<1>1. id \in Nat \ {0} /\ id \in PatronIds
  BY SelfServiceIdType DEF PatronIds
<1>2. patrons' = patrons \cup {id} /\ IsFiniteSet(patrons')
  BY FS_AddElement DEF RegisterPatron, TypeOK
<1>3. tokens' \in [patrons' -> Int]
  <2>1. now + TokenTTL \in Int
    BY SettingsAssumption DEF TypeOK
  <2>2. tokens' = [p \in patrons' |-> IF p = id THEN now + TokenTTL ELSE tokens[p]]
    BY <1>2 DEF RegisterPatron
  <2>3. \A p \in patrons' : p # id => tokens[p] \in Int
    BY <1>2 DEF TypeOK
  <2>4. QED
    BY <2>1, <2>2, <2>3
<1>4. /\ consumedBy' \in [EligibilityRefs -> PatronIds \cup {Null}]
      /\ registrations' \in Seq(RegistrationRows)
  <2>1. CASE ~GovernedIdentitySupply
    BY <2>1 DEF RegisterPatron, TypeOK
  <2>2. CASE GovernedIdentitySupply
    <3>1. ref \in EligibilityRefs
      BY <2>2 DEF RegisterPatron, IdentityGranted
    <3>2. [patron |-> id, ref |-> ref] \in RegistrationRows
      BY <1>1, <3>1 DEF RegistrationRows
    <3>3. registrations' = Append(registrations, [patron |-> id, ref |-> ref])
      BY <2>2 DEF RegisterPatron
    <3>4. registrations' \in Seq(RegistrationRows)
      BY <3>2, <3>3, AppendProperties DEF TypeOK
    <3>5. consumedBy' = [consumedBy EXCEPT ![ref] = id]
      BY <2>2 DEF RegisterPatron, ConsumedAfter
    <3>6. QED
      BY <1>1, <3>1, <3>4, <3>5 DEF TypeOK
  <2>3. QED
    BY <2>1, <2>2
<1>5. QED
  BY <1>1, <1>2, <1>3, <1>4 DEF TypeOK, RegisterPatron

LEMMA PlaceHoldType ==
    ASSUME TypeOK, NEW p \in patrons, NEW show, PlaceHold(p, show)
    PROVE  TypeOK'
<1>1. HoldRow(Lapsed, p) \in HoldRows
  BY HoldRowType DEF PlaceHold
<1>2. Lapsed \in Seq(HoldRows) /\ Len(Lapsed) = Len(holds)
  BY LapsedRows DEF LapseKeepsRows, TypeOK
<1>3. holds' \in Seq(HoldRows) /\ Len(holds') = Len(holds) + 1
  BY <1>1, <1>2, AppendProperties DEF PlaceHold
<1>4. [patron |-> p, step |-> "held"] \in FlowRows
  BY DEF TypeOK, FlowRows
<1>5. flows' \in Seq(FlowRows) /\ Len(flows') = Len(flows) + 1
  BY <1>4, AppendProperties DEF PlaceHold, TypeOK
<1>6. QED
  BY <1>3, <1>5 DEF TypeOK, PlaceHold

LEMMA ConfirmHoldType ==
    ASSUME TypeOK, NEW p \in patrons, NEW h, ConfirmHold(p, h)
    PROVE  TypeOK'
<1>1. h \in DOMAIN flows /\ h \in DOMAIN holds /\ h \in Nat \ {0}
  <2>1. DOMAIN flows = 1..Len(flows) /\ DOMAIN holds = 1..Len(holds)
    BY LenProperties DEF TypeOK
  <2>2. QED
    BY <2>1 DEF ConfirmHold, ConfirmAdmitted, TypeOK
<1>2. holds[h].seat \in Seats
  <2>1. holds[h] \in HoldRows
    BY <1>1, ElementOfSeq, LenProperties DEF TypeOK
  <2>2. QED
    BY <2>1 DEF HoldRows
<1>3. [hold |-> h, seat |-> holds[h].seat, patron |-> p] \in TicketRows
  BY <1>1, <1>2 DEF TypeOK, TicketRows
<1>4. tickets' \in Seq(TicketRows)
  BY <1>3, AppendProperties DEF ConfirmHold, TypeOK
<1>5. holds' \in Seq(HoldRows) /\ Len(holds') = Len(holds)
  BY <1>1, HoldsAfterConfirmRows DEF ConfirmHold
<1>6. flows' \in Seq(FlowRows) /\ Len(flows') = Len(flows)
  BY <1>1, FlowsAfterConfirmRows DEF ConfirmHold
<1>7. QED
  BY <1>4, <1>5, <1>6 DEF TypeOK, ConfirmHold

\* Whatever the request, the clock or an idle moment does.
LEMMA NextType == TypeOK /\ [Next]_vars => TypeOK'
<1> SUFFICES ASSUME TypeOK, [Next]_vars PROVE TypeOK'
  OBVIOUS
<1>1. ASSUME NEW ref \in EligibilityRefs \cup {Null}, RegisterPatron(ref)
      PROVE  TypeOK'
  BY <1>1, RegisterType
<1>2. ASSUME NEW p \in patrons, NEW show \in ShowIds, PlaceHold(p, show)
      PROVE  TypeOK'
  BY <1>2, PlaceHoldType
<1>3. ASSUME NEW p \in patrons, NEW h \in 1..(Len(holds) + 1), ConfirmHold(p, h)
      PROVE  TypeOK'
  BY <1>3, ConfirmHoldType
<1>4. ASSUME NEW show \in ShowIds, ReadShow(show)
      PROVE  TypeOK'
  BY <1>4, LapsedRows DEF ReadShow, LapseKeepsRows, TypeOK
<1>5. CASE Tick \/ ClockStepsBack
  BY <1>5, BoundsAssumption DEF Tick, ClockStepsBack, db, TypeOK
<1>6. CASE UNCHANGED vars
  BY <1>6 DEF vars, db, TypeOK
<1>7. QED
  BY <1>1, <1>2, <1>3, <1>4, <1>5, <1>6
     DEF Next, Request, RefuseRegistration, RefuseHold, RefuseConfirm, RefuseRead

\* Every table keeps the shape of its schema (db.py, SCHEMA), and the two
\* tables a hold writes stay in step.
THEOREM TypeCorrect == Spec => []TypeOK
  BY InitType, NextType, PTL DEF Spec

\* An application keeps the policy it was created with.
LEMMA PolicyKept ==
    ASSUME [Next]_vars
    PROVE  /\ SeatQuota' <=> SeatQuota
           /\ GovernedIdentitySupply' <=> GovernedIdentitySupply
           /\ FlowState' <=> FlowState
<1>1. policy' = policy
  BY DEF Next, Request, RegisterPatron, PlaceHold, ConfirmHold, ReadShow, RefuseRegistration,
         RefuseHold, RefuseConfirm, RefuseRead, Tick, ClockStepsBack, vars
<1>2. QED
  BY <1>1 DEF SeatQuota, GovernedIdentitySupply, FlowState

-----------------------------------------------------------------------------
(* What the granted transactions leave in the tables, row by row. *)

PlacedRows(p) ==
    /\ Len(holds) \in Nat
    /\ DOMAIN holds = 1..Len(holds) /\ DOMAIN holds' = 1..(Len(holds) + 1)
    /\ DOMAIN flows = DOMAIN holds /\ DOMAIN flows' = DOMAIN holds'
    /\ \A h \in DOMAIN holds : holds'[h] = Lapsed[h] /\ flows'[h] = flows[h]
    /\ holds'[Len(holds) + 1] = HoldRow(Lapsed, p)
    /\ flows'[Len(holds) + 1] = [patron |-> p, step |-> "held"]
    /\ HoldRow(Lapsed, p).seat \in FreeSeats(Lapsed)

LEMMA PlaceHoldRows ==
    ASSUME TypeOK, NEW p \in patrons, NEW show, PlaceHold(p, show)
    PROVE  PlacedRows(p)
<1>1. /\ HoldRow(Lapsed, p) \in HoldRows
      /\ HoldRow(Lapsed, p).seat \in FreeSeats(Lapsed)
  BY HoldRowType DEF PlaceHold, HoldRow
<1>2. Lapsed \in Seq(HoldRows) /\ Len(Lapsed) = Len(holds)
  BY LapsedRows DEF LapseKeepsRows, TypeOK
<1>3. [patron |-> p, step |-> "held"] \in FlowRows
  BY DEF TypeOK, FlowRows
<1>4. /\ Len(holds) \in Nat /\ DOMAIN holds = 1..Len(holds)
      /\ DOMAIN flows = 1..Len(flows) /\ Len(flows) = Len(holds)
  BY LenProperties DEF TypeOK
<1>5. /\ holds' \in Seq(HoldRows) /\ Len(holds') = Len(holds) + 1
      /\ \A h \in 1..Len(holds) : holds'[h] = Lapsed[h]
      /\ holds'[Len(holds) + 1] = HoldRow(Lapsed, p)
  BY <1>1, <1>2, AppendProperties DEF PlaceHold
<1>6. /\ flows' \in Seq(FlowRows) /\ Len(flows') = Len(flows) + 1
      /\ \A h \in 1..Len(flows) : flows'[h] = flows[h]
      /\ flows'[Len(flows) + 1] = [patron |-> p, step |-> "held"]
  BY <1>3, AppendProperties DEF PlaceHold, TypeOK
<1>7. DOMAIN holds' = 1..(Len(holds) + 1) /\ DOMAIN flows' = 1..(Len(holds) + 1)
  BY <1>4, <1>5, <1>6, LenProperties
<1>8. QED
  BY <1>1, <1>4, <1>5, <1>6, <1>7 DEF PlacedRows

ConfirmedRows(p, h) ==
    /\ h \in DOMAIN holds /\ holds[h].state = "held" /\ ~Due(h)
    /\ FlowState => flows[h].patron = p
    /\ DOMAIN holds' = DOMAIN holds /\ DOMAIN flows = DOMAIN holds
    /\ DOMAIN flows' = DOMAIN holds
    /\ \A k \in DOMAIN holds :
          /\ holds'[k].seat = holds[k].seat
          /\ holds'[k].patron = holds[k].patron
          /\ holds'[k].expires = holds[k].expires
          /\ holds'[k].state = IF k = h THEN "confirmed" ELSE Lapsed[k].state
          /\ flows'[k].patron = flows[k].patron
          /\ flows'[k].step = IF k = h THEN "confirmed" ELSE flows[k].step
    /\ Len(tickets) \in Nat /\ DOMAIN tickets = 1..Len(tickets)
    /\ DOMAIN tickets' = 1..(Len(tickets) + 1)
    /\ \A t \in DOMAIN tickets : tickets'[t] = tickets[t]
    /\ tickets'[Len(tickets) + 1]
         = [hold |-> h, seat |-> holds[h].seat, patron |-> p]

LEMMA ConfirmHoldRows ==
    ASSUME TypeOK, NEW p \in patrons, NEW h, ConfirmHold(p, h)
    PROVE  ConfirmedRows(p, h)
<1>1. DOMAIN flows = DOMAIN holds /\ h \in DOMAIN holds /\ h \in Nat \ {0}
  <2>1. DOMAIN flows = 1..Len(flows) /\ DOMAIN holds = 1..Len(holds)
    BY LenProperties DEF TypeOK
  <2>2. QED
    BY <2>1 DEF ConfirmHold, ConfirmAdmitted, TypeOK
<1>2. /\ DOMAIN Lapsed = DOMAIN holds
      /\ \A k \in DOMAIN holds :
            /\ Lapsed[k].seat = holds[k].seat /\ Lapsed[k].patron = holds[k].patron
            /\ Lapsed[k].expires = holds[k].expires
            /\ Lapsed[k].state = "held" <=> holds[k].state = "held" /\ ~Due(k)
            /\ Lapsed[k] \in HoldRows
  BY LapsedRows, ElementOfSeq DEF LapseKeepsRows, TypeOK
<1>3. holds[h].state = "held" /\ ~Due(h) /\ (FlowState => flows[h].patron = p)
  BY <1>1, <1>2 DEF ConfirmHold, ConfirmAdmitted
<1>4. /\ DOMAIN holds' = DOMAIN holds
      /\ \A k \in DOMAIN holds :
            holds'[k] = IF k = h THEN [Lapsed[h] EXCEPT !.state = "confirmed"] ELSE Lapsed[k]
  BY <1>1, HoldsAfterConfirmRows, LenProperties DEF ConfirmHold, TypeOK
<1>5. \A k \in DOMAIN holds :
            /\ holds'[k].seat = holds[k].seat
            /\ holds'[k].patron = holds[k].patron
            /\ holds'[k].expires = holds[k].expires
            /\ holds'[k].state = IF k = h THEN "confirmed" ELSE Lapsed[k].state
  BY <1>2, <1>4 DEF HoldRows
<1>6. /\ DOMAIN flows' = DOMAIN flows
      /\ \A k \in DOMAIN flows :
            /\ flows'[k] = IF k = h THEN [flows[h] EXCEPT !.step = "confirmed"] ELSE flows[k]
            /\ flows[k] \in FlowRows
  BY <1>1, FlowsAfterConfirmRows, LenProperties, ElementOfSeq DEF ConfirmHold, TypeOK
<1>7. \A k \in DOMAIN holds :
            /\ flows'[k].patron = flows[k].patron
            /\ flows'[k].step = IF k = h THEN "confirmed" ELSE flows[k].step
  BY <1>1, <1>6 DEF FlowRows
<1>8. [hold |-> h, seat |-> holds[h].seat, patron |-> p] \in TicketRows
  <2>1. holds[h].seat \in Seats
    BY <1>1, <1>2 DEF HoldRows
  <2>2. QED
    BY <1>1, <2>1 DEF TypeOK, TicketRows
<1>9. /\ Len(tickets) \in Nat /\ DOMAIN tickets = 1..Len(tickets)
      /\ DOMAIN tickets' = 1..(Len(tickets) + 1)
      /\ \A t \in DOMAIN tickets : tickets'[t] = tickets[t]
      /\ tickets'[Len(tickets) + 1]
           = [hold |-> h, seat |-> holds[h].seat, patron |-> p]
  <2>1. tickets' = Append(tickets, [hold |-> h, seat |-> holds[h].seat, patron |-> p])
    BY DEF ConfirmHold
  <2>2. tickets' \in Seq(TicketRows) /\ Len(tickets') = Len(tickets) + 1
    BY <1>8, <2>1, AppendProperties DEF TypeOK
  <2>3. DOMAIN tickets = 1..Len(tickets) /\ Len(tickets) \in Nat
        /\ DOMAIN tickets' = 1..Len(tickets')
    BY <2>2, LenProperties DEF TypeOK
  <2>4. QED
    BY <1>8, <2>1, <2>2, <2>3, AppendProperties DEF TypeOK
<1>10. QED
  BY <1>1, <1>3, <1>4, <1>5, <1>6, <1>7, <1>9 DEF ConfirmedRows

-----------------------------------------------------------------------------
(* Seats. *)

LEMMA InitSeats == Init => SeatExclusive
  BY DEF Init, SeatExclusive

\* Lapsing holds only takes claims away.
LEMMA LapseSeats ==
    ASSUME TypeOK, SeatExclusive, holds' = Lapsed, UNCHANGED tickets
    PROVE  SeatExclusive'
<1>1. LapseKeepsRows
  BY LapsedRows DEF TypeOK
<1>2. /\ DOMAIN holds' = DOMAIN holds /\ tickets' = tickets
      /\ \A h \in DOMAIN holds :
            holds'[h].state = "held" =>
                holds[h].state = "held" /\ holds'[h].seat = holds[h].seat
  BY <1>1 DEF LapseKeepsRows
<1>3. QED
  BY <1>2 DEF SeatExclusive

LEMMA PlaceHoldSeats ==
    ASSUME TypeOK, SeatExclusive, NEW p \in patrons, NEW show, PlaceHold(p, show)
    PROVE  SeatExclusive'
<1> DEFINE n == Len(holds)
<1>1. PlacedRows(p) /\ LapseKeepsRows /\ tickets' = tickets
  BY PlaceHoldRows, LapsedRows DEF TypeOK, PlaceHold
<1>2. \A h \in DOMAIN holds' : h = n + 1 \/ (h \in DOMAIN holds /\ holds'[h] = Lapsed[h])
  BY <1>1 DEF PlacedRows
<1>3. \A h \in DOMAIN holds : Lapsed[h].state = "held" =>
          holds[h].state = "held" /\ Lapsed[h].seat = holds[h].seat
  BY <1>1 DEF LapseKeepsRows
<1>4. /\ \A h \in DOMAIN holds : Lapsed[h].state = "held" =>
               Lapsed[h].seat # holds'[n + 1].seat
      /\ \A t \in DOMAIN tickets : tickets[t].seat # holds'[n + 1].seat
  BY <1>1 DEF PlacedRows, LapseKeepsRows, FreeSeats, HoldsOn, TicketsOn
<1>5. ASSUME NEW h \in DOMAIN holds', NEW k \in DOMAIN holds',
             holds'[h].state = "held", holds'[k].state = "held",
             holds'[h].seat = holds'[k].seat
      PROVE  h = k
  BY <1>2, <1>3, <1>4, <1>5 DEF SeatExclusive
<1>6. ASSUME NEW h \in DOMAIN holds', NEW t \in DOMAIN tickets, holds'[h].state = "held"
      PROVE  holds'[h].seat # tickets[t].seat
  BY <1>2, <1>3, <1>4, <1>6 DEF SeatExclusive
<1>7. QED
  BY <1>1, <1>5, <1>6 DEF SeatExclusive

LEMMA ConfirmHoldSeats ==
    ASSUME TypeOK, SeatExclusive, NEW p \in patrons, NEW h, ConfirmHold(p, h)
    PROVE  SeatExclusive'
<1> DEFINE m == Len(tickets) + 1
<1>1. ConfirmedRows(p, h) /\ LapseKeepsRows
  BY ConfirmHoldRows, LapsedRows DEF TypeOK
<1>2. \A k \in DOMAIN holds' : holds'[k].state = "held" =>
            /\ k \in DOMAIN holds /\ k # h
            /\ holds[k].state = "held" /\ holds'[k].seat = holds[k].seat
  BY <1>1 DEF ConfirmedRows, LapseKeepsRows
<1>3. \A t \in DOMAIN tickets' :
            \/ t \in DOMAIN tickets /\ tickets'[t].seat = tickets[t].seat
            \/ t = m /\ tickets'[t].seat = holds[h].seat
  BY <1>1 DEF ConfirmedRows
<1>4. h \in DOMAIN holds /\ holds[h].state = "held"
  BY <1>1 DEF ConfirmedRows
<1>5. QED
  BY <1>2, <1>3, <1>4 DEF SeatExclusive

LEMMA SeatStep == TypeOK /\ SeatExclusive /\ [Next]_vars => SeatExclusive'
<1> SUFFICES ASSUME TypeOK, SeatExclusive, [Next]_vars PROVE SeatExclusive'
  OBVIOUS
<1>1. ASSUME NEW p \in patrons, NEW show \in ShowIds, PlaceHold(p, show)
      PROVE  SeatExclusive'
  BY <1>1, PlaceHoldSeats
<1>2. ASSUME NEW p \in patrons, NEW h \in 1..(Len(holds) + 1), ConfirmHold(p, h)
      PROVE  SeatExclusive'
  BY <1>2, ConfirmHoldSeats
<1>3. ASSUME NEW show \in ShowIds, ReadShow(show)
      PROVE  SeatExclusive'
  BY <1>3, LapseSeats DEF ReadShow
<1>4. ASSUME UNCHANGED <<holds, tickets>>
      PROVE  SeatExclusive'
  BY <1>4 DEF SeatExclusive
<1>5. QED
  BY <1>1, <1>2, <1>3, <1>4
     DEF Next, Request, RegisterPatron, RefuseRegistration, RefuseHold, RefuseConfirm,
         RefuseRead, Tick, ClockStepsBack, vars, db

\* A seat is never claimed twice, in any variant of the application, however
\* holds, lapses, confirmations and clock steps interleave (place_hold's NOT
\* EXISTS, flow.py, is what keeps it: no constraint of the schema does).
THEOREM SeatsAreExclusive == Spec => []SeatExclusive
  BY InitSeats, SeatStep, TypeCorrect, PTL DEF Spec

-----------------------------------------------------------------------------
(* Holds, flows and tickets. *)

LEMMA PlaceHoldFlows ==
    ASSUME TypeOK, FlowConsistent, NEW p \in patrons, NEW show, PlaceHold(p, show)
    PROVE  FlowConsistent'
<1> DEFINE n == Len(holds)
<1>1. PlacedRows(p) /\ LapseKeepsRows /\ tickets' = tickets
  BY PlaceHoldRows, LapsedRows DEF TypeOK, PlaceHold
<1>2. \A h \in DOMAIN holds :
          /\ h \in DOMAIN holds' /\ flows'[h] = flows[h]
          /\ holds'[h].patron = holds[h].patron /\ holds'[h].seat = holds[h].seat
          /\ holds'[h].state = "confirmed" <=> holds[h].state = "confirmed"
  BY <1>1 DEF PlacedRows, LapseKeepsRows
<1>3. /\ \A h \in DOMAIN holds' : h \in DOMAIN holds \/ h = n + 1
      /\ n + 1 \notin DOMAIN holds
      /\ holds'[n + 1].patron = p /\ holds'[n + 1].state = "held"
      /\ flows'[n + 1].patron = p /\ flows'[n + 1].step = "held"
  BY <1>1 DEF PlacedRows, HoldRow
<1>4. ASSUME NEW h \in DOMAIN holds'
      PROVE  /\ flows'[h].patron = holds'[h].patron
             /\ holds'[h].state = "confirmed" <=> flows'[h].step = "confirmed"
             /\ holds'[h].state = "confirmed"
                  <=> \E t \in DOMAIN tickets' : tickets'[t].hold = h
  <2>1. CASE h \in DOMAIN holds
    BY <1>1, <1>2, <2>1 DEF FlowConsistent
  <2>2. CASE h = n + 1
    BY <1>1, <1>3, <2>2 DEF FlowConsistent
  <2>3. QED
    BY <1>3, <2>1, <2>2
<1>5. ASSUME NEW t \in DOMAIN tickets'
      PROVE  /\ tickets'[t].hold \in DOMAIN holds'
             /\ tickets'[t].seat = holds'[tickets'[t].hold].seat
             /\ FlowState => tickets'[t].patron = holds'[tickets'[t].hold].patron
  BY <1>1, <1>2 DEF FlowConsistent
<1>6. FlowState' <=> FlowState
  BY DEF PlaceHold, FlowState
<1>7. QED
  BY <1>1, <1>4, <1>5, <1>6 DEF FlowConsistent

LEMMA ConfirmHoldFlows ==
    ASSUME TypeOK, FlowConsistent, NEW p \in patrons, NEW h, ConfirmHold(p, h)
    PROVE  FlowConsistent'
<1> DEFINE m == Len(tickets) + 1
<1>1. ConfirmedRows(p, h) /\ LapseKeepsRows
  BY ConfirmHoldRows, LapsedRows DEF TypeOK
<1>2. /\ DOMAIN holds' = DOMAIN holds /\ h \in DOMAIN holds /\ holds[h].state = "held"
      /\ \A k \in DOMAIN holds :
            /\ holds'[k].seat = holds[k].seat /\ holds'[k].patron = holds[k].patron
            /\ flows'[k].patron = flows[k].patron
            /\ k # h => /\ holds'[k].state = "confirmed" <=> holds[k].state = "confirmed"
                        /\ flows'[k].step = flows[k].step
      /\ holds'[h].state = "confirmed" /\ flows'[h].step = "confirmed"
  <2>1. /\ DOMAIN holds' = DOMAIN holds /\ h \in DOMAIN holds /\ holds[h].state = "held"
        /\ holds'[h].state = "confirmed" /\ flows'[h].step = "confirmed"
    BY <1>1 DEF ConfirmedRows
  <2>2. ASSUME NEW k \in DOMAIN holds
        PROVE  /\ holds'[k].seat = holds[k].seat /\ holds'[k].patron = holds[k].patron
               /\ flows'[k].patron = flows[k].patron
               /\ k # h => holds'[k].state = Lapsed[k].state /\ flows'[k].step = flows[k].step
    BY <1>1 DEF ConfirmedRows
  <2>3. \A k \in DOMAIN holds :
           Lapsed[k].state = "confirmed" <=> holds[k].state = "confirmed"
    BY <1>1 DEF LapseKeepsRows
  <2>4. QED
    BY <2>1, <2>2, <2>3
<1>3. /\ \A t \in DOMAIN tickets' :
            t = m \/ (t \in DOMAIN tickets /\ tickets'[t] = tickets[t])
      /\ \A t \in DOMAIN tickets : t \in DOMAIN tickets' /\ tickets'[t] = tickets[t]
      /\ m \in DOMAIN tickets' /\ tickets'[m].hold = h
      /\ tickets'[m].seat = holds[h].seat /\ tickets'[m].patron = p
  BY <1>1 DEF ConfirmedRows
<1>4. \A t \in DOMAIN tickets : tickets[t].hold # h /\ tickets[t].hold \in DOMAIN holds
  BY <1>2 DEF FlowConsistent
<1>5. FlowState => p = holds[h].patron
  BY <1>1, <1>2 DEF ConfirmedRows, FlowConsistent
<1>6. ASSUME NEW k \in DOMAIN holds'
      PROVE  /\ flows'[k].patron = holds'[k].patron
             /\ holds'[k].state = "confirmed" <=> flows'[k].step = "confirmed"
             /\ holds'[k].state = "confirmed"
                  <=> \E t \in DOMAIN tickets' : tickets'[t].hold = k
  <2>1. CASE k = h
    BY <1>2, <1>3, <2>1 DEF FlowConsistent
  <2>2. CASE k # h
    <3>1. (\E t \in DOMAIN tickets' : tickets'[t].hold = k)
            <=> \E t \in DOMAIN tickets : tickets[t].hold = k
      BY <1>3, <2>2
    <3>2. QED
      BY <1>2, <2>2, <3>1 DEF FlowConsistent
  <2>3. QED
    BY <2>1, <2>2
<1>7. ASSUME NEW t \in DOMAIN tickets'
      PROVE  /\ tickets'[t].hold \in DOMAIN holds'
             /\ tickets'[t].seat = holds'[tickets'[t].hold].seat
             /\ FlowState => tickets'[t].patron = holds'[tickets'[t].hold].patron
  BY <1>2, <1>3, <1>5 DEF FlowConsistent
<1>8. ASSUME NEW t \in DOMAIN tickets', NEW u \in DOMAIN tickets',
             tickets'[t].hold = tickets'[u].hold
      PROVE  t = u
  BY <1>3, <1>4, <1>8 DEF FlowConsistent
<1>9. FlowState' <=> FlowState
  BY DEF ConfirmHold, FlowState
<1>10. QED
  BY <1>6, <1>7, <1>8, <1>9 DEF FlowConsistent

LEMMA FlowStep == TypeOK /\ FlowConsistent /\ [Next]_vars => FlowConsistent'
<1> SUFFICES ASSUME TypeOK, FlowConsistent, [Next]_vars PROVE FlowConsistent'
  OBVIOUS
<1>1. ASSUME NEW p \in patrons, NEW show \in ShowIds, PlaceHold(p, show)
      PROVE  FlowConsistent'
  BY <1>1, PlaceHoldFlows
<1>2. ASSUME NEW p \in patrons, NEW h \in 1..(Len(holds) + 1), ConfirmHold(p, h)
      PROVE  FlowConsistent'
  BY <1>2, ConfirmHoldFlows
<1>3. ASSUME NEW show \in ShowIds, ReadShow(show)
      PROVE  FlowConsistent'
  <2>1. LapseKeepsRows
    BY LapsedRows DEF TypeOK
  <2>2. /\ DOMAIN holds' = DOMAIN holds /\ flows' = flows /\ tickets' = tickets
        /\ \A h \in DOMAIN holds :
              /\ holds'[h].seat = holds[h].seat /\ holds'[h].patron = holds[h].patron
              /\ holds'[h].state = "confirmed" <=> holds[h].state = "confirmed"
    BY <1>3, <2>1 DEF ReadShow, LapseKeepsRows
  <2>3. QED
    BY <1>3, <2>2 DEF ReadShow, FlowConsistent, FlowState
<1>4. ASSUME UNCHANGED <<policy, holds, flows, tickets>>
      PROVE  FlowConsistent'
  BY <1>4 DEF FlowConsistent, FlowState
<1>5. QED
  BY <1>1, <1>2, <1>3, <1>4
     DEF Next, Request, RegisterPatron, RefuseRegistration, RefuseHold, RefuseConfirm,
         RefuseRead, Tick, ClockStepsBack, vars, db

\* The holds, flow_states and tickets tables never disagree, and under the flow
\* state a ticket belongs to the patron that placed the hold it was sold for.
THEOREM FlowsAreConsistent == Spec => []FlowConsistent
<1>1. Init => FlowConsistent
  BY DEF Init, FlowConsistent
<1>2. QED
  BY <1>1, FlowStep, TypeCorrect, PTL DEF Spec

-----------------------------------------------------------------------------
(* The quota.  WithinEntitlement is not inductive: a confirmation is granted *)
(* without a look at the quota, and is safe only because it trades a charged  *)
(* hold of the same patron for its ticket.  What every step keeps is that the *)
(* entitlement covers all that is charged, and that every hold a patron ever  *)
(* placed is held, ticketed or expired, and so charged or forgiven.           *)

Held(p) == Cardinality(HoldsOf(holds, p, "held"))
Ticketed(p) == Cardinality(TicketsOf(p))
Expired(p) == Cardinality(HoldsOf(holds, p, "expired"))
Placed(p) == Cardinality(HoldsEver(p))

ChargesKept ==
    SeatQuota /\ FlowState =>
        \A p \in PatronIds :
            /\ SeatsCharged(holds, p) <= SeatEntitlement(p)
            /\ Placed(p) = Held(p) + Ticketed(p) + Expired(p)

LEMMA RowSetsFinite ==
    ASSUME NEW n \in Nat, NEW S \in SUBSET (1..n)
    PROVE  IsFiniteSet(S) /\ Cardinality(S) \in Nat
<1>1. IsFiniteSet(1..n)
  BY FS_Interval
<1>2. IsFiniteSet(S)
  BY <1>1, FS_Subset
<1>3. QED
  BY <1>2, FS_CardinalityType

LEMMA CountTypes ==
    ASSUME TypeOK, NEW p
    PROVE  /\ Held(p) \in Nat /\ Ticketed(p) \in Nat /\ Expired(p) \in Nat
           /\ Placed(p) \in Nat
           /\ IsFiniteSet(HoldsOf(holds, p, "held")) /\ IsFiniteSet(TicketsOf(p))
           /\ IsFiniteSet(HoldsOf(holds, p, "expired")) /\ IsFiniteSet(HoldsEver(p))
<1>1. /\ Len(holds) \in Nat /\ DOMAIN holds = 1..Len(holds)
      /\ Len(tickets) \in Nat /\ DOMAIN tickets = 1..Len(tickets)
  BY LenProperties DEF TypeOK
<1>2. /\ HoldsOf(holds, p, "held") \in SUBSET (1..Len(holds))
      /\ HoldsOf(holds, p, "expired") \in SUBSET (1..Len(holds))
      /\ HoldsEver(p) \in SUBSET (1..Len(holds))
      /\ TicketsOf(p) \in SUBSET (1..Len(tickets))
  BY <1>1 DEF HoldsOf, HoldsEver, TicketsOf
<1>3. QED
  BY <1>1, <1>2, RowSetsFinite DEF Held, Ticketed, Expired, Placed

LEMMA EntitlementType == ASSUME NEW p PROVE SeatEntitlement(p) \in Nat
  BY SettingsAssumption DEF SeatEntitlement

\* A lapse moves the same number of holds from held to expired.
LEMMA LapseCounts ==
    ASSUME TypeOK, NEW p
    PROVE  \E d \in 0..Held(p) :
              /\ Cardinality(HoldsOf(Lapsed, p, "held")) = Held(p) - d
              /\ Cardinality(HoldsOf(Lapsed, p, "expired")) = Expired(p) + d
              /\ IsFiniteSet(HoldsOf(Lapsed, p, "held"))
<1> DEFINE D == {h \in DOMAIN holds : holds[h].patron = p /\ Due(h)}
           H == HoldsOf(holds, p, "held")
           E == HoldsOf(holds, p, "expired")
<1>1. LapseKeepsRows
  BY LapsedRows DEF TypeOK
<1>2. /\ HoldsOf(Lapsed, p, "held") = H \ D /\ D \subseteq H
      /\ HoldsOf(Lapsed, p, "expired") = E \cup D /\ E \cap D = {} /\ H \cap D = D
  BY <1>1 DEF LapseKeepsRows, HoldsOf, Due
<1>3. IsFiniteSet(H) /\ IsFiniteSet(E)
  BY CountTypes
<1> HIDE DEF D, H, E
<1>4. /\ IsFiniteSet(D) /\ Cardinality(D) \in Nat /\ Cardinality(D) <= Cardinality(H)
      /\ Cardinality(H) \in Nat /\ Cardinality(E) \in Nat
  BY <1>2, <1>3, FS_Subset, FS_CardinalityType
<1>5. Cardinality(H \ D) = Cardinality(H) - Cardinality(D) /\ IsFiniteSet(H \ D)
  BY <1>2, <1>3, FS_Difference
<1>6. Cardinality(E \cup D) = Cardinality(E) + Cardinality(D)
  <2>1. Cardinality(E \cup D) = Cardinality(E) + Cardinality(D) - Cardinality(E \cap D)
    BY <1>3, <1>4, FS_Union
  <2>2. Cardinality(E \cap D) = 0
    BY <1>2, FS_EmptySet
  <2>3. QED
    BY <1>4, <2>1, <2>2
<1>7. Cardinality(D) \in 0..Cardinality(H)
  BY <1>4
<1>8. QED
  BY <1>2, <1>5, <1>6, <1>7 DEF H, E, Held, Expired

\* So a lapse never charges a patron more than before.
LEMMA LapseCharges ==
    ASSUME TypeOK, NEW p
    PROVE  /\ SeatsCharged(Lapsed, p) <= SeatsCharged(holds, p)
           /\ SeatsCharged(Lapsed, p) \in Int /\ SeatsCharged(holds, p) \in Int
<1>1. PICK d \in 0..Held(p) :
         /\ Cardinality(HoldsOf(Lapsed, p, "held")) = Held(p) - d
         /\ Cardinality(HoldsOf(Lapsed, p, "expired")) = Expired(p) + d
  BY LapseCounts
<1>2. Held(p) \in Nat /\ Ticketed(p) \in Nat /\ Expired(p) \in Nat /\ ReholdAllowance \in Nat
  BY CountTypes, SettingsAssumption
<1>3. SeatsCharged(holds, p) =
         Held(p) + Ticketed(p)
            + (Expired(p) - IF Expired(p) <= ReholdAllowance THEN Expired(p) ELSE ReholdAllowance)
  BY DEF SeatsCharged, Held, Ticketed, Expired
<1>4. SeatsCharged(Lapsed, p) =
         (Held(p) - d) + Ticketed(p)
            + ((Expired(p) + d)
                 - IF Expired(p) + d <= ReholdAllowance THEN Expired(p) + d ELSE ReholdAllowance)
  BY <1>1 DEF SeatsCharged, Ticketed
<1>5. QED
  BY <1>1, <1>2, <1>3, <1>4

(* The two conjuncts of ChargesKept, from the counts of one patron. *)
KeptFor(held, ticketed, expired, placed, entitlement) ==
    /\ held + ticketed
         + (expired - IF expired <= ReholdAllowance THEN expired ELSE ReholdAllowance)
         <= entitlement
    /\ placed = held + ticketed + expired

LEMMA ChargesKeptFor ==
    ChargesKept <=> (SeatQuota /\ FlowState =>
        \A p \in PatronIds :
            KeptFor(Held(p), Ticketed(p), Expired(p), Placed(p), SeatEntitlement(p)))
  BY DEF ChargesKept, KeptFor, SeatsCharged, Held, Ticketed, Expired

LEMMA KeptClaims ==
    ASSUME TypeOK, NEW p,
           KeptFor(Held(p), Ticketed(p), Expired(p), Placed(p), SeatEntitlement(p))
    PROVE  Held(p) + Ticketed(p) <= SeatEntitlement(p)
<1>1. /\ Held(p) \in Nat /\ Ticketed(p) \in Nat /\ Expired(p) \in Nat
      /\ ReholdAllowance \in Nat /\ SeatEntitlement(p) \in Nat
  BY CountTypes, SettingsAssumption, EntitlementType
<1>2. QED
  BY <1>1 DEF KeptFor

\* The counts of a patron after a lapse still keep the quota.
LEMMA LapseKeeps ==
    ASSUME TypeOK, NEW p,
           KeptFor(Held(p), Ticketed(p), Expired(p), Placed(p), SeatEntitlement(p))
    PROVE  KeptFor(Cardinality(HoldsOf(Lapsed, p, "held")), Ticketed(p),
                   Cardinality(HoldsOf(Lapsed, p, "expired")), Placed(p), SeatEntitlement(p))
<1>1. PICK d \in 0..Held(p) :
         /\ Cardinality(HoldsOf(Lapsed, p, "held")) = Held(p) - d
         /\ Cardinality(HoldsOf(Lapsed, p, "expired")) = Expired(p) + d
  BY LapseCounts
<1>2. /\ Held(p) \in Nat /\ Ticketed(p) \in Nat /\ Expired(p) \in Nat /\ Placed(p) \in Nat
      /\ ReholdAllowance \in Nat /\ SeatEntitlement(p) \in Nat
  BY CountTypes, SettingsAssumption, EntitlementType
<1>3. QED
  BY <1>1, <1>2 DEF KeptFor

LEMMA PlaceHoldQuota ==
    ASSUME TypeOK, SeatQuota, NEW p \in patrons, NEW show, PlaceHold(p, show), NEW q,
           KeptFor(Held(q), Ticketed(q), Expired(q), Placed(q), SeatEntitlement(q))
    PROVE  KeptFor(Held(q), Ticketed(q), Expired(q), Placed(q), SeatEntitlement(q))'
<1> DEFINE n == Len(holds) + 1
           lapsedHeld == Cardinality(HoldsOf(Lapsed, q, "held"))
           lapsedExpired == Cardinality(HoldsOf(Lapsed, q, "expired"))
<1>1. PlacedRows(p) /\ LapseKeepsRows /\ tickets' = tickets
  BY PlaceHoldRows, LapsedRows DEF TypeOK, PlaceHold
<1>2. KeptFor(lapsedHeld, Ticketed(q), lapsedExpired, Placed(q), SeatEntitlement(q))
  BY LapseKeeps
<1>3. /\ DOMAIN holds' = DOMAIN holds \cup {n} /\ n \notin DOMAIN holds
      /\ DOMAIN Lapsed = DOMAIN holds
      /\ \A h \in DOMAIN holds : holds'[h] = Lapsed[h] /\ Lapsed[h].patron = holds[h].patron
      /\ holds'[n].patron = p /\ holds'[n].state = "held"
  BY <1>1 DEF PlacedRows, LapseKeepsRows, HoldRow
<1> HIDE DEF n
<1>4. HoldsOf(holds, q, "expired")' = HoldsOf(Lapsed, q, "expired") /\ TicketsOf(q)' = TicketsOf(q)
  BY <1>1, <1>3 DEF HoldsOf, TicketsOf
<1>5. Expired(q)' = lapsedExpired /\ Ticketed(q)' = Ticketed(q)
  BY <1>4 DEF Expired, Ticketed
<1>6. SeatEntitlement(q)' = SeatEntitlement(q)
  BY DEF SeatEntitlement
<1>7. CASE q # p
  <2>1. HoldsOf(holds, q, "held")' = HoldsOf(Lapsed, q, "held") /\ HoldsEver(q)' = HoldsEver(q)
    BY <1>3, <1>7 DEF HoldsOf, HoldsEver
  <2>2. Held(q)' = lapsedHeld /\ Placed(q)' = Placed(q)
    BY <2>1 DEF Held, Placed
  <2>3. QED
    BY <1>2, <1>5, <1>6, <2>2 DEF KeptFor
<1>8. CASE q = p
  <2>1. /\ HoldsOf(holds, q, "held")' = HoldsOf(Lapsed, q, "held") \cup {n}
        /\ n \notin HoldsOf(Lapsed, q, "held")
        /\ HoldsEver(q)' = HoldsEver(q) \cup {n} /\ n \notin HoldsEver(q)
    BY <1>3, <1>8 DEF HoldsOf, HoldsEver
  <2>2. IsFiniteSet(HoldsOf(Lapsed, q, "held")) /\ IsFiniteSet(HoldsEver(q))
    BY LapseCounts, CountTypes
  <2>3. Held(q)' = lapsedHeld + 1 /\ Placed(q)' = Placed(q) + 1
    BY <2>1, <2>2, FS_AddElement DEF Held, Placed
  <2>4. SeatsCharged(Lapsed, q) < SeatEntitlement(q)
    BY <1>8 DEF PlaceHold, HoldAdmitted, WithinSeatEntitlement
  <2>5. lapsedHeld + Ticketed(q)
          + (lapsedExpired - IF lapsedExpired <= ReholdAllowance
                             THEN lapsedExpired ELSE ReholdAllowance) < SeatEntitlement(q)
    BY <2>4 DEF SeatsCharged, Ticketed
  <2>6. /\ lapsedHeld \in Nat /\ lapsedExpired \in Nat /\ Ticketed(q) \in Nat
        /\ Placed(q) \in Nat /\ ReholdAllowance \in Nat /\ SeatEntitlement(q) \in Nat
    <3>1. PICK d \in 0..Held(q) : lapsedHeld = Held(q) - d /\ lapsedExpired = Expired(q) + d
      BY LapseCounts
    <3>2. QED
      BY <3>1, CountTypes, SettingsAssumption, EntitlementType
  <2>7. QED
    <3> HIDE DEF lapsedHeld, lapsedExpired
    <3> QED
      BY <1>2, <1>5, <1>6, <2>3, <2>5, <2>6 DEF KeptFor
<1>9. QED
  BY <1>7, <1>8

LEMMA ConfirmHoldQuota ==
    ASSUME TypeOK, NEW p \in patrons, NEW h, ConfirmHold(p, h), holds[h].patron = p, NEW q,
           KeptFor(Held(q), Ticketed(q), Expired(q), Placed(q), SeatEntitlement(q))
    PROVE  KeptFor(Held(q), Ticketed(q), Expired(q), Placed(q), SeatEntitlement(q))'
<1> DEFINE m == Len(tickets) + 1
           lapsedHeld == Cardinality(HoldsOf(Lapsed, q, "held"))
           lapsedExpired == Cardinality(HoldsOf(Lapsed, q, "expired"))
<1>1. ConfirmedRows(p, h) /\ LapseKeepsRows
  BY ConfirmHoldRows, LapsedRows DEF TypeOK
<1>2. KeptFor(lapsedHeld, Ticketed(q), lapsedExpired, Placed(q), SeatEntitlement(q))
  BY LapseKeeps
<1>3. h \in DOMAIN holds /\ holds[h].patron = p /\ holds[h].state = "held" /\ ~Due(h)
  BY <1>1 DEF ConfirmedRows
<1>4. /\ DOMAIN holds' = DOMAIN holds /\ DOMAIN Lapsed = DOMAIN holds
      /\ \A k \in DOMAIN holds :
            /\ holds'[k].patron = holds[k].patron /\ Lapsed[k].patron = holds[k].patron
            /\ holds'[k].state = IF k = h THEN "confirmed" ELSE Lapsed[k].state
      /\ Lapsed[h].state = "held"
  BY <1>1, <1>3 DEF ConfirmedRows, LapseKeepsRows
<1>5. /\ DOMAIN tickets' = DOMAIN tickets \cup {m} /\ m \notin DOMAIN tickets
      /\ \A t \in DOMAIN tickets : tickets'[t] = tickets[t]
      /\ tickets'[m].patron = p
  BY <1>1 DEF ConfirmedRows
<1> HIDE DEF m
<1>6. HoldsOf(holds, q, "expired")' = HoldsOf(Lapsed, q, "expired") /\ HoldsEver(q)' = HoldsEver(q)
  BY <1>3, <1>4 DEF HoldsOf, HoldsEver
<1>7. Expired(q)' = lapsedExpired /\ Placed(q)' = Placed(q)
  BY <1>6 DEF Expired, Placed
<1>8. SeatEntitlement(q)' = SeatEntitlement(q)
  BY DEF SeatEntitlement
<1>9. CASE q # p
  <2>1. HoldsOf(holds, q, "held")' = HoldsOf(Lapsed, q, "held") /\ TicketsOf(q)' = TicketsOf(q)
    BY <1>3, <1>4, <1>5, <1>9 DEF HoldsOf, TicketsOf
  <2>2. Held(q)' = lapsedHeld /\ Ticketed(q)' = Ticketed(q)
    BY <2>1 DEF Held, Ticketed
  <2>3. QED
    BY <1>2, <1>7, <1>8, <2>2 DEF KeptFor
<1>10. CASE q = p
  <2>1. /\ HoldsOf(holds, q, "held")' = HoldsOf(Lapsed, q, "held") \ {h}
        /\ h \in HoldsOf(Lapsed, q, "held")
        /\ TicketsOf(q)' = TicketsOf(q) \cup {m} /\ m \notin TicketsOf(q)
    BY <1>3, <1>4, <1>5, <1>10 DEF HoldsOf, TicketsOf
  <2>2. IsFiniteSet(HoldsOf(Lapsed, q, "held")) /\ IsFiniteSet(TicketsOf(q))
    BY LapseCounts, CountTypes
  <2>3. Held(q)' = lapsedHeld - 1 /\ Ticketed(q)' = Ticketed(q) + 1
    <3>1. Cardinality(HoldsOf(Lapsed, q, "held") \ {h}) = lapsedHeld - 1
      BY <2>1, <2>2, FS_RemoveElement
    <3>2. Cardinality(TicketsOf(q) \cup {m}) = Cardinality(TicketsOf(q)) + 1
      BY <2>1, <2>2, FS_AddElement
    <3>3. QED
      BY <2>1, <3>1, <3>2 DEF Held, Ticketed
  <2>4. /\ lapsedHeld \in Nat /\ lapsedExpired \in Nat /\ Ticketed(q) \in Nat
        /\ Placed(q) \in Nat /\ ReholdAllowance \in Nat /\ SeatEntitlement(q) \in Nat
    <3>1. PICK d \in 0..Held(q) : lapsedHeld = Held(q) - d /\ lapsedExpired = Expired(q) + d
      BY LapseCounts
    <3>2. QED
      BY <3>1, CountTypes, SettingsAssumption, EntitlementType
  <2>5. QED
    <3> HIDE DEF lapsedHeld, lapsedExpired
    <3> QED
      BY <1>2, <1>7, <1>8, <2>3, <2>4 DEF KeptFor
<1>11. QED
  BY <1>9, <1>10

LEMMA InitCharges ==
    ASSUME Init, NEW p
    PROVE  KeptFor(Held(p), Ticketed(p), Expired(p), Placed(p), SeatEntitlement(p))
<1>1. /\ HoldsOf(holds, p, "held") = {} /\ HoldsOf(holds, p, "expired") = {}
      /\ HoldsEver(p) = {} /\ TicketsOf(p) = {}
  BY DEF Init, HoldsOf, HoldsEver, TicketsOf
<1>2. Held(p) = 0 /\ Ticketed(p) = 0 /\ Expired(p) = 0 /\ Placed(p) = 0
  BY <1>1, FS_EmptySet DEF Held, Ticketed, Expired, Placed
<1>3. QED
  BY <1>2, EntitlementType, SettingsAssumption DEF KeptFor

LEMMA InitQuota == Init => ChargesKept
  BY InitCharges, ChargesKeptFor

LEMMA ReadShowQuota ==
    ASSUME TypeOK, NEW show, ReadShow(show), NEW q,
           KeptFor(Held(q), Ticketed(q), Expired(q), Placed(q), SeatEntitlement(q))
    PROVE  KeptFor(Held(q), Ticketed(q), Expired(q), Placed(q), SeatEntitlement(q))'
<1>1. LapseKeepsRows /\ holds' = Lapsed /\ tickets' = tickets
  BY LapsedRows DEF ReadShow, TypeOK
<1>2. HoldsEver(q)' = HoldsEver(q) /\ TicketsOf(q)' = TicketsOf(q)
  BY <1>1 DEF LapseKeepsRows, HoldsEver, TicketsOf
<1>3. /\ HoldsOf(holds, q, "held")' = HoldsOf(Lapsed, q, "held")
      /\ HoldsOf(holds, q, "expired")' = HoldsOf(Lapsed, q, "expired")
  BY <1>1 DEF HoldsOf
<1>4. KeptFor(Cardinality(HoldsOf(Lapsed, q, "held")), Ticketed(q),
              Cardinality(HoldsOf(Lapsed, q, "expired")), Placed(q), SeatEntitlement(q))
  BY LapseKeeps
<1>5. QED
  BY <1>2, <1>3, <1>4 DEF KeptFor, Held, Ticketed, Expired, Placed, SeatEntitlement

LEMMA OtherQuota ==
    ASSUME UNCHANGED <<holds, tickets>>, NEW q,
           KeptFor(Held(q), Ticketed(q), Expired(q), Placed(q), SeatEntitlement(q))
    PROVE  KeptFor(Held(q), Ticketed(q), Expired(q), Placed(q), SeatEntitlement(q))'
BY DEF KeptFor, Held, Ticketed, Expired, Placed, SeatEntitlement, HoldsOf, HoldsEver, TicketsOf

LEMMA QuotaStepFor ==
    ASSUME TypeOK, FlowConsistent, ChargesKept, [Next]_vars, SeatQuota, FlowState,
           NEW q \in PatronIds
    PROVE  KeptFor(Held(q), Ticketed(q), Expired(q), Placed(q), SeatEntitlement(q))'
<1>1. KeptFor(Held(q), Ticketed(q), Expired(q), Placed(q), SeatEntitlement(q))
  BY ChargesKeptFor
<1>2. ASSUME NEW p \in patrons, NEW show \in ShowIds, PlaceHold(p, show)
      PROVE  KeptFor(Held(q), Ticketed(q), Expired(q), Placed(q), SeatEntitlement(q))'
  BY <1>1, <1>2, PlaceHoldQuota
<1>3. ASSUME NEW p \in patrons, NEW h \in 1..(Len(holds) + 1), ConfirmHold(p, h)
      PROVE  KeptFor(Held(q), Ticketed(q), Expired(q), Placed(q), SeatEntitlement(q))'
  <2>1. ConfirmedRows(p, h)
    BY <1>3, ConfirmHoldRows
  <2>2. holds[h].patron = p
    BY <2>1 DEF ConfirmedRows, FlowConsistent
  <2>3. QED
    BY <1>1, <1>3, <2>2, ConfirmHoldQuota
<1>4. ASSUME NEW show \in ShowIds, ReadShow(show)
      PROVE  KeptFor(Held(q), Ticketed(q), Expired(q), Placed(q), SeatEntitlement(q))'
  BY <1>1, <1>4, ReadShowQuota
<1>5. ASSUME UNCHANGED <<holds, tickets>>
      PROVE  KeptFor(Held(q), Ticketed(q), Expired(q), Placed(q), SeatEntitlement(q))'
  BY <1>1, <1>5, OtherQuota
<1>6. QED
  BY <1>2, <1>3, <1>4, <1>5
     DEF Next, Request, RegisterPatron, RefuseRegistration, RefuseHold, RefuseConfirm,
         RefuseRead, Tick, ClockStepsBack, vars, db

LEMMA QuotaStep == TypeOK /\ FlowConsistent /\ ChargesKept /\ [Next]_vars => ChargesKept'
<1> SUFFICES ASSUME TypeOK, FlowConsistent, ChargesKept, [Next]_vars
             PROVE  ChargesKept'
  OBVIOUS
<1>1. SeatQuota /\ FlowState =>
         \A q \in PatronIds :
            KeptFor(Held(q), Ticketed(q), Expired(q), Placed(q), SeatEntitlement(q))'
  BY QuotaStepFor
<1>2. QED
  BY <1>1, PolicyKept DEF ChargesKept, KeptFor, SeatsCharged, Held, Ticketed, Expired, SeatEntitlement,
              HoldsOf, TicketsOf, PatronIds

LEMMA QuotaAlwaysKept == Spec => []ChargesKept
  BY InitQuota, QuotaStep, TypeCorrect, FlowsAreConsistent, PTL DEF Spec

\* Strategy A with strategy C: nobody ever holds and owns more seats than its
\* entitlement, whoever confirms what and whatever lapses when (place_hold is
\* the only step that looks).  Without the flow state it is false.
THEOREM EntitlementIsKept == Spec => [](FlowState => WithinEntitlement)
<1>1. TypeOK /\ ChargesKept => (FlowState => WithinEntitlement)
  <2> SUFFICES ASSUME TypeOK, ChargesKept, SeatQuota, FlowState, NEW p \in patrons
               PROVE  SeatsClaimed(p) <= SeatEntitlement(p)
    BY DEF WithinEntitlement
  <2>1. KeptFor(Held(p), Ticketed(p), Expired(p), Placed(p), SeatEntitlement(p))
    BY ChargesKeptFor DEF TypeOK
  <2>2. Held(p) + Ticketed(p) <= SeatEntitlement(p)
    BY <2>1, KeptClaims
  <2>3. QED
    BY <2>2 DEF SeatsClaimed, Held, Ticketed
<1>2. QED
  BY <1>1, TypeCorrect, QuotaAlwaysKept, PTL

\* Hold-and-abandon is bounded: over a whole run a patron places no more than
\* ReholdAllowance holds beyond its entitlement (seats_charged of limits.py).
THEOREM ReholdsAreBounded == Spec => []ReholdBounded
<1>1. TypeOK /\ ChargesKept => ReholdBounded
  <2> SUFFICES ASSUME TypeOK, ChargesKept, SeatQuota, FlowState, NEW p \in patrons
               PROVE  Cardinality(HoldsEver(p)) <= SeatEntitlement(p) + ReholdAllowance
    BY DEF ReholdBounded
  <2>1. KeptFor(Held(p), Ticketed(p), Expired(p), Placed(p), SeatEntitlement(p))
    BY ChargesKeptFor DEF TypeOK
  <2>2. /\ Held(p) \in Nat /\ Ticketed(p) \in Nat /\ Expired(p) \in Nat
        /\ ReholdAllowance \in Nat /\ SeatEntitlement(p) \in Nat
    BY CountTypes, SettingsAssumption, EntitlementType
  <2>3. Placed(p) <= SeatEntitlement(p) + ReholdAllowance
    BY <2>1, <2>2 DEF KeptFor
  <2>4. QED
    BY <2>3 DEF Placed
<1>2. QED
  BY <1>1, TypeCorrect, QuotaAlwaysKept, PTL

-----------------------------------------------------------------------------
(* What a step may do to the rows that are there. *)

\* What the step of ResolvedIsFinal, and of SoldInTime, says.
Final ==
    /\ \A h \in DOMAIN holds :
          /\ h \in DOMAIN holds'
          /\ [holds[h] EXCEPT !.state = ""] = [holds'[h] EXCEPT !.state = ""]
          /\ holds[h].state # "held" => holds'[h].state = holds[h].state
    /\ \A t \in DOMAIN tickets : t \in DOMAIN tickets' /\ tickets'[t] = tickets[t]

LEMMA LapseFinal ==
    ASSUME TypeOK, NEW h \in DOMAIN holds
    PROVE  /\ [holds[h] EXCEPT !.state = ""] = [Lapsed[h] EXCEPT !.state = ""]
           /\ holds[h].state # "held" => Lapsed[h].state = holds[h].state
<1>1. holds[h] \in HoldRows
  BY LenProperties DEF TypeOK
<1>2. Lapsed[h] = IF Due(h) THEN [holds[h] EXCEPT !.state = "expired"] ELSE holds[h]
  BY DEF Lapsed
<1>3. CASE Due(h)
  BY <1>1, <1>2, <1>3 DEF Due, HoldRows
<1>4. CASE ~Due(h)
  BY <1>2, <1>4
<1>5. QED
  BY <1>3, <1>4

LEMMA PlaceHoldFinal ==
    ASSUME TypeOK, NEW p \in patrons, NEW show, PlaceHold(p, show)
    PROVE  Final
<1>1. PlacedRows(p) /\ tickets' = tickets
  BY PlaceHoldRows DEF PlaceHold
<1>2. \A h \in DOMAIN holds : h \in DOMAIN holds' /\ holds'[h] = Lapsed[h]
  BY <1>1 DEF PlacedRows
<1>3. QED
  BY <1>1, <1>2, LapseFinal DEF Final

LEMMA ConfirmHoldFinal ==
    ASSUME TypeOK, NEW p \in patrons, NEW h, ConfirmHold(p, h)
    PROVE  Final
<1>1. ConfirmedRows(p, h)
  BY ConfirmHoldRows
<1>2. ASSUME NEW k \in DOMAIN holds
      PROVE  /\ [holds[k] EXCEPT !.state = ""] = [holds'[k] EXCEPT !.state = ""]
             /\ holds[k].state # "held" => holds'[k].state = holds[k].state
  <2>1. /\ holds[k] \in HoldRows /\ holds'[k] \in HoldRows
        /\ holds'[k].seat = holds[k].seat /\ holds'[k].patron = holds[k].patron
        /\ holds'[k].expires = holds[k].expires
    <3>1. TypeOK'
      BY ConfirmHoldType
    <3>2. QED
      BY <1>1, <3>1, LenProperties DEF ConfirmedRows, TypeOK
  <2>2. [holds[k] EXCEPT !.state = ""] = [holds'[k] EXCEPT !.state = ""]
    BY <2>1 DEF HoldRows
  <2>3. holds[k].state # "held" => k # h /\ Lapsed[k].state = holds[k].state
    BY <1>1, LapseFinal DEF ConfirmedRows
  <2>4. QED
    BY <1>1, <2>2, <2>3 DEF ConfirmedRows
<1>3. DOMAIN holds' = DOMAIN holds
  BY <1>1 DEF ConfirmedRows
<1>4. \A t \in DOMAIN tickets : t \in DOMAIN tickets' /\ tickets'[t] = tickets[t]
  BY <1>1 DEF ConfirmedRows
<1>5. QED
  BY <1>2, <1>3, <1>4 DEF Final

LEMMA ReadShowFinal ==
    ASSUME TypeOK, NEW show, ReadShow(show)
    PROVE  Final
<1>1. DOMAIN Lapsed = DOMAIN holds
  BY DEF Lapsed
<1>2. QED
  BY <1>1, LapseFinal DEF ReadShow, Final

LEMMA FinalStep == TypeOK /\ [Next]_vars => Final \/ UNCHANGED <<holds, tickets>>
<1> SUFFICES ASSUME TypeOK, [Next]_vars PROVE Final \/ UNCHANGED <<holds, tickets>>
  OBVIOUS
<1>1. ASSUME NEW ref \in EligibilityRefs \cup {Null}, RegisterPatron(ref)
      PROVE  UNCHANGED <<holds, tickets>>
  BY <1>1 DEF RegisterPatron
<1>2. ASSUME NEW p \in patrons, NEW show \in ShowIds, PlaceHold(p, show)
      PROVE  Final
  BY <1>2, PlaceHoldFinal
<1>3. ASSUME NEW p \in patrons, NEW h \in 1..(Len(holds) + 1), ConfirmHold(p, h)
      PROVE  Final
  BY <1>3, ConfirmHoldFinal
<1>4. ASSUME NEW show \in ShowIds, ReadShow(show)
      PROVE  Final
  BY <1>4, ReadShowFinal
<1>5. CASE Tick \/ ClockStepsBack \/ UNCHANGED vars
  BY <1>5 DEF Tick, ClockStepsBack, vars, db
<1>6. QED
  BY <1>1, <1>2, <1>3, <1>4, <1>5
     DEF Next, Request, RefuseRegistration, RefuseHold, RefuseConfirm, RefuseRead, vars, db

\* So a hold keeps its row, whatever is done to the venue.
LEMMA HoldsStay ==
    ASSUME TypeOK, [Next]_vars, NEW h \in DOMAIN holds
    PROVE  /\ h \in DOMAIN holds' /\ holds'[h].seat = holds[h].seat
           /\ holds'[h].patron = holds[h].patron /\ holds'[h].expires = holds[h].expires
           /\ holds[h].state # "held" => holds'[h].state = holds[h].state
<1>1. CASE UNCHANGED <<holds, tickets>>
  BY <1>1
<1>2. CASE Final
  <2>1. /\ h \in DOMAIN holds'
        /\ [holds[h] EXCEPT !.state = ""] = [holds'[h] EXCEPT !.state = ""]
        /\ holds[h].state # "held" => holds'[h].state = holds[h].state
    BY <1>2 DEF Final
  <2>2. holds[h] \in HoldRows /\ holds'[h] \in HoldRows
    <3>1. holds \in Seq(HoldRows) /\ holds' \in Seq(HoldRows)
      BY NextType DEF TypeOK
    <3>2. \A hs \in Seq(HoldRows) : \A k \in DOMAIN hs : hs[k] \in HoldRows
      BY LenProperties
    <3>3. QED
      BY <2>1, <3>1, <3>2
  <2>3. QED
    BY <2>1, <2>2 DEF HoldRows
<1>3. QED
  BY <1>1, <1>2, FinalStep

\* What was resolved stays resolved, for every policy and however the clock
\* jumps: expire_due_holds and the two UPDATEs of confirm_hold only ever touch
\* rows that are still 'held', and no ticket is rewritten.
THEOREM ResolutionIsFinal == Spec => ResolvedIsFinal
<1>1. TypeOK /\ [Next]_vars =>
        [ /\ \A h \in DOMAIN holds :
               /\ h \in DOMAIN holds'
               /\ [holds[h] EXCEPT !.state = ""] = [holds'[h] EXCEPT !.state = ""]
               /\ holds[h].state # "held" => holds'[h].state = holds[h].state
          /\ \A t \in DOMAIN tickets : t \in DOMAIN tickets' /\ tickets'[t] = tickets[t]
        ]_<<holds, tickets>>
  BY FinalStep DEF Final
<1>2. QED
  BY <1>1, TypeCorrect, PTL DEF Spec, ResolvedIsFinal

LEMMA TimesAreInts ==
    ASSUME TypeOK, NEW h \in DOMAIN holds
    PROVE  holds[h] \in HoldRows /\ holds[h].expires \in Int /\ now \in Int
<1>1. holds[h] \in HoldRows
  BY LenProperties DEF TypeOK
<1>2. holds[h].expires \in Int
  BY <1>1 DEF HoldRows
<1>3. now \in Int
  BY BoundsAssumption DEF TypeOK
<1>4. QED
  BY <1>1, <1>2, <1>3

\* What is left to lapse after a transaction that lapses first.
LEMMA LapsedInTime ==
    ASSUME TypeOK, NEW h \in DOMAIN holds, Lapsed[h].state = "held"
    PROVE  holds[h].state = "held" /\ now < holds[h].expires /\ Lapsed[h] = holds[h]
<1>1. holds[h] \in HoldRows /\ now \in Int /\ holds[h].expires \in Int
  BY TimesAreInts
<1>2. Lapsed[h] = IF Due(h) THEN [holds[h] EXCEPT !.state = "expired"] ELSE holds[h]
  BY DEF Lapsed
<1>3. ~Due(h)
  BY <1>1, <1>2 DEF HoldRows
<1>4. QED
  BY <1>1, <1>2, <1>3 DEF Due

\* A late confirmation never sells a seat: whatever happened to the hold or the
\* seat since it was placed, the ticket is sold against a hold that is live at
\* that moment, and that step leaves no overdue hold behind (confirm_hold).
THEOREM SalesAreInTime == Spec => SoldInTime
<1> DEFINE InTime ==
        \A t \in DOMAIN tickets' \ DOMAIN tickets :
            /\ holds[tickets'[t].hold].state = "held"
            /\ now < holds[tickets'[t].hold].expires
            /\ \A k \in DOMAIN holds' : holds'[k].state = "held" => now < holds'[k].expires
<1>1. ASSUME TypeOK, NEW p \in patrons, NEW h \in 1..(Len(holds) + 1), ConfirmHold(p, h)
      PROVE  InTime
  <2>1. ConfirmedRows(p, h)
    BY <1>1, ConfirmHoldRows
  <2>2. \A t \in DOMAIN tickets' \ DOMAIN tickets : tickets'[t].hold = h
    <3>1. tickets' = Append(tickets, [hold |-> h, seat |-> holds[h].seat, patron |-> p])
      BY <1>1 DEF ConfirmHold
    <3>2. \A t \in DOMAIN tickets' \ DOMAIN tickets : t = Len(tickets) + 1
      BY <2>1 DEF ConfirmedRows
    <3>3. tickets'[Len(tickets) + 1] = [hold |-> h, seat |-> holds[h].seat, patron |-> p]
      BY <3>1, <1>1, AppendProperties DEF TypeOK
    <3>4. QED
      BY <3>2, <3>3
  <2>3. holds[h].state = "held" /\ now < holds[h].expires
    <3>1. holds[h] \in HoldRows /\ now \in Int /\ holds[h].expires \in Int
      BY <1>1, <2>1, TimesAreInts DEF ConfirmedRows
    <3>2. QED
      BY <2>1, <3>1 DEF ConfirmedRows, Due
  <2>4. ASSUME NEW k \in DOMAIN holds', holds'[k].state = "held"
        PROVE  now < holds'[k].expires
    <3>1. k \in DOMAIN holds /\ Lapsed[k].state = "held"
      BY <2>1, <2>4 DEF ConfirmedRows
    <3>2. QED
      BY <1>1, <2>1, <3>1, LapsedInTime DEF ConfirmedRows
  <2>5. QED
    BY <2>2, <2>3, <2>4
<1>2. TypeOK /\ [Next]_vars => InTime \/ UNCHANGED <<holds, tickets>>
  <2> SUFFICES ASSUME TypeOK, [Next]_vars, ~UNCHANGED <<holds, tickets>> PROVE InTime
    OBVIOUS
  <2>1. CASE \E p \in patrons : \E h \in 1..(Len(holds) + 1) : ConfirmHold(p, h)
    BY <2>1, <1>1
  <2>2. CASE UNCHANGED tickets
    BY <2>2
  <2>3. QED
    BY <2>1, <2>2 DEF Next, Request, RefuseRegistration, RefuseHold, RefuseConfirm, RefuseRead,
       RegisterPatron, PlaceHold, ReadShow, Tick, ClockStepsBack, vars, db
<1>3. TypeOK /\ [Next]_vars =>
        [ \A t \in DOMAIN tickets' \ DOMAIN tickets :
            LET h == tickets'[t].hold IN
            /\ holds[h].state = "held" /\ now < holds[h].expires
            /\ \A k \in DOMAIN holds' : holds'[k].state = "held" => now < holds'[k].expires
        ]_<<holds, tickets>>
  BY <1>2
<1>4. QED
  BY <1>3, TypeCorrect, PTL DEF Spec, SoldInTime

-----------------------------------------------------------------------------
(* The identity supply.  IdentitySupply is not inductive: it does not say    *)
(* that the next id is new.  Registration i is of patron i, and the table    *)
(* and the consumed_by column name each other.                               *)

SupplyKept ==
    GovernedIdentitySupply =>
        /\ SelfService = 1..Len(registrations)
        /\ Len(registrations) <= RegistrationCap
        /\ \A i \in DOMAIN registrations :
              /\ registrations[i].patron = i
              /\ consumedBy[registrations[i].ref] = i
        /\ \A r \in EligibilityRefs :
              consumedBy[r] # Null =>
                 /\ consumedBy[r] \in DOMAIN registrations
                 /\ registrations[consumedBy[r]].ref = r

LEMMA CardinalityUpTo == \A n \in Nat : Cardinality(1..n) = n
<1> TAKE n \in Nat
<1>1. Cardinality(1..n) = IF 1 > n THEN 0 ELSE n - 1 + 1
  BY FS_Interval
<1>2. QED
  BY <1>1

LEMMA InitSupply == Init => SupplyKept
BY SettingsAssumption DEF Init, SupplyKept, SelfService

LEMMA RegisterSupply ==
    ASSUME TypeOK, SupplyKept, GovernedIdentitySupply,
           NEW ref \in EligibilityRefs \cup {Null}, RegisterPatron(ref)
    PROVE  SupplyKept'
<1> DEFINE k == Len(registrations)
           row == [patron |-> k + 1, ref |-> ref]
<1>1. k \in Nat /\ DOMAIN registrations = 1..k
  BY LenProperties DEF TypeOK
<1>2. Cardinality(SelfService) = k
  <2>1. SelfService = 1..k
    BY DEF SupplyKept
  <2>2. Cardinality(1..k) = k
    BY <1>1, CardinalityUpTo
  <2>3. QED
    BY <2>1, <2>2
<1>3. ref \in EligibilityRefs /\ consumedBy[ref] = Null /\ k < RegistrationCap
  BY DEF RegisterPatron, IdentityGranted
<1>4. /\ patrons' = patrons \cup {k + 1}
      /\ consumedBy' = [consumedBy EXCEPT ![ref] = k + 1]
      /\ registrations' = Append(registrations, row)
  BY <1>2 DEF RegisterPatron, ConsumedAfter
<1>5. row \in RegistrationRows
  BY <1>1, <1>3 DEF RegistrationRows, PatronIds
<1>6. /\ Len(registrations') = k + 1 /\ DOMAIN registrations' = 1..(k + 1)
      /\ registrations'[k + 1] = row
      /\ \A i \in 1..k : registrations'[i] = registrations[i]
  BY <1>1, <1>4, <1>5, AppendProperties DEF TypeOK
<1>7. SelfService' = 1..(k + 1)
  <2>1. k + 1 \notin FixturePatrons
    BY <1>1, PatronsAssumption
  <2>2. SelfService' = SelfService \cup {k + 1}
    BY <1>4, <2>1 DEF SelfService
  <2>3. QED
    BY <1>1, <2>2 DEF SupplyKept
<1>8. k + 1 <= RegistrationCap
  BY <1>1, <1>3, SettingsAssumption
<1>9. k + 1 # Null
  BY <1>1, PatronsAssumption
<1>10. ASSUME NEW i \in 1..(k + 1)
       PROVE  /\ registrations'[i].patron = i
              /\ consumedBy'[registrations'[i].ref] = i
  <2>1. CASE i = k + 1
    BY <1>3, <1>4, <1>6, <2>1 DEF TypeOK
  <2>2. CASE i \in 1..k
    <3>1. registrations'[i] = registrations[i] /\ registrations[i].patron = i
          /\ consumedBy[registrations[i].ref] = i
      BY <1>1, <1>6, <2>2 DEF SupplyKept
    <3>2. registrations[i].ref # ref
      BY <1>3, <2>2, <3>1, PatronsAssumption
    <3>3. registrations[i] \in RegistrationRows
      BY <1>1, <2>2 DEF TypeOK
    <3>4. registrations[i].ref \in EligibilityRefs
      BY <3>3 DEF RegistrationRows
    <3>5. QED
      BY <1>4, <3>1, <3>2, <3>4 DEF TypeOK
  <2>3. QED
    BY <1>1, <2>1, <2>2
<1>11. ASSUME NEW r \in EligibilityRefs, consumedBy'[r] # Null
       PROVE  /\ consumedBy'[r] \in 1..(k + 1)
              /\ registrations'[consumedBy'[r]].ref = r
  <2>1. CASE r = ref
    BY <1>1, <1>4, <1>6, <2>1 DEF TypeOK
  <2>2. CASE r # ref
    <3>1. consumedBy'[r] = consumedBy[r]
      BY <1>4, <2>2 DEF TypeOK
    <3>2. consumedBy[r] \in 1..k /\ registrations[consumedBy[r]].ref = r
      BY <1>1, <1>11, <3>1 DEF SupplyKept
    <3>3. QED
      BY <1>1, <1>6, <3>1, <3>2
  <2>3. QED
    BY <2>1, <2>2
<1>12. GovernedIdentitySupply' <=> GovernedIdentitySupply
  BY DEF RegisterPatron, GovernedIdentitySupply
<1>13. QED
  BY <1>6, <1>7, <1>8, <1>10, <1>11, <1>12 DEF SupplyKept

LEMMA SupplyStep == TypeOK /\ SupplyKept /\ [Next]_vars => SupplyKept'
<1> SUFFICES ASSUME TypeOK, SupplyKept, [Next]_vars, GovernedIdentitySupply
             PROVE  SupplyKept'
  BY PolicyKept DEF SupplyKept
<1>1. ASSUME NEW ref \in EligibilityRefs \cup {Null}, RegisterPatron(ref)
      PROVE  SupplyKept'
  BY <1>1, RegisterSupply
<1>2. CASE UNCHANGED <<policy, patrons, consumedBy, registrations>>
  BY <1>2 DEF SupplyKept, SelfService, GovernedIdentitySupply
<1>3. QED
  BY <1>1, <1>2
     DEF Next, Request, PlaceHold, ConfirmHold, ReadShow, RefuseRegistration, RefuseHold,
         RefuseConfirm, RefuseRead, Tick, ClockStepsBack, vars, db

LEMMA SupplyAlwaysKept == Spec => []SupplyKept
  BY InitSupply, SupplyStep, TypeCorrect, PTL DEF Spec

\* Governed or not, the self-service patrons are numbered as they come.
IdsNumbered == SelfService = 1..Cardinality(SelfService)

LEMMA RegisterNumbers ==
    ASSUME TypeOK, IdsNumbered, NEW ref, RegisterPatron(ref)
    PROVE  /\ IdsNumbered'
           /\ Cardinality(SelfService)' = Cardinality(SelfService) + 1
           /\ SelfService' = SelfService \cup {Cardinality(SelfService) + 1}
<1> DEFINE n == Cardinality(SelfService)
<1>1. n \in Nat /\ n + 1 \in Nat \ {0}
  <2>1. IsFiniteSet(SelfService)
    BY FS_Subset DEF SelfService, TypeOK
  <2>2. QED
    BY <2>1, FS_CardinalityType
<1>2. SelfService' = SelfService \cup {n + 1}
  BY <1>1, PatronsAssumption DEF RegisterPatron, SelfService
<1>3. SelfService = 1..n
  BY DEF IdsNumbered
<1> HIDE DEF n
<1>4. SelfService' = 1..(n + 1)
  BY <1>1, <1>2, <1>3
<1>5. Cardinality(SelfService)' = n + 1
  BY <1>1, <1>4, CardinalityUpTo
<1>6. QED
  BY <1>2, <1>4, <1>5 DEF IdsNumbered, n

LEMMA NumberedStep == TypeOK /\ IdsNumbered /\ [Next]_vars => IdsNumbered'
<1> SUFFICES ASSUME TypeOK, IdsNumbered, [Next]_vars PROVE IdsNumbered'
  OBVIOUS
<1>1. ASSUME NEW ref \in EligibilityRefs \cup {Null}, RegisterPatron(ref)
      PROVE  IdsNumbered'
  BY <1>1, RegisterNumbers
<1>2. CASE UNCHANGED patrons
  BY <1>2 DEF IdsNumbered, SelfService
<1>3. QED
  BY <1>1, <1>2
     DEF Next, Request, PlaceHold, ConfirmHold, ReadShow, RefuseRegistration, RefuseHold,
         RefuseConfirm, RefuseRead, Tick, ClockStepsBack, vars, db

\* Strategy B: whoever registers, in whatever order and with whatever
\* references, each identity was paid for with a reference of its own and there
\* are no more of them than the cap (require_identity_supply of limits.py).
THEOREM IdentitiesAreGranted == Spec => []IdentitySupply
<1>1. TypeOK /\ SupplyKept => IdentitySupply
  <2> SUFFICES ASSUME TypeOK, SupplyKept, GovernedIdentitySupply
               PROVE  IdentitySupply
    BY DEF IdentitySupply
  <2> DEFINE k == Len(registrations)
  <2>1. k \in Nat /\ DOMAIN registrations = 1..k
    BY LenProperties DEF TypeOK
  <2>2. Cardinality(SelfService) <= RegistrationCap
    BY <2>1, FS_Interval DEF SupplyKept
  <2>3. ASSUME NEW p \in SelfService
        PROVE  \E r \in EligibilityRefs :
                  consumedBy[r] = p /\ [patron |-> p, ref |-> r]
                                         \in {registrations[i] : i \in DOMAIN registrations}
    <3>1. p \in 1..k /\ registrations[p].patron = p
          /\ consumedBy[registrations[p].ref] = p
      BY <2>1, <2>3 DEF SupplyKept
    <3>2. registrations[p] \in RegistrationRows
      BY <2>1, <3>1 DEF TypeOK
    <3>3. /\ registrations[p].ref \in EligibilityRefs
          /\ [patron |-> p, ref |-> registrations[p].ref] = registrations[p]
      BY <3>1, <3>2 DEF RegistrationRows
    <3>4. QED
      BY <2>1, <3>1, <3>3
  <2>4. ASSUME NEW r \in EligibilityRefs
        PROVE  Cardinality({i \in DOMAIN registrations : registrations[i].ref = r})
                 = IF consumedBy[r] = Null THEN 0 ELSE 1
    <3>1. CASE consumedBy[r] = Null
      <4>1. \A i \in 1..k : i # Null
        BY <2>1, PatronsAssumption
      <4>2. {i \in DOMAIN registrations : registrations[i].ref = r} = {}
        BY <2>1, <3>1, <4>1 DEF SupplyKept
      <4>3. QED
        BY <3>1, <4>2, FS_EmptySet
    <3>2. CASE consumedBy[r] # Null
      <4>1. {i \in DOMAIN registrations : registrations[i].ref = r} = {consumedBy[r]}
        BY <3>2 DEF SupplyKept
      <4>2. QED
        BY <3>2, <4>1, FS_Singleton
    <3>3. QED
      BY <3>1, <3>2
  <2>5. QED
    BY <2>2, <2>3, <2>4 DEF IdentitySupply
<1>2. QED
  BY <1>1, SupplyAlwaysKept, TypeCorrect, PTL

-----------------------------------------------------------------------------
(* Availability: as many seats are taken as there are holds and tickets.     *)

LEMMA InjectiveImage ==
    ASSUME NEW S, IsFiniteSet(S), NEW T, NEW f \in [S -> T],
           \A x, y \in S : f[x] = f[y] => x = y,
           \A t \in T : \E x \in S : f[x] = t
    PROVE  IsFiniteSet(T) /\ Cardinality(T) = Cardinality(S)
<1>1. f \in Bijection(S, T)
  BY DEF Bijection, Injection, Surjection, IsInjective
<1>2. QED
  BY <1>1, FS_Bijection DEF ExistsBijection

LEMMA IntervalCount ==
    ASSUME NEW n \in Nat
    PROVE  IsFiniteSet(1..n) /\ Cardinality(1..n) = n
<1>1. IsFiniteSet(1..n) /\ Cardinality(1..n) = IF 1 > n THEN 0 ELSE n - 1 + 1
  BY FS_Interval
<1>2. QED
  BY <1>1

LEMMA DisjointCount ==
    ASSUME NEW S, IsFiniteSet(S), NEW T, IsFiniteSet(T), S \cap T = {}
    PROVE  IsFiniteSet(S \cup T) /\ Cardinality(S \cup T) = Cardinality(S) + Cardinality(T)
<1>1. /\ IsFiniteSet(S \cup T)
      /\ Cardinality(S \cup T) = Cardinality(S) + Cardinality(T) - Cardinality(S \cap T)
  BY FS_Union
<1>2. Cardinality(S \cap T) = 0 /\ Cardinality(S) \in Nat /\ Cardinality(T) \in Nat
  BY FS_EmptySet, FS_CardinalityType
<1>3. QED
  BY <1>1, <1>2

\* As many seats are taken as there are claims, when no two are for one seat.
LEMMA SeatsAreCounted == TypeOK /\ SeatExclusive => AvailabilityTruthful
<1> SUFFICES ASSUME TypeOK, SeatExclusive
             PROVE  AvailabilityTruthful
  OBVIOUS
<1> DEFINE H == {h \in DOMAIN Lapsed : Lapsed[h].state = "held"}
           held == {Lapsed[h].seat : h \in H}
           sold == {tickets[t].seat : t \in DOMAIN tickets}
<1>1. /\ LapseKeepsRows /\ Len(holds) \in Nat
      /\ Len(tickets) \in Nat /\ DOMAIN tickets = 1..Len(tickets)
      /\ SeatsAllocated \in Nat
  BY LapsedRows, LenProperties, SettingsAssumption DEF TypeOK
<1>2. \A h \in DOMAIN Lapsed : Lapsed[h].seat \in Seats
  <2>1. \A h \in DOMAIN Lapsed : Lapsed[h] \in HoldRows
    BY <1>1 DEF LapseKeepsRows
  <2>2. QED
    BY <2>1 DEF HoldRows
<1>3. \A t \in DOMAIN tickets : tickets[t].seat \in Seats
  <2>1. \A t \in DOMAIN tickets : tickets[t] \in TicketRows
    BY <1>1 DEF TypeOK
  <2>2. QED
    BY <2>1 DEF TicketRows
<1>4. IsFiniteSet(held) /\ Cardinality(held) = Cardinality(H)
  <2> DEFINE f == [h \in H |-> Lapsed[h].seat]
  <2>1. IsFiniteSet(H)
    BY <1>1, RowSetsFinite DEF LapseKeepsRows
  <2>2. \A h, k \in H : f[h] = f[k] => h = k
    BY <1>1 DEF LapseKeepsRows, SeatExclusive
  <2>3. f \in [H -> held] /\ \A s \in held : \E h \in H : f[h] = s
    OBVIOUS
  <2> HIDE DEF f
  <2>4. QED
    BY <2>1, <2>2, <2>3, InjectiveImage
<1>5. IsFiniteSet(sold) /\ Cardinality(sold) = Len(tickets)
  <2> DEFINE T == 1..Len(tickets)
             f == [t \in T |-> tickets[t].seat]
  <2>1. IsFiniteSet(T) /\ Cardinality(T) = Len(tickets)
    BY <1>1, IntervalCount
  <2>2. \A t, u \in T : f[t] = f[u] => t = u
    BY <1>1 DEF SeatExclusive
  <2>3. f \in [T -> sold] /\ \A s \in sold : \E t \in T : f[t] = s
    BY <1>1
  <2> HIDE DEF f, T, sold
  <2>4. QED
    BY <2>1, <2>2, <2>3, InjectiveImage
<1>6. held \cap sold = {} /\ held \cup sold \subseteq Seats
  BY <1>1, <1>2, <1>3 DEF LapseKeepsRows, SeatExclusive
<1>7. FreeSeats(Lapsed) = Seats \ (held \cup sold)
  BY DEF FreeSeats, HoldsOn, TicketsOn
<1> HIDE DEF held, sold
<1>8. IsFiniteSet(held \cup sold)
      /\ Cardinality(held \cup sold) = Cardinality(H) + Len(tickets)
  BY <1>4, <1>5, <1>6, DisjointCount
<1>9. IsFiniteSet(Seats) /\ Cardinality(Seats) = SeatsAllocated
  BY <1>1, IntervalCount DEF Seats
<1>10. Seats \cap (held \cup sold) = held \cup sold
  BY <1>6
<1>11. Cardinality(FreeSeats(Lapsed)) = SeatsAllocated - (Cardinality(H) + Len(tickets))
  <2>1. Cardinality(Seats \ (held \cup sold))
          = Cardinality(Seats) - Cardinality(Seats \cap (held \cup sold))
    BY <1>9, FS_Difference
  <2>2. QED
    BY <1>7, <1>8, <1>9, <1>10, <2>1
<1>12. Cardinality(H) \in Nat
  BY <1>1, RowSetsFinite DEF LapseKeepsRows
<1>13. QED
  BY <1>1, <1>11, <1>12 DEF AvailabilityTruthful, SeatsAvailable

\* SQL counts rows and place_hold looks for seats without one: the two agree
\* because no two rows name one seat (get_show and _seat_counts of app.py).
THEOREM AvailabilityIsTruthful == Spec => []AvailabilityTruthful
  BY SeatsAreCounted, TypeCorrect, SeatsAreExclusive, PTL
-----------------------------------------------------------------------------
(* Rows of holds and tickets name patrons of the table, whose ids are those  *)
(* the allocation knows: rows of patrons are never deleted.                  *)

PatronsKnown ==
    /\ patrons \subseteq AllPatrons
    /\ \A h \in DOMAIN holds : holds[h].patron \in patrons
    /\ \A t \in DOMAIN tickets : tickets[t].patron \in patrons

LEMMA InitKnown == Init => PatronsKnown
  BY DEF Init, PatronsKnown, AllPatrons

LEMMA KnownStep == TypeOK /\ PatronsKnown /\ [Next]_vars => PatronsKnown'
<1> SUFFICES ASSUME TypeOK, PatronsKnown, [Next]_vars PROVE PatronsKnown'
  OBVIOUS
<1>1. LapseKeepsRows
  BY LapsedRows DEF TypeOK
<1>2. ASSUME NEW ref \in EligibilityRefs \cup {Null}, RegisterPatron(ref)
      PROVE  PatronsKnown'
  <2> DEFINE id == Cardinality(SelfService) + 1
  <2>1. id \in Nat \ {0} /\ MaxSelfService \in Nat
    BY SelfServiceIdType, BoundsAssumption
  <2>2. Cardinality(SelfService) \in Nat
    BY FS_Subset, FS_CardinalityType DEF SelfService, TypeOK
  <2>3. Cardinality(SelfService) < MaxSelfService /\ patrons' = patrons \cup {id}
    BY <1>2 DEF RegisterPatron
  <2>4. id \in 1..MaxSelfService
    BY <2>1, <2>2, <2>3
  <2> HIDE DEF id
  <2>5. QED
    BY <1>2, <2>3, <2>4 DEF RegisterPatron, PatronsKnown, AllPatrons
<1>3. ASSUME NEW p \in patrons, NEW show \in ShowIds, PlaceHold(p, show)
      PROVE  PatronsKnown'
  <2>1. PlacedRows(p) /\ patrons' = patrons /\ tickets' = tickets
    BY <1>3, PlaceHoldRows DEF PlaceHold
  <2>2. \A h \in DOMAIN holds' :
           holds'[h].patron = p \/ (h \in DOMAIN holds /\ holds'[h].patron = holds[h].patron)
    BY <1>1, <2>1 DEF PlacedRows, LapseKeepsRows, HoldRow
  <2>3. QED
    BY <2>1, <2>2 DEF PatronsKnown, AllPatrons
<1>4. ASSUME NEW p \in patrons, NEW h \in 1..(Len(holds) + 1), ConfirmHold(p, h)
      PROVE  PatronsKnown'
  <2>1. ConfirmedRows(p, h) /\ patrons' = patrons
    BY <1>4, ConfirmHoldRows DEF ConfirmHold
  <2>2. \A t \in DOMAIN tickets' :
           tickets'[t].patron = p \/ (t \in DOMAIN tickets /\ tickets'[t] = tickets[t])
    BY <2>1 DEF ConfirmedRows
  <2>3. QED
    BY <2>1, <2>2 DEF ConfirmedRows, PatronsKnown, AllPatrons
<1>5. ASSUME NEW show \in ShowIds, ReadShow(show)
      PROVE  PatronsKnown'
  BY <1>1, <1>5 DEF ReadShow, LapseKeepsRows, PatronsKnown, AllPatrons
<1>6. ASSUME UNCHANGED <<patrons, holds, tickets>>
      PROVE  PatronsKnown'
  BY <1>6 DEF PatronsKnown, AllPatrons
<1>7. QED
  BY <1>2, <1>3, <1>4, <1>5, <1>6
     DEF Next, Request, RefuseRegistration, RefuseHold, RefuseConfirm, RefuseRead, Tick,
         ClockStepsBack, vars, db

LEMMA PatronsAlwaysKnown == Spec => []PatronsKnown
  BY InitKnown, KnownStep, TypeCorrect, PTL DEF Spec

-----------------------------------------------------------------------------
(* What the mapping makes of the tables.                                     *)

\* SeatClaim reads the one row there is on a seat.
ClaimsRead ==
    \A s \in Seats :
        /\ \A t \in DOMAIN tickets :
              tickets[t].seat = s => SeatClaim(s) = [kind |-> "sold", by |-> tickets[t].patron]
        /\ \A h \in DOMAIN holds :
              holds[h].state = "held" /\ holds[h].seat = s
                => SeatClaim(s) = [kind |-> "held", by |-> holds[h].patron]
        /\ TicketsOn(s) = {} /\ HoldsOn(holds, s, "held") = {}
              => SeatClaim(s) = [kind |-> "free"]

LEMMA ClaimsAreRead == SeatExclusive => ClaimsRead
<1> SUFFICES ASSUME SeatExclusive, NEW s \in Seats
             PROVE  /\ \A t \in DOMAIN tickets :
                          tickets[t].seat = s
                            => SeatClaim(s) = [kind |-> "sold", by |-> tickets[t].patron]
                    /\ \A h \in DOMAIN holds :
                          holds[h].state = "held" /\ holds[h].seat = s
                            => SeatClaim(s) = [kind |-> "held", by |-> holds[h].patron]
                    /\ TicketsOn(s) = {} /\ HoldsOn(holds, s, "held") = {}
                          => SeatClaim(s) = [kind |-> "free"]
  BY DEF ClaimsRead
<1>1. ASSUME NEW t \in DOMAIN tickets, tickets[t].seat = s
      PROVE  SeatClaim(s) = [kind |-> "sold", by |-> tickets[t].patron]
  <2>1. TicketsOn(s) = {t}
    BY <1>1 DEF TicketsOn, SeatExclusive
  <2>2. QED
    BY <2>1 DEF SeatClaim
<1>2. ASSUME NEW h \in DOMAIN holds, holds[h].state = "held", holds[h].seat = s
      PROVE  SeatClaim(s) = [kind |-> "held", by |-> holds[h].patron]
  <2>1. TicketsOn(s) = {} /\ HoldsOn(holds, s, "held") = {h}
    BY <1>2 DEF TicketsOn, HoldsOn, SeatExclusive
  <2>2. QED
    BY <2>1 DEF SeatClaim
<1>3. QED
  BY <1>1, <1>2 DEF SeatClaim

\* The seats that the next transaction's lapse gives back.
SeatsDue == {s \in Seats : \E h \in DOMAIN holds : Due(h) /\ holds[h].seat = s}

\* The claims once they have lapsed are what the lapsed holds and the tickets say.
LapsedClaimsRead ==
    /\ SeatsDue \in SUBSET Allocation!HeldSeats
    /\ \A t \in DOMAIN tickets :
          /\ tickets[t].seat \in Seats
          /\ Allocation!AfterLapse(SeatsDue)[tickets[t].seat]
               = [kind |-> "sold", by |-> tickets[t].patron]
    /\ \A h \in DOMAIN holds :
          Lapsed[h].state = "held" =>
              /\ holds[h].seat \in Allocation!HeldSeats \ SeatsDue
              /\ SeatClaim(holds[h].seat) = [kind |-> "held", by |-> holds[h].patron]
              /\ Allocation!AfterLapse(SeatsDue)[holds[h].seat]
                   = [kind |-> "held", by |-> holds[h].patron]
    /\ \A s \in Seats :
          TicketsOn(s) = {} /\ HoldsOn(Lapsed, s, "held") = {}
              => Allocation!AfterLapse(SeatsDue)[s] = [kind |-> "free"]

LEMMA LapsedClaims ==
    ASSUME TypeOK, SeatExclusive
    PROVE  LapsedClaimsRead
<1>1. LapseKeepsRows /\ ClaimsRead
  BY LapsedRows, ClaimsAreRead DEF TypeOK
<1>2. \A h \in DOMAIN holds : holds[h].seat \in Seats
  <2>1. \A h \in DOMAIN holds : holds[h] \in HoldRows
    BY LenProperties DEF TypeOK
  <2>2. QED
    BY <2>1 DEF HoldRows
<1>3. \A t \in DOMAIN tickets : tickets[t].seat \in Seats
  <2>1. \A t \in DOMAIN tickets : tickets[t] \in TicketRows
    BY LenProperties DEF TypeOK
  <2>2. QED
    BY <2>1 DEF TicketRows
<1>4. \A s \in Seats : Allocation!AfterLapse(SeatsDue)[s]
                          = IF s \in SeatsDue THEN [kind |-> "free"] ELSE SeatClaim(s)
  BY DEF Allocation!AfterLapse, Allocation!Free
<1>5. \A s \in Seats : s \in Allocation!HeldSeats <=> SeatClaim(s).kind = "held"
  BY DEF Allocation!HeldSeats
<1>6. SeatsDue \in SUBSET Allocation!HeldSeats
  <2>1. ASSUME NEW s \in SeatsDue PROVE s \in Allocation!HeldSeats
    <3>1. PICK h \in DOMAIN holds : Due(h) /\ holds[h].seat = s
      BY DEF SeatsDue
    <3>2. SeatClaim(s) = [kind |-> "held", by |-> holds[h].patron] /\ s \in Seats
      BY <1>1, <3>1 DEF ClaimsRead, Due, SeatsDue
    <3>3. QED
      BY <1>5, <3>2
  <2>2. QED
    BY <2>1
<1>7. ASSUME NEW t \in DOMAIN tickets
      PROVE  Allocation!AfterLapse(SeatsDue)[tickets[t].seat]
               = [kind |-> "sold", by |-> tickets[t].patron]
  <2>1. tickets[t].seat \notin SeatsDue
    BY DEF SeatsDue, Due, SeatExclusive
  <2>2. QED
    BY <1>1, <1>3, <1>4, <2>1 DEF ClaimsRead
<1>8. ASSUME NEW h \in DOMAIN holds, Lapsed[h].state = "held"
      PROVE  /\ holds[h].seat \in Allocation!HeldSeats \ SeatsDue
             /\ SeatClaim(holds[h].seat) = [kind |-> "held", by |-> holds[h].patron]
             /\ Allocation!AfterLapse(SeatsDue)[holds[h].seat]
                  = [kind |-> "held", by |-> holds[h].patron]
  <2>1. holds[h].state = "held" /\ ~Due(h)
    BY <1>1, <1>8 DEF LapseKeepsRows
  <2>2. holds[h].seat \notin SeatsDue
    BY <2>1 DEF SeatsDue, Due, SeatExclusive
  <2>3. SeatClaim(holds[h].seat) = [kind |-> "held", by |-> holds[h].patron]
    BY <1>1, <1>2, <2>1 DEF ClaimsRead
  <2>4. QED
    BY <1>2, <1>4, <1>5, <2>2, <2>3
<1>9. ASSUME NEW s \in Seats, TicketsOn(s) = {}, HoldsOn(Lapsed, s, "held") = {}
      PROVE  Allocation!AfterLapse(SeatsDue)[s] = [kind |-> "free"]
  <2>1. CASE s \in SeatsDue
    BY <1>4, <2>1
  <2>2. CASE s \notin SeatsDue
    <3>1. HoldsOn(holds, s, "held") = {}
      BY <1>1, <1>9, <2>2 DEF LapseKeepsRows, HoldsOn, SeatsDue
    <3>2. QED
      BY <1>1, <1>4, <1>9, <2>2, <3>1 DEF ClaimsRead
  <2>3. QED
    BY <2>1, <2>2
<1>10. QED
  BY <1>3, <1>6, <1>7, <1>8, <1>9 DEF LapsedClaimsRead

-----------------------------------------------------------------------------
(* Each transaction is a step of the allocation.                             *)

\* A read, and any step that leaves the holds and tickets alone.
LEMMA ReadAllocates ==
    ASSUME TypeOK, SeatExclusive, SeatExclusive', holds' = Lapsed, UNCHANGED tickets
    PROVE  Allocation!Lapse(SeatsDue)
<1>1. LapsedClaimsRead /\ LapseKeepsRows
  BY LapsedClaims, LapsedRows DEF TypeOK
<1>2. ClaimsRead'
  BY ClaimsAreRead, PTL
<1>3. ASSUME NEW s \in Seats
      PROVE  SeatClaim(s)' = Allocation!AfterLapse(SeatsDue)[s]
  <2>1. CASE \E t \in DOMAIN tickets : tickets[t].seat = s
    BY <1>1, <1>2, <2>1 DEF ClaimsRead, LapsedClaimsRead, Seats
  <2>2. CASE \E h \in DOMAIN holds : Lapsed[h].state = "held" /\ holds[h].seat = s
    BY <1>1, <1>2, <2>2 DEF ClaimsRead, LapsedClaimsRead, LapseKeepsRows, Seats
  <2>3. CASE /\ \A t \in DOMAIN tickets : tickets[t].seat # s
             /\ \A h \in DOMAIN holds : ~(Lapsed[h].state = "held" /\ holds[h].seat = s)
    <3>1. TicketsOn(s) = {} /\ HoldsOn(Lapsed, s, "held") = {}
      BY <1>1, <2>3 DEF TicketsOn, HoldsOn, LapseKeepsRows
    <3>2. TicketsOn(s)' = {} /\ HoldsOn(holds, s, "held")' = {}
      BY <3>1 DEF TicketsOn, HoldsOn
    <3>3. QED
      BY <1>1, <1>2, <3>1, <3>2 DEF ClaimsRead, LapsedClaimsRead, Seats
  <2>4. QED
    BY <2>1, <2>2, <2>3
<1>4. QED
  BY <1>3 DEF Allocation!Lapse, Allocation!AfterLapse, Seats

\* The instance brings a Cardinality of its own.
LEMMA SameCount == \A S : Allocation!Cardinality(S) = Cardinality(S)
  BY DEF Allocation!Cardinality, Cardinality

\* What a patron holds and owns once the lapse is done is charged to it.
LEMMA ClaimsAreCharged ==
    ASSUME TypeOK, NEW p
    PROVE  /\ Cardinality(HoldsOf(Lapsed, p, "held")) \in Nat
           /\ Cardinality(TicketsOf(p)) \in Nat
           /\ SeatsCharged(Lapsed, p) \in Int
           /\ Cardinality(HoldsOf(Lapsed, p, "held")) + Cardinality(TicketsOf(p))
                <= SeatsCharged(Lapsed, p)
<1> DEFINE h == Cardinality(HoldsOf(Lapsed, p, "held"))
           t == Cardinality(TicketsOf(p))
           e == Cardinality(HoldsOf(Lapsed, p, "expired"))
<1>1. h \in Nat /\ t \in Nat /\ e \in Nat
  <2>1. PICK d \in 0..Held(p) : h = Held(p) - d /\ e = Expired(p) + d
    BY LapseCounts
  <2>2. QED
    BY <2>1, CountTypes DEF Ticketed
<1>2. SeatsCharged(Lapsed, p)
        = h + t + (e - IF e <= ReholdAllowance THEN e ELSE ReholdAllowance)
  BY DEF SeatsCharged
<1> HIDE DEF h, t, e
<1>3. h + t <= SeatsCharged(Lapsed, p) /\ SeatsCharged(Lapsed, p) \in Int
  BY <1>1, <1>2, SettingsAssumption
<1>4. QED
  BY <1>1, <1>3 DEF h, t

\* A patron has no more seats than it is charged for.
LEMMA SeatsOfPatron ==
    ASSUME TypeOK, SeatExclusive, NEW p
    PROVE  /\ Cardinality(Allocation!SeatsOf(Allocation!AfterLapse(SeatsDue), p)) \in Nat
           /\ Cardinality(Allocation!SeatsOf(Allocation!AfterLapse(SeatsDue), p))
                <= SeatsCharged(Lapsed, p)
<1> DEFINE H == HoldsOf(Lapsed, p, "held")
           T == TicketsOf(p)
           hs == {Lapsed[h].seat : h \in H}
           ts == {tickets[t].seat : t \in T}
           S == Allocation!SeatsOf(Allocation!AfterLapse(SeatsDue), p)
<1>1. LapsedClaimsRead /\ LapseKeepsRows
  BY LapsedClaims, LapsedRows DEF TypeOK
<1>2. S \subseteq hs \cup ts
  <2>1. ASSUME NEW s \in Seats,
               Allocation!AfterLapse(SeatsDue)[s]
                 \in {[kind |-> "held", by |-> p], [kind |-> "sold", by |-> p]}
        PROVE  s \in hs \cup ts
    <3>1. CASE \E t \in DOMAIN tickets : tickets[t].seat = s
      <4>1. PICK t \in DOMAIN tickets : tickets[t].seat = s
        BY <3>1
      <4>2. Allocation!AfterLapse(SeatsDue)[s] = [kind |-> "sold", by |-> tickets[t].patron]
        BY <1>1, <4>1 DEF LapsedClaimsRead
      <4>3. tickets[t].patron = p
        BY <2>1, <4>2
      <4>4. QED
        BY <4>1, <4>3 DEF TicketsOf
    <3>2. CASE \E h \in DOMAIN holds : Lapsed[h].state = "held" /\ holds[h].seat = s
      <4>1. PICK h \in DOMAIN holds : Lapsed[h].state = "held" /\ holds[h].seat = s
        BY <3>2
      <4>2. Allocation!AfterLapse(SeatsDue)[s] = [kind |-> "held", by |-> holds[h].patron]
        BY <1>1, <4>1 DEF LapsedClaimsRead
      <4>3. holds[h].patron = p
        BY <2>1, <4>2
      <4>4. Lapsed[h].patron = p /\ Lapsed[h].seat = s /\ h \in DOMAIN Lapsed
        BY <1>1, <4>1, <4>3 DEF LapseKeepsRows
      <4>5. QED
        BY <4>1, <4>4 DEF HoldsOf
    <3>3. CASE /\ \A t \in DOMAIN tickets : tickets[t].seat # s
               /\ \A h \in DOMAIN holds : ~(Lapsed[h].state = "held" /\ holds[h].seat = s)
      <4>1. TicketsOn(s) = {} /\ HoldsOn(Lapsed, s, "held") = {}
        BY <1>1, <3>3 DEF TicketsOn, HoldsOn, LapseKeepsRows
      <4>2. Allocation!AfterLapse(SeatsDue)[s] = [kind |-> "free"]
        BY <1>1, <4>1 DEF LapsedClaimsRead
      <4>3. QED
        BY <2>1, <4>2
    <3>4. QED
      BY <3>1, <3>2, <3>3
  <2>2. QED
    BY <2>1 DEF Allocation!SeatsOf, Allocation!Held, Allocation!Sold
<1>3. /\ IsFiniteSet(hs) /\ Cardinality(hs) <= Cardinality(H) /\ Cardinality(H) \in Nat
  <2> DEFINE f == [h \in H |-> Lapsed[h].seat]
  <2>1. f \in Surjection(H, hs)
    BY DEF Surjection
  <2>2. IsFiniteSet(H)
    BY LapseCounts
  <2> HIDE DEF f, hs
  <2>3. QED
    BY <2>1, <2>2, FS_Surjection, FS_CardinalityType
<1>4. IsFiniteSet(ts) /\ Cardinality(ts) <= Cardinality(T) /\ Cardinality(T) \in Nat
  <2> DEFINE f == [t \in T |-> tickets[t].seat]
  <2>1. f \in Surjection(T, ts)
    BY DEF Surjection
  <2>2. IsFiniteSet(T)
    BY CountTypes
  <2> HIDE DEF f, ts
  <2>3. QED
    BY <2>1, <2>2, FS_Surjection, FS_CardinalityType
<1> HIDE DEF hs, ts
<1>5. /\ IsFiniteSet(hs \cup ts)
      /\ Cardinality(hs \cup ts) <= Cardinality(H) + Cardinality(T)
  <2>1. /\ IsFiniteSet(hs \cup ts)
        /\ Cardinality(hs \cup ts)
             = Cardinality(hs) + Cardinality(ts) - Cardinality(hs \cap ts)
    BY <1>3, <1>4, FS_Union
  <2>2. IsFiniteSet(hs \cap ts)
    BY <1>3, FS_Intersection
  <2>3. /\ Cardinality(hs) \in Nat /\ Cardinality(ts) \in Nat
        /\ Cardinality(hs \cap ts) \in Nat
    BY <1>3, <1>4, <2>2, FS_CardinalityType
  <2>4. QED
    BY <1>3, <1>4, <2>1, <2>3
<1>6. /\ Cardinality(S) \in Nat /\ Cardinality(S) <= Cardinality(hs \cup ts)
      /\ Cardinality(hs \cup ts) \in Nat
  <2> HIDE DEF S
  <2> QED
    BY <1>2, <1>5, FS_Subset, FS_CardinalityType
<1>7. /\ Cardinality(H) + Cardinality(T) <= SeatsCharged(Lapsed, p)
      /\ SeatsCharged(Lapsed, p) \in Int
  BY ClaimsAreCharged
<1>8. QED
  <2> HIDE DEF S, H, T
  <2>1. Cardinality(S) <= SeatsCharged(Lapsed, p)
    BY <1>3, <1>4, <1>5, <1>6, <1>7
  <2>2. QED
    BY <1>6, <2>1 DEF S

\* place_hold takes a free seat, within the entitlement where the terms say so.
LEMMA PlaceHoldAllocates ==
    ASSUME TypeOK, SeatExclusive, SeatExclusive', PatronsKnown,
           NEW p \in patrons, NEW show, PlaceHold(p, show)
    PROVE  p \in AllPatrons /\ Allocation!Hold(p, SeatsDue)
<1> DEFINE n == Len(holds) + 1
           s0 == HoldRow(Lapsed, p).seat
<1>1. LapsedClaimsRead /\ LapseKeepsRows /\ PlacedRows(p) /\ tickets' = tickets
  BY LapsedClaims, LapsedRows, PlaceHoldRows DEF TypeOK, PlaceHold
<1>2. ClaimsRead'
  BY ClaimsAreRead, PTL
<1>3. p \in AllPatrons
  BY DEF PatronsKnown
<1>4. /\ s0 \in Seats
      /\ \A t \in DOMAIN tickets : tickets[t].seat # s0
      /\ \A h \in DOMAIN holds : ~(Lapsed[h].state = "held" /\ holds[h].seat = s0)
      /\ Allocation!AfterLapse(SeatsDue)[s0] = [kind |-> "free"]
  <2>1. s0 \in Seats /\ TicketsOn(s0) = {} /\ HoldsOn(Lapsed, s0, "held") = {}
    BY <1>1 DEF PlacedRows, FreeSeats
  <2>2. QED
    BY <1>1, <2>1 DEF TicketsOn, HoldsOn, LapsedClaimsRead, LapseKeepsRows
<1>5. /\ n \in DOMAIN holds' /\ holds'[n].seat = s0 /\ holds'[n].patron = p
      /\ holds'[n].state = "held"
      /\ \A h \in DOMAIN holds' : h = n \/ (h \in DOMAIN holds /\ holds'[h] = Lapsed[h])
      /\ \A h \in DOMAIN holds : h \in DOMAIN holds' /\ holds'[h] = Lapsed[h]
  BY <1>1 DEF PlacedRows, HoldRow
<1> HIDE DEF n, s0
<1>6. ASSUME NEW s \in Seats
      PROVE  SeatClaim(s)' = IF s = s0 THEN [kind |-> "held", by |-> p]
                                       ELSE Allocation!AfterLapse(SeatsDue)[s]
  <2>1. CASE s = s0
    BY <1>2, <1>5, <2>1 DEF ClaimsRead, Seats
  <2>2. CASE s # s0 /\ \E t \in DOMAIN tickets : tickets[t].seat = s
    BY <1>1, <1>2, <2>2 DEF ClaimsRead, LapsedClaimsRead, Seats
  <2>3. CASE s # s0 /\ \E h \in DOMAIN holds : Lapsed[h].state = "held" /\ holds[h].seat = s
    <3>1. PICK h \in DOMAIN holds : Lapsed[h].state = "held" /\ holds[h].seat = s
      BY <2>3
    <3>2. /\ h \in DOMAIN holds' /\ holds'[h].state = "held" /\ holds'[h].seat = s
          /\ holds'[h].patron = holds[h].patron
      BY <1>1, <1>5, <3>1 DEF LapseKeepsRows
    <3>3. SeatClaim(s)' = [kind |-> "held", by |-> holds[h].patron]
      BY <1>2, <3>2 DEF ClaimsRead, Seats
    <3>4. Allocation!AfterLapse(SeatsDue)[s] = [kind |-> "held", by |-> holds[h].patron]
      BY <1>1, <3>1 DEF LapsedClaimsRead
    <3>5. QED
      BY <2>3, <3>3, <3>4
  <2>4. CASE /\ s # s0
             /\ \A t \in DOMAIN tickets : tickets[t].seat # s
             /\ \A h \in DOMAIN holds : ~(Lapsed[h].state = "held" /\ holds[h].seat = s)
    <3>1. TicketsOn(s) = {} /\ HoldsOn(Lapsed, s, "held") = {}
      BY <1>1, <2>4 DEF TicketsOn, HoldsOn, LapseKeepsRows
    <3>2. TicketsOn(s)' = {} /\ HoldsOn(holds, s, "held")' = {}
      BY <1>1, <1>5, <2>4 DEF TicketsOn, HoldsOn, LapseKeepsRows
    <3>3. SeatClaim(s)' = [kind |-> "free"]
      BY <1>2, <3>2 DEF ClaimsRead, Seats
    <3>4. Allocation!AfterLapse(SeatsDue)[s] = [kind |-> "free"]
      BY <1>1, <3>1 DEF LapsedClaimsRead
    <3>5. QED
      BY <2>4, <3>3, <3>4
  <2>5. QED
    BY <2>1, <2>2, <2>3, <2>4
<1>7. SeatQuota /\ FlowState =>
         Cardinality(Allocation!SeatsOf(Allocation!AfterLapse(SeatsDue), p)) < SeatEntitlement(p)
  <2> DEFINE c == Cardinality(Allocation!SeatsOf(Allocation!AfterLapse(SeatsDue), p))
  <2>1. c \in Nat /\ c <= SeatsCharged(Lapsed, p)
    BY SeatsOfPatron
  <2>2. SeatQuota => SeatsCharged(Lapsed, p) < SeatEntitlement(p)
    BY DEF PlaceHold, HoldAdmitted, WithinSeatEntitlement
  <2>3. SeatsCharged(Lapsed, p) \in Int /\ SeatEntitlement(p) \in Nat
    BY LapseCharges, EntitlementType
  <2> HIDE DEF c
  <2>4. SeatQuota => c < SeatEntitlement(p)
    BY <2>1, <2>2, <2>3
  <2>5. QED
    BY <2>4 DEF c
<1>8. [s \in Seats |-> SeatClaim(s)]'
         = [Allocation!AfterLapse(SeatsDue) EXCEPT ![s0] = [kind |-> "held", by |-> p]]
  BY <1>4, <1>6 DEF Seats, Allocation!AfterLapse
<1>9. [q \in AllPatrons |-> SeatEntitlement(q)][p] = SeatEntitlement(p)
  BY <1>3
<1>10. Allocation!Cardinality(Allocation!SeatsOf(Allocation!AfterLapse(SeatsDue), p))
          = Cardinality(Allocation!SeatsOf(Allocation!AfterLapse(SeatsDue), p))
  BY SameCount
<1>11. QED
  BY <1>3, <1>4, <1>7, <1>8, <1>9, <1>10 DEF Allocation!Hold, Allocation!Held, Allocation!Free

\* confirm_hold sells a seat that is held and not about to lapse, to its holder
\* where the flow state says so.
LEMMA ConfirmHoldAllocates ==
    ASSUME TypeOK, SeatExclusive, SeatExclusive', FlowConsistent, PatronsKnown,
           NEW p \in patrons, NEW h, ConfirmHold(p, h)
    PROVE  p \in AllPatrons /\ Allocation!Buy(p, SeatsDue)
<1> DEFINE m == Len(tickets) + 1
           s0 == holds[h].seat
<1>1. LapsedClaimsRead /\ LapseKeepsRows /\ ConfirmedRows(p, h)
  BY LapsedClaims, LapsedRows, ConfirmHoldRows DEF TypeOK
<1>2. ClaimsRead'
  BY ClaimsAreRead, PTL
<1>3. p \in AllPatrons
  BY DEF PatronsKnown
<1>4. /\ h \in DOMAIN holds /\ Lapsed[h].state = "held" /\ holds[h].state = "held"
      /\ s0 \in Allocation!HeldSeats \ SeatsDue /\ s0 \in Seats
      /\ SeatClaim(s0) = [kind |-> "held", by |-> holds[h].patron]
      /\ FlowState => holds[h].patron = p
  <2>1. h \in DOMAIN holds /\ Lapsed[h].state = "held" /\ holds[h].state = "held"
    BY <1>1 DEF ConfirmedRows, LapseKeepsRows
  <2>2. FlowState => holds[h].patron = p
    BY <1>1, <2>1 DEF ConfirmedRows, FlowConsistent
  <2>3. QED
    BY <1>1, <2>1, <2>2 DEF LapsedClaimsRead, Allocation!HeldSeats
<1>5. /\ DOMAIN holds' = DOMAIN holds
      /\ \A k \in DOMAIN holds :
            /\ holds'[k].seat = holds[k].seat /\ holds'[k].patron = holds[k].patron
            /\ holds'[k].state = IF k = h THEN "confirmed" ELSE Lapsed[k].state
      /\ m \in DOMAIN tickets' /\ tickets'[m].seat = s0 /\ tickets'[m].patron = p
      /\ \A t \in DOMAIN tickets : t \in DOMAIN tickets' /\ tickets'[t] = tickets[t]
      /\ \A t \in DOMAIN tickets' : t = m \/ t \in DOMAIN tickets
  BY <1>1 DEF ConfirmedRows
<1> HIDE DEF m, s0
<1>6. ASSUME NEW s \in Seats
      PROVE  SeatClaim(s)' = IF s = s0 THEN [kind |-> "sold", by |-> p]
                                       ELSE Allocation!AfterLapse(SeatsDue)[s]
  <2>1. CASE s = s0
    BY <1>2, <1>5, <2>1 DEF ClaimsRead, Seats
  <2>2. CASE s # s0 /\ \E t \in DOMAIN tickets : tickets[t].seat = s
    <3>1. PICK t \in DOMAIN tickets : tickets[t].seat = s
      BY <2>2
    <3>2. t \in DOMAIN tickets' /\ tickets'[t] = tickets[t]
      BY <1>5
    <3>3. SeatClaim(s)' = [kind |-> "sold", by |-> tickets[t].patron]
      BY <1>2, <3>1, <3>2 DEF ClaimsRead, Seats
    <3>4. Allocation!AfterLapse(SeatsDue)[s] = [kind |-> "sold", by |-> tickets[t].patron]
      BY <1>1, <3>1 DEF LapsedClaimsRead
    <3>5. QED
      BY <2>2, <3>3, <3>4
  <2>3. CASE s # s0 /\ \E k \in DOMAIN holds : Lapsed[k].state = "held" /\ holds[k].seat = s
    <3>1. PICK k \in DOMAIN holds : Lapsed[k].state = "held" /\ holds[k].seat = s
      BY <2>3
    <3>2. /\ k \in DOMAIN holds' /\ holds'[k].state = "held" /\ holds'[k].seat = s
          /\ holds'[k].patron = holds[k].patron
      BY <1>5, <2>3, <3>1 DEF s0
    <3>3. SeatClaim(s)' = [kind |-> "held", by |-> holds[k].patron]
      BY <1>2, <3>2 DEF ClaimsRead, Seats
    <3>4. Allocation!AfterLapse(SeatsDue)[s] = [kind |-> "held", by |-> holds[k].patron]
      BY <1>1, <3>1 DEF LapsedClaimsRead
    <3>5. QED
      BY <2>3, <3>3, <3>4
  <2>4. CASE /\ s # s0
             /\ \A t \in DOMAIN tickets : tickets[t].seat # s
             /\ \A k \in DOMAIN holds : ~(Lapsed[k].state = "held" /\ holds[k].seat = s)
    <3>1. TicketsOn(s) = {} /\ HoldsOn(Lapsed, s, "held") = {}
      BY <1>1, <2>4 DEF TicketsOn, HoldsOn, LapseKeepsRows
    <3>2. TicketsOn(s)' = {} /\ HoldsOn(holds, s, "held")' = {}
      BY <1>5, <2>4 DEF TicketsOn, HoldsOn
    <3>3. SeatClaim(s)' = [kind |-> "free"]
      BY <1>2, <3>2 DEF ClaimsRead, Seats
    <3>4. Allocation!AfterLapse(SeatsDue)[s] = [kind |-> "free"]
      BY <1>1, <3>1 DEF LapsedClaimsRead
    <3>5. QED
      BY <2>4, <3>3, <3>4
  <2>5. QED
    BY <2>1, <2>2, <2>3, <2>4
<1>7. [s \in Seats |-> SeatClaim(s)]'
         = [Allocation!AfterLapse(SeatsDue) EXCEPT ![s0] = [kind |-> "sold", by |-> p]]
  BY <1>4, <1>6 DEF Seats, Allocation!AfterLapse
<1>8. FlowState => SeatClaim(s0) = [kind |-> "held", by |-> p]
  BY <1>4
<1>9. [s \in Seats |-> SeatClaim(s)][s0] = SeatClaim(s0)
  BY <1>4
<1>10. QED
  BY <1>3, <1>4, <1>7, <1>8, <1>9 DEF Allocation!Buy, Allocation!Held, Allocation!Sold

LEMMA InitAllocates == Init => Allocation!AllocationInit
<1> SUFFICES ASSUME Init PROVE Allocation!AllocationInit
  OBVIOUS
<1>1. ASSUME NEW s \in Seats PROVE SeatClaim(s) = [kind |-> "free"]
  BY DEF Init, SeatClaim, TicketsOn, HoldsOn
<1>2. SeatQuota \in BOOLEAN /\ FlowState \in BOOLEAN
  BY PolicyAssumption DEF Init, AnyPolicy, SeatQuota, FlowState
<1>3. QED
  BY <1>1, <1>2 DEF Allocation!AllocationInit, Allocation!Free

LEMMA AllocationStep ==
    ASSUME TypeOK, SeatExclusive, SeatExclusive', FlowConsistent, PatronsKnown, [Next]_vars
    PROVE  [Allocation!AllocationNext]_<<
               [bounded |-> SeatQuota /\ FlowState, holder_buys |-> FlowState],
               [s \in Seats |-> SeatClaim(s)]>>
<1> DEFINE terms == [bounded |-> SeatQuota /\ FlowState, holder_buys |-> FlowState]
           claim == [s \in Seats |-> SeatClaim(s)]
<1>1. UNCHANGED terms
  <2>1. policy' = policy
    BY DEF Next, Request, RegisterPatron, PlaceHold, ConfirmHold, ReadShow, RefuseRegistration,
           RefuseHold, RefuseConfirm, RefuseRead, Tick, ClockStepsBack, vars
  <2>2. QED
    BY <2>1 DEF SeatQuota, FlowState
<1>2. SeatsDue \in SUBSET Allocation!HeldSeats
  BY LapsedClaims DEF LapsedClaimsRead
<1>3. ASSUME NEW p \in patrons, NEW show \in ShowIds, PlaceHold(p, show)
      PROVE  Allocation!AllocationNext
  BY <1>1, <1>2, <1>3, PlaceHoldAllocates DEF Allocation!AllocationNext
<1>4. ASSUME NEW p \in patrons, NEW h \in 1..(Len(holds) + 1), ConfirmHold(p, h)
      PROVE  Allocation!AllocationNext
  BY <1>1, <1>2, <1>4, ConfirmHoldAllocates DEF Allocation!AllocationNext
<1>5. ASSUME NEW show \in ShowIds, ReadShow(show)
      PROVE  Allocation!AllocationNext
  <2>1. Allocation!Lapse(SeatsDue)
    BY <1>5, ReadAllocates DEF ReadShow
  <2>2. QED
    BY <1>1, <1>2, <2>1 DEF Allocation!AllocationNext
<1>6. ASSUME UNCHANGED <<holds, tickets>>
      PROVE  UNCHANGED claim
  BY <1>6 DEF SeatClaim, TicketsOn, HoldsOn, Seats
<1>7. QED
  BY <1>1, <1>3, <1>4, <1>5, <1>6
     DEF Next, Request, RegisterPatron, RefuseRegistration, RefuseHold, RefuseConfirm,
         RefuseRead, Tick, ClockStepsBack, vars, db

\* The booking transactions implement the seat allocation: whatever the policy,
\* a seat goes from free to held to sold and back only by lapsing, to one patron
\* at a time, and under the policy's switches within the entitlement and only
\* to its holder (place_hold, confirm_hold and expire_due_holds).
THEOREM FlowImplementsAllocation == Spec => ImplementsAllocation
<1>1. Spec => [](TypeOK /\ SeatExclusive /\ FlowConsistent /\ PatronsKnown)
  BY TypeCorrect, SeatsAreExclusive, FlowsAreConsistent, PatronsAlwaysKnown, PTL
<1>2. QED
  BY <1>1, InitAllocates, AllocationStep, PTL
     DEF Spec, ImplementsAllocation, Allocation!AllocationSpec

-----------------------------------------------------------------------------
(* Counting many patrons' claims.  Each patron numbers its own claims within *)
(* its entitlement, so that claim k of patron p takes the slot <<p, k>>, and  *)
(* there are no more claims than slots: no sum over the patrons is needed.    *)

SeatSlots(P, e) == {ps \in P \X Nat : ps[2] \in 1..e[ps[1]]}

LEMMA Numbered ==
    ASSUME NEW S, IsFiniteSet(S), NEW n \in Nat, Cardinality(S) <= n
    PROVE  \E f \in [S -> 1..n] : \A x, y \in S : f[x] = f[y] => x = y
<1> DEFINE c == Cardinality(S)
<1>1. c \in Nat /\ ExistsBijection(1..c, S)
  BY FS_CardinalityType
<1>2. PICK f : f \in Bijection(S, 1..c)
  BY <1>1, Fun_ExistsBijSymmetric, Fun_ExistsBij
<1>3. f \in [S -> 1..c] /\ \A x, y \in S : f[x] = f[y] => x = y
  BY <1>2 DEF Bijection, Injection, IsInjective
<1>4. 1..c \subseteq 1..n
  BY <1>1
<1>5. QED
  BY <1>3, <1>4

LEMMA OwnersNumbered ==
    ASSUME NEW S, IsFiniteSet(S), NEW P, NEW owner \in [S -> P], NEW e \in [P -> Nat],
           \A p \in P : Cardinality({x \in S : owner[x] = p}) <= e[p],
           IsFiniteSet(SeatSlots(P, e))
    PROVE  Cardinality(S) <= Cardinality(SeatSlots(P, e))
<1> DEFINE Own(p) == {x \in S : owner[x] = p}
           Numberings(p) == {f \in [Own(p) -> 1..e[p]] :
                               \A x, y \in Own(p) : f[x] = f[y] => x = y}
           g == [p \in P |-> CHOOSE f \in Numberings(p) : TRUE]
           slot == [x \in S |-> <<owner[x], g[owner[x]][x]>>]
<1>1. ASSUME NEW p \in P PROVE Numberings(p) # {}
  <2>1. IsFiniteSet(Own(p)) /\ Cardinality(Own(p)) <= e[p] /\ e[p] \in Nat
    BY FS_Subset
  <2> HIDE DEF Own
  <2>2. QED
    BY <2>1, Numbered
<1>2. ASSUME NEW p \in P PROVE g[p] \in Numberings(p)
  BY <1>1
<1> HIDE DEF g
<1>3. ASSUME NEW x \in S PROVE slot[x] \in SeatSlots(P, e)
  <2>1. g[owner[x]][x] \in 1..e[owner[x]] /\ owner[x] \in P
    BY <1>2
  <2>2. QED
    BY <2>1 DEF SeatSlots
<1>4. ASSUME NEW x \in S, NEW y \in S, slot[x] = slot[y] PROVE x = y
  <2>1. owner[x] = owner[y] /\ g[owner[x]][x] = g[owner[x]][y]
    BY <1>4
  <2>2. QED
    BY <1>2, <2>1
<1>5. slot \in Injection(S, SeatSlots(P, e))
  <2>1. slot \in [S -> SeatSlots(P, e)]
    BY <1>3
  <2> HIDE DEF slot
  <2>2. QED
    BY <1>4, <2>1, Fun_IsInj
<1>6. QED
  BY <1>5, FS_Injection

\* The same for holds and tickets, which are rows of two tables.
OwnedBy(S, owner, p) == {x \in S : owner[x] = p}

LEMMA RowsWithinSlots ==
    ASSUME NEW H, IsFiniteSet(H), NEW T, IsFiniteSet(T), NEW P,
           NEW ho \in [H -> P], NEW to \in [T -> P], NEW e \in [P -> Nat],
           \A p \in P : Cardinality(OwnedBy(H, ho, p)) + Cardinality(OwnedBy(T, to, p)) <= e[p],
           IsFiniteSet(SeatSlots(P, e))
    PROVE  Cardinality(H) + Cardinality(T) <= Cardinality(SeatSlots(P, e))
<1> DEFINE S == ({"hold"} \X H) \cup ({"ticket"} \X T)
           owner == [x \in S |-> IF x[1] = "hold" THEN ho[x[2]] ELSE to[x[2]]]
<1>1. ASSUME NEW A, IsFiniteSet(A), NEW a
      PROVE  IsFiniteSet({a} \X A) /\ Cardinality({a} \X A) = Cardinality(A)
  <2>1. IsFiniteSet({a}) /\ Cardinality({a}) = 1 /\ Cardinality(A) \in Nat
    BY <1>1, FS_Singleton, FS_CardinalityType
  <2>2. /\ IsFiniteSet({a} \X A)
        /\ Cardinality({a} \X A) = Cardinality({a}) * Cardinality(A)
    BY <1>1, <2>1, FS_Product
  <2>3. QED
    BY <2>1, <2>2
<1>2. ASSUME NEW A, IsFiniteSet(A), NEW B, IsFiniteSet(B)
      PROVE  /\ IsFiniteSet(({"hold"} \X A) \cup ({"ticket"} \X B))
             /\ Cardinality(({"hold"} \X A) \cup ({"ticket"} \X B))
                  = Cardinality(A) + Cardinality(B)
  <2> DEFINE a == {"hold"} \X A
             b == {"ticket"} \X B
  <2>1. a \cap b = {}
    OBVIOUS
  <2>2. /\ IsFiniteSet(a) /\ Cardinality(a) = Cardinality(A)
        /\ IsFiniteSet(b) /\ Cardinality(b) = Cardinality(B)
    BY <1>1, <1>2
  <2> HIDE DEF a, b
  <2>3. IsFiniteSet(a \cup b) /\ Cardinality(a \cup b) = Cardinality(a) + Cardinality(b)
    BY <2>1, <2>2, DisjointCount
  <2>4. QED
    BY <2>2, <2>3 DEF a, b
<1>3. owner \in [S -> P]
  OBVIOUS
<1>4. ASSUME NEW p \in P PROVE Cardinality({x \in S : owner[x] = p}) <= e[p]
  <2> DEFINE A == {h \in H : ho[h] = p}
             B == {t \in T : to[t] = p}
  <2>1. {x \in S : owner[x] = p} = ({"hold"} \X A) \cup ({"ticket"} \X B)
    OBVIOUS
  <2>2. IsFiniteSet(A) /\ IsFiniteSet(B)
    BY FS_Subset
  <2>3. Cardinality(A) + Cardinality(B) <= e[p]
    BY DEF OwnedBy
  <2> HIDE DEF A, B
  <2>4. QED
    BY <1>2, <2>1, <2>2, <2>3
<1>5. IsFiniteSet(S) /\ Cardinality(S) = Cardinality(H) + Cardinality(T)
  BY <1>2
<1>6. \A p \in P : Cardinality({x \in S : owner[x] = p}) <= e[p]
  BY <1>4
<1> HIDE DEF S, owner
<1>7. Cardinality(S) <= Cardinality(SeatSlots(P, e))
  BY <1>3, <1>5, <1>6, OwnersNumbered
<1>8. QED
  BY <1>5, <1>7

LEMMA GridCount ==
    ASSUME NEW A, IsFiniteSet(A), NEW n \in Nat
    PROVE  IsFiniteSet(A \X (1..n)) /\ Cardinality(A \X (1..n)) = Cardinality(A) * n
<1>1. IsFiniteSet(1..n) /\ Cardinality(1..n) = n
  BY IntervalCount
<1>2. QED
  BY <1>1, FS_Product

\* Settings.operator_seat_ceiling holds of all the seats that one operator's
\* self-service identities hold or own together, however many it registers and
\* whoever confirms which hold: the identities are at most the cap, because each
\* costs a reference, and each keeps its quota.
THEOREM OperatorStaysWithinCeiling == Spec => []OperatorWithinCeiling
<1>1. TypeOK /\ ChargesKept /\ SupplyKept => OperatorWithinCeiling
  <2> SUFFICES ASSUME TypeOK, ChargesKept, SupplyKept,
                      SeatQuota, GovernedIdentitySupply, FlowState
               PROVE  OperatorWithinCeiling
    BY DEF OperatorWithinCeiling
  <2> DEFINE P == SelfService
             H == {h \in DOMAIN holds : holds[h].state = "held" /\ holds[h].patron \in P}
             T == {t \in DOMAIN tickets : tickets[t].patron \in P}
             ho == [h \in H |-> holds[h].patron]
             to == [t \in T |-> tickets[t].patron]
             e == [p \in P |-> SeatQuotaDefault]
             grid == (1..RegistrationCap) \X (1..SeatQuotaDefault)
  <2>1. IsFiniteSet(H) /\ IsFiniteSet(T)
    <3>1. /\ Len(holds) \in Nat /\ DOMAIN holds = 1..Len(holds)
          /\ Len(tickets) \in Nat /\ DOMAIN tickets = 1..Len(tickets)
      BY LenProperties DEF TypeOK
    <3>2. H \in SUBSET (1..Len(holds)) /\ T \in SUBSET (1..Len(tickets))
      BY <3>1
    <3> HIDE DEF H, T
    <3>3. QED
      BY <3>1, <3>2, RowSetsFinite
  <2>2. /\ SeatQuotaDefault \in Nat /\ RegistrationCap \in Nat
        /\ P \subseteq 1..RegistrationCap
    BY SettingsAssumption, LenProperties DEF SupplyKept, TypeOK
  <2>3. ASSUME NEW p \in P
        PROVE  Cardinality({h \in H : ho[h] = p}) + Cardinality({t \in T : to[t] = p}) <= e[p]
    <3>1. p \in PatronIds /\ SeatEntitlement(p) = SeatQuotaDefault
      BY <2>2, PatronsAssumption DEF SelfService, SeatEntitlement, TypeOK
    <3>2. KeptFor(Held(p), Ticketed(p), Expired(p), Placed(p), SeatEntitlement(p))
      BY <3>1, ChargesKeptFor
    <3>3. Held(p) + Ticketed(p) <= SeatQuotaDefault
      BY <3>1, <3>2, CountTypes, SettingsAssumption DEF KeptFor
    <3>4. /\ {h \in H : ho[h] = p} = HoldsOf(holds, p, "held")
          /\ {t \in T : to[t] = p} = TicketsOf(p)
      BY DEF HoldsOf, TicketsOf
    <3>5. QED
      BY <3>3, <3>4 DEF Held, Ticketed
  <2>4. /\ IsFiniteSet(grid) /\ Cardinality(grid) = RegistrationCap * SeatQuotaDefault
        /\ SeatSlots(P, e) \in SUBSET grid
    <3>1. SeatSlots(P, e) \in SUBSET grid
      BY <2>2 DEF SeatSlots
    <3>2. /\ IsFiniteSet(1..RegistrationCap)
          /\ Cardinality(1..RegistrationCap) = RegistrationCap
      BY <2>2, IntervalCount
    <3>3. QED
      BY <2>2, <3>1, <3>2, GridCount
  <2>5. IsFiniteSet(SeatSlots(P, e)) /\ Cardinality(SeatSlots(P, e)) <= Cardinality(grid)
    <3> HIDE DEF grid
    <3> QED
      BY <2>4, FS_Subset
  <2>6. ho \in [H -> P] /\ to \in [T -> P] /\ e \in [P -> Nat]
    BY <2>2
  <2>7. \A p \in P : Cardinality(OwnedBy(H, ho, p)) + Cardinality(OwnedBy(T, to, p)) <= e[p]
    BY <2>3 DEF OwnedBy
  <2>8. Cardinality(H) + Cardinality(T) <= Cardinality(SeatSlots(P, e))
    <3> HIDE DEF H, T, P, ho, to, e
    <3> QED
      BY <2>1, <2>5, <2>6, <2>7, RowsWithinSlots
  <2>9. /\ Cardinality(H) \in Nat /\ Cardinality(T) \in Nat
        /\ Cardinality(SeatSlots(P, e)) \in Nat /\ RegistrationCap * SeatQuotaDefault \in Nat
    BY <2>1, <2>2, <2>5, FS_CardinalityType
  <2>10. Cardinality(H) + Cardinality(T) <= RegistrationCap * SeatQuotaDefault
    <3> HIDE DEF H, T, P, ho, to, e, grid
    <3> QED
      BY <2>4, <2>5, <2>8, <2>9
  <2>11. QED
    BY <2>10 DEF OperatorWithinCeiling
<1>2. QED
  BY <1>1, TypeCorrect, QuotaAlwaysKept, SupplyAlwaysKept, PTL

\* The slots that an allocation which covers every entitlement has seats for.
Households == {HouseholdPatron}
Fixtures == FixturePatrons \ Households
GrantedIds == 1..RegistrationCap
Grid ==
    ((Fixtures \X (1..SeatQuotaDefault)) \cup (Households \X (1..HouseholdEntitlement)))
        \cup (GrantedIds \X (1..SeatQuotaDefault))

LEMMA GridWithinAllocation ==
    ASSUME AllocationCoversEntitlements
    PROVE  IsFiniteSet(Grid) /\ Cardinality(Grid) <= SeatsAllocated
<1> DEFINE A == Fixtures \X (1..SeatQuotaDefault)
           B == Households \X (1..HouseholdEntitlement)
           C == GrantedIds \X (1..SeatQuotaDefault)
           a == (Cardinality(FixturePatrons) - 1) * SeatQuotaDefault
           c == RegistrationCap * SeatQuotaDefault
<1>1. /\ SeatQuotaDefault \in Nat /\ HouseholdEntitlement \in Nat /\ RegistrationCap \in Nat
      /\ SeatsAllocated \in Nat
  BY SettingsAssumption
<1>2. IsFiniteSet(Fixtures) /\ Cardinality(Fixtures) = Cardinality(FixturePatrons) - 1
  BY PatronsAssumption, FS_RemoveElement DEF Fixtures, Households
<1>3. IsFiniteSet(A) /\ Cardinality(A) = a
  BY <1>1, <1>2, GridCount
<1>4. IsFiniteSet(B) /\ Cardinality(B) = HouseholdEntitlement
  <2>1. IsFiniteSet(Households) /\ Cardinality(Households) = 1
    BY FS_Singleton DEF Households
  <2>2. IsFiniteSet(B) /\ Cardinality(B) = Cardinality(Households) * HouseholdEntitlement
    BY <1>1, <2>1, GridCount
  <2>3. QED
    BY <1>1, <2>1, <2>2
<1>5. IsFiniteSet(C) /\ Cardinality(C) = c
  <2>1. IsFiniteSet(GrantedIds) /\ Cardinality(GrantedIds) = RegistrationCap
    BY <1>1, IntervalCount DEF GrantedIds
  <2>2. QED
    BY <1>1, <2>1, GridCount
<1>6. ASSUME NEW S, IsFiniteSet(S), NEW T, IsFiniteSet(T)
      PROVE  IsFiniteSet(S \cup T) /\ Cardinality(S \cup T) <= Cardinality(S) + Cardinality(T)
  <2>1. /\ IsFiniteSet(S \cup T)
        /\ Cardinality(S \cup T) = Cardinality(S) + Cardinality(T) - Cardinality(S \cap T)
    BY <1>6, FS_Union
  <2>2. IsFiniteSet(S \cap T)
    BY <1>6, FS_Intersection
  <2>3. Cardinality(S) \in Nat /\ Cardinality(T) \in Nat /\ Cardinality(S \cap T) \in Nat
    BY <1>6, <2>2, FS_CardinalityType
  <2>4. QED
    BY <2>1, <2>3
<1>7. a + HouseholdEntitlement + c <= SeatsAllocated
  BY DEF AllocationCoversEntitlements
<1> HIDE DEF A, B, C, a, c
<1>8. /\ IsFiniteSet(A \cup B)
      /\ Cardinality(A \cup B) <= Cardinality(A) + Cardinality(B)
  BY <1>3, <1>4, <1>6
<1>9. /\ IsFiniteSet((A \cup B) \cup C)
      /\ Cardinality((A \cup B) \cup C) <= Cardinality(A \cup B) + Cardinality(C)
  BY <1>5, <1>6, <1>8
<1>10. /\ Cardinality(A) \in Nat /\ Cardinality(B) \in Nat /\ Cardinality(C) \in Nat
       /\ Cardinality(A \cup B) \in Nat /\ Cardinality((A \cup B) \cup C) \in Nat
  BY <1>3, <1>4, <1>5, <1>8, <1>9, FS_CardinalityType
<1>11. Cardinality((A \cup B) \cup C) <= SeatsAllocated
  BY <1>1, <1>3, <1>4, <1>5, <1>7, <1>8, <1>9, <1>10
<1>12. QED
  BY <1>9, <1>11 DEF A, B, C, Grid

\* Under governance a patron is the household, another fixture, or one of the
\* cap's self-service identities, so each of its slots is in the grid.
LEMMA SlotsInGrid ==
    ASSUME TypeOK, SupplyKept, GovernedIdentitySupply, NEW p \in patrons,
           NEW k \in 1..SeatEntitlement(p)
    PROVE  <<p, k>> \in Grid
<1>1. SelfService \subseteq GrantedIds
  <2>1. Len(registrations) \in Nat /\ RegistrationCap \in Nat
    BY SettingsAssumption, LenProperties DEF TypeOK
  <2>2. QED
    BY <2>1 DEF SupplyKept, GrantedIds
<1>2. CASE p = HouseholdPatron
  BY <1>2 DEF SeatEntitlement, Grid, Households
<1>3. CASE p # HouseholdPatron /\ p \in FixturePatrons
  BY <1>3 DEF SeatEntitlement, Grid, Fixtures, Households
<1>4. CASE p # HouseholdPatron /\ p \notin FixturePatrons
  BY <1>1, <1>4 DEF SeatEntitlement, Grid, SelfService
<1>5. QED
  BY <1>2, <1>3, <1>4

\* When no seat is free, every patron with entitlement left would have a slot
\* that no seat is spent on.
LEMMA SeatLeftOver ==
    ASSUME TypeOK, AvailabilityTruthful, ChargesKept, SupplyKept, PatronsKnown,
           SeatQuota, GovernedIdentitySupply, FlowState, AllocationCoversEntitlements,
           NEW p \in patrons, WithinSeatEntitlement(Lapsed, p)
    PROVE  FreeSeats(Lapsed) # {}
<1> SUFFICES ASSUME FreeSeats(Lapsed) = {} PROVE FALSE
  OBVIOUS
<1> DEFINE H == {h \in DOMAIN Lapsed : Lapsed[h].state = "held"}
           T == DOMAIN tickets
           ho == [h \in H |-> Lapsed[h].patron]
           to == [t \in T |-> tickets[t].patron]
           e == [q \in patrons |-> IF q = p THEN SeatEntitlement(q) - 1 ELSE SeatEntitlement(q)]
           last == <<p, SeatEntitlement(p)>>
<1>1. /\ LapseKeepsRows /\ Len(holds) \in Nat
      /\ T = 1..Len(tickets) /\ Len(tickets) \in Nat /\ SeatsAllocated \in Nat
  BY LapsedRows, LenProperties, SettingsAssumption DEF TypeOK
<1>2. IsFiniteSet(H) /\ Cardinality(H) \in Nat
  BY <1>1, RowSetsFinite DEF LapseKeepsRows
<1>3. IsFiniteSet(T) /\ Cardinality(T) = Len(tickets)
  BY <1>1, IntervalCount
<1>4. Cardinality(H) + Cardinality(T) = SeatsAllocated
  <2>1. SeatsAllocated - Cardinality(H) - Len(tickets) = 0
    BY FS_EmptySet DEF AvailabilityTruthful, SeatsAvailable
  <2> HIDE DEF H, T
  <2>2. QED
    BY <1>1, <1>2, <1>3, <2>1
<1>5. ho \in [H -> patrons] /\ to \in [T -> patrons]
  BY <1>1 DEF PatronsKnown, LapseKeepsRows
<1>6. ASSUME NEW q \in patrons
      PROVE  /\ e[q] \in Nat
             /\ Cardinality({h \in H : ho[h] = q}) + Cardinality({t \in T : to[t] = q}) <= e[q]
  <2> DEFINE held == Cardinality(HoldsOf(Lapsed, q, "held"))
             sold == Cardinality(TicketsOf(q))
  <2>1. /\ {h \in H : ho[h] = q} = HoldsOf(Lapsed, q, "held")
        /\ {t \in T : to[t] = q} = TicketsOf(q)
    BY DEF HoldsOf, TicketsOf
  <2>2. /\ held \in Nat /\ sold \in Nat /\ SeatEntitlement(q) \in Nat
        /\ SeatsCharged(Lapsed, q) \in Int /\ held + sold <= SeatsCharged(Lapsed, q)
    BY ClaimsAreCharged, EntitlementType
  <2>3. e[q] \in Nat /\ held + sold <= e[q]
    <3>1. CASE q = p
      <4>1. SeatsCharged(Lapsed, q) < SeatEntitlement(q)
        BY <3>1 DEF WithinSeatEntitlement
      <4>2. e[q] = SeatEntitlement(q) - 1
        BY <3>1
      <4> HIDE DEF held, sold, e
      <4>3. QED
        BY <2>2, <4>1, <4>2
    <3>2. CASE q # p
      <4>1. SeatsCharged(holds, q) <= SeatEntitlement(q)
        BY DEF ChargesKept, TypeOK
      <4>2. SeatsCharged(Lapsed, q) <= SeatsCharged(holds, q) /\ SeatsCharged(holds, q) \in Int
        BY LapseCharges
      <4>3. e[q] = SeatEntitlement(q)
        BY <3>2
      <4> HIDE DEF held, sold, e
      <4>4. QED
        BY <2>2, <4>1, <4>2, <4>3
    <3>3. QED
      BY <3>1, <3>2
  <2>4. QED
    BY <2>1, <2>3
<1>7. e \in [patrons -> Nat]
  BY <1>6
<1>8. SeatEntitlement(p) \in Nat /\ SeatEntitlement(p) >= 1
  <2>1. e[p] \in Nat /\ e[p] = SeatEntitlement(p) - 1
    BY <1>6
  <2> HIDE DEF e
  <2>2. QED
    BY <2>1, EntitlementType
<1>9. last \in Grid
  BY <1>8, SlotsInGrid
<1>10. SeatSlots(patrons, e) \in SUBSET (Grid \ {last})
  <2>1. ASSUME NEW q \in patrons, NEW k \in 1..e[q]
        PROVE  <<q, k>> \in Grid \ {last}
    <3>1. e[q] \in Nat /\ SeatEntitlement(q) \in Nat
      BY <1>6, EntitlementType
    <3>2. k \in 1..SeatEntitlement(q) /\ <<q, k>> # last
      BY <2>1, <3>1
    <3>3. QED
      BY <3>2, SlotsInGrid
  <2> HIDE DEF last, e
  <2>2. QED
    BY <2>1 DEF SeatSlots
<1>11. IsFiniteSet(Grid) /\ Cardinality(Grid) <= SeatsAllocated /\ Cardinality(Grid) \in Nat
  BY GridWithinAllocation, FS_CardinalityType
<1> HIDE DEF last, e, H, T, ho, to
<1>12. IsFiniteSet(Grid \ {last}) /\ Cardinality(Grid \ {last}) = Cardinality(Grid) - 1
  BY <1>9, <1>11, FS_RemoveElement
<1>13. /\ IsFiniteSet(SeatSlots(patrons, e)) /\ Cardinality(SeatSlots(patrons, e)) \in Nat
       /\ Cardinality(SeatSlots(patrons, e)) <= Cardinality(Grid \ {last})
  BY <1>10, <1>12, FS_Subset, FS_CardinalityType
<1>14. \A q \in patrons :
          Cardinality(OwnedBy(H, ho, q)) + Cardinality(OwnedBy(T, to, q)) <= e[q]
  BY <1>6 DEF OwnedBy
<1>15. Cardinality(H) + Cardinality(T) <= Cardinality(SeatSlots(patrons, e))
  <2>1. PICK P : P = patrons
    OBVIOUS
  <2>2. /\ IsFiniteSet(H) /\ IsFiniteSet(T) /\ ho \in [H -> P] /\ to \in [T -> P]
    BY <1>2, <1>3, <1>5, <2>1
  <2>3. e \in [P -> Nat]
    BY <1>7, <2>1
  <2>4. IsFiniteSet(SeatSlots(P, e))
    BY <1>13, <2>1
  <2>5. ASSUME NEW q \in P
        PROVE  Cardinality(OwnedBy(H, ho, q)) + Cardinality(OwnedBy(T, to, q)) <= e[q]
    <3>1. q \in patrons
      BY <2>1
    <3>2. QED
      BY <1>14, <3>1
  <2>6. Cardinality(H) + Cardinality(T) <= Cardinality(SeatSlots(P, e))
    BY <2>2, <2>3, <2>4, <2>5, RowsWithinSlots
  <2>7. QED
    BY <2>1, <2>6
<1>16. QED
  BY <1>1, <1>4, <1>11, <1>12, <1>13, <1>15

\* What the secure policy is for: however the other patrons hold, abandon, buy
\* or register, a patron with entitlement left is granted the next seat it asks
\* for, as long as the allocation covers every entitlement (place_hold of
\* flow.py under the three strategies together).
THEOREM NobodyIsCrowdedOut == Spec => []NobodyCrowdedOut
<1>1. TypeOK /\ AvailabilityTruthful /\ ChargesKept /\ SupplyKept /\ PatronsKnown
        => NobodyCrowdedOut
  BY SeatLeftOver DEF NobodyCrowdedOut, HoldAdmitted
<1>2. QED
  BY <1>1, TypeCorrect, AvailabilityIsTruthful, QuotaAlwaysKept, SupplyAlwaysKept,
     PatronsAlwaysKnown, PTL
==============================================================================
