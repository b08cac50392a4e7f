------------------------- MODULE BookingFlowAllocation -------------------------
(***************************************************************************)
(* The booking flow implements the seat allocation.  The mapping reads a   *)
(* seat's owner off the tickets and holds tables; an overdue hold that no  *)
(* transaction has lapsed yet still owns its seat.                         *)
(***************************************************************************)
EXTENDS BookingFlow

AllPatrons == FixturePatrons \cup 1..MaxSelfService

SeatClaim(s) ==
    IF TicketsOn(s) # {}
    THEN [kind |-> "sold", by |-> tickets[CHOOSE t \in TicketsOn(s) : TRUE].patron]
    ELSE IF HoldsOn(holds, s, "held") # {}
    THEN [kind |-> "held", by |-> holds[CHOOSE h \in HoldsOn(holds, s, "held") : TRUE].patron]
    ELSE [kind |-> "free"]

Allocation == INSTANCE SeatAllocation WITH
    Patrons <- AllPatrons,
    Entitlement <- [p \in AllPatrons |-> SeatEntitlement(p)],
    terms <- [bounded |-> SeatQuota /\ FlowState, holder_buys |-> FlowState],
    claim <- [s \in Seats |-> SeatClaim(s)]

\* Every committed transaction is a step the allocation allows or none at all:
\* seats are only taken free, only sold when held, only lapse unsold, and under
\* the policy's own switches only within the entitlement and by their holder.
ImplementsAllocation == Allocation!AllocationSpec
==============================================================================
