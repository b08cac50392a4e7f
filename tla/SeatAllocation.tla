---------------------------- MODULE SeatAllocation ----------------------------
(***************************************************************************)
(* What the venue promises, without tables, clocks or requests: a seat is  *)
(* free, held by one patron, or sold to one patron for good.  Only a held  *)
(* seat is sold, any number of held seats may lapse together with whatever *)
(* else happens, and, where the policy bounds it, a patron never takes     *)
(* another seat once it has as many as it is entitled to.                  *)
(***************************************************************************)
EXTENDS Naturals, FiniteSets

CONSTANTS
    Seats,
    Patrons,
    Entitlement    \* seats each patron may hold or own: [Patrons -> Nat]

VARIABLES
    terms,         \* whether the entitlement bounds a patron, and whether only
                   \* the patron that holds a seat can buy it
    claim          \* who has each seat, and how firmly

Free == [kind |-> "free"]
Held(p) == [kind |-> "held", by |-> p]
Sold(p) == [kind |-> "sold", by |-> p]

HeldSeats == {s \in Seats : claim[s].kind = "held"}
AfterLapse(L) == [s \in Seats |-> IF s \in L THEN Free ELSE claim[s]]
SeatsOf(c, p) == {s \in Seats : c[s] \in {Held(p), Sold(p)}}

AllocationInit ==
    /\ terms \in [bounded : BOOLEAN, holder_buys : BOOLEAN]
    /\ claim = [s \in Seats |-> Free]

Lapse(L) == claim' = AfterLapse(L)

Hold(p, L) ==
    /\ terms.bounded => Cardinality(SeatsOf(AfterLapse(L), p)) < Entitlement[p]
    /\ \E s \in Seats :
          /\ AfterLapse(L)[s] = Free
          /\ claim' = [AfterLapse(L) EXCEPT ![s] = Held(p)]

Buy(p, L) ==
    \E s \in HeldSeats \ L :
        /\ terms.holder_buys => claim[s] = Held(p)
        /\ claim' = [AfterLapse(L) EXCEPT ![s] = Sold(p)]

AllocationNext ==
    /\ UNCHANGED terms
    /\ \E L \in SUBSET HeldSeats :
          Lapse(L) \/ \E p \in Patrons : Hold(p, L) \/ Buy(p, L)

AllocationSpec == AllocationInit /\ [][AllocationNext]_<<terms, claim>>
==============================================================================
