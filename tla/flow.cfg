\* Each policy, with a patron of each kind, more references than the cap grants
\* and room for more self-service patrons than the cap. The household alone may
\* claim both seats, so everybody else depends on its holds lapsing.
CONSTANTS
    FixturePatrons = {hugo}
    HouseholdPatron = hugo
    EligibilityRefs = {ref1, ref2}
    Null = Null
    SeatsAllocated = 2
    SeatQuotaDefault = 1
    HouseholdEntitlement = 2
    HoldTTL = 1
    ReholdAllowance = 1
    RegistrationCap = 1
    TokenTTL = 9
    Policies <- EveryFlow
    MaxTime = 1
    MaxHolds = 3
    MaxSelfService = 2
SPECIFICATION Spec
INVARIANTS
    TypeOK
    SeatExclusive
    FlowConsistent
    IdentitySupply
    OperatorWithinCeiling
PROPERTIES
    ResolvedIsFinal
    SoldInTime
    ImplementsAllocation
SYMMETRY RefSymmetry
