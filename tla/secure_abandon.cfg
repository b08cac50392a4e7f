\* The secure policy, nobody registering, and enough time and holds for ann and
\* the household to hold, abandon and hold again past the re-hold allowance.
CONSTANTS
    FixturePatrons = {ann, hugo}
    HouseholdPatron = hugo
    EligibilityRefs = {ref1}
    Null = Null
    SeatsAllocated = 3
    SeatQuotaDefault = 1
    HouseholdEntitlement = 2
    HoldTTL = 1
    ReholdAllowance = 1
    RegistrationCap = 0
    TokenTTL = 9
    Policies <- SecureFlow
    MaxTime = 2
    MaxHolds = 5
    MaxSelfService = 1
SPECIFICATION Spec
INVARIANTS
    WithinEntitlement
    ReholdBounded
    NobodyCrowdedOut
    AvailabilityTruthful
