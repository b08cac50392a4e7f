\* The per-account-quota policy: strategy A alone.
CONSTANTS
    FixturePatrons = {ann, hugo}
    HouseholdPatron = hugo
    EligibilityRefs = {ref1}
    Null = Null
    SeatsAllocated = 3
    SeatQuotaDefault = 1
    HouseholdEntitlement = 2
    HoldTTL = 1
    ReholdAllowance = 1
    RegistrationCap = 1
    TokenTTL = 9
    Policies <- QuotaFlow
    MaxTime = 2
    MaxHolds = 3
    MaxSelfService = 1
SPECIFICATION Spec
INVARIANTS
    WithinEntitlement
