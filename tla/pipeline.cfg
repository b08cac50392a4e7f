CONSTANTS
    FixturePatrons = {hugo}
    HouseholdPatron = hugo
    EligibilityRefs = {ref1}
    Null = Null
    SeatsAllocated = 2
    SeatQuotaDefault = 1
    HouseholdEntitlement = 1
    HoldTTL = 1
    ReholdAllowance = 0
    RegistrationCap = 1
    TokenTTL = 1
    Policies <- EveryControl
    MaxTime = 1
    MaxHolds = 3
    MaxSelfService = 3
    Sources = {}
    Unlabelled = unlabelled
    Limit = 1
    Window = 1
    Credentials = {hugo, 1}
    Presented = {1}
    MaxRequests = 3
SPECIFICATION PipelineSpec
INVARIANTS
    PipelineTypeOK
    OneEventPerRefusal
    RepliesMatchRows
    OneTokenOneRequest
