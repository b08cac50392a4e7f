CONSTANTS
    ann = ann
    bob = bob
    ref1 = ref1
    ref2 = ref2
    srcA = srcA
    srcB = srcB
    FixturePatrons = {ann, bob, hugo}
    HouseholdPatron = hugo
    EligibilityRefs = {ref1, ref2}
    Null = Null
    SeatsAllocated = 4
    SeatQuotaDefault = 1
    HouseholdEntitlement = 1
    HoldTTL = 3
    ReholdAllowance = 1
    RegistrationCap = 1
    TokenTTL = 15
    Policies <- POLICIES
    MaxTime = 50
    MaxHolds = 10
    MaxSelfService = 4
    Candidates <- Presented
    GenuinePatrons <- PublicPatrons
    SourceLabels <- OperatorLabels
    Limit = 2
    Window = 2
    Targets <- EveryRow
    MaxIdle = 2
    Concurrency = 2
    Pace = 1
SPECIFICATION HarnessSpec
INVARIANTS
    HarnessTypeOK
    RecordsMatchVenue
    LedgerReconciles
    HoldsSettled
    SecureVerdict
    CountsAsSequential
    PacedIsNeverRefused
    VulnerableRowsDrain
    ControlsHeldPerfectly
    NotesTruthful
PROPERTIES
    HarnessEnds
