\* The documented settings but for the seats, of which the script never needs all,
\* and the hold window; delays within it, up to it, and past every token.
CONSTANTS
    p001 = p001
    p002 = p002
    p003 = p003
    p004 = p004
    p005 = p005
    p010 = p010
    ref1 = ref1
    ref2 = ref2
    ref3 = ref3
    ref4 = ref4
    PATRON_001 = p001
    PATRON_002 = p002
    PATRON_003 = p003
    PATRON_004 = p004
    PATRON_005 = p005
    PATRON_010 = p010
    ELIGIBILITY_REFS <- References
    FixturePatrons = {p001, p002, p003, p004, p005, p010, hugo}
    HouseholdPatron = hugo
    EligibilityRefs = {ref1, ref2, ref3, ref4}
    Null = Null
    SeatsAllocated = 20
    SeatQuotaDefault = 2
    HouseholdEntitlement = 4
    HoldTTL = 3
    ReholdAllowance = 1
    RegistrationCap = 3
    TokenTTL = 16
    Policies <- EveryFlowLimit
    MaxTime = 60
    MaxHolds = 24
    MaxSelfService = 7
    Delays = {1, 2, 3, 16}
    MaxDelays = 1
SPECIFICATION WalkSpec
INVARIANTS
    WalkTypeOK
    SecurePasses
    PassesOnlySecure
PROPERTIES
    WalkthroughEnds
