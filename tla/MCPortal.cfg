SPECIFICATION Spec
CONSTANTS
    None = None
    Null = Null
    Never = Never
    Off = Off
    Idle = Idle
    Resting = Resting
    Unbounded = Unbounded
    NoSweep = NoSweep
    client = client
    reviewer = reviewer
    adm1 = adm1
    adm2 = adm2
    secret1 = secret1
    someAction = someAction
    caller1 = caller1
    caller2 = caller2
    k1 = k1
    t1 = t1
    t2 = t2
    p1 = p1
INVARIANTS
    BudgetsHold
    ProbeTells
    StatusIsOutcome
    JourneyIsTrue
    RolloutIsSafe
    FiresAreRun
    WalksAreWhole
PROPERTIES
    MembersStand
    CredentialsStand
CHECK_DEADLOCK FALSE
