SPECIFICATION Spec
CONSTANTS
    Executors = {1, 2}
    Objects = {1, 2}
    Keys = {"p", "l", "d"}
    Bucket <- OneBucket
    Kind <- OneOfEach
    Findings <- TwoFindings
    Exports <- SomeExports
    Bodies <- SomeBodies
    Holders = {"git"}
    MaxAttempts = 1
    AttemptBound = 2
    FaultBound = 1
    KeyBound = 1
    Forgeable = {1}
    Null = Null
    Bare = Bare
    Large = Large
    Malformed = Malformed
INVARIANTS NoFalseAlarm ForgeryFound SuccessIsComplete
PROPERTIES RecordsStand
CHECK_DEADLOCK FALSE
