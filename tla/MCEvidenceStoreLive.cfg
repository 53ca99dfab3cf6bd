SPECIFICATION Spec
CONSTANTS
    Executors = {1}
    Objects = {1, 2}
    Keys = {"p"}
    Bucket <- OneBucket
    Kind <- OneOfEach
    Findings <- TwoFindings
    Exports <- SomeExports
    Bodies <- SomeBodies
    Holders = {"git"}
    MaxAttempts = 1
    AttemptBound = 2
    FaultBound = 1
    KeyBound = 1
    Forgeable = {}
    Null = Null
    Bare = Bare
    Large = Large
    Malformed = Malformed

PROPERTIES EveryVersionSettles
CHECK_DEADLOCK FALSE
