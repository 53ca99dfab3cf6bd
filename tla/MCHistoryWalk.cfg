SPECIFICATION WalkSpec
CONSTANTS
    SessionIds <- MCSessionIds
    Restored <- MCRestored
    Slice = 1
    MaxVersions = 2
    MaxChanges = 2
INVARIANTS
    EveryVersionFetched
CHECK_DEADLOCK FALSE
