SPECIFICATION FairSpec
CONSTANTS
    Processes = {p1, p2}
    Runs = {r1, r2}
    MaxConcurrent = 1
    MaxFaults = 2
    NoOne = NoOne
INVARIANTS
    ConcurrencyLimit
    SubmittedOnce
PROPERTIES
    LeadershipRecovers
    ExecutedUnlessCancelled
