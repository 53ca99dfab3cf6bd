SPECIFICATION FairSpec
CONSTANTS
    Processes = {p1}
    Runs = {r1, r2}
    MaxConcurrent = 1
    MaxFaults = 1
    NoOne = NoOne
PROPERTY QueuedRunsExecuted
