SPECIFICATION FairSpec
CONSTANTS
    r1 = r1
    r2 = r2
    t1 = t1
    t2 = t2
    k1 = k1
    Executors = {e1}
    Reapers = {p1}
    Runs = {r1, r2}
    Targets = {t1, t2}
    TargetOf <- OneRunEach
    Keys = {k1}
    LockKey <- SharedKey
    ReapGrace = 0
    MaxFaults = 2
    NoOne = NoOne
PROPERTY
    QueuedRunsClose
CHECK_DEADLOCK FALSE
