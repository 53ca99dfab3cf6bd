SPECIFICATION Spec
CONSTANTS
    r1 = r1
    r2 = r2
    t1 = t1
    t2 = t2
    k1 = k1
    Executors = {e1, e2}
    Reapers = {p1}
    Runs = {r1, r2}
    Targets = {t1}
    TargetOf <- TwoTargetOf
    Keys = {k1}
    LockKey <- OneKey
    ReapGrace = 1
    MaxFaults = 2
    NoOne = NoOne
SYMMETRY ExecutorSymmetry
INVARIANTS
    HeldMeansRunning
    AtMostOneLateCommit
PROPERTY Implements
CHECK_DEADLOCK FALSE
