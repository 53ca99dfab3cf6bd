CONSTANTS
    Writers = {w1, w2}
    NoWriter = NoWriter
    Genesis = 0
    Archived = 100
    MaxId = 4
    MaxDamage = 2
    SliceRows = 2
    ChunkRows = 1
SPECIFICATION Spec
INVARIANT OneChain NoFalseAlarm DamageFound
PROPERTY ImplementsLedger
CHECK_DEADLOCK FALSE
