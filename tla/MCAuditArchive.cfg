CONSTANTS
    p1 = p1
    p2 = p2
    Databases <- MCDatabases
    Publishers <- MCPublishers
    Serves <- MCServes
    MaxRows = 2
    MaxRestores = 1
    MaxClock = 1
    Retired = {1}
    Names = {"n"}
SPECIFICATION Spec
INVARIANT RememberedArePublished LossFound NoFalseAlarm
CHECK_DEADLOCK FALSE
