SPECIFICATION Spec
CONSTANTS
    None = None
    Unknown = Unknown
    Absent = Absent
    Nothing = Nothing
    NoOne = NoOne
    Off = Off
    Bad = Bad
    Done = Done
    Given = Given
    c1 = c1
    c2 = c2
    t1 = t1
    p1 = p1
    e1 = e1
    dangling = dangling
    plain = plain
    other = other
    NoId = NoId
    Omitted = Omitted
    Empty = Empty
    TooLong = TooLong
    Unstorable = Unstorable
    Malformed = Malformed
    NoRow = NoRow
    Unread = Unread
    source1 = source1
    source2 = source2
    Bare = Bare
    Store = Store
    OtherId = OtherId
    NoIndex = NoIndex
    open = open
    closed = closed
    scan1 = scan1
    b1 = b1
    b2 = b2
    Link = Link
    i1 = i1
    i2 = i2
    i3 = i3
    NoRun = NoRun
    NoWalk = NoWalk
    m = m
    adm = adm
    NoSession = NoSession
    Null = Null
INVARIANTS
    DatasetsAreImported
    FindingsAreHeld
    TranscriptsAreWhole
    ImportsMove
    LogsAreFaithful
    SourcesAreExact
    ChangesAreRecorded
PROPERTIES
    LogsAreKept
CHECK_DEADLOCK FALSE
