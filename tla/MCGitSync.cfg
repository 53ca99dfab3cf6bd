SPECIFICATION FairSpec
CONSTANTS
    f1 = f1
    f2 = f2
    b1 = b1
    b2 = b2
    b3 = b3
    Files = {f1, f2}
    Blobs = {b1, b2, b3}
    TooLarge = {b2}
    Absent = Absent
    NoCommit = NoCommit
    Unmapped = Unmapped
    NoRun = NoRun
    MaxCommits = 3
    MaxTroubles = 1
    Mappings <- MCMappings
    Rank <- MCRank
    Holds <- MCHolds
    Needs <- MCNeeds
    Flawed <- MCFlawed
INVARIANTS NothingForgotten
PROPERTIES SuccessUnlessAdrift ConvergesUnlessAdrift
