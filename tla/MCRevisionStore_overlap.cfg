\* Two processes that may overlap: any lock may grow old and be broken.
SPECIFICATION FairSpec
CONSTANTS
    r1 = r1
    r2 = r2
    a = a
    b = b
    Absent = Absent
    Writers = {w1, w2}
    Records <- MCRecords
    Values <- MCValues
    Legacy <- MCLegacy
    Batches <- MCBatches
    Aging = "any"
    MaxDepth = 1
    MaxCrashes = 2
INVARIANTS
    TypeOK
    SnapshotsReplayHistory
PROPERTIES
    CommittedImmutable
    LockRecovered
CHECK_DEADLOCK FALSE
