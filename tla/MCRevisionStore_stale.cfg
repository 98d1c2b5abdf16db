\* Two processes break the lock of a dead one: only an abandoned lock grows old.
SPECIFICATION Spec
CONSTANTS
    r1 = r1
    r2 = r2
    a = a
    b = b
    Absent = Absent
    Writers = {w1, w2}
    Records <- MCRecords
    Values <- MCValues
    Legacy <- MCLegacy
    Batches <- MCBatches
    Aging = "abandoned"
    MaxDepth = 1
    MaxCrashes = 1
PROPERTY
    CompareAndSwap
CHECK_DEADLOCK FALSE
