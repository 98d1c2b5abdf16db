\* Two processes; a lock left by a crash is never broken.
SPECIFICATION Spec
CONSTANTS
    r1 = r1
    r2 = r2
    a = a
    b = b
    Absent = Absent
    Writers = {w1, w2}
    Records <- MCRecords
    Values <- MCValues
    Legacy <- MCLegacy
    Batches <- MCBatches
    Aging = "never"
    MaxDepth = 3
    MaxCrashes = 2
INVARIANTS
    SingleWriter
    AckedInHistory
PROPERTY
    AtomicPublication
CHECK_DEADLOCK FALSE
