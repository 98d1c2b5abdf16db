\* Two maintainers, fair, whose jobs may be slow and who may crash, but only so
\* often; fail() is not interrupted.
SPECIFICATION FairSpec
CONSTANTS
    fresh = fresh
    old = old
    large = large
    alice = alice
    bob = bob
    project = project
    NoOwner = NoOwner
    NoPacket = NoPacket
    w1 = w1
    w2 = w2
    Workers <- MCWorkers
    Packets <- MCPackets
    OldRows <- MCOldRows
    PrincipalOf <- MCPrincipalOf
    ProjectOf <- MCProjectOf
    BytesOf <- MCBytesOf
    Limits <- MCLimits
    MaxAttempts = 2
    Stall = FALSE
    MaxLapses = 1
    MaxCrashes = 1
    MaxInserts = 2
INVARIANTS
    TypeOK
    JobsWithinLimits
    BytesWithinLimits
    RetriesBounded
    OneWorkerPerJob
PROPERTIES
    ActiveRetained
    SettledStays
    EveryJobSettles
