\* Two maintainers; another process runs between the two statements of fail().
SPECIFICATION Spec
CONSTANTS
    fresh = fresh
    old = old
    large = large
    alice = alice
    bob = bob
    project = project
    NoOwner = NoOwner
    NoPacket = NoPacket
    w1 = w1
    w2 = w2
    Workers <- MCWorkers
    Packets <- MCPackets
    OldRows <- MCOldRows
    PrincipalOf <- MCPrincipalOf
    ProjectOf <- MCProjectOf
    BytesOf <- MCBytesOf
    Limits <- MCLimits
    MaxAttempts = 2
    Stall = TRUE
    MaxLapses = 1
    MaxCrashes = 0
    MaxInserts = 2
PROPERTY
    FailsOwnJob
