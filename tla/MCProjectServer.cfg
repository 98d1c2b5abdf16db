\* Uploads and sessions while calls wait; expiry, failed removals, a restart.
SPECIFICATION FairSpec
CONSTANTS
    u1 = u1
    u2 = u2
    u3 = u3
    c1 = c1
    c2 = c2
    c3 = c3
    c4 = c4
    ann = ann
    ben = ben
    Callers = {1, 2}
    Uploads = {u1, u2, u3}
    OwnerOf <- MCOwnerOf
    SizeOf <- MCSizeOf
    PerPrincipalCount = 1
    PerPrincipalBytes = 2
    TotalCount = 2
    TotalBytes = 2
    Pids = {7, 8}
    NoUpload = NoUpload
    Connections = {c1, c2, c3, c4}
    PrincipalOf <- MCPrincipalOf
    MaxSessions = 2
    MaxPrincipalSessions = 1
    Writers = {c4}
    Workloads <- MCWorkloads
INVARIANTS
    UsageWithinQuota
    PublishedOnce
    SessionsHoldPlaces
PROPERTIES
    EverythingIsReleased
CHECK_DEADLOCK FALSE
