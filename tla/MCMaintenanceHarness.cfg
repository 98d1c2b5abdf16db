\* Catalog and model plans while others publish three times.
SPECIFICATION Spec
CONSTANTS
    d1 = d1
    d2 = d2
    d3 = d3
    s1 = s1
    s2 = s2
    k1 = k1
    work = work
    answer = answer
    Project = Project
    Sections = {d1, d2, d3}
    Sources = {s1, s2}
    Conflicts = {k1}
    CatalogOf <- MCCatalogOf
    Packets <- MCPackets
    Setups <- MCSetups
    MaxSections = 2
    MaxCreated = 2
    MaxOps = 1
    MaxTries = 3
    MaxLeases = 2
    OpenAfter = 2
    NoPacket = NoPacket
    None = None
PROPERTIES
    CommittedPlanStillHolds
    GivenUpOnlyByInterference
CHECK_DEADLOCK FALSE
