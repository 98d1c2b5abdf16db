\* Searches with their cursors, the indexer, another revision, failures, restarts.
SPECIFICATION FairSpec
CONSTANTS
    ann = ann
    ben = ben
    Clients = {ann, ben}
    Corpus <- MCCorpus
    Requests <- MCRequests
    Order <- MCOrder
    NoRevision = NoRevision
    BatchSize = 2
    MaxPerSource = 1
    MaxSnapshots = 1
    MaxPages = 2
    MaxRankings = 2
    Workloads <- MCWorkloads
INVARIANTS
    CollectedOnce
    VectorsCount
PROPERTIES
    EmbeddedInTheEnd
CHECK_DEADLOCK FALSE
