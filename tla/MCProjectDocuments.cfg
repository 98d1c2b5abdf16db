\* Two callers whose calls overlap, evidence that changes, a failure.
SPECIFICATION Spec
CONSTANTS
    c1 = c1
    c2 = c2
    w = w
    h1 = h1
    h2 = h2
    ctx = ctx
    talk = talk
    report = report
    NoHash = NoHash
    NoCall = NoCall
    Callers <- MCCallers
    Works = {w}
    Refs = {"slide", "paper", "order"}
    SourceOf <- MCSourceOf
    Directives = {"order"}
    Bundles <- MCBundles
    NewScope = "part"
    Hashes = {h1, h2}
    Checkpoints = {ctx, talk}
    BundleOf <- MCBundleOf
    Artifacts = {report}
    Project = "project"
    Sections = {"intro", "data"}
    Versions = {"v1", "v2"}
    Proposals = {"p"}
    MaxSubmitted = 2
    Outcomes = {"completed", "blocked"}
    Workloads <- MCWorkloads
INVARIANTS
    VouchedAgree
    ListedWasJudged
    SequentialIsExact
PROPERTIES
    AcceptedOnEligible
    CloseoutLostOnlyByOverlap
    OverwrittenOnlyByOverlap
SYMMETRY MCSymmetry
CHECK_DEADLOCK FALSE
