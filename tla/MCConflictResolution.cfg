\* Two resolvers, another publisher, a crash, and a queue that may be full.
SPECIFICATION Spec
CONSTANTS
    alice = alice
    bob = bob
    k1 = k1
    k2 = k2
    tax = tax
    wages = wages
    NoCall = NoCall
    NoKey = NoKey
    Clients <- MCClients
    Keys <- MCKeys
    Conflicts <- MCConflicts
    MaxTries = 2
    MaxCalls = 3
    MaxEdits = 1
    MaxCrashes = 1
INVARIANTS
    OneLockPerConflict
    CompletedIsApplied
PROPERTIES
    OnlyTheAnswerApplies
    AnswersAreAtomic
SYMMETRY MCSymmetry
CHECK_DEADLOCK FALSE
