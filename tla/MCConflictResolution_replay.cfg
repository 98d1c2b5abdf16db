\* One answer is submitted twice; a process may die in between.
SPECIFICATION Spec
CONSTANTS
    alice = alice
    bob = bob
    k1 = k1
    k2 = k2
    tax = tax
    wages = wages
    NoCall = NoCall
    NoKey = NoKey
    Clients <- MCClients
    Keys <- MCKeys
    Conflicts <- MCConflicts
    MaxTries = 2
    MaxCalls = 2
    MaxEdits = 0
    MaxCrashes = 1
INVARIANT
    PendingIsQueued
CHECK_DEADLOCK FALSE
