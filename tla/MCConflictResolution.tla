------------------------ MODULE MCConflictResolution ------------------------
(* Small instances of ConflictResolution: two resolvers, two conflicts.    *)
EXTENDS ConflictResolution, TLC

CONSTANTS alice, bob, k1, k2, tax, wages

MCClients   == {alice, bob}
MCKeys      == {k1, k2}
MCConflicts == {tax, wages}

MCSymmetry == Permutations(MCClients) \cup Permutations(MCKeys)
              \cup Permutations(MCConflicts)
=============================================================================
