------------------------- MODULE MCMaintenanceQueue -------------------------
(* Small instances of MaintenanceQueue: a packet of alice, one of hers that *)
(* is a row of an older release, and one of bob in the same project.  There *)
(* is room for one row of a principal, and for bob's packet only when the   *)
(* old row is gone.                                                         *)
EXTENDS MaintenanceQueue, TLC

CONSTANTS fresh, old, large, alice, bob, project, w1, w2

MCWorkers     == {w1, w2}

MCPackets     == {fresh, old, large}
MCOldRows     == {old}
MCPrincipalOf == [p \in MCPackets |-> IF p = large THEN bob ELSE alice]
MCProjectOf   == [p \in MCPackets |-> project]
MCBytesOf     == fresh :> 1 @@ old :> 2 @@ large :> 3
MCLimits      == [totalJobs |-> 3, totalBytes |-> 4, principalJobs |-> 1,
                  principalBytes |-> 3, projectJobs |-> 2, projectBytes |-> 4]
=============================================================================
