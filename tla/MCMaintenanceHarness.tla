------------------------- MODULE MCMaintenanceHarness -------------------------
(* A packet with two sources, and a locked packet with a candidate section,  *)
(* in a catalog and in a model deployment, with and without Jev.              *)
EXTENDS MaintenanceHarness, TLC

CONSTANTS d1, d2, d3, s1, s2, k1, work, answer

MCCatalogOf == s1 :> d2 @@ s2 :> d3
MCPackets ==
    work   :> [evidence |-> <<s1, s2>>, docs |-> {}, locked |-> FALSE] @@
    answer :> [evidence |-> <<s1>>, docs |-> {d1}, locked |-> TRUE]
MCSetups ==
    {[mode |-> "catalog", jev |-> "off", edits |-> 3, faults |-> 1],
     [mode |-> "catalog", jev |-> "advisory", edits |-> 1, faults |-> 0],
     [mode |-> "catalog", jev |-> "shadow", edits |-> 1, faults |-> 0],
     [mode |-> "qwen", jev |-> "advisory", edits |-> 1, faults |-> 1]}
=============================================================================
