---------------------------- MODULE MCProjectServer ----------------------------
(* Three uploads of two principals, quotas that do not hold them all; four   *)
(* connections for two places, one of them of a writer.                      *)
EXTENDS ProjectServer, TLC

CONSTANTS u1, u2, u3, c1, c2, c3, c4, ann, ben

MCOwnerOf == u1 :> ann @@ u2 :> ann @@ u3 :> ben
MCSizeOf  == u1 :> 2 @@ u2 :> 1 @@ u3 :> 1
MCPrincipalOf == c1 :> ann @@ c2 :> ann @@ c3 :> ben @@ c4 :> ben
MCWorkloads ==
    {[sessions |-> {c1, c2, c3}, uploads |-> {}, removals |-> 0, deaths |-> 0],
     [sessions |-> {}, uploads |-> {u1, u2}, removals |-> 1, deaths |-> 0],
     [sessions |-> {}, uploads |-> {u2, u3}, removals |-> 1, deaths |-> 0],
     [sessions |-> {c4}, uploads |-> {u1}, removals |-> 0, deaths |-> 1]}
=============================================================================
