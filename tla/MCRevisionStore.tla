--------------------------- MODULE MCRevisionStore ---------------------------
(* Small instances of RevisionStore: one record imported from the legacy    *)
(* tree, one that is new, and two batches that touch different records.     *)
EXTENDS RevisionStore

CONSTANTS r1, r2, a, b

MCRecords == {r1, r2}
MCValues  == {a, b}
MCLegacy  == [r \in MCRecords |-> IF r = r1 THEN a ELSE Absent]
MCBatches == {[r \in {r1} |-> b], [r \in MCRecords |-> b]}
=============================================================================
