--------------------------- MODULE MCEvidenceCorpus ---------------------------
(* A caller and the indexer; two files, a scan and a note, whose contents    *)
(* are replaced; evidence of the first, and a memory that cites it.          *)
EXTENDS EvidenceCorpus, TLC

CONSTANTS caller, indexer, scan, other, memory, quote

MCPaths    == <<"a.pdf", "b.md">>
MCBehindOf == quote :> scan
MCRefsOf   == memory :> {quote}
MCWorkloads ==
    {[callers |-> Callers, ops |-> {"ingest", "parse", "normalize"}, calls |-> 3,
      edits |-> 0, failures |-> 0, builds |-> 0, backfill |-> FALSE],
     [callers |-> Callers, ops |-> {"ingest", "parse"}, calls |-> 3,
      edits |-> 1, failures |-> 0, builds |-> 0, backfill |-> FALSE],
     [callers |-> {caller}, ops |-> {"ingest", "parse"}, calls |-> 3,
      edits |-> 3, failures |-> 0, builds |-> 0, backfill |-> FALSE],
     [callers |-> Callers, ops |-> {"ingest", "normalize"}, calls |-> 2,
      edits |-> 0, failures |-> 1, builds |-> 2, backfill |-> FALSE],
     [callers |-> Callers, ops |-> {"ingest", "retry", "parse"}, calls |-> 3,
      edits |-> 0, failures |-> 1, builds |-> 0, backfill |-> FALSE],
     [callers |-> Callers, ops |-> {"ingest", "normalize"}, calls |-> 2,
      edits |-> 0, failures |-> 1, builds |-> 0, backfill |-> TRUE],
     [callers |-> Callers, ops |-> {"ingest"}, calls |-> 2,
      edits |-> 1, failures |-> 0, builds |-> 0, backfill |-> TRUE],
     [callers |-> Callers, ops |-> {"ingest"}, calls |-> 2,
      edits |-> 1, failures |-> 1, builds |-> 1, backfill |-> FALSE]}
=============================================================================
