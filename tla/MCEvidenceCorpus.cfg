\* Ingestion, extraction and corpus builds interleaved; edits, failures, crashes.
SPECIFICATION FairSpec
CONSTANTS
    caller = caller
    indexer = indexer
    scan = scan
    other = other
    memory = memory
    quote = quote
    NoFile = NoFile
    NoCall = NoCall
    Callers = {caller, indexer}
    Indexer = indexer
    Paths <- MCPaths
    Contents = {scan, other}
    Markdown = {"b.md"}
    Scans = {scan}
    OCR = TRUE
    Evidence = {quote}
    BehindOf <- MCBehindOf
    Derived = {memory}
    RefsOf <- MCRefsOf
    Workloads <- MCWorkloads
INVARIANTS
    CascadeDone
    OutputIsThere
    CorpusIsCurrent
PROPERTIES
    StaleStaysStale
    TextKept
    NormalizedInTheEnd
CHECK_DEADLOCK FALSE
