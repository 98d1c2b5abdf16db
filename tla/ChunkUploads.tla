----------------------------- MODULE ChunkUploads -----------------------------
(***************************************************************************)
(* Chunked uploads (mcp/tools/project.ts).  A begun upload reserves its    *)
(* declared size for 30 minutes; appends and the commit take it one at a   *)
(* time (busy) and wait for the disk between its checks; every call, and a *)
(* sweeper, removes expired uploads meanwhile.  The files are in a         *)
(* directory named after the process; one of a dead process is removed.    *)
(***************************************************************************)
EXTENDS Naturals, FiniteSets

CONSTANTS
    Callers,         \* tool calls in progress
    Uploads, OwnerOf, SizeOf, \* ids, their principals and declared sizes, in chunks
    PerPrincipalCount, PerPrincipalBytes, TotalCount, TotalBytes,
    Pids, NoUpload

ASSUME UploadAssumption ==
    /\ SizeOf \in [Uploads -> Nat \ {0}] /\ NoUpload \notin Uploads
    /\ {PerPrincipalCount, PerPrincipalBytes, TotalCount, TotalBytes} \subseteq Nat
    /\ IsFiniteSet(Uploads)

VARIABLES
    chunkUploads, \* reserved id -> busy, live (not expired and not revoked), received
    files,        \* uploads with a temporary file of this process
    upc, upload,  \* per call: where it is, and its upload
    begun,        \* ids given out
    published,    \* uploads published as resources, each as often as it was
    pid, orphans, \* of this process; of the processes whose directory is left
    sweeper,      \* "off"; "preparing": the directory is being made; "on"
    removals      \* number of failed removals

process == <<pid, orphans, sweeper>>
uploadVars == <<chunkUploads, files, upc, upload, begun, published, process, removals>>

UploadsInit ==
    /\ chunkUploads = <<>> /\ files = {} /\ begun = {}
    /\ upc = [i \in Callers |-> "idle"] /\ upload = [i \in Callers |-> NoUpload]
    /\ published = [u \in Uploads |-> 0]
    /\ pid = (CHOOSE p \in Pids : TRUE) /\ orphans = {} /\ sweeper = "off"
    /\ removals = 0

Reserved == DOMAIN chunkUploads
ChunksIn(us) == UNION {{u} \X (1..SizeOf[u]) : u \in us}
Size(us) == Cardinality(ChunksIn(us))
Own(us, u) == {v \in us : OwnerOf[v] = OwnerOf[u]}
Live(u) == u \in Reserved /\ chunkUploads[u].live
Idle(i) == upc[i] = "idle"

At(i, from) == upc[i] = from
Go(i, to) == upc' = [upc EXCEPT ![i] = to]
Return(i) == Go(i, "idle") /\ upload' = [upload EXCEPT ![i] = NoUpload]
Without(us) == [u \in Reserved \ us |-> chunkUploads[u]]
Set(u, field, value) == [chunkUploads EXCEPT ![u] = [@ EXCEPT ![field] = value]]
Revoked(u) == IF u \in Reserved THEN Set(u, "live", FALSE) ELSE chunkUploads

-----------------------------------------------------------------------------
\* reserveChunkUpload: counted before anything is awaited; it starts the sweeper.
HasRoom(u) ==
    /\ Cardinality(Reserved) < TotalCount /\ Size(Reserved \cup {u}) <= TotalBytes
    /\ Cardinality(Own(Reserved, u)) < PerPrincipalCount
    /\ Size(Own(Reserved, u) \cup {u}) <= PerPrincipalBytes

Begin(i) ==
    /\ Idle(i)
    /\ \E u \in Uploads \ begun :
          /\ HasRoom(u)
          /\ begun' = begun \cup {u}
          /\ chunkUploads' = [v \in Reserved \cup {u} |->
                IF v = u THEN [busy |-> TRUE, live |-> TRUE, received |-> 0] ELSE chunkUploads[v]]
          /\ upload' = [upload EXCEPT ![i] = u]
    /\ Go(i, "create") /\ sweeper' = "on"
    /\ UNCHANGED <<files, published, pid, orphans, removals>>

\* The directory is made and the empty file written, if the upload is still live.
Create(i) ==
    /\ At(i, "create")
    /\ \/ /\ Live(upload[i])
          /\ files' = files \cup {upload[i]} /\ Go(i, "created") /\ UNCHANGED chunkUploads
       \/ Go(i, "abandon") /\ chunkUploads' = Revoked(upload[i]) /\ UNCHANGED files
    /\ UNCHANGED <<upload, begun, published, process, removals>>

Created(i) ==
    /\ At(i, "created")
    /\ IF Live(upload[i])
       THEN chunkUploads' = Set(upload[i], "busy", FALSE) /\ Return(i)
       ELSE chunkUploads' = Revoked(upload[i]) /\ Go(i, "abandon") /\ UNCHANGED upload
    /\ UNCHANGED <<files, begun, published, process, removals>>

\* acquireChunkUpload
AcquirableIfLive(u) == Live(u)
Acquirable(u) == Live(u) /\ ~chunkUploads[u].busy

Acquire(i, to) ==
    /\ Idle(i) /\ Go(i, to)
    /\ \E u \in Reserved :
          /\ Acquirable(u)
          /\ IF to = "append" THEN chunkUploads[u].received < SizeOf[u]
             ELSE chunkUploads[u].received = SizeOf[u]
          /\ chunkUploads' = Set(u, "busy", TRUE)
          /\ upload' = [upload EXCEPT ![i] = u]
    /\ UNCHANGED <<files, begun, published, process, removals>>

\* A chunk at the offset that was acknowledged is written; a chunk that is refused,
\* or a file that does not open, changes nothing of a live upload; a failed write
\* gives the whole upload up.
Append(i) ==
    LET u == upload[i]
    IN  /\ At(i, "append")
        /\ \/ /\ u \in files /\ Live(u)
              /\ chunkUploads' = [chunkUploads EXCEPT ![u].received = @ + 1, ![u].busy = FALSE]
              /\ Return(i)
           \/ Live(u) /\ chunkUploads' = Set(u, "busy", FALSE) /\ Return(i)
           \/ chunkUploads' = Revoked(u) /\ Go(i, "discard") /\ UNCHANGED upload
        /\ UNCHANGED <<files, begun, published, process, removals>>

\* The commit reads the file, and holds its bytes until it is published or refused.
Read(i) ==
    /\ At(i, "commit")
    /\ \/ upload[i] \in files /\ Live(upload[i]) /\ Go(i, "publish") /\ UNCHANGED chunkUploads
       \/ Go(i, "discard") /\ chunkUploads' = Revoked(upload[i])
    /\ UNCHANGED <<files, upload, begun, published, process, removals>>

Publish(i) ==
    /\ At(i, "publish")
    /\ \E ok \in {0, 1} : published' = [published EXCEPT ![upload[i]] = @ + ok]
    /\ Go(i, "discard") /\ chunkUploads' = Revoked(upload[i])
    /\ UNCHANGED <<files, upload, begun, process, removals>>

\* discardChunkUpload: the reservation is released when the file is removed, and
\* kept, for the sweeper, when that fails.
ReleasedAnyway(u, removed) == Without({u})
Released(u, removed) == IF removed THEN Without({u}) ELSE Revoked(u)

Discarded(u, busy) ==
    \E removed \in BOOLEAN :
        /\ removals' = IF removed THEN removals ELSE removals + 1
        /\ files' = IF removed THEN files \ {u} ELSE files
        /\ LET left == Released(u, removed)
           IN  chunkUploads' = IF u \in DOMAIN left THEN [left EXCEPT ![u].busy = busy] ELSE left

\* A failed begin leaves the upload busy; appends and commits put it down.
Discard(i) ==
    /\ upc[i] \in {"abandon", "discard"} /\ Return(i)
    /\ Discarded(upload[i], At(i, "abandon"))
    /\ UNCHANGED <<begun, published, process>>

\* cleanupChunkUploads: of an expired upload that is in use only the file is removed.
InUse(u) == chunkUploads[u].busy

Cleanup(u) ==
    /\ u \in Reserved /\ ~Live(u)
    /\ IF InUse(u)
       THEN u \in files /\ files' = files \ {u} /\ UNCHANGED <<chunkUploads, removals>>
       ELSE Discarded(u, FALSE)
    /\ UNCHANGED <<upc, upload, begun, published, process>>

Expires(u) ==
    /\ Live(u) /\ chunkUploads' = Revoked(u)
    /\ UNCHANGED <<files, upc, upload, begun, published, process, removals>>

\* prepareUploadDirectory, once until it fails: the sweeper is started with it.
StartPreparing == sweeper' = IF sweeper = "off" THEN "preparing" ELSE sweeper

PrepareDirectory ==
    /\ sweeper = "preparing" /\ sweeper' \in {"on", "off"}
    /\ UNCHANGED <<chunkUploads, files, upc, upload, begun, published, pid, orphans, removals>>

\* cleanupOrphanUploads, by the sweeper: another process's directory goes once its
\* pid is not in use.
CleanupOrphans ==
    /\ sweeper = "on" /\ orphans \ {pid} # {} /\ orphans' = orphans \cap {pid}
    /\ UNCHANGED <<chunkUploads, files, upc, upload, begun, published, pid, sweeper, removals>>

Die ==
    /\ orphans' = IF files = {} THEN orphans ELSE orphans \cup {pid}
    /\ pid' \in Pids /\ sweeper' = "off"
    /\ chunkUploads' = <<>> /\ files' = {}
    /\ upc' = [i \in Callers |-> "idle"] /\ upload' = [i \in Callers |-> NoUpload]
    /\ UNCHANGED <<begun, published, removals>>

UploadCall(i) ==
    \/ Begin(i) \/ Acquire(i, "append") \/ Acquire(i, "commit")
Uploading(i) ==
    \/ Create(i) \/ Created(i) \/ Append(i) \/ Read(i) \/ Publish(i) \/ Discard(i)

-----------------------------------------------------------------------------
\* Uploads whose bytes are on the disk or in the memory of a publisher.
Held == files \cup {upload[i] : i \in {j \in Callers : upc[j] = "publish"}}

\* Whatever expires, fails or is removed while calls wait for the disk, the bytes on
\* the disk and in the memory of publishers never exceed the quotas, in sum and per
\* principal.
UsageWithinQuota ==
    /\ Cardinality(Held) <= TotalCount /\ Size(Held) <= TotalBytes
    /\ \A u \in Uploads :
          /\ Cardinality(Own(Held, u)) <= PerPrincipalCount
          /\ Size(Own(Held, u)) <= PerPrincipalBytes

\* An upload is published at most once, although it may be committed again while its
\* first commit is publishing, or after that failed to remove it.
PublishedOnce == \A u \in Uploads : published[u] <= 1

\* A failed begin whose file could not be removed keeps its reservation, busy, until
\* the process ends.
Stuck(u) == u \in Reserved /\ chunkUploads[u].busy /\ \A i \in Callers : upload[i] # u
=============================================================================
