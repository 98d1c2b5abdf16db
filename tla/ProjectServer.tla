----------------------------- MODULE ProjectServer -----------------------------
(***************************************************************************)
(* The server's process: its sessions and the uploads made in them end     *)
(* with it, and nothing else of either is released but by its own rules.   *)
(***************************************************************************)
EXTENDS ChunkUploads, McpSessions

CONSTANTS
    Writers,    \* connections of principals whose profile is not project-read
    Workloads   \* bounds: which connections and uploads there are, how many failures
                \* of removals and deaths of the process

ASSUME ServerAssumption ==
    /\ Writers \subseteq Connections
    /\ \A w \in Workloads :
          /\ w.sessions \subseteq Connections /\ w.uploads \subseteq Uploads
          /\ {w.removals, w.deaths} \subseteq Nat

VARIABLES workload, deaths

vars == <<uploadVars, sessionVars, workload, deaths>>

Init ==
    /\ UploadsInit /\ SessionsInit
    /\ workload \in Workloads /\ deaths = 0

OfUploads(action) ==
    /\ action /\ begun' \subseteq workload.uploads /\ removals' <= workload.removals
    /\ UNCHANGED <<sessionVars, workload, deaths>>
OfSessions(action) ==
    /\ action /\ reservations' \subseteq workload.sessions
    /\ UNCHANGED <<uploadVars, workload, deaths>>

\* A session's tools are registered when it is created: a writer's prepare the
\* directory of the uploads, which nothing does when the process starts.
OpenSession(c) ==
    /\ Reserve(c)
    /\ IF c \in Writers THEN StartPreparing ELSE UNCHANGED sweeper
    /\ UNCHANGED <<chunkUploads, files, upc, upload, begun, published, pid, orphans,
                   removals, workload, deaths>>

\* The process is killed and started again.
Restart ==
    /\ deaths < workload.deaths /\ deaths' = deaths + 1
    /\ Die /\ SessionsDie
    /\ UNCHANGED workload

Next ==
    \/ \E i \in Callers : OfUploads(UploadCall(i)) \/ OfUploads(Uploading(i))
    \/ \E u \in Uploads : OfUploads(Cleanup(u)) \/ OfUploads(Expires(u))
    \/ OfUploads(PrepareDirectory) \/ OfUploads(CleanupOrphans)
    \/ \E c \in workload.sessions :
          \/ OpenSession(c) \/ OfSessions(Connect(c)) \/ OfSessions(Initialising(c))
          \/ OfSessions(Disconnect(c)) \/ OfSessions(Request(c))
          \/ OfSessions(GrowOld(c)) \/ OfSessions(Sweep(c))
    \/ workload.sessions # {} /\ OfSessions(Stop)
    \/ Restart

Spec == Init /\ [][Next]_vars

\* Time passes, the sweepers that were started run, and a handler that was called
\* back goes on; a connection, or the uploads' directory, need never come about.
\* Where an upload is reserved the sweeper is on.
FairSpec ==
    /\ Spec
    /\ \A i \in Callers : WF_vars(OfUploads(Uploading(i)))
    /\ \A u \in Uploads : WF_vars(OfUploads(Cleanup(u))) /\ WF_vars(OfUploads(Expires(u)))
    /\ WF_vars(OfUploads(CleanupOrphans))
    /\ \A c \in Connections :
          /\ WF_vars(OfSessions(Initialising(c))) /\ WF_vars(OfSessions(GrowOld(c)))
          /\ WF_vars(OfSessions(Sweep(c)))

-----------------------------------------------------------------------------
(* Properties *)

\* Nothing is held for ever: an upload is released and its file removed, unless its
\* begin failed and could not remove the file; so are the files of a dead process,
\* once a writer's session or an upload has started the sweeper of a later one, unless
\* that has the number of the dead one; and the place of a session whose client has
\* gone, wherever its initialisation was.
EverythingIsReleased ==
    /\ \A u \in Uploads : u \in Reserved ~> (u \notin Reserved \/ Stuck(u))
    /\ (sweeper = "on" /\ orphans # {}) ~> (orphans \subseteq {pid} \/ sweeper # "on")
    /\ \A c \in Connections : c \in gone \cap reservations ~> c \notin reservations
=============================================================================
