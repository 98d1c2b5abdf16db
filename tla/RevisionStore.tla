---------------------------- MODULE RevisionStore ----------------------------
(***************************************************************************)
(* The canonical revision store: several processes publish batches of      *)
(* record files into one knowledge root.  Each publication takes the       *)
(* .write-lock directory, reads the pointer, stages a complete snapshot,   *)
(* renames it under revisions/, switches the pointer file and removes the  *)
(* lock.  Every step is a separate file-system call, so other processes    *)
(* run and crashes happen between any two of them.                         *)
(*                                                                         *)
(* A revision's directory is named hash(parent, mutations): it is modelled *)
(* by the sequence of batches from the legacy root to it.  Staging         *)
(* directories carry random names and are never read by anybody else, so   *)
(* only their content is kept.  The .write-lock directory is absent, fresh *)
(* or old, where old means that its mtime is more than five minutes ago.   *)
(***************************************************************************)
EXTENDS Naturals, Sequences

CONSTANTS
    Writers,     \* processes with an open store on the same root
    Records,     \* record file names
    Values,      \* what a record file may contain
    Absent,      \* no file of that name in the snapshot
    Legacy,      \* the mutable tree imported when there is no pointer
    Batches,     \* mutation lists: record -> new content
    Aging,       \* when a lock may become old: never, abandoned or any
    MaxDepth,    \* bound: no new request once the history is this long
    MaxCrashes   \* bound on process crashes

Content == [Records -> Values \cup {Absent}]
Revision == Seq(Batches)

ASSUME ConstantsAssumption ==
    /\ Legacy \in Content
    /\ Batches \subseteq UNION {[S -> Values] : S \in SUBSET Records}
    /\ Batches # {}
    /\ Aging \in {"never", "abandoned", "any"}
    /\ MaxDepth \in Nat
    /\ MaxCrashes \in Nat

VARIABLES
    pointer,     \* knowledge/current-revision.json; <<>> when absent
    snapshots,   \* knowledge/revisions/*: revision -> canonical content
    lock,        \* knowledge/.write-lock
    pc,          \* per writer: where its publish() is
    request,     \* per writer: the captured mutations and expectedParent
    base,        \* per writer: the pointer read under the lock
    staged,      \* per writer: content of its staging directory
    result,      \* per writer: what publish() will return once unlocked
    crashes,
    committed,   \* history: revisions the pointer has named
    acked        \* history: revisions whose publish() has returned

fsVars  == <<pointer, snapshots, lock>>
history == <<committed, acked>>
vars == <<pointer, snapshots, lock, pc, request, base, staged, result,
          crashes, committed, acked>>

Requests == [batch : Batches, cas : BOOLEAN, expected : Revision]

\* The local variables of a publish() that is not running.
NoRequest == [batch |-> CHOOSE b \in Batches : TRUE, cas |-> FALSE, expected |-> <<>>]

Phases == {"idle", "locking", "breaking", "reading", "staging", "staged",
           "published", "committed", "releasing"}

\* The writer believes it holds the write lock.
Inside == {"reading", "staging", "staged", "published", "committed",
           "releasing"}

Init ==
    /\ pointer = <<>>
    /\ snapshots = [r \in {} |-> Legacy]
    /\ lock = "absent"
    /\ pc = [w \in Writers |-> "idle"]
    /\ request = [w \in Writers |-> NoRequest]
    /\ base = [w \in Writers |-> <<>>]
    /\ staged = [w \in Writers |-> Legacy]
    /\ result = [w \in Writers |-> "none"]
    /\ crashes = 0
    /\ committed = {}
    /\ acked = {}

-----------------------------------------------------------------------------
(* What the steps test and compute *)

GoTo(w, phase) == pc' = [pc EXCEPT ![w] = phase]

\* Leave the critical section; publish() will return res once unlocked.
Leave(w, res) ==
    /\ GoTo(w, "releasing")
    /\ result' = [result EXCEPT ![w] = res]

\* publish() is over, or its process died: its local variables are gone.
Forget(w) ==
    /\ GoTo(w, "idle")
    /\ request' = [request EXCEPT ![w] = NoRequest]
    /\ base' = [base EXCEPT ![w] = <<>>]
    /\ staged' = [staged EXCEPT ![w] = Legacy]
    /\ result' = [result EXCEPT ![w] = "none"]

\* The canonical tree a publication starts from.
ContentOf(rev) == IF rev = <<>> THEN Legacy ELSE snapshots[rev]

\* The staged snapshot: unchanged files linked from the base, changed ones written.
ApplyToLegacy(content, batch) ==
    [r \in Records |-> IF r \in DOMAIN batch THEN batch[r] ELSE Legacy[r]]
Apply(content, batch) ==
    [r \in Records |-> IF r \in DOMAIN batch THEN batch[r] ELSE content[r]]

\* The name of the revision this publication creates.
TargetWithoutParent(w) == <<request[w].batch>>
Target(w) == Append(base[w], request[w].batch)

\* The caller passed an expectedParent and the pointer is another one.
NeverStaleBase(w) == FALSE
BaseIsStale(w) == request[w].cas /\ request[w].expected # pointer

\* mkdir(lock) succeeds; with { recursive: true } it would not fail on EEXIST.
LockIsFreeRecursive == lock \in {"absent", "fresh"}
LockIsFree == lock = "absent"

\* The mtime of the lock is more than five minutes in the past.
LockNeverStale == FALSE
LockIsStale == lock = "old"

\* publishedDirectory && !committed
RemovesPublished(w) == pc[w] \in {"published", "committed"}
RemovesUncommitted(w) == pc[w] = "published"

-----------------------------------------------------------------------------
(* The caller: publish() captures the batch before it waits.  One          *)
(* publication per process is in flight: the others wait in its promise    *)
(* queue, so the queue is the order in which Request happens.              *)

Request(w) ==
    /\ pc[w] = "idle"
    /\ Len(pointer) < MaxDepth
    /\ \E b \in Batches, cas \in BOOLEAN :
          request' = [request EXCEPT ![w] =
              [batch |-> b, cas |-> cas, expected |-> IF cas THEN pointer ELSE <<>>]]
    /\ GoTo(w, "locking")
    /\ UNCHANGED <<fsVars, base, staged, result, crashes, history>>

(* withWriteLock *)

AcquireLock(w) ==
    /\ pc[w] = "locking"
    /\ LockIsFree
    /\ lock' = "fresh"
    /\ GoTo(w, "reading")
    /\ UNCHANGED <<pointer, snapshots, request, base, staged, result, crashes,
                   history>>

\* EEXIST, and stat shows an mtime of more than five minutes ago.
SeeStaleLock(w) ==
    /\ pc[w] = "locking"
    /\ LockIsStale
    /\ GoTo(w, "breaking")
    /\ UNCHANGED <<fsVars, request, base, staged, result, crashes, history>>

\* rm({ force: true }): removes whatever lock is there now.
RemoveStaleLock(w) ==
    /\ pc[w] = "breaking"
    /\ lock' = "absent"
    /\ GoTo(w, "locking")
    /\ UNCHANGED <<pointer, snapshots, request, base, staged, result, crashes,
                   history>>

\* A lock that is not stale, and 15 seconds have passed.
TimeOut(w) ==
    /\ pc[w] = "locking"
    /\ ~LockIsFree
    /\ ~LockIsStale
    /\ Forget(w)
    /\ UNCHANGED <<fsVars, crashes, history>>

\* Also removes the lock of another writer, if that is the one there now.
ReleaseLock(w) ==
    /\ pc[w] = "releasing"
    /\ lock' = "absent"
    /\ acked' = IF result[w] = "ok" THEN acked \cup {Target(w)} ELSE acked
    /\ Forget(w)
    /\ UNCHANGED <<pointer, snapshots, crashes, committed>>

(* publishUnlocked *)

\* Reads the pointer; then the parent, name and quota checks, none of which
\* leaves a trace.  A quota or a bad file name may refuse any batch.
ReadBase(w) ==
    /\ pc[w] = "reading"
    /\ base' = [base EXCEPT ![w] = pointer]
    /\ \/ /\ ~BaseIsStale(w)
          /\ GoTo(w, "staging")
          /\ UNCHANGED result
       \/ Leave(w, "refused")
    /\ UNCHANGED <<fsVars, request, staged, crashes, history>>

\* Links, writes and fsyncs the complete snapshot and its manifest.
Stage(w) ==
    /\ pc[w] = "staging"
    /\ staged' = [staged EXCEPT ![w] = Apply(ContentOf(base[w]), request[w].batch)]
    /\ GoTo(w, "staged")
    /\ UNCHANGED <<fsVars, request, base, result, crashes, history>>

\* rename(staging, revisionDir): refused when that revision is there already.
PublishDirectory(w) ==
    /\ pc[w] = "staged"
    /\ IF Target(w) \in DOMAIN snapshots
       THEN Leave(w, "failed") /\ UNCHANGED snapshots
       ELSE /\ snapshots' = [r \in DOMAIN snapshots \cup {Target(w)} |->
                    IF r = Target(w) THEN staged[w] ELSE snapshots[r]]
            /\ GoTo(w, "published")
            /\ UNCHANGED result
    /\ UNCHANGED <<pointer, lock, request, base, staged, crashes, history>>

\* rename(pointerTemp, pointerPath): the publication takes effect.
SwitchPointer(w) ==
    /\ pc[w] = "published"
    /\ pointer' = Target(w)
    /\ committed' = committed \cup {Target(w)}
    /\ GoTo(w, "committed")
    /\ UNCHANGED <<snapshots, lock, request, base, staged, result, crashes, acked>>

\* The last fsync succeeds.
Complete(w) ==
    /\ pc[w] = "committed"
    /\ Leave(w, "ok")
    /\ UNCHANGED <<fsVars, request, base, staged, crashes, history>>

\* A file operation throws: the staging directory goes, and the renamed
\* directory too unless the pointer already names it.
FailPublish(w) ==
    /\ pc[w] \in {"staging", "staged", "published", "committed"}
    /\ snapshots' = IF RemovesUncommitted(w)
                    THEN [r \in DOMAIN snapshots \ {Target(w)} |-> snapshots[r]]
                    ELSE snapshots
    /\ Leave(w, IF pc[w] = "committed" THEN "unsynced" ELSE "failed")
    /\ UNCHANGED <<pointer, lock, request, base, staged, crashes, history>>

-----------------------------------------------------------------------------
(* The environment *)

\* The process dies and restarts; what it did to the files stays.
Crash(w) ==
    /\ pc[w] # "idle"
    /\ crashes < MaxCrashes
    /\ crashes' = crashes + 1
    /\ Forget(w)
    /\ UNCHANGED <<fsVars, history>>

\* Five minutes pass over the lock: never, only when no writer is at work, or
\* also while a slow one is.
AgeLock ==
    /\ lock = "fresh"
    /\ \/ Aging = "any"
       \/ Aging = "abandoned" /\ \A w \in Writers : pc[w] \notin Inside
    /\ lock' = "old"
    /\ UNCHANGED <<pointer, snapshots, pc, request, base, staged, result, crashes,
                   history>>

-----------------------------------------------------------------------------
\* The steps of publish() itself: Node runs each promise to its end.
Proceed(w) ==
    \/ AcquireLock(w) \/ SeeStaleLock(w) \/ RemoveStaleLock(w) \/ TimeOut(w)
    \/ ReadBase(w) \/ Stage(w) \/ PublishDirectory(w) \/ SwitchPointer(w)
    \/ Complete(w) \/ ReleaseLock(w)

Next ==
    \/ \E w \in Writers : Request(w) \/ Proceed(w) \/ FailPublish(w) \/ Crash(w)
    \/ AgeLock

Fairness == WF_vars(AgeLock) /\ \A w \in Writers : WF_vars(Proceed(w))

Spec == Init /\ [][Next]_vars

FairSpec == Spec /\ Fairness

-----------------------------------------------------------------------------
(* Properties *)

\* Types, and the range of the pointer: the revision directory it names is
\* there, so pointer() never takes a published store for an empty one.
TypeOK ==
    /\ pointer \in Revision
    /\ pointer \in {<<>>} \cup DOMAIN snapshots
    /\ DOMAIN snapshots \subseteq Revision
    /\ snapshots \in [DOMAIN snapshots -> Content]
    /\ lock \in {"absent", "fresh", "old"}
    /\ pc \in [Writers -> Phases]
    /\ request \in [Writers -> Requests]
    /\ base \in [Writers -> Revision]
    /\ staged \in [Writers -> Content]
    /\ result \in [Writers -> {"none", "ok", "refused", "failed", "unsynced"}]
    /\ crashes \in 0 .. MaxCrashes
    /\ committed \subseteq Revision
    /\ acked \subseteq Revision

\* One process at a time is between taking and removing the write lock.
SingleWriter ==
    \A v, w \in Writers : pc[v] \in Inside /\ pc[w] \in Inside => v = w

\* A publication that returned to its caller is in the history of the active
\* revision ever after: no other writer's publication replaces it.
AckedInHistory ==
    \A r \in acked :
        Len(r) <= Len(pointer) /\ \A i \in 1 .. Len(r) : r[i] = pointer[i]

\* Each record is what the last batch of the history that writes it says; the
\* legacy tree's when none does.
IsReplayOf(content, rev) ==
    \A x \in Records :
        /\ \A i \in 1 .. Len(rev) :
              /\ x \in DOMAIN rev[i]
              /\ \A j \in i + 1 .. Len(rev) : x \notin DOMAIN rev[j]
              => content[x] = rev[i][x]
        /\ (\A i \in 1 .. Len(rev) : x \notin DOMAIN rev[i]) => content[x] = Legacy[x]

\* Every revision directory, orphans included, replays its whole history, and no
\* revision is built on an orphan.
SnapshotsReplayHistory ==
    \A r \in DOMAIN snapshots :
        /\ r # <<>>
        /\ SubSeq(r, 1, Len(r) - 1) \in {<<>>} \cup committed
        /\ IsReplayOf(snapshots[r], r)

\* A snapshot the pointer has named is never removed and never changes, so a
\* reader that resolved the pointer keeps a consistent view.
CommittedImmutable ==
    [][\A r \in committed : r \in DOMAIN snapshots' /\ snapshots'[r] = snapshots[r]]_vars

\* The pointer moves only from the revision its publisher expected.
CompareAndSwap ==
    [][\A w \in Writers :
          pc[w] = "published" /\ pc'[w] = "committed" /\ request[w].cas
              => pointer = request[w].expected]_vars

\* If publishers keep coming, a lock left by a dead process does not keep
\* them out for ever.
LockRecovered ==
    ([]<>(\E w \in Writers : pc[w] = "locking")) => []<>(lock = "absent")

\* What a caller can know of its publish(): running, or in effect already.
CallOf(w) ==
    IF pc[w] = "idle" THEN "none"
    ELSE IF \/ pc[w] = "committed"
            \/ pc[w] = "releasing" /\ result[w] \in {"ok", "unsynced"}
         THEN "done" ELSE "open"

Chain == INSTANCE RevisionChain WITH
    head <- pointer, call <- [w \in Writers |-> CallOf(w)], want <- request

\* publish() is one atomic compare-and-swap on the chain of revisions.
AtomicPublication == Chain!Spec
=============================================================================
