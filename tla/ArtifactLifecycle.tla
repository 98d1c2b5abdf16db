--------------------------- MODULE ArtifactLifecycle ---------------------------
(***************************************************************************)
(* Source files and the artifact records made of them.  ingestInventory    *)
(* registers a source root's files by their hash and marks replaced        *)
(* artifacts, and what rests on them, stale; normalizeArtifactLocal and    *)
(* parseArtifactWithMinerU extract their text, for a caller, for           *)
(* retryFailedParses or for the indexer's backfill.  An extraction takes   *)
(* minutes, after which the record is written back as it was read before.  *)
(*                                                                         *)
(* An artifact is named by its content.  A call that throws before it has  *)
(* changed anything has no action.                                         *)
(***************************************************************************)
EXTENDS Naturals, Sequences

CONSTANTS
    Callers, Indexer,     \* processes that run calls; the one that backfills
    Paths,                \* the files of the source root, in path order
    Contents, NoFile,     \* what a file may hold
    Markdown,             \* paths of Markdown files
    Scans,                \* contents whose local text has a warning: few characters
    OCR,                  \* providers.mineru.ocr_scanned
    Evidence, BehindOf,   \* evidence records, the artifact of each
    Derived, RefsOf,      \* accepted memories and supported claims, their references
    NoCall,
    Workloads             \* bounds: which calls a behaviour has, whose and how
                          \* many, how many edits of files, failures and corpus
                          \* builds; whether it backfills

PathSet == {Paths[n] : n \in DOMAIN Paths}

\* An artifact record.  text: what normalized_markdown_path names; parser:
\* parser_name; normalized: is there a local_normalization; error: is there a
\* parser_error_code.  at stands for updated_at: it differs between any two
\* records of an artifact.
Records == [status : {"registered", "parsing", "parsed", "failed", "stale"}, path : PathSet,
            text : {"none", "source", "local", "cloud"}, parser : {"none", "local", "cloud"},
            normalized : BOOLEAN, supplement : BOOLEAN, error : BOOLEAN, at : Nat]

ASSUME ArtifactAssumption ==
    /\ Indexer \in Callers
    /\ NoFile \notin Contents /\ Scans \subseteq Contents /\ Markdown \subseteq PathSet
    /\ BehindOf \in [Evidence -> Contents]
    /\ RefsOf \in [Derived -> SUBSET (Evidence \cup Contents)]
    /\ OCR \in BOOLEAN
    /\ Evidence \cap Derived = {}
    /\ NoCall \notin Contents \cup Records

VARIABLES
    disk,      \* path -> content
    artifact,  \* content -> record, for the registered ones
    local,     \* content -> is there a local-v1 directory, how often was it replaced
    source,    \* content -> what normalized/<id>/document.md holds
    locked,    \* contents with a .local-v1-lock directory
    stale,     \* evidence that is stale, memories and claims that are disputed
    running,   \* ingestion_job records that are running
    queued,    \* keys of the artifact_parsed packets that were enqueued
    deferred,  \* the indexer's retries: operations that wait for RETRY_MS
    pc, call, frame,
    workload, calls, edits, failures,
    restored,  \* history: contents that were on disk when, or have been since, their
               \* artifact was last marked stale
    cut,       \* history: artifacts whose cascade was cut short
    torn       \* history: artifacts a text file of which was touched by a call that did
               \* not get to write the record

files == <<local, source, locked>>
bounds == <<workload, calls, edits>>
apart == <<stale, running, deferred, bounds, failures, cut>>
rest == <<disk, restored, apart>>

NewRecord(p) ==
    [status |-> IF p \in Markdown THEN "parsed" ELSE "registered", path |-> p,
     text |-> IF p \in Markdown THEN "source" ELSE "none", parser |-> "none",
     normalized |-> FALSE, supplement |-> FALSE, error |-> FALSE, at |-> 0]

\* What a call remembers: the inventory and the place in it, the records read,
\* the artifacts and dependents still to be marked, the artifact it extracts,
\* the copy of its record, whether the old output was set aside, the Markdown it
\* has read, and the artifacts retry and backfill have yet to do.
NoFrame == [files |-> <<>>, n |-> 1, current |-> <<>>, priors |-> {}, dependents |-> {},
            c |-> NoCall, copy |-> NoCall, backup |-> FALSE, text |-> NoFile,
            todo |-> {}, ocr |-> FALSE]

Live(c) == c \in DOMAIN artifact /\ artifact[c].status # "stale"
OnDisk(c) == \E p \in PathSet : disk[p] = c
\* The artifact's source file is there and has the registered hash.
HoldsIfKnown(c) == c \in DOMAIN artifact
Holds(c) == c \in DOMAIN artifact /\ disk[artifact[c].path] = c
\* So it is still at the path of the copy of its record.
StillHolds(i) == disk[frame[i].copy.path] = frame[i].c

LifecycleInit ==
    /\ disk \in [PathSet -> Contents \cup {NoFile}]
    /\ artifact = <<>>
    /\ local = [c \in Contents |-> [there |-> FALSE, version |-> 0]]
    /\ source = [c \in Contents |-> NoFile]
    /\ locked = {} /\ stale = {} /\ running = 0 /\ queued = {} /\ deferred = {}
    /\ pc = [i \in Callers |-> "idle"]
    /\ call = [i \in Callers |-> NoCall]
    /\ frame = [i \in Callers |-> NoFrame]
    /\ workload \in Workloads
    /\ calls = 0 /\ edits = 0 /\ failures = 0
    /\ restored = {} /\ cut = {} /\ torn = {}

-----------------------------------------------------------------------------
(* The steps every call is made of *)

GoTo(i, place, f) == pc' = [pc EXCEPT ![i] = place] /\ frame' = [frame EXCEPT ![i] = f]

Begin(i, c, place, f) ==
    /\ pc[i] = "idle" /\ i \in workload.callers /\ c.op \in workload.ops
    /\ calls < workload.calls /\ calls' = calls + 1
    /\ call' = [call EXCEPT ![i] = c]
    /\ GoTo(i, place, f)
    /\ UNCHANGED <<workload, edits>>

Return(i) ==
    /\ call' = [call EXCEPT ![i] = NoCall]
    /\ GoTo(i, "idle", NoFrame)

\* upsertRecord: the whole record, whatever it is by now.
Upsert(c, r) ==
    /\ artifact' = [x \in DOMAIN artifact \cup {c} |->
                       IF x # c THEN artifact[x]
                       ELSE [r EXCEPT !.at = IF c \in DOMAIN artifact THEN artifact[c].at + 1 ELSE 1]]
    /\ torn' = torn \ {c}

-----------------------------------------------------------------------------
(* ingestInventory *)

\* The inventory, and the job as running; then the records are read.
BeginIngest(i) ==
    /\ Begin(i, [op |-> "ingest"], "list",
             [NoFrame EXCEPT !.files = [n \in DOMAIN Paths |->
                                          [path |-> Paths[n], c |-> disk[Paths[n]]]]])
    /\ running' = running + 1
    /\ UNCHANGED <<disk, restored, artifact, files, stale, queued, deferred, failures, cut, torn>>

ReadCurrent(i) ==
    /\ pc[i] = "list"
    /\ GoTo(i, "file", [frame[i] EXCEPT !.current = artifact])
    /\ UNCHANGED <<artifact, files, queued, call, torn, rest>>

File(i) == frame[i].files[frame[i].n]

Unchanged(c) == Live(c)

\* The artifacts this path had before, by the records read at the start.
Priors(i) ==
    LET known == frame[i].current
    IN  {c \in DOMAIN known \ {File(i).c} : known[c].path = File(i).path
                                            /\ known[c].status # "stale"}

\* A path without a file is not in the inventory.
ReadFile(i) ==
    /\ pc[i] = "file" /\ frame[i].n \in DOMAIN frame[i].files
    /\ IF File(i).c = NoFile \/ Unchanged(File(i).c) THEN GoTo(i, "file", [frame[i] EXCEPT !.n = @ + 1])
       ELSE GoTo(i, "cascade", [frame[i] EXCEPT !.priors = Priors(i)])
    /\ UNCHANGED <<artifact, files, queued, call, torn, rest>>

\* staleArtifactAndDependents: what is to follow the artifact.
DependentsOnArtifact(c) ==
    {e \in Evidence \ stale : BehindOf[e] = c} \cup {d \in Derived \ stale : c \in RefsOf[d]}
Dependents(c) ==
    LET gone == {e \in Evidence \ stale : BehindOf[e] = c}
    IN  gone \cup {d \in Derived \ stale : RefsOf[d] \cap (gone \cup {c}) # {}}

StalePrior(i) ==
    /\ pc[i] = "cascade" /\ frame[i].dependents = {}
    /\ \E c \in frame[i].priors :
          /\ Upsert(c, [frame[i].current[c] EXCEPT !.status = "stale"])
          /\ GoTo(i, "cascade", [frame[i] EXCEPT !.priors = @ \ {c}, !.dependents = Dependents(c),
                                                 !.c = c])
          /\ restored' = IF OnDisk(c) THEN restored \cup {c} ELSE restored \ {c}
    /\ UNCHANGED <<files, queued, call, disk, apart>>

\* One publication each: the evidence first, then the memories and claims.
StaleDependent(i) ==
    /\ pc[i] = "cascade"
    /\ \E x \in frame[i].dependents :
          /\ x \in Derived => frame[i].dependents \cap Evidence = {}
          /\ stale' = stale \cup {x}
          /\ GoTo(i, "cascade", [frame[i] EXCEPT !.dependents = @ \ {x}])
    /\ UNCHANGED <<disk, restored, artifact, files, running, queued, deferred, call, bounds,
                   failures, cut, torn>>

\* What the file's artifact replaces is marked.
Cleared(i) == pc[i] = "cascade" /\ frame[i].priors = {} /\ frame[i].dependents = {}

\* Markdown is read again, whatever it holds by now, ...
ReadMarkdown(i) ==
    /\ Cleared(i) /\ File(i).path \in Markdown /\ disk[File(i).path] # NoFile
    /\ GoTo(i, "copy", [frame[i] EXCEPT !.c = File(i).c, !.text = disk[File(i).path]])
    /\ UNCHANGED <<artifact, files, queued, call, torn, rest>>

FileIsGone(i) ==
    /\ Cleared(i) /\ File(i).path \in Markdown /\ disk[File(i).path] = NoFile
    /\ Return(i)
    /\ UNCHANGED <<artifact, files, queued, torn, rest>>

\* ... copied, ...
CopyMarkdown(i) ==
    /\ pc[i] = "copy"
    /\ source' = [source EXCEPT ![frame[i].c] = frame[i].text]
    /\ GoTo(i, "register", frame[i])
    /\ UNCHANGED <<artifact, local, locked, queued, call, torn, rest>>

\* ... and counts as parsed.  Other files are registered as they are.
Register(i) ==
    /\ pc[i] = "register" \/ (Cleared(i) /\ File(i).path \notin Markdown)
    /\ Upsert(File(i).c, NewRecord(File(i).path))
    /\ GoTo(i, "file", [frame[i] EXCEPT !.n = @ + 1, !.c = NoCall, !.text = NoFile])
    /\ UNCHANGED <<files, queued, call, rest>>

EndIngest(i) ==
    /\ pc[i] = "file" /\ frame[i].n \notin DOMAIN frame[i].files
    /\ running' = running - 1
    /\ Return(i)
    /\ UNCHANGED <<disk, restored, artifact, files, stale, queued, deferred, bounds, failures,
                   cut, torn>>

-----------------------------------------------------------------------------
(* How an extraction ends for the call that wanted it *)

Key(i) == <<frame[i].ocr, frame[i].c>>
PutDown(i) == [frame[i] EXCEPT !.c = NoCall, !.copy = NoCall, !.backup = FALSE]

Succeed(i) ==
    CASE call[i].op = "backfill" -> /\ deferred' = deferred \ {Key(i)}
                                    /\ GoTo(i, "backfill", PutDown(i)) /\ UNCHANGED call
      [] call[i].op = "retry" -> GoTo(i, "retry", PutDown(i)) /\ UNCHANGED <<call, deferred>>
      [] OTHER -> Return(i) /\ UNCHANGED deferred

\* A throw ends retryFailedParses too; the backfill goes on and tries again later.
Throw(i) ==
    IF call[i].op = "backfill"
    THEN /\ deferred' = deferred \cup {Key(i)}
         /\ GoTo(i, "backfill", PutDown(i)) /\ UNCHANGED call
    ELSE Return(i) /\ UNCHANGED deferred

\* A parse that returns "failed".
EndFailed(i) == IF call[i].op = "retry" THEN Succeed(i) ELSE Throw(i)

Enqueue(i, kind) == queued' = queued \cup {<<kind, frame[i].c>>}

-----------------------------------------------------------------------------
(* normalizeArtifactLocal and normalizeProjectDocument *)

Normalizable(c) == Holds(c) /\ c \notin locked

\* The record is read, the source is what was registered, the lock is taken.
TakeLock(i, c, f) ==
    /\ Normalizable(c)
    /\ locked' = locked \cup {c}
    /\ GoTo(i, "extract", [f EXCEPT !.c = c, !.copy = artifact[c]])

BeginNormalize(i) ==
    /\ pc[i] = "idle" /\ i \in workload.callers /\ "normalize" \in workload.ops
    /\ calls < workload.calls /\ calls' = calls + 1
    /\ call' = [call EXCEPT ![i] = [op |-> "normalize"]]
    /\ \E c \in Contents : TakeLock(i, c, NoFrame)
    /\ UNCHANGED <<disk, restored, artifact, local, source, stale, running, queued, deferred, workload,
                   edits, failures, cut, torn>>

\* The extractor is through and the source has not changed: the old output moves away.
MoveAway(i) ==
    /\ pc[i] = "extract" /\ StillHolds(i)
    /\ local' = [local EXCEPT ![frame[i].c].there = FALSE]
    /\ GoTo(i, "replace", [frame[i] EXCEPT !.backup = local[frame[i].c].there])
    /\ UNCHANGED <<artifact, source, locked, queued, call, torn, rest>>

MoveIn(i) ==
    /\ pc[i] = "replace"
    /\ local' = [local EXCEPT ![frame[i].c] = [there |-> TRUE, version |-> @.version + 1]]
    /\ GoTo(i, "unlock", frame[i])
    /\ UNCHANGED <<artifact, source, locked, queued, call, torn, rest>>

Unlock(i) ==
    /\ pc[i] = "unlock"
    /\ locked' = locked \ {frame[i].c}
    /\ GoTo(i, "normalized", frame[i])
    /\ UNCHANGED <<artifact, local, source, queued, call, torn, rest>>

\* The extractor fails or times out, or the source has changed; or the second
\* rename fails and the first is undone.  The lock goes and the call throws.
RollBackNothing(i) == local
RollBack(i) ==
    IF pc[i] = "replace" THEN [local EXCEPT ![frame[i].c].there = frame[i].backup] ELSE local
NormalizeFails(i) ==
    /\ pc[i] \in {"extract", "replace"}
    /\ \/ pc[i] = "extract" /\ ~StillHolds(i) /\ UNCHANGED failures
       \/ failures < workload.failures /\ failures' = failures + 1
    /\ local' = RollBack(i)
    /\ locked' = locked \ {frame[i].c}
    /\ torn' = IF pc[i] = "replace" THEN torn \cup {frame[i].c} ELSE torn
    /\ Throw(i)
    /\ UNCHANGED <<disk, restored, artifact, source, stale, running, queued, bounds, cut>>

\* A richer text that is still there is kept, and supplemented.
KeepsNothing(r) == FALSE
Keeps(r) == r.status = "parsed" /\ r.text \in {"source", "cloud"}

PublishNormalized(i) ==
    /\ pc[i] = "normalized"
    /\ LET c == frame[i].c
           copy == frame[i].copy
           r == [copy EXCEPT !.status = "parsed", !.normalized = TRUE]
       IN  Upsert(c, IF Keeps(copy) THEN [r EXCEPT !.supplement = copy.path \notin Markdown]
                     ELSE [r EXCEPT !.text = "local", !.parser = "local"])
    /\ GoTo(i, "offerNormalized", frame[i])
    /\ UNCHANGED <<files, queued, call, rest>>

OfferNormalized(i) ==
    /\ pc[i] = "offerNormalized"
    /\ Enqueue(i, "normalized")
    /\ Succeed(i)
    /\ UNCHANGED <<disk, restored, artifact, files, stale, running, bounds, failures, cut, torn>>

-----------------------------------------------------------------------------
(* parseArtifactWithMinerU *)

Readable(c) ==
    \/ artifact[c].text \in {"source", "cloud"}
    \/ artifact[c].text = "local" /\ local[c].there

\* Markdown is none of its types; a readable text is only replaced on demand.
AlreadyParsed(c) == artifact[c].status = "parsed" /\ Readable(c)
Parseable(c) == Holds(c) /\ artifact[c].path \notin Markdown

BeginParse(i) ==
    \E c \in Contents :
        /\ Parseable(c) /\ ~AlreadyParsed(c)
        /\ Begin(i, [op |-> "parse"], "mark", [NoFrame EXCEPT !.c = c, !.copy = artifact[c]])
        /\ UNCHANGED <<disk, restored, artifact, files, stale, running, queued, deferred,
                       failures, cut, torn>>

MarkParsing(i) ==
    /\ pc[i] = "mark"
    /\ Upsert(frame[i].c, [frame[i].copy EXCEPT !.status = "parsing", !.parser = "cloud"])
    /\ GoTo(i, "remote", frame[i])
    /\ UNCHANGED <<files, queued, call, rest>>

\* The service's result is complete and the source has not changed.
PublishParsed(i) ==
    /\ pc[i] = "remote" /\ StillHolds(i)
    /\ Upsert(frame[i].c, [frame[i].copy EXCEPT !.status = "parsed", !.parser = "cloud",
                             !.text = "cloud", !.error = FALSE,
                             !.supplement = @ \/ frame[i].copy.normalized])
    /\ GoTo(i, "offerParsed", frame[i])
    /\ UNCHANGED <<files, queued, call, rest>>

OfferParsed(i) ==
    /\ pc[i] = "offerParsed"
    /\ Enqueue(i, "parsed")
    /\ Succeed(i)
    /\ UNCHANGED <<disk, restored, artifact, files, stale, running, bounds, failures, cut, torn>>

\* The service fails, the source has changed, or the packet is refused.
ParseFails(i) ==
    /\ pc[i] \in {"remote", "offerParsed"}
    /\ \/ pc[i] = "remote" /\ ~StillHolds(i) /\ UNCHANGED failures
       \/ failures < workload.failures /\ failures' = failures + 1
    /\ GoTo(i, "failed", frame[i])
    /\ UNCHANGED <<disk, restored, artifact, files, stale, running, queued, deferred, call,
                   bounds, cut, torn>>

StatusAfterFailure(r) == IF r.status = "parsed" THEN "parsed" ELSE "failed"

PublishFailed(i) ==
    /\ pc[i] = "failed"
    /\ LET copy == frame[i].copy
       IN  Upsert(frame[i].c, [copy EXCEPT !.status = StatusAfterFailure(copy), !.error = TRUE,
                                 !.parser = IF copy.status = "parsed" THEN @ ELSE "cloud"])
    /\ EndFailed(i)
    /\ UNCHANGED <<disk, restored, files, stale, running, queued, bounds, failures, cut>>

-----------------------------------------------------------------------------
(* retryFailedParses *)

BeginRetry(i) ==
    /\ Begin(i, [op |-> "retry"], "retry",
             [NoFrame EXCEPT !.todo = {c \in DOMAIN artifact : artifact[c].status = "failed"
                                          /\ artifact[c].path \notin Markdown}])
    /\ UNCHANGED <<disk, restored, artifact, files, stale, running, queued, deferred, failures,
                   cut, torn>>

RetryOne(i) ==
    /\ pc[i] = "retry"
    /\ \E c \in frame[i].todo :
          LET f == [frame[i] EXCEPT !.todo = @ \ {c}] IN
          \/ AlreadyParsed(c) /\ GoTo(i, "retry", f) /\ UNCHANGED call
          \/ /\ ~AlreadyParsed(c) /\ Holds(c) /\ UNCHANGED call
             /\ GoTo(i, "mark", [f EXCEPT !.c = c, !.copy = artifact[c]])
          \/ ~AlreadyParsed(c) /\ ~Holds(c) /\ Return(i)
    /\ UNCHANGED <<artifact, files, queued, torn, rest>>

EndRetry(i) ==
    /\ pc[i] = "retry" /\ frame[i].todo = {}
    /\ Return(i)
    /\ UNCHANGED <<artifact, files, queued, torn, rest>>

-----------------------------------------------------------------------------
(* RetrievalBackfill.run *)

Normalized(c) == artifact[c].normalized
Recognized(c) == artifact[c].parser = "cloud" /\ artifact[c].status = "parsed" /\ ~artifact[c].error

\* One round: what is not stale, not done and not deferred.
ToNormalize == {c \in DOMAIN artifact : Live(c) /\ ~Normalized(c) /\ <<FALSE, c>> \notin deferred}
ToRecognize == {c \in DOMAIN artifact \cap Scans : Live(c) /\ Normalized(c) /\ ~Recognized(c)
                   /\ artifact[c].path \notin Markdown /\ <<TRUE, c>> \notin deferred}

BeginBackfill ==
    /\ pc[Indexer] = "idle" /\ workload.backfill
    /\ call' = [call EXCEPT ![Indexer] = [op |-> "backfill"]]
    /\ ToNormalize \cup ToRecognize # {}
    /\ GoTo(Indexer, "backfill", [NoFrame EXCEPT !.todo = ToNormalize])
    /\ UNCHANGED <<artifact, files, queued, torn, rest>>

BackfillOne ==
    /\ pc[Indexer] = "backfill"
    /\ \E c \in frame[Indexer].todo :
          LET f == [frame[Indexer] EXCEPT !.todo = @ \ {c}]
              ocr == f.ocr
          IN  \/ /\ ~ocr /\ TakeLock(Indexer, c, f) /\ UNCHANGED deferred
              \/ /\ ocr /\ Parseable(c)
                 /\ GoTo(Indexer, "mark", [f EXCEPT !.c = c, !.copy = artifact[c]])
                 /\ UNCHANGED <<locked, deferred>>
              \/ /\ IF ocr THEN ~Parseable(c) ELSE ~Normalizable(c)
                 /\ deferred' = deferred \cup {<<ocr, c>>}
                 /\ GoTo(Indexer, "backfill", f) /\ UNCHANGED locked
    /\ UNCHANGED <<disk, restored, artifact, local, source, stale, running, queued, call,
                   bounds, failures, cut, torn>>

\* The records are read again for the second pass.
BackfillOCR ==
    /\ pc[Indexer] = "backfill" /\ frame[Indexer].todo = {} /\ ~frame[Indexer].ocr /\ OCR
    /\ GoTo(Indexer, "backfill", [NoFrame EXCEPT !.todo = ToRecognize, !.ocr = TRUE])
    /\ UNCHANGED <<artifact, files, queued, call, torn, rest>>

EndBackfill ==
    /\ pc[Indexer] = "backfill" /\ frame[Indexer].todo = {} /\ (frame[Indexer].ocr \/ ~OCR)
    /\ Return(Indexer)
    /\ UNCHANGED <<artifact, files, queued, torn, rest>>

\* RETRY_MS pass, and the next round forgets the retries that are due.
RetriesKept == deferred
RetriesLeft == {}
RetryTimePasses ==
    /\ deferred # {} /\ deferred' = RetriesLeft
    /\ UNCHANGED <<disk, restored, artifact, files, stale, running, queued, pc, call, frame,
                   bounds, failures, cut, torn>>

-----------------------------------------------------------------------------
(* The environment *)

Edit(p) ==
    /\ edits < workload.edits /\ edits' = edits + 1
    /\ \E c \in (Contents \cup {NoFile}) \ {disk[p]} :
          /\ disk' = [disk EXCEPT ![p] = c]
          /\ restored' = restored \cup {c}
    /\ UNCHANGED <<artifact, files, stale, running, queued, deferred, pc, call, frame,
                   workload, calls, failures, cut, torn>>

\* Where a call has touched a text file of its artifact and not yet written the record.
Touching == {"replace", "unlock", "normalized", "register"}

\* The process of a call dies; or its publication fails, which ends an ingestion alike.
Crash(i) ==
    /\ pc[i] # "idle" /\ failures < workload.failures
    /\ failures' = failures + 1
    /\ cut' = IF pc[i] = "cascade" THEN cut \cup ({frame[i].c} \ {NoCall}) ELSE cut
    /\ torn' = IF pc[i] \in Touching THEN torn \cup {frame[i].c} ELSE torn
    /\ deferred' = IF i = Indexer THEN {} ELSE deferred
    /\ Return(i)
    /\ UNCHANGED <<disk, restored, artifact, files, stale, running, queued, bounds>>

Working(i) ==
    \/ ReadCurrent(i) \/ ReadFile(i) \/ StalePrior(i) \/ StaleDependent(i) \/ ReadMarkdown(i)
    \/ FileIsGone(i) \/ CopyMarkdown(i) \/ Register(i) \/ EndIngest(i)
    \/ MoveAway(i) \/ MoveIn(i) \/ Unlock(i) \/ NormalizeFails(i) \/ PublishNormalized(i)
    \/ OfferNormalized(i)
    \/ MarkParsing(i) \/ PublishParsed(i) \/ OfferParsed(i) \/ ParseFails(i) \/ PublishFailed(i)
    \/ RetryOne(i) \/ EndRetry(i)

Backfilling == BeginBackfill \/ BackfillOne \/ BackfillOCR \/ EndBackfill

LifecycleNext ==
    \/ \E i \in Callers :
          Working(i) \/ BeginIngest(i) \/ BeginNormalize(i) \/ BeginParse(i) \/ BeginRetry(i) \/ Crash(i)
    \/ Backfilling \/ RetryTimePasses
    \/ \E p \in PathSet : Edit(p)
-----------------------------------------------------------------------------
(* Properties *)

\* staleArtifactAndDependents leaves no trace of a replaced artifact behind: once
\* no cascade is under way, evidence of an artifact that was marked stale is stale
\* and no memory or claim that cites either is accepted, however calls overlap.
\* Only a crash in the middle of a cascade leaves, for good, what it had not reached.
CascadeDone ==
    \A c \in DOMAIN artifact :
        \/ artifact[c].status # "stale" \/ c \in cut
        \/ \E i \in Callers : pc[i] = "cascade" /\ frame[i].c = c
        \/ Dependents(c) = {}
           /\ \A d \in Derived, e \in Evidence :
                 BehindOf[e] = c /\ e \in RefsOf[d] => d \in stale

\* A stale artifact comes back only after its content did, or by a call that had
\* listed the content, or copied the record, before it went stale: a call checks
\* the source only when it copies the record and when it has the text.
StaleStaysStale ==
    [][\A c \in DOMAIN artifact :
          artifact[c].status = "stale" /\ artifact'[c].status # "stale" =>
              \/ c \in restored
              \/ \E i \in Callers : \/ frame[i].c = c /\ frame[i].copy # NoCall
                                       /\ frame[i].copy.at # artifact[c].at
                                    \/ \E n \in DOMAIN frame[i].files : frame[i].files[n].c = c]_artifact

\* A text that was parsed in the cloud is not lost to a poorer one, or to a
\* failure, except through a copy of the record made before the text was there or
\* while another parse was under way or had failed, or by an ingestion that found
\* the artifact not live before.
TextKept ==
    [][\A c \in DOMAIN artifact :
          artifact[c].text = "cloud" /\ artifact'[c].text # "cloud" =>
              \/ artifact[c].status = "stale" \/ artifact'[c].status = "stale"
              \/ \E i \in Callers : /\ frame[i].c = c /\ frame[i].copy # NoCall
                                    /\ \/ frame[i].copy.text # "cloud"
                                       \/ frame[i].copy.status # "parsed"
              \/ \E i \in Callers : pc[i] \in {"cascade", "register"} /\ File(i).c = c]_artifact

\* normalizeProjectDocument replaces its output by two renames; a record that
\* names the output finds it, unless the lock shows that a run is, or was when it
\* died, between the two.
OutputIsThere ==
    \A c \in DOMAIN artifact :
        artifact[c].normalized => local[c].there \/ c \in locked
=============================================================================
