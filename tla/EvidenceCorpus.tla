---------------------------- MODULE EvidenceCorpus ----------------------------
(***************************************************************************)
(* The corpus that is searched: for every artifact record the text its     *)
(* normalized_markdown_path names.  The server keeps one corpus, by the    *)
(* digest of the records; a request of other records starts a build, which *)
(* waits for the build before it, takes over the units of records that are *)
(* as they were, and reads the files of the others one after the other     *)
(* while the calls of ArtifactLifecycle replace them.  The corpus is kept  *)
(* in the index's tables too, from where a new process takes it.           *)
(***************************************************************************)
EXTENDS ArtifactLifecycle

VARIABLES
    builds,      \* corpora of the server, the newest, its corpusCache, last; the
                 \* first is built, the others wait
    projection,  \* corpus in the index: the records it is of, and its units
    built        \* number of builds so far

corpusVars == <<builds, projection, built>>
vars == <<disk, restored, artifact, files, stale, running, queued, deferred, pc, call, frame, bounds,
          failures, cut, torn, corpusVars>>

NoCorpus == [of |-> NoCall, units |-> <<>>]

\* The text unit of an artifact: what is read through its record r.
Text(c, r) ==
    CASE r.text = "none" -> <<"metadata only", 0>>
      [] r.text = "cloud" -> <<"cloud", 0>>
      [] r.text = "source" -> <<"source", source[c]>>
      [] r.text = "local" -> IF local[c].there THEN <<"local", local[c].version>>
                             ELSE <<"missing document", 0>>

CorpusInit ==
    /\ builds = <<>> /\ projection = NoCorpus /\ built = 0

-----------------------------------------------------------------------------
\* evidenceCorpus
Cached == IF builds = <<>> THEN NoCall ELSE builds[Len(builds)].of

\* A build has yet to read the records of its snapshot it has no unit of.
Build(units) == [of |-> artifact, units |-> units]
Unread(b) == DOMAIN b.of \ DOMAIN b.units
Complete(b) == Unread(b) = {}

\* loadCorpusProjection: the stored units, if they are of these records.
Loaded == IF projection.of = artifact THEN projection.units ELSE <<>>

BeginBuild ==
    /\ built < workload.builds /\ Cached # artifact
    /\ builds' = Append(builds, Build(Loaded))
    /\ built' = built + 1
    /\ UNCHANGED projection

\* evidenceCorpus(true): everything is read, and no build is waited for.
BeginRebuild ==
    /\ built < workload.builds
    /\ builds' = <<Build(<<>>)>>
    /\ built' = built + 1
    /\ UNCHANGED projection

ReadUnit ==
    /\ builds # <<>>
    /\ \E c \in Unread(builds[1]) :
          LET unit == Text(c, builds[1].of[c])
          IN  builds' = [builds EXCEPT ![1].units =
                           [x \in DOMAIN @ \cup {c} |-> IF x = c THEN unit ELSE @[x]]]
    /\ UNCHANGED <<projection, built>>

\* The next build takes over the units of the records that have not changed.
ReusableIfKnown(c, prior, b) == c \in DOMAIN prior.of
Reusable(c, prior, b) == c \in DOMAIN prior.of /\ prior.of[c] = b.of[c]

Proceed ==
    /\ Len(builds) > 1 /\ Complete(builds[1])
    /\ LET prior == builds[1]
           b == builds[2]
           known == {c \in Unread(b) : Reusable(c, prior, b)}
       IN  builds' = <<[b EXCEPT !.units = [c \in DOMAIN @ \cup known |->
                          IF c \in known THEN prior.units[c] ELSE @[c]]]>>
                     \o SubSeq(builds, 3, Len(builds))
    /\ UNCHANGED <<projection, built>>

\* synchronizeLexical: tables of the same revision are left as they are.
Synchronize ==
    /\ Len(builds) = 1 /\ Complete(builds[1]) /\ projection.of # builds[1].of
    /\ projection' = builds[1]
    /\ UNCHANGED <<builds, built>>

\* A build fails, or the server is restarted.
Forget ==
    /\ builds # <<>> /\ failures < workload.failures
    /\ failures' = failures + 1 /\ builds' = <<>>
    /\ UNCHANGED <<disk, restored, artifact, files, stale, running, queued, deferred, pc, call, frame,
                   bounds, cut, torn, projection, built>>

-----------------------------------------------------------------------------
Init == LifecycleInit /\ CorpusInit

Next ==
    \/ LifecycleNext /\ UNCHANGED corpusVars
    \/ /\ BeginBuild \/ BeginRebuild \/ ReadUnit \/ Proceed \/ Synchronize
       /\ UNCHANGED <<disk, restored, artifact, files, stale, running, queued, deferred, pc, call, frame,
                      bounds, failures, cut, torn>>
    \/ Forget

Spec == Init /\ [][Next]_vars

\* A process that is not killed goes on with its call, the indexer with its
\* rounds, and the retry time passes.
FairSpec ==
    /\ Spec
    /\ \A i \in Callers : WF_vars(Working(i) /\ UNCHANGED corpusVars)
    /\ WF_vars(Backfilling /\ UNCHANGED corpusVars)
    /\ WF_vars(RetryTimePasses /\ UNCHANGED corpusVars)

-----------------------------------------------------------------------------
(* Properties *)

Replacing(c) == \E i \in Callers : frame[i].c = c /\ pc[i] \in Touching

\* A corpus of the current records shows every artifact's text as its file is now,
\* although files are replaced while it is built and unchanged records are not
\* read again; except from the replacement of the file to its new record, and
\* after a replacement whose record was never written.
CorpusIsCurrent ==
    Len(builds) = 1 /\ Complete(builds[1]) /\ builds[1].of = artifact =>
        \A c \in DOMAIN artifact \ torn :
            Replacing(c) \/ builds[1].units[c] = Text(c, artifact[c])

\* The local text of an artifact whose source is unchanged is extracted in the end,
\* whatever calls, failures and restarts come in between, unless a process died and
\* left its lock, which nothing removes.
Orphaned(c) ==
    /\ c \in locked
    /\ \A i \in Callers : frame[i].c = c => pc[i] \notin {"extract", "replace", "unlock"}

NormalizedInTheEnd ==
    \A c \in Contents :
        (workload.backfill /\ Live(c)) ~>
            (Live(c) /\ Holds(c) => artifact[c].normalized \/ Orphaned(c))
=============================================================================
